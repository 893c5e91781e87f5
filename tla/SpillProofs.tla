----------------------------- MODULE SpillProofs -----------------------------
(***************************************************************************)
(* Proofs about SpillManager.  When the pool demotes to one form only, raw *)
(* or compressed, promotion always loads what was demoted last and no      *)
(* spill file escapes its map unless its removal failed, for any number of *)
(* blocks and any sequence of failed reads, writes and removals.           *)
(***************************************************************************)
EXTENDS SpillManager, TLAPS

\* No block has an entry or a file of a form other than k.
OnlyForm(k) ==
  /\ \A f \in Form : f # k => path[f] = {} /\ \A b \in Block : host[f][b] = None /\ disk[f][b] = None
  /\ io # Idle => io.form = k

\* Where the last demoted contents of a block are while no I/O is under way
\* on it: in the tier its entry names.
Settled(k, b) ==
  \/ last[b] = None /\ host[k][b] = None /\ b \notin path[k]
  \/ last[b] # None /\ tier[b] = "host" /\ host[k][b] = last[b]
  \/ last[b] # None /\ tier[b] = "nvme" /\ host[k][b] = None /\ b \in path[k] /\ disk[k][b] = last[b]

\* The contents an operation took out of a map are still in its hands, and
\* the tier entry is the one the put-back needs.
InHand(k, b) ==
  /\ last[b] # None /\ host[k][b] = None /\ io.data = last[b]
  /\ \/ io.op = "write" /\ tier[b] = "host"
     \/ io.op = "read" /\ tier[b] = "nvme" /\ disk[k][b] = last[b] /\ b \notin path[k]

\* An entry has its file; a file without an entry is the one being read, or
\* one that could not be removed.
Tracked(k, b) ==
  /\ b \in path[k] => disk[k][b] # None
  /\ disk[k][b] # None => \/ b \in path[k] \cup stuck[k]
                          \/ io # Idle /\ io.op = "read" /\ io.block = b

\* The inductive invariant: the put-back of a failed operation needs to know
\* where the contents were before it started, which LatestIsPromoted, a
\* statement about idle states, does not say.
Kept(k) ==
  /\ TypeOK
  /\ OnlyForm(k)
  /\ \A b \in Block : IF io # Idle /\ io.block = b THEN InHand(k, b) ELSE Settled(k, b)
  /\ \A b \in Block : Tracked(k, b)

-----------------------------------------------------------------------------

\* A busy operation has the fields of a record of Io.
LEMMA BusyIo ==
  ASSUME io \in Io, io # Idle
  PROVE  /\ io.form \in Form /\ io.block \in Block /\ io.data \in Value \cup {None}
         /\ io.op \in {"write", "read"}
BY DEF Io, Idle

\* Every step keeps the type of the state.
LEMMA TypeStep == TypeOK /\ [Next]_vars => TypeOK'
<1> SUFFICES ASSUME TypeOK, [Next]_vars PROVE TypeOK'
    OBVIOUS
<1> USE ValueAssumption, FormAssumption
<1>1. ASSUME NEW b \in Block, NEW f \in Form, NEW v \in Value, Demote(f, b, v) PROVE TypeOK'
  BY <1>1 DEF Demote, TypeOK, Supersedes
<1>2. ASSUME NEW b \in Block, NEW f \in Form, WriteStart(f, b) PROVE TypeOK'
  BY <1>2 DEF WriteStart, TypeOK, Io
<1>3. ASSUME NEW b \in Block, NEW f \in Form, ReadStart(f, b) PROVE TypeOK'
  BY <1>3 DEF ReadStart, TypeOK, Io
<1>4. ASSUME NEW b \in Block, Evict(b) PROVE TypeOK'
  BY <1>4 DEF Evict, TypeOK
<1>5. ASSUME io # Idle PROVE io.form \in Form /\ io.block \in Block /\ io.data \in Value \cup {None}
  BY <1>5, BusyIo DEF TypeOK
<1>6. CASE WriteDone
  BY <1>5, <1>6 DEF WriteDone, TypeOK, Io, Idle
<1>7. CASE WriteFail
  BY <1>5, <1>7 DEF WriteFail, TypeOK, Io, Idle
<1>8. CASE ReadDone
  <2>1. io.form \in Form /\ io.block \in Block /\ io.data \in Value \cup {None}
    BY <1>5, <1>8 DEF ReadDone, Idle
  <2>2. disk' \in [Form -> [Block -> Value \cup {None}]] /\ stuck' \in [Form -> SUBSET Block]
    <3>1. disk \in [Form -> [Block -> Value \cup {None}]] /\ stuck \in [Form -> SUBSET Block]
      BY DEF TypeOK
    <3>2. CASE disk' = [disk EXCEPT ![io.form][io.block] = None] /\ UNCHANGED stuck
      BY <2>1, <3>1, <3>2
    <3>3. CASE stuck' = [stuck EXCEPT ![io.form] = @ \cup {io.block}] /\ UNCHANGED disk
      BY <2>1, <3>1, <3>3
    <3> QED
      BY <1>8, <3>2, <3>3 DEF ReadDone
  <2> QED
    BY <1>8, <2>1, <2>2 DEF ReadDone, TypeOK, Io
<1>9. CASE ReadFail
  BY <1>5, <1>9 DEF ReadFail, TypeOK, Io, Idle
<1>10. CASE UNCHANGED vars
  BY <1>10 DEF vars, TypeOK
<1> QED
  BY <1>1, <1>2, <1>3, <1>4, <1>6, <1>7, <1>8, <1>9, <1>10 DEF Next

\* Every step keeps the inductive invariant when one form is in use.
LEMMA KeptStep ==
  ASSUME NEW k \in {"raw", "compressed"}, Forms = {k}, Kept(k), [Next]_vars
  PROVE  Kept(k)'
<1> USE ValueAssumption DEF Form
<1>1. TypeOK /\ TypeOK'
  BY TypeStep DEF Kept
<1>2. ASSUME NEW b \in Block, NEW f \in Form, NEW v \in Value, Demote(f, b, v) PROVE Kept(k)'
  <2>1. io = Idle /\ io' = Idle /\ f = k
    BY <1>2 DEF Demote
  <2>2. OnlyForm(k)'
    BY <1>1, <1>2, <2>1 DEF Demote, Kept, OnlyForm, TypeOK, Supersedes
  <2>3. \A c \in Block : Settled(k, c)'
    BY <1>1, <1>2, <2>1 DEF Demote, Kept, Settled, TypeOK, Supersedes
  <2>4. \A c \in Block : Tracked(k, c)'
    BY <1>1, <1>2, <2>1 DEF Demote, Kept, Tracked, TypeOK, Supersedes
  <2> QED
    BY <1>1, <2>1, <2>2, <2>3, <2>4 DEF Kept
<1>3. ASSUME NEW b \in Block, NEW f \in Form, WriteStart(f, b) PROVE Kept(k)'
  <2>1. io = Idle /\ io' # Idle /\ io'.block = b /\ io'.op = "write" /\ io'.form = f
    BY <1>3 DEF WriteStart, Idle
  <2>2. f = k
    BY <1>3 DEF WriteStart, Kept, OnlyForm
  <2>3. OnlyForm(k)'
    BY <1>1, <1>3, <2>1, <2>2 DEF WriteStart, Kept, OnlyForm, TypeOK
  <2>4. InHand(k, b)'
    BY <1>1, <1>3, <2>1, <2>2 DEF WriteStart, Kept, InHand, Settled, TypeOK
  <2>5. \A c \in Block : c # b => Settled(k, c)'
    BY <1>1, <1>3, <2>1, <2>2 DEF WriteStart, Kept, Settled, TypeOK
  <2>6. \A c \in Block : Tracked(k, c)'
    BY <1>1, <1>3, <2>1, <2>2 DEF WriteStart, Kept, Tracked, TypeOK
  <2> QED
    BY <1>1, <2>1, <2>3, <2>4, <2>5, <2>6 DEF Kept
<1>4. ASSUME NEW b \in Block, NEW f \in Form, ReadStart(f, b) PROVE Kept(k)'
  <2>1. io = Idle /\ io' # Idle /\ io'.block = b /\ io'.op = "read" /\ io'.form = f
    BY <1>4 DEF ReadStart, Idle
  <2>2. f = k
    BY <1>4 DEF ReadStart, OnDisk, Kept, OnlyForm
  <2>3. OnlyForm(k)'
    BY <1>1, <1>4, <2>1, <2>2 DEF ReadStart, Kept, OnlyForm, TypeOK
  <2>4. InHand(k, b)'
    BY <1>1, <1>4, <2>1, <2>2 DEF ReadStart, OnDisk, Kept, InHand, Settled, TypeOK
  <2>5. \A c \in Block : c # b => Settled(k, c)'
    BY <1>1, <1>4, <2>1, <2>2 DEF ReadStart, Kept, Settled, TypeOK
  <2>6. \A c \in Block : Tracked(k, c)'
    BY <1>1, <1>4, <2>1, <2>2 DEF ReadStart, Kept, Tracked, TypeOK
  <2> QED
    BY <1>1, <2>1, <2>3, <2>4, <2>5, <2>6 DEF Kept
<1>5. ASSUME NEW b \in Block, Evict(b) PROVE Kept(k)'
  <2>1. io = Idle /\ io' = Idle
    BY <1>5 DEF Evict
  <2>2. OnlyForm(k)'
    BY <1>1, <1>5, <2>1 DEF Evict, Kept, OnlyForm, TypeOK
  <2>3. \A c \in Block : Settled(k, c)'
    BY <1>1, <1>5, <2>1 DEF Evict, Kept, Settled, TypeOK
  <2>4. \A c \in Block : Tracked(k, c)'
    BY <1>1, <1>5, <2>1 DEF Evict, Kept, Tracked, TypeOK
  <2> QED
    BY <1>1, <2>1, <2>2, <2>3, <2>4 DEF Kept
<1>6. ASSUME WriteDone \/ WriteFail \/ ReadDone \/ ReadFail PROVE Kept(k)'
  <2>1. io # Idle /\ io' = Idle
    BY <1>6 DEF WriteDone, WriteFail, ReadDone, ReadFail, Idle
  <2>2. io.form = k /\ io.block \in Block /\ io.data \in Value \cup {None}
    BY <1>1, <2>1, BusyIo DEF Kept, OnlyForm, TypeOK
  <2>3. InHand(k, io.block) /\ \A c \in Block : c # io.block => Settled(k, c)
    BY <2>1, <2>2 DEF Kept
  <2>4. CASE WriteDone
    <3>1. OnlyForm(k)'
      BY <1>1, <2>1, <2>2, <2>4 DEF WriteDone, Kept, OnlyForm, TypeOK
    <3>2. \A c \in Block : Settled(k, c)'
      BY <1>1, <2>2, <2>3, <2>4 DEF WriteDone, InHand, Settled, TypeOK
    <3>3. \A c \in Block : Tracked(k, c)'
      BY <1>1, <2>1, <2>2, <2>3, <2>4 DEF WriteDone, Kept, InHand, Tracked, TypeOK
    <3> QED
      BY <1>1, <2>1, <3>1, <3>2, <3>3 DEF Kept
  <2>5. CASE WriteFail
    <3>1. OnlyForm(k)'
      BY <1>1, <2>1, <2>2, <2>5 DEF WriteFail, Kept, OnlyForm, TypeOK
    <3>2. \A c \in Block : Settled(k, c)'
      BY <1>1, <2>2, <2>3, <2>5 DEF WriteFail, InHand, Settled, TypeOK
    <3>3. \A c \in Block : Tracked(k, c)'
      BY <1>1, <2>2, <2>5 DEF WriteFail, Kept, Tracked, TypeOK
    <3> QED
      BY <1>1, <2>1, <3>1, <3>2, <3>3 DEF Kept
  <2>6. CASE ReadDone
    <3>1. OnlyForm(k)'
      BY <1>1, <2>1, <2>2, <2>6 DEF ReadDone, Kept, OnlyForm, TypeOK
    <3>2. \A c \in Block : Settled(k, c)'
      BY <1>1, <2>2, <2>3, <2>6 DEF ReadDone, InHand, Settled, TypeOK
    <3>3. \A c \in Block : Tracked(k, c)'
      <4> SUFFICES ASSUME NEW c \in Block PROVE Tracked(k, c)'
        OBVIOUS
      <4>1. Tracked(k, c)
        BY DEF Kept
      <4>2. path' = path /\ io' = Idle /\ (c # io.block => disk'[k][c] = disk[k][c])
        BY <1>1, <2>2, <2>6 DEF ReadDone, TypeOK
      <4>3. stuck[k] \subseteq stuck'[k] /\ (disk'[k][io.block] # None => io.block \in stuck'[k])
        BY <1>1, <2>2, <2>6 DEF ReadDone, TypeOK
      <4>4. io.block \notin path[k]
        BY <2>3, <2>6 DEF ReadDone, InHand
      <4> QED
        BY <2>1, <4>1, <4>2, <4>3, <4>4 DEF Tracked
    <3> QED
      BY <1>1, <2>1, <3>1, <3>2, <3>3 DEF Kept
  <2>7. CASE ReadFail
    <3>1. OnlyForm(k)'
      BY <1>1, <2>1, <2>2, <2>7 DEF ReadFail, Kept, OnlyForm, TypeOK
    <3>2. \A c \in Block : Settled(k, c)'
      BY <1>1, <2>2, <2>3, <2>7 DEF ReadFail, InHand, Settled, TypeOK
    <3>3. \A c \in Block : Tracked(k, c)'
      BY <1>1, <2>1, <2>2, <2>3, <2>7 DEF ReadFail, Kept, InHand, Tracked, TypeOK
    <3> QED
      BY <1>1, <2>1, <3>1, <3>2, <3>3 DEF Kept
  <2> QED
    BY <1>6, <2>4, <2>5, <2>6, <2>7
<1>7. CASE UNCHANGED vars
  BY <1>7 DEF vars, Kept, TypeOK, OnlyForm, InHand, Settled, Tracked
<1> QED
  BY <1>2, <1>3, <1>4, <1>5, <1>6, <1>7 DEF Next

\* The state of the manager keeps its type.
THEOREM SpillTypeOK == Spec => []TypeOK
<1>1. Init => TypeOK
  BY DEF Init, TypeOK, Io
<1> QED
  BY <1>1, TypeStep, PTL DEF Spec

\* With one form in use (no compressor, or a compressor that never fails), a
\* promotion loads the contents demoted last: failed disk writes and reads
\* lose nothing and bring nothing old back.
THEOREM LatestPromoted ==
  ASSUME NEW k \in {"raw", "compressed"}, Forms = {k}
  PROVE  Spec => []LatestIsPromoted
<1>1. Init => Kept(k)
  BY DEF Init, Kept, TypeOK, OnlyForm, Settled, Tracked, Io, Form
<1>2. Kept(k) /\ [Next]_vars => Kept(k)'
  BY KeptStep
<1>3. Kept(k) => LatestIsPromoted
  BY DEF Kept, OnlyForm, Settled, LatestIsPromoted, Promoted, Form
<1> QED
  BY <1>1, <1>2, <1>3, PTL DEF Spec

\* With one form in use, the maps and the spill files agree: Drop and evict
\* find a file behind every entry and reach every file whose removal was not
\* tried already.
THEOREM FilesTracked ==
  ASSUME NEW k \in {"raw", "compressed"}, Forms = {k}
  PROVE  Spec => []FilesAreTracked
<1>1. Init => Kept(k)
  BY DEF Init, Kept, TypeOK, OnlyForm, Settled, Tracked, Io, Form
<1>2. Kept(k) /\ [Next]_vars => Kept(k)'
  BY KeptStep
<1>3. Kept(k) => FilesAreTracked
  BY DEF Kept, OnlyForm, Tracked, FilesAreTracked, Form
<1> QED
  BY <1>1, <1>2, <1>3, PTL DEF Spec

\* The refinement mapping in one line: what a promotion would load is what the
\* pool gave, in busy states as well.
LEMMA VisibleIsLast ==
  ASSUME NEW k \in {"raw", "compressed"}, Kept(k)
  PROVE  [b \in Block |-> Visible(b)] = last
<1>1. last \in [Block -> Value \cup {None}]
  BY DEF Kept, TypeOK
<1>2. ASSUME NEW b \in Block PROVE Visible(b) = last[b]
  <2>1. CASE io # Idle /\ io.block = b
    BY <2>1 DEF Kept, InHand, Visible
  <2>2. CASE ~ (io # Idle /\ io.block = b)
    <3>1. Settled(k, b)
      BY <2>2 DEF Kept
    <3>2. Promoted(b) = last[b]
      BY <3>1 DEF Kept, OnlyForm, Settled, Promoted, Form
    <3> QED
      BY <2>2, <3>2 DEF Visible
  <2> QED
    BY <2>1, <2>2
<1> QED
  BY <1>1, <1>2

\* With one form in use the manager implements SpillStore: a demotion is a Put,
\* an eviction a Forget, and every movement between the tiers, finished or
\* failed, a step the pool cannot see.
THEOREM SpillImplements ==
  ASSUME NEW k \in {"raw", "compressed"}, Forms = {k}
  PROVE  Spec => Implements
<1>1. Init => Kept(k)
  BY DEF Init, Kept, TypeOK, OnlyForm, Settled, Tracked, Io, Form
<1>2. Kept(k) /\ [Next]_vars => Kept(k)'
  BY KeptStep
<1>3. Init => Store!Init
  <2> SUFFICES ASSUME Init PROVE Store!Init
    OBVIOUS
  <2>1. [b \in Block |-> Visible(b)] = last
    BY <1>1, VisibleIsLast
  <2> QED
    BY <2>1 DEF Init, Store!Init
<1>4. Kept(k) /\ [Next]_vars => [Store!Next]_<<last, [b \in Block |-> Visible(b)]>>
  <2> SUFFICES ASSUME Kept(k), [Next]_vars
               PROVE  [Store!Next]_<<last, [b \in Block |-> Visible(b)]>>
    OBVIOUS
  <2>1. [b \in Block |-> Visible(b)] = last
    BY VisibleIsLast
  <2>2. ([b \in Block |-> Visible(b)] = last)'
    <3>1. Kept(k)'
      BY <1>2
    <3> QED
      BY <3>1, VisibleIsLast, PTL
  <2>3. ASSUME NEW b \in Block, NEW f \in Form, NEW v \in Value, Demote(f, b, v)
        PROVE  Store!Put(b, v)
    BY <2>1, <2>2, <2>3 DEF Demote, Store!Put
  <2>4. ASSUME NEW b \in Block, Evict(b) PROVE Store!Forget(b)
    BY <2>1, <2>2, <2>4 DEF Evict, Store!Forget
  <2>5. ASSUME \/ \E b \in Block, f \in Form : WriteStart(f, b) \/ ReadStart(f, b)
               \/ WriteDone \/ WriteFail \/ ReadDone \/ ReadFail \/ UNCHANGED vars
        PROVE  last' = last
    BY <2>5 DEF WriteStart, ReadStart, WriteDone, WriteFail, ReadDone, ReadFail, vars
  <2> QED
    BY <2>1, <2>2, <2>3, <2>4, <2>5 DEF Next, Store!Next
<1> QED
  BY <1>1, <1>2, <1>3, <1>4, PTL DEF Spec, Implements, Store!Spec

=============================================================================
