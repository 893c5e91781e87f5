---------------------------- MODULE SpillManager ----------------------------
(***************************************************************************)
(* LocalSpillManager of grim-kvtransport: the host-RAM and NVMe tiers that *)
(* KvBlockPool demotes blocks to and promotes them from.  A block is kept  *)
(* in one of three forms: raw f32, compressed blob, packed bytes.          *)
(*                                                                         *)
(* An operation holds the write lock.  The two that touch the disk take an *)
(* entry out of its map first and put it back when the I/O fails: `io` is  *)
(* the one in progress, and no other operation runs until it has ended.    *)
(*                                                                         *)
(* Every removal of a file may fail, and the code goes on as if it had     *)
(* not: the file stays, with no map entry.  `stuck` records, for the       *)
(* properties only, which spill files have been left that way.             *)
(*                                                                         *)
(* Abstractions.  Contents are members of Value; the disk holds one spill  *)
(* file per form and block, and the write to a temporary file and its      *)
(* rename are one step.  Nobody reads a temporary file, so `temp` records  *)
(* only that there is one.  Drop, the end of the manager, is left out.     *)
(***************************************************************************)
EXTENDS Naturals

CONSTANTS
  Block,     \* block ids
  Value,     \* block contents
  None,      \* no entry
  Forms      \* the forms the pool demotes to

Form == {"raw", "compressed", "packed"}

ASSUME ValueAssumption == None \notin Value
ASSUME FormAssumption  == Forms \subseteq Form

VARIABLES
  host,      \* form -> block -> entry of host_ram_cache, compressed_host, packed_host
  path,      \* form -> blocks with an entry in nvme_cache, nvme_compressed, nvme_packed
  disk,      \* form -> block -> contents of the spill file
  temp,      \* form -> blocks whose temporary file has been left behind
  stuck,     \* form -> blocks whose spill file could not be removed
  tier,      \* block -> block_tiers entry
  io,        \* disk operation in progress
  last       \* block -> what was demoted last and not evicted since

vars == <<host, path, disk, temp, stuck, tier, io, last>>

Idle == [op |-> "idle"]

Io == [op : {"write", "read"}, form : Form, block : Block, data : Value \cup {None}] \cup {Idle}

Init ==
  /\ host = [f \in Form |-> [b \in Block |-> None]]
  /\ path = [f \in Form |-> {}]
  /\ disk = [f \in Form |-> [b \in Block |-> None]]
  /\ temp = [f \in Form |-> {}]
  /\ stuck = [f \in Form |-> {}]
  /\ tier = [b \in Block |-> "none"]
  /\ io = Idle
  /\ last = [b \in Block |-> None]

\* Forms whose entries a demotion to form f removes from the maps.
Supersedes(f) == CASE f = "raw"        -> {}
                   [] f = "compressed" -> {"raw"}
                   [] f = "packed"     -> {"raw", "compressed"}

\* Mutant of Demote: the tier entry is not updated.
DemoteKeepsTier(f, b, v) ==
  /\ io = Idle
  /\ f \in Forms
  /\ host' = [host EXCEPT ![f][b] = v]
  /\ tier' = [tier EXCEPT ![b] = IF @ = "none" THEN "host" ELSE @]
  /\ last' = [last EXCEPT ![b] = v]
  /\ UNCHANGED <<path, disk, temp, stuck, io>>

\* Mutant of Demote: the entry of an older file is dropped, as the other forms
\* do with the forms they supersede, and the file is not.
DemoteForgetsFile(f, b, v) ==
  /\ io = Idle
  /\ f \in Forms
  /\ host' = [host EXCEPT ![f][b] = v]
  /\ path' = [path EXCEPT ![f] = @ \ {b}]
  /\ tier' = [tier EXCEPT ![b] = "host"]
  /\ last' = [last EXCEPT ![b] = v]
  /\ UNCHANGED <<disk, temp, stuck, io>>

\* demote_to_host, demote_compressed, demote_packed.
Demote(f, b, v) ==
  /\ io = Idle
  /\ f \in Forms
  /\ host' = [g \in Form |-> [host[g] EXCEPT ![b] = IF g = f THEN v
                                                    ELSE IF g \in Supersedes(f) THEN None
                                                    ELSE @]]
  /\ path' = [g \in Form |-> IF g \in Supersedes(f) THEN path[g] \ {b} ELSE path[g]]
  /\ tier' = [tier EXCEPT ![b] = "host"]
  /\ last' = [last EXCEPT ![b] = v]
  /\ UNCHANGED <<disk, temp, stuck, io>>

\* demote_to_nvme and its two variants: the entry leaves the host map.
WriteStart(f, b) ==
  /\ io = Idle
  /\ host[f][b] # None
  /\ io' = [op |-> "write", form |-> f, block |-> b, data |-> host[f][b]]
  /\ host' = [host EXCEPT ![f][b] = None]
  /\ UNCHANGED <<path, disk, temp, stuck, tier, last>>

\* The file is written and renamed, and entered in the NVMe map.  It takes
\* the place of a file that could not be removed.
WriteDone ==
  /\ io.op = "write"
  /\ disk' = [disk EXCEPT ![io.form][io.block] = io.data]
  /\ path' = [path EXCEPT ![io.form] = @ \cup {io.block}]
  /\ temp' = [temp EXCEPT ![io.form] = @ \ {io.block}]
  /\ stuck' = [stuck EXCEPT ![io.form] = @ \ {io.block}]
  /\ tier' = [tier EXCEPT ![io.block] = "nvme"]
  /\ io' = Idle
  /\ UNCHANGED <<host, last>>

\* "Put back in host cache if write failed."  The temporary file is removed,
\* or left when its removal fails too.
WriteFail ==
  /\ io.op = "write"
  /\ host' = [host EXCEPT ![io.form][io.block] = io.data]
  /\ \/ temp' = [temp EXCEPT ![io.form] = @ \ {io.block}]
     \/ temp' = [temp EXCEPT ![io.form] = @ \cup {io.block}]
  /\ io' = Idle
  /\ UNCHANGED <<path, disk, stuck, tier, last>>

\* Mutant of OnDisk: the file is taken whatever tier the block is listed under.
OnDiskAnyTier(f, b) == b \in path[f]

\* retrieve goes by the tier entry; retrieve_compressed and retrieve_packed
\* by what their maps have.  A host entry is returned as it is: no step.
OnDisk(f, b) ==
  /\ b \in path[f]
  /\ IF f = "raw" THEN tier[b] = "nvme" ELSE host[f][b] = None

ReadStart(f, b) ==
  /\ io = Idle
  /\ OnDisk(f, b)
  /\ io' = [op |-> "read", form |-> f, block |-> b, data |-> disk[f][b]]
  /\ path' = [path EXCEPT ![f] = @ \ {b}]
  /\ UNCHANGED <<host, disk, temp, stuck, tier, last>>

\* The block is promoted into the host tier and its file removed, or left
\* when the removal fails.
ReadDone ==
  /\ io.op = "read"
  /\ host' = [host EXCEPT ![io.form][io.block] = io.data]
  /\ \/ disk' = [disk EXCEPT ![io.form][io.block] = None] /\ UNCHANGED stuck
     \/ stuck' = [stuck EXCEPT ![io.form] = @ \cup {io.block}] /\ UNCHANGED disk
  /\ tier' = [tier EXCEPT ![io.block] = "host"]
  /\ io' = Idle
  /\ UNCHANGED <<path, temp, last>>

\* "Put back the path if read failed."
ReadFail ==
  /\ io.op = "read"
  /\ path' = [path EXCEPT ![io.form] = @ \cup {io.block}]
  /\ io' = Idle
  /\ UNCHANGED <<host, disk, temp, stuck, tier, last>>

\* evict: every entry of the block, and the files the maps know of; `left`
\* are the forms whose file could not be removed.
Evict(b) ==
  /\ io = Idle
  /\ \E left \in SUBSET {f \in Form : b \in path[f]} :
       /\ disk' = [f \in Form |-> [disk[f] EXCEPT ![b] =
                                   IF b \in path[f] /\ f \notin left THEN None ELSE @]]
       /\ stuck' = [f \in Form |-> IF f \in left THEN stuck[f] \cup {b} ELSE stuck[f]]
  /\ host' = [f \in Form |-> [host[f] EXCEPT ![b] = None]]
  /\ path' = [f \in Form |-> path[f] \ {b}]
  /\ tier' = [tier EXCEPT ![b] = "none"]
  /\ last' = [last EXCEPT ![b] = None]
  /\ UNCHANGED <<temp, io>>

Next ==
  \/ \E b \in Block : \/ \E f \in Form, v \in Value : Demote(f, b, v)
                      \/ \E f \in Form : WriteStart(f, b) \/ ReadStart(f, b)
                      \/ Evict(b)
  \/ WriteDone \/ WriteFail \/ ReadDone \/ ReadFail

Spec == Init /\ [][Next]_vars

-----------------------------------------------------------------------------
(* What promote_to_gpu loads: the compressed form if there is one, then    *)
(* what retrieve finds in the tier the block is listed under.              *)
Promoted(b) ==
  IF host["compressed"][b] # None THEN host["compressed"][b]
  ELSE IF b \in path["compressed"] THEN disk["compressed"][b]
  ELSE IF tier[b] = "host" THEN host["raw"][b]
  ELSE IF tier[b] = "nvme" /\ b \in path["raw"] THEN disk["raw"][b]
  ELSE None

\* What a promotion would load once the operation in progress has put back
\* what it took.
Visible(b) == IF io # Idle /\ io.block = b THEN io.data ELSE Promoted(b)

Store == INSTANCE SpillStore WITH given <- last, kept <- [b \in Block |-> Visible(b)]

-----------------------------------------------------------------------------
(* Properties.                                                             *)

\* With one form in use the manager implements SpillStore: whatever moves
\* between the tiers and however often reads and writes fail, a demoted block
\* is kept as it was given until it is demoted again or evicted.
Implements == Store!Spec

\* Type of the state.
TypeOK ==
  /\ host \in [Form -> [Block -> Value \cup {None}]]
  /\ path \in [Form -> SUBSET Block]
  /\ disk \in [Form -> [Block -> Value \cup {None}]]
  /\ temp \in [Form -> SUBSET Block]
  /\ stuck \in [Form -> SUBSET Block]
  /\ tier \in [Block -> {"none", "host", "nvme"}]
  /\ io \in Io
  /\ last \in [Block -> Value \cup {None}]

\* "If a tier demotion succeeds, the block remains live in the spill tier and
\* can be promoted back later": whatever writes and reads failed since, what
\* promote_to_gpu loads is what was demoted last.
LatestIsPromoted == io = Idle => \A b \in Block : last[b] # None => Promoted(b) = last[b]

\* The maps that evict and Drop ("Clean up all temporary files on exit") go
\* through and the spill files on the disk agree, whatever reads, writes and
\* removals failed before: every entry has its file, and a file without an
\* entry is one whose removal failed.
FilesAreTracked ==
  io = Idle => \A f \in Form : \A b \in Block :
                 /\ b \in path[f] => disk[f][b] # None
                 /\ disk[f][b] # None => b \in path[f] \cup stuck[f]

=============================================================================
