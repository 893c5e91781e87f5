----------------------------- MODULE MCKvHandoff ----------------------------
EXTENDS KvHandoff
=============================================================================
