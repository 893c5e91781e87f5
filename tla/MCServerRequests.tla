-------------------------- MODULE MCServerRequests --------------------------
EXTENDS ServerRequests, TLC

Symmetry == Permutations(Requests)
=============================================================================
