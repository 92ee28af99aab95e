------------------------- MODULE MCSessionManager -------------------------
(***************************************************************************)
(* Instances of SessionManager for TLC.  Session ids, addresses and the    *)
(* request goroutines are interchangeable in the safety runs.              *)
(***************************************************************************)
EXTENDS SessionManager, TLC

Symmetry ==
    Permutations(Sessions) \union Permutations(IPs) \union Permutations(Requests)

=============================================================================
