----------------------------- MODULE MCDownload -----------------------------
(***************************************************************************)
(* An instance of Download for TLC: two items whose bottles have the same  *)
(* digest, three racing connections, three chunks, two permits.            *)
(***************************************************************************)
EXTENDS Download

CONSTANTS r1, r2, s1

OneSha == [r \in Requests |-> s1]

=============================================================================
