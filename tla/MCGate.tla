------------------------------- MODULE MCGate -------------------------------
(* Constants of the ConnectGate runs.                                      *)
EXTENDS ConnectGate, TLC

CONSTANTS s1, s2, a1

(* Every session comes from one address: the players share a NAT.          *)
SameAddress == [s \in Sessions |-> a1]

(* Requests and builds are interchangeable; sessions share every constant.  *)
Symmetry == Permutations(Requests) \cup Permutations(Builds)
                \cup Permutations(Sessions)
=============================================================================
