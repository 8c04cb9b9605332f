------------------------------ MODULE MCPolicy ------------------------------
(* Constants of the Policy runs.                                           *)
EXTENDS Policy

(* Readable options always carry the bit that code integrity is on.        *)
SomeOptions ==
    {{}, {"enabled"}, {"enabled", "hvci_kmci"}, {"enabled", "hvci_audit"},
     {"enabled", "testsign", "hvci_kmci"}}

SomePlatforms == {-1, 1, 2}
=============================================================================
