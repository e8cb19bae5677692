------------------------------ MODULE MCNSPRxRace -----------------------------
(***************************************************************************)
(* Model-checking instance of NSPRxRace: two CPUs, two routes.            *)
(***************************************************************************)
EXTENDS NSPRxRace

CONSTANTS c1, c2, r1, r2

MCCpus == {c1, c2}
MCRoutes == {r1, r2}

=============================================================================
