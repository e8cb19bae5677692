------------------------------ MODULE NSPStates ------------------------------
(***************************************************************************)
(* The scp->state switches of the two disconnect handlers, shared by the  *)
(* single-connection model NSPRx and the two-CPU model NSPRxRace.  States *)
(* are the DN_ names without the prefix; reasons are the NSP_REASON_ names. *)
(***************************************************************************)

\* The state switch of dn_nsp_disc_init.
DiscInitState(s) ==
  CASE s \in {"CI", "CD"} -> "RJ"
    [] s = "RUN"          -> "DN"
    [] s = "DI"           -> "DIC"
    [] OTHER              -> s

\* The state switch of dn_nsp_disc_conf, with its RUN -> CC fall-through.
DiscConfState(s, reason) ==
  CASE s = "CI"                   -> "NR"
    [] s = "DR" /\ reason = "DC"  -> "DRC"
    [] s = "DR" /\ reason = "NL"  -> "CN"
    [] s = "DI"                   -> "DIC"
    [] s \in {"RUN", "CC"}        -> "CN"
    [] OTHER                      -> s

=============================================================================
