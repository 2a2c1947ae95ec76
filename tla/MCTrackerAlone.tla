--------------------------- MODULE MCTrackerAlone ---------------------------
(***************************************************************************)
(* Two trackers with a process each; the violation runs let in a hazard each. *)
(***************************************************************************)
EXTENDS TrackerAlone

CONSTANTS t1, t2, f1, f2, none

MCTrackers == {t1, t2}
MCFDs == {f1, f2}
NoneOnly == {none}
ForkRace == {"fork_race"}
Failures == {"fork_fails", "no_handler"}
FDReuse == {"fd_reuse"}
=============================================================================
