----------------------------- MODULE MCSchedule -----------------------------
(***************************************************************************)
(* Small instances of Schedule for TLC.                                    *)
(***************************************************************************)
EXTENDS Schedule, TLC

CONSTANTS f1, f2, f3
=============================================================================
