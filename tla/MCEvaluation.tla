---------------------------- MODULE MCEvaluation ----------------------------
(***************************************************************************)
(* Small instances of Evaluation for TLC.                                  *)
(***************************************************************************)
EXTENDS Evaluation, TLC

CONSTANTS p1, p2, s1, s2, s3

\* s1 and s2 share a process, s3 is in another one.
TwoProcesses == s1 :> p1 @@ s2 :> p1 @@ s3 :> p2
OneProcess   == s1 :> p1
=============================================================================
