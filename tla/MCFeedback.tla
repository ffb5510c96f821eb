----------------------------- MODULE MCFeedback -----------------------------
(***************************************************************************)
(* Instance for TLC.  The feedback task and the console share nothing but  *)
(* the state changes they are told of, so that the runs in which one of    *)
(* them could not be created cover both.                                   *)
(***************************************************************************)
EXTENDS Console

MCInit == ConsoleInit /\ ~(ready /\ console)

MCSpec == MCInit /\ [][ConsoleNext]_allVars /\ ConsoleFairness
=============================================================================
