----------------------------- MODULE MCTaskTurn -----------------------------
(***************************************************************************)
(* TaskTurn for TLC.  Two turns contend for emitMu and for Close; each may *)
(* emit one event while it runs, enough to interleave with every event of  *)
(* the other turn, and may ask then; one caller of AnswerInteraction finds *)
(* the question.  A turn that ended stays ended, so the system may stop.   *)
(***************************************************************************)
EXTENDS TaskTurn
=============================================================================
