------------------------- MODULE MCAssessmentPhases -------------------------
(***************************************************************************)
(* Two phases with one automated task each: resets of the first phase fall *)
(* on a second phase whose task a worker is running.                       *)
(***************************************************************************)
EXTENDS AssessmentQueue, TLC

CONSTANTS t1, t2

PhasePerTask == (t1 :> 1) @@ (t2 :> 2)
=============================================================================
