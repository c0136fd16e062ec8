------------------------- MODULE MCHandoffDirectory -------------------------
(* Instances of HandoffDirectory for TLC. *)
EXTENDS HandoffDirectory

CONSTANTS cli, web, case1, ev1, bad, sum1, sum2, wrong, ann, blank, out1

MCGrounded == Evidence \X (Assessments \ {wrong})

MCAnswers == Evidence \X Assessments
=============================================================================
