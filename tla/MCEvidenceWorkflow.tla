------------------------- MODULE MCEvidenceWorkflow -------------------------
(* Instances of EvidenceWorkflow for TLC. *)
EXTENDS EvidenceWorkflow, TLC

CONSTANTS cli, web, case1, case2, ev1, ev2, bad, sum1, sum2, wrong, ann, bob,
          blank, out1, out2

MCGrounded == Evidence \X (Assessments \ {wrong})

MCAnswers == Evidence \X Assessments

(* The answers of a provider that repeats itself, as KeywordProvider does. *)
MCSameAnswers == {<<ev1, sum1>>} \cup {<<e, sum2>> : e \in Evidence \ {ev1}}

(* Sound where both operators may be interrupted alike, both evidences are  *)
(* usable and the provider tells neither them nor the summaries apart.      *)
MCSymmetry == Permutations({cli, web}) \cup Permutations({ev1, ev2})
                \cup Permutations({sum1, sum2})
=============================================================================
