--------------------------- MODULE MCReviewConsole --------------------------
(* Instances of ReviewConsole for TLC. *)
EXTENDS ReviewConsole, TLC

CONSTANTS tab, cli1, cli2, case1, ev1, sum1, sum2, ann, blank, out1

AForm(path, length, token, c, r) ==
  [path |-> path, length |-> length, token |-> token, case |-> c, reviewer |-> r]

MCGrounded == Evidence \X Assessments

(* The two forms that pass, and one for each test of do_POST. *)
MCForms ==
  {AForm("/approve", MaxLength, TRUE, case1, ann),
   AForm("/publish", 1, TRUE, case1, Nil),
   AForm("other", 1, TRUE, case1, Nil),
   AForm("/publish", 0, TRUE, case1, Nil),
   AForm("/publish", MaxLength + 1, TRUE, case1, Nil),
   AForm("/publish", 1, FALSE, case1, Nil),
   AForm("/publish", 1, TRUE, Nil, Nil),
   AForm("/approve", 1, TRUE, case1, blank)}

MCSymmetry == Permutations({cli1, cli2}) \cup Permutations({sum1, sum2})
=============================================================================
