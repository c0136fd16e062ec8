SPECIFICATION ConsoleSpec
CONSTANTS
  tab = tab
  cli1 = cli1
  cli2 = cli2
  case1 = case1
  ev1 = ev1
  sum1 = sum1
  sum2 = sum2
  ann = ann
  blank = blank
  out1 = out1
  Nil = Nil
  Operators = {tab, cli1, cli2}
  Handlers = {tab}
  Cases = {case1}
  Evidence = {ev1}
  Assessments = {sum1, sum2}
  Reviewers = {ann, blank}
  Blank = {blank}
  Overlong = {}
  Destinations = {out1}
  ApprovedDir = out1
  Attempts = 1
  Usable = {ev1}
  Answers <- MCGrounded
  Grounded <- MCGrounded
  Interruptible = {tab, cli1, cli2}
  Tracked = {"case_approved", "case_published"}
  Forms <- MCForms
  MaxLength = 2
SYMMETRY MCSymmetry
INVARIANTS ConsoleTypeOK AnswersAreTrue SeenIsApproved EffectsAreAccounted
