SPECIFICATION FairHandoffSpec
CONSTANTS
  cli = cli
  web = web
  case1 = case1
  ev1 = ev1
  bad = bad
  sum1 = sum1
  sum2 = sum2
  wrong = wrong
  ann = ann
  blank = blank
  out1 = out1
  Nil = Nil
  Grounded <- MCGrounded
  Operators = {cli, web}
  Cases = {case1}
  Evidence = {ev1, bad}
  Assessments = {sum1, sum2, wrong}
  Reviewers = {ann, blank}
  Blank = {blank}
  Destinations = {out1}
  Attempts = 2
  Usable = {ev1}
  Answers <- MCAnswers
  Interruptible = {cli, web}
  Tracked = {"case_published"}
INVARIANTS HandoffTypeOK WholeExports ExportsAreApproved ReportedIsThere
PROPERTY OperationsTerminate
