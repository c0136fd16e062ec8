SPECIFICATION Spec
CONSTANTS
  cli = cli
  web = web
  case1 = case1
  case2 = case2
  ev1 = ev1
  ev2 = ev2
  bad = bad
  sum1 = sum1
  sum2 = sum2
  wrong = wrong
  ann = ann
  bob = bob
  blank = blank
  out1 = out1
  out2 = out2
  Nil = Nil
  Grounded <- MCGrounded
  Operators = {cli, web}
  Cases = {case1}
  Evidence = {ev1, ev2}
  Assessments = {sum1, sum2, wrong}
  Reviewers = {ann, bob, blank}
  Blank = {blank}
  Destinations = {out1}
  Attempts = 2
  Usable = {ev1, ev2}
  Answers <- MCAnswers
  Interruptible = {cli, web}
  Tracked = {"analysis_completed", "analysis_failed", "case_approved", "case_published"}
INVARIANTS TypeOK ExportsAreApproved RecordsAreCoherent AuditIsTruthful PublishedIsExported
PROPERTIES EvidenceIsPinned ImplementsGate
SYMMETRY MCSymmetry
