SPECIFICATION Spec
CONSTANTS
  cli = cli
  web = web
  case1 = case1
  case2 = case2
  ev1 = ev1
  ev2 = ev2
  bad = bad
  sum1 = sum1
  sum2 = sum2
  wrong = wrong
  ann = ann
  bob = bob
  blank = blank
  out1 = out1
  out2 = out2
  Nil = Nil
  Grounded <- MCGrounded
  Operators = {cli}
  Cases = {case1, case2}
  Evidence = {ev1, ev2, bad}
  Assessments = {sum1, sum2, wrong}
  Reviewers = {ann, bob, blank}
  Blank = {blank}
  Destinations = {out1, out2}
  Attempts = 3
  Usable = {ev1, ev2}
  Answers <- MCAnswers
  Interruptible = {cli}
  Tracked = {}
INVARIANT ApprovedCanBeExported
PROPERTY ImplementsLifecycle
