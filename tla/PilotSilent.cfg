SPECIFICATION Spec
CONSTANTS
  policy = policy
  gitleaks = gitleaks
  osv = osv
  semgrep = semgrep
  tree1 = tree1
  tree2 = tree2
  sum1 = sum1
  sum2 = sum2
  Torn = Torn
  Nil = Nil
  Policy = policy
  Scanners <- MCOneScanner
  Allowed = {policy, gitleaks}
  Silent = {gitleaks}
  Trees = {tree1, tree2}
  Assessments = {sum1, sum2}
  MaxRuns = 2
INVARIANT ReportIsFresh
