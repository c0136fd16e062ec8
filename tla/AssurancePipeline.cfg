SPECIFICATION Spec
CONSTANTS
  Sizes = {1, 7, 8}
  Files <- MCFiles
  IdBefore <- MCIdBefore
  Controls <- MCControls
  ControlSize = 1
  SummarySize = 2
  MaxReports = 3
  MaxBytes = 2
  MaxResults = 3
  MaxObservations = 4
  MaxChars = 7
  MaxSourceChars = 9
  MaxCitations = 2
INVARIANTS TypeOK CasesAreValid SelectionIsLongestPrefix RiskIsNotLost TriageIsGrounded
PROPERTIES ImportIsExact
