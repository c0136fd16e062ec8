--------------------------- MODULE MCScannerPilot ---------------------------
(* Instances of ScannerPilot for TLC. *)
EXTENDS ScannerPilot, TLC

CONSTANTS policy, gitleaks, osv, semgrep, tree1, tree2, sum1, sum2

MCOneScanner == <<gitleaks>>
MCThreeScanners == <<semgrep, gitleaks, osv>>

(* Nothing in ScannerPilot tells two trees or two assessments apart. *)
MCSymmetry == Permutations({tree1, tree2}) \cup Permutations({sum1, sum2})
=============================================================================
