--------------------------- MODULE AssuranceReport ---------------------------
(* From scanner output to a triaged case (assurance.py): SARIF files and    *)
(* the repository policy scan become observations, the reports are merged,  *)
(* the most severe observations that fit are selected for the model, and    *)
(* ScannerTriageProvider assesses the selection.  Its result is checked as  *)
(* the workflow checks it (validation.py).  Texts are represented by their  *)
(* sizes, ids by the numbers that order them.                               *)
EXTENDS Integers, Sequences, FiniteSets, SequencesExt

CONSTANTS
  Files,           \* SARIF files [bytes, formed, runs]: formed when the file
                   \* is a JSON object with no runs or an array of them; a
                   \* run is [tool, results], a result [level, size], a tool
                   \* the number of its name's slug
  IdBefore(_, _),  \* the order of observation ids as strings
  Controls,        \* RepositoryPolicyScanner.REQUIRED_CONTROLS, a sequence of
                   \* the severities of missing controls
  ControlSize,     \* size of a policy observation
  SummarySize,     \* size of the two sentences report_to_case may add
  MaxReports,      \* reports of one pilot (bound)
  MaxBytes,        \* MAX_SARIF_BYTES
  MaxResults,      \* MAX_SARIF_RESULTS
  MaxObservations, \* MAX_MODEL_OBSERVATIONS
  MaxChars,        \* MAX_MODEL_EVIDENCE_CHARS
  MaxSourceChars,  \* MAX_SOURCE_CHARS of validate_case
  MaxCitations     \* citations of a triage, ten

ASSUME LimitsAssumption ==
  /\ MaxReports \in Nat /\ MaxBytes \in Nat /\ MaxResults \in Nat
  /\ MaxObservations \in Nat \ {0} /\ MaxChars \in Nat
  /\ MaxCitations \in Nat \ {0} /\ SummarySize \in Nat \ {0}
  /\ MaxSourceChars \in Nat /\ MaxChars + SummarySize <= MaxSourceChars

Severities == {"critical", "high", "medium", "low", "info"}

ASSUME InputsAssumption ==
  /\ Files \subseteq [bytes : Nat, formed : BOOLEAN,
                     runs : Seq([tool : Nat \ {0},
                                 results : Seq([level : STRING, size : Nat \ {0}])])]
  /\ Controls \in Seq(Severities)
  /\ ControlSize \in Nat \ {0}

(* The id of a result names its tool, run and number; 0 is the policy scan. *)
RunIds(runs, run) == {<<runs[run].tool, run, result>> : result \in DOMAIN runs[run].results}

FileIds(runs) == UNION {RunIds(runs, run) : run \in DOMAIN runs}

Ids == (UNION {FileIds(file.runs) : file \in Files})
         \cup {<<0, control, 0>> : control \in DOMAIN Controls}

ASSUME OrderAssumption ==
  \A x, y, z \in Ids :
    /\ ~ IdBefore(x, x)
    /\ IdBefore(x, y) /\ IdBefore(y, z) => IdBefore(x, z)
    /\ x = y \/ IdBefore(x, y) \/ IdBefore(y, x)

VARIABLES
  phase,       \* how far the pilot has come
  reports,     \* the reports so far
  merged,      \* the observations of the merged report
  case,        \* the sources of the EvidenceCase
  assessment   \* what the triage says of it

vars == <<phase, reports, merged, case, assessment>>

Phases == {"scanning", "merged", "cased", "assessed", "refused", "rejected"}

None == [risk |-> "none", label |-> "none", citations |-> <<>>]

Init == /\ phase = "scanning"
        /\ reports = <<>>
        /\ merged = <<>>
        /\ case = <<>>
        /\ assessment = None

(* What the first n items add up to. *)
Totals(items) ==
  LET total[n \in 0 .. Len(items)] ==
        IF n = 0 THEN 0 ELSE total[n - 1] + items[n].size
  IN  total

SizeOf(items) == Totals(items)[Len(items)]

-----------------------------------------------------------------------------
(* Reports *)

SarifSeverity(level) ==
  CASE level = "error" -> "high"
    [] level = "warning" -> "medium"
    [] level = "note" -> "low"
    [] level = "none" -> "info"
    [] OTHER -> "medium"

(* Mutant: the index of the run is left out of the id. *)
ObservationWithoutRun(runs, run, result) ==
  [id |-> <<runs[run].tool, 1, result>>,
   status |-> "review",
   severity |-> SarifSeverity(runs[run].results[result].level),
   size |-> runs[run].results[result].size]

Observation(runs, run, result) ==
  [id |-> <<runs[run].tool, run, result>>,
   status |-> "review",
   severity |-> SarifSeverity(runs[run].results[result].level),
   size |-> runs[run].results[result].size]

(* Mutant: one result more than the limit is let through. *)
ImportResultTooLate(state, observation) ==
  IF state.refused \/ Len(state.observations) > MaxResults
    THEN [state EXCEPT !.refused = TRUE]
    ELSE [state EXCEPT !.observations = Append(@, observation)]

(* The body of the loop over results: the limit is tested first. *)
ImportResult(state, observation) ==
  IF state.refused \/ Len(state.observations) >= MaxResults
    THEN [state EXCEPT !.refused = TRUE]
    ELSE [state EXCEPT !.observations = Append(@, observation)]

(* The inner loop after each result of a run, the earlier runs left before. *)
ImportRun(runs, run, before) ==
  LET loop[n \in 0 .. Len(runs[run].results)] ==
        IF n = 0 THEN before
                 ELSE ImportResult(loop[n - 1], Observation(runs, run, n))
  IN  loop

(* The outer loop after each run of a file. *)
ImportRuns(runs) ==
  LET loop[n \in 0 .. Len(runs)] ==
        IF n = 0 THEN [observations |-> <<>>, refused |-> FALSE]
                 ELSE ImportRun(runs, n, loop[n - 1])[Len(runs[n].results)]
  IN  loop

Import(runs) == ImportRuns(runs)[Len(runs)]

(* The size is tested before the file is read, its shape before the loops.  *)
Refused(file) ==
  \/ file.bytes > MaxBytes
  \/ ~ file.formed
  \/ Import(file.runs).refused

Arrives == phase = "scanning" /\ Len(reports) < MaxReports

ImportSarif(file) ==
  /\ Arrives
  /\ ~ Refused(file)
  /\ reports' = Append(reports, Import(file.runs).observations)
  /\ UNCHANGED <<phase, merged, case, assessment>>

RefuseSarif(file) ==
  /\ Arrives
  /\ Refused(file)
  /\ phase' = "refused"
  /\ UNCHANGED <<reports, merged, case, assessment>>

PolicyObservation(found, control) ==
  [id |-> <<0, control, 0>>,
   status |-> IF control \in found THEN "pass" ELSE "review",
   severity |-> IF control \in found THEN "info" ELSE Controls[control],
   size |-> ControlSize]

(* RepositoryPolicyScanner.scan comes first when it is asked for. *)
ScanPolicy(found) ==
  /\ phase = "scanning"
  /\ reports = <<>> /\ MaxReports > 0
  /\ reports' = <<[control \in DOMAIN Controls |-> PolicyObservation(found, control)]>>
  /\ UNCHANGED <<phase, merged, case, assessment>>

(* All reports carry the engagement and repository of the one scope, so the *)
(* other refusals of merge_reports do not arise.                            *)
MergeReports ==
  /\ phase = "scanning"
  /\ reports # <<>>
  /\ phase' = "merged"
  /\ merged' = FlattenSeq(reports)
  /\ UNCHANGED <<reports, case, assessment>>

-----------------------------------------------------------------------------
(* report_to_case *)

SeverityOrder == [critical |-> 0, high |-> 1, medium |-> 2, low |-> 3, info |-> 4]

(* Mutant: ordered by id alone. *)
BeforeById(x, y) == IdBefore(x.id, y.id)

Before(x, y) ==
  LET a == SeverityOrder[x.severity]
      b == SeverityOrder[y.severity]
  IN  a < b \/ (a = b /\ IdBefore(x.id, y.id))

(* sorted() keeps equal items in their order. *)
Precedes(observations, i, j) ==
  \/ Before(observations[i], observations[j])
  \/ ~ Before(observations[j], observations[i]) /\ i < j

Rank(observations, i) ==
  Cardinality({j \in DOMAIN observations : j = i \/ Precedes(observations, j, i)})

Ordered(observations) ==
  [k \in DOMAIN observations |->
    observations[CHOOSE i \in DOMAIN observations : Rank(observations, i) = k]]

(* Mutant: the size is checked before the text is counted. *)
SelectNextTooLate(state, item) ==
  IF state.ended \/ Len(state.selected) >= MaxObservations \/ state.total > MaxChars
    THEN [state EXCEPT !.ended = TRUE]
    ELSE [state EXCEPT !.selected = Append(@, item), !.total = @ + item.size]

(* The body of the selection loop: the first item that does not fit ends it. *)
SelectNext(state, item) ==
  IF state.ended \/ Len(state.selected) >= MaxObservations
       \/ state.total + item.size > MaxChars
    THEN [state EXCEPT !.ended = TRUE]
    ELSE [state EXCEPT !.selected = Append(@, item), !.total = @ + item.size]

SelectLoop(ordered) ==
  LET loop[n \in 0 .. Len(ordered)] ==
        IF n = 0 THEN [selected |-> <<>>, total |-> 0, ended |-> FALSE]
                 ELSE SelectNext(loop[n - 1], ordered[n])
  IN  loop

Selected(observations) == SelectLoop(Ordered(observations))[Len(observations)].selected

(* The sentence added about omitted observations or about none at all: not  *)
(* JSON, so the triage takes it for {"severity": "low", "status": "review"}.*)
Sentence == [id |-> <<0, 0, 0>>, status |-> "review", severity |-> "low",
             size |-> SummarySize]

(* Mutant: nothing is added for a report without observations. *)
SourcesBare(observations) ==
  IF Len(Selected(observations)) = Len(observations)
    THEN Selected(observations)
    ELSE Append(Selected(observations), Sentence)

Sources(observations) ==
  IF observations # <<>> /\ Len(Selected(observations)) = Len(observations)
    THEN Selected(observations)
    ELSE Append(Selected(observations), Sentence)

BuildCase ==
  /\ phase = "merged"
  /\ phase' = "cased"
  /\ case' = Sources(merged)
  /\ UNCHANGED <<reports, merged, assessment>>

-----------------------------------------------------------------------------
(* ScannerTriageProvider.analyze *)

RiskOf(severity) ==
  [info |-> "low", low |-> "low", medium |-> "medium", high |-> "high",
   critical |-> "critical"][severity]

RiskIndex == [low |-> 0, medium |-> 1, high |-> 2, critical |-> 3]

(* max() over the items, low when there are none. *)
Highest(items) ==
  LET risks == {RiskOf(items[i].severity) : i \in DOMAIN items}
  IN  IF items = <<>> THEN "low"
      ELSE CHOOSE risk \in risks : \A other \in risks : RiskIndex[other] <= RiskIndex[risk]

ReviewsOf(items) ==
  LET reviews[n \in 0 .. Len(items)] ==
        IF n = 0 THEN <<>>
        ELSE IF items[n].status = "review" THEN Append(reviews[n - 1], items[n])
                                           ELSE reviews[n - 1]
  IN  reviews

Reviews(items) == ReviewsOf(items)[Len(items)]

(* Mutant: the sources that passed are cited although others need review. *)
CandidatesAll(sources) == sources

Candidates(sources) == IF Reviews(sources) # <<>> THEN Reviews(sources) ELSE sources

(* A citation quotes the whole text of its source. *)
Triage(sources) ==
  [risk |-> Highest(Candidates(sources)),
   label |-> IF Reviews(sources) # <<>> THEN "human-review-required"
                                        ELSE "no-review-observations",
   citations |-> SubSeq(Candidates(sources), 1,
                        IF Len(Candidates(sources)) < MaxCitations
                          THEN Len(Candidates(sources)) ELSE MaxCitations)]

(* validate_case, as far as report_to_case can go against it. *)
ValidCase(sources) ==
  /\ sources # <<>>
  /\ IsInjective([i \in DOMAIN sources |-> sources[i].id])
  /\ \A i \in DOMAIN sources : sources[i].size > 0
  /\ SizeOf(sources) <= MaxSourceChars

Analyze ==
  /\ phase = "cased"
  /\ ValidCase(case)
  /\ phase' = "assessed"
  /\ assessment' = Triage(case)
  /\ UNCHANGED <<reports, merged, case>>

(* The workflow rejects the input and raises; the pilot ends. *)
RejectInput ==
  /\ phase = "cased"
  /\ ~ ValidCase(case)
  /\ phase' = "rejected"
  /\ UNCHANGED <<reports, merged, case, assessment>>

(* The command ends with its last step. *)
Done == phase \in {"assessed", "refused", "rejected"} /\ UNCHANGED vars

Next == \/ \E file \in Files : ImportSarif(file) \/ RefuseSarif(file)
        \/ \E found \in SUBSET DOMAIN Controls : ScanPolicy(found)
        \/ MergeReports
        \/ BuildCase
        \/ Analyze
        \/ RejectInput
        \/ Done

Spec == Init /\ [][Next]_vars

-----------------------------------------------------------------------------
(* validate_assessment of a triage. *)
ValidAssessment(sources, triage) ==
  /\ triage.citations # <<>>
  /\ \A i \in DOMAIN triage.citations :
       \E j \in DOMAIN sources : sources[j] = triage.citations[i]

(* The phases follow each other and each result is there from its phase on. *)
TypeOK == /\ phase \in Phases
          /\ Len(reports) <= MaxReports
          /\ \A i \in DOMAIN merged : merged[i].severity \in Severities
          /\ phase \in {"cased", "assessed", "rejected"} => case # <<>>
          /\ phase = "assessed" <=> assessment.risk \in DOMAIN RiskIndex

(* No two reports come from tools whose names have one slug. *)
ToolsApart ==
  \A i, k \in DOMAIN reports :
    i # k => \A j \in DOMAIN reports[i], l \in DOMAIN reports[k] :
               reports[i][j].id[1] # reports[k][l].id[1]

(* The limits of assurance.py fit those of validation.py: a case the        *)
(* assurance layer builds passes validate_case whatever the scanners said   *)
(* (unique ids over the runs of a file, the added sentence within the size  *)
(* limit), unless two reports carry the slug of one tool.                   *)
CasesAreValid == phase \in {"cased", "rejected"} /\ ToolsApart => ValidCase(case)

(* All results of a file, run by run. *)
ResultsOf(runs) ==
  FlattenSeq([run \in DOMAIN runs |->
    [result \in DOMAIN runs[run].results |-> Observation(runs, run, result)]])

(* What import_sarif accepts. *)
Importable(file) ==
  /\ file.bytes <= MaxBytes
  /\ file.formed
  /\ Len(ResultsOf(file.runs)) <= MaxResults

(* import_sarif refuses a file exactly when it is larger than the limit, is *)
(* not an object with an array of runs (none counts as an empty one), or    *)
(* has more results than the limit over all its runs, and an import loses,  *)
(* doubles or reorders none.                                                *)
ImportIsExact ==
  [][\A file \in Files :
       /\ ImportSarif(file) =>
            Importable(file) /\ reports' = Append(reports, ResultsOf(file.runs))
       /\ RefuseSarif(file) => ~ Importable(file)]_vars

(* The selection is the longest prefix of the observations by severity that *)
(* keeps both limits: nothing that was left out is more severe than what    *)
(* was let in, and nothing more would have fitted.                          *)
SelectionIsLongestPrefix ==
  phase = "merged" =>
    LET ordered == Ordered(merged)
        fitting == {n \in 0 .. Len(merged) :
                      n <= MaxObservations /\ Totals(ordered)[n] <= MaxChars}
        n == Len(Selected(merged))
    IN  /\ n \in fitting
        /\ \A k \in fitting : k <= n
        /\ \A i \in 1 .. n, j \in n + 1 .. Len(merged) :
             /\ Selected(merged)[i] = ordered[i]
             /\ SeverityOrder[ordered[i].severity] <= SeverityOrder[ordered[j].severity]

(* However much is omitted, the baseline triage reports the highest risk    *)
(* among all observations that ask for review, provided the first of them   *)
(* in the order of severity is within the size limit.                       *)
RiskIsNotLost ==
  phase = "assessed" /\ (merged = <<>> \/ Ordered(merged)[1].size <= MaxChars) =>
    assessment.risk = Highest(Reviews(merged))

(* A triage always passes validate_assessment, and while any observation of *)
(* the whole report asks for review, omitted or not, it says so in its label*)
(* and cites only such observations.                                        *)
TriageIsGrounded ==
  phase = "assessed" =>
    /\ ValidAssessment(case, assessment)
    /\ Reviews(merged) # <<>> =>
         /\ assessment.label = "human-review-required"
         /\ \A i \in DOMAIN assessment.citations : assessment.citations[i].status = "review"
=============================================================================
