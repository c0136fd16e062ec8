------------------------------ MODULE ModelCall ------------------------------
(* One analysis by a language model: the retry loop of EvidenceWorkflow     *)
(* (workflow.py:102-127) around the schema-repair loop of                   *)
(* OpenAICompatibleProvider (providers.py:87-117) around one HTTP request   *)
(* (providers.py:120-159).  EvidenceWorkflow takes a provider call as one   *)
(* step; this module opens it, and the environment's choices are the        *)
(* endpoint's replies.                                                      *)
EXTENDS Integers, Sequences

CONSTANTS
  Attempts,   \* RetryPolicy.attempts
  Repairs,    \* schema_repair_attempts
  Texts,      \* message contents the endpoint may send back
  Parsed,     \* those _parse_assessment makes an Assessment of
  Crashing,   \* those on which it raises what it does not expect, as
              \* OverflowError for a confidence that is a huge integer
  Permitted,  \* those validate_assurance_assessment accepts
  Grounded,   \* those validate_assessment accepts
  Mistyped,   \* those on which it raises no ValidationError, as
              \* AttributeError for a quote that is a number
  Guarded     \* whether validate_assurance_assessment is configured

ASSUME BoundsAssumption == Attempts \in Nat \ {0} /\ Repairs \in Nat
ASSUME TextsAssumption == /\ Parsed \subseteq Texts
                          /\ Crashing \subseteq Texts \ Parsed
                          /\ Permitted \subseteq Parsed
                          /\ Grounded \subseteq Parsed
                          /\ Mistyped \subseteq Parsed \ Grounded
ASSUME GuardedAssumption == Guarded \in BOOLEAN

VARIABLES
  phase,         \* where the analysis is
  attempt,       \* the loop variable of the workflow's retry loop
  conversation,  \* the refused answers in messages, oldest first
  text,          \* content
  requests,      \* history: HTTP requests of this analysis
  heard          \* history: the contents received in this attempt

vars == <<phase, attempt, conversation, text, requests, heard>>

Ended == {"completed", "failed", "raised"}

Phases == {"sending", "waiting", "reading", "validating", "retrying"} \cup Ended

Init == /\ phase = "sending"
        /\ attempt = 1
        /\ conversation = <<>>
        /\ text \in Texts      \* not read before it is assigned
        /\ requests = 0
        /\ heard = <<>>

-----------------------------------------------------------------------------
(* _complete *)

Send == /\ phase = "sending"
        /\ phase' = "waiting"
        /\ requests' = requests + 1
        /\ UNCHANGED <<attempt, conversation, text, heard>>

Receive(t) == /\ phase = "waiting"
              /\ phase' = "reading"
              /\ text' = t
              /\ heard' = Append(heard, t)
              /\ UNCHANGED <<attempt, conversation, requests>>

(* A new call of provider.analyze starts from the prompt alone. *)
TryAgain == /\ phase' = "sending"
            /\ attempt' = attempt + 1
            /\ conversation' = <<>>
            /\ heard' = <<>>
            /\ UNCHANGED <<text, requests>>

End(outcome) ==
  phase' = outcome /\ UNCHANGED <<attempt, conversation, text, requests, heard>>

(* HTTP 408, 429 or 5xx, a timeout or a URLError: TransientProviderError,   *)
(* also when it is a repair request that meets it.                          *)
Busy ==
  /\ phase = "waiting"
  /\ phase' = "retrying"
  /\ UNCHANGED <<attempt, conversation, text, requests, heard>>

(* Mutant: one attempt too many. *)
RetryOffByOne ==
  /\ phase = "retrying"
  /\ IF attempt > Attempts THEN End("failed") ELSE TryAgain

(* Mutant: the attempt is not counted. *)
RetryUncounted ==
  /\ phase = "retrying"
  /\ IF attempt = Attempts
       THEN End("failed")
       ELSE /\ phase' = "sending"
            /\ conversation' = <<>>
            /\ heard' = <<>>
            /\ UNCHANGED <<attempt, text, requests>>

(* Mutant: the messages outlive the call they belong to. *)
RetryKeepsMessages ==
  /\ phase = "retrying"
  /\ IF attempt = Attempts
       THEN End("failed")
       ELSE /\ phase' = "sending"
            /\ attempt' = attempt + 1
            /\ heard' = <<>>
            /\ UNCHANGED <<conversation, text, requests>>

(* The workflow has caught it and logged the retry. *)
Retry ==
  /\ phase = "retrying"
  /\ IF attempt = Attempts THEN End("failed") ELSE TryAgain

(* Any other status, or a body without a message content: ProviderError. *)
Refuse == phase = "waiting" /\ End("failed")

(* A body that is not JSON, an empty choices list or a connection dropped   *)
(* without a status line: an exception that nobody catches.                 *)
Break == phase = "waiting" /\ End("raised")

-----------------------------------------------------------------------------
(* _parse_assessment and the repair loop *)

Accepted(t) == t \in Parsed /\ (Guarded => t \in Permitted)

Refused(t) == ~ Accepted(t) /\ t \notin Crashing

(* Mutant: one repair too many. *)
RepairOffByOne ==
  /\ phase = "reading"
  /\ Refused(text)
  /\ Len(conversation) <= Repairs
  /\ conversation' = Append(conversation, text)
  /\ phase' = "sending"
  /\ UNCHANGED <<attempt, text, requests, heard>>

Repair ==
  /\ phase = "reading"
  /\ Refused(text)
  /\ Len(conversation) < Repairs
  /\ conversation' = Append(conversation, text)
  /\ phase' = "sending"
  /\ UNCHANGED <<attempt, text, requests, heard>>

GiveUp ==
  /\ phase = "reading"
  /\ Refused(text)
  /\ Len(conversation) = Repairs
  /\ End("failed")

Crash == phase = "reading" /\ text \in Crashing /\ End("raised")

Accept ==
  /\ phase = "reading"
  /\ Accepted(text)
  /\ phase' = "validating"
  /\ UNCHANGED <<attempt, conversation, text, requests, heard>>

-----------------------------------------------------------------------------
(* validate_assessment, then the configured validators *)

(* Mutant: the workflow trusts what the provider returns. *)
CompleteAnything == phase = "validating" /\ End("completed")

Complete ==
  /\ phase = "validating"
  /\ text \in Grounded
  /\ Guarded => text \in Permitted
  /\ End("completed")

Reject ==
  /\ phase = "validating"
  /\ ~ (text \in Grounded /\ (Guarded => text \in Permitted))
  /\ text \notin Mistyped
  /\ End("failed")

Mistake == phase = "validating" /\ text \in Mistyped /\ End("raised")

(* The analysis has returned or raised. *)
Done == phase \in Ended /\ UNCHANGED vars

Next == \/ Send
        \/ \E t \in Texts : Receive(t)
        \/ Busy
        \/ Retry
        \/ Refuse
        \/ Break
        \/ Repair
        \/ GiveUp
        \/ Crash
        \/ Accept
        \/ Complete
        \/ Reject
        \/ Mistake
        \/ Done

Spec == Init /\ [][Next]_vars

-----------------------------------------------------------------------------
(* Every variable stays in its type; attempt never exceeds the policy. *)
TypeOK == /\ phase \in Phases
          /\ attempt \in 1 .. Attempts
          /\ conversation \in Seq(Texts)
          /\ Len(conversation) <= Repairs
          /\ text \in Texts
          /\ requests \in Nat
          /\ heard \in Seq(Texts)

(* The two loops multiply and no more: whatever mix of busy replies and     *)
(* refused answers arrives, an analysis sends at most Repairs + 1 requests  *)
(* for each attempt (providers.py:88-117 inside workflow.py:102-127).       *)
RequestsAreBounded == requests <= Attempts * (Repairs + 1)

(* A repair request shows the model its own answers of this attempt, all of *)
(* them, in order, and none of an attempt before.                           *)
ConversationIsOwn ==
  /\ phase \in {"sending", "waiting"} => conversation = heard
  /\ phase \in {"reading", "validating"} => Append(conversation, text) = heard

Rank == CASE phase = "sending" -> 4 [] phase = "waiting" -> 3
          [] phase \in {"reading", "retrying"} -> 2 [] phase = "validating" -> 1
          [] OTHER -> 0

(* How much is left to do: the requests still allowed, then the phase. *)
Measure ==
  5 * ((Attempts - attempt) * (Repairs + 1) + Repairs - Len(conversation)) + Rank

(* No endpoint can keep an analysis going: every step uses something up     *)
(* that never comes back, so the loops end without any fairness.            *)
EveryStepDescends == [][Measure' \in Nat /\ Measure' < Measure]_vars

(* "malformed model response | one schema-repair attempt, then fail closed  *)
(* | analysis_failed" (docs/architecture.md:49): an analysis ends in a row, *)
(* pending or failed, and never in an exception that stores nothing.        *)
FailsClosed == phase # "raised"

-----------------------------------------------------------------------------
(* The refinement: what EvidenceWorkflow sees of the analysis, with one     *)
(* operator in the provider call of one case.                               *)

Sound == {t \in Grounded : Guarded => t \in Permitted}

(* The step of the call in EvidenceWorkflow. *)
CallStep == CASE phase = "retrying" -> "retrying"
              [] phase = "failed" -> "failing"
              [] phase = "completed" -> "completing"
              [] OTHER -> "calling"

(* WorkflowRecord as analyze fills it in. *)
CallRecord == [evidence |-> "evidence",
               state |-> CASE phase = "failed" -> "failed"
                           [] phase = "completed" -> "pending_approval"
                           [] OTHER -> "received",
               assessment |-> IF phase = "completed" THEN text ELSE "None",
               reviewer |-> "None", receipt |-> "None"]

Call == IF phase = "raised"
          THEN [step |-> "idle", case |-> "None", attempt |-> 0, record |-> "None",
                destination |-> "None"]
          ELSE [step |-> CallStep, case |-> "case", attempt |-> attempt,
                record |-> CallRecord, destination |-> "None"]

Workflow == INSTANCE EvidenceWorkflow
  WITH Operators <- {"analysis"}, Cases <- {"case"}, Evidence <- {"evidence"},
       Assessments <- Parsed, Reviewers <- {}, Blank <- {}, Destinations <- {},
       Usable <- {"evidence"}, Answers <- {"evidence"} \X Parsed,
       Grounded <- {"evidence"} \X Sound, Interruptible <- {}, Tracked <- {},
       Nil <- "None",
       repository <- [c \in {"case"} |-> "None"], exports <- <<>>, audit <- {},
       task <- [o \in {"analysis"} |-> Call], approvals <- {}

(* The provider call is the one step EvidenceWorkflow takes it for: however *)
(* the two loops run, the workflow sees an answer every validator accepts,  *)
(* a failure, a busy provider or an exception, with the attempts it counts. *)
ImplementsCall ==
  Workflow!At("analysis", "calling")
    /\ [][\/ \E a \in Parsed : Workflow!ProviderAnswers("analysis", a)
          \/ Workflow!ProviderFails("analysis")
          \/ Workflow!ProviderBusy("analysis")
          \/ Workflow!ProviderRaises("analysis")
          \/ Workflow!LogRetry("analysis")]_(Workflow!vars)

-----------------------------------------------------------------------------
(* What carries the bound: earlier attempts used up at most their share.    *)
Counted == requests <= (attempt - 1) * (Repairs + 1) + Len(conversation)
                         + (IF phase = "sending" THEN 0 ELSE 1)

IInv == /\ TypeOK
        /\ Counted
        /\ ConversationIsOwn
=============================================================================
