--------------------------- MODULE ModelCallProofs ---------------------------
(* Proofs about ModelCall, for every number of attempts and repairs and     *)
(* every set of texts.                                                      *)
EXTENDS ModelCall, TLAPS

LEMMA InitInvariant == Init => IInv
BY BoundsAssumption, TextsAssumption
   DEF Init, IInv, TypeOK, Phases, Ended, Counted, ConversationIsOwn

LEMMA TypeStep == TypeOK /\ [Next]_vars => TypeOK'
<1> SUFFICES ASSUME TypeOK, [Next]_vars PROVE TypeOK'
  OBVIOUS
<1> USE BoundsAssumption DEF TypeOK, Phases, Ended
<1>1. CASE Send
  BY <1>1 DEF Send
<1>2. ASSUME NEW t \in Texts, Receive(t) PROVE TypeOK'
  BY <1>2 DEF Receive
<1>3. CASE Retry
  <2>1. CASE attempt = Attempts
    BY <1>3, <2>1 DEF Retry, End
  <2>2. CASE attempt # Attempts
    <3>1. /\ phase' = "sending" /\ attempt' = attempt + 1 /\ conversation' = <<>>
          /\ heard' = <<>> /\ text' = text /\ requests' = requests
      BY <1>3, <2>2 DEF Retry, TryAgain
    <3>2. attempt' \in 1 .. Attempts
      BY <2>2, <3>1
    <3>3. <<>> \in Seq(Texts) /\ Len(<<>>) <= Repairs
      OBVIOUS
    <3> QED BY <3>1, <3>2, <3>3
  <2> QED BY <2>1, <2>2
<1>4. CASE Refuse \/ Break \/ GiveUp \/ Crash \/ Complete \/ Reject \/ Mistake
  BY <1>4 DEF Refuse, Break, GiveUp, Crash, Complete, Reject, Mistake, End
<1>5. CASE Repair
  <2>1. conversation' = Append(conversation, text) /\ Len(conversation) < Repairs
    BY <1>5 DEF Repair
  <2>2. conversation' \in Seq(Texts) /\ Len(conversation') = Len(conversation) + 1
    BY <2>1
  <2> QED BY <1>5, <2>1, <2>2 DEF Repair
<1>6. CASE Accept \/ Busy
  BY <1>6 DEF Accept, Busy
<1>7. CASE Done \/ UNCHANGED vars
  BY <1>7 DEF Done, vars
<1> QED
  BY <1>1, <1>2, <1>3, <1>4, <1>5, <1>6, <1>7 DEF Next

(* One more attempt is worth one more share of requests. *)
LEMMA Share ==
  ASSUME NEW n \in Int
  PROVE  (n + 1) * (Repairs + 1) = n * (Repairs + 1) + Repairs + 1
BY BoundsAssumption

LEMMA CountedStep == TypeOK /\ TypeOK' /\ Counted /\ [Next]_vars => Counted'
<1> SUFFICES ASSUME TypeOK, TypeOK', Counted, [Next]_vars PROVE Counted'
  OBVIOUS
<1> DEFINE share == (attempt - 1) * (Repairs + 1)
<1>0. share \in Int /\ Len(conversation) \in Nat /\ Repairs \in Nat
  BY BoundsAssumption DEF TypeOK
<1>1. CASE Send
  BY <1>0, <1>1 DEF Send, Counted, TypeOK
<1>2. ASSUME NEW t \in Texts, Receive(t) PROVE Counted'
  BY <1>0, <1>2 DEF Receive, Counted, TypeOK
<1>3. CASE Retry /\ attempt # Attempts
  <2>1. /\ phase = "retrying" /\ phase' = "sending"
        /\ attempt' = attempt + 1 /\ conversation' = <<>> /\ requests' = requests
    BY <1>3 DEF Retry, TryAgain
  <2>2. requests <= share + Len(conversation) + 1
    BY <2>1 DEF Counted
  <2>3. attempt * (Repairs + 1) = share + Repairs + 1
    <3>1. attempt - 1 \in Int /\ (attempt - 1) + 1 = attempt
      BY DEF TypeOK
    <3> HIDE DEF share
    <3>2. ((attempt - 1) + 1) * (Repairs + 1) = (attempt - 1) * (Repairs + 1) + Repairs + 1
      BY <3>1, Share
    <3> QED BY <3>1, <3>2 DEF share
  <2>4. (attempt' - 1) = attempt
    BY <2>1 DEF TypeOK
  <2>5. requests <= attempt * (Repairs + 1)
    <3> HIDE DEF share
    <3> QED BY <1>0, <2>2, <2>3 DEF TypeOK
  <2>6. Len(conversation') = 0
    BY <2>1
  <2>7. requests' <= (attempt' - 1) * (Repairs + 1)
    BY <2>1, <2>4, <2>5
  <2>8. (attempt' - 1) * (Repairs + 1) \in Int
    BY <1>0 DEF TypeOK
  <2> QED BY <2>1, <2>6, <2>7, <2>8 DEF Counted
<1>4. CASE \/ Retry /\ attempt = Attempts
           \/ Refuse \/ Break \/ GiveUp \/ Crash \/ Complete \/ Reject \/ Mistake
  BY <1>4 DEF Retry, Refuse, Break, GiveUp, Crash, Complete, Reject, Mistake, End,
              Counted
<1>5. CASE Repair
  <2>1. /\ phase = "reading" /\ phase' = "sending" /\ attempt' = attempt
        /\ requests' = requests /\ Len(conversation') = Len(conversation) + 1
    BY <1>5 DEF Repair, TypeOK
  <2> QED BY <1>0, <2>1 DEF Counted, TypeOK
<1>6. CASE Accept \/ Busy
  BY <1>6 DEF Accept, Busy, Counted
<1>7. CASE Done \/ UNCHANGED vars
  BY <1>7 DEF Done, vars, Counted
<1> QED
  BY <1>1, <1>2, <1>3, <1>4, <1>5, <1>6, <1>7 DEF Next

LEMMA OwnStep == TypeOK /\ ConversationIsOwn /\ [Next]_vars => ConversationIsOwn'
BY DEF ConversationIsOwn, Next, vars, Send, Receive, Busy, Retry, TryAgain, Refuse, Break,
       Repair, GiveUp, Crash, Accept, Complete, Reject, Mistake, Done, End, TypeOK,
       Phases, Ended

LEMMA Invariance == Spec => []IInv
<1>1. Init => IInv
  BY InitInvariant
<1>2. IInv /\ [Next]_vars => IInv'
  BY TypeStep, CountedStep, OwnStep DEF IInv
<1> QED
  BY <1>1, <1>2, PTL DEF Spec

(* Every variable of an analysis stays in its type, so the attempts never   *)
(* exceed the retry policy (workflow.py:102-111).                           *)
THEOREM TypeCorrect == Spec => []TypeOK
<1>1. IInv => TypeOK
  BY DEF IInv
<1> QED
  BY <1>1, Invariance, PTL

(* However the endpoint mixes busy replies and refused answers, an analysis *)
(* sends at most Attempts * (Repairs + 1) requests.                         *)
THEOREM RequestsBounded == Spec => []RequestsAreBounded
<1>1. IInv => RequestsAreBounded
  <2> SUFFICES ASSUME IInv PROVE RequestsAreBounded
    OBVIOUS
  <2> DEFINE share == (attempt - 1) * (Repairs + 1)
  <2>1. /\ share \in Int /\ Len(conversation) \in Nat /\ Repairs \in Nat
        /\ attempt \in Nat /\ attempt <= Attempts /\ Attempts \in Nat
        /\ requests \in Nat /\ Len(conversation) <= Repairs
    BY BoundsAssumption DEF IInv, TypeOK
  <2>2. requests <= share + Len(conversation) + 1
    BY <2>1 DEF IInv, Counted
  <2>3. ((attempt - 1) + 1) * (Repairs + 1) = (attempt - 1) * (Repairs + 1) + Repairs + 1
    BY <2>1, Share
  <2>4. attempt * (Repairs + 1) = share + Repairs + 1
    BY <2>1, <2>3
  <2>5. requests <= attempt * (Repairs + 1)
    <3> HIDE DEF share
    <3> QED BY <2>1, <2>2, <2>4
  <2>6. attempt * (Repairs + 1) <= Attempts * (Repairs + 1)
    BY <2>1
  <2>7. /\ attempt * (Repairs + 1) \in Int
        /\ Attempts * (Repairs + 1) \in Int
    BY <2>1
  <2> QED BY <2>1, <2>5, <2>6, <2>7 DEF RequestsAreBounded
<1> QED
  BY <1>1, Invariance, PTL

(* A repair request carries the answers of its own attempt and no other.    *)
THEOREM ConversationOwn == Spec => []ConversationIsOwn
<1>1. IInv => ConversationIsOwn
  BY DEF IInv
<1> QED
  BY <1>1, Invariance, PTL

LEMMA MeasureNat ==
  ASSUME NEW a \in 1 .. Attempts, NEW c \in 0 .. Repairs, NEW k \in Nat
  PROVE  5 * ((Attempts - a) * (Repairs + 1) + Repairs - c) + k \in Nat
<1>1. Attempts - a \in Nat /\ Repairs + 1 \in Nat /\ Repairs - c \in Nat
  BY BoundsAssumption
<1> DEFINE share == (Attempts - a) * (Repairs + 1)
<1>2. share \in Nat
  BY <1>1
<1> HIDE DEF share
<1>3. 5 * (share + Repairs - c) + k \in Nat
  BY <1>1, <1>2, BoundsAssumption
<1> QED
  BY <1>3 DEF share

LEMMA LengthType == ASSUME TypeOK PROVE Len(conversation) \in 0 .. Repairs
BY BoundsAssumption DEF TypeOK

(* A step that only moves on in the same request, one that repairs and one  *)
(* that starts the next attempt all lower the measure.                      *)
LEMMA StepDescends ==
  ASSUME TypeOK, TypeOK', Next, ~ Done
  PROVE  Measure' < Measure
<1> DEFINE share == (Attempts - attempt) * (Repairs + 1)
           length == Len(conversation)
<1>0. /\ share \in Int /\ length \in 0 .. Repairs /\ Repairs \in Nat
      /\ attempt \in 1 .. Attempts /\ Attempts \in Nat
  BY BoundsAssumption, LengthType DEF TypeOK
<1>1. Measure = 5 * (share + Repairs - length) + Rank
  BY DEF Measure
<1>2. CASE attempt' = attempt /\ conversation' = conversation
  <2>1. Measure' = 5 * (share + Repairs - length) + Rank'
    BY <1>2 DEF Measure
  <2>2. Rank \in Nat /\ Rank' \in Nat
    BY DEF Rank, TypeOK, Phases, Ended
  <2>3. Rank' < Rank
    <3>1. ~ Repair
      BY <1>2 DEF Repair, TypeOK
    <3>2. Retry => phase' = "failed"
      BY <1>0, <1>2 DEF Retry, TryAgain, End
    <3>3. CASE Retry
      BY <3>2, <3>3 DEF Retry, Rank
    <3>4. CASE \/ Send \/ Busy \/ Refuse \/ Break \/ GiveUp \/ Crash \/ Accept \/ Complete
               \/ Reject \/ Mistake \/ \E t \in Texts : Receive(t)
      BY <3>4 DEF Send, Busy, Refuse, Break, GiveUp, Crash, Accept, Complete, Reject,
                  Mistake, Receive, End, Rank
    <3> QED BY <3>1, <3>3, <3>4 DEF Next
  <2> DEFINE base == 5 * (share + Repairs - length)
  <2>4. base \in Int
    <3> HIDE DEF share, length
    <3> QED BY <1>0
  <2>5. Measure = base + Rank /\ Measure' = base + Rank'
    BY <1>1, <2>1
  <2> HIDE DEF base
  <2>6. base + Rank' < base + Rank
    <3>1. ASSUME NEW x \in Nat, NEW y \in Nat, y < x PROVE base + y < base + x
      BY <2>4, <3>1
    <3> QED BY <2>2, <2>3, <3>1
  <2> QED BY <2>5, <2>6
<1>3. CASE Repair
  <2>1. /\ phase = "reading" /\ phase' = "sending" /\ attempt' = attempt
        /\ Len(conversation') = length + 1
    BY <1>3 DEF Repair, TypeOK
  <2>2. Rank = 2 /\ Rank' = 4
    BY <2>1 DEF Rank
  <2>3. Measure' = 5 * (share + Repairs - (length + 1)) + 4
    BY <2>1, <2>2 DEF Measure
  <2> HIDE DEF share, length
  <2> QED BY <1>0, <1>1, <2>2, <2>3
<1>4. CASE Retry /\ attempt # Attempts
  <2>1. /\ phase = "retrying" /\ phase' = "sending" /\ attempt' = attempt + 1
        /\ conversation' = <<>>
    BY <1>4 DEF Retry, TryAgain
  <2>2. Rank = 2 /\ Rank' = 4
    BY <2>1 DEF Rank
  <2> DEFINE rest == (Attempts - (attempt + 1)) * (Repairs + 1)
  <2>3. Measure' = 5 * (rest + Repairs) + 4
    <3>1. Len(conversation') = 0
      BY <2>1
    <3>2. rest \in Int
      BY <1>0
    <3>3. Measure' = 5 * (rest + Repairs - 0) + 4
      BY <2>1, <2>2, <3>1 DEF Measure
    <3> HIDE DEF rest
    <3> QED BY <1>0, <3>2, <3>3
  <2>4. share = rest + Repairs + 1
    <3>1. /\ Attempts - (attempt + 1) \in Int
          /\ (Attempts - (attempt + 1)) + 1 = Attempts - attempt
      BY <1>0
    <3> QED BY <3>1, Share
  <2>5. rest \in Int
    BY <1>0
  <2> HIDE DEF share, length, rest
  <2> QED BY <1>0, <1>1, <2>2, <2>3, <2>4, <2>5
<1>5. \/ attempt' = attempt /\ conversation' = conversation
      \/ Repair
      \/ Retry /\ attempt # Attempts
  BY DEF Next, Send, Receive, Busy, Retry, Refuse, Break, GiveUp, Crash, Accept, Complete,
         Reject, Mistake, End
<1> QED
  BY <1>2, <1>3, <1>4, <1>5

(* Every step of an analysis lowers a natural number, so no endpoint keeps  *)
(* it going and it ends without any assumption of fairness.                 *)
THEOREM StepsDescend == Spec => EveryStepDescends
<1>1. ASSUME IInv, IInv', [Next]_vars
      PROVE  [Measure' \in Nat /\ Measure' < Measure]_vars
  <2>1. TypeOK /\ TypeOK'
    BY <1>1 DEF IInv
  <2>2. Measure' \in Nat
    <3>1. attempt' \in 1 .. Attempts /\ Len(conversation') \in 0 .. Repairs
      BY <2>1, BoundsAssumption DEF TypeOK
    <3>2. Rank' \in Nat
      BY <2>1 DEF Rank, TypeOK, Phases, Ended
    <3>3. 5 * ((Attempts - attempt') * (Repairs + 1) + Repairs - Len(conversation'))
            + Rank' \in Nat
      BY <3>1, <3>2, MeasureNat
    <3> QED BY <3>3 DEF Measure
  <2>3. CASE Next /\ ~ Done
    BY <2>1, <2>2, <2>3, StepDescends
  <2>4. CASE Done \/ UNCHANGED vars
    BY <2>4 DEF Done
  <2> QED BY <1>1, <2>3, <2>4
<1> QED
  BY <1>1, Invariance, PTL DEF Spec, EveryStepDescends

LEMMA CallStarts == Init => Workflow!At("analysis", "calling")
BY DEF Init, Call, CallStep, Workflow!At

(* The task of the operator in EvidenceWorkflow at step s of attempt n, and *)
(* the record in it.                                                        *)
CallAt(s, n, r) == [step |-> s, case |-> "case", attempt |-> n, record |-> r,
                    destination |-> "None"]

RecordIn(s, a) == [evidence |-> "evidence", state |-> s, assessment |-> a,
                   reviewer |-> "None", receipt |-> "None"]

(* Within the provider call the workflow sees nothing; what ends it is one  *)
(* of the outcomes analyze distinguishes.                                   *)
LEMMA CallGoesOn ==
  ASSUME TypeOK, [Next]_vars
  PROVE  \/ UNCHANGED Call
         \/ \E a \in Parsed : Workflow!ProviderAnswers("analysis", a)
         \/ Workflow!ProviderFails("analysis")
         \/ Workflow!ProviderBusy("analysis")
         \/ Workflow!ProviderRaises("analysis")
         \/ Workflow!LogRetry("analysis")
<1> DEFINE Task == [p \in {"analysis"} |-> Call]
           InCall == phase \in {"sending", "waiting", "reading", "validating"}
<1>1. InCall => Call = CallAt("calling", attempt, RecordIn("received", "None"))
  BY DEF Call, CallStep, CallRecord, CallAt, RecordIn
<1>2. phase = "retrying" =>
        Call = CallAt("retrying", attempt, RecordIn("received", "None"))
  BY DEF Call, CallStep, CallRecord, CallAt, RecordIn
<1>3. InCall' => Call' = CallAt("calling", attempt', RecordIn("received", "None"))
  BY DEF Call, CallStep, CallRecord, CallAt, RecordIn
<1>4. phase' = "retrying" =>
        Call' = CallAt("retrying", attempt', RecordIn("received", "None"))
  BY DEF Call, CallStep, CallRecord, CallAt, RecordIn
<1>5. phase' = "failed" =>
        Call' = CallAt("failing", attempt', RecordIn("failed", "None"))
  BY DEF Call, CallStep, CallRecord, CallAt, RecordIn
<1>6. phase' = "completed" =>
        Call' = CallAt("completing", attempt', RecordIn("pending_approval", text'))
  BY DEF Call, CallStep, CallRecord, CallAt, RecordIn
<1>7. phase' = "raised" => Call' = Workflow!Idle
  BY DEF Call, Workflow!Idle
<1>8. /\ Workflow!At("analysis", "calling") <=> Call.step = "calling"
      /\ Workflow!At("analysis", "retrying") <=> Call.step = "retrying"
  BY DEF Workflow!At
<1>9. CASE InCall /\ InCall' /\ attempt' = attempt
  BY <1>1, <1>3, <1>9
<1>10. CASE Busy
  <2>1. InCall /\ phase' = "retrying" /\ attempt' = attempt
    BY <1>10 DEF Busy
  <2>2. Task' = [Task EXCEPT !["analysis"].step = "retrying"]
    BY <1>1, <1>4, <2>1 DEF CallAt
  <2> QED BY <1>1, <1>8, <2>1, <2>2 DEF CallAt, Workflow!ProviderBusy, Workflow!Advance
<1>11. CASE Refuse \/ GiveUp \/ Reject
  <2>1. InCall /\ phase' = "failed" /\ attempt' = attempt
    BY <1>11 DEF Refuse, GiveUp, Reject, End
  <2>2. Task' = [Task EXCEPT !["analysis"].step = "failing",
                             !["analysis"].record.state = "failed"]
    <3>1. /\ Task = [p \in {"analysis"} |->
                    CallAt("calling", attempt, RecordIn("received", "None"))]
          /\ Task' = [p \in {"analysis"} |->
                    CallAt("failing", attempt, RecordIn("failed", "None"))]
      BY <1>1, <1>5, <2>1
    <3> HIDE DEF Task
    <3> QED BY <3>1 DEF CallAt, RecordIn
  <2> QED BY <1>1, <1>8, <2>1, <2>2 DEF CallAt, Workflow!ProviderFails
<1>12. CASE Break \/ Crash \/ Mistake
  <2>1. InCall /\ phase' = "raised"
    BY <1>12 DEF Break, Crash, Mistake, End
  <2>2. Task' = [Task EXCEPT !["analysis"] = Workflow!Idle]
    BY <1>7, <2>1
  <2> QED BY <1>1, <1>8, <2>1, <2>2 DEF CallAt, Workflow!ProviderRaises, Workflow!Return
<1>13. CASE Complete
  <2>1. InCall /\ phase' = "completed" /\ attempt' = attempt /\ text' = text
    BY <1>13 DEF Complete, End
  <2>2. text \in Parsed /\ text \in Sound
    BY <1>13, TextsAssumption DEF Complete, Sound
  <2>3. Task' = [Task EXCEPT !["analysis"].step = "completing",
                             !["analysis"].record.assessment = text,
                             !["analysis"].record.state = "pending_approval"]
    <3>1. /\ Task = [p \in {"analysis"} |->
                    CallAt("calling", attempt, RecordIn("received", "None"))]
          /\ Task' = [p \in {"analysis"} |->
                    CallAt("completing", attempt, RecordIn("pending_approval", text))]
      BY <1>1, <1>6, <2>1
    <3> HIDE DEF Task
    <3> QED BY <3>1 DEF CallAt, RecordIn
  <2>4. Task["analysis"].record.evidence = "evidence"
    BY <1>1, <2>1 DEF CallAt, RecordIn
  <2>5. <<Task["analysis"].record.evidence, text>>
          \in ({"evidence"} \X Parsed) \cap ({"evidence"} \X Sound)
    BY <2>2, <2>4
  <2>6. Workflow!ProviderAnswers("analysis", text)
    BY <1>1, <1>8, <2>1, <2>3, <2>5 DEF CallAt, Workflow!ProviderAnswers
  <2> QED BY <2>2, <2>6
<1>14. CASE Retry
  <2>1. phase = "retrying"
    BY <1>14 DEF Retry
  <2>2. Task["analysis"].attempt = attempt
    BY <1>2, <2>1 DEF CallAt
  <2>3. CASE attempt = Attempts
    <3>1. phase' = "failed" /\ attempt' = attempt
      BY <1>14, <2>3 DEF Retry, End
    <3>2. Task' = [Task EXCEPT !["analysis"].step = "failing",
                               !["analysis"].record.state = "failed"]
      <4>1. /\ Task = [p \in {"analysis"} |->
                      CallAt("retrying", attempt, RecordIn("received", "None"))]
            /\ Task' = [p \in {"analysis"} |->
                      CallAt("failing", attempt, RecordIn("failed", "None"))]
        BY <1>2, <1>5, <2>1, <3>1
      <4> HIDE DEF Task
      <4> QED BY <4>1 DEF CallAt, RecordIn
    <3> QED BY <1>2, <1>8, <2>1, <2>2, <2>3, <3>2
         DEF CallAt, Workflow!LogRetry, Workflow!Log
  <2>4. CASE attempt # Attempts
    <3>1. InCall' /\ attempt' = attempt + 1
      BY <1>14, <2>4 DEF Retry, TryAgain
    <3>2. Task' = [Task EXCEPT !["analysis"].step = "calling",
                               !["analysis"].attempt = @ + 1]
      <4>1. /\ Task = [p \in {"analysis"} |->
                      CallAt("retrying", attempt, RecordIn("received", "None"))]
            /\ Task' = [p \in {"analysis"} |->
                      CallAt("calling", attempt + 1, RecordIn("received", "None"))]
        BY <1>2, <1>3, <2>1, <3>1
      <4> HIDE DEF Task
      <4> QED BY <4>1 DEF CallAt, RecordIn
    <3> QED BY <1>2, <1>8, <2>1, <2>2, <2>4, <3>2
         DEF CallAt, Workflow!LogRetry, Workflow!Log
  <2> QED BY <2>3, <2>4
<1>15. CASE Done \/ UNCHANGED vars
  BY <1>15 DEF Done, vars, Call, CallStep, CallRecord
<1>16. CASE Send \/ Repair \/ Accept \/ \E t \in Texts : Receive(t)
  BY <1>9, <1>16 DEF Send, Repair, Accept, Receive
<1> QED BY <1>10, <1>11, <1>12, <1>13, <1>14, <1>15, <1>16 DEF Next

(* The provider with its two loops implements the provider call that        *)
(* EvidenceWorkflow takes as one step, attempt by attempt: what is proved   *)
(* of the workflow holds with this provider in it.                          *)
THEOREM CallImplemented == Spec => ImplementsCall
<1>1. IInv /\ [Next]_vars =>
        [\/ \E a \in Parsed : Workflow!ProviderAnswers("analysis", a)
         \/ Workflow!ProviderFails("analysis")
         \/ Workflow!ProviderBusy("analysis")
         \/ Workflow!ProviderRaises("analysis")
         \/ Workflow!LogRetry("analysis")]_(Workflow!vars)
  BY CallGoesOn DEF IInv, Workflow!vars
<1> QED BY <1>1, CallStarts, Invariance, PTL DEF Spec, ImplementsCall
=============================================================================
