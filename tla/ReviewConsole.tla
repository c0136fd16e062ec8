---------------------------- MODULE ReviewConsole ---------------------------
(* The review console (web.py) beside the CLI (cli.py).  A handler thread   *)
(* serves one browser: do_GET lists the cases as cards, a card offers the   *)
(* form its row allows, do_POST checks the form and makes one workflow call *)
(* on the stores that EvidenceWorkflow describes.  Between the page and the *)
(* form any command, and any other handler, may go on.  Only WorkflowError  *)
(* is answered; any other exception drops the connection.                   *)
EXTENDS EvidenceWorkflow

CONSTANTS
  Handlers,     \* the operators that are threads of the console
  Forms,        \* forms as they arrive
  MaxLength,    \* 8192, the length of a body
  Overlong,     \* reviewers of more than 200 characters
  ApprovedDir   \* the directory of the console's publisher

(* A form: token says whether the CSRF token is the console's; a case that  *)
(* is missing or has more than 512 characters is Nil.                       *)
Form == [path : {"/approve", "/publish", "other"}, length : Nat, token : BOOLEAN,
         case : Cases \cup {Nil}, reviewer : Reviewers \cup {Nil}]

ASSUME ConsoleAssumption == /\ Handlers \subseteq Operators
                            /\ Forms \subseteq Form
                            /\ Overlong \subseteq Reviewers
                            /\ ApprovedDir \in Destinations
                            /\ Nil \notin Form

Commands == Operators \ Handlers

VARIABLES
  session,      \* handler -> the browser it serves
  contested,    \* history: cases that two analyses were in at once
  unanswered    \* history: audit records owed by calls that were dropped

consoleVars == <<session, contested, unanswered>>

allVars == <<vars, consoleVars>>

(* What a handler's browser was told: see_other is 303, conflict 409; a form*)
(* that a test refuses touches nothing and has no action, and a connection  *)
(* that is dropped tells the reviewer nothing.                              *)
Session == [page : [Cases -> [offers : {"nothing", "/approve", "/publish"},
                              assessment : Assessments \cup {Nil}]],
            form : Forms \cup {Nil},
            answer : {"none", "awaited", "see_other", "conflict"},
            stored : BOOLEAN]   \* history: the form's call has changed a store

-----------------------------------------------------------------------------
(* do_GET *)

(* _case_card: which form a row offers, and the assessment it is shown with;*)
(* a page is remembered as far as its forms go.                             *)
Card(row) ==
  [offers |-> CASE row # Nil /\ row.state = "pending_approval" -> "/approve"
                [] row # Nil /\ row.state = "approved" -> "/publish"
                [] OTHER -> "nothing",
   assessment |-> IF row # Nil /\ row.state = "pending_approval" THEN row.assessment
                                                               ELSE Nil]

Page == [c \in Cases |-> Card(repository[c])]

Free(h) == session[h].answer # "awaited"

Get(h) ==
  /\ Free(h)
  /\ session' = [session EXCEPT ![h] = [page |-> Page, form |-> Nil,
                                        answer |-> "none", stored |-> FALSE]]
  /\ UNCHANGED <<vars, contested, unanswered>>

-----------------------------------------------------------------------------
(* do_POST *)

(* The tests of do_POST, all of which come before the workflow call. *)
Refused(f) ==
  \/ f.path = "other"
  \/ f.length \notin 1 .. MaxLength
  \/ ~ f.token
  \/ f.case = Nil
  \/ f.path = "/approve" /\ f.reviewer \notin Named \ Overlong

(* Whatever page the browser shows, do_POST takes every form with the token.*)
Submits(h, f) == Free(h) /\ ~ Refused(f)

Answer(h, f, code, stored) ==
  session' = [session EXCEPT ![h] = [page |-> session[h].page, form |-> f,
                                     answer |-> code, stored |-> stored]]

(* The workflow call begins. *)
Post(h, f) ==
  /\ Submits(h, f)
  /\ \/ f.path = "/approve" /\ Approve(h, f.case, f.reviewer)
     \/ /\ f.path = "/publish"
        /\ \/ Publish(h, f.case, ApprovedDir)
           \/ PublishAgain(h, f.case, ApprovedDir)
           \/ PublishEarly(h, f.case, ApprovedDir)
  /\ Answer(h, f, "awaited", FALSE)
  /\ UNCHANGED <<contested, unanswered>>

(* approve returns the record of a case that is published by now and raises *)
(* WorkflowError for any other that is not pending, as both calls do for a  *)
(* case that is unknown; none of them touches a store.                      *)
PostLate(h, f) ==
  /\ Submits(h, f)
  /\ \/ f.path = "/approve" /\ ~ Stored(f.case, "pending_approval")
     \/ repository[f.case] = Nil
  /\ Answer(h, f, IF Stored(f.case, "published") THEN "see_other" ELSE "conflict", FALSE)
  /\ UNCHANGED <<vars, contested, unanswered>>

(* Mutant: the redirect is sent before the last append. *)
OutcomeEarly(h) ==
  CASE task'[h].step \in {"approved", "published"} -> "see_other"
    [] task'[h] = Idle /\ task[h].step = "publish_blocked" -> "conflict"
    [] task'[h] = Idle /\ task[h].step # "publish_blocked" -> "none"
    [] OTHER -> "awaited"

(* How a step of the call ends the request, if it does: the last append     *)
(* returns, publish_blocked raises ApprovalRequired, and PersistenceError   *)
(* is not a WorkflowError.                                                  *)
Outcome(h) ==
  CASE task'[h] # Idle -> "awaited"
    [] task'[h] = Idle /\ task[h].step \in {"approved", "published", "publish_deduplicated"}
         -> "see_other"
    [] task'[h] = Idle /\ task[h].step = "publish_blocked" -> "conflict"
    [] OTHER -> "none"

Serve(h) ==
  /\ ~ Free(h)
  /\ Step(h)
  /\ IF Outcome(h) = "none"
       THEN Answer(h, Nil, "none", FALSE)
       ELSE Answer(h, session[h].form, Outcome(h),
                   session[h].stored \/ repository' # repository \/ exports' # exports)
  /\ UNCHANGED <<contested, unanswered>>

(* The audit record the call of o still owes for what it has stored. *)
Owes(o) ==
  CASE At(o, "approved") ->
         {[event |-> "case_approved", case |-> task[o].case,
           detail |-> task[o].record.reviewer]}
    [] task[o].step \in {"publishing", "published"} ->
         {[event |-> "case_published", case |-> task[o].case,
           detail |-> task[o].destination]}
    [] OTHER -> {}

(* Mutant: do_POST catches every exception as it does a WorkflowError. *)
DropAsConflict(h) ==
  /\ ~ Free(h)
  /\ Interrupt(h)
  /\ Answer(h, session[h].form, "conflict", session[h].stored)
  /\ unanswered' = unanswered \cup Owes(h)
  /\ UNCHANGED contested

(* An OSError or a sqlite3 error leaves do_POST, or the console is killed.  *)
Drop(h) ==
  /\ ~ Free(h)
  /\ Interrupt(h)
  /\ Answer(h, Nil, "none", FALSE)
  /\ unanswered' = unanswered \cup Owes(h)
  /\ UNCHANGED contested

-----------------------------------------------------------------------------
(* The commands assure and pilot, which analyse a case, approve and publish.*)

AnalysisSteps == {"retried", "received", "calling", "retrying", "failing", "completing"}

(* o is on its way to a save that decides the analysis of c. *)
Analysing(o, c) == task[o].case = c /\ task[o].step \in AnalysisSteps

Meets(o, c) == Analysing(o, c)' /\ \E q \in Operators \ {o} : Analysing(q, c)

Command(o) ==
  /\ Start(o) \/ Step(o)
  /\ contested' = contested \cup {c \in Cases : Meets(o, c)}
  /\ UNCHANGED <<session, unanswered>>

CutShort(o) ==
  /\ Interrupt(o)
  /\ unanswered' = unanswered \cup Owes(o)
  /\ UNCHANGED <<session, contested>>

NoPage == [c \in Cases |-> Card(Nil)]

ConsoleInit ==
  /\ Init
  /\ session = [h \in Handlers |-> [page |-> NoPage, form |-> Nil, answer |-> "none",
                                    stored |-> FALSE]]
  /\ contested = {}
  /\ unanswered = {}

ConsoleNext ==
  \/ \E h \in Handlers :
       \/ Get(h)
       \/ \E f \in Forms : Post(h, f) \/ PostLate(h, f)
       \/ Serve(h)
       \/ Drop(h)
  \/ \E o \in Commands : Command(o) \/ CutShort(o)

ConsoleSpec == ConsoleInit /\ [][ConsoleNext]_allVars

-----------------------------------------------------------------------------
(* Every variable of the console stays in its type, and a browser waits for *)
(* an answer exactly as long as its handler is in a call.                   *)
ConsoleTypeOK == /\ session \in [Handlers -> Session]
                 /\ \A h \in Handlers : Free(h) <=> task[h] = Idle
                 /\ contested \subseteq Cases
                 /\ unanswered \subseteq Entry

(* What an answer tells the reviewer is so.  A redirect after an approval:  *)
(* his decision is durable and in the log, unless the case had been exported*)
(* before he sent it.  A redirect after a publication: there is a file.  A  *)
(* refusal: his form has changed nothing (the except clause, web.py:203,    *)
(* and the early return of approve, workflow.py:149).                       *)
AnswersAreTrue ==
  \A h \in Handlers :
    LET f == session[h].form
        Exported == \E d \in Destinations : exports[<<d, f.case>>] # Nil
    IN  /\ session[h].answer = "see_other" =>
             \/ Exported
             \/ /\ f.path = "/approve"
                /\ \E decision \in approvals : /\ decision.case = f.case
                                               /\ decision.export.reviewer = f.reviewer
                /\ [event |-> "case_approved", case |-> f.case,
                    detail |-> f.reviewer] \in audit
        /\ session[h].answer = "conflict" => ~ session[h].stored

(* The decision that a form of the page takes is about the assessment whose *)
(* card the page showed, however old it is, unless two analyses of the case *)
(* ran at once: the form names a case and not an assessment (web.py:200),   *)
(* and a row that waits for its reviewer is analysed again by nobody else.  *)
SeenIsApproved ==
  \A h \in Handlers :
    LET c == task[h].case
    IN  /\ task[h].step \in {"approving", "approved"}
        /\ session[h].page[c].offers = "/approve"
        /\ c \notin contested
        => task[h].record.assessment = session[h].page[c].assessment

Accounted(event, c, detail) ==
  \/ Audited(event, c, detail)
  \/ [event |-> event, case |-> c, detail |-> detail] \in unanswered

(* Every approval and every export is in the log or about to be, but for    *)
(* those of a call that was cut short: an answered form, and a command that *)
(* returned, left its record (workflow.py:157-158, :172-177).               *)
EffectsAreAccounted ==
  /\ \A decision \in approvals :
       Accounted("case_approved", decision.case, decision.export.reviewer)
  /\ \A d \in Destinations, c \in Cases :
       exports[<<d, c>>] # Nil => Accounted("case_published", c, d)
=============================================================================
