---------------------------- MODULE CaseLifecycle ---------------------------
(* The life of a case as README.md and docs/architecture.md draw it, and as *)
(* one operator at a time obtains it, crashes included: evidence is pinned  *)
(* by the first record, a failed analysis may be tried again, an assessment *)
(* waits for one named reviewer, an approved one is exported before it is   *)
(* recorded as published, and from there on nothing moves.                  *)

CONSTANTS Cases, Evidence, Assessments, Destinations, Nil, Named, Grounded

VARIABLES repository,   \* the stored record of each case, or Nil
          exports       \* the export at each <<destination, case>>, or Nil

vars == <<repository, exports>>

Record(s, e, a, r, d) == [evidence |-> e, state |-> s, assessment |-> a,
                          reviewer |-> r, receipt |-> d]

Contents(rec) == [evidence |-> rec.evidence, assessment |-> rec.assessment,
                  reviewer |-> rec.reviewer]

In(c, s) == repository[c] # Nil /\ repository[c].state = s

(* No analysis of c has been accepted, and none used other evidence than e. *)
Open(c, e) == \/ repository[c] = Nil
              \/ In(c, "failed") /\ repository[c].evidence = e

Init == /\ repository = [c \in Cases |-> Nil]
        /\ exports = [path \in Destinations \X Cases |-> Nil]

Fail(c, e) ==
  /\ Open(c, e)
  /\ repository' = [repository EXCEPT ![c] = Record("failed", e, Nil, Nil, Nil)]
  /\ UNCHANGED exports

Propose(c, e, a) ==
  /\ Open(c, e)
  /\ <<e, a>> \in Grounded
  /\ repository' = [repository EXCEPT
                      ![c] = Record("pending_approval", e, a, Nil, Nil)]
  /\ UNCHANGED exports

Approve(c, r) ==
  /\ In(c, "pending_approval")
  /\ repository' = [repository EXCEPT ![c].state = "approved", ![c].reviewer = r]
  /\ UNCHANGED exports

Release(c, d) ==
  /\ In(c, "approved")
  /\ exports[<<d, c>>] = Nil
  /\ exports' = [exports EXCEPT ![<<d, c>>] = Contents(repository[c])]
  /\ UNCHANGED repository

Publish(c, d) ==
  /\ In(c, "approved")
  /\ exports[<<d, c>>] = Contents(repository[c])
  /\ repository' = [repository EXCEPT ![c].state = "published", ![c].receipt = d]
  /\ UNCHANGED exports

Next == \E c \in Cases :
          \/ \E e \in Evidence : Fail(c, e) \/ \E a \in Assessments : Propose(c, e, a)
          \/ \E r \in Named : Approve(c, r)
          \/ \E d \in Destinations : Release(c, d) \/ Publish(c, d)

Spec == Init /\ [][Next]_vars
=============================================================================
