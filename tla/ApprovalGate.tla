---------------------------- MODULE ApprovalGate ----------------------------
(* What EvidenceFlow promises about an export, whatever the provider says, *)
(* however many processes share the data directory and wherever they die:  *)
(* a file reaches the handoff directory only if a named reviewer approved  *)
(* exactly that assessment of exactly that evidence, and the assessment    *)
(* had passed every validator.  Nothing is said about order beyond that,   *)
(* about the workflow record or about the audit log.                       *)

CONSTANTS Cases, Evidence, Assessments, Destinations, Nil,
          Named,       \* reviewers whose name is not blank
          Grounded     \* the pairs <<evidence, assessment>> the validators accept

VARIABLES granted,     \* the decisions reviewers have taken
          released     \* the export at each <<destination, case>>, or Nil

vars == <<granted, released>>

Export == [evidence : Evidence, assessment : Assessments, reviewer : Named]

Decision == [case : Cases, export : Export]

TypeOK == /\ granted \subseteq Decision
          /\ released \in [Destinations \X Cases -> Export \cup {Nil}]

Init == /\ granted = {}
        /\ released = [path \in Destinations \X Cases |-> Nil]

Grant(c, x) == /\ <<x.evidence, x.assessment>> \in Grounded
               /\ granted' = granted \cup {[case |-> c, export |-> x]}
               /\ UNCHANGED released

Release(d, c, x) == /\ [case |-> c, export |-> x] \in granted
                    /\ released' = [released EXCEPT ![<<d, c>>] = x]
                    /\ UNCHANGED granted

Next == \E c \in Cases, x \in Export :
          \/ Grant(c, x)
          \/ \E d \in Destinations : Release(d, c, x)

Spec == Init /\ [][Next]_vars
=============================================================================
