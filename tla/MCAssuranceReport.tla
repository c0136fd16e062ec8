-------------------------- MODULE MCAssuranceReport --------------------------
(* Instances of AssuranceReport for TLC: files of up to two runs and four   *)
(* results, over levels of every severity and sizes at and over the limit.  *)
EXTENDS AssuranceReport

CONSTANT Sizes

Sarif(bytes, formed, runs) == [bytes |-> bytes, formed |-> formed, runs |-> runs]

(* One tool finds nothing or one thing, the other splits up to four results *)
(* over two runs.                                                           *)
Single == {<<>>} \cup [1 .. 1 -> [level : {"error", "other", "none"}, size : Sizes]]

Second == UNION {[1 .. n -> {[level |-> "note", size |-> 2]}] : n \in 0 .. 3}

(* Of the limit's size, larger than it, and no SARIF at all. *)
MCFiles ==
  {Sarif(1, TRUE, <<[tool |-> 1, results |-> r]>>) : r \in Single}
  \cup {Sarif(2, TRUE, <<[tool |-> 2, results |-> <<r>>],
                         [tool |-> 2, results |-> s]>>) :
          r \in [level : {"error", "warning"}, size : {1, 7}], s \in Second}
  \cup {Sarif(3, TRUE, <<>>), Sarif(1, FALSE, <<>>)}

(* Numerals and names sort otherwise than they are counted. *)
Place == <<2, 1, 3, 4>>

Key(id) == id[1] * 100 + (IF id[2] = 0 THEN 0 ELSE Place[id[2]]) * 10
                       + (IF id[3] = 0 THEN 0 ELSE Place[id[3]])

MCIdBefore(x, y) == Key(x) < Key(y)

MCControls == <<"medium", "low">>
=============================================================================
