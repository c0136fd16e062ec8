------------------------ MODULE AssuranceReportProofs ------------------------
(* The promises of AssuranceReport for any files, limits, controls and      *)
(* order of ids.  The model's operators are loops over sequences of any     *)
(* length; what they compute is proved by induction over sets of numbers.   *)
EXTENDS AssuranceReport, SequenceTheorems, FiniteSetTheorems, TLAPS

-----------------------------------------------------------------------------
(* Induction and loops *)

LEMMA NatSetInduction ==
  ASSUME NEW T, 0 \in T, \A n \in Nat : n \in T => n + 1 \in T
  PROVE  \A n \in Nat : n \in T
  <1> DEFINE Rest == Nat \ T
  <1> SUFFICES ASSUME Rest # {} PROVE FALSE
    OBVIOUS
  <1>1. PICK m \in Rest : \A k \in Rest : <<k, m>> \notin OpToRel(<, Nat)
    BY WFMin, NatLessThanWellFounded, Zenon
  <1>2. m \in Nat /\ m # 0
    OBVIOUS
  <1>3. m - 1 \in Nat
    BY <1>2
  <1>4. m - 1 \in T
    <2>1. <<m - 1, m>> \in OpToRel(<, Nat)
      BY <1>2, <1>3 DEF OpToRel
    <2> QED BY <1>1, <1>3, <2>1
  <1> QED BY <1>2, <1>3, <1>4

(* Induction along a sequence: over the numbers up to its length. *)
LEMMA UpTo ==
  ASSUME NEW N \in Nat, NEW T, 0 \in T,
         \A n \in 1 .. N : n - 1 \in T => n \in T
  PROVE  \A n \in 0 .. N : n \in T
  <1> DEFINE U == {n \in Nat : n <= N => n \in T}
  <1>1. 0 \in U
    OBVIOUS
  <1>2. ASSUME NEW n \in Nat, n \in U PROVE n + 1 \in U
    <2>1. CASE n + 1 <= N
      <3>1. n + 1 \in 1 .. N /\ (n + 1) - 1 = n
        BY <2>1
      <3> QED BY <1>2, <2>1, <3>1
    <2> QED BY <2>1
  <1>3. \A n \in Nat : n \in U
    <2> HIDE DEF U
    <2> QED BY <1>1, <1>2, NatSetInduction
  <1> QED BY <1>3

(* g is the state of a loop after each number of items up to N: it starts   *)
(* at base, and the n-th item takes it through Step[n].                     *)
IsLoop(g, N, S, base, Step) ==
  /\ g \in [0 .. N -> S]
  /\ g[0] = base
  /\ \A n \in 1 .. N : g[n - 1] \in S /\ g[n] = Step[n][g[n - 1]]

LEMMA LoopIsDefined ==
  ASSUME NEW N \in Nat, NEW S, NEW base \in S, NEW Step \in [1 .. N -> [S -> S]]
  PROVE  \E g : IsLoop(g, N, S, base, Step)
  <1> DEFINE T == {n \in 0 .. N : \E g : IsLoop(g, n, S, base, Step)}
  <1>1. 0 \in T
    <2> DEFINE g == [n \in 0 .. 0 |-> base]
    <2>1. IsLoop(g, 0, S, base, Step)
      BY DEF IsLoop
    <2> HIDE DEF g
    <2> QED BY <2>1
  <1>2. ASSUME NEW n \in 1 .. N, n - 1 \in T PROVE n \in T
    <2>1. PICK g : IsLoop(g, n - 1, S, base, Step)
      BY <1>2
    <2> DEFINE last == Step[n][g[n - 1]]
               h == [k \in 0 .. n |-> IF k = n THEN last ELSE g[k]]
    <2>2. g \in [0 .. n - 1 -> S] /\ last \in S
      BY <2>1 DEF IsLoop
    <2>3. h \in [0 .. n -> S] /\ h[0] = base
      <3>1. h[0] = g[0]
        OBVIOUS
      <3> HIDE DEF last
      <3> QED BY <2>1, <2>2, <3>1 DEF IsLoop
    <2>4. ASSUME NEW k \in 1 .. n PROVE h[k - 1] \in S /\ h[k] = Step[k][h[k - 1]]
      <3>1. h[k - 1] = g[k - 1] /\ h[k - 1] \in S
        BY <2>2
      <3>2. CASE k = n
        <4>1. h[k] = last
          BY <3>2
        <4> QED BY <3>1, <3>2, <4>1
      <3>3. CASE k # n
        <4>1. k \in 1 .. n - 1 /\ h[k] = g[k]
          BY <3>3
        <4> HIDE DEF h
        <4> QED BY <2>1, <3>1, <4>1 DEF IsLoop
      <3> QED BY <3>2, <3>3
    <2>5. IsLoop(h, n, S, base, Step)
      <3> HIDE DEF h
      <3> QED BY <2>3, <2>4 DEF IsLoop
    <2> HIDE DEF h
    <2> QED BY <2>5
  <1>3. \A n \in 0 .. N : n \in T
    <2> HIDE DEF T
    <2> QED BY <1>1, <1>2, UpTo
  <1> QED BY <1>3

-----------------------------------------------------------------------------
(* Sums *)

LEMMA TotalsDef ==
  ASSUME NEW items, Len(items) \in Nat, \A i \in 1 .. Len(items) : items[i].size \in Nat
  PROVE  /\ Totals(items) \in [0 .. Len(items) -> Nat]
         /\ Totals(items)[0] = 0
         /\ \A n \in 1 .. Len(items) : Totals(items)[n] = Totals(items)[n - 1] + items[n].size
  <1> DEFINE N == Len(items)
             Step == [n \in 1 .. N |-> [total \in Nat |-> total + items[n].size]]
             IsTotals(t) == t = [n \in 0 .. N |-> IF n = 0 THEN 0 ELSE t[n - 1] + items[n].size]
  <1>1. Step \in [1 .. N -> [Nat -> Nat]]
    OBVIOUS
  <1>2. PICK g : IsLoop(g, N, Nat, 0, Step)
    <2> HIDE DEF Step
    <2> QED BY <1>1, LoopIsDefined
  <1>3. IsTotals(g)
    <2>1. \A n \in 1 .. N, total \in Nat : Step[n][total] = total + items[n].size
      OBVIOUS
    <2> HIDE DEF Step
    <2>2. DOMAIN g = 0 .. N /\ \A n \in 1 .. N : g[n] = g[n - 1] + items[n].size
      BY <1>2, <2>1 DEF IsLoop
    <2>3. \A n \in 0 .. N : n \in 1 .. N \/ n = 0
      OBVIOUS
    <2> QED BY <1>2, <2>2, <2>3 DEF IsLoop
  <1>4. IsTotals(Totals(items))
    BY <1>3, Zenon DEF Totals
  <1> DEFINE t == Totals(items)
  <1>5. DOMAIN t = 0 .. N /\ t[0] = 0 /\ \A n \in 1 .. N : t[n] = t[n - 1] + items[n].size
    <2> HIDE DEF t
    <2>1. IsTotals(t)
      BY <1>4 DEF t
    <2> QED BY <2>1
  <1>6. \A n \in 0 .. N : t[n] \in Nat
    <2> HIDE DEF t
    <2> DEFINE T == {n \in 0 .. N : t[n] \in Nat}
    <2>1. 0 \in T
      BY <1>5
    <2>2. ASSUME NEW n \in 1 .. N, n - 1 \in T PROVE n \in T
      BY <1>5, <2>2
    <2>3. \A n \in 0 .. N : n \in T
      <3> HIDE DEF T
      <3> QED BY <2>1, <2>2, UpTo
    <2> QED BY <2>3
  <1>7. t \in [0 .. N -> Nat]
    <2> HIDE DEF t
    <2>1. IsTotals(t)
      BY <1>4 DEF t
    <2> QED BY <2>1, <1>6
  <1> QED BY <1>5, <1>7

-----------------------------------------------------------------------------
(* Review items *)

LEMMA ReviewsOfDef ==
  ASSUME NEW T, NEW items \in Seq(T)
  PROVE  /\ ReviewsOf(items)[0] = <<>>
         /\ \A n \in 1 .. Len(items) :
              ReviewsOf(items)[n] = IF items[n].status = "review"
                                      THEN Append(ReviewsOf(items)[n - 1], items[n])
                                      ELSE ReviewsOf(items)[n - 1]
  <1> DEFINE N == Len(items)
             Keep(n, s) == IF items[n].status = "review" THEN Append(s, items[n]) ELSE s
             Step == [n \in 1 .. N |-> [s \in Seq(T) |-> Keep(n, s)]]
             IsReviews(r) == r = [n \in 0 .. N |->
                                   IF n = 0 THEN <<>>
                                   ELSE IF items[n].status = "review"
                                          THEN Append(r[n - 1], items[n]) ELSE r[n - 1]]
  <1>0. N \in Nat /\ <<>> \in Seq(T)
    BY LenProperties
  <1>1. Step \in [1 .. N -> [Seq(T) -> Seq(T)]]
    <2>1. ASSUME NEW n \in 1 .. N, NEW s \in Seq(T) PROVE Keep(n, s) \in Seq(T)
      BY ElementOfSeq, AppendProperties
    <2> HIDE DEF Keep
    <2> QED BY <2>1
  <1>2. PICK g : IsLoop(g, N, Seq(T), <<>>, Step)
    <2> HIDE DEF Step, N
    <2> QED BY <1>0, <1>1, LoopIsDefined
  <1>3. IsReviews(g)
    <2>1. \A n \in 1 .. N, s \in Seq(T) : Step[n][s] = Keep(n, s)
      BY Zenon
    <2> HIDE DEF Step
    <2>2. DOMAIN g = 0 .. N /\ \A n \in 1 .. N : g[n] = Keep(n, g[n - 1])
      <3> HIDE DEF Keep
      <3> QED BY <1>2, <2>1 DEF IsLoop
    <2>3. \A n \in 0 .. N : n \in 1 .. N \/ n = 0
      OBVIOUS
    <2> QED BY <1>2, <2>2, <2>3 DEF IsLoop
  <1>4. IsReviews(ReviewsOf(items))
    BY <1>3, Zenon DEF ReviewsOf
  <1> DEFINE r == ReviewsOf(items)
  <1> HIDE DEF r
  <1>5. IsReviews(r)
    BY <1>4 DEF r
  <1>6. r[0] = <<>> /\ \A n \in 1 .. N : r[n] = Keep(n, r[n - 1])
    <2>1. ASSUME NEW n \in 0 .. N
          PROVE  r[n] = IF n = 0 THEN <<>>
                        ELSE IF items[n].status = "review"
                               THEN Append(r[n - 1], items[n]) ELSE r[n - 1]
      BY <1>5, Zenon
    <2>2. 0 \in 0 .. N /\ \A n \in 1 .. N : n \in 0 .. N /\ n # 0
      BY <1>0
    <2> QED BY <2>1, <2>2
  <1> QED BY <1>6 DEF r

(* Reviews keeps the items that ask for review and no others. *)
LEMMA ReviewsKeeps ==
  ASSUME NEW T, NEW items \in Seq(T)
  PROVE  /\ Reviews(items) \in Seq(T)
         /\ \A i \in 1 .. Len(Reviews(items)) :
              \E j \in 1 .. Len(items) :
                Reviews(items)[i] = items[j] /\ items[j].status = "review"
         /\ \A j \in 1 .. Len(items) :
              items[j].status = "review" =>
                \E i \in 1 .. Len(Reviews(items)) : Reviews(items)[i] = items[j]
  <1> DEFINE N == Len(items)
             r == ReviewsOf(items)
             Holds(n) ==
               /\ r[n] \in Seq(T)
               /\ \A i \in 1 .. Len(r[n]) :
                    \E j \in 1 .. n : r[n][i] = items[j] /\ items[j].status = "review"
               /\ \A j \in 1 .. n :
                    items[j].status = "review" => \E i \in 1 .. Len(r[n]) : r[n][i] = items[j]
             U == {n \in 0 .. N : Holds(n)}
  <1>0. N \in Nat
    BY LenProperties
  <1>1. 0 \in U
    <2>1. r[0] = <<>>
      BY ReviewsOfDef
    <2>2. Holds(0)
      <3> HIDE DEF r
      <3> QED BY <2>1, EmptySeq
    <2> HIDE DEF Holds
    <2> QED BY <1>0, <2>2
  <1>2. ASSUME NEW n \in 1 .. N, n - 1 \in U PROVE n \in U
    <2>1. r[n] = IF items[n].status = "review" THEN Append(r[n - 1], items[n]) ELSE r[n - 1]
      BY ReviewsOfDef
    <2>2. Holds(n - 1) /\ items[n] \in T
      BY <1>2, ElementOfSeq
    <2> HIDE DEF r
    <2>3. CASE items[n].status = "review"
      <3>1. /\ r[n] \in Seq(T) /\ Len(r[n]) = Len(r[n - 1]) + 1
            /\ \A i \in 1 .. Len(r[n - 1]) : r[n][i] = r[n - 1][i]
            /\ r[n][Len(r[n - 1]) + 1] = items[n]
        BY <2>1, <2>2, <2>3, AppendProperties
      <3>2. Len(r[n - 1]) \in Nat
        BY <2>2, LenProperties
      <3>3. ASSUME NEW i \in 1 .. Len(r[n])
            PROVE  \E j \in 1 .. n : r[n][i] = items[j] /\ items[j].status = "review"
        <4>1. CASE i = Len(r[n])
          BY <2>3, <3>1, <4>1
        <4>2. CASE i # Len(r[n])
          <5>1. i \in 1 .. Len(r[n - 1])
            BY <3>1, <3>2, <4>2
          <5>2. PICK j \in 1 .. n - 1 : r[n - 1][i] = items[j] /\ items[j].status = "review"
            BY <2>2, <5>1
          <5>3. j \in 1 .. n
            OBVIOUS
          <5> QED BY <3>1, <5>1, <5>2, <5>3
        <4> QED BY <4>1, <4>2
      <3>4. ASSUME NEW j \in 1 .. n, items[j].status = "review"
            PROVE  \E i \in 1 .. Len(r[n]) : r[n][i] = items[j]
        <4>1. CASE j = n
          <5>1. Len(r[n]) \in 1 .. Len(r[n])
            BY <3>1, <3>2
          <5> QED BY <3>1, <4>1, <5>1
        <4>2. CASE j # n
          <5>1. j \in 1 .. n - 1
            BY <4>2
          <5>2. PICK i \in 1 .. Len(r[n - 1]) : r[n - 1][i] = items[j]
            BY <2>2, <3>4, <5>1
          <5>3. i \in 1 .. Len(r[n])
            BY <3>1, <3>2
          <5> QED BY <3>1, <5>2, <5>3
        <4> QED BY <4>1, <4>2
      <3>5. Holds(n)
        BY <3>1, <3>3, <3>4
      <3> HIDE DEF Holds
      <3> QED BY <3>5
    <2>4. CASE items[n].status # "review"
      <3>1. \A j \in 1 .. n : j \in 1 .. n - 1 \/ j = n
        OBVIOUS
      <3>2. \A j \in 1 .. n - 1 : j \in 1 .. n
        OBVIOUS
      <3>3. r[n] = r[n - 1]
        BY <2>1, <2>4
      <3>4. Holds(n)
        BY <2>2, <2>4, <3>1, <3>2, <3>3
      <3> HIDE DEF Holds
      <3> QED BY <3>4
    <2> QED BY <2>3, <2>4
  <1>3. \A n \in 0 .. N : n \in U
    <2> HIDE DEF U, N
    <2> QED BY <1>0, <1>1, <1>2, UpTo
  <1>4. Holds(N)
    <2> HIDE DEF Holds, N
    <2> QED BY <1>0, <1>3
  <1> QED BY <1>4 DEF Reviews

-----------------------------------------------------------------------------
(* Flattening *)

(* flat[n] is what the first n sequences are, one after the other. *)
IsFlat(flat, seqs, T) ==
  /\ flat[0] = <<>>
  /\ \A n \in 1 .. Len(seqs) : flat[n] = flat[n - 1] \o seqs[n]
  /\ \A n \in 0 .. Len(seqs) : flat[n] \in Seq(T)
  /\ FlattenSeq(seqs) = flat[Len(seqs)]

LEMMA FlattenDef ==
  ASSUME NEW T, NEW seqs \in Seq(Seq(T))
  PROVE  \E flat : IsFlat(flat, seqs, T)
  <1> DEFINE N == Len(seqs)
  <1>0. N \in Nat /\ <<>> \in Seq(T) /\ \A n \in 1 .. N : seqs[n] \in Seq(T)
    BY LenProperties, ElementOfSeq
  <1>1. CASE N = 0
    <2> DEFINE flat == [n \in 0 .. 0 |-> <<>>]
    <2>1. seqs = <<>>
      BY <1>1, EmptySeq
    <2>2. FlattenSeq(seqs) = <<>>
      BY <1>1, <2>1 DEF FlattenSeq
    <2>3. IsFlat(flat, seqs, T)
      BY <1>0, <1>1, <2>2 DEF IsFlat
    <2> HIDE DEF flat
    <2> QED BY <2>3
  <1>2. CASE N # 0
    <2> DEFINE Step == [n \in 1 .. N |-> [s \in Seq(T) |-> s \o seqs[n]]]
               Unrolls(f) == f = [i \in 1 .. N |->
                                   IF i = 1 THEN seqs[i] ELSE f[i - 1] \o seqs[i]]
    <2>1. Step \in [1 .. N -> [Seq(T) -> Seq(T)]]
      <3>1. ASSUME NEW n \in 1 .. N, NEW s \in Seq(T) PROVE s \o seqs[n] \in Seq(T)
        BY <1>0, ConcatProperties
      <3> QED BY <3>1
    <2>2. PICK g : IsLoop(g, N, Seq(T), <<>>, Step)
      <3> HIDE DEF Step, N
      <3> QED BY <1>0, <2>1, LoopIsDefined
    <2>3. \A n \in 1 .. N : g[n] = g[n - 1] \o seqs[n]
      <3>1. \A n \in 1 .. N, s \in Seq(T) : Step[n][s] = s \o seqs[n]
        BY Zenon
      <3> HIDE DEF Step
      <3> QED BY <2>2, <3>1 DEF IsLoop
    <2> DEFINE h == [i \in 1 .. N |-> g[i]]
    <2>4. Unrolls(h)
      <3>1. ASSUME NEW i \in 1 .. N
            PROVE  h[i] = IF i = 1 THEN seqs[i] ELSE h[i - 1] \o seqs[i]
        <4>1. CASE i = 1
          <5>1. g[1] = <<>> \o seqs[1]
            <6>1. 1 \in 1 .. N /\ 1 - 1 = 0
              BY <4>1
            <6>2. g[0] = <<>>
              BY <2>2 DEF IsLoop
            <6> HIDE DEF N
            <6> QED BY <2>3, <6>1, <6>2
          <5>2. <<>> \o seqs[1] = seqs[1]
            BY <1>0, <4>1, ConcatEmptySeq
          <5> QED BY <4>1, <5>1, <5>2
        <4>2. CASE i # 1
          <5>1. i - 1 \in 1 .. N
            BY <4>2
          <5> QED BY <2>3, <4>2, <5>1
        <4> QED BY <4>1, <4>2
      <3>2. DOMAIN h = 1 .. N /\ h = [i \in 1 .. N |-> h[i]]
        OBVIOUS
      <3> HIDE DEF h
      <3> QED BY <3>1, <3>2
    <2> DEFINE f == CHOOSE f : Unrolls(f)
    <2>5. Unrolls(f)
      <3> HIDE DEF h
      <3> QED BY <2>4, Zenon
    <2>6. FlattenSeq(seqs) = f[N]
      BY <1>2, Zenon DEF FlattenSeq
    <2> HIDE DEF f
    <2>7. \A i \in 1 .. N : f[i] = IF i = 1 THEN seqs[i] ELSE f[i - 1] \o seqs[i]
      BY <2>5, Zenon
    <2> DEFINE flat == [n \in 0 .. N |-> IF n = 0 THEN <<>> ELSE f[n]]
    <2>8. flat[0] = <<>> /\ FlattenSeq(seqs) = flat[N]
      BY <1>0, <1>2, <2>6
    <2>9. ASSUME NEW n \in 1 .. N PROVE flat[n] = flat[n - 1] \o seqs[n]
      <3>1. CASE n = 1
        <4>1. flat[n] = seqs[n] /\ flat[n - 1] = <<>>
          BY <2>7, <3>1
        <4> QED BY <1>0, <4>1, ConcatEmptySeq
      <3>2. CASE n # 1
        <4>1. flat[n] = f[n] /\ flat[n - 1] = f[n - 1]
          BY <3>2
        <4> QED BY <2>7, <3>2, <4>1
      <3> QED BY <3>1, <3>2
    <2> HIDE DEF flat
    <2>10. \A n \in 0 .. N : flat[n] \in Seq(T)
      <3> DEFINE U == {n \in 0 .. N : flat[n] \in Seq(T)}
      <3>1. 0 \in U
        <4>1. flat[0] \in Seq(T)
          BY <1>0, <2>8, Zenon
        <4> QED BY <1>0, <4>1
      <3>2. ASSUME NEW n \in 1 .. N, n - 1 \in U PROVE n \in U
        <4>1. flat[n - 1] \in Seq(T) /\ seqs[n] \in Seq(T)
          BY <1>0, <3>2
        <4>2. flat[n] \in Seq(T)
          BY <2>9, <4>1, ConcatProperties
        <4> QED BY <4>2
      <3>3. \A n \in 0 .. N : n \in U
        <4> HIDE DEF U, N
        <4> QED BY <1>0, <3>1, <3>2, UpTo
      <3> QED BY <3>3
    <2>11. IsFlat(flat, seqs, T)
      BY <2>8, <2>9, <2>10 DEF IsFlat
    <2> QED BY <2>11
  <1> QED BY <1>1, <1>2

(* Where the elements of a concatenation come from. *)
LEMMA ConcatPlaces ==
  ASSUME NEW T, NEW s \in Seq(T), NEW t \in Seq(T)
  PROVE  /\ Len(s) \in Nat /\ Len(t) \in Nat /\ Len(s \o t) = Len(s) + Len(t)
         /\ \A p \in 1 .. Len(s) : p \in 1 .. Len(s \o t) /\ (s \o t)[p] = s[p]
         /\ \A p \in Len(s) + 1 .. Len(s \o t) :
              p - Len(s) \in 1 .. Len(t) /\ (s \o t)[p] = t[p - Len(s)]
         /\ \A p \in 1 .. Len(s \o t) : p \in 1 .. Len(s) \/ p \in Len(s) + 1 .. Len(s \o t)
  <1> DEFINE c == s \o t
             m == Len(s)
             n == Len(t)
  <1>1. m \in Nat /\ n \in Nat
    BY LenProperties
  <1>2. Len(c) = m + n /\ \A p \in 1 .. m + n : c[p] = IF p <= m THEN s[p] ELSE t[p - m]
    BY ConcatProperties
  <1> HIDE DEF c, m, n
  <1>3. /\ \A p \in 1 .. m : p \in 1 .. m + n /\ c[p] = s[p]
        /\ \A p \in m + 1 .. m + n : p - m \in 1 .. n /\ c[p] = t[p - m]
        /\ \A p \in 1 .. m + n : p \in 1 .. m \/ p \in m + 1 .. m + n
    BY <1>1, <1>2
  <1> QED BY <1>1, <1>2, <1>3 DEF c, m, n

(* No two positions of a sequence of sequences hold the same id. *)
Distinct(items) == \A p, q \in 1 .. Len(items) : items[p].id = items[q].id => p = q

AllDistinct(seqs) ==
  \A i, k \in 1 .. Len(seqs) : \A j \in 1 .. Len(seqs[i]), l \in 1 .. Len(seqs[k]) :
    seqs[i][j].id = seqs[k][l].id => i = k /\ j = l

LEMMA FlattenElements ==
  ASSUME NEW T, NEW seqs \in Seq(Seq(T))
  PROVE  /\ FlattenSeq(seqs) \in Seq(T)
         /\ \A p \in 1 .. Len(FlattenSeq(seqs)) :
              \E i \in 1 .. Len(seqs) : \E j \in 1 .. Len(seqs[i]) :
                FlattenSeq(seqs)[p] = seqs[i][j]
         /\ AllDistinct(seqs) => Distinct(FlattenSeq(seqs))
  <1> DEFINE N == Len(seqs)
  <1>0. N \in Nat /\ \A n \in 1 .. N : seqs[n] \in Seq(T) /\ Len(seqs[n]) \in Nat
    BY LenProperties, ElementOfSeq
  <1>1. PICK flat : IsFlat(flat, seqs, T)
    BY FlattenDef
  <1> DEFINE From(n, p) == \E i \in 1 .. n : \E j \in 1 .. Len(seqs[i]) : flat[n][p] = seqs[i][j]
             Holds(n) == /\ \A p \in 1 .. Len(flat[n]) : From(n, p)
                         /\ AllDistinct(seqs) => Distinct(flat[n])
             U == {n \in 0 .. N : Holds(n)}
  <1>2. 0 \in U
    <2>1. flat[0] = <<>> /\ Len(flat[0]) = 0
      BY <1>1, EmptySeq DEF IsFlat
    <2> QED BY <1>0, <2>1 DEF Distinct
  <1>3. ASSUME NEW n \in 1 .. N, n - 1 \in U PROVE n \in U
    <2> DEFINE L == Len(flat[n - 1])
    <2>1. flat[n - 1] \in Seq(T) /\ flat[n] = flat[n - 1] \o seqs[n] /\ seqs[n] \in Seq(T)
      <3>1. n \in 1 .. Len(seqs) /\ n - 1 \in 0 .. Len(seqs)
        BY <1>0
      <3> HIDE DEF N
      <3> QED BY <1>0, <1>1, <3>1 DEF IsFlat
    <2>2. /\ L \in Nat /\ Len(seqs[n]) \in Nat /\ Len(flat[n]) = L + Len(seqs[n])
          /\ \A p \in 1 .. L : flat[n][p] = flat[n - 1][p]
          /\ \A p \in L + 1 .. Len(flat[n]) :
               p - L \in 1 .. Len(seqs[n]) /\ flat[n][p] = seqs[n][p - L]
          /\ \A p \in 1 .. Len(flat[n]) : p \in 1 .. L \/ p \in L + 1 .. Len(flat[n])
      <3> DEFINE s == flat[n - 1]
                 t == seqs[n]
                 c == flat[n]
      <3>1. s \in Seq(T) /\ t \in Seq(T) /\ c = s \o t
        BY <2>1
      <3> HIDE DEF s, t, c
      <3>2. /\ Len(s) \in Nat /\ Len(t) \in Nat /\ Len(c) = Len(s) + Len(t)
            /\ \A p \in 1 .. Len(s) : c[p] = s[p]
            /\ \A p \in Len(s) + 1 .. Len(c) : p - Len(s) \in 1 .. Len(t) /\ c[p] = t[p - Len(s)]
            /\ \A p \in 1 .. Len(c) : p \in 1 .. Len(s) \/ p \in Len(s) + 1 .. Len(c)
        BY <3>1, ConcatPlaces
      <3> QED BY <3>2 DEF s, t, c
    <2>3. Holds(n - 1)
      BY <1>3
    <2>4. \A p \in 1 .. Len(flat[n]) : p \in 1 .. L \/ p \in L + 1 .. Len(flat[n])
      BY <2>2
    <2>5. ASSUME NEW p \in 1 .. Len(flat[n]) PROVE From(n, p)
      <3>1. CASE p \in 1 .. L
        <4>1. PICK i \in 1 .. n - 1 : \E j \in 1 .. Len(seqs[i]) : flat[n - 1][p] = seqs[i][j]
          BY <2>3, <3>1
        <4>2. i \in 1 .. n
          OBVIOUS
        <4> QED BY <2>2, <3>1, <4>1, <4>2
      <3>2. CASE p \in L + 1 .. Len(flat[n])
        <4>1. n \in 1 .. n
          OBVIOUS
        <4> QED BY <2>2, <3>2, <4>1
      <3> QED BY <2>4, <3>1, <3>2
    <2>6. ASSUME AllDistinct(seqs), NEW p \in 1 .. Len(flat[n]), NEW q \in 1 .. Len(flat[n]),
                 flat[n][p].id = flat[n][q].id
          PROVE  p = q
      <3>1. CASE p \in 1 .. L /\ q \in 1 .. L
        BY <2>2, <2>3, <2>6, <3>1 DEF Distinct
      <3>2. ASSUME NEW a \in 1 .. L, NEW b \in L + 1 .. Len(flat[n]),
                   flat[n][a].id = flat[n][b].id
            PROVE  FALSE
        <4>1. PICK i \in 1 .. n - 1 : \E j \in 1 .. Len(seqs[i]) : flat[n - 1][a] = seqs[i][j]
          BY <2>3
        <4>2. PICK j \in 1 .. Len(seqs[i]) : flat[n - 1][a] = seqs[i][j]
          BY <4>1
        <4>3. /\ i \in 1 .. N /\ n \in 1 .. N /\ i # n
              /\ b - L \in 1 .. Len(seqs[n])
              /\ seqs[i][j].id = seqs[n][b - L].id
          <5>1. i \in 1 .. N /\ n \in 1 .. N /\ i # n
            <6> HIDE DEF N, L
            <6> QED BY <1>0
          <5> HIDE DEF N, L
          <5> QED BY <2>2, <3>2, <4>2, <5>1
        <4> QED BY <2>6, <4>3 DEF AllDistinct
      <3>3. CASE p \in L + 1 .. Len(flat[n]) /\ q \in L + 1 .. Len(flat[n])
        <4>1. /\ p - L \in 1 .. Len(seqs[n]) /\ q - L \in 1 .. Len(seqs[n])
              /\ seqs[n][p - L].id = seqs[n][q - L].id
          BY <2>2, <2>6, <3>3
        <4>2. p - L = q - L
          BY <2>6, <4>1 DEF AllDistinct
        <4> HIDE DEF L
        <4> QED BY <2>2, <3>3, <4>2
      <3> QED BY <2>4, <2>6, <3>1, <3>2, <3>3
    <2>7. Holds(n)
      BY <2>5, <2>6 DEF Distinct
    <2> HIDE DEF Holds
    <2> QED BY <2>7
  <1>4. \A n \in 0 .. N : n \in U
    <2> HIDE DEF U, N
    <2> QED BY <1>0, <1>2, <1>3, UpTo
  <1>5. Holds(N) /\ FlattenSeq(seqs) = flat[N] /\ flat[N] \in Seq(T)
    <2> HIDE DEF Holds
    <2> QED BY <1>0, <1>1, <1>4 DEF IsFlat
  <1> QED BY <1>5

-----------------------------------------------------------------------------
(* Importing a file *)

(* What scanners report: an observation that passed is only informative. *)
Observations ==
  {o \in [id : Ids, status : {"review", "pass"}, severity : Severities, size : Nat \ {0}] :
     o.status = "pass" => o.severity = "info"}

(* The runs of the files. *)
Contents == {file.runs : file \in Files}

LEMMA FileType ==
  ASSUME NEW runs \in Contents
  PROVE  /\ Len(runs) \in Nat /\ DOMAIN runs = 1 .. Len(runs)
         /\ \A run \in 1 .. Len(runs) :
              /\ runs[run].tool \in Nat \ {0}
              /\ Len(runs[run].results) \in Nat
              /\ DOMAIN runs[run].results = 1 .. Len(runs[run].results)
              /\ \A n \in 1 .. Len(runs[run].results) :
                   runs[run].results[n] \in [level : STRING, size : Nat \ {0}]
  <1> DEFINE Result == [level : STRING, size : Nat \ {0}]
             Run == [tool : Nat \ {0}, results : Seq(Result)]
  <1>1. runs \in Seq(Run)
    <2>1. PICK file \in Files : runs = file.runs
      BY DEF Contents
    <2>2. file \in [bytes : Nat, formed : BOOLEAN, runs : Seq(Run)]
      BY InputsAssumption
    <2> HIDE DEF Run
    <2> QED BY <2>1, <2>2
  <1>2. ASSUME NEW run \in 1 .. Len(runs)
        PROVE  runs[run].tool \in Nat \ {0} /\ runs[run].results \in Seq(Result)
    <2>1. runs[run] \in Run
      BY <1>1, ElementOfSeq
    <2> HIDE DEF Result
    <2> QED BY <2>1
  <1> QED BY <1>1, <1>2, LenProperties, ElementOfSeq

LEMMA ObservationType ==
  ASSUME NEW runs \in Contents, NEW run \in 1 .. Len(runs),
         NEW n \in 1 .. Len(runs[run].results)
  PROVE  /\ Observation(runs, run, n) \in Observations
         /\ Observation(runs, run, n).id = <<runs[run].tool, run, n>>
  <1>1. <<runs[run].tool, run, n>> \in Ids
    <2>1. run \in DOMAIN runs /\ n \in DOMAIN runs[run].results
      BY FileType
    <2>2. <<runs[run].tool, run, n>> \in RunIds(runs, run)
      BY <2>1 DEF RunIds
    <2>3. <<runs[run].tool, run, n>> \in FileIds(runs)
      BY <2>1, <2>2 DEF FileIds
    <2>4. PICK file \in Files : runs = file.runs
      BY DEF Contents
    <2> QED BY <2>3, <2>4 DEF Ids
  <1>2. SarifSeverity(runs[run].results[n].level) \in Severities
    BY DEF SarifSeverity, Severities
  <1>3. runs[run].results[n].size \in Nat \ {0}
    BY FileType
  <1> QED BY <1>1, <1>2, <1>3 DEF Observation, Observations

(* The results of a file, one sequence for each run. *)
Results(runs) ==
  [run \in DOMAIN runs |->
    [result \in DOMAIN runs[run].results |-> Observation(runs, run, result)]]

LEMMA ResultsType ==
  ASSUME NEW runs \in Contents
  PROVE  /\ Results(runs) \in Seq(Seq(Observations)) /\ Len(Results(runs)) = Len(runs)
         /\ ResultsOf(runs) = FlattenSeq(Results(runs))
         /\ \A run \in 1 .. Len(runs) :
              /\ Results(runs)[run] \in Seq(Observations)
              /\ Len(Results(runs)[run]) = Len(runs[run].results)
              /\ \A n \in 1 .. Len(runs[run].results) :
                   Results(runs)[run][n] = Observation(runs, run, n)
  <1> DEFINE R == Results(runs)
             Row(run) == [n \in 1 .. Len(runs[run].results) |-> Observation(runs, run, n)]
  <1>1. R = [run \in 1 .. Len(runs) |-> Row(run)]
    BY FileType DEF Results
  <1>2. ASSUME NEW run \in 1 .. Len(runs)
        PROVE  Row(run) \in Seq(Observations) /\ Len(Row(run)) = Len(runs[run].results)
    BY FileType, ObservationType
  <1>3. R \in Seq(Seq(Observations)) /\ Len(R) = Len(runs)
    <2> HIDE DEF R, Row
    <2> QED BY <1>1, <1>2, FileType
  <1> QED BY <1>1, <1>2, <1>3 DEF ResultsOf, Results

ImportState == [observations : Seq(Observations), refused : BOOLEAN]

(* The loop, having gone through the results in seq, holds them, or has     *)
(* refused the file because they are too many.                              *)
Agrees(state, seq) ==
  /\ state \in ImportState
  /\ state.refused <=> Len(seq) > MaxResults
  /\ ~ state.refused => state.observations = seq

LEMMA ImportResultType ==
  ASSUME NEW state \in ImportState, NEW o \in Observations
  PROVE  ImportResult(state, o) \in ImportState
  <1>1. Append(state.observations, o) \in Seq(Observations)
    BY AppendProperties DEF ImportState
  <1> QED BY <1>1 DEF ImportResult, ImportState

LEMMA ImportResultAgrees ==
  ASSUME NEW state, NEW o \in Observations, NEW seq \in Seq(Observations), Agrees(state, seq)
  PROVE  Agrees(ImportResult(state, o), Append(seq, o))
  <1>1. Len(seq) \in Nat /\ Len(Append(seq, o)) = Len(seq) + 1 /\ MaxResults \in Nat
    BY LenProperties, AppendProperties, LimitsAssumption
  <1>2. ImportResult(state, o) \in ImportState
    BY ImportResultType DEF Agrees
  <1>3. CASE state.refused \/ Len(state.observations) >= MaxResults
    <2>1. ImportResult(state, o).refused
      BY <1>3 DEF ImportResult, Agrees, ImportState
    <2>2. Len(Append(seq, o)) > MaxResults
      BY <1>1, <1>3 DEF Agrees
    <2> QED BY <1>2, <2>1, <2>2 DEF Agrees
  <1>4. CASE ~ (state.refused \/ Len(state.observations) >= MaxResults)
    <2>1. /\ ~ ImportResult(state, o).refused
          /\ ImportResult(state, o).observations = Append(seq, o)
      BY <1>4 DEF ImportResult, Agrees, ImportState
    <2>2. ~ (Len(Append(seq, o)) > MaxResults)
      BY <1>1, <1>4 DEF Agrees
    <2> QED BY <1>2, <2>1, <2>2 DEF Agrees
  <1> QED BY <1>3, <1>4

LEMMA ImportRunDef ==
  ASSUME NEW runs \in Contents, NEW run \in 1 .. Len(runs), NEW before \in ImportState
  PROVE  /\ ImportRun(runs, run, before)[0] = before
         /\ \A n \in 1 .. Len(runs[run].results) :
              ImportRun(runs, run, before)[n] =
                ImportResult(ImportRun(runs, run, before)[n - 1], Observation(runs, run, n))
  <1> DEFINE N == Len(runs[run].results)
             Next1(n, s) == ImportResult(s, Observation(runs, run, n))
             Step == [n \in 1 .. N |-> [s \in ImportState |-> Next1(n, s)]]
             Unrolls(r) == r = [n \in 0 .. N |->
                                 IF n = 0 THEN before
                                 ELSE ImportResult(r[n - 1], Observation(runs, run, n))]
  <1>0. N \in Nat
    BY FileType
  <1>1. Step \in [1 .. N -> [ImportState -> ImportState]]
    <2>1. ASSUME NEW n \in 1 .. N, NEW s \in ImportState PROVE Next1(n, s) \in ImportState
      BY ObservationType, ImportResultType
    <2> HIDE DEF Next1
    <2> QED BY <2>1
  <1>2. PICK g : IsLoop(g, N, ImportState, before, Step)
    <2> HIDE DEF Step, N
    <2> QED BY <1>0, <1>1, LoopIsDefined
  <1>3. Unrolls(g)
    <2>1. \A n \in 1 .. N, s \in ImportState : Step[n][s] = Next1(n, s)
      BY Zenon
    <2>2. DOMAIN g = 0 .. N /\ g[0] = before /\ \A n \in 1 .. N : g[n] = Next1(n, g[n - 1])
      <3> HIDE DEF Next1, Step
      <3> QED BY <1>2, <2>1 DEF IsLoop
    <2>3. \A n \in 0 .. N : n \in 1 .. N \/ n = 0
      OBVIOUS
    <2>4. g = [n \in 0 .. N |-> g[n]]
      BY <1>2 DEF IsLoop
    <2> HIDE DEF Step
    <2> QED BY <2>2, <2>3, <2>4
  <1>4. Unrolls(ImportRun(runs, run, before))
    BY <1>3, Zenon DEF ImportRun
  <1> DEFINE r == ImportRun(runs, run, before)
  <1> HIDE DEF r
  <1>5. \A n \in 0 .. N : r[n] = IF n = 0 THEN before
                                 ELSE ImportResult(r[n - 1], Observation(runs, run, n))
    BY <1>4, Zenon DEF r
  <1>6. r[0] = before /\ \A n \in 1 .. N : r[n] = Next1(n, r[n - 1])
    <2>1. 0 \in 0 .. N /\ \A n \in 1 .. N : n \in 0 .. N /\ n # 0
      BY <1>0
    <2> QED BY <1>5, <2>1
  <1> QED BY <1>6 DEF r

LEMMA ImportRunType ==
  ASSUME NEW runs \in Contents, NEW run \in 1 .. Len(runs), NEW before \in ImportState
  PROVE  ImportRun(runs, run, before)[Len(runs[run].results)] \in ImportState
  <1> DEFINE N == Len(runs[run].results)
             r == ImportRun(runs, run, before)
             U == {n \in 0 .. N : r[n] \in ImportState}
  <1>0. N \in Nat
    BY FileType
  <1>1. 0 \in U
    BY <1>0, ImportRunDef
  <1>2. ASSUME NEW n \in 1 .. N, n - 1 \in U PROVE n \in U
    <2>1. r[n] = ImportResult(r[n - 1], Observation(runs, run, n)) /\ r[n - 1] \in ImportState
      BY <1>2, ImportRunDef
    <2> HIDE DEF r
    <2> QED BY <2>1, ObservationType, ImportResultType
  <1>3. \A n \in 0 .. N : n \in U
    <2> HIDE DEF U, N
    <2> QED BY <1>0, <1>1, <1>2, UpTo
  <1> QED BY <1>0, <1>3

LEMMA ImportRunAgrees ==
  ASSUME NEW runs \in Contents, NEW run \in 1 .. Len(runs), NEW before \in ImportState,
         NEW seq \in Seq(Observations), Agrees(before, seq)
  PROVE  Agrees(ImportRun(runs, run, before)[Len(runs[run].results)],
                seq \o Results(runs)[run])
  <1> DEFINE N == Len(runs[run].results)
             row == Results(runs)[run]
             r == ImportRun(runs, run, before)
             U == {n \in 0 .. N : Agrees(r[n], seq \o SubSeq(row, 1, n))}
  <1>0. /\ N \in Nat /\ row \in Seq(Observations) /\ Len(row) = N
        /\ \A n \in 1 .. N : row[n] = Observation(runs, run, n) /\ row[n] \in Observations
    <2>1. N \in Nat /\ row \in Seq(Observations) /\ Len(row) = N
      BY FileType, ResultsType
    <2>2. \A n \in 1 .. N : row[n] = Observation(runs, run, n)
      BY ResultsType
    <2>3. \A n \in 1 .. N : Observation(runs, run, n) \in Observations
      BY ObservationType
    <2> HIDE DEF N, row
    <2> QED BY <2>1, <2>2, <2>3
  <1>1. 0 \in U
    <2>1. SubSeq(row, 1, 0) = <<>>
      BY SubSeqEmpty
    <2>2. seq \o <<>> = seq
      BY ConcatEmptySeq
    <2>3. r[0] = before
      BY ImportRunDef
    <2>4. Agrees(r[0], seq \o SubSeq(row, 1, 0))
      <3> HIDE DEF row, r
      <3> QED BY <2>1, <2>2, <2>3
    <2> QED BY <1>0, <2>4
  <1>2. ASSUME NEW n \in 1 .. N, n - 1 \in U PROVE n \in U
    <2> DEFINE done == SubSeq(row, 1, n - 1)
    <2>1. r[n] = ImportResult(r[n - 1], row[n])
      BY <1>0, ImportRunDef
    <2> HIDE DEF row, r, N
    <2>2. Agrees(r[n - 1], seq \o done)
      BY <1>2
    <2>3. done \in Seq(Observations) /\ <<row[n]>> \in Seq(Observations)
      <3>1. \A i \in 1 .. n - 1 : row[i] \in Observations
        BY <1>0
      <3> QED BY <1>0, <3>1, SubSeqProperties
    <2>4. SubSeq(row, 1, n) = done \o <<row[n]>>
      <3>1. 1 \in 1 .. Len(row) /\ n \in 1 .. Len(row)
        BY <1>0
      <3> QED BY <1>0, <3>1, SubSeqRecursiveSecond
    <2> HIDE DEF done
    <2>5. seq \o done \in Seq(Observations)
      BY <2>3, ConcatProperties
    <2>6. Append(seq \o done, row[n]) = (seq \o done) \o <<row[n]>>
      BY <1>0, <2>5, AppendIsConcat
    <2>7. (seq \o done) \o <<row[n]>> = seq \o SubSeq(row, 1, n)
      <3> DEFINE one == <<row[n]>>
      <3>1. (seq \o done) \o one = seq \o (done \o one)
        <4> HIDE DEF one
        <4>1. one \in Seq(Observations)
          BY <2>3 DEF one
        <4> QED BY <2>3, <4>1, ConcatAssociative
      <3> QED BY <2>4, <3>1
    <2>8. Agrees(r[n], Append(seq \o done, row[n]))
      BY <1>0, <2>1, <2>2, <2>5, ImportResultAgrees
    <2>9. Agrees(r[n], seq \o SubSeq(row, 1, n))
      BY <2>6, <2>7, <2>8
    <2> QED BY <2>9
  <1>3. \A n \in 0 .. N : n \in U
    <2> HIDE DEF U, N
    <2> QED BY <1>0, <1>1, <1>2, UpTo
  <1>4. SubSeq(row, 1, N) = row
    BY <1>0, SubSeqFull
  <1>5. Agrees(r[N], seq \o SubSeq(row, 1, N))
    <2>1. N \in U
      <3> HIDE DEF U, N
      <3> QED BY <1>0, <1>3
    <2> QED BY <2>1
  <1> QED BY <1>4, <1>5

Nothing == [observations |-> <<>>, refused |-> FALSE]

LEMMA ImportRunsDef ==
  ASSUME NEW runs \in Contents
  PROVE  /\ ImportRuns(runs)[0] = Nothing
         /\ \A n \in 1 .. Len(runs) :
              ImportRuns(runs)[n] =
                ImportRun(runs, n, ImportRuns(runs)[n - 1])[Len(runs[n].results)]
  <1> DEFINE N == Len(runs)
             Next1(n, s) == ImportRun(runs, n, s)[Len(runs[n].results)]
             Step == [n \in 1 .. N |-> [s \in ImportState |-> Next1(n, s)]]
             Unrolls(r) == r = [n \in 0 .. N |->
                                 IF n = 0 THEN Nothing
                                 ELSE ImportRun(runs, n, r[n - 1])[Len(runs[n].results)]]
  <1>0. N \in Nat /\ Nothing \in ImportState
    BY FileType, EmptySeq DEF Nothing, ImportState
  <1>1. Step \in [1 .. N -> [ImportState -> ImportState]]
    <2>1. ASSUME NEW n \in 1 .. N, NEW s \in ImportState PROVE Next1(n, s) \in ImportState
      BY ImportRunType
    <2> HIDE DEF Next1
    <2> QED BY <2>1
  <1>2. PICK g : IsLoop(g, N, ImportState, Nothing, Step)
    <2> HIDE DEF Step, N
    <2> QED BY <1>0, <1>1, LoopIsDefined
  <1>3. Unrolls(g)
    <2>1. \A n \in 1 .. N, s \in ImportState : Step[n][s] = Next1(n, s)
      BY Zenon
    <2>2. DOMAIN g = 0 .. N /\ g[0] = Nothing /\ \A n \in 1 .. N : g[n] = Next1(n, g[n - 1])
      <3> HIDE DEF Next1, Step
      <3> QED BY <1>2, <2>1 DEF IsLoop
    <2>3. \A n \in 0 .. N : n \in 1 .. N \/ n = 0
      OBVIOUS
    <2>4. g = [n \in 0 .. N |-> g[n]]
      BY <1>2 DEF IsLoop
    <2> HIDE DEF Step
    <2> QED BY <2>2, <2>3, <2>4
  <1>4. Unrolls(ImportRuns(runs))
    BY <1>3, Zenon DEF ImportRuns, Nothing
  <1> DEFINE r == ImportRuns(runs)
  <1> HIDE DEF r
  <1>5. \A n \in 0 .. N : r[n] = IF n = 0 THEN Nothing
                                 ELSE ImportRun(runs, n, r[n - 1])[Len(runs[n].results)]
    BY <1>4, Zenon DEF r
  <1>6. r[0] = Nothing /\ \A n \in 1 .. N : r[n] = Next1(n, r[n - 1])
    <2>1. 0 \in 0 .. N /\ \A n \in 1 .. N : n \in 0 .. N /\ n # 0
      BY <1>0
    <2> QED BY <1>5, <2>1
  <1> QED BY <1>6 DEF r

(* The nested loops of import_sarif, with the limit tested before each       *)
(* append and the first excess ending both, take a file apart exactly.      *)
LEMMA ImportAgrees ==
  ASSUME NEW runs \in Contents
  PROVE  Agrees(Import(runs), ResultsOf(runs))
  <1> DEFINE N == Len(runs)
             rows == Results(runs)
             r == ImportRuns(runs)
  <1>0. /\ N \in Nat /\ rows \in Seq(Seq(Observations)) /\ Len(rows) = N
        /\ ResultsOf(runs) = FlattenSeq(rows)
    BY FileType, ResultsType
  <1>1. PICK flat : IsFlat(flat, rows, Observations)
    <2> HIDE DEF rows
    <2> QED BY <1>0, FlattenDef
  <1> DEFINE U == {n \in 0 .. N : Agrees(r[n], flat[n])}
  <1>2. 0 \in U
    <2>1. r[0] = Nothing /\ flat[0] = <<>> /\ Len(<<>>) = 0
      BY <1>1, ImportRunsDef, EmptySeq DEF IsFlat
    <2>2. Nothing \in ImportState
      BY EmptySeq DEF Nothing, ImportState
    <2>3. Agrees(Nothing, <<>>)
      BY <2>1, <2>2, LimitsAssumption DEF Agrees, Nothing
    <2> HIDE DEF r
    <2> QED BY <1>0, <2>1, <2>3
  <1>3. ASSUME NEW n \in 1 .. N, n - 1 \in U PROVE n \in U
    <2>1. r[n] = ImportRun(runs, n, r[n - 1])[Len(runs[n].results)]
      BY ImportRunsDef
    <2>2. flat[n] = flat[n - 1] \o rows[n] /\ flat[n - 1] \in Seq(Observations)
      <3>1. n \in 1 .. Len(rows) /\ n - 1 \in 0 .. Len(rows)
        BY <1>0
      <3> HIDE DEF rows, N
      <3> QED BY <1>1, <3>1 DEF IsFlat
    <2> HIDE DEF r
    <2>3. Agrees(r[n - 1], flat[n - 1]) /\ r[n - 1] \in ImportState
      BY <1>3 DEF Agrees
    <2>4. Agrees(r[n], flat[n])
      BY <2>1, <2>2, <2>3, ImportRunAgrees
    <2> QED BY <2>4
  <1>4. \A n \in 0 .. N : n \in U
    <2> HIDE DEF U, N
    <2> QED BY <1>0, <1>2, <1>3, UpTo
  <1>5. Agrees(r[N], flat[N])
    BY <1>0, <1>4
  <1>6. ResultsOf(runs) = flat[N]
    <2> HIDE DEF rows
    <2> QED BY <1>0, <1>1 DEF IsFlat
  <1> QED BY <1>5, <1>6 DEF Import

-----------------------------------------------------------------------------
(* The order of the observations *)

LEMMA SeverityOrderType ==
  ASSUME NEW severity \in Severities
  PROVE  SeverityOrder[severity] \in 0 .. 4
  BY DEF Severities, SeverityOrder

LEMMA PrecedesOrders ==
  ASSUME NEW items \in Seq(Observations), NEW i \in 1 .. Len(items),
         NEW j \in 1 .. Len(items), NEW k \in 1 .. Len(items)
  PROVE  /\ ~ Precedes(items, i, i)
         /\ Precedes(items, i, j) => ~ Precedes(items, j, i)
         /\ Precedes(items, i, j) /\ Precedes(items, j, k) => Precedes(items, i, k)
         /\ i = j \/ Precedes(items, i, j) \/ Precedes(items, j, i)
         /\ Precedes(items, i, j) =>
              SeverityOrder[items[i].severity] <= SeverityOrder[items[j].severity]
  <1> DEFINE a == SeverityOrder[items[i].severity]
             b == SeverityOrder[items[j].severity]
             c == SeverityOrder[items[k].severity]
             x == items[i].id
             y == items[j].id
             z == items[k].id
  <1>1. items[i] \in Observations /\ items[j] \in Observations /\ items[k] \in Observations
    BY ElementOfSeq
  <1>2. a \in 0 .. 4 /\ b \in 0 .. 4 /\ c \in 0 .. 4
    BY <1>1, SeverityOrderType DEF Observations
  <1>3. x \in Ids /\ y \in Ids /\ z \in Ids
    BY <1>1 DEF Observations
  <1>4. \A u, v, w \in {x, y, z} :
          /\ ~ IdBefore(u, u)
          /\ IdBefore(u, v) /\ IdBefore(v, w) => IdBefore(u, w)
          /\ u = v \/ IdBefore(u, v) \/ IdBefore(v, u)
    BY <1>3, OrderAssumption
  <1>5. /\ Precedes(items, i, i) <=> FALSE
        /\ Precedes(items, i, j) <=> a < b \/ (a = b /\ IdBefore(x, y)) \/ (a = b /\ x = y /\ i < j)
        /\ Precedes(items, j, i) <=> b < a \/ (b = a /\ IdBefore(y, x)) \/ (b = a /\ y = x /\ j < i)
        /\ Precedes(items, j, k) <=> b < c \/ (b = c /\ IdBefore(y, z)) \/ (b = c /\ y = z /\ j < k)
        /\ Precedes(items, i, k) <=> a < c \/ (a = c /\ IdBefore(x, z)) \/ (a = c /\ x = z /\ i < k)
    BY <1>2, <1>4 DEF Precedes, Before
  <1>6. i \in Int /\ j \in Int /\ k \in Int
    OBVIOUS
  <1> HIDE DEF a, b, c, x, y, z
  <1>7. /\ ~ Precedes(items, i, i)
        /\ Precedes(items, i, j) => ~ Precedes(items, j, i)
        /\ i = j \/ Precedes(items, i, j) \/ Precedes(items, j, i)
        /\ Precedes(items, i, j) => a <= b
    BY <1>2, <1>4, <1>5, <1>6
  <1>8. Precedes(items, i, j) /\ Precedes(items, j, k) => Precedes(items, i, k)
    BY <1>2, <1>4, <1>5, <1>6
  <1> QED BY <1>7, <1>8 DEF a, b

(* An earlier observation has a smaller rank. *)
LEMMA RankOrders ==
  ASSUME NEW items \in Seq(Observations), NEW i \in 1 .. Len(items)
  PROVE  /\ Rank(items, i) \in 1 .. Len(items)
         /\ \A j \in 1 .. Len(items) :
              Precedes(items, i, j) => Rank(items, i) < Rank(items, j)
  <1> DEFINE N == Len(items)
             Upto(j) == {k \in 1 .. N : k = j \/ Precedes(items, k, j)}
  <1>0. N \in Nat /\ DOMAIN items = 1 .. N /\ i \in 1 .. N
    BY LenProperties
  <1>1. \A j \in 1 .. N : Rank(items, j) = Cardinality(Upto(j))
    BY <1>0 DEF Rank
  <1>2. IsFiniteSet(1 .. N) /\ Cardinality(1 .. N) = N
    <2> HIDE DEF N
    <2> QED BY <1>0, FS_Interval
  <1>3. ASSUME NEW j \in 1 .. N
        PROVE  /\ IsFiniteSet(Upto(j)) /\ Cardinality(Upto(j)) \in Nat
               /\ Cardinality(Upto(j)) <= N /\ Cardinality(Upto(j)) # 0
    <2>1. Upto(j) \in SUBSET (1 .. N) /\ Upto(j) # {}
      OBVIOUS
    <2> HIDE DEF Upto, N
    <2>2. IsFiniteSet(Upto(j)) /\ Cardinality(Upto(j)) <= N
      BY <1>2, <2>1, FS_Subset
    <2> QED BY <2>1, <2>2, FS_CardinalityType, FS_EmptySet
  <1>4. ASSUME NEW j \in 1 .. N, Precedes(items, i, j)
        PROVE  Cardinality(Upto(i)) < Cardinality(Upto(j))
    <2>1. Upto(i) \in SUBSET Upto(j)
      BY <1>4, PrecedesOrders
    <2>2. Upto(i) # Upto(j)
      <3>1. j \in Upto(j)
        OBVIOUS
      <3>2. j \notin Upto(i)
        BY <1>4, PrecedesOrders
      <3> QED BY <3>1, <3>2
    <2> HIDE DEF Upto, N
    <2>3. /\ Cardinality(Upto(i)) <= Cardinality(Upto(j))
          /\ Cardinality(Upto(i)) # Cardinality(Upto(j))
      BY <1>3, <2>1, <2>2, FS_Subset
    <2> QED BY <1>0, <1>3, <2>3
  <1>5. Rank(items, i) \in 1 .. N
    <2>1. Rank(items, i) \in Nat /\ Rank(items, i) # 0 /\ Rank(items, i) <= N
      <3> HIDE DEF Upto, N
      <3> QED BY <1>0, <1>1, <1>3
    <2> HIDE DEF N
    <2> QED BY <1>0, <2>1
  <1>6. \A j \in 1 .. N : Precedes(items, i, j) => Rank(items, i) < Rank(items, j)
    <2> HIDE DEF Upto, N
    <2> QED BY <1>0, <1>1, <1>4
  <1> QED BY <1>5, <1>6

(* Ordered is a rearrangement of the observations, sorted. *)
LEMMA OrderedSorts ==
  ASSUME NEW items \in Seq(Observations)
  PROVE  /\ Ordered(items) \in Seq(Observations) /\ Len(Ordered(items)) = Len(items)
         /\ \E place \in [1 .. Len(items) -> 1 .. Len(items)] :
              /\ \A k \in 1 .. Len(items) : Ordered(items)[k] = items[place[k]]
              /\ \A i \in 1 .. Len(items) : \E k \in 1 .. Len(items) : place[k] = i
              /\ \A k, l \in 1 .. Len(items) :
                   k < l => Precedes(items, place[k], place[l])
  <1> DEFINE N == Len(items)
             rank == [i \in 1 .. N |-> Rank(items, i)]
             place == [k \in 1 .. N |-> CHOOSE i \in 1 .. N : Rank(items, i) = k]
  <1>0. N \in Nat /\ DOMAIN items = 1 .. N /\ \A i \in 1 .. N : items[i] \in Observations
    BY LenProperties, ElementOfSeq
  <1>1. \A i \in 1 .. N : Rank(items, i) \in 1 .. N
    BY RankOrders
  <1>2. ASSUME NEW i \in 1 .. N, NEW j \in 1 .. N, Rank(items, i) = Rank(items, j)
        PROVE  i = j
    <2>1. ~ Precedes(items, i, j) /\ ~ Precedes(items, j, i)
      BY <1>1, <1>2, RankOrders
    <2> QED BY <2>1, PrecedesOrders
  <1>3. \A k \in 1 .. N : \E i \in 1 .. N : Rank(items, i) = k
    <2>1. rank \in Injection(1 .. N, 1 .. N)
      BY <1>1, <1>2 DEF Injection, IsInjective
    <2>2. IsFiniteSet(1 .. N)
      <3> HIDE DEF N
      <3> QED BY <1>0, FS_Interval
    <2>3. rank \in Surjection(1 .. N, 1 .. N)
      <3> HIDE DEF rank, N
      <3> QED BY <2>1, <2>2, FS_Injection
    <2> QED BY <2>3 DEF Surjection
  <1>4. \A k \in 1 .. N : place[k] \in 1 .. N /\ Rank(items, place[k]) = k
    <2> HIDE DEF N
    <2> QED BY <1>3
  <1>5. \A i \in 1 .. N : \E k \in 1 .. N : place[k] = i
    <2> HIDE DEF N, place
    <2> QED BY <1>1, <1>2, <1>4
  <1>6. Ordered(items) = [k \in 1 .. N |-> items[place[k]]]
    BY <1>0 DEF Ordered
  <1>7. ASSUME NEW k \in 1 .. N, NEW l \in 1 .. N, k < l
        PROVE  Precedes(items, place[k], place[l])
    <2>1. ~ (Rank(items, place[l]) < Rank(items, place[k]))
      BY <1>4, <1>7
    <2>2. place[k] # place[l]
      BY <1>4, <1>7
    <2>3. place[k] \in 1 .. N /\ place[l] \in 1 .. N
      BY <1>4
    <2> HIDE DEF place
    <2>4. ~ Precedes(items, place[l], place[k])
      BY <2>1, <2>3, RankOrders
    <2> QED BY <2>2, <2>3, <2>4, PrecedesOrders
  <1>8. place \in [1 .. N -> 1 .. N]
    BY <1>4
  <1> HIDE DEF place
  <1>9. /\ Ordered(items) \in Seq(Observations) /\ Len(Ordered(items)) = N
        /\ \A k \in 1 .. N : Ordered(items)[k] = items[place[k]]
    <2> HIDE DEF N
    <2> QED BY <1>0, <1>4, <1>6
  <1> QED BY <1>5, <1>7, <1>8, <1>9

LEMMA OrderedFacts ==
  ASSUME NEW items \in Seq(Observations)
  PROVE  /\ \A i \in 1 .. Len(items) : \E k \in 1 .. Len(items) : Ordered(items)[k] = items[i]
         /\ \A k \in 1 .. Len(items) : \E i \in 1 .. Len(items) : Ordered(items)[k] = items[i]
         /\ \A k, l \in 1 .. Len(items) :
              k <= l => SeverityOrder[Ordered(items)[k].severity]
                          <= SeverityOrder[Ordered(items)[l].severity]
         /\ Distinct(items) => Distinct(Ordered(items))
  <1> DEFINE N == Len(items)
             s == Ordered(items)
             order(x) == SeverityOrder[x.severity]
  <1>0. N \in Nat /\ Len(s) = N /\ s \in Seq(Observations)
    BY LenProperties, OrderedSorts
  <1>1. PICK place \in [1 .. N -> 1 .. N] :
          /\ \A k \in 1 .. N : s[k] = items[place[k]]
          /\ \A i \in 1 .. N : \E k \in 1 .. N : place[k] = i
          /\ \A k, l \in 1 .. N : k < l => Precedes(items, place[k], place[l])
    BY OrderedSorts
  <1>2. \A k \in 1 .. N : place[k] \in 1 .. N
    BY <1>1
  <1> HIDE DEF s
  <1>3. ASSUME NEW k \in 1 .. N, NEW l \in 1 .. N, k <= l
        PROVE  order(s[k]) <= order(s[l])
    <2>1. CASE k < l
      <3>1. place[k] \in 1 .. N /\ place[l] \in 1 .. N /\ Precedes(items, place[k], place[l])
        BY <1>1, <1>2, <2>1
      <3>2. order(items[place[k]]) <= order(items[place[l]])
        BY <3>1, PrecedesOrders
      <3>3. s[k] = items[place[k]] /\ s[l] = items[place[l]]
        BY <1>1
      <3> HIDE DEF order
      <3> QED BY <3>2, <3>3
    <2>2. CASE k = l
      <3>1. k \in 1 .. Len(s)
        BY <1>0
      <3>2. s[k] \in Observations
        BY <1>0, <3>1, ElementOfSeq
      <3>3. order(s[k]) \in 0 .. 4
        BY <3>2, SeverityOrderType DEF Observations
      <3> HIDE DEF order
      <3> QED BY <2>2, <3>3
    <2> HIDE DEF order
    <2> QED BY <1>3, <2>1, <2>2
  <1>4. ASSUME Distinct(items) PROVE Distinct(s)
    <2>1. ASSUME NEW k \in 1 .. N, NEW l \in 1 .. N, s[k].id = s[l].id PROVE k = l
      <3>1. place[k] \in 1 .. N /\ place[l] \in 1 .. N
        BY <1>2
      <3>2. items[place[k]].id = items[place[l]].id
        BY <1>1, <2>1
      <3>3. place[k] = place[l]
        BY <1>4, <3>1, <3>2 DEF Distinct
      <3>4. ~ Precedes(items, place[k], place[l]) /\ ~ Precedes(items, place[l], place[k])
        BY <3>1, <3>3, PrecedesOrders
      <3>5. ~ (k < l) /\ ~ (l < k)
        BY <1>1, <3>4
      <3> HIDE DEF N
      <3> QED BY <1>0, <2>1, <3>5
    <2> QED BY <1>0, <2>1 DEF Distinct
  <1> HIDE DEF N, order
  <1>5. /\ \A i \in 1 .. N : \E k \in 1 .. N : s[k] = items[i]
        /\ \A k \in 1 .. N : \E i \in 1 .. N : s[k] = items[i]
    <2>1. \A k \in 1 .. N : s[k] = items[place[k]]
      BY <1>1
    <2>2. ASSUME NEW i \in 1 .. N PROVE \E k \in 1 .. N : s[k] = items[i]
      <3>1. PICK k \in 1 .. N : place[k] = i
        BY <1>1
      <3> QED BY <2>1, <3>1
    <2> QED BY <1>2, <2>1, <2>2
  <1> QED BY <1>3, <1>4, <1>5 DEF N, s, order

-----------------------------------------------------------------------------
(* The selection *)

SelectState == [selected : Seq(Observations), total : Nat, ended : BOOLEAN]

Unselected == [selected |-> <<>>, total |-> 0, ended |-> FALSE]

LEMMA SelectNextType ==
  ASSUME NEW state \in SelectState, NEW item \in Observations
  PROVE  SelectNext(state, item) \in SelectState
  <1>1. Append(state.selected, item) \in Seq(Observations)
    BY AppendProperties DEF SelectState
  <1>2. state.total + item.size \in Nat
    BY DEF SelectState, Observations
  <1> QED BY <1>1, <1>2 DEF SelectNext, SelectState

LEMMA SelectLoopDef ==
  ASSUME NEW ordered \in Seq(Observations)
  PROVE  /\ SelectLoop(ordered)[0] = Unselected
         /\ \A n \in 1 .. Len(ordered) :
              SelectLoop(ordered)[n] = SelectNext(SelectLoop(ordered)[n - 1], ordered[n])
  <1> DEFINE N == Len(ordered)
             Next1(n, s) == SelectNext(s, ordered[n])
             Step == [n \in 1 .. N |-> [s \in SelectState |-> Next1(n, s)]]
             Unrolls(r) == r = [n \in 0 .. N |->
                                 IF n = 0 THEN Unselected ELSE SelectNext(r[n - 1], ordered[n])]
  <1>0. N \in Nat /\ Unselected \in SelectState
    BY LenProperties, EmptySeq DEF Unselected, SelectState
  <1>1. Step \in [1 .. N -> [SelectState -> SelectState]]
    <2>1. ASSUME NEW n \in 1 .. N, NEW s \in SelectState PROVE Next1(n, s) \in SelectState
      BY ElementOfSeq, SelectNextType
    <2> HIDE DEF Next1
    <2> QED BY <2>1
  <1>2. PICK g : IsLoop(g, N, SelectState, Unselected, Step)
    <2> HIDE DEF Step, N
    <2> QED BY <1>0, <1>1, LoopIsDefined
  <1>3. Unrolls(g)
    <2>1. \A n \in 1 .. N, s \in SelectState : Step[n][s] = Next1(n, s)
      BY Zenon
    <2>2. DOMAIN g = 0 .. N /\ g[0] = Unselected /\ \A n \in 1 .. N : g[n] = Next1(n, g[n - 1])
      <3> HIDE DEF Next1, Step
      <3> QED BY <1>2, <2>1 DEF IsLoop
    <2>3. \A n \in 0 .. N : n \in 1 .. N \/ n = 0
      OBVIOUS
    <2>4. g = [n \in 0 .. N |-> g[n]]
      BY <1>2 DEF IsLoop
    <2> HIDE DEF Step
    <2> QED BY <2>2, <2>3, <2>4
  <1>4. Unrolls(SelectLoop(ordered))
    BY <1>3, Zenon DEF SelectLoop, Unselected
  <1> DEFINE r == SelectLoop(ordered)
  <1> HIDE DEF r
  <1>5. \A n \in 0 .. N : r[n] = IF n = 0 THEN Unselected ELSE SelectNext(r[n - 1], ordered[n])
    BY <1>4, Zenon DEF r
  <1>6. r[0] = Unselected /\ \A n \in 1 .. N : r[n] = Next1(n, r[n - 1])
    <2>1. 0 \in 0 .. N /\ \A n \in 1 .. N : n \in 0 .. N /\ n # 0
      BY <1>0
    <2> QED BY <1>5, <2>1
  <1> QED BY <1>6 DEF r

LEMMA TotalsGrow ==
  ASSUME NEW items \in Seq(Observations)
  PROVE  /\ Totals(items) \in [0 .. Len(items) -> Nat]
         /\ Totals(items)[0] = 0
         /\ \A n \in 1 .. Len(items) :
              /\ n - 1 \in 0 .. Len(items) /\ items[n].size \in Nat
              /\ Totals(items)[n] = Totals(items)[n - 1] + items[n].size
         /\ \A k, l \in 0 .. Len(items) : k <= l => Totals(items)[k] <= Totals(items)[l]
  <1> DEFINE N == Len(items)
             t == Totals(items)
             U == {l \in 0 .. N : \A k \in 0 .. N : k <= l => t[k] <= t[l]}
  <1>0. N \in Nat /\ \A n \in 1 .. N : items[n].size \in Nat
    BY LenProperties, ElementOfSeq DEF Observations
  <1>1. /\ t \in [0 .. N -> Nat] /\ t[0] = 0
        /\ \A n \in 1 .. N : t[n] = t[n - 1] + items[n].size
    BY <1>0, TotalsDef
  <1> HIDE DEF t, N
  <1>2. 0 \in U
    BY <1>0, <1>1
  <1>3. ASSUME NEW n \in 1 .. N, n - 1 \in U PROVE n \in U
    <2>1. n \in 0 .. N /\ n - 1 \in 0 .. N /\ t[n] \in Nat /\ t[n - 1] \in Nat
      BY <1>0, <1>1
    <2>2. t[n - 1] <= t[n]
      <3> DEFINE size == items[n].size
      <3>1. t[n] = t[n - 1] + size /\ size \in Nat
        BY <1>0, <1>1
      <3> HIDE DEF size
      <3> QED BY <2>1, <3>1
    <2>3. ASSUME NEW k \in 0 .. N, k <= n PROVE t[k] <= t[n]
      <3>1. t[k] \in Nat
        BY <1>1
      <3>2. CASE k <= n - 1
        BY <1>3, <2>1, <2>2, <3>1, <3>2
      <3>3. CASE k = n
        BY <2>1, <3>3
      <3> QED BY <1>0, <2>3, <3>2, <3>3
    <2> QED BY <2>1, <2>3
  <1>4. \A n \in 0 .. N : n \in U
    <2> HIDE DEF U
    <2> QED BY <1>0, <1>2, <1>3, UpTo
  <1>5. \A n \in 1 .. N : n - 1 \in 0 .. N
    BY <1>0
  <1> QED BY <1>0, <1>1, <1>4, <1>5 DEF t, N

Sized(items) == Len(items) \in Nat /\ \A i \in 1 .. Len(items) : items[i].size \in Nat

LEMMA ObservationsAreSized ==
  ASSUME NEW items \in Seq(Observations)
  PROVE  Sized(items)
  BY LenProperties, ElementOfSeq DEF Sized, Observations

(* A prefix has the totals of the whole. *)
LEMMA TotalsOfPrefix ==
  ASSUME NEW items, Sized(items), NEW prefix, Sized(prefix),
         Len(prefix) <= Len(items), \A i \in 1 .. Len(prefix) : prefix[i] = items[i]
  PROVE  \A n \in 0 .. Len(prefix) : Totals(prefix)[n] = Totals(items)[n]
  <1> DEFINE N == Len(prefix)
             U == {n \in 0 .. N : Totals(prefix)[n] = Totals(items)[n]}
  <1>0. N \in Nat /\ Len(items) \in Nat
    BY DEF Sized
  <1>1. 0 \in U
    BY <1>0, TotalsDef DEF Sized
  <1>2. ASSUME NEW n \in 1 .. N, n - 1 \in U PROVE n \in U
    <2>1. n \in 1 .. Len(items) /\ n \in 0 .. N
      BY <1>0
    <2>2. Totals(prefix)[n] = Totals(prefix)[n - 1] + prefix[n].size
      BY TotalsDef DEF Sized
    <2>3. Totals(items)[n] = Totals(items)[n - 1] + items[n].size
      BY <2>1, TotalsDef DEF Sized
    <2>4. Totals(prefix)[n - 1] = Totals(items)[n - 1] /\ prefix[n] = items[n]
      BY <1>2
    <2> QED BY <2>1, <2>2, <2>3, <2>4
  <1>3. \A n \in 0 .. N : n \in U
    <2> HIDE DEF U, N
    <2> QED BY <1>0, <1>1, <1>2, UpTo
  <1> QED BY <1>3

(* After n items: a prefix within the limits, and why it ended if it did. *)
IsSelection(state, ordered, n) ==
  /\ state \in SelectState
  /\ Len(state.selected) \in 0 .. n
  /\ Len(state.selected) <= MaxObservations
  /\ state.total = Totals(ordered)[Len(state.selected)] /\ state.total <= MaxChars
  /\ \A i \in 1 .. Len(state.selected) : state.selected[i] = ordered[i]
  /\ IF state.ended
       THEN /\ Len(state.selected) < n
            /\ \/ Len(state.selected) >= MaxObservations
               \/ Totals(ordered)[Len(state.selected) + 1] > MaxChars
       ELSE Len(state.selected) = n

LEMMA SelectNextSelects ==
  ASSUME NEW ordered \in Seq(Observations), NEW n \in 1 .. Len(ordered),
         NEW state, IsSelection(state, ordered, n - 1)
  PROVE  IsSelection(SelectNext(state, ordered[n]), ordered, n)
  <1> DEFINE k == Len(state.selected)
             t == Totals(ordered)
             new == SelectNext(state, ordered[n])
  <1>0. /\ n \in Nat /\ k \in Nat /\ ordered[n] \in Observations
        /\ state \in SelectState /\ new \in SelectState
        /\ MaxObservations \in Nat /\ MaxChars \in Nat /\ state.total \in Nat
    <2>1. state \in SelectState
      BY DEF IsSelection
    <2>2. state.selected \in Seq(Observations) /\ state.total \in Nat
      BY <2>1 DEF SelectState
    <2>3. n \in Nat /\ k \in Nat /\ ordered[n] \in Observations
      BY <2>2, ElementOfSeq, LenProperties
    <2>4. new \in SelectState
      BY <2>1, <2>3, SelectNextType
    <2> QED BY <2>1, <2>2, <2>3, <2>4, LimitsAssumption
  <1>1. t[n] = t[n - 1] + ordered[n].size
    BY TotalsGrow
  <1> DEFINE Ends == state.ended \/ k >= MaxObservations \/ state.total + ordered[n].size > MaxChars
  <1>2. CASE Ends
    <2>1. new = [state EXCEPT !.ended = TRUE]
      BY <1>2 DEF SelectNext
    <2>2. new.selected = state.selected /\ new.total = state.total /\ new.ended
      BY <1>0, <2>1 DEF SelectState
    <2>3. k < n /\ (k >= MaxObservations \/ t[k + 1] > MaxChars)
      <3>1. CASE state.ended
        BY <1>0, <3>1 DEF IsSelection
      <3>2. CASE ~ state.ended
        <4>1. k = n - 1 /\ state.total = t[n - 1]
          BY <3>2 DEF IsSelection
        <4>2. k + 1 = n /\ k < n
          BY <1>0, <4>1
        <4> QED BY <1>1, <1>2, <3>2, <4>1, <4>2
      <3> QED BY <3>1, <3>2
    <2>4. k \in 0 .. n
      BY <1>0, <2>3
    <2> QED BY <1>0, <2>2, <2>3, <2>4 DEF IsSelection
  <1>3. CASE ~ Ends
    <2>1. new = [state EXCEPT !.selected = Append(@, ordered[n]), !.total = @ + ordered[n].size]
      BY <1>3 DEF SelectNext
    <2>2. /\ new.selected = Append(state.selected, ordered[n])
          /\ new.total = state.total + ordered[n].size /\ ~ new.ended
      BY <1>0, <1>3, <2>1 DEF SelectState
    <2>3. k = n - 1 /\ state.total = t[n - 1] /\ state.selected \in Seq(Observations)
      BY <1>0, <1>3 DEF IsSelection, SelectState
    <2>4. k + 1 = n
      BY <1>0, <2>3
    <2>5. Len(new.selected) = n /\ new.selected[n] = ordered[n]
          /\ \A i \in 1 .. k : new.selected[i] = state.selected[i]
      BY <1>0, <2>2, <2>3, <2>4, AppendProperties
    <2>6. \A i \in 1 .. n : i \in 1 .. k \/ i = n
      BY <1>0, <2>4
    <2>7. \A i \in 1 .. n : new.selected[i] = ordered[i]
      BY <2>5, <2>6 DEF IsSelection
    <2>8. n \in 0 .. n /\ n <= MaxObservations /\ new.total = t[n] /\ new.total <= MaxChars
      BY <1>0, <1>1, <1>3, <2>2, <2>3, <2>4, TotalsGrow DEF Observations
    <2> QED BY <1>0, <2>2, <2>5, <2>7, <2>8 DEF IsSelection
  <1> QED BY <1>2, <1>3

LEMMA SelectedIsPrefix ==
  ASSUME NEW items \in Seq(Observations)
  PROVE  /\ Selected(items) \in Seq(Observations)
         /\ Len(Selected(items)) \in 0 .. Len(items)
         /\ Len(Selected(items)) <= MaxObservations
         /\ Totals(Ordered(items))[Len(Selected(items))] <= MaxChars
         /\ \A i \in 1 .. Len(Selected(items)) : Selected(items)[i] = Ordered(items)[i]
         /\ Len(Selected(items)) < Len(items) =>
              \/ Len(Selected(items)) >= MaxObservations
              \/ Totals(Ordered(items))[Len(Selected(items)) + 1] > MaxChars
  <1> DEFINE s == Ordered(items)
             N == Len(items)
             r == SelectLoop(s)
             U == {n \in 0 .. N : IsSelection(r[n], s, n)}
  <1>0. s \in Seq(Observations) /\ Len(s) = N /\ N \in Nat
    BY OrderedSorts, LenProperties
  <1> HIDE DEF s
  <1>1. 0 \in U
    <2>1. r[0] = Unselected
      BY <1>0, SelectLoopDef
    <2>2. Unselected \in SelectState /\ Len(Unselected.selected) = 0
          /\ Unselected.total = 0 /\ ~ Unselected.ended
      BY EmptySeq DEF Unselected, SelectState
    <2>3. Totals(s)[0] = 0
      BY <1>0, TotalsGrow
    <2>4. IsSelection(Unselected, s, 0)
      BY <2>2, <2>3, LimitsAssumption DEF IsSelection
    <2> HIDE DEF r, N
    <2> QED BY <1>0, <2>1, <2>4
  <1>2. ASSUME NEW n \in 1 .. N, n - 1 \in U PROVE n \in U
    <2>1. n \in 1 .. Len(s) /\ n \in 0 .. N
      BY <1>0
    <2>2. r[n] = SelectNext(r[n - 1], s[n])
      BY <1>0, <2>1, SelectLoopDef
    <2>3. IsSelection(r[n - 1], s, n - 1)
      BY <1>2
    <2> HIDE DEF r, N
    <2>4. IsSelection(r[n], s, n)
      BY <1>0, <2>1, <2>2, <2>3, SelectNextSelects
    <2> QED BY <2>1, <2>4
  <1>3. \A n \in 0 .. N : n \in U
    <2> HIDE DEF U, N
    <2> QED BY <1>0, <1>1, <1>2, UpTo
  <1>4. IsSelection(r[N], s, N)
    <2>1. N \in 0 .. N
      BY <1>0
    <2> QED BY <1>3, <2>1
  <1>5. Selected(items) = r[N].selected
    BY DEF Selected, s
  <1> HIDE DEF r, N
  <1>6. r[N] \in SelectState
    BY <1>4 DEF IsSelection
  <1> QED BY <1>0, <1>4, <1>5, <1>6 DEF IsSelection, SelectState, N, s

(* With a first item within the size limit something is selected. *)
LEMMA FirstIsSelected ==
  ASSUME NEW items \in Seq(Observations), items # <<>>, Ordered(items)[1].size <= MaxChars
  PROVE  1 \in 1 .. Len(Selected(items)) /\ Selected(items)[1] = Ordered(items)[1]
  <1> DEFINE N == Len(items)
             k == Len(Selected(items))
             t == Totals(Ordered(items))
  <1>0. N \in Nat /\ N # 0 /\ MaxObservations \in Nat \ {0}
    BY LenProperties, EmptySeq, LimitsAssumption
  <1>1. Ordered(items) \in Seq(Observations) /\ Len(Ordered(items)) = N
    BY OrderedSorts
  <1>2. t[1] = Ordered(items)[1].size
    <2>1. 1 \in 1 .. Len(Ordered(items))
      BY <1>0, <1>1
    <2>2. /\ t[0] = 0 /\ t[1] = t[1 - 1] + Ordered(items)[1].size
          /\ Ordered(items)[1].size \in Nat
      BY <1>1, <2>1, TotalsGrow
    <2> QED BY <2>2
  <1>3. /\ k \in 0 .. N /\ \A i \in 1 .. k : Selected(items)[i] = Ordered(items)[i]
        /\ k < N => k >= MaxObservations \/ t[k + 1] > MaxChars
    BY SelectedIsPrefix
  <1>4. k # 0
    <2> SUFFICES ASSUME k = 0 PROVE FALSE
      OBVIOUS
    <2>1. t[0 + 1] > MaxChars
      <3> HIDE DEF k, t, N
      <3> QED BY <1>0, <1>3
    <2>2. t[1] > MaxChars /\ t[1] \in Nat /\ t[1] <= MaxChars
      <3>1. 1 \in 0 .. Len(Ordered(items)) /\ t \in [0 .. Len(Ordered(items)) -> Nat]
        BY <1>0, <1>1, TotalsGrow
      <3> QED BY <1>2, <2>1, <3>1
    <2> HIDE DEF t
    <2> QED BY <2>2, LimitsAssumption
  <1>5. 1 \in 1 .. k
    <2> HIDE DEF k, N
    <2> QED BY <1>0, <1>3, <1>4
  <1> QED BY <1>3, <1>5

LEMMA SelectionIsLongest ==
  ASSUME NEW items \in Seq(Observations), NEW k \in 0 .. Len(items),
         k <= MaxObservations, Totals(Ordered(items))[k] <= MaxChars
  PROVE  k <= Len(Selected(items))
  <1> DEFINE N == Len(items)
             n == Len(Selected(items))
             t == Totals(Ordered(items))
  <1>0. N \in Nat /\ MaxObservations \in Nat /\ MaxChars \in Nat
    BY LenProperties, LimitsAssumption
  <1>1. /\ n \in 0 .. N
        /\ n < N => n >= MaxObservations \/ t[n + 1] > MaxChars
    BY SelectedIsPrefix
  <1>2. /\ t \in [0 .. N -> Nat]
        /\ \A i, j \in 0 .. N : i <= j => t[i] <= t[j]
    BY OrderedSorts, TotalsGrow
  <1>3. t[k] <= MaxChars
    OBVIOUS
  <1> HIDE DEF t, n, N
  <1> SUFFICES ASSUME ~ (k <= n) PROVE FALSE
    BY DEF n
  <1>4. k \in 0 .. N /\ n \in Nat /\ k \in Nat
    BY <1>1 DEF N
  <1>5. n + 1 \in 0 .. N /\ n + 1 <= k /\ n < N
    BY <1>0, <1>1, <1>4
  <1>6. t[n + 1] > MaxChars
    BY <1>0, <1>1, <1>4, <1>5
  <1>7. t[n + 1] <= t[k] /\ t[n + 1] \in Nat /\ t[k] \in Nat
    BY <1>2, <1>4, <1>5
  <1> QED BY <1>0, <1>3, <1>6, <1>7

-----------------------------------------------------------------------------
(* The case *)

LEMMA SentenceIsNew ==
  /\ Sentence.id \notin Ids
  /\ Sentence.status = "review" /\ Sentence.severity = "low" /\ Sentence.size = SummarySize
  <1>1. ASSUME NEW runs \in Contents, NEW run \in DOMAIN runs
        PROVE  runs[run].tool # 0
    BY FileType
  <1>2. ASSUME NEW control \in DOMAIN Controls PROVE <<0, control, 0>> # <<0, 0, 0>>
    BY InputsAssumption, LenProperties
  <1>3. <<0, 0, 0>> \notin Ids
    <2>1. ASSUME NEW runs \in Contents, NEW run \in DOMAIN runs
          PROVE  <<0, 0, 0>> \notin RunIds(runs, run)
      <3>1. \A id \in RunIds(runs, run) : id[1] = runs[run].tool
        BY DEF RunIds
      <3> QED BY <1>1, <3>1
    <2>2. ASSUME NEW runs \in Contents PROVE <<0, 0, 0>> \notin FileIds(runs)
      BY <2>1 DEF FileIds
    <2>3. <<0, 0, 0>> \notin {<<0, control, 0>> : control \in DOMAIN Controls}
      BY <1>2
    <2>4. \A file \in Files : file.runs \in Contents
      BY DEF Contents
    <2> QED BY <2>2, <2>3, <2>4 DEF Ids
  <1> QED BY <1>3 DEF Sentence

(* The sources are the selection, and the sentence unless it is everything. *)
LEMMA SourcesDef ==
  ASSUME NEW items \in Seq(Observations)
  PROVE  /\ Len(Sources(items)) \in Nat /\ Sources(items) # <<>>
         /\ \A i \in 1 .. Len(Selected(items)) :
              i \in 1 .. Len(Sources(items)) /\ Sources(items)[i] = Selected(items)[i]
         /\ \/ Sources(items) = Selected(items) /\ Len(Selected(items)) = Len(items)
            \/ /\ Len(Sources(items)) = Len(Selected(items)) + 1
               /\ Sources(items)[Len(Sources(items))] = Sentence
  <1> DEFINE s == Selected(items)
             k == Len(s)
  <1>0. s \in Seq(Observations) /\ k \in Nat
    BY SelectedIsPrefix, LenProperties
  <1>1. CASE items # <<>> /\ k = Len(items)
    <2>1. Sources(items) = s
      BY <1>1 DEF Sources
    <2>2. Len(items) # 0
      BY <1>1, EmptySeq
    <2>3. s # <<>>
      <3> SUFFICES ASSUME s = <<>> PROVE FALSE
        OBVIOUS
      <3>1. k = 0
        OBVIOUS
      <3> QED BY <1>1, <2>2, <3>1
    <2> QED BY <1>0, <1>1, <2>1, <2>3
  <1>2. CASE ~ (items # <<>> /\ k = Len(items))
    <2> DEFINE T == Observations \cup {Sentence}
               a == Append(s, Sentence)
    <2>1. Sources(items) = a
      BY <1>2 DEF Sources
    <2>2. s \in Seq(T)
      <3>1. \A i \in 1 .. k : s[i] \in T
        BY <1>0, ElementOfSeq
      <3>2. s = [i \in 1 .. k |-> s[i]]
        BY <1>0
      <3> HIDE DEF s, k, T
      <3> QED BY <1>0, <3>1, <3>2
    <2>3. Sentence \in T
      OBVIOUS
    <2> HIDE DEF T, s
    <2>4. /\ Len(a) = k + 1 /\ a # <<>> /\ a[k + 1] = Sentence
          /\ \A i \in 1 .. k : a[i] = s[i]
      BY <2>2, <2>3, AppendProperties
    <2>5. \A i \in 1 .. k : i \in 1 .. k + 1
      BY <1>0
    <2> HIDE DEF a, k
    <2> QED BY <1>0, <2>1, <2>4, <2>5 DEF k, s
  <1> QED BY <1>1, <1>2

(* Every source is the sentence or an observation, and none comes twice. *)
CaseSources == Observations \cup {Sentence}

LEMMA SourcesAreObservations ==
  ASSUME NEW items \in Seq(Observations)
  PROVE  /\ \A i \in 1 .. Len(Sources(items)) :
              \/ Sources(items)[i] = Sentence
              \/ \E j \in 1 .. Len(items) : Sources(items)[i] = items[j]
         /\ Sources(items) \in Seq(CaseSources)
  <1> DEFINE c == Sources(items)
             k == Len(Selected(items))
             N == Len(items)
  <1>0. /\ k \in Nat /\ N \in Nat /\ k \in 0 .. N
        /\ Len(c) \in Nat /\ Len(c) \in {k, k + 1}
        /\ Len(c) = k + 1 => c[Len(c)] = Sentence
        /\ \A i \in 1 .. k : c[i] = Ordered(items)[i]
    <2>1. k \in Nat /\ N \in Nat /\ k \in 0 .. N
      BY SelectedIsPrefix, LenProperties
    <2>2. Len(c) \in {k, k + 1} /\ (Len(c) = k + 1 => c[Len(c)] = Sentence)
      BY <2>1, SourcesDef
    <2>3. \A i \in 1 .. k : c[i] = Ordered(items)[i]
      BY SourcesDef, SelectedIsPrefix
    <2> QED BY <2>1, <2>2, <2>3, SourcesDef
  <1>1. ASSUME NEW i \in 1 .. Len(c)
        PROVE  c[i] = Sentence \/ \E j \in 1 .. N : c[i] = items[j]
    <2>1. CASE i \in 1 .. k
      <3>1. i \in 1 .. N
        <4> HIDE DEF k, N
        <4> QED BY <1>0, <2>1
      <3>2. \E j \in 1 .. N : Ordered(items)[i] = items[j]
        BY <3>1, OrderedFacts
      <3>3. c[i] = Ordered(items)[i]
        BY <1>0, <2>1
      <3> HIDE DEF c
      <3> QED BY <3>2, <3>3
    <2>2. CASE i \notin 1 .. k
      <3> HIDE DEF k, c
      <3>1. Len(c) = k + 1 /\ i = Len(c)
        BY <1>0, <1>1, <2>2
      <3> QED BY <1>0, <3>1
    <2> QED BY <2>1, <2>2
  <1>2. ASSUME NEW i \in 1 .. Len(c) PROVE c[i] \in CaseSources
    BY <1>1, ElementOfSeq DEF CaseSources
  <1>3. c \in Seq(CaseSources)
    <2> DEFINE s == Selected(items)
    <2>1. s \in Seq(Observations)
      BY SelectedIsPrefix
    <2>2. Observations \subseteq CaseSources /\ Sentence \in CaseSources
      BY DEF CaseSources
    <2>3. c = s \/ c = Append(s, Sentence)
      BY DEF Sources
    <2> HIDE DEF c, s
    <2>4. s \in Seq(CaseSources)
      BY <2>1, <2>2, SeqMonotonic
    <2>5. Append(s, Sentence) \in Seq(CaseSources)
      BY <2>2, <2>4, AppendProperties
    <2> QED BY <2>3, <2>4, <2>5
  <1> QED BY <1>1, <1>3

LEMMA SourcesAreDistinct ==
  ASSUME NEW items \in Seq(Observations), Distinct(items)
  PROVE  Distinct(Sources(items))
  <1> DEFINE c == Sources(items)
             k == Len(Selected(items))
             N == Len(items)
  <1>0. /\ k \in Nat /\ k \in 0 .. N /\ N \in Nat /\ Len(c) \in Nat /\ Len(c) \in {k, k + 1}
        /\ Len(c) = k + 1 => c[Len(c)] = Sentence
    BY SelectedIsPrefix, SourcesDef, LenProperties
  <1>1. /\ \A i \in 1 .. k : i \in 1 .. N /\ c[i] = Ordered(items)[i] /\ c[i].id \in Ids
        /\ \A i, j \in 1 .. N : Ordered(items)[i].id = Ordered(items)[j].id => i = j
    <2>1. Ordered(items) \in Seq(Observations) /\ Len(Ordered(items)) = N
      BY OrderedSorts
    <2>2. \A i \in 1 .. k : i \in 1 .. N
      <3> HIDE DEF k, N
      <3> QED BY <1>0
    <2>3. \A i \in 1 .. k : c[i] = Ordered(items)[i]
      BY SourcesDef, SelectedIsPrefix
    <2>4. \A i \in 1 .. N : Ordered(items)[i].id \in Ids
      BY <2>1, ElementOfSeq DEF Observations
    <2>5. \A i, j \in 1 .. N : Ordered(items)[i].id = Ordered(items)[j].id => i = j
      BY <2>1, OrderedFacts DEF Distinct
    <2> HIDE DEF c, k, N
    <2> QED BY <2>2, <2>3, <2>4, <2>5
  <1>2. ASSUME NEW i \in 1 .. Len(c), NEW j \in 1 .. Len(c), c[i].id = c[j].id PROVE i = j
    <2> HIDE DEF c, k, N
    <2>1. /\ i \in 1 .. k \/ (Len(c) = k + 1 /\ i = Len(c))
          /\ j \in 1 .. k \/ (Len(c) = k + 1 /\ j = Len(c))
      BY <1>0
    <2>2. CASE i \in 1 .. k /\ j \in 1 .. k
      BY <1>1, <1>2, <2>2
    <2>3. CASE i \in 1 .. k /\ j \notin 1 .. k
      <3>1. c[j].id = Sentence.id /\ c[i].id \in Ids
        BY <1>0, <1>1, <2>1, <2>3
      <3> QED BY <1>2, <3>1, SentenceIsNew
    <2>4. CASE i \notin 1 .. k /\ j \in 1 .. k
      <3>1. c[i].id = Sentence.id /\ c[j].id \in Ids
        BY <1>0, <1>1, <2>1, <2>4
      <3> QED BY <1>2, <3>1, SentenceIsNew
    <2>5. CASE i \notin 1 .. k /\ j \notin 1 .. k
      BY <2>1, <2>5
    <2> QED BY <2>2, <2>3, <2>4, <2>5
  <1> QED BY <1>2 DEF Distinct

(* The sentence fits into what validate_case allows beyond the selection. *)
LEMMA SourcesFit ==
  ASSUME NEW items \in Seq(Observations)
  PROVE  /\ \A i \in 1 .. Len(Sources(items)) : Sources(items)[i].size > 0
         /\ SizeOf(Sources(items)) <= MaxSourceChars
  <1> DEFINE c == Sources(items)
             s == Selected(items)
             k == Len(s)
             t == Totals(Ordered(items))
  <1>0. /\ MaxChars \in Nat /\ SummarySize \in Nat \ {0} /\ MaxSourceChars \in Nat
        /\ MaxChars + SummarySize <= MaxSourceChars
    BY LimitsAssumption
  <1>1. \A o \in CaseSources : o.size \in Nat \ {0}
    BY <1>0, SentenceIsNew DEF CaseSources, Observations
  <1>2. \A i \in 1 .. Len(c) : c[i].size \in Nat \ {0}
    <2>1. c \in Seq(CaseSources)
      BY SourcesAreObservations
    <2> HIDE DEF c
    <2> QED BY <1>1, <2>1, ElementOfSeq
  <1>3. Sized(c) /\ Sized(s) /\ Sized(Ordered(items))
    BY <1>2, SourcesDef, SelectedIsPrefix, OrderedSorts, ObservationsAreSized DEF Sized
  <1>4. k \in Nat /\ k <= Len(Ordered(items)) /\ k \in 0 .. k
    <2>1. k \in 0 .. Len(items) /\ Len(Ordered(items)) = Len(items) /\ Len(items) \in Nat
      BY SelectedIsPrefix, OrderedSorts, LenProperties
    <2> HIDE DEF k
    <2> QED BY <2>1
  <1>5. Totals(s)[k] = t[k] /\ t[k] <= MaxChars /\ Totals(s)[k] \in Nat
    <2>1. \A i \in 1 .. k : s[i] = Ordered(items)[i]
      BY SelectedIsPrefix
    <2>2. Totals(s)[k] = t[k]
      <3> HIDE DEF s, t
      <3> QED BY <1>3, <1>4, <2>1, TotalsOfPrefix DEF t
    <2>3. Totals(s)[k] \in Nat
      BY <1>3, <1>4, TotalsDef DEF Sized
    <2> QED BY <2>2, <2>3, SelectedIsPrefix
  <1>6. SizeOf(c) <= MaxSourceChars
    <2>1. CASE c = s
      <3>1. SizeOf(c) = Totals(s)[k]
        BY <2>1 DEF SizeOf
      <3> HIDE DEF c, s, k, t
      <3> QED BY <1>0, <1>5, <3>1, <1>4
    <2>2. CASE Len(c) = k + 1 /\ c[Len(c)] = Sentence
      <3> HIDE DEF c, t
      <3>1. \A i \in 1 .. k : s[i] = c[i]
        BY SourcesDef DEF c
      <3> HIDE DEF s
      <3>2. Totals(s)[k] = Totals(c)[k]
        BY <1>3, <1>4, <2>2, <3>1, TotalsOfPrefix
      <3>3. Totals(c)[k + 1] = Totals(c)[k] + c[k + 1].size
        <4> DEFINE n == k + 1
        <4>1. n \in 1 .. Len(c) /\ n - 1 = k
          BY <1>4, <2>2
        <4> HIDE DEF n
        <4>2. Totals(c)[n] = Totals(c)[n - 1] + c[n].size
          BY <1>3, <4>1, TotalsDef DEF Sized
        <4> QED BY <4>1, <4>2 DEF n
      <3>4. SizeOf(c) = Totals(s)[k] + SummarySize
        BY <2>2, <3>2, <3>3, SentenceIsNew DEF SizeOf
      <3> DEFINE x == Totals(s)[k]
      <3>5. x \in Nat /\ x <= MaxChars /\ SizeOf(c) = x + SummarySize
        BY <1>5, <3>4
      <3> HIDE DEF x
      <3> QED BY <1>0, <3>5
    <2> QED BY <2>1, <2>2, SourcesDef
  <1>7. \A i \in 1 .. Len(c) : c[i].size > 0
    <2> HIDE DEF c
    <2> QED BY <1>2
  <1> QED BY <1>6, <1>7

LEMMA SourcesAreValid ==
  ASSUME NEW items \in Seq(Observations), Distinct(items)
  PROVE  ValidCase(Sources(items))
  <1> DEFINE c == Sources(items)
  <1>1. DOMAIN c = 1 .. Len(c)
    <2>1. c \in Seq(CaseSources)
      BY SourcesAreObservations
    <2> HIDE DEF c
    <2> QED BY <2>1, LenProperties
  <1>2. IsInjective([i \in DOMAIN c |-> c[i].id])
    <2> HIDE DEF c
    <2> QED BY <1>1, SourcesAreDistinct DEF c, Distinct, IsInjective
  <1> QED BY <1>1, <1>2, SourcesDef, SourcesFit DEF ValidCase

-----------------------------------------------------------------------------
(* Risk *)

Risk(item) == RiskIndex[RiskOf(item.severity)]

(* A more severe item is a higher risk. *)
LEMMA RiskFollowsSeverity ==
  /\ \A x \in Severities : RiskOf(x) \in DOMAIN RiskIndex
  /\ \A risk \in DOMAIN RiskIndex : RiskIndex[risk] \in 0 .. 3
  /\ \A risk, other \in DOMAIN RiskIndex : RiskIndex[risk] = RiskIndex[other] => risk = other
  /\ \A x, y \in Severities :
       SeverityOrder[x] <= SeverityOrder[y] => RiskIndex[RiskOf(y)] <= RiskIndex[RiskOf(x)]
  /\ RiskOf("low") = "low" /\ RiskOf("info") = "low" /\ RiskIndex["low"] = 0
  /\ \A x \in Severities : SeverityOrder["info"] <= SeverityOrder[x] => x = "info"
  BY DEF RiskOf, RiskIndex, Severities, SeverityOrder

Graded(items) ==
  /\ Len(items) \in Nat /\ DOMAIN items = 1 .. Len(items)
  /\ items = <<>> <=> Len(items) = 0
  /\ \A i \in 1 .. Len(items) : items[i].severity \in Severities

LEMMA SourcesAreGraded ==
  ASSUME NEW items \in Seq(CaseSources)
  PROVE  Graded(items)
  <1>1. \A o \in CaseSources : o.severity \in Severities
    BY DEF CaseSources, Observations, Sentence, Severities
  <1> QED BY <1>1, LenProperties, ElementOfSeq, EmptySeq DEF Graded

LEMMA HighestIs ==
  ASSUME NEW items, Graded(items), NEW risk \in DOMAIN RiskIndex,
         items = <<>> => risk = "low",
         items # <<>> => \E i \in 1 .. Len(items) : RiskOf(items[i].severity) = risk,
         \A i \in 1 .. Len(items) : Risk(items[i]) <= RiskIndex[risk]
  PROVE  Highest(items) = risk
  <1>1. CASE items = <<>>
    BY <1>1 DEF Highest
  <1>2. CASE items # <<>>
    <2> DEFINE risks == {RiskOf(items[i].severity) : i \in DOMAIN items}
               IsMax(r) == \A other \in risks : RiskIndex[other] <= RiskIndex[r]
    <2>1. risk \in risks /\ risks \subseteq DOMAIN RiskIndex
      BY <1>2, RiskFollowsSeverity DEF Graded
    <2>2. IsMax(risk)
      BY DEF Graded, Risk
    <2>3. ASSUME NEW r \in risks, IsMax(r) PROVE r = risk
      <3>1. RiskIndex[risk] <= RiskIndex[r] /\ RiskIndex[r] <= RiskIndex[risk]
        <4> HIDE DEF risks
        <4> QED BY <2>1, <2>2, <2>3
      <3>2. r \in DOMAIN RiskIndex
        <4> HIDE DEF risks
        <4> QED BY <2>1
      <3> QED BY <3>1, <3>2, RiskFollowsSeverity
    <2>4. Highest(items) = CHOOSE r \in risks : IsMax(r)
      BY <1>2 DEF Highest
    <2> HIDE DEF risks, IsMax
    <2> QED BY <2>1, <2>2, <2>3, <2>4
  <1> QED BY <1>1, <1>2

LEMMA HighestType ==
  ASSUME NEW items, Graded(items)
  PROVE  Highest(items) \in DOMAIN RiskIndex
  <1>1. CASE items = <<>>
    BY <1>1 DEF Highest, RiskIndex
  <1>2. CASE items # <<>>
    <2> DEFINE risks == {RiskOf(items[i].severity) : i \in DOMAIN items}
               IsMax(r) == \A other \in risks : RiskIndex[other] <= RiskIndex[r]
    <2>1. risks \subseteq DOMAIN RiskIndex
      BY RiskFollowsSeverity DEF Graded
    <2>2. \E r \in risks : TRUE
      <3>1. 1 \in 1 .. Len(items)
        BY <1>2 DEF Graded
      <3> QED BY <3>1 DEF Graded
    <2>3. \E r \in risks : IsMax(r)
      <3> HIDE DEF risks
      <3>1. DOMAIN RiskIndex = {"low", "medium", "high", "critical"}
        BY DEF RiskIndex
      <3>2. CASE "critical" \in risks
        BY <2>1, <3>1, <3>2 DEF RiskIndex
      <3>3. CASE "critical" \notin risks /\ "high" \in risks
        BY <2>1, <3>1, <3>3 DEF RiskIndex
      <3>4. CASE "critical" \notin risks /\ "high" \notin risks /\ "medium" \in risks
        BY <2>1, <3>1, <3>4 DEF RiskIndex
      <3>5. CASE risks \subseteq {"low"}
        BY <2>2, <3>5 DEF RiskIndex
      <3> QED BY <2>1, <3>1, <3>2, <3>3, <3>4, <3>5
    <2>4. Highest(items) = CHOOSE r \in risks : IsMax(r)
      BY <1>2 DEF Highest
    <2> HIDE DEF risks, IsMax
    <2> QED BY <2>1, <2>3, <2>4
  <1> QED BY <1>1, <1>2

(* What the triage looks at: what asks for review, or else everything. *)
LEMMA CandidatesDef ==
  ASSUME NEW T, NEW sources \in Seq(T)
  PROVE  /\ Candidates(sources) \in Seq(T)
         /\ sources # <<>> => Candidates(sources) # <<>>
         /\ \A i \in 1 .. Len(Candidates(sources)) :
              \E j \in 1 .. Len(sources) : Candidates(sources)[i] = sources[j]
         /\ \A j \in 1 .. Len(sources) :
              sources[j].status = "review" =>
                /\ \A i \in 1 .. Len(Candidates(sources)) :
                     Candidates(sources)[i].status = "review"
                /\ \E i \in 1 .. Len(Candidates(sources)) : Candidates(sources)[i] = sources[j]
  <1> DEFINE r == Reviews(sources)
  <1>1. /\ r \in Seq(T)
        /\ \A i \in 1 .. Len(r) :
             \E j \in 1 .. Len(sources) : r[i] = sources[j] /\ sources[j].status = "review"
        /\ \A j \in 1 .. Len(sources) :
             sources[j].status = "review" => \E i \in 1 .. Len(r) : r[i] = sources[j]
    BY ReviewsKeeps
  <1>2. Candidates(sources) = IF r # <<>> THEN r ELSE sources
    BY DEF Candidates
  <1> HIDE DEF r
  <1>3. \A i \in 1 .. Len(r) : r[i].status = "review"
    BY <1>1
  <1>4. CASE r # <<>>
    <2>1. Candidates(sources) = r
      BY <1>2, <1>4
    <2>2. \A i \in 1 .. Len(r) : \E j \in 1 .. Len(sources) : r[i] = sources[j]
      BY <1>1
    <2> QED BY <1>1, <1>3, <1>4, <2>1, <2>2
  <1>5. CASE r = <<>>
    <2>1. Candidates(sources) = sources
      BY <1>2, <1>5
    <2>2. ~ \E i \in 1 .. Len(r) : TRUE
      BY <1>5
    <2>3. \A j \in 1 .. Len(sources) : sources[j].status # "review"
      BY <1>1, <2>2
    <2> QED BY <2>1, <2>3
  <1> QED BY <1>4, <1>5

LEMMA TriageIsValid ==
  ASSUME NEW T, NEW sources \in Seq(T), sources # <<>>
  PROVE  /\ ValidAssessment(sources, Triage(sources))
         /\ \A i \in DOMAIN Triage(sources).citations :
              /\ i \in 1 .. Len(Candidates(sources))
              /\ Triage(sources).citations[i] = Candidates(sources)[i]
  <1> DEFINE c == Candidates(sources)
             n == IF Len(c) < MaxCitations THEN Len(c) ELSE MaxCitations
             q == Triage(sources).citations
  <1>1. c \in Seq(T) /\ c # <<>> /\ Len(c) \in Nat \ {0} /\ MaxCitations \in Nat \ {0}
    BY CandidatesDef, LenProperties, EmptySeq, LimitsAssumption
  <1>2. q = SubSeq(c, 1, n)
    BY DEF Triage
  <1>3. n \in 1 .. Len(c)
    <2> HIDE DEF c
    <2> QED BY <1>1
  <1> HIDE DEF n, q, c
  <1>4. q = [i \in 1 .. n |-> c[i]]
    BY <1>1, <1>2, <1>3
  <1>5. DOMAIN q = 1 .. n /\ q # <<>> /\ 1 \in DOMAIN q
    BY <1>3, <1>4
  <1>6. \A i \in DOMAIN q : i \in 1 .. Len(c) /\ q[i] = c[i]
    BY <1>1, <1>3, <1>4
  <1>7. \A i \in DOMAIN q : \E j \in DOMAIN sources : sources[j] = q[i]
    <2>1. \A i \in 1 .. Len(c) : \E j \in 1 .. Len(sources) : c[i] = sources[j]
      BY CandidatesDef DEF c
    <2>2. DOMAIN sources = 1 .. Len(sources)
      BY LenProperties
    <2> QED BY <1>6, <2>1, <2>2
  <1> QED BY <1>5, <1>6, <1>7 DEF ValidAssessment, q, c

(* The first observation in the order of severity decides: selected, it is  *)
(* a candidate when it asks for review, and no other candidate is a higher  *)
(* risk; when it passed, all are informative and the risk is low anyway.    *)
LEMMA RiskIsKept ==
  ASSUME NEW items \in Seq(Observations),
         items = <<>> \/ Ordered(items)[1].size <= MaxChars
  PROVE  Highest(Candidates(Sources(items))) = Highest(Reviews(items))
  <1> DEFINE c == Sources(items)
             d == Candidates(c)
             r == Reviews(items)
             o == Ordered(items)
             N == Len(items)
  <1> SUFFICES Highest(d) = Highest(r)
    OBVIOUS
  <1>0. /\ c \in Seq(CaseSources) /\ d \in Seq(CaseSources) /\ d # <<>>
        /\ items \in Seq(CaseSources) /\ r \in Seq(CaseSources)
    <2>1. c \in Seq(CaseSources) /\ c # <<>>
      BY SourcesAreObservations, SourcesDef
    <2>2. items \in Seq(CaseSources)
      BY SeqMonotonic DEF CaseSources
    <2> HIDE DEF c
    <2> QED BY <2>1, <2>2, CandidatesDef, ReviewsKeeps
  <1>1. Graded(c) /\ Graded(d) /\ Graded(r) /\ Graded(items)
    <2> HIDE DEF c, d, r
    <2> QED BY <1>0, SourcesAreGraded
  <1>2. /\ \A i \in 1 .. Len(d) : d[i] = Sentence \/ \E j \in 1 .. N : d[i] = items[j]
        /\ \A i \in 1 .. Len(r) : \E j \in 1 .. N : r[i] = items[j]
    <2>1. \A i \in 1 .. Len(c) : c[i] = Sentence \/ \E j \in 1 .. N : c[i] = items[j]
      BY SourcesAreObservations
    <2>2. \A i \in 1 .. Len(d) : \E j \in 1 .. Len(c) : d[i] = c[j]
      <3> HIDE DEF c
      <3> QED BY <1>0, CandidatesDef
    <2>3. \A i \in 1 .. Len(r) : \E j \in 1 .. N : r[i] = items[j]
      BY ReviewsKeeps
    <2> HIDE DEF c, d, r, N
    <2> QED BY <2>1, <2>2, <2>3
  <1>3. Risk(Sentence) = 0
    BY SentenceIsNew, RiskFollowsSeverity DEF Risk
  <1>4. ASSUME \A j \in 1 .. N : RiskOf(items[j].severity) = "low"
        PROVE  Highest(d) = "low" /\ Highest(r) = "low"
    <2>1. /\ \A i \in 1 .. Len(d) : RiskOf(d[i].severity) = "low"
          /\ \A i \in 1 .. Len(r) : RiskOf(r[i].severity) = "low"
      <3>1. RiskOf(Sentence.severity) = "low"
        BY SentenceIsNew, RiskFollowsSeverity
      <3> HIDE DEF d, r, N
      <3> QED BY <1>2, <1>4, <3>1
    <2>2. "low" \in DOMAIN RiskIndex /\ RiskIndex["low"] \in Int
      BY DEF RiskIndex
    <2>3. ASSUME NEW s, Graded(s), \A i \in 1 .. Len(s) : RiskOf(s[i].severity) = "low"
          PROVE  Highest(s) = "low"
      <3>1. s # <<>> => \E i \in 1 .. Len(s) : RiskOf(s[i].severity) = "low"
        BY <2>3 DEF Graded
      <3>2. \A i \in 1 .. Len(s) : Risk(s[i]) <= RiskIndex["low"]
        BY <2>2, <2>3 DEF Risk
      <3> QED BY <2>2, <2>3, <3>1, <3>2, HighestIs
    <2> HIDE DEF d, r
    <2> QED BY <1>1, <2>1, <2>3
  <1>5. CASE items = <<>>
    <2>1. N = 0
      BY <1>5
    <2> HIDE DEF N, d, r
    <2> QED BY <1>4, <2>1
  <1>6. CASE items # <<>>
    <2> DEFINE risk == RiskOf(o[1].severity)
    <2>0. N \in Nat \ {0} /\ 1 \in 1 .. N
      BY <1>6, LenProperties, EmptySeq
    <2>1. PICK first \in 1 .. N : o[1] = items[first]
      BY <2>0, OrderedFacts
    <2>2. o[1] \in Observations /\ o[1].severity \in Severities
      BY <2>1, ElementOfSeq DEF Observations
    <2>3. ASSUME NEW j \in 1 .. N
          PROVE  /\ items[j].severity \in Severities
                 /\ SeverityOrder[o[1].severity] <= SeverityOrder[items[j].severity]
      <3>1. PICK k \in 1 .. N : o[k] = items[j]
        BY OrderedFacts
      <3>2. 1 <= k
        OBVIOUS
      <3>3. SeverityOrder[o[1].severity] <= SeverityOrder[o[k].severity]
        BY <2>0, <3>2, OrderedFacts
      <3> HIDE DEF o, N
      <3> QED BY <1>1, <3>1, <3>3 DEF Graded, N
    <2>4. \A j \in 1 .. N : Risk(items[j]) <= RiskIndex[risk]
      <3> HIDE DEF o, N
      <3> QED BY <2>2, <2>3, RiskFollowsSeverity DEF Risk
    <2>5. risk \in DOMAIN RiskIndex /\ RiskIndex[risk] \in 0 .. 3
      <3> HIDE DEF o
      <3> QED BY <2>2, RiskFollowsSeverity
    <2>6. CASE o[1].status = "review"
      <3>1. \E i \in 1 .. Len(r) : r[i] = o[1]
        BY <2>1, <2>6, ReviewsKeeps
      <3>2. \E i \in 1 .. Len(d) : d[i] = o[1]
        <4>1. 1 \in 1 .. Len(c) /\ c[1] = o[1]
          BY <1>6, FirstIsSelected, SourcesDef
        <4> HIDE DEF c, o
        <4> QED BY <1>0, <2>6, <4>1, CandidatesDef
      <3> HIDE DEF o, N
      <3>3. \A i \in 1 .. Len(r) : Risk(r[i]) <= RiskIndex[risk]
        <4> HIDE DEF r
        <4> QED BY <1>2, <2>4
      <3>4. \A i \in 1 .. Len(d) : Risk(d[i]) <= RiskIndex[risk]
        <4>1. Risk(Sentence) <= RiskIndex[risk]
          BY <1>3, <2>5
        <4> HIDE DEF d
        <4> QED BY <1>2, <2>4, <4>1
      <3> HIDE DEF d, r
      <3>5. /\ d # <<>> /\ r # <<>>
            /\ \E i \in 1 .. Len(d) : RiskOf(d[i].severity) = risk
            /\ \E i \in 1 .. Len(r) : RiskOf(r[i].severity) = risk
        BY <1>0, <1>1, <3>1, <3>2 DEF Graded
      <3> HIDE DEF risk
      <3>6. Highest(d) = risk
        BY <1>1, <2>5, <3>4, <3>5, HighestIs
      <3>7. Highest(r) = risk
        BY <1>1, <2>5, <3>3, <3>5, HighestIs
      <3> QED BY <3>6, <3>7
    <2>7. CASE o[1].status # "review"
      <3>1. o[1].severity = "info"
        BY <2>2, <2>7 DEF Observations
      <3>2. \A j \in 1 .. N : RiskOf(items[j].severity) = "low"
        <4> HIDE DEF o, N
        <4> QED BY <2>3, <3>1, RiskFollowsSeverity
      <3> HIDE DEF N, d, r
      <3> QED BY <1>4, <3>2
    <2> QED BY <2>6, <2>7
  <1> QED BY <1>5, <1>6

-----------------------------------------------------------------------------
(* The invariant: what each phase has, in terms of the reports, which hold  *)
(* every id once, as long as no two of them come from one tool.             *)

Merged == {"merged", "cased", "assessed", "rejected"}

Cased == {"cased", "assessed", "rejected"}

IInv ==
  /\ phase \in Phases
  /\ reports \in Seq(Seq(Observations)) /\ Len(reports) <= MaxReports
  /\ \A i \in 1 .. Len(reports) : Distinct(reports[i])
  /\ merged = IF phase \in Merged THEN FlattenSeq(reports) ELSE <<>>
  /\ case = IF phase \in Cased THEN Sources(merged) ELSE <<>>
  /\ assessment = IF phase = "assessed" THEN Triage(case) ELSE None

LEMMA AppendDistinct ==
  ASSUME NEW seqs \in Seq(Seq(Observations)), \A i \in 1 .. Len(seqs) : Distinct(seqs[i]),
         NEW s \in Seq(Observations), Distinct(s)
  PROVE  /\ Append(seqs, s) \in Seq(Seq(Observations))
         /\ Len(Append(seqs, s)) = Len(seqs) + 1
         /\ \A i \in 1 .. Len(Append(seqs, s)) : Distinct(Append(seqs, s)[i])
  <1> DEFINE N == Len(seqs)
             a == Append(seqs, s)
             S == Seq(Observations)
  <1>1. /\ N \in Nat /\ a \in Seq(S) /\ Len(a) = N + 1 /\ a[N + 1] = s
        /\ \A i \in 1 .. N : a[i] = seqs[i]
    <2>1. seqs \in Seq(S) /\ s \in S
      OBVIOUS
    <2> HIDE DEF S
    <2> QED BY <2>1, AppendProperties, LenProperties
  <1> HIDE DEF a, N, S
  <1>2. ASSUME NEW i \in 1 .. Len(a) PROVE Distinct(a[i])
    <2>1. CASE i \in 1 .. N
      <3>1. a[i] = seqs[i]
        BY <1>1, <2>1
      <3> QED BY <2>1, <3>1 DEF N
    <2>2. CASE i \notin 1 .. N
      BY <1>1, <2>2
    <2> QED BY <2>1, <2>2
  <1> QED BY <1>1, <1>2 DEF a, N, S

LEMMA ResultsAreDistinct ==
  ASSUME NEW runs \in Contents
  PROVE  ResultsOf(runs) \in Seq(Observations) /\ Distinct(ResultsOf(runs))
  <1> DEFINE rows == Results(runs)
  <1>1. /\ rows \in Seq(Seq(Observations)) /\ ResultsOf(runs) = FlattenSeq(rows)
        /\ Len(rows) = Len(runs)
    BY ResultsType, FileType
  <1>2. ASSUME NEW i \in 1 .. Len(rows), NEW j \in 1 .. Len(rows[i])
        PROVE  rows[i][j].id = <<runs[i].tool, i, j>>
    <2>1. i \in 1 .. Len(runs) /\ j \in 1 .. Len(runs[i].results)
      BY <1>1, ResultsType
    <2>2. rows[i][j] = Observation(runs, i, j)
      BY <2>1, ResultsType
    <2> HIDE DEF rows
    <2> QED BY <2>1, <2>2, ObservationType
  <1> HIDE DEF rows
  <1>3. AllDistinct(rows)
    BY <1>2 DEF AllDistinct
  <1> QED BY <1>1, <1>3, FlattenElements

LEMMA PolicyIsDistinct ==
  ASSUME NEW found \in SUBSET DOMAIN Controls
  PROVE  LET row == [control \in DOMAIN Controls |-> PolicyObservation(found, control)]
         IN  row \in Seq(Observations) /\ Distinct(row)
  <1> DEFINE row == [control \in DOMAIN Controls |-> PolicyObservation(found, control)]
  <1>1. Len(Controls) \in Nat /\ DOMAIN Controls = 1 .. Len(Controls)
    BY InputsAssumption, LenProperties
  <1>2. ASSUME NEW control \in DOMAIN Controls
        PROVE  /\ PolicyObservation(found, control) \in Observations
               /\ PolicyObservation(found, control).id = <<0, control, 0>>
    <2>1. <<0, control, 0>> \in Ids
      BY DEF Ids
    <2>2. Controls[control] \in Severities /\ ControlSize \in Nat \ {0}
      BY <1>1, InputsAssumption, ElementOfSeq
    <2> QED BY <2>1, <2>2 DEF PolicyObservation, Observations, Severities
  <1>3. row \in Seq(Observations) /\ Len(row) = Len(Controls)
    BY <1>1, <1>2
  <1>4. Distinct(row)
    <2> SUFFICES ASSUME NEW p \in DOMAIN Controls, NEW q \in DOMAIN Controls,
                        row[p].id = row[q].id
                 PROVE  p = q
      BY <1>1, <1>3 DEF Distinct
    <2>1. <<0, p, 0>> = <<0, q, 0>>
      BY <1>2
    <2> QED BY <2>1
  <1> QED BY <1>3, <1>4

LEMMA Initialised == Init => IInv
  <1> SUFFICES ASSUME Init PROVE IInv
    OBVIOUS
  <1>1. reports \in Seq(Seq(Observations)) /\ Len(reports) = 0
    BY EmptySeq DEF Init
  <1> QED BY <1>1, LimitsAssumption DEF Init, IInv, Phases, Merged, Cased

(* The size and the shape of a file are Refused's first two conditions, the *)
(* loops its third.                                                         *)
LEMMA RefusedIsExact ==
  ASSUME NEW file \in Files
  PROVE  /\ Refused(file) <=> ~ Importable(file)
         /\ ~ Refused(file) => Import(file.runs).observations = ResultsOf(file.runs)
         /\ ResultsOf(file.runs) \in Seq(Observations) /\ Distinct(ResultsOf(file.runs))
  <1>1. file.runs \in Contents
    BY DEF Contents
  <1>2. Agrees(Import(file.runs), ResultsOf(file.runs))
    BY <1>1, ImportAgrees
  <1>3. ResultsOf(file.runs) \in Seq(Observations) /\ Distinct(ResultsOf(file.runs))
    BY <1>1, ResultsAreDistinct
  <1>4. Len(ResultsOf(file.runs)) \in Nat /\ MaxResults \in Nat /\ MaxBytes \in Nat
    BY <1>3, LenProperties, LimitsAssumption
  <1>5. file.bytes \in Nat
    BY InputsAssumption
  <1> QED BY <1>2, <1>3, <1>4, <1>5 DEF Agrees, Refused, Importable

LEMMA ImportKeeps ==
  ASSUME IInv, NEW file \in Files, ImportSarif(file)
  PROVE  IInv' /\ Importable(file) /\ reports' = Append(reports, ResultsOf(file.runs))
  <1> DEFINE seq == ResultsOf(file.runs)
  <1>1. /\ phase = "scanning" /\ Len(reports) < MaxReports
        /\ ~ Refused(file) /\ reports' = Append(reports, Import(file.runs).observations)
        /\ phase' = phase /\ merged' = merged /\ case' = case /\ assessment' = assessment
    BY DEF ImportSarif, Arrives
  <1>2. Importable(file) /\ seq \in Seq(Observations) /\ Distinct(seq)
    BY <1>1, RefusedIsExact
  <1>3. reports' = Append(reports, seq)
    BY <1>1, RefusedIsExact
  <1>4. MaxReports \in Nat
    BY LimitsAssumption
  <1>5. /\ reports \in Seq(Seq(Observations)) /\ Len(reports) \in Nat
        /\ \A i \in 1 .. Len(reports) : Distinct(reports[i])
    BY LenProperties DEF IInv
  <1> HIDE DEF seq
  <1>6. /\ reports' \in Seq(Seq(Observations)) /\ Len(reports') = Len(reports) + 1
        /\ \A i \in 1 .. Len(reports') : Distinct(reports'[i])
    BY <1>2, <1>3, <1>5, AppendDistinct
  <1>7. Len(reports') <= MaxReports
    BY <1>1, <1>4, <1>5, <1>6
  <1>8. IInv'
    BY <1>1, <1>6, <1>7 DEF IInv, Merged, Cased, Phases
  <1> QED BY <1>2, <1>3, <1>8 DEF seq

LEMMA PolicyKeeps ==
  ASSUME IInv, NEW found \in SUBSET DOMAIN Controls, ScanPolicy(found)
  PROVE  IInv'
  <1> DEFINE row == [control \in DOMAIN Controls |-> PolicyObservation(found, control)]
  <1>1. /\ phase = "scanning" /\ MaxReports > 0 /\ reports' = <<row>>
        /\ phase' = phase /\ merged' = merged /\ case' = case /\ assessment' = assessment
    BY DEF ScanPolicy
  <1>2. row \in Seq(Observations) /\ Distinct(row)
    BY PolicyIsDistinct
  <1> HIDE DEF row
  <1>3. reports' \in Seq(Seq(Observations)) /\ Len(reports') = 1
    <2> DEFINE S == Seq(Observations)
    <2>1. row \in S
      BY <1>2
    <2> HIDE DEF S
    <2>2. <<row>> \in Seq(S) /\ Len(<<row>>) = 1
      BY <2>1
    <2> QED BY <1>1, <2>2 DEF S
  <1>4. \A i \in 1 .. Len(reports') : Distinct(reports'[i])
    <2>1. reports'[1] = row /\ \A i \in 1 .. Len(reports') : i = 1
      BY <1>1, <1>3
    <2> QED BY <1>2, <2>1
  <1>5. Len(reports') <= MaxReports
    BY <1>1, <1>3, LimitsAssumption
  <1> QED BY <1>1, <1>3, <1>4, <1>5 DEF IInv, Merged, Cased, Phases

LEMMA Preserved == IInv /\ [Next]_vars => IInv'
  <1> SUFFICES ASSUME IInv, [Next]_vars PROVE IInv'
    OBVIOUS
  <1>1. ASSUME NEW file \in Files, ImportSarif(file) PROVE IInv'
    BY <1>1, ImportKeeps
  <1>2. ASSUME NEW file \in Files, RefuseSarif(file) PROVE IInv'
    BY <1>2 DEF RefuseSarif, Arrives, IInv, Phases, Merged, Cased
  <1>3. ASSUME NEW found \in SUBSET DOMAIN Controls, ScanPolicy(found) PROVE IInv'
    BY <1>3, PolicyKeeps
  <1>4. CASE MergeReports
    BY <1>4 DEF MergeReports, IInv, Phases, Merged, Cased
  <1>5. CASE BuildCase
    BY <1>5 DEF BuildCase, IInv, Phases, Merged, Cased
  <1>6. CASE Analyze
    BY <1>6 DEF Analyze, IInv, Phases, Merged, Cased
  <1>7. CASE RejectInput
    BY <1>7 DEF RejectInput, IInv, Phases, Merged, Cased
  <1>8. CASE UNCHANGED vars
    BY <1>8 DEF vars, IInv
  <1>9. CASE Done
    BY <1>9 DEF Done, vars, IInv
  <1> QED BY <1>1, <1>2, <1>3, <1>4, <1>5, <1>6, <1>7, <1>8, <1>9 DEF Next

LEMMA Invariance == Spec => []IInv
  <1> QED BY Initialised, Preserved, PTL DEF Spec

(* Once merged: the observations, every one with an id of its own unless    *)
(* two reports carry one tool.                                              *)
LEMMA MergedType ==
  ASSUME IInv
  PROVE  merged \in Seq(Observations) /\ (ToolsApart => Distinct(merged))
  <1>1. CASE phase \in Merged
    <2>1. reports \in Seq(Seq(Observations)) /\ merged = FlattenSeq(reports)
      BY <1>1 DEF IInv
    <2>2. ASSUME ToolsApart PROVE AllDistinct(reports)
      <3> SUFFICES ASSUME NEW i \in 1 .. Len(reports), NEW k \in 1 .. Len(reports),
                          NEW j \in 1 .. Len(reports[i]), NEW l \in 1 .. Len(reports[k]),
                          reports[i][j].id = reports[k][l].id
                   PROVE  i = k /\ j = l
        BY DEF AllDistinct
      <3>1. /\ i \in DOMAIN reports /\ k \in DOMAIN reports
            /\ j \in DOMAIN reports[i] /\ l \in DOMAIN reports[k]
        BY <2>1, ElementOfSeq, LenProperties
      <3>2. i = k
        BY <2>2, <3>1 DEF ToolsApart
      <3>3. Distinct(reports[i])
        BY DEF IInv
      <3> QED BY <3>2, <3>3 DEF Distinct
    <2> QED BY <2>1, <2>2, FlattenElements
  <1>2. CASE phase \notin Merged
    <2>1. merged = <<>>
      BY <1>2 DEF IInv
    <2> QED BY <2>1, EmptySeq DEF Distinct
  <1> QED BY <1>1, <1>2

(* In every run of a pilot the phases follow each other, and the case and   *)
(* the assessment exist from their phase on (report_to_case, analyze).      *)
THEOREM TypeCorrect == Spec => []TypeOK
  <1>1. IInv => TypeOK
    <2> SUFFICES ASSUME IInv PROVE TypeOK
      OBVIOUS
    <2>1. \A i \in DOMAIN merged : merged[i].severity \in Severities
      BY MergedType, LenProperties, ElementOfSeq DEF Observations
    <2>2. phase \in {"cased", "assessed", "rejected"} => case # <<>>
      BY MergedType, SourcesDef DEF IInv, Cased
    <2>3. phase = "assessed" <=> assessment.risk \in DOMAIN RiskIndex
      <3>1. CASE phase = "assessed"
        <4> DEFINE d == Candidates(Sources(merged))
        <4>1. Sources(merged) \in Seq(CaseSources)
          BY MergedType, SourcesAreObservations
        <4>2. d \in Seq(CaseSources)
          BY <4>1, CandidatesDef
        <4>3. Graded(d)
          <5> HIDE DEF d
          <5> QED BY <4>2, SourcesAreGraded
        <4>4. assessment.risk = Highest(d)
          BY <3>1 DEF IInv, Triage, Cased
        <4> HIDE DEF d
        <4> QED BY <3>1, <4>3, <4>4, HighestType
      <3>2. CASE phase # "assessed"
        BY <3>2 DEF IInv, None, RiskIndex
      <3> QED BY <3>1, <3>2
    <2> QED BY <2>1, <2>2, <2>3 DEF IInv, TypeOK
  <1> QED BY <1>1, Invariance, PTL

(* import_sarif refuses a file exactly when it is too large, is not of      *)
(* SARIF's shape or has too many results, and otherwise reports each result *)
(* once, in order, whatever the runs and the limits are.                    *)
THEOREM ImportExact == Spec => ImportIsExact
  <1>1. ASSUME IInv, NEW file \in Files
        PROVE  /\ ImportSarif(file) =>
                    Importable(file) /\ reports' = Append(reports, ResultsOf(file.runs))
               /\ RefuseSarif(file) => ~ Importable(file)
    <2>1. ImportSarif(file) =>
            Importable(file) /\ reports' = Append(reports, ResultsOf(file.runs))
      BY <1>1, ImportKeeps
    <2>2. RefuseSarif(file) => ~ Importable(file)
      BY RefusedIsExact DEF RefuseSarif
    <2> QED BY <2>1, <2>2
  <1>2. IInv =>
          [\A file \in Files :
             /\ ImportSarif(file) =>
                  Importable(file) /\ reports' = Append(reports, ResultsOf(file.runs))
             /\ RefuseSarif(file) => ~ Importable(file)]_vars
    BY <1>1
  <1> QED BY <1>2, Invariance, PTL DEF ImportIsExact

(* Every case report_to_case builds passes validate_case unless two reports *)
(* carry one tool: the limits of the assurance layer are within those of    *)
(* the validators for every value of them, and the ids are unique over      *)
(* reports, runs and the added sentence.                                    *)
THEOREM CasesValid == Spec => []CasesAreValid
  <1>1. IInv => CasesAreValid
    BY MergedType, SourcesAreValid DEF IInv, CasesAreValid, Cased
  <1> QED BY <1>1, Invariance, PTL

(* The selection loop of report_to_case lets in the longest prefix of the   *)
(* observations by severity that keeps both limits.                         *)
THEOREM SelectionLongest == Spec => []SelectionIsLongestPrefix
  <1>1. IInv => SelectionIsLongestPrefix
    <2> SUFFICES ASSUME IInv, phase = "merged" PROVE SelectionIsLongestPrefix
      BY DEF SelectionIsLongestPrefix
    <2> DEFINE ordered == Ordered(merged)
               N == Len(merged)
               fitting == {m \in 0 .. N : m <= MaxObservations /\ Totals(ordered)[m] <= MaxChars}
               n == Len(Selected(merged))
    <2>1. merged \in Seq(Observations) /\ N \in Nat
      BY MergedType, LenProperties
    <2>2. /\ n \in 0 .. N /\ n \in fitting
          /\ \A i \in 1 .. n : Selected(merged)[i] = ordered[i]
      BY <2>1, SelectedIsPrefix
    <2>3. \A k \in fitting : k <= n
      BY <2>1, SelectionIsLongest
    <2>4. ASSUME NEW i \in 1 .. n, NEW j \in n + 1 .. N
          PROVE  SeverityOrder[ordered[i].severity] <= SeverityOrder[ordered[j].severity]
      <3>1. i \in 1 .. N /\ j \in 1 .. N /\ i <= j
        <4> HIDE DEF n, N
        <4> QED BY <2>1, <2>2
      <3> QED BY <2>1, <3>1, OrderedFacts
    <2> HIDE DEF n, ordered, N
    <2>5. /\ \A k \in fitting : k <= n
          /\ \A i \in 1 .. n, j \in n + 1 .. N :
               /\ Selected(merged)[i] = ordered[i]
               /\ SeverityOrder[ordered[i].severity] <= SeverityOrder[ordered[j].severity]
      BY <2>2, <2>3, <2>4
    <2> HIDE DEF fitting
    <2> QED BY <2>2, <2>5 DEF SelectionIsLongestPrefix, n, ordered, N, fitting
  <1> QED BY <1>1, Invariance, PTL

(* ScannerTriageProvider reports the highest risk among all observations    *)
(* that ask for review, selected or omitted, unless the first of them in    *)
(* the order of severity is too large to be selected.                       *)
THEOREM RiskKept == Spec => []RiskIsNotLost
  <1>1. IInv => RiskIsNotLost
    BY MergedType, RiskIsKept DEF IInv, RiskIsNotLost, Triage, Merged, Cased
  <1> QED BY <1>1, Invariance, PTL

(* Every triage passes validate_assessment, and cites only what asks for    *)
(* review while anything in the whole report does.                          *)
THEOREM TriageGrounded == Spec => []TriageIsGrounded
  <1>1. IInv => TriageIsGrounded
    <2> SUFFICES ASSUME IInv, phase = "assessed" PROVE TriageIsGrounded
      BY DEF TriageIsGrounded
    <2> DEFINE c == Sources(merged)
    <2>1. /\ merged \in Seq(Observations) /\ case = c /\ assessment = Triage(c)
          /\ c \in Seq(CaseSources) /\ c # <<>>
      BY MergedType, SourcesAreObservations, SourcesDef DEF IInv, Cased
    <2> HIDE DEF c
    <2>2. /\ ValidAssessment(case, assessment)
          /\ \A i \in DOMAIN assessment.citations :
               /\ i \in 1 .. Len(Candidates(c))
               /\ assessment.citations[i] = Candidates(c)[i]
      BY <2>1, TriageIsValid
    <2>3. ASSUME Reviews(merged) # <<>>
          PROVE  \E j \in 1 .. Len(c) : c[j].status = "review"
      <3>1. PICK m \in 1 .. Len(merged) : merged[m].status = "review"
        <4>1. Reviews(merged) \in Seq(Observations)
          BY <2>1, ReviewsKeeps
        <4> DEFINE r == Reviews(merged)
        <4>2. 1 \in 1 .. Len(r)
          <5>1. r \in Seq(Observations) /\ r # <<>>
            BY <2>3, <4>1
          <5> HIDE DEF r
          <5> QED BY <5>1, LenProperties, EmptySeq
        <4> QED BY <2>1, <4>2, ReviewsKeeps
      <3>2. CASE c = Selected(merged) /\ Len(Selected(merged)) = Len(merged)
        <4>1. PICK k \in 1 .. Len(merged) : Ordered(merged)[k] = merged[m]
          BY <2>1, OrderedFacts
        <4>2. k \in 1 .. Len(c) /\ c[k] = Ordered(merged)[k]
          BY <2>1, <3>2, SelectedIsPrefix
        <4> QED BY <3>1, <4>1, <4>2
      <3>3. CASE Len(c) = Len(Selected(merged)) + 1 /\ c[Len(c)] = Sentence
        <4>1. Len(Selected(merged)) \in Nat
          BY <2>1, SelectedIsPrefix, LenProperties
        <4>2. Len(c) \in 1 .. Len(c)
          BY <3>3, <4>1
        <4> QED BY <3>3, <4>2, SentenceIsNew
      <3> QED BY <2>1, <3>2, <3>3, SourcesDef DEF c
    <2>4. ASSUME Reviews(merged) # <<>>
          PROVE  \A i \in DOMAIN assessment.citations : assessment.citations[i].status = "review"
      BY <2>1, <2>2, <2>3, <2>4, CandidatesDef
    <2>5. ASSUME Reviews(merged) # <<>>
          PROVE  assessment.label = "human-review-required"
      <3>1. \E i \in 1 .. Len(Reviews(c)) : TRUE
        BY <2>1, <2>3, <2>5, ReviewsKeeps
      <3>2. Reviews(c) # <<>>
        BY <3>1, EmptySeq
      <3> QED BY <2>1, <3>2 DEF Triage
    <2> QED BY <2>2, <2>4, <2>5 DEF TriageIsGrounded
  <1> QED BY <1>1, Invariance, PTL

=============================================================================
