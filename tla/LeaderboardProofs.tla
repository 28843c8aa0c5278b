------------------------- MODULE LeaderboardProofs -------------------------
(***************************************************************************)
(* Proofs about Leaderboard, for any number of users, results and requests *)
(* and any MaxEntries.                                                     *)
(***************************************************************************)
EXTENDS Leaderboard, FiniteSetTheorems, FunctionTheorems, SequenceTheorems, TLAPS

(* The order of the results, and the ranks it gives. *)

\* A result is a pair of naturals.
LEMMA ResultIsPair ==
  ASSUME NEW a \in Results
  PROVE  a[1] \in Nat /\ a[2] \in Nat
BY ResultsAssumption

\* isBetterThan is a strict order in which any two results can be compared.
LEMMA ResultsOrdered ==
  ASSUME NEW a \in Results, NEW b \in Results, NEW c \in Results
  PROVE  /\ NotWorse(a, a)
         /\ IsBetterThan(a, b) => NotWorse(a, b)
         /\ NotWorse(a, b) /\ NotWorse(b, c) => NotWorse(a, c)
         /\ NotWorse(a, b) /\ IsBetterThan(b, c) => IsBetterThan(a, c)
BY ResultIsPair DEF IsBetterThan, NotWorse

\* The sort of rankEntries is a total order on the positions of a list.
LEMMA BeforeIsOrder ==
  ASSUME NEW D \in SUBSET Nat, NEW f \in [D -> Entry], NEW i \in D, NEW j \in D, NEW k \in D
  PROVE  /\ ~Before(f, i, i)
         /\ i # j => Before(f, i, j) \/ Before(f, j, i)
         /\ Before(f, i, j) => ~Before(f, j, i)
         /\ Before(f, i, j) /\ Before(f, j, k) => Before(f, i, k)
         /\ Before(f, i, j) => NotWorse(f[i].result, f[j].result)
<1>1. f[i].result \in Results /\ f[j].result \in Results /\ f[k].result \in Results
  BY DEF Entry
<1>2. i \in Nat /\ j \in Nat /\ k \in Nat
  OBVIOUS
<1>3. /\ f[i].result[1] \in Nat /\ f[i].result[2] \in Nat
      /\ f[j].result[1] \in Nat /\ f[j].result[2] \in Nat
      /\ f[k].result[1] \in Nat /\ f[k].result[2] \in Nat
  BY <1>1, ResultIsPair
<1> QED BY <1>2, <1>3 DEF Before, IsBetterThan, NotWorse

\* What stands earlier is not worse.
LEMMA BeforeNotWorse ==
  ASSUME NEW D \in SUBSET Nat, NEW f \in [D -> Entry], NEW i \in D, NEW j \in D, Before(f, i, j)
  PROVE  i # j /\ NotWorse(f[i].result, f[j].result)
BY BeforeIsOrder

\* A rank is one of the places of the list, and an earlier entry has a smaller one.
LEMMA RankGrows ==
  ASSUME NEW D \in SUBSET Nat, IsFiniteSet(D), NEW f \in [D -> Entry], NEW i \in D, NEW j \in D
  PROVE  /\ RankOf(f, i) \in 1 .. Cardinality(D)
         /\ Before(f, i, j) => RankOf(f, i) < RankOf(f, j)
<1> DEFINE Ahead(k) == {x \in D : Before(f, x, k)}
<1>1. ASSUME NEW k \in D
      PROVE  /\ IsFiniteSet(Ahead(k)) /\ Cardinality(Ahead(k)) \in Nat
             /\ RankOf(f, k) = 1 + Cardinality(Ahead(k))
  <2>1. IsFiniteSet(Ahead(k))
    BY FS_Subset
  <2>2. Cardinality(Ahead(k)) \in Nat
    BY <2>1, FS_CardinalityType
  <2>3. DOMAIN f = D
    OBVIOUS
  <2> QED BY <2>1, <2>2, <2>3 DEF RankOf
<1>2. Cardinality(Ahead(i)) < Cardinality(D)
  <2>1. Ahead(i) \in SUBSET D /\ i \notin Ahead(i)
    BY BeforeIsOrder
  <2>2. Ahead(i) # D
    BY <2>1
  <2>3. Cardinality(Ahead(i)) <= Cardinality(D) /\ Cardinality(Ahead(i)) # Cardinality(D)
    BY <2>1, <2>2, FS_Subset
  <2> QED BY <1>1, <2>3, FS_CardinalityType
<1>3. ASSUME Before(f, i, j)
      PROVE  Cardinality(Ahead(i)) < Cardinality(Ahead(j))
  <2>1. \A x \in Ahead(i) : x \in Ahead(j)
    BY <1>3, BeforeIsOrder
  <2>2. i \in Ahead(j) /\ i \notin Ahead(i)
    BY <1>3, BeforeIsOrder
  <2>3. Ahead(i) \in SUBSET Ahead(j) /\ Ahead(i) # Ahead(j)
    BY <2>1, <2>2
  <2>4. Cardinality(Ahead(i)) <= Cardinality(Ahead(j)) /\ Cardinality(Ahead(i)) # Cardinality(Ahead(j))
    BY <1>1, <2>3, FS_Subset
  <2> HIDE DEF Ahead
  <2> QED BY <1>1, <2>4
<1>4. Cardinality(D) \in Nat
  BY FS_CardinalityType
<1> HIDE DEF Ahead
<1> QED BY <1>1, <1>2, <1>3, <1>4

\* Every place of the list has exactly one entry of that rank.
LEMMA RanksAreAll ==
  ASSUME NEW D \in SUBSET Nat, IsFiniteSet(D), NEW f \in [D -> Entry]
  PROVE  /\ \A i, j \in D : RankOf(f, i) = RankOf(f, j) => i = j
         /\ \A k \in 1 .. Cardinality(D) : \E i \in D : RankOf(f, i) = k
<1> DEFINE n == Cardinality(D)
           rank == [i \in D |-> RankOf(f, i)]
<1>1. n \in Nat
  BY FS_CardinalityType
<1>2. \A i, j \in D : RankOf(f, i) = RankOf(f, j) => i = j
  <2> SUFFICES ASSUME NEW i \in D, NEW j \in D, RankOf(f, i) = RankOf(f, j), i # j
               PROVE  FALSE
    OBVIOUS
  <2>1. Before(f, i, j) \/ Before(f, j, i)
    BY BeforeIsOrder
  <2>2. RankOf(f, i) < RankOf(f, j) \/ RankOf(f, j) < RankOf(f, i)
    BY <2>1, RankGrows
  <2>3. RankOf(f, i) \in 1 .. n /\ RankOf(f, j) \in 1 .. n
    BY RankGrows
  <2> QED BY <1>1, <2>2, <2>3
<1>3. rank \in [D -> 1 .. n]
  BY RankGrows
<1>4. rank \in Injection(D, 1 .. n)
  <2>1. \A a, b \in D : rank[a] = rank[b] => a = b
    BY <1>2
  <2> HIDE DEF rank, n
  <2> QED BY <1>3, <2>1, Fun_IsInj
<1>5. IsFiniteSet(1 .. n) /\ Cardinality(1 .. n) = n
  BY <1>1, FS_Interval
<1>6. rank \in Surjection(D, 1 .. n)
  <2> HIDE DEF rank
  <2> QED BY <1>4, <1>5, FS_Injection
<1>7. \A k \in 1 .. n : \E i \in D : rank[i] = k
  <2> HIDE DEF rank, n
  <2> QED BY <1>6, Fun_SurjectionProperties
<1> QED BY <1>2, <1>7

\* rankEntries returns the same entries, best first: the places of the result
\* are the positions of the list, in the order of the sort.
LEMMA RankEntriesSorts ==
  ASSUME NEW D \in SUBSET Nat, IsFiniteSet(D), NEW f \in [D -> Entry]
  PROVE  /\ RankEntries(f) \in Seq(Entry) /\ Len(RankEntries(f)) = Cardinality(D)
         /\ \E pi \in [1 .. Cardinality(D) -> D] :
              /\ \A k \in 1 .. Cardinality(D) : RankEntries(f)[k] = f[pi[k]]
              /\ \A k \in 1 .. Cardinality(D) : RankOf(f, pi[k]) = k
              /\ \A i \in D : pi[RankOf(f, i)] = i
              /\ \A k, l \in 1 .. Cardinality(D) : k < l => Before(f, pi[k], pi[l])
<1> DEFINE n == Cardinality(D)
           pi == [k \in 1 .. n |-> CHOOSE i \in D : RankOf(f, i) = k]
<1>1. n \in Nat /\ DOMAIN f = D
  BY FS_CardinalityType
<1>2. \A k \in 1 .. n : pi[k] \in D /\ RankOf(f, pi[k]) = k
  BY RanksAreAll
<1>3. RankEntries(f) = [k \in 1 .. n |-> f[pi[k]]]
  BY <1>1 DEF RankEntries
<1>4. pi \in [1 .. n -> D]
  BY <1>2
<1> HIDE DEF pi
<1>5. \A i \in D : pi[RankOf(f, i)] = i
  <2> TAKE i \in D
  <2>1. RankOf(f, i) \in 1 .. n
    BY RankGrows
  <2>2. pi[RankOf(f, i)] \in D /\ RankOf(f, pi[RankOf(f, i)]) = RankOf(f, i)
    BY <1>2, <2>1
  <2>3. \A a, b \in D : RankOf(f, a) = RankOf(f, b) => a = b
    BY RanksAreAll
  <2> QED BY <2>2, <2>3
<1>6. ASSUME NEW k \in 1 .. n, NEW l \in 1 .. n, k < l
      PROVE  Before(f, pi[k], pi[l])
  <2>1. pi[k] \in D /\ pi[l] \in D /\ RankOf(f, pi[k]) = k /\ RankOf(f, pi[l]) = l
    BY <1>2
  <2>2. ~(l < k) /\ pi[k] # pi[l]
    BY <1>1, <1>6, <2>1
  <2>3. ~Before(f, pi[l], pi[k])
    BY <2>1, <2>2, RankGrows
  <2> QED BY <2>1, <2>2, <2>3, BeforeIsOrder
<1>7. \A k \in 1 .. n : f[pi[k]] \in Entry
  BY <1>2
<1>8. RankEntries(f) \in Seq(Entry) /\ Len(RankEntries(f)) = n
  <2> HIDE DEF n
  <2> QED BY <1>1, <1>3, <1>7
<1>9. \A k \in 1 .. n : RankEntries(f)[k] = f[pi[k]]
  BY <1>3
<1> HIDE DEF n
<1>10. /\ \A k \in 1 .. n : RankEntries(f)[k] = f[pi[k]]
       /\ \A k \in 1 .. n : RankOf(f, pi[k]) = k
       /\ \A i \in D : pi[RankOf(f, i)] = i
       /\ \A k, l \in 1 .. n : k < l => Before(f, pi[k], pi[l])
  BY <1>2, <1>5, <1>6, <1>9
<1> QED BY <1>4, <1>8, <1>10 DEF n

-----------------------------------------------------------------------------
(* The aggregate: what submitEntry makes of a ranked list.                  *)

\* slice keeps the first entries, at most MaxEntries of them.
LEMMA TruncateKeepsFirst ==
  ASSUME NEW list \in Seq(Entry)
  PROVE  /\ Truncate(list) \in Seq(Entry)
         /\ Len(Truncate(list)) = IF Len(list) < MaxEntries THEN Len(list) ELSE MaxEntries
         /\ Len(Truncate(list)) <= Len(list)
         /\ \A k \in 1 .. Len(Truncate(list)) : Truncate(list)[k] = list[k]
<1> DEFINE m == IF Len(list) < MaxEntries THEN Len(list) ELSE MaxEntries
<1>1. m \in 0 .. Len(list) /\ m \in Nat
  BY MaxEntriesAssumption
<1>2. Truncate(list) = SubSeq(list, 1, m)
  BY DEF Truncate
<1> HIDE DEF m
<1>3. SubSeq(list, 1, m) = [k \in 1 .. m |-> list[k]]
  BY <1>1
<1>4. \A k \in 1 .. m : list[k] \in Entry
  BY <1>1
<1>5. SubSeq(list, 1, m) \in Seq(Entry) /\ Len(SubSeq(list, 1, m)) = m
  BY <1>1, <1>3, <1>4
<1>6. \A k \in 1 .. m : SubSeq(list, 1, m)[k] = list[k]
  BY <1>3
<1> QED BY <1>1, <1>2, <1>5, <1>6 DEF m

\* Before it is sorted the list holds the entries of the others and the new one.
LEMMA PushedPositions ==
  ASSUME NEW list \in Seq(Entry), Ranked(list), NEW entry \in Entry
  PROVE  /\ DOMAIN Pushed(list, entry) \in SUBSET Nat /\ IsFiniteSet(DOMAIN Pushed(list, entry))
         /\ DOMAIN Pushed(list, entry) =
              {j \in DOMAIN list : list[j].user # entry.user} \cup {Len(list) + 1}
         /\ Pushed(list, entry) \in [DOMAIN Pushed(list, entry) -> Entry]
         /\ Pushed(list, entry)[Len(list) + 1] = entry
         /\ \A j \in DOMAIN list : list[j].user # entry.user => Pushed(list, entry)[j] = list[j]
         /\ Cardinality(DOMAIN Pushed(list, entry)) =
              IF \E j \in DOMAIN list : list[j].user = entry.user THEN Len(list) ELSE Len(list) + 1
<1> DEFINE others == {j \in DOMAIN list : list[j].user # entry.user}
           D == others \cup {Len(list) + 1}
<1>1. DOMAIN list = 1 .. Len(list) /\ Len(list) \in Nat
  OBVIOUS
<1>2. DOMAIN Pushed(list, entry) = D
  BY DEF Pushed
<1>3. IsFiniteSet(DOMAIN list) /\ Cardinality(DOMAIN list) = Len(list)
  BY <1>1, FS_Interval
<1>4. IsFiniteSet(others) /\ Len(list) + 1 \notin others
  BY <1>1, <1>3, FS_Subset
<1>5. IsFiniteSet(D) /\ Cardinality(D) = Cardinality(others) + 1
  BY <1>4, FS_AddElement
<1>6. D \in SUBSET Nat
  BY <1>1
<1>7. \A j \in D : Pushed(list, entry)[j] = IF j \in DOMAIN list THEN list[j] ELSE entry
  BY <1>1 DEF Pushed
<1>8. \A j \in D : Pushed(list, entry)[j] \in Entry
  BY <1>7
<1>9. Pushed(list, entry) \in [D -> Entry]
  BY <1>8 DEF Pushed
<1>10. Cardinality(D) = IF \E j \in DOMAIN list : list[j].user = entry.user
                         THEN Len(list) ELSE Len(list) + 1
  <2>1. CASE \E j \in DOMAIN list : list[j].user = entry.user
    <3>1. PICK j \in DOMAIN list : list[j].user = entry.user
      BY <2>1
    <3>2. \A i \in DOMAIN list : list[i].user = entry.user => i = j
      BY <1>1, <3>1 DEF Ranked
    <3>3. others = DOMAIN list \ {j}
      BY <3>1, <3>2
    <3>4. Cardinality(others) = Len(list) - 1
      BY <1>3, <3>1, <3>3, FS_RemoveElement
    <3> HIDE DEF others, D
    <3>5. Cardinality(D) = Len(list)
      BY <1>1, <1>5, <3>4
    <3> QED BY <2>1, <3>5
  <2>2. CASE ~\E j \in DOMAIN list : list[j].user = entry.user
    <3>1. others = DOMAIN list
      BY <2>2
    <3> HIDE DEF others, D
    <3>2. Cardinality(D) = Len(list) + 1
      BY <1>1, <1>3, <1>5, <3>1
    <3> QED BY <2>2, <3>2
  <2> QED BY <2>1, <2>2
<1>11. Pushed(list, entry)[Len(list) + 1] = entry
  BY <1>1, <1>7
<1>12. \A j \in DOMAIN list : list[j].user # entry.user => Pushed(list, entry)[j] = list[j]
  BY <1>7
<1> HIDE DEF D
<1> QED BY <1>2, <1>5, <1>6, <1>9, <1>10, <1>11, <1>12 DEF D

\* What a submission that is no no-op makes of a ranked list: the first entries,
\* at most MaxEntries, of all of them in the order of the sort.
LEMMA SubmittedList ==
  ASSUME NEW list \in Seq(Entry), Ranked(list), NEW entry \in Entry, ~IsNoOp(list, entry)
  PROVE  LET f == Pushed(list, entry)
             n == Cardinality(DOMAIN f)
             new == SubmitEntry(list, entry)
         IN  /\ n \in Nat
             /\ new \in Seq(Entry)
             /\ Len(new) = IF n < MaxEntries THEN n ELSE MaxEntries
             /\ \E pi \in [1 .. n -> DOMAIN f] :
                  /\ \A k \in 1 .. Len(new) : k \in 1 .. n /\ new[k] = f[pi[k]]
                  /\ \A k \in 1 .. n : RankOf(f, pi[k]) = k
                  /\ \A i \in DOMAIN f : RankOf(f, i) \in 1 .. n /\ pi[RankOf(f, i)] = i
                  /\ \A k, l \in 1 .. n : k < l => Before(f, pi[k], pi[l])
<1> DEFINE f == Pushed(list, entry)
           D == DOMAIN f
           n == Cardinality(D)
           new == SubmitEntry(list, entry)
<1>1. D \in SUBSET Nat /\ IsFiniteSet(D) /\ f \in [D -> Entry]
  BY PushedPositions
<1>2. new = Truncate(RankEntries(f))
  BY DEF SubmitEntry
<1> HIDE DEF f, new
<1>3. n \in Nat
  BY <1>1, FS_CardinalityType
<1>4. /\ RankEntries(f) \in Seq(Entry) /\ Len(RankEntries(f)) = n
      /\ \E pi \in [1 .. n -> D] :
           /\ \A k \in 1 .. n : RankEntries(f)[k] = f[pi[k]]
           /\ \A k \in 1 .. n : RankOf(f, pi[k]) = k
           /\ \A i \in D : pi[RankOf(f, i)] = i
           /\ \A k, l \in 1 .. n : k < l => Before(f, pi[k], pi[l])
  BY <1>1, RankEntriesSorts
<1>5. /\ new \in Seq(Entry) /\ Len(new) \in Nat /\ Len(new) <= n
      /\ Len(new) = IF n < MaxEntries THEN n ELSE MaxEntries
      /\ \A k \in 1 .. Len(new) : new[k] = RankEntries(f)[k]
  <2> DEFINE sorted == RankEntries(f)
  <2> HIDE DEF sorted
  <2>1. sorted \in Seq(Entry) /\ Len(sorted) = n /\ new = Truncate(sorted)
    BY <1>2, <1>4 DEF sorted
  <2>2. /\ Truncate(sorted) \in Seq(Entry) /\ Len(Truncate(sorted)) <= Len(sorted)
        /\ Len(Truncate(sorted)) = IF Len(sorted) < MaxEntries THEN Len(sorted) ELSE MaxEntries
        /\ \A k \in 1 .. Len(Truncate(sorted)) : Truncate(sorted)[k] = sorted[k]
    BY <2>1, TruncateKeepsFirst
  <2>3. Len(new) \in Nat
    BY <2>1, <2>2
  <2> QED BY <2>1, <2>2, <2>3 DEF sorted
<1>6. \A i \in D : RankOf(f, i) \in 1 .. n
  BY <1>1, RankGrows
<1>7. PICK pi \in [1 .. n -> D] :
        /\ \A k \in 1 .. n : RankEntries(f)[k] = f[pi[k]]
        /\ \A k \in 1 .. n : RankOf(f, pi[k]) = k
        /\ \A i \in D : pi[RankOf(f, i)] = i
        /\ \A k, l \in 1 .. n : k < l => Before(f, pi[k], pi[l])
  BY <1>4
<1>8. \A k \in 1 .. Len(new) : k \in 1 .. n /\ new[k] = f[pi[k]]
  BY <1>3, <1>5, <1>7
<1> QED BY <1>3, <1>5, <1>6, <1>7, <1>8 DEF f, new

\* The list stays ranked, and nothing is on it that was not, except the new entry.
LEMMA SubmitRanked ==
  ASSUME NEW list \in Seq(Entry), Ranked(list), NEW entry \in Entry
  PROVE  /\ SubmitEntry(list, entry) \in Seq(Entry)
         /\ Ranked(SubmitEntry(list, entry))
         /\ \A k \in DOMAIN SubmitEntry(list, entry) :
              \/ SubmitEntry(list, entry)[k] = entry
              \/ \E i \in DOMAIN list : SubmitEntry(list, entry)[k] = list[i]
<1>1. CASE IsNoOp(list, entry)
  BY <1>1 DEF SubmitEntry
<1>2. CASE ~IsNoOp(list, entry)
  <2> DEFINE f == Pushed(list, entry)
             D == DOMAIN f
             n == Cardinality(D)
             new == SubmitEntry(list, entry)
  <2>1. /\ n \in Nat /\ new \in Seq(Entry)
        /\ Len(new) = IF n < MaxEntries THEN n ELSE MaxEntries
    BY <1>2, SubmittedList
  <2>2. PICK pi \in [1 .. n -> D] :
          /\ \A k \in 1 .. Len(new) : k \in 1 .. n /\ new[k] = f[pi[k]]
          /\ \A k, l \in 1 .. n : k < l => Before(f, pi[k], pi[l])
    BY <1>2, SubmittedList
  <2>a. D \in SUBSET Nat /\ f \in [D -> Entry]
    BY PushedPositions
  <2>3. /\ D = {j \in DOMAIN list : list[j].user # entry.user} \cup {Len(list) + 1}
        /\ f[Len(list) + 1] = entry
        /\ \A j \in DOMAIN list : list[j].user # entry.user => f[j] = list[j]
    BY PushedPositions
  <2> HIDE DEF n, f, D, new
  <2>4. Len(new) <= MaxEntries /\ DOMAIN new = 1 .. Len(new)
    BY <2>1, MaxEntriesAssumption
  <2>5. ASSUME NEW i \in D, NEW j \in D, i # j
        PROVE  f[i].user # f[j].user
    <3>1. DOMAIN list = 1 .. Len(list) /\ Len(list) \in Nat
      OBVIOUS
    <3>2. CASE i \in DOMAIN list /\ j \in DOMAIN list
      <4>1. f[i] = list[i] /\ f[j] = list[j]
        BY <2>3, <3>1, <3>2
      <4> QED BY <2>5, <3>1, <3>2, <4>1 DEF Ranked
    <3>3. CASE i \in DOMAIN list /\ j = Len(list) + 1
      BY <2>3, <3>1, <3>3
    <3>4. CASE j \in DOMAIN list /\ i = Len(list) + 1
      BY <2>3, <3>1, <3>4
    <3> QED BY <2>3, <2>5, <3>2, <3>3, <3>4
  <2>6. ASSUME NEW k \in DOMAIN new, NEW l \in DOMAIN new, k < l
        PROVE  NotWorse(new[k].result, new[l].result) /\ new[k].user # new[l].user
    <3>1. /\ k \in 1 .. n /\ new[k] = f[pi[k]] /\ l \in 1 .. n /\ new[l] = f[pi[l]]
          /\ pi[k] \in D /\ pi[l] \in D
      BY <2>2, <2>4
    <3>2. Before(f, pi[k], pi[l])
      BY <2>2, <2>6, <3>1
    <3>3. pi[k] # pi[l] /\ NotWorse(f[pi[k]].result, f[pi[l]].result)
      BY <2>a, <3>1, <3>2, BeforeNotWorse
    <3> QED BY <2>5, <3>1, <3>3
  <2>7. ASSUME NEW k \in DOMAIN new
        PROVE  new[k] = entry \/ \E i \in DOMAIN list : new[k] = list[i]
    <3>1. new[k] = f[pi[k]] /\ pi[k] \in D
      BY <2>2, <2>4
    <3> QED BY <2>3, <3>1
  <2>8. Ranked(new)
    BY <2>4, <2>6 DEF Ranked
  <2> QED BY <2>1, <2>7, <2>8 DEF new
<1> QED BY <1>1, <1>2

\* An entry that is pushed out leaves a full list of results as good.
LEMMA PushedCounted ==
  ASSUME NEW list \in Seq(Entry), Ranked(list), NEW entry \in Entry, ~IsNoOp(list, entry),
         NEW i \in DOMAIN Pushed(list, entry), NEW result \in Results,
         NotWorse(Pushed(list, entry)[i].result, result)
  PROVE  Counted(SubmitEntry(list, entry), Pushed(list, entry)[i].user, result)
<1> DEFINE f == Pushed(list, entry)
           D == DOMAIN f
           n == Cardinality(D)
           new == SubmitEntry(list, entry)
<1>1. /\ n \in Nat /\ new \in Seq(Entry)
      /\ Len(new) = IF n < MaxEntries THEN n ELSE MaxEntries
  BY SubmittedList
<1>2. PICK pi \in [1 .. n -> D] :
        /\ \A k \in 1 .. Len(new) : k \in 1 .. n /\ new[k] = f[pi[k]]
        /\ \A j \in D : RankOf(f, j) \in 1 .. n /\ pi[RankOf(f, j)] = j
        /\ \A k, l \in 1 .. n : k < l => Before(f, pi[k], pi[l])
  BY SubmittedList
<1>3. D \in SUBSET Nat /\ f \in [D -> Entry] /\ i \in D /\ NotWorse(f[i].result, result)
  BY PushedPositions
<1> HIDE DEF n, f, D, new
<1>4. DOMAIN new = 1 .. Len(new) /\ Len(new) \in Nat
  BY <1>1
<1>5. RankOf(f, i) \in 1 .. n /\ pi[RankOf(f, i)] = i
  BY <1>2, <1>3
<1>6. CASE RankOf(f, i) <= Len(new)
  <2>1. RankOf(f, i) \in DOMAIN new
    BY <1>1, <1>4, <1>5, <1>6
  <2>2. new[RankOf(f, i)] = f[i]
    BY <1>2, <1>4, <1>5, <2>1
  <2>3. Counted(new, f[i].user, result)
    BY <1>3, <2>1, <2>2 DEF Counted
  <2> QED BY <2>3 DEF new, f
<1>7. CASE RankOf(f, i) > Len(new)
  <2>1. Len(new) = MaxEntries
    BY <1>1, <1>5, <1>7, MaxEntriesAssumption
  <2>2. ASSUME NEW k \in DOMAIN new
        PROVE  NotWorse(new[k].result, result)
    <3>1. k \in 1 .. n /\ new[k] = f[pi[k]] /\ pi[k] \in D
      BY <1>2, <1>4
    <3>2. k < RankOf(f, i)
      BY <1>1, <1>4, <1>5, <1>7
    <3>3. Before(f, pi[k], i)
      BY <1>2, <1>5, <3>1, <3>2
    <3>4. NotWorse(f[pi[k]].result, f[i].result)
      BY <1>3, <3>1, <3>3, BeforeNotWorse
    <3>5. f[pi[k]].result \in Results /\ f[i].result \in Results
      BY <1>3, <3>1 DEF Entry
    <3> QED BY <1>3, <3>1, <3>4, <3>5, ResultsOrdered
  <2>3. Counted(new, f[i].user, result)
    BY <2>1, <2>2 DEF Counted
  <2> QED BY <2>3 DEF new, f
<1> QED BY <1>1, <1>4, <1>5, <1>6, <1>7

\* The submitted result counts afterwards.
LEMMA SubmitCounted ==
  ASSUME NEW list \in Seq(Entry), Ranked(list), NEW entry \in Entry
  PROVE  Counted(SubmitEntry(list, entry), entry.user, entry.result)
<1>1. CASE IsNoOp(list, entry)
  BY <1>1 DEF SubmitEntry, IsNoOp, Counted, NotWorse
<1>2. CASE ~IsNoOp(list, entry)
  <2>1. /\ Len(list) + 1 \in DOMAIN Pushed(list, entry)
        /\ Pushed(list, entry)[Len(list) + 1] = entry
    <3>1. DOMAIN Pushed(list, entry) =
            {j \in DOMAIN list : list[j].user # entry.user} \cup {Len(list) + 1}
      BY PushedPositions
    <3>2. Pushed(list, entry)[Len(list) + 1] = entry
      BY PushedPositions
    <3> QED BY <3>1, <3>2
  <2>2. entry.result \in Results /\ NotWorse(entry.result, entry.result)
    BY ResultsOrdered DEF Entry
  <2> QED BY <1>2, <2>1, <2>2, PushedCounted
<1> QED BY <1>1, <1>2

\* What counted before still counts, of any user.
LEMMA SubmitKeepsCounted ==
  ASSUME NEW list \in Seq(Entry), Ranked(list), NEW entry \in Entry,
         NEW user \in Users, NEW result \in Results, Counted(list, user, result)
  PROVE  Counted(SubmitEntry(list, entry), user, result)
<1>1. CASE IsNoOp(list, entry)
  BY <1>1 DEF SubmitEntry
<1>2. CASE ~IsNoOp(list, entry)
  <2> DEFINE f == Pushed(list, entry)
  <2>1. DOMAIN f = {j \in DOMAIN list : list[j].user # entry.user} \cup {Len(list) + 1}
    BY PushedPositions
  <2>2. /\ f[Len(list) + 1] = entry
        /\ \A j \in DOMAIN list : list[j].user # entry.user => f[j] = list[j]
    BY PushedPositions
  <2>3. DOMAIN list = 1 .. Len(list) /\ Len(list) \in Nat /\ entry.result \in Results
        /\ \A j \in DOMAIN list : list[j].result \in Results
    <3>1. \A j \in DOMAIN list : list[j] \in Entry
      OBVIOUS
    <3>2. DOMAIN list = 1 .. Len(list) /\ Len(list) \in Nat
      OBVIOUS
    <3> QED BY <3>1, <3>2 DEF Entry
  <2>4. ASSUME NEW i \in DOMAIN list, list[i].user = entry.user, NotWorse(list[i].result, result)
        PROVE  NotWorse(entry.result, result)
    <3>1. IsBetterThan(entry.result, list[i].result)
      BY <1>2, <2>4 DEF IsNoOp
    <3>2. NotWorse(entry.result, list[i].result)
      BY <2>3, <3>1, ResultsOrdered
    <3> QED BY <2>3, <2>4, <3>2, ResultsOrdered
  <2>5. CASE \E i \in DOMAIN list : list[i].user = user /\ NotWorse(list[i].result, result)
    <3> PICK i \in DOMAIN list : list[i].user = user /\ NotWorse(list[i].result, result)
      BY <2>5
    <3>1. CASE user # entry.user
      <4>1. i \in DOMAIN f /\ f[i] = list[i]
        BY <2>1, <2>2, <3>1
      <4>2. f[i].user = user /\ NotWorse(f[i].result, result)
        BY <4>1
      <4> QED BY <1>2, <4>1, <4>2, PushedCounted
    <3>2. CASE user = entry.user
      <4>1. NotWorse(entry.result, result)
        BY <2>4, <3>2
      <4>2. /\ Len(list) + 1 \in DOMAIN f /\ f[Len(list) + 1].user = user
            /\ NotWorse(f[Len(list) + 1].result, result)
        BY <2>1, <2>2, <3>2, <4>1
      <4> QED BY <1>2, <4>2, PushedCounted
    <3> QED BY <3>1, <3>2
  <2>6. CASE Len(list) = MaxEntries /\ \A i \in DOMAIN list : NotWorse(list[i].result, result)
    <3> DEFINE new == SubmitEntry(list, entry)
               n == Cardinality(DOMAIN f)
    <3>1. /\ n \in Nat /\ new \in Seq(Entry)
          /\ Len(new) = IF n < MaxEntries THEN n ELSE MaxEntries
      BY <1>2, SubmittedList
    <3>2. PICK pi \in [1 .. n -> DOMAIN f] :
            /\ \A k \in 1 .. Len(new) : k \in 1 .. n /\ new[k] = f[pi[k]]
            /\ \A k \in 1 .. n : RankOf(f, pi[k]) = k
            /\ \A k, l \in 1 .. n : k < l => Before(f, pi[k], pi[l])
      BY <1>2, SubmittedList
    <3>3. n = IF \E j \in DOMAIN list : list[j].user = entry.user THEN Len(list) ELSE Len(list) + 1
      BY PushedPositions
    <3>4. DOMAIN f \in SUBSET Nat /\ f \in [DOMAIN f -> Entry]
      BY PushedPositions
    <3> HIDE DEF n, f, new
    <3>5. Len(new) = MaxEntries /\ DOMAIN new = 1 .. MaxEntries
      BY <2>3, <2>6, <3>1, <3>3, MaxEntriesAssumption
    <3>6. ASSUME NEW k \in DOMAIN new
          PROVE  NotWorse(new[k].result, result)
      <4>1. k \in 1 .. n /\ new[k] = f[pi[k]] /\ pi[k] \in DOMAIN f
        BY <3>2, <3>5
      <4>2. CASE pi[k] \in DOMAIN list
        BY <2>1, <2>2, <2>3, <2>6, <4>1, <4>2
      <4>3. CASE pi[k] = Len(list) + 1 /\ \E j \in DOMAIN list : list[j].user = entry.user
        BY <2>2, <2>4, <2>6, <4>1, <4>3
      <4>4. CASE pi[k] = Len(list) + 1 /\ ~\E j \in DOMAIN list : list[j].user = entry.user
        <5>1. n = MaxEntries + 1 /\ k < n /\ n \in 1 .. n
          BY <2>3, <2>6, <3>1, <3>3, <3>5, <4>1, <4>4, MaxEntriesAssumption
        <5>2. Before(f, pi[k], pi[n])
          BY <3>2, <4>1, <5>1
        <5>3. pi[n] \in DOMAIN f
          BY <5>1
        <5>4. pi[k] # pi[n] /\ NotWorse(f[pi[k]].result, f[pi[n]].result)
          BY <3>4, <4>1, <5>2, <5>3, BeforeNotWorse
        <5>5. pi[n] \in DOMAIN list /\ f[pi[n]] = list[pi[n]]
          BY <2>1, <2>2, <4>4, <5>3, <5>4
        <5>6. f[pi[k]].result \in Results /\ f[pi[n]].result \in Results
          BY <3>4, <4>1, <5>3 DEF Entry
        <5>7. NotWorse(f[pi[n]].result, result)
          BY <2>6, <5>5
        <5> QED BY <4>1, <5>4, <5>6, <5>7, ResultsOrdered
      <4> QED BY <2>1, <4>1, <4>2, <4>3, <4>4
    <3> QED BY <3>5, <3>6 DEF Counted, new
  <2> QED BY <2>5, <2>6 DEF Counted
<1> QED BY <1>1, <1>2

\* A ranked list to which an entry no better than its last is added at the end
\* is in its order already.
LEMMA AppendedInPlace ==
  ASSUME NEW D \in SUBSET Nat, NEW n \in Nat, D = 1 .. n, NEW f \in [D -> Entry],
         \A i, j \in D : i < j => NotWorse(f[i].result, f[j].result)
  PROVE  \A i \in D : RankOf(f, i) = i
<1> TAKE i \in D
<1>1. ASSUME NEW j \in D
      PROVE  Before(f, j, i) <=> j < i
  <2>1. j < i => Before(f, j, i)
    BY <1>1 DEF Before, NotWorse
  <2>2. i < j => Before(f, i, j)
    BY <1>1 DEF Before, NotWorse
  <2>3. i = j => ~Before(f, j, i)
    BY BeforeIsOrder
  <2>4. Before(f, i, j) => ~Before(f, j, i)
    BY BeforeIsOrder
  <2> QED BY <2>1, <2>2, <2>3, <2>4
<1>2. {j \in DOMAIN f : Before(f, j, i)} = 1 .. (i - 1)
  BY <1>1
<1>3. Cardinality(1 .. (i - 1)) = i - 1 /\ i \in Nat
  BY FS_Interval
<1>4. RankOf(f, i) = 1 + Cardinality(1 .. (i - 1))
  BY <1>2 DEF RankOf
<1> QED BY <1>3, <1>4

\* Submitting what already counts changes nothing, for it is a no-op or ranks
\* behind a full board.
LEMMA ResubmitChangesNothing ==
  ASSUME NEW list \in Seq(Entry), Ranked(list), NEW entry \in Entry,
         Counted(list, entry.user, entry.result)
  PROVE  SubmitEntry(list, entry) = list
<1>1. CASE IsNoOp(list, entry)
  BY <1>1 DEF SubmitEntry
<1>2. CASE ~IsNoOp(list, entry)
  <2> DEFINE f == Pushed(list, entry)
             n == Cardinality(DOMAIN f)
             new == SubmitEntry(list, entry)
  <2>1. ~\E i \in DOMAIN list : list[i].user = entry.user /\ NotWorse(list[i].result, entry.result)
    BY <1>2 DEF IsNoOp, NotWorse
  <2>2. Len(list) = MaxEntries /\ \A i \in DOMAIN list : NotWorse(list[i].result, entry.result)
    BY <2>1 DEF Counted
  <2>3. ~\E i \in DOMAIN list : list[i].user = entry.user
    BY <2>1, <2>2
  <2>4. n = Len(list) + 1
    BY <2>3, PushedPositions
  <2>5. /\ DOMAIN f = {j \in DOMAIN list : list[j].user # entry.user} \cup {Len(list) + 1}
        /\ DOMAIN f \in SUBSET Nat
    BY PushedPositions
  <2>6. /\ f[Len(list) + 1] = entry
        /\ \A j \in DOMAIN list : list[j].user # entry.user => f[j] = list[j]
        /\ f \in [DOMAIN f -> Entry]
    BY PushedPositions
  <2>7. /\ n \in Nat /\ new \in Seq(Entry)
        /\ Len(new) = IF n < MaxEntries THEN n ELSE MaxEntries
    BY <1>2, SubmittedList
  <2>8. PICK pi \in [1 .. n -> DOMAIN f] :
          /\ \A k \in 1 .. Len(new) : k \in 1 .. n /\ new[k] = f[pi[k]]
          /\ \A i \in DOMAIN f : RankOf(f, i) \in 1 .. n /\ pi[RankOf(f, i)] = i
    BY <1>2, SubmittedList
  <2> HIDE DEF f, n, new
  <2>9. DOMAIN list = 1 .. Len(list) /\ Len(list) \in Nat
    OBVIOUS
  <2>10. DOMAIN f = 1 .. n
    BY <2>3, <2>4, <2>5, <2>9
  <2>11. ASSUME NEW i \in DOMAIN f, NEW j \in DOMAIN f, i < j
         PROVE  NotWorse(f[i].result, f[j].result)
    <3>1. i \in DOMAIN list /\ f[i] = list[i]
      BY <2>3, <2>4, <2>6, <2>9, <2>10, <2>11
    <3>2. CASE j \in DOMAIN list
      <4>1. f[j] = list[j]
        BY <2>3, <2>6, <3>2
      <4> QED BY <2>11, <3>1, <3>2, <4>1 DEF Ranked
    <3>3. CASE j = Len(list) + 1
      BY <2>2, <2>6, <3>1, <3>3
    <3> QED BY <2>4, <2>9, <2>10, <3>2, <3>3
  <2>12. \A i \in DOMAIN f : RankOf(f, i) = i
    BY <2>5, <2>6, <2>7, <2>10, <2>11, AppendedInPlace
  <2>13. Len(new) = Len(list)
    BY <2>2, <2>4, <2>7, <2>9, MaxEntriesAssumption
  <2>14. ASSUME NEW k \in 1 .. Len(list)
         PROVE  new[k] = list[k]
    <3>1. k \in DOMAIN f /\ RankOf(f, k) = k
      BY <2>4, <2>9, <2>10, <2>12
    <3>2. pi[k] = k /\ new[k] = f[pi[k]]
      BY <2>8, <2>13, <3>1
    <3> QED BY <2>3, <2>6, <2>9, <3>2
  <2>15. new = list
    BY <2>7, <2>9, <2>13, <2>14
  <2> QED BY <2>15 DEF new
<1> QED BY <1>1, <1>2

-----------------------------------------------------------------------------
(* The invariant.  A list in memory shows nothing that was not submitted,   *)
(* and as long as it is not stale it is the stored one, after the           *)
(* submission with the new entry taken in.                                  *)

Own(r) == [user |-> req[r].user, result |-> req[r].result]

\* The user of the entry has saved a result at least as good.
Bounded(entry) == best[entry.user] # NoResult /\ NotWorse(best[entry.user], entry.result)

ReadInv(r) ==
  /\ req[r].user \in Users
  /\ \A i \in DOMAIN req[r].list : Bounded(req[r].list[i])
  /\ ~req[r].stale => req[r].list = entries

SubmittedInv(r) ==
  /\ req[r].user \in Users /\ req[r].result \in Results
  /\ \A i \in DOMAIN req[r].list : req[r].list[i] = Own(r) \/ Bounded(req[r].list[i])
  /\ Counted(req[r].list, req[r].user, req[r].result)
  /\ ~req[r].stale => req[r].list = SubmitEntry(entries, Own(r))

RequestInv(r) ==
  /\ Ranked(req[r].list)
  /\ pc[r] = "findBoard" => req[r].list = <<>>
  /\ req[r].stale => exists
  /\ pc[r] = "submit" => ReadInv(r)
  /\ pc[r] = "save" => SubmittedInv(r)

BoardInv == (~exists => entries = <<>>) /\ Ranked(entries) /\ NothingInvented /\ TopOfBest

IInv == TypeOK /\ BoardInv /\ \A r \in Requests : RequestInv(r)

\* The empty list is ranked.
LEMMA EmptyRanked == <<>> \in Seq(Entry) /\ Ranked(<<>>) /\ DOMAIN <<>> = {}
BY MaxEntriesAssumption DEF Ranked

LEMMA NoRequestIsTyped ==
  NoRequest \in Request /\ NoRequest.list = <<>> /\ NoRequest.user = NoUser /\ ~NoRequest.stale
BY EmptyRanked DEF NoRequest, Request

LEMMA IInvInit == Init => IInv
<1> SUFFICES ASSUME Init PROVE IInv
  OBVIOUS
<1>1. TypeOK
  BY EmptyRanked, NoRequestIsTyped DEF Init, TypeOK, Serving
<1>2. BoardInv
  BY EmptyRanked DEF Init, BoardInv, NothingInvented, TopOfBest
<1>3. \A r \in Requests : RequestInv(r)
  BY EmptyRanked, NoRequestIsTyped DEF Init, RequestInv
<1> QED BY <1>1, <1>2, <1>3 DEF IInv

\* Every step but a save leaves the board and the other requests alone.
LEMMA OtherStepKeeps ==
  ASSUME IInv, NEW r \in Requests, UNCHANGED <<exists, entries, best, raced>>,
         NEW place \in Serving \cup {"idle", "ok", "failed"}, pc' = [pc EXCEPT ![r] = place],
         NEW new \in Request, req' = [req EXCEPT ![r] = new],
         Ranked(new.list), new.stale => exists,
         place = "findBoard" => new.list = <<>>,
         place = "submit" => ReadInv(r)',
         place = "save" => SubmittedInv(r)'
  PROVE  IInv'
<1>1. TypeOK'
  BY DEF IInv, TypeOK
<1>2. BoardInv'
  BY DEF IInv, BoardInv, NothingInvented, TopOfBest
<1>3. ASSUME NEW q \in Requests \ {r}
      PROVE  RequestInv(q)'
  <2>1. pc'[q] = pc[q] /\ req'[q] = req[q]
    BY DEF IInv, TypeOK
  <2>2. RequestInv(q)
    BY DEF IInv
  <2>3. ReadInv(q) => ReadInv(q)'
    BY <2>1 DEF ReadInv, Bounded
  <2>4. SubmittedInv(q) => SubmittedInv(q)'
    BY <2>1 DEF SubmittedInv, Bounded, Own
  <2> QED BY <2>1, <2>2, <2>3, <2>4 DEF RequestInv
<1>4. RequestInv(r)'
  <2>1. pc'[r] = place /\ req'[r] = new
    BY DEF IInv, TypeOK
  <2> QED BY <2>1 DEF RequestInv
<1> QED BY <1>1, <1>2, <1>3, <1>4 DEF IInv

\* A step to a place where the list no longer matters.
LEMMA MovedKeeps ==
  ASSUME IInv, NEW r \in Requests, UNCHANGED <<exists, entries, best, raced, req>>,
         NEW place \in {"findEntries", "publish", "ok", "failed"}, pc' = [pc EXCEPT ![r] = place]
  PROVE  IInv'
<1>1. /\ req[r] \in Request /\ req' = [req EXCEPT ![r] = req[r]] /\ Ranked(req[r].list)
      /\ req[r].stale => exists
  BY DEF IInv, TypeOK, RequestInv
<1>2. place \in Serving \cup {"idle", "ok", "failed"}
  BY DEF Serving
<1> QED BY <1>1, <1>2, OtherStepKeeps

LEMMA ArriveKeeps ==
  ASSUME IInv, NEW r \in Requests, Arrive(r)
  PROVE  IInv'
<1>1. ASSUME NEW u \in Users, NEW result \in Results \cup {NoResult}, NEW known \in BOOLEAN,
             SubmitArrive(r, u, result, known)
      PROVE  IInv'
  <2> DEFINE new == [NoRequest EXCEPT !.user = u, !.result = result]
  <2>1. new \in Request /\ new.list = <<>> /\ ~new.stale
    BY NoRequestIsTyped DEF Request, NoRequest
  <2>2. PICK place \in {"findBoard", "failed"} : pc' = [pc EXCEPT ![r] = place]
    BY <1>1 DEF SubmitArrive, Goto
  <2>3. req' = [req EXCEPT ![r] = new] /\ UNCHANGED <<exists, entries, best, raced>>
    BY <1>1 DEF SubmitArrive
  <2>4. place \in Serving \cup {"idle", "ok", "failed"}
    BY DEF Serving
  <2> HIDE DEF new
  <2> QED BY <2>1, <2>2, <2>3, <2>4, EmptyRanked, OtherStepKeeps
<1>2. ASSUME GetArrive(r)
      PROVE  IInv'
  <2>1. "findBoard" \in Serving \cup {"idle", "ok", "failed"}
    BY DEF Serving
  <2> QED BY <1>2, <2>1, NoRequestIsTyped, EmptyRanked, OtherStepKeeps DEF GetArrive, Goto
<1> QED BY <1>1, <1>2 DEF Arrive

LEMMA FinishKeeps ==
  ASSUME IInv, NEW r \in Requests, Finish(r)
  PROVE  IInv'
<1>1. "idle" \in Serving \cup {"idle", "ok", "failed"}
  OBVIOUS
<1> QED BY <1>1, NoRequestIsTyped, EmptyRanked, OtherStepKeeps DEF Finish, Goto

\* A read that goes on to submit holds the empty board there is, or is a reader.
LEMMA FindBoardKeeps ==
  ASSUME IInv, NEW r \in Requests, FindBoard(r)
  PROVE  IInv'
<1> DEFINE flag == exists
           new == [req[r] EXCEPT !.sawBoard = flag]
<1>1. /\ flag \in BOOLEAN /\ req[r] \in Request /\ req[r].list = <<>>
      /\ req[r].stale => exists
  BY DEF IInv, TypeOK, FindBoard, RequestInv
<1>2. req' = [req EXCEPT ![r] = new]
  BY DEF FindBoard
<1>3. PICK place \in {"findEntries", "ok", "submit"} :
        /\ pc' = [pc EXCEPT ![r] = place]
        /\ place = "submit" => ~exists /\ req[r].user # NoUser
  BY DEF FindBoard, Goto, IsRead
<1> HIDE DEF flag
<1>4. new \in Request /\ new.list = <<>> /\ new.user = req[r].user /\ new.stale = req[r].stale
  BY <1>1 DEF Request
<1>5. UNCHANGED <<exists, entries, best, raced>>
  BY DEF FindBoard
<1> HIDE DEF new
<1>6. ASSUME place = "submit"
      PROVE  ReadInv(r)'
  <2>1. entries = <<>> /\ req'[r] = new /\ new.user \in Users
    BY <1>1, <1>2, <1>3, <1>4, <1>6 DEF IInv, TypeOK, BoardInv, Request
  <2> QED BY <1>4, <1>5, <2>1, EmptyRanked DEF ReadInv
<1>7. place \in Serving \cup {"idle", "ok", "failed"}
  BY DEF Serving
<1> QED BY <1>1, <1>2, <1>3, <1>4, <1>5, <1>6, <1>7, EmptyRanked, OtherStepKeeps

\* The list read is the stored one.
LEMMA FindEntriesKeeps ==
  ASSUME IInv, NEW r \in Requests, FindEntries(r)
  PROVE  IInv'
<1> DEFINE new == [req[r] EXCEPT !.list = entries]
<1>1. /\ req[r] \in Request /\ entries \in Seq(Entry) /\ Ranked(entries) /\ NothingInvented
      /\ req[r].stale => exists
  BY DEF IInv, TypeOK, BoardInv, RequestInv
<1>2. new \in Request /\ new.list = entries /\ new.user = req[r].user /\ new.stale = req[r].stale
  BY <1>1 DEF Request
<1>3. req' = [req EXCEPT ![r] = new] /\ UNCHANGED <<exists, entries, best, raced>>
  BY DEF FindEntries
<1>4. PICK place \in {"ok", "submit"} :
        pc' = [pc EXCEPT ![r] = place] /\ (place = "submit" => req[r].user # NoUser)
  BY DEF FindEntries, Goto, IsRead
<1> HIDE DEF new
<1>5. ASSUME place = "submit"
      PROVE  ReadInv(r)'
  <2>1. req'[r] = new /\ new.user \in Users
    BY <1>1, <1>2, <1>3, <1>4, <1>5 DEF IInv, TypeOK, Request
  <2> QED BY <1>1, <1>2, <1>3, <2>1 DEF ReadInv, Bounded, NothingInvented
<1>6. place \in Serving \cup {"idle", "ok", "failed"}
  BY DEF Serving
<1> QED BY <1>1, <1>2, <1>3, <1>4, <1>5, <1>6, OtherStepKeeps

\* The aggregate takes the entry: it counts, and nothing else was added.
LEMMA SubmitKeeps ==
  ASSUME IInv, NEW r \in Requests, Submit(r)
  PROVE  IInv'
<1>1. CASE req[r].result = NoResult
  BY <1>1, MovedKeeps DEF Submit, Goto
<1>2. CASE req[r].result # NoResult
  <2> DEFINE list == req[r].list
             own == [user |-> req[r].user, result |-> req[r].result]
             new == [req[r] EXCEPT !.list = SubmitEntry(list, own)]
  <2>1. /\ req[r] \in Request /\ list \in Seq(Entry) /\ Ranked(list) /\ ReadInv(r)
        /\ req[r].result \in Results /\ req[r].user \in Users /\ (req[r].stale => exists)
    BY <1>2 DEF IInv, TypeOK, Submit, Request, RequestInv, ReadInv
  <2>2. own \in Entry /\ own.user = req[r].user /\ own.result = req[r].result
    BY <2>1 DEF Entry
  <2>3. req' = [req EXCEPT ![r] = new] /\ UNCHANGED <<exists, entries, best, raced>>
    BY <1>2 DEF Submit
  <2>4. pc' = [pc EXCEPT ![r] = "save"] /\ "save" \in Serving \cup {"idle", "ok", "failed"}
    BY <1>2 DEF Submit, Goto, Serving
  <2>5. /\ SubmitEntry(list, own) \in Seq(Entry) /\ Ranked(SubmitEntry(list, own))
        /\ \A k \in DOMAIN SubmitEntry(list, own) :
             \/ SubmitEntry(list, own)[k] = own
             \/ \E i \in DOMAIN list : SubmitEntry(list, own)[k] = list[i]
    BY <2>1, <2>2, SubmitRanked
  <2>6. Counted(SubmitEntry(list, own), own.user, own.result)
    BY <2>1, <2>2, SubmitCounted
  <2>7. /\ new \in Request /\ new.list = SubmitEntry(list, own) /\ new.user = req[r].user
        /\ new.result = req[r].result /\ new.stale = req[r].stale
    BY <2>1, <2>5 DEF Request
  <2>8. req'[r] = new /\ Own(r)' = own
    BY <2>3, <2>7 DEF IInv, TypeOK, Own
  <2> HIDE DEF new, own
  <2>9. \A k \in DOMAIN new.list : new.list[k] = own \/ Bounded(new.list[k])
    BY <2>1, <2>5, <2>7 DEF ReadInv
  <2>10. ~new.stale => new.list = SubmitEntry(entries, own)
    BY <2>1, <2>7 DEF ReadInv
  <2>11. SubmittedInv(r)'
    BY <2>1, <2>2, <2>3, <2>6, <2>7, <2>8, <2>9, <2>10 DEF SubmittedInv, Bounded
  <2> QED BY <2>1, <2>3, <2>4, <2>5, <2>7, <2>11, OtherStepKeeps
<1> QED BY <1>1, <1>2

\* A save never lowers what a user has reached.
LEMMA BestGrows ==
  ASSUME IInv, NEW r \in Requests, SaveBoard(r)
  PROVE  /\ best' \in [Users -> Results \cup {NoResult}]
         /\ \A u \in Users \ {req[r].user} : best'[u] = best[u]
         /\ best'[req[r].user] = req[r].result \/ best'[req[r].user] = best[req[r].user]
         /\ \A u \in Users : best[u] # NoResult =>
              best'[u] # NoResult /\ NotWorse(best'[u], best[u])
         /\ best'[req[r].user] # NoResult /\ NotWorse(best'[req[r].user], req[r].result)
<1> DEFINE u == req[r].user
           result == req[r].result
<1>1. /\ u \in Users /\ result \in Results /\ result # NoResult
      /\ best \in [Users -> Results \cup {NoResult}]
  BY ResultsAssumption DEF IInv, TypeOK, RequestInv, SubmittedInv, SaveBoard
<1>2. best' = [best EXCEPT ![u] = IF best[u] = NoResult \/ IsBetterThan(result, best[u])
                                  THEN result ELSE best[u]]
  BY DEF SaveBoard
<1> HIDE DEF u, result
<1>3. best' \in [Users -> Results \cup {NoResult}] /\ \A v \in Users \ {u} : best'[v] = best[v]
  BY <1>1, <1>2
<1>4. \A v \in Users : best[v] # NoResult => best[v] \in Results /\ NotWorse(best[v], best[v])
  BY <1>1, ResultsOrdered
<1>5. NotWorse(result, result)
  BY <1>1, ResultsOrdered
<1>6. CASE best[u] = NoResult \/ IsBetterThan(result, best[u])
  <2>1. best'[u] = result
    BY <1>1, <1>2, <1>6
  <2>2. best[u] # NoResult => NotWorse(result, best[u])
    BY <1>1, <1>4, <1>6, ResultsOrdered
  <2> QED BY <1>1, <1>3, <1>4, <1>5, <2>1, <2>2 DEF u, result
<1>7. CASE ~(best[u] = NoResult \/ IsBetterThan(result, best[u]))
  <2>1. best'[u] = best[u]
    BY <1>1, <1>2, <1>7
  <2> QED BY <1>1, <1>3, <1>4, <1>7, <2>1 DEF u, result, NotWorse
<1> QED BY <1>6, <1>7

\* What was bounded by the best results still is, and so is the saved entry.
LEMMA BoundedGrows ==
  ASSUME IInv, NEW r \in Requests, SaveBoard(r)
  PROVE  /\ \A entry \in Entry : Bounded(entry) => Bounded(entry)'
         /\ Bounded(Own(r))'
<1>1. /\ best' \in [Users -> Results \cup {NoResult}]
      /\ \A u \in Users : best[u] # NoResult => best'[u] # NoResult /\ NotWorse(best'[u], best[u])
      /\ best'[req[r].user] # NoResult /\ NotWorse(best'[req[r].user], req[r].result)
  BY BestGrows
<1>2. ASSUME NEW entry \in Entry, Bounded(entry)
      PROVE  Bounded(entry)'
  <2>1. entry.user \in Users /\ entry.result \in Results
    BY DEF Entry
  <2>2. best[entry.user] \in Results /\ best'[entry.user] \in Results
    BY <1>1, <1>2, <2>1 DEF IInv, TypeOK, Bounded
  <2>3. NotWorse(best'[entry.user], best[entry.user]) /\ NotWorse(best[entry.user], entry.result)
    BY <1>1, <1>2, <2>1 DEF Bounded
  <2>4. NotWorse(best'[entry.user], entry.result)
    BY <2>1, <2>2, <2>3, ResultsOrdered
  <2> QED BY <1>1, <1>2, <2>1, <2>4 DEF Bounded
<1>3. req'[r] = req[r]
  BY DEF IInv, TypeOK, SaveBoard
<1>4. Bounded(Own(r))'
  BY <1>1, <1>3 DEF Bounded, Own
<1> QED BY <1>2, <1>4

\* The saved list replaces the board; whoever read an older one is stale now.
LEMMA SaveKeeps ==
  ASSUME IInv, NEW r \in Requests, SaveBoard(r)
  PROVE  IInv'
<1>1. /\ SubmittedInv(r) /\ req[r] \in Request /\ req[r].list \in Seq(Entry)
      /\ Ranked(req[r].list) /\ entries \in Seq(Entry) /\ Ranked(entries)
  BY DEF IInv, TypeOK, SaveBoard, RequestInv, BoardInv, Request
<1>2. /\ exists' = TRUE /\ entries' = req[r].list /\ raced' = (raced \/ (req[r].sawBoard /\ req[r].stale))
      /\ pc' = [pc EXCEPT ![r] = "publish"]
      /\ req' = [q \in Requests |-> IF q # r /\ pc[q] \in {"submit", "save"}
                                     THEN [req[q] EXCEPT !.stale = TRUE] ELSE req[q]]
  BY DEF SaveBoard, Goto
<1>3. ASSUME NEW q \in Requests
      PROVE  /\ req'[q] \in Request /\ req'[q].list = req[q].list /\ req'[q].user = req[q].user
             /\ req'[q].result = req[q].result
             /\ q # r /\ pc[q] \in {"submit", "save"} => req'[q].stale
  <2>1. req[q] \in Request
    BY DEF IInv, TypeOK
  <2> QED BY <1>2, <2>1 DEF Request
<1>4. TypeOK'
  <2>1. pc' \in [Requests -> Serving \cup {"idle", "ok", "failed"}]
    BY <1>2 DEF IInv, TypeOK, Serving
  <2>2. req' \in [Requests -> Request]
    BY <1>2, <1>3
  <2>3. best' \in [Users -> Results \cup {NoResult}]
    BY BestGrows
  <2>4. raced' \in BOOLEAN
    <3>1. raced \in BOOLEAN /\ req[r].sawBoard \in BOOLEAN /\ req[r].stale \in BOOLEAN
      BY <1>1 DEF IInv, TypeOK, Request
    <3> QED BY <1>2, <3>1
  <2> QED BY <1>1, <1>2, <2>1, <2>2, <2>3, <2>4 DEF TypeOK
<1>5. \A i \in DOMAIN req[r].list : Bounded(req[r].list[i])'
  <2> TAKE i \in DOMAIN req[r].list
  <2>1. req[r].list[i] \in Entry
    BY <1>1
  <2>2. CASE req[r].list[i] = Own(r)
    <3>1. Own(r)' = Own(r)
      BY <1>3 DEF Own
    <3>2. Bounded(Own(r))'
      BY BoundedGrows
    <3>3. best'[Own(r).user] # NoResult /\ NotWorse(best'[Own(r).user], Own(r).result)
      BY <3>1, <3>2 DEF Bounded
    <3>4. (req[r].list[i])' = Own(r)
      BY <1>2, <1>3, <2>2
    <3> QED BY <3>3, <3>4 DEF Bounded
  <2>3. CASE Bounded(req[r].list[i])
    <3>1. best'[req[r].list[i].user] # NoResult
          /\ NotWorse(best'[req[r].list[i].user], req[r].list[i].result)
      BY <2>1, <2>3, BoundedGrows DEF Bounded
    <3>2. (req[r].list[i])' = req[r].list[i]
      BY <1>3
    <3> QED BY <3>1, <3>2 DEF Bounded
  <2> QED BY <1>1, <2>2, <2>3 DEF SubmittedInv
<1>6. NothingInvented'
  BY <1>2, <1>3, <1>5 DEF NothingInvented, Bounded
<1>7. TopOfBest'
  <2> SUFFICES ASSUME ~raced', NEW u \in Users, best'[u] # NoResult
               PROVE  Counted(entries', u, best'[u])
    BY DEF TopOfBest
  <2>1. ~raced /\ ~req[r].stale
    BY <1>2 DEF SaveBoard, IInv, RequestInv
  <2>2. Own(r) \in Entry /\ entries' = SubmitEntry(entries, Own(r))
    BY <1>1, <1>2, <2>1 DEF SubmittedInv, Own, Entry
  <2>3. CASE best'[u] = best[u]
    <3>1. Counted(entries, u, best[u]) /\ best[u] \in Results
      BY <2>1, <2>3 DEF IInv, TypeOK, BoardInv, TopOfBest
    <3> QED BY <1>1, <2>2, <2>3, <3>1, SubmitKeepsCounted
  <2>4. CASE u = req[r].user /\ best'[u] = req[r].result
    BY <1>1, <1>2, <2>4 DEF SubmittedInv
  <2> QED BY <2>3, <2>4, BestGrows
<1>8. BoardInv'
  BY <1>1, <1>2, <1>6, <1>7 DEF BoardInv
<1>9. ASSUME NEW q \in Requests
      PROVE  RequestInv(q)'
  <2>1. RequestInv(q) /\ req[q] \in Request /\ req[q].list \in Seq(Entry)
    BY DEF IInv, TypeOK, Request
  <2>2. CASE q = r
    <3>1. pc'[q] = "publish"
      BY <1>2, <2>2 DEF IInv, TypeOK
    <3> QED BY <1>2, <1>3, <2>1, <3>1 DEF RequestInv
  <2>3. CASE q # r
    <3>1. pc'[q] = pc[q]
      BY <1>2, <2>3 DEF IInv, TypeOK
    <3>2. \A i \in DOMAIN req[q].list :
            req[q].list[i] \in Entry /\ (Bounded(req[q].list[i]) =>
              best'[req[q].list[i].user] # NoResult
                /\ NotWorse(best'[req[q].list[i].user], req[q].list[i].result))
      BY <2>1, BoundedGrows DEF Bounded
    <3>3. Own(q)' = Own(q)
      BY <1>3 DEF Own
    <3>4. pc[q] = "submit" => ReadInv(q)'
      BY <1>3, <2>1, <2>3, <3>2 DEF RequestInv, ReadInv, Bounded
    <3>5. pc[q] = "save" => SubmittedInv(q)'
      BY <1>3, <2>1, <2>3, <3>2, <3>3 DEF RequestInv, SubmittedInv, Bounded
    <3> QED BY <1>2, <1>3, <2>1, <3>1, <3>4, <3>5 DEF RequestInv
  <2> QED BY <2>2, <2>3
<1> QED BY <1>4, <1>8, <1>9 DEF IInv

LEMMA IInvStep == IInv /\ [Next]_vars => IInv'
<1> SUFFICES ASSUME IInv, [Next]_vars PROVE IInv'
  OBVIOUS
<1>1. CASE UNCHANGED vars
  BY <1>1 DEF vars, IInv, TypeOK, BoardInv, NothingInvented, TopOfBest, RequestInv, ReadInv,
              SubmittedInv, Bounded, Own
<1>2. ASSUME NEW r \in Requests, Arrive(r)
      PROVE  IInv'
  BY <1>2, ArriveKeeps
<1>3. ASSUME NEW r \in Requests, Serve(r)
      PROVE  IInv'
  <2>1. CASE FindBoard(r)
    BY <2>1, FindBoardKeeps
  <2>2. CASE FindEntries(r)
    BY <2>2, FindEntriesKeeps
  <2>3. CASE Submit(r)
    BY <2>3, SubmitKeeps
  <2>4. CASE SaveBoard(r)
    BY <2>4, SaveKeeps
  <2>5. CASE SaveConflict(r)
    BY <2>5, MovedKeeps DEF SaveConflict, Goto
  <2>6. CASE Publish(r)
    BY <2>6, MovedKeeps DEF Publish, Goto
  <2> QED BY <1>3, <2>1, <2>2, <2>3, <2>4, <2>5, <2>6 DEF Serve
<1>4. ASSUME NEW r \in Requests, Fault(r)
      PROVE  IInv'
  BY <1>4, MovedKeeps DEF Fault, Goto
<1>5. ASSUME NEW r \in Requests, Finish(r)
      PROVE  IInv'
  BY <1>5, FinishKeeps
<1> QED BY <1>1, <1>2, <1>3, <1>4, <1>5 DEF Next

\* The invariant of the whole board holds in every reachable state.
THEOREM Invariance == Spec => []IInv
<1>1. Init => IInv
  BY IInvInit
<1>2. IInv /\ [Next]_vars => IInv'
  BY IInvStep
<1> QED BY <1>1, <1>2, PTL DEF Spec

\* Every variable keeps its type, whatever is submitted.
THEOREM TypeCorrect == Spec => []TypeOK
<1>1. IInv => TypeOK
  BY DEF IInv
<1> QED BY <1>1, Invariance, PTL

\* No interleaving of submissions stores or shows a board that is not ranked.
THEOREM AlwaysRanked == Spec => []BoardRanked
<1>1. IInv => BoardRanked
  BY DEF IInv, BoardInv, RequestInv, BoardRanked
<1> QED BY <1>1, Invariance, PTL

\* The board shows nobody a result better than one that the user has saved.
THEOREM NoInvention == Spec => []NothingInvented
<1>1. IInv => NothingInvented
  BY DEF IInv, BoardInv
<1> QED BY <1>1, Invariance, PTL

\* Unless a save replaced entries it had not read, no saved result is forgotten.
THEOREM TopIsKept == Spec => []TopOfBest
<1>1. IInv => TopOfBest
  BY DEF IInv, BoardInv
<1> QED BY <1>1, Invariance, PTL

\* A submission that is saved counts at that moment, however stale its list is.
THEOREM SubmissionCounts == Spec => OwnSubmissionCounts
<1>1. ASSUME IInv, NEW r \in Requests, SaveBoard(r)
      PROVE  Counted(entries', req[r].user, req[r].result)
  BY <1>1 DEF IInv, RequestInv, SubmittedInv, SaveBoard
<1>2. IInv /\ [Next]_vars =>
        [\A r \in Requests : SaveBoard(r) => Counted(entries', req[r].user, req[r].result)]_vars
  BY <1>1
<1> QED BY <1>2, Invariance, PTL DEF Spec, OwnSubmissionCounts

\* A worse or equal resubmission leaves the board as it is, unless some save
\* replaced entries it had not read.
THEOREM ResubmissionKeepsBoard == Spec => ResubmissionIsNoOp
<1>1. ASSUME IInv, NEW r \in Requests, pc[r] = "save", IsResubmission(r), SaveBoard(r), ~raced'
      PROVE  entries' = entries
  <2> DEFINE u == req[r].user
             result == req[r].result
  <2>1. /\ u \in Users /\ result \in Results /\ SubmittedInv(r)
        /\ entries \in Seq(Entry) /\ Ranked(entries) /\ TopOfBest
        /\ best \in [Users -> Results \cup {NoResult}]
    BY <1>1 DEF IInv, TypeOK, BoardInv, RequestInv, SubmittedInv
  <2>2. ~raced /\ ~req[r].stale /\ entries' = req[r].list
    BY <1>1 DEF SaveBoard, IInv, RequestInv
  <2>3. best[u] \in Results /\ NotWorse(best[u], result) /\ Counted(entries, u, best[u])
    BY <1>1, <2>1, <2>2 DEF IsResubmission, TopOfBest
  <2>4. \A i \in DOMAIN entries : entries[i].result \in Results
    <3>1. \A i \in DOMAIN entries : entries[i] \in Entry
      BY <2>1
    <3> QED BY <3>1 DEF Entry
  <2>5. \A i \in DOMAIN entries :
          NotWorse(entries[i].result, best[u]) => NotWorse(entries[i].result, result)
    BY <2>1, <2>3, <2>4, ResultsOrdered
  <2>6. Counted(entries, u, result)
    BY <2>3, <2>5 DEF Counted
  <2>7. Own(r) \in Entry /\ Own(r).user = u /\ Own(r).result = result
    BY <2>1 DEF Own, Entry
  <2>8. SubmitEntry(entries, Own(r)) = entries
    BY <2>1, <2>6, <2>7, ResubmitChangesNothing
  <2> QED BY <2>1, <2>2, <2>8 DEF SubmittedInv
<1>2. IInv /\ [Next]_vars =>
        [\A r \in Requests :
           pc[r] = "save" /\ IsResubmission(r) /\ SaveBoard(r) /\ ~raced' => UNCHANGED entries]_vars
  BY <1>1
<1> QED BY <1>2, Invariance, PTL DEF Spec, ResubmissionIsNoOp
=============================================================================
