----------------------- MODULE CrossReference_proofs -----------------------
(* What a query of the cross-reference service makes of errors, and of the  *)
(* entries a server reports, for every set of files and lines, every limit  *)
(* and every size of a reply.                                               *)
EXTENDS CrossReference, FiniteSetTheorems, TLAPS

-----------------------------------------------------------------------------
(* Recursion over the entries of a reply. An operator as a parameter is    *)
(* beyond the provers, so induction and recursion are stated for sets and  *)
(* functions.                                                              *)

\* A set of numbers that holds 0 and every successor holds them all. Otherwise
\* there is a least interval whose end it misses.
LEMMA Induction ==
  ASSUME NEW T, 0 \in T, \A n \in Nat : n \in T => n + 1 \in T
  PROVE  \A n \in Nat : n \in T
<1> SUFFICES ASSUME NEW m \in Nat, m \notin T PROVE FALSE
  OBVIOUS
<1> DEFINE U == {1..n : n \in 0..m \ T}
<1>1. IsWellFoundedOn(StrictSubsetOrdering(1..m), SUBSET (1..m))
  <2>1. IsFiniteSet(1..m)
    BY FS_Interval
  <2>2. FiniteSubsetsOf(1..m) = SUBSET (1..m)
    BY <2>1, FS_FiniteSubsetsOfFinite
  <2>3. IsWellFoundedOn(StrictSubsetOrdering(1..m), FiniteSubsetsOf(1..m))
    BY FS_StrictSubsetOrderingWellFounded, Zenon
  <2> QED BY <2>2, <2>3, Zenon
<1>2. U \subseteq SUBSET (1..m) /\ U # {}
  OBVIOUS
<1>3. PICK x \in U : \A y \in U : <<y, x>> \notin StrictSubsetOrdering(1..m)
  <2> HIDE DEF U
  <2> QED BY <1>1, <1>2, WFMin
<1>4. PICK k \in 0..m \ T : x = 1..k
  OBVIOUS
<1>5. k # 0 /\ k - 1 \in 0..m /\ k - 1 \notin T
  OBVIOUS
<1>6. 1..(k - 1) \in U /\ 1..(k - 1) \subseteq 1..k /\ 1..(k - 1) # 1..k
  BY <1>5
<1> QED BY <1>2, <1>3, <1>4, <1>6 DEF StrictSubsetOrdering

\* The states of a loop of N turns.
Loop(c, N, C, base, step) ==
    /\ c \in [0..N -> C]
    /\ c[0] = base
    /\ \A n \in 1..N : c[n] = step[<<n, c[n - 1]>>]

\* A loop of N turns has a state after each of them.
LEMMA Recursion ==
  ASSUME NEW N \in Nat, NEW C, NEW base \in C, NEW step \in [(1..N) \X C -> C]
  PROVE  \E c : Loop(c, N, C, base, step)
<1> DEFINE T == {m \in Nat : m <= N => \E c : Loop(c, m, C, base, step)}
<1>1. 0 \in T
  <2>1. Loop([k \in 0..0 |-> base], 0, C, base, step)
    BY DEF Loop
  <2> QED BY <2>1
<1>2. ASSUME NEW m \in Nat, m \in T PROVE m + 1 \in T
  <2> SUFFICES ASSUME m + 1 <= N PROVE \E c : Loop(c, m + 1, C, base, step)
    BY <1>2
  <2>1. PICK c : Loop(c, m, C, base, step)
    BY <1>2
  <2> DEFINE d == [k \in 0..(m + 1) |-> IF k <= m THEN c[k] ELSE step[<<m + 1, c[m]>>]]
  <2>2. step[<<m + 1, c[m]>>] \in C
    BY <2>1 DEF Loop
  <2>3. d \in [0..(m + 1) -> C]
    BY <2>1, <2>2 DEF Loop
  <2>4. d[0] = base
    BY <2>1 DEF Loop
  <2>5. ASSUME NEW n \in 1..(m + 1) PROVE d[n] = step[<<n, d[n - 1]>>]
    <3>1. CASE n <= m
      BY <3>1, <2>1 DEF Loop
    <3>2. CASE n = m + 1
      BY <3>2
    <3> QED BY <3>1, <3>2
  <2>6. Loop(d, m + 1, C, base, step)
    <3> HIDE DEF d
    <3> QED BY <2>3, <2>4, <2>5 DEF Loop
  <2> QED BY <2>6
<1>3. \A m \in Nat : m \in T
  <2> HIDE DEF T
  <2> QED BY <1>1, <1>2, Induction
<1> QED BY <1>3

-----------------------------------------------------------------------------
(* The loop of compactLocations.                                           *)

\* What hits are told apart by.
Keys == {HitKey(p) : p \in Places}

\* What the loop of compactLocations keeps.
Kept == [seen : SUBSET Keys, hits : Seq(Places), total : Nat]

\* What it starts with.
Start == [seen |-> {}, hits |-> <<>>, total |-> 0]

\* A turn keeps it so, whatever the entry is.
LEMMA KeepType == ASSUME NEW c \in Kept, NEW entry PROVE Keep(c, entry) \in Kept
  BY DEF Keep, Kept, Keys

\* The turns of compactLocations, from the first to the last.
LEMMA TurnsAre ==
  ASSUME NEW entries, Len(entries) \in Nat
  PROVE  /\ Turns(entries) \in [0..Len(entries) -> Kept]
         /\ Turns(entries)[0] = Start
         /\ \A n \in 1..Len(entries) :
               Turns(entries)[n] = Keep(Turns(entries)[n - 1], entries[n])
<1> DEFINE N == Len(entries)
           step == [x \in (1..N) \X Kept |-> Keep(x[2], entries[x[1]])]
<1>1. step \in [(1..N) \X Kept -> Kept]
  BY KeepType
<1>2. Start \in Kept
  BY DEF Start, Kept
<1>3. PICK c : Loop(c, N, Kept, Start, step)
  <2>1. N \in Nat
    OBVIOUS
  <2> HIDE DEF N, step
  <2> QED BY <2>1, <1>1, <1>2, Recursion
<1>4. ASSUME NEW n \in 1..N PROVE c[n] = Keep(c[n - 1], entries[n])
  <2>1. c[n - 1] \in Kept
    BY <1>3 DEF Loop
  <2> QED BY <1>3, <2>1 DEF Loop
<1> DEFINE Turn(f) == [n \in 0..N |-> IF n = 0 THEN Start ELSE Keep(f[n - 1], entries[n])]
<1>5. c = Turn(c)
  BY <1>3, <1>4 DEF Loop
<1>6. Turns(entries) = Turn(Turns(entries))
  BY <1>5, Zenon DEF Turns, Start
<1>7. \A n \in 0..N : Turns(entries)[n] = IF n = 0 THEN Start ELSE Keep(Turns(entries)[n - 1], entries[n])
  BY <1>6
<1> DEFINE T == {n \in Nat : n <= N => Turns(entries)[n] \in Kept}
<1>8. 0 \in T
  BY <1>2, <1>7
<1>9. ASSUME NEW n \in Nat, n \in T PROVE n + 1 \in T
  BY <1>7, <1>9, KeepType
<1>10. \A n \in Nat : n \in T
  <2> HIDE DEF T
  <2> QED BY <1>8, <1>9, Induction
<1> QED BY <1>6, <1>7, <1>10

\* The first reports of each line, as Distinct has them, up to an entry.
First(entries) ==
    {i \in DOMAIN entries :
        /\ entries[i] \in Places
        /\ \A j \in 1..(i - 1) :
              entries[j] \in Places => LineOf(entries[j]) # LineOf(entries[i])}

Upto(entries, n) == {j \in First(entries) : j <= n}

\* What is known of them whatever the entries are.
LEMMA UptoIs ==
  ASSUME NEW entries \in Seq(Entries), NEW n \in Nat
  PROVE  /\ First(entries) \subseteq Nat /\ IsFiniteSet(First(entries))
         /\ IsFiniteSet(Upto(entries, n)) /\ Cardinality(Upto(entries, n)) \in Nat
<1>1. Len(entries) \in Nat /\ DOMAIN entries = 1..Len(entries)
  OBVIOUS
<1>2. First(entries) \subseteq 1..Len(entries) /\ Upto(entries, n) \subseteq 1..Len(entries)
  BY <1>1 DEF First, Upto
<1>3. IsFiniteSet(1..Len(entries))
  BY <1>1, FS_Interval
<1>4. 1..Len(entries) \subseteq Nat
  BY <1>1
<1>5. IsFiniteSet(First(entries)) /\ IsFiniteSet(Upto(entries, n))
  BY <1>2, <1>3, FS_Subset
<1> QED BY <1>2, <1>4, <1>5, FS_CardinalityType

\* No two of them have as many before them, so one is found by its number.
LEMMA RankUnique ==
  ASSUME NEW entries \in Seq(Entries), NEW i \in First(entries), NEW k \in First(entries),
         Cardinality(Upto(entries, i)) = Cardinality(Upto(entries, k))
  PROVE  i = k
<1>1. i \in Nat /\ k \in Nat
  BY UptoIs
<1>2. ASSUME NEW a \in First(entries), NEW b \in First(entries), a \in Nat, b \in Nat, a < b
      PROVE  Cardinality(Upto(entries, a)) < Cardinality(Upto(entries, b))
  <2>0. First(entries) \subseteq Nat
    BY <1>2, UptoIs
  <2>1. Upto(entries, a) \subseteq Upto(entries, b)
    BY <1>2, <2>0 DEF Upto
  <2>2. b \in Upto(entries, b) /\ b \notin Upto(entries, a)
    BY <1>2 DEF Upto
  <2>3. IsFiniteSet(Upto(entries, b))
    BY <1>2, UptoIs
  <2>4. Cardinality(Upto(entries, a)) \in Nat /\ Cardinality(Upto(entries, b)) \in Nat
    BY <1>2, UptoIs
  <2>5. /\ Cardinality(Upto(entries, a)) <= Cardinality(Upto(entries, b))
        /\ Cardinality(Upto(entries, a)) # Cardinality(Upto(entries, b))
    BY <2>1, <2>2, <2>3, FS_Subset
  <2> QED BY <2>4, <2>5
<1>3. Cardinality(Upto(entries, i)) \in Nat /\ Cardinality(Upto(entries, k)) \in Nat
  BY <1>1, UptoIs
<1>4. ~(i < k) /\ ~(k < i)
  BY <1>1, <1>2, <1>3
<1> QED BY <1>1, <1>4

\* The entry that Distinct takes for its n-th.
Nth(entries, n) ==
    entries[CHOOSE i \in First(entries) : Cardinality(Upto(entries, i)) = n]

\* A first report is the entry that its number stands for.
LEMMA NthIs ==
  ASSUME NEW entries \in Seq(Entries), NEW i \in First(entries)
  PROVE  Nth(entries, Cardinality(Upto(entries, i))) = entries[i]
<1> DEFINE n == Cardinality(Upto(entries, i))
           k == CHOOSE k \in First(entries) : Cardinality(Upto(entries, k)) = n
<1>1. k \in First(entries) /\ Cardinality(Upto(entries, k)) = n
  OBVIOUS
<1>2. k = i
  <2> HIDE DEF k
  <2> QED BY <1>1, RankUnique
<1> QED BY <1>2 DEF Nth

\* Distinct, in these terms.
LEMMA DistinctIs ==
  ASSUME NEW entries
  PROVE  Distinct(entries) = [n \in 1..Cardinality(First(entries)) |-> Nth(entries, n)]
  BY DEF Distinct, First, Nth, Upto

\* The smaller of two numbers.
Least(a, b) == IF a < b THEN a ELSE b

\* After n entries: the keys of all places among them, the number of their first
\* reports, and the first Limit of those.
LoopInv(entries, c, n) ==
    /\ c.seen = {HitKey(entries[i]) : i \in {j \in 1..n : entries[j] \in Places}}
    /\ c.total = Cardinality(Upto(entries, n))
    /\ Len(c.hits) = Least(c.total, Limit)
    /\ \A k \in 1..Len(c.hits) : c.hits[k] = Nth(entries, k)

\* A turn of the loop.
LEMMA KeepInv ==
  ASSUME NEW entries \in Seq(Entries), NEW n \in Nat, n + 1 <= Len(entries),
         NEW c \in Kept, LoopInv(entries, c, n)
  PROVE  LoopInv(entries, Keep(c, entries[n + 1]), n + 1)
<1> DEFINE e == entries[n + 1]
           d == Keep(c, e)
<1> SUFFICES LoopInv(entries, d, n + 1)
  OBVIOUS
<1>1. Len(entries) \in Nat /\ DOMAIN entries = 1..Len(entries) /\ n + 1 \in 1..Len(entries)
  OBVIOUS
<1>2. First(entries) \subseteq Nat
  BY UptoIs
<1>3. Limit \in Nat \ {0}
  BY CrossReferenceAssumption
<1>4. {j \in 1..(n + 1) : entries[j] \in Places} =
         {j \in 1..n : entries[j] \in Places} \cup (IF e \in Places THEN {n + 1} ELSE {})
  OBVIOUS
<1>5. n + 1 \in First(entries) <=> e \in Places /\ HitKey(e) \notin c.seen
  BY <1>1 DEF First, LoopInv, LineOf, HitKey
<1>6. CASE e \notin Places \/ HitKey(e) \in c.seen
  <2>1. d = c
    BY <1>6 DEF Keep
  <2>2. Upto(entries, n + 1) = Upto(entries, n)
    BY <1>2, <1>5, <1>6 DEF Upto
  <2>3. c.seen = {HitKey(entries[i]) : i \in {j \in 1..(n + 1) : entries[j] \in Places}}
    BY <1>4, <1>6 DEF LoopInv
  <2> HIDE DEF d
  <2> QED BY <2>1, <2>2, <2>3 DEF LoopInv
<1>7. CASE e \in Places /\ HitKey(e) \notin c.seen
  <2>1. /\ d.seen = c.seen \cup {HitKey(e)}
        /\ d.hits = IF Len(c.hits) >= Limit THEN c.hits ELSE Append(c.hits, e)
        /\ d.total = c.total + 1
    BY <1>7 DEF Keep
  <2>2. c.hits \in Seq(Places) /\ Len(c.hits) \in Nat /\ c.total \in Nat
    BY DEF Kept
  <2>3. n + 1 \in First(entries)
    BY <1>5, <1>7
  <2>4. Upto(entries, n + 1) = Upto(entries, n) \cup {n + 1} /\ n + 1 \notin Upto(entries, n)
    BY <1>2, <2>3 DEF Upto
  <2>5. Cardinality(Upto(entries, n + 1)) = c.total + 1
    BY <2>4, UptoIs, FS_AddElement DEF LoopInv
  <2>6. Nth(entries, c.total + 1) = e
    BY <2>3, <2>5, NthIs
  <2>7. d.seen = {HitKey(entries[i]) : i \in {j \in 1..(n + 1) : entries[j] \in Places}}
    <3>1. c.seen = {HitKey(entries[i]) : i \in {j \in 1..n : entries[j] \in Places}}
      BY DEF LoopInv
    <3> QED BY <1>4, <1>7, <2>1, <3>1
  <2>8. Len(d.hits) = Least(d.total, Limit)
    BY <1>3, <2>1, <2>2 DEF LoopInv, Least
  <2>9. ASSUME NEW k \in 1..Len(d.hits) PROVE d.hits[k] = Nth(entries, k)
    <3>1. CASE Len(c.hits) >= Limit
      BY <2>1, <3>1, <2>9 DEF LoopInv
    <3>2. CASE Len(c.hits) < Limit
      <4>1. d.hits = Append(c.hits, e)
        BY <1>3, <2>1, <2>2, <3>2
      <4>2. Len(c.hits) = c.total
        BY <1>3, <2>2, <3>2 DEF LoopInv, Least
      <4>3. CASE k = Len(c.hits) + 1
        BY <2>2, <2>6, <4>1, <4>2, <4>3
      <4>4. CASE k \in 1..Len(c.hits)
        BY <2>2, <4>1, <4>4 DEF LoopInv
      <4> QED BY <2>2, <4>1, <4>3, <4>4
    <3> QED BY <1>3, <2>2, <3>1, <3>2
  <2> HIDE DEF d
  <2> QED BY <2>1, <2>5, <2>7, <2>8, <2>9 DEF LoopInv
<1> QED BY <1>6, <1>7

\* The loop as a whole.
LEMMA CompactIs ==
  ASSUME NEW entries \in Seq(Entries)
  PROVE  /\ Compact(entries) \in Kept
         /\ LoopInv(entries, Compact(entries), Len(entries))
<1> DEFINE N == Len(entries)
           T == {n \in Nat : n <= N => LoopInv(entries, Turns(entries)[n], n)}
<1>1. N \in Nat
  OBVIOUS
<1>2. /\ Turns(entries) \in [0..N -> Kept]
      /\ Turns(entries)[0] = Start
      /\ \A n \in 1..N : Turns(entries)[n] = Keep(Turns(entries)[n - 1], entries[n])
  BY <1>1, TurnsAre
<1>3. 0 \in T
  <2>1. First(entries) \subseteq Nat /\ 0 \notin First(entries)
    BY DEF First
  <2>2. Upto(entries, 0) = {}
    BY <2>1 DEF Upto
  <2>3. Cardinality(Upto(entries, 0)) = 0
    BY <2>2, FS_EmptySet
  <2>4. LoopInv(entries, Start, 0)
    BY <2>3, CrossReferenceAssumption DEF LoopInv, Start, Least
  <2> QED BY <1>2, <2>4
<1>4. ASSUME NEW n \in Nat, n \in T PROVE n + 1 \in T
  <2> SUFFICES ASSUME n + 1 <= N PROVE LoopInv(entries, Turns(entries)[n + 1], n + 1)
    OBVIOUS
  <2>1. n <= N /\ n \in 0..N /\ n + 1 \in 1..N
    BY <1>1
  <2>2. LoopInv(entries, Turns(entries)[n], n) /\ Turns(entries)[n] \in Kept
    BY <1>2, <1>4, <2>1
  <2>3. Turns(entries)[n + 1] = Keep(Turns(entries)[n], entries[n + 1])
    BY <1>2, <2>1
  <2> QED BY <2>2, <2>3, KeepInv
<1>5. N \in T
  <2> HIDE DEF T
  <2> QED BY <1>1, <1>3, <1>4, Induction
<1> QED BY <1>1, <1>2, <1>5 DEF Compact

\* The first elements of a sequence, as many as the limit leaves.
Capped(all) == SubSeq(all, 1, Least(Len(all), Limit))

\* What compactLocations returns of a reply.
LEMMA CompactExact ==
  ASSUME NEW entries \in Seq(Entries)
  PROVE  /\ Compact(entries).total = Len(Distinct(entries))
         /\ Compact(entries).hits = Capped(Distinct(entries))
         /\ Compact(entries).total > 0 => Compact(entries).hits # <<>>
<1> DEFINE c == Compact(entries)
           N == Len(entries)
           all == Distinct(entries)
<1>1. N \in Nat /\ Limit \in Nat \ {0}
  BY CrossReferenceAssumption
<1>2. Upto(entries, N) = First(entries)
  BY DEF Upto, First
<1>3. /\ c.hits \in Seq(Places) /\ c.total \in Nat
      /\ c.total = Cardinality(First(entries))
      /\ Len(c.hits) = Least(c.total, Limit)
      /\ \A k \in 1..Len(c.hits) : c.hits[k] = Nth(entries, k)
  BY <1>2, CompactIs DEF LoopInv, Kept
<1>4. all = [n \in 1..c.total |-> Nth(entries, n)]
  BY <1>3, DistinctIs
<1> HIDE DEF c, all
<1>5. Len(all) = c.total
  BY <1>3, <1>4
<1>6. Least(Len(all), Limit) \in 0..Len(all)
  BY <1>1, <1>3, <1>5 DEF Least
<1>7. Capped(all) = [k \in 1..Least(Len(all), Limit) |-> all[k]]
  BY <1>6 DEF Capped
<1>8. c.hits = [k \in 1..Least(c.total, Limit) |-> Nth(entries, k)]
  <2>1. c.hits = [k \in 1..Len(c.hits) |-> c.hits[k]]
    BY <1>3
  <2> QED BY <1>3, <2>1
<1>9. c.hits = Capped(all)
  <2> DEFINE m == Least(c.total, Limit)
  <2>1. m \in 0..c.total
    BY <1>5, <1>6
  <2>2. \A k \in 1..m : all[k] = Nth(entries, k)
    BY <1>3, <1>4, <2>1
  <2>3. [k \in 1..m |-> all[k]] = [k \in 1..m |-> Nth(entries, k)]
    BY <2>2
  <2> HIDE DEF m
  <2> QED BY <1>5, <1>7, <1>8, <2>3 DEF m
<1>10. c.total > 0 => c.hits # <<>>
  BY <1>1, <1>3 DEF Least
<1> QED BY <1>5, <1>9, <1>10 DEF c, all

-----------------------------------------------------------------------------
(* Types of what a reply is read as.                                       *)

\* What is kept of a reply is a sequence of it.
LEMMA ThoseType ==
  ASSUME NEW entries, Len(entries) \in Nat, NEW kept
  PROVE  Those(entries, kept) \in Seq(kept)
<1> DEFINE N == Len(entries)
           step == [x \in (1..N) \X Seq(kept) |->
                       IF entries[x[1]] \in kept THEN Append(x[2], entries[x[1]]) ELSE x[2]]
           Turn(f) == [n \in 0..N |->
                          IF n = 0 THEN <<>>
                          ELSE IF entries[n] \in kept THEN Append(f[n - 1], entries[n])
                          ELSE f[n - 1]]
           S == CHOOSE s : s = Turn(s)
<1>1. step \in [(1..N) \X Seq(kept) -> Seq(kept)]
  OBVIOUS
<1>2. <<>> \in Seq(kept)
  OBVIOUS
<1>3. PICK c : Loop(c, N, Seq(kept), <<>>, step)
  <2>1. N \in Nat
    OBVIOUS
  <2> HIDE DEF N, step
  <2> QED BY <2>1, <1>1, <1>2, Recursion
<1>4. ASSUME NEW n \in 1..N
      PROVE  c[n] = IF entries[n] \in kept THEN Append(c[n - 1], entries[n]) ELSE c[n - 1]
  <2>1. c[n - 1] \in Seq(kept)
    BY <1>3 DEF Loop
  <2> QED BY <1>3, <2>1 DEF Loop
<1>5. c = Turn(c)
  <2>1. c = [n \in 0..N |-> c[n]] /\ c[0] = <<>>
    BY <1>3 DEF Loop
  <2>2. ASSUME NEW n \in 0..N PROVE c[n] = Turn(c)[n]
    <3>1. CASE n = 0
      BY <2>1, <3>1
    <3>2. CASE n \in 1..N
      BY <1>4, <3>2
    <3> QED BY <3>1, <3>2
  <2> QED BY <2>1, <2>2
<1>6. S = Turn(S)
  <2> HIDE DEF Turn
  <2> QED BY <1>5
<1>7. Those(entries, kept) = S[N]
  BY Zenon DEF Those
<1> HIDE DEF S
<1>8. \A n \in 0..N : S[n] = IF n = 0 THEN <<>>
                             ELSE IF entries[n] \in kept THEN Append(S[n - 1], entries[n])
                             ELSE S[n - 1]
  BY <1>6
<1> DEFINE T == {n \in Nat : n <= N => S[n] \in Seq(kept)}
<1>9. 0 \in T
  <2>1. S[0] = <<>>
    BY <1>8
  <2> QED BY <1>2, <2>1
<1>10. ASSUME NEW n \in Nat, n \in T PROVE n + 1 \in T
  <2> SUFFICES ASSUME n + 1 <= N PROVE S[n + 1] \in Seq(kept)
    OBVIOUS
  <2>1. S[n] \in Seq(kept)
    BY <1>10
  <2>2. S[n + 1] = IF entries[n + 1] \in kept THEN Append(S[n], entries[n + 1]) ELSE S[n]
    BY <1>8
  <2> QED BY <2>1, <2>2
<1>11. N \in T
  <2> HIDE DEF T
  <2> QED BY <1>9, <1>10, Induction
<1> QED BY <1>7, <1>11

\* The entries of all callers are the entries of one reply.
LEMMA FlattenType ==
  ASSUME NEW C, NEW seqs \in Seq(Seq(C))
  PROVE  FlattenSeq(seqs) \in Seq(C)
<1> DEFINE N == Len(seqs)
           step == [x \in (1..N) \X Seq(C) |->
                       IF x[1] = 1 THEN seqs[x[1]] ELSE x[2] \o seqs[x[1]]]
           Turn(f) == [i \in 1..N |-> IF i = 1 THEN seqs[i] ELSE f[i - 1] \o seqs[i]]
           S == CHOOSE s : s = Turn(s)
<1>1. \A i \in 1..N : seqs[i] \in Seq(C)
  OBVIOUS
<1>2. step \in [(1..N) \X Seq(C) -> Seq(C)]
  BY <1>1
<1>3. PICK c : Loop(c, N, Seq(C), <<>>, step)
  <2>1. N \in Nat /\ <<>> \in Seq(C)
    OBVIOUS
  <2> HIDE DEF N, step
  <2> QED BY <2>1, <1>2, Recursion
<1> DEFINE d == [i \in 1..N |-> c[i]]
<1>4. ASSUME NEW n \in 1..N
      PROVE  c[n] = IF n = 1 THEN seqs[n] ELSE c[n - 1] \o seqs[n]
  <2>1. c \in [0..N -> Seq(C)] /\ c[n] = step[<<n, c[n - 1]>>]
    <3> HIDE DEF step
    <3> QED BY <1>3 DEF Loop
  <2>2. n - 1 \in 0..N
    OBVIOUS
  <2>3. c[n - 1] \in Seq(C)
    <3> HIDE DEF N
    <3> QED BY <2>1, <2>2
  <2> QED BY <2>1, <2>3
<1>5. d = Turn(d)
  BY <1>4
<1>6. S = Turn(S)
  <2> HIDE DEF Turn, d
  <2> QED BY <1>5
<1>7. N # 0 => FlattenSeq(seqs) = S[N]
  BY Zenon DEF FlattenSeq
<1>8. N = 0 => FlattenSeq(seqs) = <<>>
  BY DEF FlattenSeq
<1> HIDE DEF S
<1>9. \A n \in 1..N : S[n] = IF n = 1 THEN seqs[n] ELSE S[n - 1] \o seqs[n]
  BY <1>6
<1> DEFINE T == {n \in Nat : n \in 1..N => S[n] \in Seq(C)}
<1>10. 0 \in T
  OBVIOUS
<1>11. ASSUME NEW n \in Nat, n \in T PROVE n + 1 \in T
  <2> SUFFICES ASSUME n + 1 \in 1..N PROVE S[n + 1] \in Seq(C)
    OBVIOUS
  <2>1. S[n + 1] = IF n = 0 THEN seqs[n + 1] ELSE S[n] \o seqs[n + 1]
    <3>1. n + 1 - 1 = n /\ (n + 1 = 1 <=> n = 0)
      OBVIOUS
    <3>2. S[n + 1] = IF n + 1 = 1 THEN seqs[n + 1] ELSE S[n + 1 - 1] \o seqs[n + 1]
      <4> HIDE DEF N
      <4> QED BY <1>9
    <3> QED BY <3>1, <3>2
  <2>2. n # 0 => S[n] \in Seq(C)
    BY <1>11
  <2> QED BY <1>1, <2>1, <2>2
<1>12. N \in T
  <2> HIDE DEF T
  <2> QED BY <1>10, <1>11, Induction
<1> QED BY <1>7, <1>8, <1>12

\* A sequence of at most n elements is a sequence.
LEMMA BoundedType ==
  ASSUME NEW C, NEW n \in Nat, NEW s \in BoundedSeq(C, n)
  PROVE  s \in Seq(C) /\ Len(s) \in 0..n
  BY DEF BoundedSeq, SeqOf

\* What decodeLocations returns are entries of the reply.
LEMMA DecodeType ==
  ASSUME NEW entries \in Seq(Entries), NEW shape
  PROVE  Decode(shape, entries) \in Seq(Entries)
<1>1. Those(entries, Entries \ {Empty}) \in Seq(Entries \ {Empty})
  BY ThoseType
<1>2. Those(entries, Entries \ {Empty}) \in Seq(Entries)
  BY <1>1
<1> QED BY <1>2 DEF Decode

\* The call sites of a caller are entries.
LEMMA SitesType == ASSUME NEW caller \in Callers PROVE Sites(caller) \in Seq(Entries)
<1> DEFINE lines == IF caller.from = <<>> THEN <<caller.at>> ELSE caller.from
<1>1. /\ caller.uri \in Files \cup {Foreign} /\ caller.at \in Lines
      /\ caller.from \in BoundedSeq(Lines, 2)
  BY DEF Callers
<1>2. lines \in Seq(Lines)
  BY <1>1, BoundedType
<1> HIDE DEF lines
<1>3. ASSUME NEW i \in DOMAIN lines
      PROVE  (IF caller.uri = Foreign THEN Foreign
              ELSE [repo |-> caller.uri.repo, file |-> caller.uri.file, line |-> lines[i]])
                \in Entries
  <2>1. lines[i] \in Lines
    BY <1>2
  <2> QED BY <1>1, <2>1 DEF Entries, Places
<1>4. Sites(caller) = [i \in DOMAIN lines |->
                          IF caller.uri = Foreign THEN Foreign
                          ELSE [repo |-> caller.uri.repo, file |-> caller.uri.file,
                                line |-> lines[i]]]
  BY DEF Sites, lines
<1>5. DOMAIN lines = 1..Len(lines) /\ Len(lines) \in Nat
  BY <1>2
<1> QED BY <1>3, <1>4, <1>5

\* What relatives returns, of a reply whose size is bounded.
LEMMA RelativesType ==
  ASSUME NEW entries \in Replies
  PROVE  Relatives(entries) \in Side
<1>1. entries \in Seq(Entries) /\ Len(entries) \in 0..MaxItems
  BY CrossReferenceAssumption, BoundedType DEF Replies
<1> DEFINE usable == Those(entries, Places)
           n == IF Len(usable) < Limit THEN Len(usable) ELSE Limit
<1>2. usable \in Seq(Places)
  BY <1>1, ThoseType
<1> HIDE DEF usable
<1>3. n \in 0..Len(usable)
  BY <1>2, CrossReferenceAssumption
<1>4. SubSeq(usable, 1, n) \in Seq(Places)
  BY <1>2, <1>3
<1> QED BY <1>1, <1>4 DEF Relatives, Side, usable

-----------------------------------------------------------------------------
(* What a query makes of errors: the inductive invariant, part by part.    *)

\* The round trips of each query. Both directions of calls share theirs.
QueryOwnsPlace ==
    /\ tool \in Tools
    /\ pc = "references" => tool = "references"
    /\ pc \in {"prepareCalls", "calls"} => tool \in {"incoming", "outgoing"}

\* Only these queries fail with a missing method.
UnsupportedFails == err = "unsupported" => tool \in {"references", "incoming", "outgoing"}

\* Whoever has found the session ended has not gone further than to the next
\* call, which fails as well. Only the lookup of a definition goes on at all.
LostStays ==
    /\ lost \in BOOLEAN
    /\ lost => session = "ended" /\ pc \in {"definition", "prepareTypes", "failed"}

IInv == QueryOwnsPlace /\ UnsupportedFails /\ LostStays

-----------------------------------------------------------------------------

\* A query starts with nothing lost, at the place all queries share.
LEMMA InitIInv == Init => IInv
  BY DEF Init, IInv, QueryOwnsPlace, UnsupportedFails, LostStays

-----------------------------------------------------------------------------
(* What a round trip does to everything but the answer.                    *)

\* The call is answered and the query goes on to a place.
Advances(to) ==
    /\ session = "up"
    /\ pc' = to
    /\ UNCHANGED <<tool, session, err, lost>>

\* The call fails and so does the query.
Breaks(e) ==
    /\ CallFails(e)
    /\ pc' = "failed"
    /\ err' = e

\* The call fails and the query goes on to a place.
Skips(e, to) ==
    /\ CallFails(e)
    /\ pc' = to
    /\ UNCHANGED err

\* What a failed call can be, and what it leaves of the session.
LEMMA FailedCall ==
  ASSUME LostStays, NEW e, CallFails(e)
  PROVE  /\ tool' = tool
         /\ lost' \in BOOLEAN
         /\ lost' => e = "ended" /\ session' = "ended"
         /\ e # "ended" => session = "up" /\ session' = session
  BY DEF LostStays, CallFails, Failures

\* After an answered call nothing is lost, so any place will do that is not the
\* first round trip of another query.
LEMMA AdvancesKeeps ==
  ASSUME IInv, NEW to, Advances(to),
         to # "references",
         to \in {"prepareCalls", "calls"} => tool \in {"incoming", "outgoing"}
  PROVE  IInv'
  BY DEF IInv, QueryOwnsPlace, UnsupportedFails, LostStays, Advances

\* A query that fails with a missing method is one of those that may.
LEMMA BreaksKeeps ==
  ASSUME IInv, NEW e, Breaks(e),
         e = "unsupported" => tool \in {"references", "incoming", "outgoing"}
  PROVE  IInv'
  BY FailedCall DEF IInv, QueryOwnsPlace, UnsupportedFails, LostStays, Breaks

\* A query that goes on after the end of the session does so at a place where it
\* makes a further call.
LEMMA SkipsKeeps ==
  ASSUME IInv, NEW e, NEW to, Skips(e, to),
         to \notin {"references", "prepareCalls", "calls"},
         e = "ended" => to \in {"definition", "prepareTypes"}
  PROVE  IInv'
  BY FailedCall DEF IInv, QueryOwnsPlace, UnsupportedFails, LostStays, Skips

\* Every step of a query and of its session keeps the invariant.
LEMMA StepIInv == IInv /\ [Next]_vars => IInv'
<1> SUFFICES ASSUME IInv, [Next]_vars PROVE IInv'
  OBVIOUS
<1>1. CASE Resolve
  BY <1>1 DEF Resolve, Goto, Fail, Tools, IInv, QueryOwnsPlace, UnsupportedFails, LostStays
<1>2. CASE FindReferences
  <2>1. Advances("answered") \/ \E e : Breaks(e)
    BY <1>2 DEF FindReferences, Report, Replied, Goto, QueryFails, Fail, Advances, Breaks
  <2>2. tool = "references"
    BY <1>2 DEF FindReferences, IInv, QueryOwnsPlace
  <2> QED BY <2>1, <2>2, AdvancesKeeps, BreaksKeeps
<1>3. CASE PrepareCalls
  <2>1. Advances("calls") \/ Advances("answered") \/ \E e : Breaks(e)
    BY <1>3 DEF PrepareCalls, Replied, Goto, QueryFails, Fail, Advances, Breaks
  <2>2. tool \in {"incoming", "outgoing"}
    BY <1>3 DEF PrepareCalls, IInv, QueryOwnsPlace
  <2> QED BY <2>1, <2>2, AdvancesKeeps, BreaksKeeps
<1>4. CASE Incoming
  <2>1. Advances("answered") \/ \E e : Breaks(e)
    BY <1>4 DEF Incoming, Report, Replied, Goto, QueryFails, Fail, Advances, Breaks
  <2>2. tool = "incoming"
    BY <1>4 DEF Incoming
  <2> QED BY <2>1, <2>2, AdvancesKeeps, BreaksKeeps
<1>5. CASE Outgoing
  <2>1. Advances("answered") \/ \E e : Breaks(e)
    BY <1>5 DEF Outgoing, Report, Replied, Goto, QueryFails, Fail, Advances, Breaks
  <2>2. tool = "outgoing"
    BY <1>5 DEF Outgoing
  <2> QED BY <2>1, <2>2, AdvancesKeeps, BreaksKeeps
<1>6. CASE Implementations
  <2>1. \/ Advances("answered")
        \/ \E e : e = "unsupported" /\ Skips(e, "answered")
        \/ \E e : e # "unsupported" /\ Breaks(e)
    BY <1>6 DEF Implementations, Report, Replied, Goto, Fail, Tolerated, Advances, Skips, Breaks
  <2> QED BY <2>1, AdvancesKeeps, SkipsKeeps, BreaksKeeps
<1>7. CASE TypeDefinition
  <2>1. \/ Advances("prepareTypes") \/ Advances("definition")
        \/ \E e : Skips(e, "definition")
    BY <1>7 DEF TypeDefinition, SeekDefinition, Replied, Goto, Advances, Skips
  <2> QED BY <2>1, AdvancesKeeps, SkipsKeeps
<1>8. CASE Definition
  <2>1. Advances("prepareTypes") \/ \E e : Skips(e, "prepareTypes")
    BY <1>8 DEF Definition, SeekDefinition, Replied, Goto, Advances, Skips
  <2> QED BY <2>1, AdvancesKeeps, SkipsKeeps
<1>9. CASE PrepareTypes
  <2>1. \/ Advances(FirstSide) \/ Advances("answered")
        \/ \E e : e = "unsupported" /\ Skips(e, "answered")
        \/ \E e : e # "unsupported" /\ Breaks(e)
    BY <1>9 DEF PrepareTypes, NoHierarchy, Replied, Goto, Fail, Tolerated, Advances, Skips, Breaks
  <2>2. FirstSide \in {"supertypes", "subtypes"}
    BY DEF FirstSide
  <2> QED BY <2>1, <2>2, AdvancesKeeps, SkipsKeeps, BreaksKeeps
<1>10. CASE Supertypes
  <2> DEFINE next == IF "subtypes" \in sides THEN "subtypes" ELSE "answered"
  <2>1. \/ Advances(next)
        \/ \E e : e = "unsupported" /\ Skips(e, next)
        \/ \E e : e # "unsupported" /\ Breaks(e)
    BY <1>10 DEF Supertypes, AskSide, Replied, Goto, Fail, Tolerated, Advances, Skips, Breaks
  <2>2. next \in {"subtypes", "answered"}
    OBVIOUS
  <2> HIDE DEF next
  <2> QED BY <2>1, <2>2, AdvancesKeeps, SkipsKeeps, BreaksKeeps
<1>11. CASE Subtypes
  <2>1. \/ Advances("answered")
        \/ \E e : e = "unsupported" /\ Skips(e, "answered")
        \/ \E e : e # "unsupported" /\ Breaks(e)
    BY <1>11 DEF Subtypes, AskSide, Replied, Goto, Fail, Tolerated, Advances, Skips, Breaks
  <2> QED BY <2>1, AdvancesKeeps, SkipsKeeps, BreaksKeeps
<1>12. CASE SessionEnds
  BY <1>12 DEF SessionEnds, IInv, QueryOwnsPlace, UnsupportedFails, LostStays
<1>13. CASE UNCHANGED vars
  BY <1>13 DEF vars, IInv, QueryOwnsPlace, UnsupportedFails, LostStays
<1> QED BY <1>1, <1>2, <1>3, <1>4, <1>5, <1>6, <1>7, <1>8, <1>9, <1>10, <1>11,
           <1>12, <1>13 DEF Next

-----------------------------------------------------------------------------
(* What a query has found.                                                 *)

\* Only the type hierarchy asks for definitions and for relatives, and for those
\* after it was given an item.
HierarchyOwnsPlace ==
    /\ pc \in {"typeDefinition", "definition", "prepareTypes", "supertypes", "subtypes"} =>
          tool = "hierarchy"
    /\ pc \in {"supertypes", "subtypes"} => answer.rooted

\* The hits are those of the entries they are made from, none before a reply.
Compacted ==
    /\ answer.total = Len(Distinct(reported))
    /\ answer.hits = Capped(Distinct(reported))

\* The inductive invariant of the answer.
AnswerInv == TypeOK /\ HierarchyOwnsPlace /\ Compacted /\ EmptyAnswersHint

\* A query starts with nothing found and nothing reported.
LEMMA InitAnswer == Init => AnswerInv
<1> SUFFICES ASSUME Init PROVE AnswerInv
  OBVIOUS
<1>1. NoSide \in Side
  BY CrossReferenceAssumption DEF NoSide, Side
<1>2. answer \in Answers
  BY <1>1 DEF Init, NoAnswer, Answers
<1>3. TypeOK
  <2>1. {"supertypes"} \in (SUBSET {"supertypes", "subtypes"}) \ {{}}
    OBVIOUS
  <2>2. sides \in (SUBSET {"supertypes", "subtypes"}) \ {{}}
    BY <2>1 DEF Init
  <2>3. reported \in Seq(Entries)
    BY DEF Init
  <2> QED BY <1>2, <2>2, <2>3 DEF Init, TypeOK
<1>4. reported = <<>> /\ reported \in Seq(Entries) /\ answer.total = 0 /\ answer.hits = <<>>
  BY DEF Init, NoAnswer
<1>5. First(<<>>) = {}
  BY DEF First
<1>6. Distinct(<<>>) = <<>>
  BY <1>5, DistinctIs, FS_EmptySet
<1>7. Least(0, Limit) = 0
  BY CrossReferenceAssumption DEF Least
<1>8. Compacted
  BY <1>4, <1>6, <1>7 DEF Compacted, Capped
<1> QED BY <1>3, <1>8 DEF AnswerInv, HierarchyOwnsPlace, EmptyAnswersHint, Init

\* An answer made of compacted entries.
LEMMA ReportAnswers ==
  ASSUME AnswerInv, NEW entries \in Seq(Entries), Report(entries)
  PROVE  AnswerInv'
<1> DEFINE c == Compact(entries)
           hint == HintFor(entries, c.total)
<1>1. /\ c.total = Len(Distinct(entries)) /\ c.hits = Capped(Distinct(entries))
      /\ c.total > 0 => c.hits # <<>>
      /\ c.hits \in Seq(Places) /\ c.total \in Nat
  BY CompactExact, CompactIs DEF Kept
<1>2. answer \in Answers
  BY DEF AnswerInv, TypeOK
<1>3. hint \in {"none", "fallback", "other"} /\ (c.total = 0 => hint # "none")
  BY DEF HintFor
<1>4. /\ answer' = [answer EXCEPT !.hits = c.hits, !.total = c.total, !.hint = hint]
      /\ reported' = entries /\ pc' = "answered"
      /\ UNCHANGED <<tool, sides, session, err, lost>>
  BY DEF Report, Replied, Goto
<1> HIDE DEF c, hint
<1>5. /\ answer' \in Answers /\ answer'.hits = c.hits /\ answer'.total = c.total
      /\ answer'.hint = hint
  BY <1>1, <1>2, <1>3, <1>4 DEF Answers
<1>6. TypeOK'
  BY <1>4, <1>5 DEF AnswerInv, TypeOK
<1>7. Compacted'
  BY <1>1, <1>4, <1>5 DEF Compacted
<1>8. EmptyAnswersHint'
  BY <1>1, <1>3, <1>5 DEF EmptyAnswersHint
<1> QED BY <1>4, <1>6, <1>7, <1>8 DEF AnswerInv, HierarchyOwnsPlace

\* A query that fails, with its call or before it.
LEMMA FailAnswers ==
  ASSUME AnswerInv, NEW e, CallFails(e), Fail(e)
  PROVE  AnswerInv'
  BY DEF AnswerInv, TypeOK, HierarchyOwnsPlace, Compacted, EmptyAnswersHint, CallFails,
         Failures, Fail

\* A round trip, answered or not, that leaves the hits alone and goes on to a place.
OnTo(to) ==
    /\ pc' = to
    /\ \/ Replied
       \/ (\E e : CallFails(e)) /\ UNCHANGED err
    /\ UNCHANGED reported
    /\ answer' \in Answers /\ answer'.hits = answer.hits /\ answer'.total = answer.total

\* It sets a hint when it ends a query that is not answered by an item.
LEMMA GoesOn ==
  ASSUME AnswerInv, NEW to, OnTo(to),
         to \in {"calls", "answered", "definition", "prepareTypes", "supertypes", "subtypes"},
         to \notin {"calls", "answered"} => tool = "hierarchy",
         to \in {"supertypes", "subtypes"} => answer'.rooted,
         to = "answered" => answer'.hint # "none" \/ (tool = "hierarchy" /\ answer'.rooted)
  PROVE  AnswerInv'
<1>1. /\ UNCHANGED <<tool, sides, reported, err>> /\ lost' \in BOOLEAN
      /\ session' \in {"up", "ended"}
  BY DEF OnTo, Replied, CallFails, AnswerInv, TypeOK
<1>2. TypeOK'
  BY <1>1 DEF OnTo, AnswerInv, TypeOK
<1>3. Compacted'
  BY <1>1 DEF OnTo, AnswerInv, Compacted
<1>4. HierarchyOwnsPlace'
  BY <1>1 DEF OnTo, HierarchyOwnsPlace
<1>5. EmptyAnswersHint'
  BY <1>1 DEF OnTo, EmptyAnswersHint
<1> QED BY <1>2, <1>3, <1>4, <1>5 DEF AnswerInv

\* A reply of the server is a sequence of entries.
LEMMA ReplyType == ASSUME NEW entries \in Replies PROVE entries \in Seq(Entries)
  BY BoundedType, CrossReferenceAssumption DEF Replies

\* Every step of a query and of its session keeps what is known of the answer.
LEMMA StepAnswer == AnswerInv /\ [Next]_vars => AnswerInv'
<1> SUFFICES ASSUME AnswerInv, [Next]_vars PROVE AnswerInv'
  OBVIOUS
<1>0. /\ answer \in Answers /\ tool \in Tools /\ sides \in (SUBSET {"supertypes", "subtypes"}) \ {{}}
      /\ HierarchyOwnsPlace
  BY DEF AnswerInv, TypeOK
<1>1. CASE Resolve
  BY <1>1 DEF Resolve, Goto, Fail, Tools, AnswerInv, TypeOK, HierarchyOwnsPlace, Compacted,
              EmptyAnswersHint
<1>2. CASE FindReferences
  BY <1>2, ReplyType, ReportAnswers, FailAnswers DEF FindReferences, QueryFails
<1>3. CASE PrepareCalls
  <2>1. CASE QueryFails
    BY <2>1, FailAnswers DEF QueryFails
  <2>2. CASE /\ Replied /\ UNCHANGED reported /\ pc' = "calls"
             /\ answer' = [answer EXCEPT !.rooted = TRUE]
    <3>1. answer' \in Answers /\ answer'.hits = answer.hits /\ answer'.total = answer.total
      BY <1>0, <2>2 DEF Answers
    <3>2. OnTo("calls")
      BY <2>2, <3>1 DEF OnTo
    <3> QED BY <3>2, GoesOn
  <2>3. CASE /\ Replied /\ UNCHANGED reported /\ pc' = "answered"
             /\ answer' = [answer EXCEPT !.hint = "fallback"]
    <3>1. /\ answer' \in Answers /\ answer'.hits = answer.hits /\ answer'.total = answer.total
          /\ answer'.hint = "fallback"
      BY <1>0, <2>3 DEF Answers
    <3> QED BY <2>3, <3>1, GoesOn DEF OnTo
  <2> QED BY <1>3, <2>1, <2>2, <2>3 DEF PrepareCalls, Goto
<1>4. CASE Incoming
  <2>1. CASE QueryFails
    BY <2>1, FailAnswers DEF QueryFails
  <2>2. ASSUME NEW callers \in BoundedSeq(Callers, 2),
               Report(FlattenSeq([i \in DOMAIN callers |-> Sites(callers[i])]))
        PROVE  AnswerInv'
    <3> DEFINE seqs == [i \in DOMAIN callers |-> Sites(callers[i])]
    <3>1. callers \in Seq(Callers)
      BY BoundedType
    <3>2. \A i \in DOMAIN callers : Sites(callers[i]) \in Seq(Entries)
      BY <3>1, SitesType
    <3>3. DOMAIN callers = 1..Len(callers) /\ Len(callers) \in Nat
      BY <3>1
    <3>4. seqs \in Seq(Seq(Entries))
      BY <3>2, <3>3
    <3> HIDE DEF seqs
    <3>5. FlattenSeq(seqs) \in Seq(Entries)
      BY <3>4, FlattenType
    <3> QED BY <2>2, <3>5, ReportAnswers DEF seqs
  <2> QED BY <1>4, <2>1, <2>2 DEF Incoming
<1>5. CASE Outgoing
  BY <1>5, ReplyType, ReportAnswers, FailAnswers DEF Outgoing, QueryFails
<1>6. CASE Implementations
  <2>1. ASSUME NEW entries \in Replies, NEW shape \in Shapes, Report(Decode(shape, entries))
        PROVE  AnswerInv'
    BY <2>1, ReplyType, DecodeType, ReportAnswers
  <2>2. ASSUME NEW e, CallFails(e), Fail(e) PROVE AnswerInv'
    BY <2>2, FailAnswers
  <2>3. ASSUME NEW e, CallFails(e), answer' = [answer EXCEPT !.hint = "other"],
               pc' = "answered", UNCHANGED err
        PROVE  AnswerInv'
    <3>1. /\ answer' \in Answers /\ answer'.hits = answer.hits /\ answer'.total = answer.total
          /\ answer'.hint = "other" /\ UNCHANGED reported
      BY <1>0, <2>3 DEF Answers, CallFails
    <3> QED BY <2>3, <3>1, GoesOn DEF OnTo
  <2> QED BY <1>6, <2>1, <2>2, <2>3 DEF Implementations, Goto
<1>7. ASSUME NEW next \in {"definition", "prepareTypes"}, SeekDefinition(next), tool = "hierarchy"
      PROVE  AnswerInv'
  <2>1. ASSUME NEW to \in {"definition", "prepareTypes"}, pc' = to, UNCHANGED <<answer, reported>>,
               Replied \/ ((\E e : CallFails(e)) /\ UNCHANGED err)
        PROVE  AnswerInv'
    BY <1>0, <1>7, <2>1, GoesOn DEF OnTo
  <2>2. ASSUME NEW entries \in Replies, NEW shape \in Shapes,
               Replied, UNCHANGED reported, pc' = "prepareTypes",
               Decode(shape, entries)[1] \in Places,
               answer' = [answer EXCEPT !.definition = Decode(shape, entries)[1]]
        PROVE  AnswerInv'
    <3>1. answer' \in Answers /\ answer'.hits = answer.hits /\ answer'.total = answer.total
      BY <1>0, <2>2 DEF Answers
    <3> QED BY <1>7, <2>2, <3>1, GoesOn DEF OnTo
  <2>3. CASE Replied /\ UNCHANGED reported /\
             \E entries \in Replies, shape \in Shapes :
                LET found == Decode(shape, entries)
                IN  IF found # <<>> /\ found[1] \in Places
                    THEN /\ answer' = [answer EXCEPT !.definition = found[1]]
                         /\ pc' = "prepareTypes"
                    ELSE pc' = next /\ UNCHANGED answer
    BY <2>1, <2>2, <2>3
  <2>4. CASE (\E e \in Failures : CallFails(e)) /\ pc' = next /\ UNCHANGED <<err, answer>>
    <3>1. UNCHANGED reported
      BY <2>4 DEF CallFails
    <3> QED BY <2>1, <2>4, <3>1
  <2> QED BY <1>7, <2>3, <2>4 DEF SeekDefinition, Goto
<1>8. CASE TypeDefinition
  BY <1>0, <1>7, <1>8 DEF TypeDefinition, HierarchyOwnsPlace
<1>9. CASE Definition
  BY <1>0, <1>7, <1>9 DEF Definition, HierarchyOwnsPlace
<1>10. CASE PrepareTypes
  <2>1. tool = "hierarchy"
    BY <1>0, <1>10 DEF PrepareTypes, HierarchyOwnsPlace
  <2>2. CASE /\ Replied /\ UNCHANGED reported /\ pc' = FirstSide
             /\ answer' = [answer EXCEPT !.rooted = TRUE]
    <3>1. /\ answer' \in Answers /\ answer'.hits = answer.hits /\ answer'.total = answer.total
          /\ answer'.rooted
      BY <1>0, <2>2 DEF Answers
    <3>2. FirstSide \in {"supertypes", "subtypes"}
      BY DEF FirstSide
    <3> QED BY <2>1, <2>2, <3>1, <3>2, GoesOn DEF OnTo
  <2>3. ASSUME (Replied /\ UNCHANGED reported) \/ ((\E e : CallFails(e)) /\ UNCHANGED err),
              NoHierarchy
        PROVE  AnswerInv'
    <3> DEFINE hint == IF answer.definition = None THEN "fallback" ELSE "other"
    <3>1. answer' = [answer EXCEPT !.hint = hint] /\ pc' = "answered"
      BY <2>3 DEF NoHierarchy, Goto
    <3>2. hint \in {"fallback", "other"}
      OBVIOUS
    <3> HIDE DEF hint
    <3>3. /\ answer' \in Answers /\ answer'.hits = answer.hits /\ answer'.total = answer.total
          /\ answer'.hint = hint
      BY <1>0, <3>1, <3>2 DEF Answers
    <3>4. UNCHANGED reported
      BY <2>3 DEF CallFails
    <3> QED BY <2>3, <3>1, <3>2, <3>3, <3>4, GoesOn DEF OnTo
  <2>4. ASSUME NEW e, CallFails(e), Fail(e) PROVE AnswerInv'
    BY <2>4, FailAnswers
  <2> QED BY <1>10, <2>2, <2>3, <2>4 DEF PrepareTypes, Goto
<1>11. ASSUME NEW next \in {"subtypes", "answered"}, AskSide(next), pc \in {"supertypes", "subtypes"}
       PROVE  AnswerInv'
  <2>1. tool = "hierarchy" /\ answer.rooted
    BY <1>0, <1>11 DEF HierarchyOwnsPlace
  <2>2. ASSUME NEW entries \in Replies, answer' = [answer EXCEPT ![pc] = Relatives(entries)],
               Replied, pc' = next, UNCHANGED reported
        PROVE  AnswerInv'
    <3>1. Relatives(entries) \in Side
      BY RelativesType
    <3>2. CASE pc = "supertypes"
      <4>1. answer' = [answer EXCEPT !.supertypes = Relatives(entries)]
        BY <2>2, <3>2
      <4>2. /\ answer' \in Answers /\ answer'.hits = answer.hits /\ answer'.total = answer.total
            /\ answer'.rooted
        BY <1>0, <2>1, <3>1, <4>1 DEF Answers
      <4> QED BY <2>1, <2>2, <4>2, GoesOn DEF OnTo
    <3>3. CASE pc = "subtypes"
      <4>1. answer' = [answer EXCEPT !.subtypes = Relatives(entries)]
        BY <2>2, <3>3
      <4>2. /\ answer' \in Answers /\ answer'.hits = answer.hits /\ answer'.total = answer.total
            /\ answer'.rooted
        BY <1>0, <2>1, <3>1, <4>1 DEF Answers
      <4> QED BY <2>1, <2>2, <4>2, GoesOn DEF OnTo
    <3> QED BY <1>11, <3>2, <3>3
  <2>3. ASSUME NEW e, CallFails(e), pc' = next, UNCHANGED <<err, answer>> PROVE AnswerInv'
    <3>1. UNCHANGED reported
      BY <2>3 DEF CallFails
    <3> QED BY <1>0, <2>1, <2>3, <3>1, GoesOn DEF OnTo
  <2>4. ASSUME NEW e, CallFails(e), Fail(e) PROVE AnswerInv'
    BY <2>4, FailAnswers
  <2> QED BY <1>11, <2>2, <2>3, <2>4 DEF AskSide, Goto
<1>12. CASE Supertypes
  <2> DEFINE next == IF "subtypes" \in sides THEN "subtypes" ELSE "answered"
  <2>1. next \in {"subtypes", "answered"} /\ AskSide(next) /\ pc = "supertypes"
    BY <1>12 DEF Supertypes
  <2> HIDE DEF next
  <2> QED BY <1>11, <2>1
<1>13. CASE Subtypes
  BY <1>11, <1>13 DEF Subtypes
<1>14. CASE SessionEnds
  BY <1>14 DEF SessionEnds, AnswerInv, TypeOK, HierarchyOwnsPlace, Compacted, EmptyAnswersHint
<1>15. CASE UNCHANGED vars
  BY <1>15 DEF vars, AnswerInv, TypeOK, HierarchyOwnsPlace, Compacted, EmptyAnswersHint
<1> QED BY <1>1, <1>2, <1>3, <1>4, <1>5, <1>6, <1>8, <1>9, <1>10, <1>12, <1>13, <1>14,
           <1>15 DEF Next

-----------------------------------------------------------------------------

\* The inductive invariant holds in every reachable state.
THEOREM Invariance == Spec => []IInv
  BY InitIInv, StepIInv, PTL DEF Spec

\* A query on a session that it has found ended never ends with an answer, be
\* the failed call one whose error the service swallows.
THEOREM LostQueryFails == Spec => []LostSessionFails
<1>1. IInv => LostSessionFails
  BY DEF IInv, LostStays, LostSessionFails
<1> QED BY Invariance, <1>1, PTL

\* Implementations and the type hierarchy never fail because the server lacks a
\* method, whichever of their calls it refuses.
THEOREM MissingMethodsDegrade == Spec => []UnsupportedDegrades
<1>1. IInv => UnsupportedDegrades
  BY DEF IInv, UnsupportedFails, UnsupportedDegrades
<1> QED BY Invariance, <1>1, PTL

\* What is known of a query's answer holds in every reachable state.
THEOREM AnswerInvariance == Spec => []AnswerInv
  BY InitAnswer, StepAnswer, PTL DEF Spec

\* Whatever the server answers, the variables keep their types.
THEOREM TypeCorrect == Spec => []TypeOK
<1>1. AnswerInv => TypeOK
  BY DEF AnswerInv
<1> QED BY AnswerInvariance, <1>1, PTL

\* A query that ends with nothing found, nothing usable included, ends with a
\* hint, for any limit and any replies.
THEOREM EmptyAnswersGuide == Spec => []EmptyAnswersHint
<1>1. AnswerInv => EmptyAnswersHint
  BY DEF AnswerInv
<1> QED BY AnswerInvariance, <1>1, PTL

\* The hits of an answer are the first Limit distinct lines that the server has
\* reported, and its total counts them all, however long the reply and however
\* its entries repeat.
THEOREM HitsExact == Spec => []CompactionExact
<1>1. AnswerInv => CompactionExact
  BY DEF AnswerInv, Compacted, Capped, Least, CompactionExact
<1> QED BY AnswerInvariance, <1>1, PTL

=============================================================================
