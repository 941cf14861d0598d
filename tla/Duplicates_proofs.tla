-------------------------- MODULE Duplicates_proofs --------------------------
(* What the ads of the summary table are left naming, for any ads, documents and runs. *)
EXTENDS Duplicates, FiniteSetTheorems, SequenceTheorems, WellFoundedInduction, TLAPS

-----------------------------------------------------------------------------
(* The runs of similar ads.  A set of the first numbers has a greatest one. *)
LEMMA GreatestIsFound ==
  ASSUME NEW N \in Nat, NEW S \in SUBSET (1..N), S # {}
  PROVE  Max(S) \in S /\ \A i \in S : i <= Max(S)
<1> DEFINE from == {i..N : i \in S}
<1>1. IsFiniteSet(1..N)
  BY FS_Interval
<1>2. IsWellFoundedOn(StrictSubsetOrdering(1..N), FiniteSubsetsOf(1..N))
  BY <1>1, FS_StrictSubsetOrderingWellFounded
<1>3. from \subseteq FiniteSubsetsOf(1..N) /\ from # {}
  <2>1. \A i \in S : i..N \subseteq 1..N /\ IsFiniteSet(i..N)
    BY FS_Interval
  <2> HIDE DEF from
  <2>2. \A T \in from : T \subseteq 1..N /\ IsFiniteSet(T)
    BY <2>1 DEF from
  <2>3. from # {}
    BY DEF from
  <2>4. QED BY <2>2, <2>3 DEF FiniteSubsetsOf
<1>4. PICK first \in from : \A other \in from : ~ (<<other, first>> \in StrictSubsetOrdering(1..N))
  BY <1>2, <1>3, WFMin
<1>5. PICK i \in S : first = i..N
  BY <1>4
<1>6. ASSUME NEW j \in S, i < j  PROVE FALSE
  <2>1. j..N \in from /\ j..N \subseteq i..N /\ i \notin j..N /\ i \in i..N
    BY <1>6
  <2>2. <<j..N, i..N>> \in StrictSubsetOrdering(1..N)
    BY <2>1, <1>5 DEF StrictSubsetOrdering
  <2>3. QED BY <1>4, <1>5, <2>1, <2>2
<1>7. \A j \in S : j <= i
  BY <1>6
<1>8. QED BY <1>7 DEF Max

(* A set that has N, and with a number the one before it, has 1. *)
LEMMA DownToOne ==
  ASSUME NEW N \in Nat, NEW S \in SUBSET (1..N), N \in S,
         \A m \in S : m > 1 => m - 1 \in S
  PROVE  1 \in S
<1> SUFFICES ASSUME 1 \notin S  PROVE FALSE
  OBVIOUS
<1> DEFINE rest == (1..N) \ S
<1>1. rest \in SUBSET (1..N) /\ rest # {}
  OBVIOUS
<1> HIDE DEF rest
<1>2. Max(rest) \in rest /\ \A i \in rest : i <= Max(rest)
  BY <1>1, GreatestIsFound
<1>3. PICK m \in rest : \A i \in rest : i <= m
  BY <1>2
<1>4. m \in 1..N /\ m # N
  BY <1>3 DEF rest
<1>5. m + 1 \in 1..N /\ m + 1 \notin rest
  BY <1>3, <1>4
<1>6. m + 1 \in S /\ (m + 1) - 1 = m
  BY <1>4, <1>5 DEF rest
<1>7. QED BY <1>4, <1>6, <1>3 DEF rest

LEMMA LastIsFound ==
  ASSUME NEW order, Len(order) \in Nat, NEW it \in 1..Len(order)
  PROVE  /\ LastSimilar(order, it) \in it..Len(order)
         /\ \A k \in (it + 1)..LastSimilar(order, it) : IsSimilar_v2(order[it], order[k])
<1> DEFINE alike == {last \in it..Len(order) :
                       \A k \in (it + 1)..last : IsSimilar_v2(order[it], order[k])}
<1>1. it \in alike
  OBVIOUS
<1>2. alike \in SUBSET (1..Len(order)) /\ alike # {}
  BY <1>1
<1>3. Max(alike) \in alike
  <2> HIDE DEF alike
  <2>1. QED BY <1>2, GreatestIsFound
<1>4. QED BY <1>3 DEF LastSimilar

(* The groups of the ads from the one at it, when those of the ads after it are known. *)
Run(order, it) == {order[k] : k \in it..LastSimilar(order, it)}
GroupsFrom(order, it, groups) ==
  IF it > Len(order) THEN {} ELSE {Run(order, it)} \cup groups[LastSimilar(order, it) + 1]

(* The recursive function is what it says: it is found from the last ad to the first. *)
LEMMA RunsAreFound ==
  ASSUME NEW order, Len(order) \in Nat
  PROVE  Runs(order) = [it \in 1..(Len(order) + 1) |-> GroupsFrom(order, it, Runs(order))]
<1> DEFINE N == Len(order) + 1
           FoundFrom(m, f) == \A it \in m..N : f[it] = GroupsFrom(order, it, f)
           found == {m \in 1..N : \E f : FoundFrom(m, f)}
<1>1. N \in Nat /\ N >= 1
  OBVIOUS
<1>2. N \in found
  <2>1. PICK f : f = [it \in {N} |-> {}]
    OBVIOUS
  <2>2. FoundFrom(N, f)
    BY <2>1 DEF GroupsFrom
  <2>3. QED BY <1>1, <2>2
<1>3. ASSUME NEW m \in found, m > 1  PROVE m - 1 \in found
  <2>1. PICK f : FoundFrom(m, f)
    OBVIOUS
  <2>2. PICK n : n = m - 1
    OBVIOUS
  <2>3. n \in 1..Len(order) /\ n + 1 = m
    BY <1>3, <2>2
  <2>4. PICK g : g = [it \in n..N |-> IF it = n THEN GroupsFrom(order, n, f) ELSE f[it]]
    OBVIOUS
  <2>5. ASSUME NEW it \in n..N  PROVE GroupsFrom(order, it, g) = GroupsFrom(order, it, f)
    <3>1. CASE it > Len(order)
      BY <3>1 DEF GroupsFrom
    <3>2. CASE ~(it > Len(order))
      <4>1. it \in 1..Len(order)
        BY <2>3, <3>2
      <4>2. LastSimilar(order, it) \in it..Len(order)
        BY <4>1, LastIsFound
      <4>3. PICK next : next = LastSimilar(order, it) + 1
        OBVIOUS
      <4>4. next \in m..N /\ next \in n..N /\ next # n
        BY <2>3, <4>1, <4>2, <4>3
      <4>5. g[next] = f[next]
        BY <2>4, <4>4
      <4>6. QED BY <4>3, <4>5 DEF GroupsFrom
    <3>3. QED BY <3>1, <3>2
  <2>6. FoundFrom(n, g)
    <3>1. ASSUME NEW it \in n..N  PROVE g[it] = GroupsFrom(order, it, f)
      <4>1. CASE it = n
        BY <2>4, <4>1
      <4>2. CASE it # n
        <5>1. it \in m..N
          BY <2>3, <4>2
        <5>2. QED BY <2>1, <2>4, <4>2, <5>1
      <4>3. QED BY <4>1, <4>2
    <3>2. QED BY <2>5, <3>1
  <2>7. n \in 1..N
    BY <2>3
  <2>8. QED BY <2>2, <2>6, <2>7
<1>4. 1 \in found
  <2>1. found \in SUBSET (1..N)
    OBVIOUS
  <2> HIDE DEF found
  <2>2. QED BY <1>1, <1>2, <1>3, <2>1, DownToOne
<1>5. PICK f : FoundFrom(1, f)
  BY <1>4
<1>6. PICK g : g = [it \in 1..N |-> f[it]]
  OBVIOUS
<1>7. ASSUME NEW it \in 1..N  PROVE g[it] = GroupsFrom(order, it, g)
  <2>1. CASE it > Len(order)
    BY <1>5, <1>6, <2>1 DEF GroupsFrom
  <2>2. CASE ~(it > Len(order))
    <3>1. LastSimilar(order, it) + 1 \in 1..N
      <4>1. it \in 1..Len(order)
        BY <2>2
      <4>2. QED BY <4>1, LastIsFound
    <3>2. g[LastSimilar(order, it) + 1] = f[LastSimilar(order, it) + 1]
      BY <1>6, <3>1
    <3>3. g[it] = GroupsFrom(order, it, f)
      BY <1>5, <1>6
    <3>4. QED BY <3>2, <3>3 DEF GroupsFrom
  <2>3. QED BY <2>1, <2>2
<1>8. g = [it \in 1..(Len(order) + 1) |-> GroupsFrom(order, it, g)]
  BY <1>6, <1>7
<1>9. Runs(order) = CHOOSE groups :
        groups = [it \in 1..(Len(order) + 1) |-> GroupsFrom(order, it, groups)]
  BY DEF Runs, GroupsFrom, Run
<1>10. QED BY <1>8, <1>9

(* The run ends where an ad does not resemble its first. *)
LEMMA LastIsGreatest ==
  ASSUME NEW order, Len(order) \in Nat, NEW it \in 1..Len(order), LastSimilar(order, it) < Len(order)
  PROVE  ~IsSimilar_v2(order[it], order[LastSimilar(order, it) + 1])
<1> DEFINE alike == {last \in it..Len(order) :
                       \A k \in (it + 1)..last : IsSimilar_v2(order[it], order[k])}
<1>1. it \in alike
  OBVIOUS
<1>2. alike \in SUBSET (1..Len(order)) /\ alike # {}
  BY <1>1
<1>3. PICK last : last = LastSimilar(order, it)
  OBVIOUS
<1>4. last \in alike /\ \A i \in alike : i <= last
  <2>1. last = Max(alike)
    BY <1>3 DEF LastSimilar
  <2> HIDE DEF alike
  <2>2. QED BY <1>2, <2>1, GreatestIsFound
<1>5. ASSUME IsSimilar_v2(order[it], order[last + 1])  PROVE FALSE
  <2>1. last \in it..Len(order) /\ last + 1 \in it..Len(order) /\ ~(last + 1 <= last)
    BY <1>3, <1>4
  <2>2. \A k \in (it + 1)..(last + 1) : k \in (it + 1)..last \/ k = last + 1
    BY <2>1
  <2>3. \A k \in (it + 1)..last : IsSimilar_v2(order[it], order[k])
    BY <1>4
  <2>4. last + 1 \in alike
    BY <1>5, <2>1, <2>2, <2>3
  <2>5. QED BY <1>4, <2>1, <2>4
<1>6. QED BY <1>3, <1>5

(* The groups from a first ad on: each is a run, each ad is in one, and no ad is in two. *)
PartitionFrom(order, it) ==
  /\ \A g \in Runs(order)[it] : \E k \in it..Len(order) : g = Run(order, k)
  /\ \A i \in it..Len(order) :
       \E k \in it..i : Run(order, k) \in Runs(order)[it] /\ i \in k..LastSimilar(order, k)
  /\ \A g, h \in Runs(order)[it] : g = h \/ g \cap h = {}

LEMMA RunsArePartition ==
  ASSUME NEW order, Len(order) \in Nat,
         \A i, j \in 1..Len(order) : i # j => order[i] # order[j]
  PROVE  PartitionFrom(order, 1)
<1> DEFINE N == Len(order) + 1
           shown == {m \in 1..N : \A it \in m..N : PartitionFrom(order, it)}
<1>1. N \in Nat /\ shown \in SUBSET (1..N)
  OBVIOUS
<1>2. \A it \in 1..N : Runs(order)[it] = GroupsFrom(order, it, Runs(order))
  BY RunsAreFound
<1>3. N \in shown
  <2>1. N \in 1..N /\ N > Len(order)
    OBVIOUS
  <2>2. Runs(order)[N] = GroupsFrom(order, N, Runs(order))
    BY <1>2, <2>1
  <2>3. Runs(order)[N] = {}
    BY <2>1, <2>2 DEF GroupsFrom
  <2>4. N..Len(order) = {}
    OBVIOUS
  <2> HIDE DEF N
  <2>5. PartitionFrom(order, N)
    BY <2>3, <2>4 DEF PartitionFrom
  <2>6. \A it \in N..N : it = N
    BY <1>1
  <2>7. QED BY <2>1, <2>5, <2>6
<1>4. ASSUME NEW m \in shown, m > 1  PROVE m - 1 \in shown
  <2>1. PICK n : n = m - 1
    OBVIOUS
  <2>2. n \in 1..Len(order) /\ n + 1 = m
    BY <1>4, <2>1
  <2>3. PICK last : last = LastSimilar(order, n)
    OBVIOUS
  <2>4. last \in n..Len(order) /\ last + 1 \in m..N
    BY <2>2, <2>3, LastIsFound
  <2>5. PICK rest : rest = Runs(order)[last + 1]
    OBVIOUS
  <2>6. Runs(order)[n] = {Run(order, n)} \cup rest
    <3>1. n \in 1..N /\ ~(n > Len(order))
      BY <2>2
    <3>2. Runs(order)[n] = GroupsFrom(order, n, Runs(order))
      BY <1>2, <3>1
    <3>3. QED BY <2>3, <2>5, <3>1, <3>2 DEF GroupsFrom
  <2>7. PartitionFrom(order, last + 1)
    BY <2>4
  <2> HIDE DEF N, shown
  <2>8. ASSUME NEW g \in Runs(order)[n]  PROVE \E k \in n..Len(order) : g = Run(order, k)
    <3>1. CASE g = Run(order, n)
      BY <2>2, <3>1
    <3>2. CASE g \in rest
      <4>1. PICK k \in (last + 1)..Len(order) : g = Run(order, k)
        BY <2>5, <2>7, <3>2 DEF PartitionFrom
      <4>2. k \in n..Len(order)
        BY <2>2, <2>4
      <4>3. QED BY <4>1, <4>2
    <3>3. QED BY <2>6, <3>1, <3>2
  <2>9. ASSUME NEW i \in n..Len(order)
        PROVE  \E k \in n..i : Run(order, k) \in Runs(order)[n] /\ i \in k..LastSimilar(order, k)
    <3>1. CASE i <= last
      <4>1. n \in n..i /\ i \in n..LastSimilar(order, n)
        BY <2>2, <2>3, <2>4, <3>1
      <4>2. QED BY <2>6, <4>1
    <3>2. CASE ~(i <= last)
      <4>1. i \in (last + 1)..Len(order)
        BY <2>2, <2>4, <3>2
      <4>2. PICK k \in (last + 1)..i : Run(order, k) \in rest /\ i \in k..LastSimilar(order, k)
        BY <2>5, <2>7, <4>1 DEF PartitionFrom
      <4>3. k \in n..i
        BY <2>2, <2>4
      <4>4. QED BY <2>6, <4>2, <4>3
    <3>3. QED BY <3>1, <3>2
  <2>10. ASSUME NEW g \in rest  PROVE g \cap Run(order, n) = {}
    <3>1. PICK k \in (last + 1)..Len(order) : g = Run(order, k)
      BY <2>5, <2>7 DEF PartitionFrom
    <3>2. k \in 1..Len(order)
      BY <2>2, <2>4
    <3>3. LastSimilar(order, k) \in k..Len(order)
      BY <3>2, LastIsFound
    <3>4. ASSUME NEW i \in k..LastSimilar(order, k), NEW j \in n..last  PROVE order[i] # order[j]
      <4>1. i \in 1..Len(order) /\ j \in 1..Len(order) /\ i # j
        BY <2>2, <2>4, <3>1, <3>3
      <4>2. QED BY <4>1
    <3>5. QED BY <2>3, <3>1, <3>4 DEF Run
  <2>11. ASSUME NEW g \in Runs(order)[n], NEW h \in Runs(order)[n]  PROVE g = h \/ g \cap h = {}
    <3>1. \A f1, f2 \in rest : f1 = f2 \/ f1 \cap f2 = {}
      BY <2>5, <2>7 DEF PartitionFrom
    <3>2. QED BY <2>6, <2>10, <3>1
  <2>12. PartitionFrom(order, n)
    BY <2>8, <2>9, <2>11 DEF PartitionFrom
  <2>13. \A it \in n..N : it = n \/ it \in m..N
    BY <1>1, <2>2
  <2>14. n \in 1..N
    BY <2>2 DEF N
  <2>15. QED BY <2>1, <2>12, <2>13, <2>14 DEF shown
<1>5. 1 \in shown
  <2> HIDE DEF shown
  <2>1. QED BY <1>1, <1>3, <1>4, DownToOne
<1>6. QED BY <1>1, <1>5

(* The ads of a group are among those sorted, and one of them is like all the others. *)
LEMMA GroupsAreAlike ==
  ASSUME NEW ads, IsFiniteSet(ads), NEW order \in Sorted(ads), NEW group \in updateDuplicates(order)
  PROVE  /\ group \subseteq ads
         /\ \E first \in group : \A other \in group : other = first \/ IsSimilar_v2(first, other)
<1>1. /\ order \in [1..Cardinality(ads) -> ads] /\ Cardinality(ads) \in Nat
      /\ \A i, j \in 1..Cardinality(ads) : i # j => order[i] # order[j]
  BY FS_CardinalityType DEF Sorted, SetToSeqs
<1>2. Len(order) = Cardinality(ads)
  BY <1>1
<1>3. Len(order) \in Nat /\ \A k \in 1..Len(order) : order[k] \in ads
  BY <1>1, <1>2
<1>4. PICK it \in 1..Len(order) : group = Run(order, it)
  BY <1>1, <1>2, RunsArePartition DEF PartitionFrom, updateDuplicates
<1>5. /\ LastSimilar(order, it) \in it..Len(order)
      /\ \A k \in (it + 1)..LastSimilar(order, it) : IsSimilar_v2(order[it], order[k])
  BY <1>3, LastIsFound
<1>6. PICK last : last = LastSimilar(order, it)
  OBVIOUS
<1>7. group = {order[k] : k \in it..last}
  BY <1>4, <1>6 DEF Run
<1>8. \A k \in it..last : k \in 1..Len(order) /\ (k = it \/ k \in (it + 1)..last)
  BY <1>3, <1>5, <1>6
<1>9. group \subseteq ads
  BY <1>3, <1>7, <1>8
<1>10. order[it] \in group
  BY <1>3, <1>5, <1>6, <1>7
<1>11. \A other \in group : other = order[it] \/ IsSimilar_v2(order[it], other)
  BY <1>5, <1>6, <1>7, <1>8
<1>12. QED BY <1>9, <1>10, <1>11

-----------------------------------------------------------------------------
(* Two ads that a comparison finds alike are near one another, and so are two ads that are alike
   to a third. *)
LEMMA Extremes ==
  ASSUME NEW x \in Nat, NEW y \in Nat
  PROVE  Max({x, y}) = (IF x >= y THEN x ELSE y) /\ Min({x, y}) = (IF x <= y THEN x ELSE y)
BY DEF Max, Min

LEMMA Tolerated ==
  ASSUME NEW p \in Nat, NEW tolerance \in 0..50
  PROVE  tolerance * p <= 50 * p /\ (tolerance <= 24 => tolerance * p <= 24 * p)
OBVIOUS

(* Prices and surfaces that are within the tolerances of a third are within those of Resemble. *)
LEMMA PricesNear ==
  ASSUME NEW f \in Nat, NEW a \in Nat, NEW b \in Nat,
         Difference(f, a) * 1000 <= 24 * f, Difference(f, b) * 1000 <= 24 * f
  PROVE  (Max({a, b}) - Min({a, b})) * 20 <= Max({a, b})
<1>1. /\ Max({a, b}) = (IF a >= b THEN a ELSE b) /\ Min({a, b}) = (IF a <= b THEN a ELSE b)
  BY Extremes
<1>2. QED BY <1>1 DEF Difference

LEMMA SurfacesNear ==
  ASSUME NEW f \in Nat, NEW a \in Nat, NEW b \in Nat, Difference(f, a) < 100, Difference(f, b) < 100
  PROVE  Max({a, b}) - Min({a, b}) < 200
<1>1. /\ Max({a, b}) = (IF a >= b THEN a ELSE b) /\ Min({a, b}) = (IF a <= b THEN a ELSE b)
  BY Extremes
<1>2. QED BY <1>1 DEF Difference

LEMMA Numbers ==
  ASSUME PagesAssumption, pages \in Pages, NEW id \in DOMAIN pages
  PROVE  pages[id].price \in Nat /\ pages[id].surface \in Nat /\ pages[id].rooms \in Nat
BY DEF PagesAssumption

(* What adapt_model compares. *)
LEMMA AlikeResemble ==
  ASSUME PagesAssumption, pages \in Pages, NEW a \in DOMAIN pages, NEW b \in DOMAIN pages,
         IsSimilarAnnounces(a, b)
  PROVE  Resemble(a, b)
<1> DEFINE p == pages[a].price
           q == pages[b].price
           s == pages[a].surface
           r == pages[b].surface
<1>1. p \in Nat /\ q \in Nat /\ s \in Nat /\ r \in Nat
  BY Numbers
<1>2. /\ Difference(p, q) * 1000 <= 50 * p /\ Difference(s, r) < 200
      /\ pages[a].rooms = pages[b].rooms /\ pages[a].type = pages[b].type
      /\ pages[a].search = pages[b].search
  BY DEF IsSimilarAnnounces, Alike
<1>3. (Max({p, q}) - Min({p, q})) * 20 <= Max({p, q}) /\ Max({s, r}) - Min({s, r}) < 200
  <2> HIDE DEF p, q, s, r
  <2>1. /\ Max({p, q}) = (IF p >= q THEN p ELSE q) /\ Min({p, q}) = (IF p <= q THEN p ELSE q)
        /\ Max({s, r}) = (IF s >= r THEN s ELSE r) /\ Min({s, r}) = (IF s <= r THEN s ELSE r)
    BY <1>1, Extremes
  <2>2. QED BY <1>1, <1>2, <2>1 DEF Difference
<1>4. QED BY <1>2, <1>3 DEF Resemble

(* What duplicates_fix compares: the first ad of a group, or an ad like it. *)
NearFirst(f, a) == a = f \/ IsSimilar_v2(f, a)

LEMMA WithinTolerances ==
  ASSUME PagesAssumption, TolerancesAssumption, pages \in Pages,
         NEW f \in DOMAIN pages, NEW a \in DOMAIN pages, NearFirst(f, a)
  PROVE  /\ Difference(pages[f].price, pages[a].price) * 1000 <= 24 * pages[f].price
         /\ Difference(pages[f].surface, pages[a].surface) < 100
         /\ pages[f].rooms = pages[a].rooms /\ pages[f].type = pages[a].type
         /\ pages[f].search = pages[a].search
<1>1. /\ pages[f].price \in Nat /\ pages[f].surface \in Nat
      /\ pages[a].price \in Nat /\ pages[a].surface \in Nat
  BY Numbers
<1>2. CASE a = f
  BY <1>1, <1>2 DEF Difference
<1>3. CASE IsSimilar_v2(f, a)
  <2>1. /\ Difference(pages[f].price, pages[a].price) * 1000 <= PriceTolerance * pages[f].price
        /\ Difference(pages[f].surface, pages[a].surface) < SurfaceTolerance
        /\ pages[f].rooms = pages[a].rooms /\ pages[f].type = pages[a].type
        /\ pages[f].search = pages[a].search
    BY <1>3 DEF IsSimilar_v2, Alike
  <2>2. PriceTolerance * pages[f].price <= 24 * pages[f].price /\ SurfaceTolerance <= 100
    BY <1>1, Tolerated DEF TolerancesAssumption
  <2>3. PriceTolerance \in Nat /\ SurfaceTolerance \in Nat
    BY DEF TolerancesAssumption
  <2>4. /\ Difference(pages[f].price, pages[a].price) \in Int
        /\ Difference(pages[f].surface, pages[a].surface) \in Int
        /\ PriceTolerance * pages[f].price \in Int
    BY <1>1, <2>3 DEF Difference
  <2>5. QED BY <1>1, <2>1, <2>2, <2>3, <2>4
<1>4. QED BY <1>2, <1>3 DEF NearFirst

LEMMA GroupResembles ==
  ASSUME PagesAssumption, TolerancesAssumption, pages \in Pages, NEW f \in DOMAIN pages,
         NEW a \in DOMAIN pages, NEW b \in DOMAIN pages, NearFirst(f, a), NearFirst(f, b)
  PROVE  Resemble(a, b)
<1>1. /\ Difference(pages[f].price, pages[a].price) * 1000 <= 24 * pages[f].price
      /\ Difference(pages[f].surface, pages[a].surface) < 100
      /\ pages[f].rooms = pages[a].rooms /\ pages[f].type = pages[a].type
      /\ pages[f].search = pages[a].search
  BY WithinTolerances
<1>2. /\ Difference(pages[f].price, pages[b].price) * 1000 <= 24 * pages[f].price
      /\ Difference(pages[f].surface, pages[b].surface) < 100
      /\ pages[f].rooms = pages[b].rooms /\ pages[f].type = pages[b].type
      /\ pages[f].search = pages[b].search
  BY WithinTolerances
<1>3. /\ pages[f].price \in Nat /\ pages[a].price \in Nat /\ pages[b].price \in Nat
      /\ pages[f].surface \in Nat /\ pages[a].surface \in Nat /\ pages[b].surface \in Nat
  BY Numbers
<1>4. (Max({pages[a].price, pages[b].price}) - Min({pages[a].price, pages[b].price})) * 20
        <= Max({pages[a].price, pages[b].price})
  BY <1>1, <1>2, <1>3, PricesNear
<1>5. Max({pages[a].surface, pages[b].surface}) - Min({pages[a].surface, pages[b].surface}) < 200
  BY <1>1, <1>2, <1>3, SurfacesNear
<1>6. QED BY <1>1, <1>2, <1>4, <1>5 DEF Resemble

-----------------------------------------------------------------------------
(* The invariant.  An item names ads that resemble its own, and has their sources; the groups that
   are still to be written are of ads that resemble one another, whose sources were read. *)
ItemInv(id, item) ==
  /\ item = [fields |-> item.fields, DUPLICATES |-> item.DUPLICATES, SOURCES |-> item.SOURCES]
  /\ \A other \in item.DUPLICATES : Resemble(id, other)
  /\ "CITY" \in item.fields =>
       /\ pages[id].source \in item.SOURCES
       /\ \A other \in item.DUPLICATES : pages[other].source \in item.SOURCES

SummaryInv == \A id \in DOMAIN summary : id \in DOMAIN pages /\ ItemInv(id, summary[id])

AdaptInv ==
  /\ adapt = [read |-> adapt.read, known |-> adapt.known, left |-> adapt.left]
  /\ adapt.left \subseteq adapt.read /\ adapt.read \subseteq DOMAIN pages

FixInv ==
  /\ fix = [types |-> fix.types, SOURCES |-> fix.SOURCES, groups |-> fix.groups, left |-> fix.left]
  /\ \A group \in fix.groups :
       /\ group \subseteq DOMAIN pages
       /\ \A a, b \in group : a # b => Resemble(a, b)
       /\ \A id \in group : pages[id].source \in fix.SOURCES[id]
  /\ fix.left \subseteq UNION fix.groups

DuplicatesInv == pages \in Pages /\ SummaryInv /\ AdaptInv /\ FixInv

-----------------------------------------------------------------------------
LEMMA SamePages ==
  ASSUME pages' = pages
  PROVE  /\ \A a, b : Resemble(a, b)' <=> Resemble(a, b)
         /\ \A id, item : ItemInv(id, item)' <=> ItemInv(id, item)
<1>1. \A a, b : Resemble(a, b)' <=> Resemble(a, b)
  BY DEF Resemble
<1>2. QED BY <1>1 DEF ItemInv

(* A step that leaves an item as it was, removes it or writes one that is in order. *)
LEMMA SummaryStep ==
  ASSUME SummaryInv, pages' = pages,
         \A id \in DOMAIN summary' :
           \/ id \in DOMAIN summary /\ summary'[id] = summary[id]
           \/ id \in DOMAIN pages /\ ItemInv(id, summary'[id])
  PROVE  SummaryInv'
BY SamePages DEF SummaryInv

LEMMA WriteStep ==
  ASSUME SummaryInv, pages' = pages, NEW id \in DOMAIN pages, NEW item, ItemInv(id, item), Write(id, item)
  PROVE  SummaryInv'
<1>1. /\ DOMAIN summary' = DOMAIN summary \cup {id} /\ summary'[id] = item
      /\ \A other \in DOMAIN summary : other # id => summary'[other] = summary[other]
  BY DEF Write
<1>2. QED BY <1>1, SummaryStep

LEMMA SameAdapt == ASSUME AdaptInv, pages' = pages, adapt' = adapt PROVE AdaptInv'
BY DEF AdaptInv

LEMMA SameFix == ASSUME FixInv, pages' = pages, fix' = fix PROVE FixInv'
<1>1. \A a, b : Resemble(a, b)' <=> Resemble(a, b)
  BY SamePages
<1>2. QED BY <1>1 DEF FixInv

LEMMA StartStep ==
  ASSUME DuplicatesInv, Start, fix' = fix
  PROVE  DuplicatesInv'
<1>1. UNCHANGED <<pages, summary>>
  BY DEF Start
<1>2. PICK read \in SUBSET DOMAIN pages, known \in SUBSET Ids :
        adapt' = [read |-> read, known |-> known \cap read, left |-> read]
  BY DEF Start
<1>3. AdaptInv'
  BY <1>1, <1>2 DEF AdaptInv
<1>4. SummaryInv'
  BY <1>1, SummaryStep DEF DuplicatesInv
<1>5. QED BY <1>1, <1>3, <1>4, SameFix DEF DuplicatesInv

LEMMA PutStep ==
  ASSUME PagesAssumption, DuplicatesInv, NEW id, PutTargetTable(id), fix' = fix
  PROVE  DuplicatesInv'
<1>1. pages' = pages /\ id \in adapt.left /\ id \in DOMAIN pages
  BY DEF PutTargetTable, DuplicatesInv, AdaptInv
<1>2. AdaptInv'
  <2>1. adapt' = Idle \/ adapt' = [adapt EXCEPT !.left = @ \ {id}]
    BY DEF PutTargetTable
  <2>2. CASE adapt' = Idle
    BY <2>2 DEF AdaptInv, Idle
  <2>3. CASE adapt' = [adapt EXCEPT !.left = @ \ {id}]
    <3>1. adapt' = [read |-> adapt.read, known |-> adapt.known, left |-> adapt.left \ {id}]
      BY <2>3 DEF DuplicatesInv, AdaptInv
    <3>2. QED BY <1>1, <3>1 DEF DuplicatesInv, AdaptInv
  <2>4. QED BY <2>1, <2>2, <2>3
<1>3. ItemInv(id, Ghost)
  BY DEF ItemInv, Ghost
<1>4. ItemInv(id, CheckSimilarAnnounces(id))
  <2>1. \A other \in CheckedDuplicates(id) : other \in DOMAIN pages /\ IsSimilarAnnounces(id, other)
    BY DEF CheckedDuplicates, DuplicatesInv, AdaptInv
  <2>2. \A other \in CheckedDuplicates(id) : Resemble(id, other)
    BY <1>1, <2>1, AlikeResemble DEF DuplicatesInv
  <2>3. PICK sources : sources = {pages[other].source : other \in CheckedDuplicates(id) \cup {id}}
    OBVIOUS
  <2>4. pages[id].source \in sources /\ \A other \in CheckedDuplicates(id) : pages[other].source \in sources
    BY <2>3
  <2>5. PICK fields : fields = Formatted[pages[id]].fields \cup {"CITY"}
    OBVIOUS
  <2>6. CheckSimilarAnnounces(id) =
          [fields |-> fields, DUPLICATES |-> CheckedDuplicates(id), SOURCES |-> sources]
    BY <2>3, <2>5 DEF CheckSimilarAnnounces
  <2>7. QED BY <2>2, <2>4, <2>6 DEF ItemInv
<1>5. SummaryInv'
  <2>1. CASE UNCHANGED summary
    BY <1>1, <2>1, SummaryStep DEF DuplicatesInv
  <2>2. ASSUME NEW item, ItemInv(id, item), Write(id, item)  PROVE SummaryInv'
    BY <1>1, <2>2, WriteStep DEF DuplicatesInv
  <2>3. QED BY <1>3, <1>4, <2>1, <2>2 DEF PutTargetTable
<1>6. QED BY <1>1, <1>2, <1>5, SameFix DEF DuplicatesInv

LEMMA RemoveStep ==
  ASSUME DuplicatesInv, NEW id, RemoveAd(id), fix' = fix
  PROVE  DuplicatesInv'
<1>1. /\ UNCHANGED <<pages, adapt>> /\ summary' = [other \in DOMAIN summary \ {id} |-> summary[other]]
  BY DEF RemoveAd, Restrict
<1>2. SummaryInv'
  BY <1>1, SummaryStep DEF DuplicatesInv
<1>3. QED BY <1>1, <1>2, SameAdapt, SameFix DEF DuplicatesInv

LEMMA MainStep ==
  ASSUME DuplicatesInv, Main
  PROVE  DuplicatesInv'
<1>1. UNCHANGED <<pages, summary, adapt>> /\ fix' = [Resting EXCEPT !.types = Types]
  BY DEF Main, adaptVars
<1>2. FixInv'
  BY <1>1 DEF FixInv, Resting
<1>3. SummaryInv'
  BY <1>1, SummaryStep DEF DuplicatesInv
<1>4. QED BY <1>1, <1>2, <1>3, SameAdapt DEF DuplicatesInv

LEMMA LeavingKeeps ==
  ASSUME NEW run,
         run = [types |-> run.types, SOURCES |-> run.SOURCES, groups |-> run.groups, left |-> run.left],
         pages' = pages, fix' = Leaving(run), run.left \subseteq UNION run.groups,
         \A group \in run.groups :
           /\ group \subseteq DOMAIN pages
           /\ \A a, b \in group : a # b => Resemble(a, b)
           /\ \A id \in group : pages[id].source \in run.SOURCES[id]
  PROVE  FixInv'
<1>1. CASE run.left = {}
  BY <1>1 DEF Leaving, FixInv, Resting
<1>2. CASE run.left # {}
  <2>1. fix' = run
    BY <1>2 DEF Leaving
  <2>2. \A a, b : Resemble(a, b)' <=> Resemble(a, b)
    BY SamePages
  <2>3. QED BY <2>1, <2>2 DEF FixInv
<1>3. QED BY <1>1, <1>2

(* The groups are of ads that the table lists: their sources are among those it has. *)
LEMMA ReadStep ==
  ASSUME PagesAssumption, TolerancesAssumption, DuplicatesInv, readTable
  PROVE  DuplicatesInv'
<1>1. UNCHANGED <<pages, summary, adapt>>
  BY DEF readTable, adaptVars
<1>2. PICK ads \in SUBSET {id \in Listed : pages[id].type = Head(fix.types)} :
        \E order \in Sorted(ads) :
           LET groups == updateDuplicates(order)
           IN  fix' = Leaving([types   |-> fix.types,
                               SOURCES |-> [id \in UNION groups |-> summary[id].SOURCES],
                               groups  |-> groups,
                               left    |-> UNION groups])
  BY DEF readTable
<1>a. PICK order \in Sorted(ads) :
        LET groups == updateDuplicates(order)
        IN  fix' = Leaving([types   |-> fix.types,
                            SOURCES |-> [id \in UNION groups |-> summary[id].SOURCES],
                            groups  |-> groups,
                            left    |-> UNION groups])
  BY <1>2
<1>b. PICK groups : groups = updateDuplicates(order)
  OBVIOUS
<1>3. fix' = Leaving([types   |-> fix.types,
                      SOURCES |-> [id \in UNION groups |-> summary[id].SOURCES],
                      groups  |-> groups,
                      left    |-> UNION groups])
  BY <1>a, <1>b
<1>4. /\ ads \subseteq DOMAIN pages /\ IsFiniteSet(ads)
      /\ \A id \in ads : id \in DOMAIN summary /\ pages[id].source \in summary[id].SOURCES
  <2>1. \A id \in ads : id \in DOMAIN summary /\ "CITY" \in summary[id].fields
    BY DEF Listed
  <2>2. \A id \in ads : id \in DOMAIN pages /\ pages[id].source \in summary[id].SOURCES
    BY <2>1 DEF DuplicatesInv, SummaryInv, ItemInv
  <2>3. IsFiniteSet(DOMAIN pages)
    BY DEF DuplicatesInv, PagesAssumption
  <2>4. QED BY <2>1, <2>2, <2>3, FS_Subset
<1>5. ASSUME NEW group \in groups
      PROVE  /\ group \subseteq ads
             /\ \A a, b \in group : a # b => Resemble(a, b)
  <2>1. /\ group \subseteq ads
        /\ \E first \in group : \A other \in group : other = first \/ IsSimilar_v2(first, other)
    BY <1>b, <1>4, GroupsAreAlike
  <2>2. PICK first \in group : \A other \in group : NearFirst(first, other)
    BY <2>1 DEF NearFirst
  <2>3. ASSUME NEW a \in group, NEW b \in group  PROVE Resemble(a, b)
    <3>1. first \in DOMAIN pages /\ a \in DOMAIN pages /\ b \in DOMAIN pages
      BY <1>4, <2>1
    <3>2. QED BY <2>2, <3>1, GroupResembles DEF DuplicatesInv
  <2>4. QED BY <2>1, <2>3
<1>6. FixInv'
  <2>1. PICK sources : sources = [id \in UNION groups |-> summary[id].SOURCES]
    OBVIOUS
  <2>2. PICK run : run = [types |-> fix.types, SOURCES |-> sources, groups |-> groups, left |-> UNION groups]
    OBVIOUS
  <2>3. \A group \in groups : \A id \in group : pages[id].source \in sources[id]
    BY <1>4, <1>5, <2>1
  <2>4. /\ run = [types |-> run.types, SOURCES |-> run.SOURCES, groups |-> run.groups, left |-> run.left]
        /\ run.left \subseteq UNION run.groups /\ run.groups = groups /\ run.SOURCES = sources
    BY <2>2
  <2>5. fix' = Leaving(run)
    BY <1>3, <2>1, <2>2
  <2>6. QED BY <1>1, <1>4, <1>5, <2>3, <2>4, <2>5, LeavingKeeps
<1>7. SummaryInv'
  BY <1>1, SummaryStep DEF DuplicatesInv
<1>8. QED BY <1>1, <1>6, <1>7, SameAdapt DEF DuplicatesInv

(* What is written of an ad: the ads of its group, and their sources beside those it had. *)
LEMMA UpdateStep ==
  ASSUME DuplicatesInv, NEW id, updateTable(id)
  PROVE  DuplicatesInv'
<1>1. UNCHANGED <<pages, adapt>> /\ id \in fix.left
  BY DEF updateTable
<1>2. PICK run : run = [fix EXCEPT !.left = @ \ {id}]
  OBVIOUS
<1>3. run = [types |-> fix.types, SOURCES |-> fix.SOURCES, groups |-> fix.groups, left |-> fix.left \ {id}]
  BY <1>2 DEF DuplicatesInv, FixInv
<1>4. FixInv'
  <2>1. /\ run = [types |-> run.types, SOURCES |-> run.SOURCES, groups |-> run.groups, left |-> run.left]
        /\ run.left \subseteq UNION run.groups /\ run.groups = fix.groups /\ run.SOURCES = fix.SOURCES
    BY <1>3 DEF DuplicatesInv, FixInv
  <2>2. fix' = Leaving(run)
    BY <1>2 DEF updateTable
  <2>3. \A group \in run.groups :
           /\ group \subseteq DOMAIN pages
           /\ \A a, b \in group : a # b => Resemble(a, b)
           /\ \A other \in group : pages[other].source \in run.SOURCES[other]
    BY <2>1 DEF DuplicatesInv, FixInv
  <2>4. QED BY <1>1, <2>1, <2>2, <2>3, LeavingKeeps
<1>5. PICK group : group = CHOOSE g \in fix.groups : id \in g
  OBVIOUS
<1>6. group \in fix.groups /\ id \in group
  BY <1>1, <1>5 DEF DuplicatesInv, FixInv
<1>7. /\ group \subseteq DOMAIN pages /\ pages[id].source \in fix.SOURCES[id]
      /\ \A other \in group \ {id} : Resemble(id, other)
  BY <1>6 DEF DuplicatesInv, FixInv
<1>8. PICK sources : sources = fix.SOURCES[id] \cup {pages[other].source : other \in group \ {id}}
  OBVIOUS
<1>9. /\ updateGroupOfDuplicates(id).DUPLICATES = group \ {id}
      /\ updateGroupOfDuplicates(id).SOURCES = sources
  BY <1>5, <1>8 DEF updateGroupOfDuplicates
<1>10. PICK item : item = IF id \in DOMAIN summary THEN summary[id] ELSE Ghost
  OBVIOUS
<1>11. item = [fields |-> item.fields, DUPLICATES |-> item.DUPLICATES, SOURCES |-> item.SOURCES]
  <2>1. CASE id \in DOMAIN summary
    BY <1>10, <2>1 DEF DuplicatesInv, SummaryInv, ItemInv
  <2>2. CASE id \notin DOMAIN summary
    BY <1>10, <2>2 DEF Ghost
  <2>3. QED BY <2>1, <2>2
<1>12. PICK written : written = [item EXCEPT !.DUPLICATES = group \ {id}, !.SOURCES = sources]
  OBVIOUS
<1>13. written = [fields |-> item.fields, DUPLICATES |-> group \ {id}, SOURCES |-> sources]
  BY <1>11, <1>12
<1>14. ItemInv(id, written)
  BY <1>7, <1>8, <1>13 DEF ItemInv
<1>15. UNCHANGED summary \/ Write(id, written)
  BY <1>9, <1>10, <1>12 DEF updateTable
<1>16. SummaryInv'
  BY <1>1, <1>6, <1>7, <1>14, <1>15, SummaryStep, WriteStep DEF DuplicatesInv
<1>17. QED BY <1>1, <1>4, <1>16, SameAdapt DEF DuplicatesInv

-----------------------------------------------------------------------------
LEMMA DuplicatesNext ==
  ASSUME PagesAssumption, TolerancesAssumption, DuplicatesInv, [Next]_vars
  PROVE  DuplicatesInv'
<1>1. CASE AdaptStep
  BY <1>1, StartStep, PutStep DEF AdaptStep
<1>2. CASE Main
  BY <1>2, MainStep
<1>3. CASE readTable
  BY <1>3, ReadStep
<1>4. ASSUME NEW id \in Ids, updateTable(id)  PROVE DuplicatesInv'
  BY <1>4, UpdateStep
<1>5. ASSUME NEW id \in Ids, Removed(id)  PROVE DuplicatesInv'
  BY <1>5, RemoveStep DEF Removed
<1>6. CASE UNCHANGED vars
  <2>1. UNCHANGED <<pages, summary, adapt, fix>>
    BY <1>6 DEF vars, adaptVars
  <2>2. SummaryInv'
    BY <2>1, SummaryStep DEF DuplicatesInv
  <2>3. QED BY <2>1, <2>2, SameAdapt, SameFix DEF DuplicatesInv
<1>7. QED BY <1>1, <1>2, <1>3, <1>4, <1>5, <1>6 DEF Next

LEMMA DuplicatesInvHolds ==
  ASSUME PagesAssumption, TolerancesAssumption
  PROVE  Spec => []DuplicatesInv
<1>1. Init => DuplicatesInv
  BY DEF Init, AdaptInit, DuplicatesInv, SummaryInv, AdaptInv, FixInv, Idle, Resting
<1>2. DuplicatesInv /\ [Next]_vars => DuplicatesInv'
  BY DuplicatesNext
<1>3. QED BY <1>1, <1>2, PTL DEF Spec

(* For any ads, documents and similar images, whatever order adapt_model, duplicates_fix and the
   removals of ads come in, and whichever of their reads and writes fail, an item names only ads
   near its own: within 5 % of its price, 2 square metres of its surface, and of its rooms, type and
   search (CheckSimilarAnnounces, updateDuplicates). *)
THEOREM HiddenResemblesHolds ==
  ASSUME PagesAssumption, TolerancesAssumption
  PROVE  Spec => []HiddenResembles
<1>1. DuplicatesInv => HiddenResembles
  BY DEF DuplicatesInv, SummaryInv, ItemInv, HiddenResembles
<1>2. QED BY <1>1, DuplicatesInvHolds, PTL

(* In all of these runs a listed ad has its own source and that of each ad it hides
   (CheckSimilarAnnounces, updateGroupOfDuplicates). *)
THEOREM SourcesShownHolds ==
  ASSUME PagesAssumption, TolerancesAssumption
  PROVE  Spec => []SourcesShown
<1>1. DuplicatesInv => SourcesShown
  BY DEF DuplicatesInv, SummaryInv, ItemInv, SourcesShown, Listed
<1>2. QED BY <1>1, DuplicatesInvHolds, PTL

-----------------------------------------------------------------------------
(* The two folds: the answer to a search and the reading of a document. *)
Nothing == [shown |-> {}, provided |-> {}]
Turn(answer, id) ==
  IF id \in answer.provided THEN answer
  ELSE [shown    |-> answer.shown \cup {id},
        provided |-> answer.provided \cup {id} \cup summary[id].DUPLICATES]
Begun == [fields |-> {}, end |-> "reading"]

Begin(fold) == IF fold = "search" THEN Nothing ELSE Begun
Step(fold, page, so_far, x) ==
  IF fold = "search" THEN Turn(so_far, x) ELSE ReadMember(page, so_far, x)
FoldOf(fold, page, seq, s, f) ==
  IF s = {} THEN Begin(fold) ELSE Step(fold, page, f[s \ {Max(s)}], seq[Max(s)])

(* The function that a fold iterates is what it says: it is found from the first elements on. *)
Iterates(fold, page, seq, N, f) == f = [s \in SUBSET (1..N) |-> FoldOf(fold, page, seq, s, f)]
Found(fold, page, seq, N) == \E f : Iterates(fold, page, seq, N, f)

LEMMA FoldsAreFound ==
  ASSUME NEW fold, NEW page, NEW seq, NEW N \in Nat
  PROVE  Found(fold, page, seq, N)
<1> DEFINE FoundFor(n, f) == \A s \in SUBSET (1..n) : f[s] = FoldOf(fold, page, seq, s, f)
           left == {m \in 1..(N + 1) : \E f : FoundFor(N + 1 - m, f)}
<1>1. N + 1 \in left
  <2>1. PICK f : f = [s \in {{}} |-> Begin(fold)]
    OBVIOUS
  <2>2. 1..0 = {}
    OBVIOUS
  <2>3. FoundFor(0, f)
    BY <2>1, <2>2 DEF FoldOf
  <2>4. N + 1 - (N + 1) = 0 /\ N + 1 \in 1..(N + 1)
    OBVIOUS
  <2> HIDE DEF FoundFor
  <2>5. QED BY <2>3, <2>4
<1>2. ASSUME NEW m \in left, m > 1  PROVE m - 1 \in left
  <2>1. PICK f : FoundFor(N + 1 - m, f)
    OBVIOUS
  <2>2. PICK n : n = N + 1 - (m - 1)
    OBVIOUS
  <2>3. m \in 1..(N + 1)
    OBVIOUS
  <2>4. n \in 1..N /\ n - 1 = N + 1 - m /\ m - 1 \in 1..(N + 1)
    BY <1>2, <2>2, <2>3
  <2>5. PICK g : g = [s \in SUBSET (1..n) |-> FoldOf(fold, page, seq, s, f)]
    OBVIOUS
  <2>6. ASSUME NEW s \in SUBSET (1..(n - 1))  PROVE g[s] = f[s]
    <3>1. s \in SUBSET (1..n)
      BY <2>4
    <3>2. f[s] = FoldOf(fold, page, seq, s, f)
      BY <2>1, <2>4
    <3>3. QED BY <2>5, <3>1, <3>2
  <2>7. ASSUME NEW s \in SUBSET (1..n), s # {}  PROVE s \ {Max(s)} \in SUBSET (1..(n - 1))
    <3>1. Max(s) \in s /\ \A i \in s : i <= Max(s)
      <4>1. n \in Nat
        BY <2>4
      <4>2. QED BY <2>7, <4>1, GreatestIsFound
    <3>2. ASSUME NEW i \in s, i # Max(s)  PROVE i \in 1..(n - 1)
      <4>1. i \in 1..n /\ Max(s) \in 1..n /\ i <= Max(s)
        BY <3>1
      <4>2. QED BY <2>4, <3>2, <4>1
    <3>3. QED BY <3>2
  <2>8. FoundFor(n, g)
    <3> SUFFICES ASSUME NEW s \in SUBSET (1..n)  PROVE g[s] = FoldOf(fold, page, seq, s, g)
      OBVIOUS
    <3>1. g[s] = FoldOf(fold, page, seq, s, f)
      BY <2>5
    <3>2. CASE s = {}
      BY <3>1, <3>2 DEF FoldOf
    <3>3. CASE s # {}
      <4>1. g[s \ {Max(s)}] = f[s \ {Max(s)}]
        BY <2>6, <2>7, <3>3
      <4>2. QED BY <3>1, <4>1 DEF FoldOf
    <3>4. QED BY <3>2, <3>3
  <2>9. QED BY <2>2, <2>4, <2>8
<1>3. 1 \in left
  <2>1. left \in SUBSET (1..(N + 1)) /\ N + 1 \in Nat
    OBVIOUS
  <2> HIDE DEF left
  <2>2. QED BY <1>1, <1>2, <2>1, DownToOne
<1>4. PICK f : FoundFor(N, f)
  <2>1. N + 1 - 1 = N
    OBVIOUS
  <2>2. QED BY <1>3, <2>1
<1>5. PICK g : g = [s \in SUBSET (1..N) |-> f[s]]
  OBVIOUS
<1>6. ASSUME NEW s \in SUBSET (1..N)  PROVE g[s] = FoldOf(fold, page, seq, s, g)
  <2>1. g[s] = FoldOf(fold, page, seq, s, f) /\ g[s \ {Max(s)}] = f[s \ {Max(s)}]
    BY <1>4, <1>5
  <2>2. QED BY <2>1 DEF FoldOf
<1>7. QED BY <1>5, <1>6 DEF Found, Iterates

(* It takes the elements in order. *)
InOrder(fold, page, seq, N, so_far) ==
  /\ so_far[0] = Begin(fold)
  /\ \A n \in 1..N : so_far[n] = Step(fold, page, so_far[n - 1], seq[n])

Ends(fold, page, seq, N, read) == \E so_far : InOrder(fold, page, seq, N, so_far) /\ so_far[N] = read

LEMMA FoldsGoInOrder ==
  ASSUME NEW fold, NEW page, NEW seq, NEW N \in Nat, NEW f, Iterates(fold, page, seq, N, f)
  PROVE  Ends(fold, page, seq, N, f[1..N])
<1>1. \A s \in SUBSET (1..N) : f[s] = FoldOf(fold, page, seq, s, f)
  BY DEF Iterates
<1>2. f[1..0] = Begin(fold)
  <2>1. 1..0 = {} /\ {} \in SUBSET (1..N)
    OBVIOUS
  <2>2. QED BY <1>1, <2>1 DEF FoldOf
<1>3. ASSUME NEW n \in 1..N  PROVE f[1..n] = Step(fold, page, f[1..(n - 1)], seq[n])
  <2>1. n \in Nat /\ n \in 1..n
    OBVIOUS
  <2>2. 1..n # {} /\ 1..n \in SUBSET (1..n)
    BY <2>1
  <2>3. Max(1..n) = n
    <3>1. Max(1..n) \in 1..n /\ \A i \in 1..n : i <= Max(1..n)
      BY <2>1, <2>2, GreatestIsFound
    <3>2. QED BY <2>1, <3>1
  <2>4. (1..n) \ {n} = 1..(n - 1) /\ 1..n \in SUBSET (1..N)
    <3>1. n <= N
      OBVIOUS
    <3>2. \A i \in 1..n : i \in 1..N /\ (i # n => i \in 1..(n - 1))
      BY <2>1, <3>1
    <3>3. \A i \in 1..(n - 1) : i \in 1..n /\ i # n
      BY <2>1
    <3>4. QED BY <3>2, <3>3
  <2>5. f[1..n] = FoldOf(fold, page, seq, 1..n, f)
    BY <1>1, <2>4
  <2>6. QED BY <2>2, <2>3, <2>4, <2>5 DEF FoldOf
<1>4. PICK so_far : so_far = [n \in 0..N |-> f[1..n]]
  OBVIOUS
<1>5. \A n \in 1..N : n \in 0..N /\ n - 1 \in 0..N
  OBVIOUS
<1>6. /\ so_far[0] = f[1..0] /\ so_far[N] = f[1..N]
      /\ \A n \in 1..N : so_far[n] = f[1..n] /\ so_far[n - 1] = f[1..(n - 1)]
  BY <1>4, <1>5
<1>7. QED BY <1>2, <1>3, <1>6 DEF InOrder, Ends

(* An answer is what its results make of it, one after another; so is what is read of a document. *)
LEMMA SearchInOrder ==
  ASSUME NEW results, NEW N \in Nat, DOMAIN results = 1..N
  PROVE  \E read : Ends("search", "", results, N, read) /\ buildJsonString(results) = read.shown
<1> DEFINE Of(s, f) == IF s = {} THEN Nothing ELSE Turn(f[s \ {Max(s)}], results[Max(s)])
<1>1. \A s, f : FoldOf("search", "", results, s, f) = Of(s, f)
  BY DEF FoldOf, Begin, Step
<1>2. PICK g : g = [s \in SUBSET (1..N) |-> FoldOf("search", "", results, s, g)]
  <2> HIDE DEF Of
  <2>1. Found("search", "", results, N)
    BY FoldsAreFound
  <2>2. QED BY <2>1 DEF Found, Iterates
<1>3. g = [s \in SUBSET (1..N) |-> Of(s, g)]
  <2> HIDE DEF Of
  <2>1. QED BY <1>1, <1>2
<1>4. PICK f : f = CHOOSE iter : iter = [s \in SUBSET (1..N) |-> Of(s, iter)]
  OBVIOUS
<1>5. f = [s \in SUBSET (1..N) |-> Of(s, f)]
  <2> HIDE DEF Of
  <2>1. QED BY <1>3, <1>4
<1>6. Ends("search", "", results, N, f[1..N])
  <2> HIDE DEF Of
  <2>1. f = [s \in SUBSET (1..N) |-> FoldOf("search", "", results, s, f)]
    BY <1>1, <1>5
  <2>2. Iterates("search", "", results, N, f)
    BY <2>1 DEF Iterates
  <2>3. QED BY <2>2, FoldsGoInOrder
<1>7. buildJsonString(results) = f[1..N].shown
  BY <1>4 DEF buildJsonString, FoldLeft, MapThenFoldSet, Turn, Nothing
<1>8. QED BY <1>6, <1>7

(* What holds before the first element and is kept by each holds after the last. *)
LEMMA UpToLast ==
  ASSUME NEW N \in Nat, NEW right \in SUBSET (0..N), 0 \in right,
         \A n \in 1..N : n - 1 \in right => n \in right
  PROVE  N \in right
<1> DEFINE back == {m \in 1..(N + 1) : N + 1 - m \in right}
<1>1. N + 1 \in back /\ N + 1 \in Nat /\ back \in SUBSET (1..(N + 1))
  OBVIOUS
<1>2. ASSUME NEW m \in back, m > 1  PROVE m - 1 \in back
  <2>1. PICK n : n = N + 1 - (m - 1)
    OBVIOUS
  <2>2. n \in 1..N /\ n - 1 = N + 1 - m /\ m - 1 \in 1..(N + 1)
    BY <1>2, <2>1
  <2>3. QED BY <2>1, <2>2
<1>3. 1 \in back
  <2> HIDE DEF back
  <2>1. QED BY <1>1, <1>2, DownToOne
<1>4. QED BY <1>3

(* Of two ads that name each other, an answer has one at most. *)
LEMMA OneIsShown ==
  ASSUME NEW results, NEW N \in Nat, DOMAIN results = 1..N,
         NEW a, NEW b, a # b, b \in summary[a].DUPLICATES, a \in summary[b].DUPLICATES
  PROVE  ~({a, b} \subseteq buildJsonString(results))
<1> DEFINE Right(answer) == /\ ~({a, b} \subseteq answer.shown)
                            /\ answer.shown \cap {a, b} # {} => {a, b} \subseteq answer.provided
<1>1. PICK so_far : InOrder("search", "", results, N, so_far) /\ buildJsonString(results) = so_far[N].shown
  BY SearchInOrder DEF Ends
<1>2. so_far[0] = Nothing /\ \A n \in 1..N : so_far[n] = Turn(so_far[n - 1], results[n])
  BY <1>1 DEF InOrder, Begin, Step
<1>3. Right(Nothing)
  BY DEF Nothing
<1>4. ASSUME NEW answer, Right(answer), NEW id  PROVE Right(Turn(answer, id))
  <2>1. CASE id \in answer.provided
    BY <1>4, <2>1 DEF Turn
  <2>2. CASE id \notin answer.provided
    <3>1. /\ Turn(answer, id).shown = answer.shown \cup {id}
          /\ Turn(answer, id).provided = answer.provided \cup {id} \cup summary[id].DUPLICATES
      BY <2>2 DEF Turn
    <3>2. CASE id \in {a, b}
      <4>1. answer.shown \cap {a, b} = {}
        BY <1>4, <2>2, <3>2
      <4>2. QED BY <3>1, <3>2, <4>1
    <3>3. CASE id \notin {a, b}
      BY <1>4, <3>1, <3>3
    <3>4. QED BY <3>2, <3>3
  <2>3. QED BY <2>1, <2>2
<1>5. PICK right : right = {n \in 0..N : Right(so_far[n])}
  OBVIOUS
<1> HIDE DEF Right
<1>6. \A n \in 1..N : n \in 0..N /\ n - 1 \in 0..N /\ 0 \in 0..N
  OBVIOUS
<1>7. right \in SUBSET (0..N) /\ 0 \in right /\ \A n \in 1..N : n - 1 \in right => n \in right
  BY <1>2, <1>3, <1>4, <1>5, <1>6
<1>8. N \in right
  BY <1>7, UpToLast
<1>9. QED BY <1>1, <1>5, <1>8 DEF Right

-----------------------------------------------------------------------------
(* What a listed ad has is what its document gives. *)
FieldsInv == \A id \in Listed : summary[id].fields = Formatted[pages[id]].fields \cup {"CITY"}

(* Compare is lexicographic: price, rooms, surface. *)
LEMMA Comparing ==
  ASSUME NEW left, NEW right
  PROVE  LET l == SortKey(left)
             r == SortKey(right)
         IN  /\ l[1] < r[1] => Compare(left, right)
             /\ l[1] = r[1] /\ l[2] < r[2] => Compare(left, right)
             /\ l[1] = r[1] /\ l[2] = r[2] /\ l[3] < r[3] => Compare(left, right)
<1> DEFINE l == SortKey(left)
           r == SortKey(right)
<1>0. Compare(left, right) <=> \E i \in 1..3 : l[i] < r[i] /\ \A j \in 1..(i - 1) : l[j] = r[j]
  BY DEF Compare
<1> HIDE DEF l, r
<1>1. l[1] < r[1] => Compare(left, right)
  <2>1. 1 \in 1..3 /\ 1..(1 - 1) = {}
    OBVIOUS
  <2>2. QED BY <1>0, <2>1
<1>2. l[1] = r[1] /\ l[2] < r[2] => Compare(left, right)
  <2>1. 2 \in 1..3 /\ 1..(2 - 1) = {1}
    OBVIOUS
  <2>2. QED BY <1>0, <2>1
<1>3. l[1] = r[1] /\ l[2] = r[2] /\ l[3] < r[3] => Compare(left, right)
  <2>1. 3 \in 1..3 /\ \A j \in 1..(3 - 1) : j = 1 \/ j = 2
    OBVIOUS
  <2>2. QED BY <1>0, <2>1
<1>4. QED BY <1>1, <1>2, <1>3 DEF l, r

(* What the sort puts between two identical ads agrees with them. *)
LEMMA BetweenIdentical ==
  ASSUME PagesAssumption, pages \in Pages, FieldsInv, Listed \subseteq DOMAIN pages,
         NEW a \in Listed, NEW b \in Listed, NEW c \in Listed, Identical(a, b),
         pages[c].type = pages[a].type, ~Compare(c, a), ~Compare(b, c)
  PROVE  Key(c) = Key(a) /\ Compared \subseteq Formatted[pages[c]].fields
<1>1. /\ pages[a].price = pages[b].price /\ pages[a].surface = pages[b].surface
      /\ pages[a].rooms = pages[b].rooms
      /\ pages[a].price # 0 /\ pages[a].surface # 0 /\ pages[a].rooms # 0
      /\ Compared \subseteq Formatted[pages[a]].fields /\ Compared \subseteq Formatted[pages[b]].fields
  BY DEF Identical, Key
<1>2. /\ pages[a].price \in Nat /\ pages[a].surface \in Nat /\ pages[a].rooms \in Nat
      /\ pages[c].price \in Nat /\ pages[c].surface \in Nat /\ pages[c].rooms \in Nat
  BY Numbers
<1>3. /\ SortKey(a) = <<pages[a].price, pages[a].rooms, pages[a].surface>>
      /\ SortKey(b) = <<pages[a].price, pages[a].rooms, pages[a].surface>>
  BY <1>1 DEF SortKey, FieldsInv, Compared
<1>4. PICK p, r, s : /\ p = IF "PRICE" \in summary[c].fields THEN pages[c].price ELSE 0
                     /\ r = IF "ROOMS" \in summary[c].fields THEN pages[c].rooms ELSE 0
                     /\ s = IF "SURFACE" \in summary[c].fields THEN pages[c].surface ELSE 0
  OBVIOUS
<1>5. SortKey(c) = <<p, r, s>> /\ p \in Nat /\ r \in Nat /\ s \in Nat
  BY <1>2, <1>4 DEF SortKey
<1>6. /\ ~(p < pages[a].price) /\ ~(p = pages[a].price /\ r < pages[a].rooms)
      /\ ~(p = pages[a].price /\ r = pages[a].rooms /\ s < pages[a].surface)
  BY <1>3, <1>5, Comparing
<1>7. /\ ~(pages[a].price < p) /\ ~(pages[a].price = p /\ pages[a].rooms < r)
      /\ ~(pages[a].price = p /\ pages[a].rooms = r /\ pages[a].surface < s)
  BY <1>3, <1>5, Comparing
<1>8. p = pages[a].price /\ r = pages[a].rooms /\ s = pages[a].surface
  BY <1>2, <1>5, <1>6, <1>7
<1>9. Compared \subseteq summary[c].fields
  BY <1>1, <1>4, <1>8 DEF Compared
<1>10. Key(c) = Key(a)
  BY <1>4, <1>8, <1>9 DEF Key, Compared
<1>11. Compared \subseteq Formatted[pages[c]].fields
  BY <1>9 DEF FieldsInv, Compared
<1>12. QED BY <1>10, <1>11

(* An ad that agrees with one like the first ad of a group is like that one. *)
LEMMA SameAreSimilar ==
  ASSUME PagesAssumption, TolerancesAssumption, pages \in Pages,
         NEW f \in DOMAIN pages, NEW a \in DOMAIN pages, NEW c \in DOMAIN pages,
         NearFirst(f, a), f # c, Key(c) = Key(a), pages[c].search = pages[a].search,
         Compared \subseteq Formatted[pages[a]].fields, Compared \subseteq Formatted[pages[c]].fields
  PROVE  IsSimilar_v2(f, c)
<1>1. /\ pages[c].price = pages[a].price /\ pages[c].surface = pages[a].surface
      /\ pages[c].rooms = pages[a].rooms /\ pages[c].type = pages[a].type
  BY DEF Key
<1>2. CASE f = a
  <2>1. pages[a].price \in Nat /\ pages[a].surface \in Nat
    BY Numbers
  <2>2. Difference(pages[a].price, pages[a].price) = 0 /\ Difference(pages[a].surface, pages[a].surface) = 0
    BY <2>1 DEF Difference
  <2>3. 0 < SurfaceTolerance /\ PriceTolerance \in Nat
    BY DEF TolerancesAssumption
  <2>4. 0 <= PriceTolerance * pages[a].price
    BY <2>1, <2>3
  <2>5. 0 * 1000 <= PriceTolerance * pages[a].price
    BY <2>4
  <2>6. QED BY <1>1, <1>2, <2>2, <2>3, <2>5 DEF IsSimilar_v2, Alike
<1>3. CASE IsSimilar_v2(f, a)
  BY <1>1, <1>3 DEF IsSimilar_v2, Alike
<1>4. QED BY <1>2, <1>3 DEF NearFirst

(* Two identical ads are in one group: what the sort puts between them is in it too. *)
LEMMA IdenticalAreTogether ==
  ASSUME PagesAssumption, TolerancesAssumption, pages \in Pages, FieldsInv, Listed \subseteq DOMAIN pages,
         NEW ads \in SUBSET Listed, IsFiniteSet(ads), NEW order \in Sorted(ads),
         \A x, y \in ads : pages[x].type = pages[y].type,
         NEW a \in ads, NEW b \in ads, Identical(a, b)
  PROVE  \E group \in updateDuplicates(order) : a \in group /\ b \in group
<1>1. /\ order \in [1..Cardinality(ads) -> ads] /\ Cardinality(ads) \in Nat
      /\ \A i, j \in 1..Cardinality(ads) : i # j => order[i] # order[j]
      /\ \A i, j \in 1..Cardinality(ads) : i < j => ~Compare(order[j], order[i])
  <2>1. /\ order \in SetToSeqs(ads) /\ \A i, j \in DOMAIN order : i < j => ~Compare(order[j], order[i])
    BY DEF Sorted
  <2>2. /\ order \in [1..Cardinality(ads) -> ads]
        /\ \A i, j \in 1..Cardinality(ads) : i # j => order[i] # order[j]
    BY <2>1 DEF SetToSeqs
  <2>3. Cardinality(ads) \in Nat
    BY FS_CardinalityType
  <2>4. QED BY <2>1, <2>2, <2>3
<1>2. \A id \in ads : \E i \in 1..Cardinality(ads) : order[i] = id
  <2>1. IsFiniteSet(1..Cardinality(ads)) /\ Cardinality(1..Cardinality(ads)) = Cardinality(ads)
    BY <1>1, FS_Interval
  <2>2. order \in Injection(1..Cardinality(ads), ads)
    BY <1>1 DEF Injection, IsInjective
  <2>3. order \in Surjection(1..Cardinality(ads), ads)
    BY <2>1, <2>2, FS_Injection
  <2>4. QED BY <2>3 DEF Surjection
<1>3. Len(order) = Cardinality(ads) /\ Len(order) \in Nat
  BY <1>1
<1>4. \A k \in 1..Len(order) : order[k] \in ads /\ order[k] \in DOMAIN pages /\ order[k] \in Listed
  BY <1>1, <1>3
(* The run of the one that comes first has the other. *)
<1>5. ASSUME NEW x \in ads, NEW y \in ads, Identical(x, y),
             NEW i \in 1..Len(order), NEW j \in 1..Len(order), order[i] = x, order[j] = y, i < j
      PROVE  \E group \in Runs(order)[1] : x \in group /\ y \in group
  <2>1. PartitionFrom(order, 1)
    BY <1>1, <1>3, RunsArePartition
  <2>2. PICK it \in 1..i : Run(order, it) \in Runs(order)[1] /\ i \in it..LastSimilar(order, it)
    BY <2>1 DEF PartitionFrom
  <2>3. it \in 1..Len(order)
    BY <1>3, <2>2
  <2>4. PICK last : last = LastSimilar(order, it)
    OBVIOUS
  <2>5. /\ last \in it..Len(order) /\ i \in it..last
        /\ \A k \in (it + 1)..last : IsSimilar_v2(order[it], order[k])
    BY <1>3, <2>2, <2>3, <2>4, LastIsFound
  <2>6. NearFirst(order[it], x)
    BY <1>5, <2>3, <2>5 DEF NearFirst
  <2>7. ASSUME last < j  PROVE FALSE
    <3>1. PICK k : k = last + 1
      OBVIOUS
    <3>2. k \in 1..Len(order) /\ i < k /\ k <= j /\ it # k
      BY <1>3, <2>3, <2>5, <2>7, <3>1
    <3>3. ~Compare(order[k], x) /\ (k = j \/ ~Compare(y, order[k]))
      BY <1>1, <1>3, <1>5, <3>2
    <3>4. /\ x \in Listed /\ y \in Listed /\ order[k] \in Listed /\ order[k] \in ads
          /\ x \in DOMAIN pages /\ order[k] \in DOMAIN pages /\ order[it] \in DOMAIN pages
      BY <1>4, <2>3, <3>2
    <3>5. Key(order[k]) = Key(x) /\ Compared \subseteq Formatted[pages[order[k]]].fields
      <4>1. CASE k = j
        BY <1>5, <4>1 DEF Identical
      <4>2. CASE k # j
        BY <1>5, <3>3, <3>4, <4>2, BetweenIdentical
      <4>3. QED BY <4>1, <4>2
    <3>6. /\ pages[order[k]].search = pages[x].search
          /\ Compared \subseteq Formatted[pages[x]].fields
      BY <1>5, <3>4, <3>5 DEF Identical
    <3>7. order[it] # order[k]
      BY <1>1, <1>3, <2>3, <3>2
    <3>8. IsSimilar_v2(order[it], order[k])
      BY <2>6, <3>4, <3>5, <3>6, <3>7, SameAreSimilar
    <3>9. last < Len(order)
      BY <1>3, <2>5, <2>7
    <3>10. QED BY <1>3, <2>3, <2>4, <3>1, <3>8, <3>9, LastIsGreatest
  <2>8. i \in it..last /\ j \in it..last
    BY <1>5, <2>3, <2>5, <2>7
  <2>9. order[i] \in Run(order, it) /\ order[j] \in Run(order, it)
    BY <2>4, <2>8 DEF Run
  <2>10. QED BY <1>5, <2>2, <2>9
<1>6. PICK i \in 1..Len(order), j \in 1..Len(order) : order[i] = a /\ order[j] = b
  BY <1>2, <1>3
<1>7. a # b /\ i # j
  BY <1>6 DEF Identical
<1>8. Identical(b, a)
  BY <1>4, <1>6 DEF Identical, Key
<1>9. PICK group \in Runs(order)[1] : a \in group /\ b \in group
  <2>1. CASE i < j
    BY <1>5, <1>6, <2>1
  <2>2. CASE j < i
    BY <1>5, <1>6, <1>8, <2>2
  <2>3. QED BY <1>7, <2>1, <2>2
<1>10. Cardinality(group) > 1
  <2>1. group \subseteq ads
    <3>1. PICK k \in 1..Len(order) : group = Run(order, k)
      BY <1>1, <1>3, RunsArePartition DEF PartitionFrom
    <3>2. LastSimilar(order, k) \in k..Len(order)
      BY <1>3, LastIsFound
    <3>3. \A n \in k..LastSimilar(order, k) : n \in 1..Len(order)
      BY <1>3, <3>2
    <3>4. QED BY <1>4, <3>1, <3>3 DEF Run
  <2>2. IsFiniteSet(group)
    BY <2>1, FS_Subset
  <2>3. Cardinality(group) \in Nat /\ Cardinality({a}) = 1 /\ IsFiniteSet({a})
    BY <2>2, FS_CardinalityType, FS_Singleton
  <2>4. Cardinality({a}) <= Cardinality(group) /\ (Cardinality(group) = Cardinality({a}) => group = {a})
    <3>1. {a} \in SUBSET group
      BY <1>9
    <3>2. QED BY <2>2, <3>1, FS_Subset
  <2>5. group # {a}
    BY <1>7, <1>9
  <2>6. QED BY <2>3, <2>4, <2>5
<1>11. group \in updateDuplicates(order)
  BY <1>9, <1>10 DEF updateDuplicates
<1>12. QED BY <1>9, <1>11

-----------------------------------------------------------------------------
(* The types left differ from one another and from those of the ads dealt with, but for the type
   whose groups are being written. *)
TypesInv ==
  /\ fix.types \in Seq(STRING) /\ (fix.left # {} => fix.types # <<>>)
  /\ \A i, j \in 1..Len(fix.types) : i # j => fix.types[i] # fix.types[j]
  /\ \A id \in settled : \A i \in 1..Len(fix.types) :
       (i = 1 => fix.left = {}) => pages[id].type # fix.types[i]

(* The ads a run has dealt with are in the table, the groups to write have no ad in common, and two
   of the ads that are identical name each other or are in one group that is still to be written. *)
Named(a, b, left, groups) ==
  IF a \in left THEN \E group \in groups : a \in group /\ b \in group
  ELSE b \in summary[a].DUPLICATES
TogetherInv ==
  /\ FieldsInv /\ TypesInv
  /\ settled \subseteq DOMAIN summary
  /\ \A g, h \in fix.groups : g = h \/ g \cap h = {}
  /\ \A a, b \in settled : Identical(a, b) => Named(a, b, fix.left, fix.groups)

LEMMA SameIdentical == ASSUME pages' = pages PROVE \A a, b : Identical(a, b)' <=> Identical(a, b)
<1>1. \A id : Key(id)' = Key(id)
  BY DEF Key
<1>2. QED BY <1>1 DEF Identical

(* A step that leaves the run as it is, and the ads it has dealt with. *)
LEMMA SameTogether ==
  ASSUME TogetherInv, pages' = pages, fix' = fix, FieldsInv', settled' \subseteq settled,
         \A id \in settled' : id \in DOMAIN summary' /\ summary'[id] = summary[id]
  PROVE  TogetherInv'
<1>1. TypesInv'
  BY DEF TogetherInv, TypesInv
<1>2. ASSUME NEW a \in settled', NEW b \in settled', Identical(a, b)'
      PROVE  Named(a, b, fix.left, fix.groups)'
  <2>1. Identical(a, b)
    BY <1>2, SameIdentical
  <2>2. Named(a, b, fix.left, fix.groups)
    BY <2>1 DEF TogetherInv
  <2>3. QED BY <2>2 DEF Named
<1>3. (settled \subseteq DOMAIN summary)' /\ (\A g, h \in fix.groups : g = h \/ g \cap h = {})'
  BY DEF TogetherInv
<1>4. QED BY <1>1, <1>2, <1>3 DEF TogetherInv

(* A step of the run, which may be the last of a type. *)
LEMMA LeavingTogether ==
  ASSUME NEW run,
         run = [types |-> run.types, SOURCES |-> run.SOURCES, groups |-> run.groups, left |-> run.left],
         pages' = pages, fix' = Leaving(run), FieldsInv', settled' \subseteq DOMAIN summary',
         run.types \in Seq(STRING), run.types # <<>>,
         \A i, j \in 1..Len(run.types) : i # j => run.types[i] # run.types[j],
         \A id \in settled' : \A i \in 1..Len(run.types) : i # 1 => pages[id].type # run.types[i],
         \A g, h \in run.groups : g = h \/ g \cap h = {},
         \A a, b \in settled' : Identical(a, b) =>
           IF a \in run.left THEN \E group \in run.groups : a \in group /\ b \in group
           ELSE b \in summary'[a].DUPLICATES
  PROVE  TogetherInv'
<1>1. ASSUME NEW a \in settled', NEW b \in settled', Identical(a, b)'
      PROVE  IF a \in run.left THEN \E group \in run.groups : a \in group /\ b \in group
             ELSE b \in summary'[a].DUPLICATES
  BY <1>1, SameIdentical
<1>2. CASE run.left = {}
  <2>1. fix' = [types |-> Tail(run.types), SOURCES |-> << >>, groups |-> {}, left |-> {}]
    BY <1>2 DEF Leaving, Resting
  <2>2. /\ Tail(run.types) \in Seq(STRING) /\ Len(run.types) \in Nat
        /\ Len(Tail(run.types)) = Len(run.types) - 1
        /\ \A i \in 1..Len(Tail(run.types)) : Tail(run.types)[i] = run.types[i + 1]
    OBVIOUS
  <2>3. \A i \in 1..Len(Tail(run.types)) : i + 1 \in 1..Len(run.types) /\ i + 1 # 1
    BY <2>2
  <2>4. TypesInv'
    <3>1. \A i, j \in 1..Len(Tail(run.types)) : i # j => Tail(run.types)[i] # Tail(run.types)[j]
      <4> SUFFICES ASSUME NEW i \in 1..Len(Tail(run.types)), NEW j \in 1..Len(Tail(run.types)), i # j
                   PROVE  Tail(run.types)[i] # Tail(run.types)[j]
        OBVIOUS
      <4>1. i + 1 # j + 1
        OBVIOUS
      <4>2. QED BY <2>2, <2>3, <4>1
    <3>2. \A id \in settled' : \A i \in 1..Len(Tail(run.types)) : pages'[id].type # Tail(run.types)[i]
      BY <2>2, <2>3
    <3>3. fix'.types = Tail(run.types) /\ fix'.left = {}
      BY <2>1
    <3>4. QED BY <2>2, <3>1, <3>2, <3>3 DEF TypesInv
  <2>5. \A a, b \in settled' : Identical(a, b)' => Named(a, b, fix.left, fix.groups)'
    BY <1>1, <1>2, <2>1 DEF Named
  <2>6. QED BY <2>1, <2>4, <2>5 DEF TogetherInv
<1>3. CASE run.left # {}
  <2>1. fix' = run
    BY <1>3 DEF Leaving
  <2>2. TypesInv'
    BY <1>3, <2>1 DEF TypesInv
  <2>3. \A a, b \in settled' : Identical(a, b)' => Named(a, b, fix.left, fix.groups)'
    BY <1>1, <2>1 DEF Named
  <2>4. QED BY <2>1, <2>2, <2>3 DEF TogetherInv
<1>4. QED BY <1>2, <1>3

LEMMA FieldsStep ==
  ASSUME FieldsInv, pages' = pages,
         \A id \in DOMAIN summary' :
           \/ id \in DOMAIN summary /\ summary'[id].fields = summary[id].fields
           \/ summary'[id].fields = Formatted[pages[id]].fields \cup {"CITY"}
           \/ "CITY" \notin summary'[id].fields
  PROVE  FieldsInv'
BY DEF FieldsInv, Listed

LEMMA AdaptTogether ==
  ASSUME TogetherInv, AdaptStep
  PROVE  TogetherInv'
<1>1. UNCHANGED <<pages, fix, settled>>
  BY DEF AdaptStep, Start, PutTargetTable
<1>2. CASE UNCHANGED summary
  <2>1. FieldsInv'
    BY <1>1, <1>2, FieldsStep DEF TogetherInv
  <2>2. QED BY <1>1, <1>2, <2>1, SameTogether DEF TogetherInv
<1>3. ASSUME NEW id, id \notin DOMAIN summary, NEW item,
             item = Ghost \/ item = CheckSimilarAnnounces(id), Write(id, item)
      PROVE  TogetherInv'
  <2>1. /\ DOMAIN summary' = DOMAIN summary \cup {id} /\ summary'[id] = item
        /\ \A other \in DOMAIN summary : summary'[other] = summary[other]
    BY <1>3 DEF Write
  <2>2. item.fields = Formatted[pages[id]].fields \cup {"CITY"} \/ "CITY" \notin item.fields
    BY <1>3 DEF Ghost, CheckSimilarAnnounces
  <2>3. FieldsInv'
    BY <1>1, <2>1, <2>2, FieldsStep DEF TogetherInv
  <2>4. QED BY <1>1, <2>1, <2>3, SameTogether DEF TogetherInv
<1>4. QED BY <1>2, <1>3 DEF AdaptStep, Start, PutTargetTable

LEMMA RemoveTogether ==
  ASSUME TogetherInv, NEW id, Removed(id)
  PROVE  TogetherInv'
<1>1. /\ UNCHANGED <<pages, fix>> /\ settled' = settled \ {id}
      /\ summary' = [other \in DOMAIN summary \ {id} |-> summary[other]]
  BY DEF Removed, RemoveAd, Restrict
<1>2. FieldsInv'
  BY <1>1, FieldsStep DEF TogetherInv
<1>3. QED BY <1>1, <1>2, SameTogether DEF TogetherInv

LEMMA MainTogether ==
  ASSUME TypesAssumption, TogetherInv, Main
  PROVE  TogetherInv'
<1>1. /\ UNCHANGED <<pages, summary>> /\ settled' = {}
      /\ fix' = [types |-> Types, SOURCES |-> << >>, groups |-> {}, left |-> {}]
  BY DEF Main, adaptVars, Resting
<1>2. FieldsInv'
  BY <1>1, FieldsStep DEF TogetherInv
<1>3. TypesInv'
  BY <1>1 DEF TypesInv, TypesAssumption
<1>4. QED BY <1>1, <1>2, <1>3 DEF TogetherInv

(* The groups of a type have all of its ads that are identical. *)
LEMMA ReadTogether ==
  ASSUME PagesAssumption, TolerancesAssumption, DuplicatesInv, TogetherInv, readTable
  PROVE  TogetherInv'
<1>1. UNCHANGED <<pages, summary>> /\ fix.types # << >> /\ fix.left = {}
  BY DEF readTable, adaptVars
<1>a. PICK ads \in SUBSET {id \in Listed : pages[id].type = Head(fix.types)} :
        \E order \in Sorted(ads) :
          LET groups == updateDuplicates(order)
          IN  /\ fix' = Leaving([types   |-> fix.types,
                                 SOURCES |-> [id \in UNION groups |-> summary[id].SOURCES],
                                 groups  |-> groups,
                                 left    |-> UNION groups])
              /\ settled' = settled \cup ads
  BY DEF readTable
<1>2. PICK order \in Sorted(ads) :
        /\ fix' = Leaving([types   |-> fix.types,
                           SOURCES |-> [id \in UNION updateDuplicates(order) |-> summary[id].SOURCES],
                           groups  |-> updateDuplicates(order),
                           left    |-> UNION updateDuplicates(order)])
        /\ settled' = settled \cup ads
  BY <1>a
<1>3. PICK groups, sources : /\ groups = updateDuplicates(order)
                             /\ sources = [id \in UNION groups |-> summary[id].SOURCES]
  OBVIOUS
<1>4. PICK run : run = [types |-> fix.types, SOURCES |-> sources, groups |-> groups, left |-> UNION groups]
  OBVIOUS
<1>5. fix' = Leaving(run)
  BY <1>2, <1>3, <1>4
<1>6. /\ ads \subseteq Listed /\ IsFiniteSet(ads) /\ Listed \subseteq DOMAIN pages
      /\ \A id \in ads : pages[id].type = fix.types[1]
  <2>1. Listed \subseteq DOMAIN pages
    BY DEF Listed, DuplicatesInv, SummaryInv
  <2>2. IsFiniteSet(DOMAIN pages)
    BY DEF DuplicatesInv, PagesAssumption
  <2>3. Head(fix.types) = fix.types[1]
    BY <1>1 DEF TogetherInv, TypesInv
  <2>4. QED BY <2>1, <2>2, <2>3, FS_Subset
<1>7. 1 \in 1..Len(fix.types)
  BY <1>1 DEF TogetherInv, TypesInv
<1>8. \A id \in settled : pages[id].type # fix.types[1]
  BY <1>1, <1>7 DEF TogetherInv, TypesInv
<1>9. \A id \in settled' : \A i \in 1..Len(fix.types) : i # 1 => pages[id].type # fix.types[i]
  BY <1>2, <1>6, <1>7 DEF TogetherInv, TypesInv
<1>10. \A g, h \in groups : g = h \/ g \cap h = {}
  <2>1. /\ order \in [1..Cardinality(ads) -> ads] /\ Cardinality(ads) \in Nat
        /\ \A i, j \in 1..Cardinality(ads) : i # j => order[i] # order[j]
    BY <1>6, FS_CardinalityType DEF Sorted, SetToSeqs
  <2>2. Len(order) = Cardinality(ads)
    BY <2>1
  <2>3. PartitionFrom(order, 1)
    BY <2>1, <2>2, RunsArePartition
  <2>4. QED BY <1>3, <2>3 DEF PartitionFrom, updateDuplicates
<1>11. UNION groups \subseteq ads
  BY <1>3, <1>6, GroupsAreAlike
<1>12. ASSUME NEW a \in settled', NEW b \in settled', Identical(a, b)
       PROVE  IF a \in UNION groups THEN \E group \in groups : a \in group /\ b \in group
              ELSE b \in summary'[a].DUPLICATES
  <2>1. pages[a].type = pages[b].type
    BY <1>12 DEF Identical, Key
  <2>2. CASE a \in ads
    <3>1. b \in ads
      BY <1>2, <1>6, <1>8, <2>1, <2>2
    <3>2. \A x, y \in ads : pages[x].type = pages[y].type
      BY <1>6
    <3>3. \E group \in updateDuplicates(order) : a \in group /\ b \in group
      BY <1>6, <1>12, <2>2, <3>1, <3>2, IdenticalAreTogether DEF DuplicatesInv, TogetherInv
    <3>4. QED BY <1>3, <3>3
  <2>3. CASE a \notin ads
    <3>1. a \in settled /\ b \in settled
      BY <1>2, <1>6, <1>8, <2>1, <2>3
    <3>2. Named(a, b, fix.left, fix.groups)
      BY <1>12, <3>1 DEF TogetherInv
    <3>3. QED BY <1>1, <1>11, <2>3, <3>2 DEF Named
  <2>4. QED BY <2>2, <2>3
<1>13. FieldsInv'
  BY <1>1, FieldsStep DEF TogetherInv
<1>14. settled' \subseteq DOMAIN summary'
  BY <1>1, <1>2, <1>6 DEF TogetherInv, Listed
<1>15. /\ fix.types \in Seq(STRING)
       /\ \A i, j \in 1..Len(fix.types) : i # j => fix.types[i] # fix.types[j]
  BY DEF TogetherInv, TypesInv
<1>16. /\ run = [types |-> run.types, SOURCES |-> run.SOURCES, groups |-> run.groups, left |-> run.left]
       /\ run.types = fix.types /\ run.groups = groups /\ run.left = UNION groups
  BY <1>4
<1>17. QED BY <1>1, <1>5, <1>9, <1>10, <1>12, <1>13, <1>14, <1>15, <1>16, LeavingTogether

(* An ad that is written names its group; one whose update fails is not dealt with. *)
LEMMA UpdateTogether ==
  ASSUME DuplicatesInv, TogetherInv, NEW id, updateTable(id)
  PROVE  TogetherInv'
<1>1. pages' = pages /\ id \in fix.left
  BY DEF updateTable
<1>2. PICK run : run = [fix EXCEPT !.left = @ \ {id}]
  OBVIOUS
<1>3. run = [types |-> fix.types, SOURCES |-> fix.SOURCES, groups |-> fix.groups, left |-> fix.left \ {id}]
  BY <1>2 DEF DuplicatesInv, FixInv
<1>4. fix' = Leaving(run)
  BY <1>2 DEF updateTable
<1>5. PICK item : item = IF id \in DOMAIN summary THEN summary[id] ELSE Ghost
  OBVIOUS
<1>6. PICK group : group = CHOOSE g \in fix.groups : id \in g
  OBVIOUS
<1>7. PICK sources : sources = fix.SOURCES[id] \cup {pages[other].source : other \in group \ {id}}
  OBVIOUS
<1>8. PICK written : written = [item EXCEPT !.DUPLICATES = group \ {id}, !.SOURCES = sources]
  OBVIOUS
<1>9. \/ settled' = settled /\ Write(id, written)
      \/ settled' = settled \ {id} /\ summary' = summary
  BY <1>5, <1>6, <1>7, <1>8 DEF updateTable, updateGroupOfDuplicates
<1>10. written.fields = item.fields /\ written.DUPLICATES = group \ {id}
  <2>1. item = [fields |-> item.fields, DUPLICATES |-> item.DUPLICATES, SOURCES |-> item.SOURCES]
    <3>1. CASE id \in DOMAIN summary
      BY <1>5, <3>1 DEF DuplicatesInv, SummaryInv, ItemInv
    <3>2. CASE id \notin DOMAIN summary
      BY <1>5, <3>2 DEF Ghost
    <3>3. QED BY <3>1, <3>2
  <2>2. QED BY <1>8, <2>1
<1>11. /\ DOMAIN summary \subseteq DOMAIN summary'
       /\ \A other \in DOMAIN summary : other # id => summary'[other] = summary[other]
       /\ settled' = settled => summary'[id] = written \/ summary' = summary
  BY <1>9 DEF Write
<1>12. FieldsInv'
  <2>1. CASE summary' = summary
    BY <1>1, <2>1, FieldsStep DEF TogetherInv
  <2>2. CASE Write(id, written)
    <3>1. /\ DOMAIN summary' = DOMAIN summary \cup {id} /\ summary'[id] = written
          /\ \A other \in DOMAIN summary : other # id => summary'[other] = summary[other]
      BY <2>2 DEF Write
    <3>2. (id \in DOMAIN summary /\ written.fields = summary[id].fields) \/ "CITY" \notin written.fields
      BY <1>5, <1>10 DEF Ghost
    <3>3. QED BY <1>1, <3>1, <3>2, FieldsStep DEF TogetherInv
  <2>3. QED BY <1>9, <2>1, <2>2
<1>13. settled' \subseteq settled /\ settled' \subseteq DOMAIN summary'
  BY <1>9, <1>11 DEF TogetherInv
<1>14. ASSUME NEW a \in settled', NEW b \in settled', Identical(a, b)
       PROVE  IF a \in run.left THEN \E g \in run.groups : a \in g /\ b \in g
              ELSE b \in summary'[a].DUPLICATES
  <2>1. Named(a, b, fix.left, fix.groups) /\ a # b
    BY <1>13, <1>14 DEF TogetherInv, Identical
  <2>2. CASE a # id
    <3>1. summary'[a] = summary[a]
      BY <1>11, <1>13, <2>2 DEF TogetherInv
    <3>2. a \in run.left <=> a \in fix.left
      BY <1>3, <2>2
    <3>3. QED BY <1>3, <2>1, <3>1, <3>2 DEF Named
  <2>3. CASE a = id
    <3>1. Write(id, written)
      BY <1>9, <1>14, <2>3
    <3>2. summary'[id] = written
      BY <3>1 DEF Write
    <3>3. PICK g \in fix.groups : id \in g /\ b \in g
      BY <1>1, <2>1, <2>3 DEF Named
    <3>4. group \in fix.groups /\ id \in group
      BY <1>6, <3>3
    <3>5. group = g
      BY <3>3, <3>4 DEF TogetherInv
    <3>6. b \in group \ {id}
      BY <2>1, <2>3, <3>3, <3>5
    <3>7. QED BY <1>3, <1>10, <2>3, <3>2, <3>6
  <2>4. QED BY <2>2, <2>3
<1>15. /\ fix.types \in Seq(STRING) /\ fix.types # <<>>
       /\ \A i, j \in 1..Len(fix.types) : i # j => fix.types[i] # fix.types[j]
       /\ \A other \in settled' : \A i \in 1..Len(fix.types) : i # 1 => pages[other].type # fix.types[i]
       /\ \A g, h \in fix.groups : g = h \/ g \cap h = {}
  BY <1>1, <1>13 DEF TogetherInv, TypesInv
<1>16. /\ run = [types |-> run.types, SOURCES |-> run.SOURCES, groups |-> run.groups, left |-> run.left]
       /\ run.types = fix.types /\ run.groups = fix.groups
  BY <1>3
<1>17. QED BY <1>1, <1>4, <1>12, <1>13, <1>14, <1>15, <1>16, LeavingTogether

LEMMA TogetherInvHolds ==
  ASSUME PagesAssumption, TolerancesAssumption, TypesAssumption
  PROVE  Spec => []TogetherInv
<1>1. Init => TogetherInv
  <2>1. Init => settled = {} /\ DOMAIN summary = {} /\ fix.types = <<>> /\ fix.groups = {} /\ fix.left = {}
    BY DEF Init, AdaptInit, Resting
  <2>2. <<>> \in Seq(STRING) /\ 1..Len(<<>>) = {}
    OBVIOUS
  <2>3. QED BY <2>1, <2>2 DEF TogetherInv, FieldsInv, Listed, TypesInv
<1>2. DuplicatesInv /\ TogetherInv /\ [Next]_vars => TogetherInv'
  <2> SUFFICES ASSUME DuplicatesInv, TogetherInv, [Next]_vars  PROVE TogetherInv'
    OBVIOUS
  <2>1. CASE AdaptStep
    BY <2>1, AdaptTogether
  <2>2. CASE Main
    BY <2>2, MainTogether
  <2>3. CASE readTable
    BY <2>3, ReadTogether
  <2>4. ASSUME NEW id \in Ids, updateTable(id) \/ Removed(id)  PROVE TogetherInv'
    BY <2>4, UpdateTogether, RemoveTogether
  <2>5. CASE UNCHANGED vars
    <3>1. UNCHANGED <<pages, summary, fix, settled>>
      BY <2>5 DEF vars, adaptVars
    <3>2. FieldsInv'
      BY <3>1, FieldsStep DEF TogetherInv
    <3>3. QED BY <3>1, <3>2, SameTogether DEF TogetherInv
  <2>6. QED BY <2>1, <2>2, <2>3, <2>4, <2>5 DEF Next
<1>3. QED BY <1>1, <1>2, DuplicatesInvHolds, PTL DEF Spec

(* For any ads, documents and types, whatever order adapt_model, duplicates_fix and the removals of
   ads come in, once a run of duplicates_fix is over no search shows two of the ads it dealt with that
   are identical, in whatever order the table gives them (updateDuplicates, buildJsonString). *)
THEOREM IdenticalShownOnceHolds ==
  ASSUME PagesAssumption, TolerancesAssumption, TypesAssumption
  PROVE  Spec => []IdenticalShownOnce
<1>1. DuplicatesInv /\ TogetherInv => IdenticalShownOnce
  <2> SUFFICES ASSUME DuplicatesInv, TogetherInv, fix.types = << >>,
                      NEW a \in settled, NEW b \in settled, Identical(a, b), NEW shown \in Answers
               PROVE  ~({a, b} \subseteq shown)
    BY DEF IdenticalShownOnce
  <2>1. fix.left = {} /\ a # b
    BY DEF TogetherInv, TypesInv, Identical
  <2>2. a \in DOMAIN pages /\ b \in DOMAIN pages
    BY DEF TogetherInv, DuplicatesInv, SummaryInv
  <2>3. Identical(b, a)
    BY <2>2 DEF Identical, Key
  <2>4. b \in summary[a].DUPLICATES /\ a \in summary[b].DUPLICATES
    BY <2>1, <2>3 DEF TogetherInv, Named
  <2>a. PICK ads \in SUBSET Listed : \E results \in SetToSeqs(ads) : shown = buildJsonString(results)
    BY DEF Answers
  <2>5. PICK results \in SetToSeqs(ads) : shown = buildJsonString(results)
    BY <2>a
  <2>6. Cardinality(ads) \in Nat
    <3>1. ads \subseteq DOMAIN pages
      BY DEF Listed, DuplicatesInv, SummaryInv
    <3>2. IsFiniteSet(DOMAIN pages)
      BY DEF DuplicatesInv, PagesAssumption
    <3>3. QED BY <3>1, <3>2, FS_Subset, FS_CardinalityType
  <2>7. Len(results) \in Nat /\ DOMAIN results = 1..Len(results)
    <3>1. results \in [1..Cardinality(ads) -> ads]
      BY DEF SetToSeqs
    <3>2. QED BY <2>6, <3>1
  <2>8. QED BY <2>1, <2>4, <2>5, <2>7, OneIsShown
<1>2. QED BY <1>1, DuplicatesInvHolds, TogetherInvHolds, PTL

-----------------------------------------------------------------------------
(* The readings are of attrs, and none of them leaves the reader. *)
Reads(readings, attrs) ==
  /\ \E S : readings \in Seq(S)
  /\ \A i \in 1..Len(readings) : readings[i].returns = {}
  /\ \A attr \in attrs : \E i \in 1..Len(readings) :
       readings[i].member = attr /\ readings[i].attr = attr /\ "good" \in readings[i].sets

(* A text, a member cut at a separator or shortened: all of them read a good one. *)
LEMMA OneReading ==
  \A attr, reading :
    reading \in {Text(attr), Split(attr, attr), Cut(attr, attr)} =>
      reading.member = attr /\ reading.attr = attr /\ "good" \in reading.sets /\ reading.returns = {}
<1> SUFFICES ASSUME NEW attr, NEW reading, reading \in {Text(attr), Split(attr, attr), Cut(attr, attr)}
             PROVE  /\ reading.member = attr /\ reading.attr = attr
                    /\ "good" \in reading.sets /\ reading.returns = {}
  OBVIOUS
<1>1. Text(attr) = [member |-> attr, attr |-> attr, sets |-> Texts, skips |-> {"absent"}, returns |-> {}]
  BY DEF Text, Get
<1>2. /\ Split(attr, attr).member = attr /\ Split(attr, attr).attr = attr
      /\ "good" \in Split(attr, attr).sets /\ Split(attr, attr).returns = {}
  BY DEF Split, Get
<1>3. Cut(attr, attr) =
        [member |-> attr, attr |-> attr, sets |-> {"good"}, skips |-> {"absent"}, returns |-> {}]
  BY DEF Cut, Get
<1>4. "good" \in Texts
  BY DEF Texts
<1>5. CASE reading = Text(attr)
  BY <1>1, <1>4, <1>5
<1>6. CASE reading = Split(attr, attr)
  BY <1>2, <1>6
<1>7. CASE reading = Cut(attr, attr)
  BY <1>3, <1>7
<1>8. QED BY <1>5, <1>6, <1>7

LEMMA TextsRead ==
  ASSUME NEW attrs, NEW N \in Nat, DOMAIN attrs = 1..N
  PROVE  Reads(TextsOf(attrs), {attrs[i] : i \in 1..N})
<1>1. TextsOf(attrs) = [i \in 1..N |-> Text(attrs[i])]
  BY DEF TextsOf
<1>2. PICK all : all = {Text(attrs[i]) : i \in 1..N}
  OBVIOUS
<1>3. TextsOf(attrs) \in [1..N -> all]
  BY <1>1, <1>2
<1>4. TextsOf(attrs) \in Seq(all) /\ Len(TextsOf(attrs)) = N
  BY <1>3
<1>5. QED BY <1>1, <1>4, OneReading DEF Reads

LEMMA BothRead ==
  ASSUME NEW q, NEW r, NEW A, NEW B, Reads(q, A), Reads(r, B)
  PROVE  Reads(q \o r, A \cup B)
<1>1. PICK S, T : q \in Seq(S) /\ r \in Seq(T)
  BY DEF Reads
<1>2. q \in Seq(S \cup T) /\ r \in Seq(S \cup T)
  <2>1. \A i \in 1..Len(q) : q[i] \in S
    BY <1>1, ElementOfSeq
  <2>2. \A i \in 1..Len(r) : r[i] \in T
    BY <1>1, ElementOfSeq
  <2>3. q \in [1..Len(q) -> S \cup T] /\ r \in [1..Len(r) -> S \cup T] /\ Len(q) \in Nat /\ Len(r) \in Nat
    BY <1>1, <2>1, <2>2
  <2>4. QED BY <2>3
<1>3. q \o r \in Seq(S \cup T) /\ Len(q \o r) = Len(q) + Len(r) /\ Len(q) \in Nat /\ Len(r) \in Nat
  BY <1>2
<1>4. \A i \in 1..Len(q) : (q \o r)[i] = q[i] /\ i \in 1..Len(q \o r)
  BY <1>2, <1>3
<1>5. \A i \in 1..Len(r) : (q \o r)[i + Len(q)] = r[i] /\ i + Len(q) \in 1..Len(q \o r)
  BY <1>2, <1>3
<1>6. ASSUME NEW i \in 1..Len(q \o r)  PROVE (q \o r)[i].returns = {}
  <2>1. CASE i <= Len(q)
    BY <1>3, <1>4, <2>1 DEF Reads
  <2>2. CASE ~(i <= Len(q))
    <3>1. i - Len(q) \in 1..Len(r) /\ (i - Len(q)) + Len(q) = i
      BY <1>3, <2>2
    <3>2. QED BY <1>5, <3>1 DEF Reads
  <2>3. QED BY <2>1, <2>2
<1>7. \A attr \in A : \E i \in 1..Len(q) :
        q[i].member = attr /\ q[i].attr = attr /\ "good" \in q[i].sets
  BY DEF Reads
<1>8. \A attr \in B : \E i \in 1..Len(r) :
        r[i].member = attr /\ r[i].attr = attr /\ "good" \in r[i].sets
  BY DEF Reads
<1>9. \A attr \in A \cup B : \E i \in 1..Len(q \o r) :
        (q \o r)[i].member = attr /\ (q \o r)[i].attr = attr /\ "good" \in (q \o r)[i].sets
  BY <1>4, <1>5, <1>7, <1>8
<1>10. QED BY <1>3, <1>6, <1>9 DEF Reads

LEMMA TwoRead ==
  \A attr1, attr2, first, second :
    first \in {Split(attr1, attr1), Cut(attr1, attr1)} /\ second \in {Split(attr2, attr2), Cut(attr2, attr2)} =>
      Reads(<<first, second>>, {attr1, attr2})
<1> SUFFICES ASSUME NEW attr1, NEW attr2, NEW first, NEW second,
                    first \in {Split(attr1, attr1), Cut(attr1, attr1)},
                    second \in {Split(attr2, attr2), Cut(attr2, attr2)}
             PROVE  Reads(<<first, second>>, {attr1, attr2})
  OBVIOUS
<1>1. PICK both : both = <<first, second>>
  OBVIOUS
<1>2. both \in Seq({first, second}) /\ Len(both) = 2 /\ both[1] = first /\ both[2] = second
  BY <1>1
<1>3. 1 \in 1..2 /\ 2 \in 1..2 /\ \A i \in 1..2 : i = 1 \/ i = 2
  OBVIOUS
<1>4. /\ first.member = attr1 /\ first.attr = attr1 /\ "good" \in first.sets /\ first.returns = {}
      /\ second.member = attr2 /\ second.attr = attr2 /\ "good" \in second.sets /\ second.returns = {}
  BY OneReading
<1>5. Reads(both, {attr1, attr2})
  BY <1>2, <1>3, <1>4 DEF Reads
<1>6. QED BY <1>1, <1>5

LEMMA OneRead ==
  \A attr, first : first \in {Split(attr, attr), Cut(attr, attr)} => Reads(<<first>>, {attr})
<1> SUFFICES ASSUME NEW attr, NEW first, first \in {Split(attr, attr), Cut(attr, attr)}
             PROVE  Reads(<<first>>, {attr})
  OBVIOUS
<1>1. PICK only : only = <<first>>
  OBVIOUS
<1>2. only \in Seq({first}) /\ Len(only) = 1 /\ only[1] = first
  BY <1>1
<1>3. 1 \in 1..1 /\ \A i \in 1..1 : i = 1
  OBVIOUS
<1>4. first.member = attr /\ first.attr = attr /\ "good" \in first.sets /\ first.returns = {}
  BY OneReading
<1>5. Reads(only, {attr})
  BY <1>2, <1>3, <1>4 DEF Reads
<1>6. QED BY <1>1, <1>5

LEMMA LessRead ==
  \A readings, attrs, fewer : Reads(readings, attrs) /\ fewer \subseteq attrs => Reads(readings, fewer)
BY DEF Reads

(* The attributes of a spider's ads that its reader reads, site by site. *)
Lost(source) == IF source \in DOMAIN Unread THEN Unread[source] ELSE {}

LEMMA SpidersAreRead ==
  ASSUME NEW source \in DOMAIN Extracted
  PROVE  /\ source \in DOMAIN ReaderBySources
         /\ Reads(ReaderBySources[source], Extracted[source] \ Lost(source))
<1>1. Reads(ReadLogicImmoJSON, Logicimmo)
  <2> DEFINE attrs == <<"PRICE", "SURFACE", "ROOMS">>
  <2>1. DOMAIN attrs = 1..3 /\ Logicimmo \subseteq {attrs[i] : i \in 1..3}
    BY DEF Logicimmo
  <2>2. Reads(ReadLogicImmoJSON, {attrs[i] : i \in 1..3})
    BY <2>1, TextsRead DEF ReadLogicImmoJSON
  <2>3. QED BY <2>1, <2>2, LessRead
<1>2. Reads(ReadFonciaJSON, Foncia)
  <2> DEFINE attrs == <<"PRICE", "ROOMS", "CONSTRUCTION_YEAR", "CELLAR", "PARKING", "FLOOR",
                        "LIFT", "TYPE_OF_HEATING", "BALCONY", "BEDROOMS",
                        "AD_TEXT_DESCRIPTION">>
  <2>1. DOMAIN attrs = 1..11 /\ Foncia \subseteq {"SURFACE", "LAND_SURFACE"} \cup {attrs[i] : i \in 1..11}
    BY DEF Foncia
  <2>2. Reads(<< Split("SURFACE", "SURFACE"), Split("LAND_SURFACE", "LAND_SURFACE") >>,
              {"SURFACE", "LAND_SURFACE"})
    BY TwoRead
  <2>3. Reads(TextsOf(attrs), {attrs[i] : i \in 1..11})
    BY <2>1, TextsRead
  <2>4. Reads(ReadFonciaJSON, {"SURFACE", "LAND_SURFACE"} \cup {attrs[i] : i \in 1..11})
    BY <2>2, <2>3, BothRead DEF ReadFonciaJSON
  <2>5. QED BY <2>1, <2>4, LessRead
<1>3. Reads(ReadGuyHoquetJSON, Guyhoquet)
  <2> DEFINE attrs == <<"ROOMS", "CONSTRUCTION_YEAR", "CELLAR", "PARKING", "FLOOR", "LIFT",
                        "TYPE_OF_HEATING">>
  <2>1. DOMAIN attrs = 1..7 /\ Guyhoquet \subseteq {"PRICE", "SURFACE"} \cup {attrs[i] : i \in 1..7}
    BY DEF Guyhoquet
  <2>2. Reads(<< Split("PRICE", "PRICE"), Split("SURFACE", "SURFACE") >>, {"PRICE", "SURFACE"})
    BY TwoRead
  <2>3. Reads(TextsOf(attrs), {attrs[i] : i \in 1..7})
    BY <2>1, TextsRead
  <2>4. Reads(ReadGuyHoquetJSON, {"PRICE", "SURFACE"} \cup {attrs[i] : i \in 1..7})
    BY <2>2, <2>3, BothRead DEF ReadGuyHoquetJSON
  <2>5. QED BY <2>1, <2>4, LessRead
<1>4. Reads(ReadCentury21JSON, Century21 \ {"LAND_SURFACE"})
  <2> DEFINE attrs == <<"PRICE", "SURFACE", "ROOMS", "CONSTRUCTION_YEAR", "TYPE_OF_HEATING",
                        "PARKING", "AD_TEXT_DESCRIPTION">>
  <2>1. DOMAIN attrs = 1..7 /\ Century21 \ {"LAND_SURFACE"} \subseteq {attrs[i] : i \in 1..7}
    BY DEF Century21
  <2>2. Reads(ReadCentury21JSON, {attrs[i] : i \in 1..7})
    BY <2>1, TextsRead DEF ReadCentury21JSON
  <2>3. QED BY <2>1, <2>2, LessRead
<1>5. Reads(ReadArthurImmoJSON, Arthurimmo \ {"BEDROOMS"})
  <2> DEFINE attrs == <<"PRICE", "SURFACE", "ROOMS", "CONSTRUCTION_YEAR", "CELLAR", "FLOOR",
                        "PARKING", "BALCONY", "LAND_SURFACE", "AD_TEXT_DESCRIPTION">>
  <2>1. /\ DOMAIN attrs = 1..10
        /\ Arthurimmo \ {"BEDROOMS"} \subseteq {"TYPE_OF_HEATING"} \cup {attrs[i] : i \in 1..10}
    BY DEF Arthurimmo
  <2>2. Reads(<< Cut("TYPE_OF_HEATING", "TYPE_OF_HEATING") >>, {"TYPE_OF_HEATING"})
    BY OneRead
  <2>3. Reads(TextsOf(attrs), {attrs[i] : i \in 1..10})
    BY <2>1, TextsRead
  <2>4. Reads(ReadArthurImmoJSON, {"TYPE_OF_HEATING"} \cup {attrs[i] : i \in 1..10})
    BY <2>2, <2>3, BothRead DEF ReadArthurImmoJSON
  <2>5. QED BY <2>1, <2>4, LessRead
<1>6. Reads(ReadEraImmoJSON, Eraimmo)
  <2> DEFINE attrs == <<"PRICE", "ROOMS", "CELLAR", "PARKING", "LIFT", "BEDROOMS",
                        "LAND_SURFACE", "AD_TEXT_DESCRIPTION">>
  <2>1. DOMAIN attrs = 1..8 /\ Eraimmo \subseteq {"SURFACE"} \cup {attrs[i] : i \in 1..8}
    BY DEF Eraimmo
  <2>2. Reads(<< Split("SURFACE", "SURFACE") >>, {"SURFACE"})
    BY OneRead
  <2>3. Reads(TextsOf(attrs), {attrs[i] : i \in 1..8})
    BY <2>1, TextsRead
  <2>4. Reads(ReadEraImmoJSON, {"SURFACE"} \cup {attrs[i] : i \in 1..8})
    BY <2>2, <2>3, BothRead DEF ReadEraImmoJSON
  <2>5. QED BY <2>1, <2>4, LessRead
<1>7. Reads(ReadPapJSON, Pap)
  <2> DEFINE attrs == <<"PRICE", "SURFACE", "ROOMS", "BEDROOMS", "LAND_SURFACE",
                        "AD_TEXT_DESCRIPTION">>
  <2>1. DOMAIN attrs = 1..6 /\ Pap \subseteq {attrs[i] : i \in 1..6}
    BY DEF Pap
  <2>2. Reads(ReadPapJSON, {attrs[i] : i \in 1..6})
    BY <2>1, TextsRead DEF ReadPapJSON
  <2>3. QED BY <2>1, <2>2, LessRead
<1>8. Reads(ReadIadFranceJSON, Iadfrance)
  <2> DEFINE attrs == <<"PRICE", "ROOMS", "CONSTRUCTION_YEAR", "BEDROOMS",
                        "AD_TEXT_DESCRIPTION">>
  <2>1. DOMAIN attrs = 1..5 /\ Iadfrance \subseteq {"SURFACE", "LAND_SURFACE"} \cup {attrs[i] : i \in 1..5}
    BY DEF Iadfrance
  <2>2. Reads(<< Split("SURFACE", "SURFACE"), Split("LAND_SURFACE", "LAND_SURFACE") >>,
              {"SURFACE", "LAND_SURFACE"})
    BY TwoRead
  <2>3. Reads(TextsOf(attrs), {attrs[i] : i \in 1..5})
    BY <2>1, TextsRead
  <2>4. Reads(ReadIadFranceJSON, {"SURFACE", "LAND_SURFACE"} \cup {attrs[i] : i \in 1..5})
    BY <2>2, <2>3, BothRead DEF ReadIadFranceJSON
  <2>5. QED BY <2>1, <2>4, LessRead
<1>9. Reads(ReadParuVenduJSON, Paruvendu)
  <2> DEFINE attrs == <<"PRICE", "SURFACE", "ROOMS", "FLOOR", "PARKING", "BEDROOMS",
                        "TYPE_OF_HEATING", "CELLAR", "LAND_SURFACE", "AD_TEXT_DESCRIPTION">>
  <2>1. DOMAIN attrs = 1..10 /\ Paruvendu \subseteq {attrs[i] : i \in 1..10}
    BY DEF Paruvendu
  <2>2. Reads(ReadParuVenduJSON, {attrs[i] : i \in 1..10})
    BY <2>1, TextsRead DEF ReadParuVenduJSON
  <2>3. QED BY <2>1, <2>2, LessRead
<1>10. Reads(ReadAvendreAlouerJSON, Avendrealouer)
  <2> DEFINE attrs == <<"PRICE", "SURFACE", "ROOMS", "CELLAR", "PARKING", "LIFT", "FLOOR",
                        "CONSTRUCTION_YEAR", "TYPE_OF_HEATING", "BEDROOMS", "LAND_SURFACE",
                        "AD_TEXT_DESCRIPTION">>
  <2>1. DOMAIN attrs = 1..12 /\ Avendrealouer \subseteq {attrs[i] : i \in 1..12}
    BY DEF Avendrealouer
  <2>2. Reads(ReadAvendreAlouerJSON, {attrs[i] : i \in 1..12})
    BY <2>1, TextsRead DEF ReadAvendreAlouerJSON
  <2>3. QED BY <2>1, <2>2, LessRead
<1>11. Reads(ReadNestennJSON, Nestenn)
  <2> DEFINE attrs == <<"PRICE", "SURFACE", "ROOMS", "CELLAR", "PARKING", "LIFT", "FLOOR",
                        "BEDROOMS", "AD_TEXT_DESCRIPTION">>
  <2>1. DOMAIN attrs = 1..9 /\ Nestenn \subseteq {attrs[i] : i \in 1..9}
    BY DEF Nestenn
  <2>2. Reads(ReadNestennJSON, {attrs[i] : i \in 1..9})
    BY <2>1, TextsRead DEF ReadNestennJSON
  <2>3. QED BY <2>1, <2>2, LessRead
<1>12. Reads(ReadAgencePrincipaleJSON, Agenceprincipale)
  <2> DEFINE attrs == <<"PRICE", "SURFACE", "ROOMS", "PARKING", "LIFT", "FLOOR", "BEDROOMS",
                        "TYPE_OF_HEATING", "CONSTRUCTION_YEAR", "LAND_SURFACE",
                        "AD_TEXT_DESCRIPTION">>
  <2>1. DOMAIN attrs = 1..11 /\ Agenceprincipale \subseteq {attrs[i] : i \in 1..11}
    BY DEF Agenceprincipale
  <2>2. Reads(ReadAgencePrincipaleJSON, {attrs[i] : i \in 1..11})
    BY <2>1, TextsRead DEF ReadAgencePrincipaleJSON
  <2>3. QED BY <2>1, <2>2, LessRead
<1>13. Reads(ReadLeFigaroImmobilierJSON, Lefigaroimmobilier \ {"CELLAR"})
  <2> DEFINE attrs == <<"PRICE", "SURFACE", "ROOMS", "PARKING", "LIFT", "FLOOR", "BEDROOMS",
                        "TYPE_OF_HEATING", "LAND_SURFACE", "AD_TEXT_DESCRIPTION">>
  <2>1. DOMAIN attrs = 1..10 /\ Lefigaroimmobilier \ {"CELLAR"} \subseteq {attrs[i] : i \in 1..10}
    BY DEF Lefigaroimmobilier
  <2>2. Reads(ReadLeFigaroImmobilierJSON, {attrs[i] : i \in 1..10})
    BY <2>1, TextsRead DEF ReadLeFigaroImmobilierJSON
  <2>3. QED BY <2>1, <2>2, LessRead
<1>14. Reads(ReadEtreProprioJSON, Etreproprio)
  <2> DEFINE attrs == <<"PRICE", "SURFACE", "ROOMS", "AD_TEXT_DESCRIPTION">>
  <2>1. DOMAIN attrs = 1..4 /\ Etreproprio \subseteq {attrs[i] : i \in 1..4}
    BY DEF Etreproprio
  <2>2. Reads(ReadEtreProprioJSON, {attrs[i] : i \in 1..4})
    BY <2>1, TextsRead DEF ReadEtreProprioJSON
  <2>3. QED BY <2>1, <2>2, LessRead
<1>15. Reads(ReadEfficityJSON, Efficity)
  <2> DEFINE attrs == <<"PRICE", "SURFACE", "ROOMS", "PARKING", "LIFT", "CONSTRUCTION_YEAR",
                        "TYPE_OF_HEATING", "BEDROOMS", "BALCONY", "AD_TEXT_DESCRIPTION">>
  <2>1. DOMAIN attrs = 1..10 /\ Efficity \subseteq {attrs[i] : i \in 1..10}
    BY DEF Efficity
  <2>2. Reads(ReadEfficityJSON, {attrs[i] : i \in 1..10})
    BY <2>1, TextsRead DEF ReadEfficityJSON
  <2>3. QED BY <2>1, <2>2, LessRead
<1>16. Reads(ReadFnaimJSON, Fnaim)
  <2> DEFINE attrs == <<"PRICE", "SURFACE", "ROOMS", "CELLAR", "PARKING", "LIFT", "BALCONY",
                        "FLOOR", "CONSTRUCTION_YEAR", "TYPE_OF_HEATING", "BEDROOMS",
                        "LAND_SURFACE", "AD_TEXT_DESCRIPTION">>
  <2>1. DOMAIN attrs = 1..13 /\ Fnaim \subseteq {attrs[i] : i \in 1..13}
    BY DEF Fnaim
  <2>2. Reads(ReadFnaimJSON, {attrs[i] : i \in 1..13})
    BY <2>1, TextsRead DEF ReadFnaimJSON
  <2>3. QED BY <2>1, <2>2, LessRead
<1>17. source \in DOMAIN ReaderBySources
  BY DEF Extracted, ReaderBySources
<1>18. CASE source = "logicimmo"
  <2>1. ReaderBySources[source] = ReadLogicImmoJSON /\ Extracted[source] = Logicimmo
    BY <1>18 DEF Extracted, ReaderBySources
  <2>2. QED BY <1>1, <1>17, <2>1, LessRead
<1>19. CASE source = "foncia"
  <2>1. ReaderBySources[source] = ReadFonciaJSON /\ Extracted[source] = Foncia
    BY <1>19 DEF Extracted, ReaderBySources
  <2>2. QED BY <1>2, <1>17, <2>1, LessRead
<1>20. CASE source = "guyhoquet"
  <2>1. ReaderBySources[source] = ReadGuyHoquetJSON /\ Extracted[source] = Guyhoquet
    BY <1>20 DEF Extracted, ReaderBySources
  <2>2. QED BY <1>3, <1>17, <2>1, LessRead
<1>21. CASE source = "century21"
  BY <1>4, <1>21 DEF Extracted, ReaderBySources, Lost, Unread
<1>22. CASE source = "arthurimmo"
  BY <1>5, <1>22 DEF Extracted, ReaderBySources, Lost, Unread
<1>23. CASE source = "eraimmo"
  <2>1. ReaderBySources[source] = ReadEraImmoJSON /\ Extracted[source] = Eraimmo
    BY <1>23 DEF Extracted, ReaderBySources
  <2>2. QED BY <1>6, <1>17, <2>1, LessRead
<1>24. CASE source = "pap"
  <2>1. ReaderBySources[source] = ReadPapJSON /\ Extracted[source] = Pap
    BY <1>24 DEF Extracted, ReaderBySources
  <2>2. QED BY <1>7, <1>17, <2>1, LessRead
<1>25. CASE source = "iadfrance"
  <2>1. ReaderBySources[source] = ReadIadFranceJSON /\ Extracted[source] = Iadfrance
    BY <1>25 DEF Extracted, ReaderBySources
  <2>2. QED BY <1>8, <1>17, <2>1, LessRead
<1>26. CASE source = "paruvendu"
  <2>1. ReaderBySources[source] = ReadParuVenduJSON /\ Extracted[source] = Paruvendu
    BY <1>26 DEF Extracted, ReaderBySources
  <2>2. QED BY <1>9, <1>17, <2>1, LessRead
<1>27. CASE source = "avendrealouer"
  <2>1. ReaderBySources[source] = ReadAvendreAlouerJSON /\ Extracted[source] = Avendrealouer
    BY <1>27 DEF Extracted, ReaderBySources
  <2>2. QED BY <1>10, <1>17, <2>1, LessRead
<1>28. CASE source = "nestenn"
  <2>1. ReaderBySources[source] = ReadNestennJSON /\ Extracted[source] = Nestenn
    BY <1>28 DEF Extracted, ReaderBySources
  <2>2. QED BY <1>11, <1>17, <2>1, LessRead
<1>29. CASE source = "agenceprincipale"
  <2>1. ReaderBySources[source] = ReadAgencePrincipaleJSON /\ Extracted[source] = Agenceprincipale
    BY <1>29 DEF Extracted, ReaderBySources
  <2>2. QED BY <1>12, <1>17, <2>1, LessRead
<1>30. CASE source = "lefigaroimmobilier"
  BY <1>13, <1>30 DEF Extracted, ReaderBySources, Lost, Unread
<1>31. CASE source = "etreproprio"
  <2>1. ReaderBySources[source] = ReadEtreProprioJSON /\ Extracted[source] = Etreproprio
    BY <1>31 DEF Extracted, ReaderBySources
  <2>2. QED BY <1>14, <1>17, <2>1, LessRead
<1>32. CASE source = "efficity"
  <2>1. ReaderBySources[source] = ReadEfficityJSON /\ Extracted[source] = Efficity
    BY <1>32 DEF Extracted, ReaderBySources
  <2>2. QED BY <1>15, <1>17, <2>1, LessRead
<1>33. CASE source = "fnaim"
  <2>1. ReaderBySources[source] = ReadFnaimJSON /\ Extracted[source] = Fnaim
    BY <1>33 DEF Extracted, ReaderBySources
  <2>2. QED BY <1>16, <1>17, <2>1, LessRead
<1>34. QED
  BY <1>17, <1>18, <1>19, <1>20, <1>21, <1>22, <1>23, <1>24, <1>25, <1>26, <1>27, <1>28, <1>29, <1>30,
     <1>31, <1>32, <1>33 DEF Extracted

ReadAll(page, readings) ==
  FoldLeft(LAMBDA so_far, reading : ReadMember(page, so_far, reading),
           [fields |-> {}, end |-> "reading"], readings)

LEMMA ReadingInOrder ==
  ASSUME NEW page, NEW readings, NEW N \in Nat, DOMAIN readings = 1..N
  PROVE  Ends("reading", page, readings, N, ReadAll(page, readings))
<1> DEFINE Of(s, f) == IF s = {} THEN Begun ELSE ReadMember(page, f[s \ {Max(s)}], readings[Max(s)])
<1>1. \A s, f : FoldOf("reading", page, readings, s, f) = Of(s, f)
  BY DEF FoldOf, Begin, Step
<1>2. PICK g : g = [s \in SUBSET (1..N) |-> FoldOf("reading", page, readings, s, g)]
  <2> HIDE DEF Of
  <2>1. Found("reading", page, readings, N)
    BY FoldsAreFound
  <2>2. QED BY <2>1 DEF Found, Iterates
<1>3. g = [s \in SUBSET (1..N) |-> Of(s, g)]
  <2> HIDE DEF Of
  <2>1. QED BY <1>1, <1>2
<1>4. PICK f : f = CHOOSE iter : iter = [s \in SUBSET (1..N) |-> Of(s, iter)]
  OBVIOUS
<1>5. f = [s \in SUBSET (1..N) |-> Of(s, f)]
  <2> HIDE DEF Of
  <2>1. QED BY <1>3, <1>4
<1>6. Ends("reading", page, readings, N, f[1..N])
  <2> HIDE DEF Of
  <2>1. f = [s \in SUBSET (1..N) |-> FoldOf("reading", page, readings, s, f)]
    BY <1>1, <1>5
  <2>2. Iterates("reading", page, readings, N, f)
    BY <2>1 DEF Iterates
  <2>3. QED BY <2>2, FoldsGoInOrder
<1>7. ReadAll(page, readings) = f[1..N]
  BY <1>4 DEF ReadAll, FoldLeft, MapThenFoldSet, Begun
<1>8. QED BY <1>6, <1>7

(* A document that doesn't abort its reading leaves the good ones of the attributes read. *)
LEMMA GoodAreRead ==
  ASSUME NEW page, NEW readings, NEW attrs, Reads(readings, attrs), NEW read, read = ReadAll(page, readings)
  PROVE  \/ read.end = "aborted"
         \/ /\ read = [fields |-> read.fields, end |-> "reading"]
            /\ {attr \in attrs : StateOf(page, attr) = "good"} \subseteq read.fields
<1> DEFINE Right(n, r) ==
      /\ r = [fields |-> r.fields, end |-> r.end] /\ r.end \in {"reading", "aborted"}
      /\ r.end = "reading" => \A i \in 1..n :
           StateOf(page, readings[i].member) \in readings[i].sets => readings[i].attr \in r.fields
<1>1. PICK N : N = Len(readings) /\ N \in Nat /\ DOMAIN readings = 1..N
  BY DEF Reads
<1>2. PICK so_far : InOrder("reading", page, readings, N, so_far) /\ read = so_far[N]
  BY <1>1, ReadingInOrder DEF Ends
<1>3. so_far[0] = Begun /\ \A n \in 1..N : so_far[n] = ReadMember(page, so_far[n - 1], readings[n])
  BY <1>2 DEF InOrder, Begin, Step
<1>4. Right(0, Begun)
  BY DEF Begun
<1>5. ASSUME NEW n \in 1..N, NEW r, Right(n - 1, r)  PROVE Right(n, ReadMember(page, r, readings[n]))
  <2>1. PICK reading, state : reading = readings[n] /\ state = StateOf(page, reading.member)
    OBVIOUS
  <2>2. reading.returns = {}
    BY <1>1, <2>1 DEF Reads
  <2>3. \A i \in 1..n : i = n \/ i \in 1..(n - 1)
    BY <1>1
  <2>4. CASE r.end # "reading"
    <3>1. ReadMember(page, r, reading) = r
      BY <2>4 DEF ReadMember
    <3>2. QED BY <1>5, <2>1, <2>4, <3>1
  <2>5. CASE r.end = "reading" /\ state \in reading.sets
    <3>1. ReadMember(page, r, reading) = [r EXCEPT !.fields = @ \cup {reading.attr}]
      BY <2>1, <2>5 DEF ReadMember
    <3>2. ReadMember(page, r, reading) = [fields |-> r.fields \cup {reading.attr}, end |-> "reading"]
      BY <1>5, <2>5, <3>1
    <3>3. QED BY <1>5, <2>1, <2>3, <2>5, <3>2
  <2>6. CASE r.end = "reading" /\ state \notin reading.sets /\ state \in reading.skips
    <3>1. ReadMember(page, r, reading) = r
      BY <2>1, <2>6 DEF ReadMember
    <3>2. QED BY <1>5, <2>1, <2>3, <2>6, <3>1
  <2>7. CASE r.end = "reading" /\ state \notin reading.sets /\ state \notin reading.skips
    <3>1. ReadMember(page, r, reading) = [r EXCEPT !.end = "aborted"]
      BY <2>1, <2>2, <2>7 DEF ReadMember
    <3>2. ReadMember(page, r, reading) = [fields |-> r.fields, end |-> "aborted"]
      BY <1>5, <3>1
    <3>3. QED BY <2>1, <3>2
  <2>8. QED BY <2>4, <2>5, <2>6, <2>7
<1>6. PICK right : right = {n \in 0..N : Right(n, so_far[n])}
  OBVIOUS
<1> HIDE DEF Right
<1>7. \A n \in 1..N : n \in 0..N /\ n - 1 \in 0..N
  BY <1>1
<1>8. right \in SUBSET (0..N) /\ 0 \in right /\ \A n \in 1..N : n - 1 \in right => n \in right
  BY <1>1, <1>3, <1>4, <1>5, <1>6, <1>7
<1>9. N \in right
  BY <1>1, <1>8, UpToLast
<1>10. Right(N, read)
  BY <1>2, <1>6, <1>9
<1>11. ASSUME NEW attr \in attrs, StateOf(page, attr) = "good", read.end = "reading"
       PROVE  attr \in read.fields
  <2>1. PICK i \in 1..N : readings[i].member = attr /\ readings[i].attr = attr /\ "good" \in readings[i].sets
    BY <1>1 DEF Reads
  <2>2. QED BY <1>10, <1>11, <2>1 DEF Right
<1>12. QED BY <1>10, <1>11 DEF Right

-----------------------------------------------------------------------------
(* The ads that adapt_model has read or listed have documents that do not end the run. *)
ReadInv == \A id \in adapt.read \cup Listed : Formatted[pages[id]].end # "aborted"

(* A step that reads only such ads, and lists only ads it has read. *)
LEMMA ReadIsKept ==
  ASSUME ReadInv, pages' = pages,
         \A id \in adapt'.read : id \in adapt.read \/ Formatted[pages[id]].end # "aborted",
         \A id \in DOMAIN summary' :
           \/ id \in DOMAIN summary /\ summary'[id].fields = summary[id].fields
           \/ id \in adapt.read
           \/ "CITY" \notin summary'[id].fields
  PROVE  ReadInv'
BY DEF ReadInv, Listed

LEMMA ReadInvNext ==
  ASSUME DuplicatesInv, ReadInv, [Next]_vars
  PROVE  ReadInv'
<1>1. CASE Start
  <2>1. UNCHANGED <<pages, summary>>
    BY <1>1 DEF Start
  <2>2. PICK read \in SUBSET DOMAIN pages, known \in SUBSET Ids :
          /\ ReadTableAndFormatEntries(read)
          /\ adapt' = [read |-> read, known |-> known \cap read, left |-> read]
    BY <1>1 DEF Start
  <2>3. \A id \in adapt'.read : Formatted[pages[id]].end # "aborted"
    BY <2>2 DEF ReadTableAndFormatEntries
  <2>4. QED BY <2>1, <2>3, ReadIsKept
<1>2. ASSUME NEW id, PutTargetTable(id)  PROVE ReadInv'
  <2>1. pages' = pages /\ id \in adapt.read
    BY <1>2 DEF PutTargetTable, DuplicatesInv, AdaptInv
  <2>2. adapt'.read \subseteq adapt.read
    <3>1. CASE adapt' = Idle
      BY <3>1 DEF Idle
    <3>2. CASE adapt' = [adapt EXCEPT !.left = @ \ {id}]
      <4>1. adapt' = [read |-> adapt.read, known |-> adapt.known, left |-> adapt.left \ {id}]
        BY <3>2 DEF DuplicatesInv, AdaptInv
      <4>2. QED BY <4>1
    <3>3. QED BY <1>2, <3>1, <3>2 DEF PutTargetTable
  <2>3. \A other \in DOMAIN summary' \ {id} : other \in DOMAIN summary /\ summary'[other] = summary[other]
    <3>1. CASE UNCHANGED summary
      BY <3>1
    <3>2. ASSUME NEW item, Write(id, item)
          PROVE  \A other \in DOMAIN summary' \ {id} :
                   other \in DOMAIN summary /\ summary'[other] = summary[other]
      BY <3>2 DEF Write
    <3>3. QED BY <1>2, <3>1, <3>2 DEF PutTargetTable
  <2>4. QED BY <2>1, <2>2, <2>3, ReadIsKept
<1>3. CASE Main \/ readTable \/ UNCHANGED vars
  <2>1. UNCHANGED <<pages, summary, adapt>>
    BY <1>3 DEF Main, readTable, vars, adaptVars
  <2>2. QED BY <2>1, ReadIsKept
<1>4. ASSUME NEW id, updateTable(id)  PROVE ReadInv'
  <2>1. UNCHANGED <<pages, adapt>>
    BY <1>4 DEF updateTable
  <2>2. PICK item : item = IF id \in DOMAIN summary THEN summary[id] ELSE Ghost
    OBVIOUS
  <2>3. PICK group : group = updateGroupOfDuplicates(id)
    OBVIOUS
  <2>4. PICK written : written = [item EXCEPT !.DUPLICATES = group.DUPLICATES, !.SOURCES = group.SOURCES]
    OBVIOUS
  <2>5. item = [fields |-> item.fields, DUPLICATES |-> item.DUPLICATES, SOURCES |-> item.SOURCES]
    <3>1. CASE id \in DOMAIN summary
      BY <2>2, <3>1 DEF DuplicatesInv, SummaryInv, ItemInv
    <3>2. CASE id \notin DOMAIN summary
      BY <2>2, <3>2 DEF Ghost
    <3>3. QED BY <3>1, <3>2
  <2>6. written.fields = item.fields
    BY <2>4, <2>5
  <2>7. CASE Write(id, written)
    <3>1. /\ DOMAIN summary' = DOMAIN summary \cup {id} /\ summary'[id] = written
          /\ \A other \in DOMAIN summary : other # id => summary'[other] = summary[other]
      BY <2>7 DEF Write
    <3>2. (id \in DOMAIN summary /\ written.fields = summary[id].fields) \/ "CITY" \notin written.fields
      BY <2>2, <2>6 DEF Ghost
    <3>3. QED BY <2>1, <3>1, <3>2, ReadIsKept
  <2>8. CASE UNCHANGED summary
    BY <2>1, <2>8, ReadIsKept
  <2>9. QED BY <1>4, <2>2, <2>3, <2>4, <2>7, <2>8 DEF updateTable
<1>5. ASSUME NEW id, RemoveAd(id)  PROVE ReadInv'
  <2>1. /\ UNCHANGED <<pages, adapt>> /\ summary' = [other \in DOMAIN summary \ {id} |-> summary[other]]
    BY <1>5 DEF RemoveAd, Restrict
  <2>2. QED BY <2>1, ReadIsKept
<1>6. QED BY <1>1, <1>2, <1>3, <1>4, <1>5 DEF Next, AdaptStep, Removed

LEMMA ReadInvHolds ==
  ASSUME PagesAssumption, TolerancesAssumption
  PROVE  Spec => []ReadInv
<1>1. Init => ReadInv
  <2>1. Init => DOMAIN summary = {} /\ adapt.read = {}
    BY DEF Init, AdaptInit, Idle
  <2>2. QED BY <2>1 DEF ReadInv, Listed
<1>2. DuplicatesInv /\ ReadInv /\ [Next]_vars => ReadInv'
  BY ReadInvNext
<1>3. QED BY <1>1, <1>2, DuplicatesInvHolds, PTL DEF Spec

(* The page of an ad is formatted by the reader of its source. *)
LEMMA ReadPage ==
  ASSUME PagesAssumption, pages \in Pages, NEW id \in DOMAIN pages,
         Formatted[pages[id]].end # "aborted", pages[id].source \in DOMAIN Extracted
  PROVE  {attr \in Extracted[pages[id].source] \ Lost(pages[id].source) : StateOf(pages[id], attr) = "good"}
           \subseteq Formatted[pages[id]].fields
<1>1. PICK page : page = pages[id]
  OBVIOUS
<1>2. Formatted[page] = Format(page)
  <2>1. page \in Range(pages)
    BY <1>1 DEF Range
  <2>2. QED BY <2>1 DEF Formatted
<1>3. page.parses \/ \A attr : StateOf(page, attr) # "good"
  BY <1>1 DEF PagesAssumption, StateOf
<1>4. CASE ~page.parses
  BY <1>1, <1>3, <1>4
<1>5. CASE page.parses
  <2>1. PICK attrs : attrs = Extracted[page.source] \ Lost(page.source)
    OBVIOUS
  <2>2. page.source \in DOMAIN ReaderBySources /\ Reads(ReaderBySources[page.source], attrs)
    BY <1>1, <2>1, SpidersAreRead
  <2>3. PICK read : read = ReadAll(page, ReaderBySources[page.source])
    OBVIOUS
  <2>4. \/ read.end = "aborted"
        \/ /\ read = [fields |-> read.fields, end |-> "reading"]
           /\ {attr \in attrs : StateOf(page, attr) = "good"} \subseteq read.fields
    BY <2>2, <2>3, GoodAreRead
  <2>5. Format(page) = IF read.end # "reading" THEN read
                       ELSE [read EXCEPT !.fields = @ \cup {"SOURCE_LOGO"} \cup
                                                      PopulateValuesExtractFromDescription(page, @)]
    BY <1>5, <2>2, <2>3 DEF Format, ReadAll
  <2>6. CASE read.end = "aborted"
    BY <1>1, <1>2, <2>5, <2>6
  <2>7. CASE read.end # "aborted"
    <3>1. read.fields \subseteq Format(page).fields
      BY <2>4, <2>5, <2>7
    <3>2. QED BY <1>1, <1>2, <2>1, <2>4, <2>7, <3>1
  <2>8. QED BY <2>6, <2>7
<1>6. QED BY <1>4, <1>5

(* For any ads and documents, whatever the runs, failures and removals, a listed ad has every
   attribute that the spider of its site found in its page, but for the three that no reader looks for
   (the Read... of the sites and PutTargetTable of adapt_model, the spiders of bot). *)
THEOREM FieldsKeptHolds ==
  ASSUME PagesAssumption, TolerancesAssumption, TypesAssumption
  PROVE  Spec => []FieldsKept
<1>1. DuplicatesInv /\ TogetherInv /\ ReadInv => FieldsKept
  <2> SUFFICES ASSUME DuplicatesInv, TogetherInv, ReadInv,
                      NEW id \in Listed, pages[id].source \in DOMAIN Extracted
               PROVE  {attr \in Extracted[pages[id].source] \ Lost(pages[id].source) :
                         StateOf(pages[id], attr) = "good"} \subseteq summary[id].fields
    BY DEF FieldsKept, Lost
  <2>1. id \in DOMAIN pages /\ pages \in Pages
    BY DEF Listed, DuplicatesInv, SummaryInv
  <2>2. Formatted[pages[id]].end # "aborted"
    BY DEF ReadInv
  <2>3. Formatted[pages[id]].fields \subseteq summary[id].fields
    BY DEF TogetherInv, FieldsInv
  <2>4. QED BY <2>1, <2>2, <2>3, ReadPage
<1>2. QED BY <1>1, DuplicatesInvHolds, TogetherInvHolds, ReadInvHolds, PTL
=============================================================================
