------------------------ MODULE WorkloadIngestProofs ------------------------
(***************************************************************************)
(* Proofs about WorkloadIngest for any numbers of entries, identities and  *)
(* records, and any limits.  The first part shows that sorting, reducing   *)
(* and capping a list do what their names say, the second what a sum is,   *)
(* the third the invariant of the scan.                                    *)
(***************************************************************************)
EXTENDS WorkloadIngest, FiniteSetTheorems, TLAPS

Positions == DOMAIN workloads

\* The sort key makes a total order of the positions: ties are broken by position, as a
\* stable sort does.
LEMMA BeforeIsTotalOrder ==
  ASSUME workloads \in Seq(Records)
  PROVE  /\ \A i \in Positions : ~Before(i, i)
         /\ \A i, j \in Positions : i # j => Before(i, j) \/ Before(j, i)
         /\ \A i, j, k \in Positions : Before(i, j) /\ Before(j, k) => Before(i, k)
<1>1. \A i \in Positions : /\ i \in Nat /\ workloads[i].id \in Nat /\ workloads[i].ts \in Nat
                           /\ workloads[i].stale \in BOOLEAN
  <2>1. \A i \in Positions : i \in Nat /\ workloads[i] \in Records
    BY DEF Positions
  <2> QED
    BY <2>1, IngestAssumption DEF IngestAssumption, Records
<1>2. \A i \in Positions : ~Before(i, i)
  BY <1>1 DEF Before
<1>3. \A i, j \in Positions : i # j => Before(i, j) \/ Before(j, i)
  BY <1>1 DEF Before
<1>4. \A i, j, k \in Positions : Before(i, j) /\ Before(j, k) => Before(i, k)
  BY <1>1 DEF Before
<1> QED
  BY <1>2, <1>3, <1>4

\* A list has finitely many positions.
LEMMA PositionsAreFinite ==
  ASSUME workloads \in Seq(Records)
  PROVE  /\ Positions = 1..Len(workloads) /\ Len(workloads) \in Nat
         /\ IsFiniteSet(Positions) /\ Cardinality(Positions) = Len(workloads)
<1>1. Positions = 1..Len(workloads) /\ Len(workloads) \in Nat
  BY DEF Positions
<1> QED
  BY <1>1, FS_Interval

\* Ranks follow the order, and count from zero.
LEMMA RankFollowsOrder ==
  ASSUME workloads \in Seq(Records), NEW P \in SUBSET Positions
  PROVE  /\ IsFiniteSet(P) /\ Cardinality(P) \in Nat
         /\ \A i \in P : Rank(i, P) \in 0..(Cardinality(P) - 1)
         /\ \A i, j \in P : Before(i, j) <=> Rank(i, P) < Rank(j, P)
<1>1. IsFiniteSet(P) /\ Cardinality(P) \in Nat
  BY PositionsAreFinite, FS_Subset, FS_CardinalityType
<1> DEFINE earlier(i) == {j \in P : Before(j, i)}
<1>2. \A i \in P : IsFiniteSet(earlier(i)) /\ Cardinality(earlier(i)) \in Nat
                   /\ Cardinality(earlier(i)) <= Cardinality(P)
  <2> TAKE i \in P
  <2>1. earlier(i) \in SUBSET P
    OBVIOUS
  <2> QED
    BY <1>1, <2>1, FS_Subset, FS_CardinalityType
<1>3. ASSUME NEW i \in P PROVE Rank(i, P) \in 0..(Cardinality(P) - 1)
  <2>1. earlier(i) # P
    BY BeforeIsTotalOrder
  <2>2. Cardinality(earlier(i)) # Cardinality(P)
    <3>1. earlier(i) \in SUBSET P
      OBVIOUS
    <3> QED
      BY <1>1, <2>1, <3>1, FS_Subset
  <2>3. Rank(i, P) = Cardinality(earlier(i))
    BY DEF Rank
  <2>4. Cardinality(earlier(i)) \in Nat /\ Cardinality(earlier(i)) <= Cardinality(P)
    BY <1>2
  <2> HIDE DEF earlier
  <2> QED
    BY <1>1, <2>2, <2>3, <2>4
<1>4. ASSUME NEW i \in P, NEW j \in P, Before(i, j) PROVE Rank(i, P) < Rank(j, P)
  <2>1. earlier(i) \in SUBSET earlier(j) /\ i \in earlier(j) /\ i \notin earlier(i)
    BY <1>4, BeforeIsTotalOrder
  <2>2. Cardinality(earlier(i)) <= Cardinality(earlier(j))
        /\ Cardinality(earlier(i)) # Cardinality(earlier(j))
    <3> HIDE DEF earlier
    <3> QED
      BY <1>2, <2>1, FS_Subset
  <2>3. Rank(i, P) = Cardinality(earlier(i)) /\ Rank(j, P) = Cardinality(earlier(j))
    BY DEF Rank
  <2>4. Cardinality(earlier(i)) \in Nat /\ Cardinality(earlier(j)) \in Nat
    BY <1>2
  <2> HIDE DEF earlier
  <2> QED
    BY <2>2, <2>3, <2>4
<1>5. ASSUME NEW i \in P, NEW j \in P, Rank(i, P) < Rank(j, P) PROVE Before(i, j)
  <2>1. CASE i = j
    <3>1. Rank(i, P) \in Nat
      BY <1>1, <1>3
    <3> QED
      BY <1>5, <2>1, <3>1
  <2>2. CASE Before(j, i)
    <3>1. Rank(j, P) < Rank(i, P) /\ Rank(i, P) \in Nat /\ Rank(j, P) \in Nat
      BY <1>1, <1>3, <1>4, <2>2
    <3> QED
      BY <1>5, <3>1
  <2> QED
    BY <2>1, <2>2, BeforeIsTotalOrder
<1> QED
  BY <1>1, <1>3, <1>4, <1>5

\* ... and every rank is taken, by one position.
LEMMA RankIsOnto ==
  ASSUME workloads \in Seq(Records), NEW P \in SUBSET Positions
  PROVE  /\ \A i, j \in P : Rank(i, P) = Rank(j, P) => i = j
         /\ \A n \in 0..(Cardinality(P) - 1) : \E i \in P : Rank(i, P) = n
<1> DEFINE ranks == 0..(Cardinality(P) - 1)
           rank == [i \in P |-> Rank(i, P)]
<1>1. IsFiniteSet(P) /\ Cardinality(P) \in Nat /\ \A i \in P : Rank(i, P) \in ranks
  BY RankFollowsOrder
<1>2. \A i, j \in P : Rank(i, P) = Rank(j, P) => i = j
  <2> SUFFICES ASSUME NEW i \in P, NEW j \in P, Rank(i, P) = Rank(j, P), i # j
               PROVE  FALSE
    OBVIOUS
  <2>1. Rank(i, P) < Rank(j, P) \/ Rank(j, P) < Rank(i, P)
    BY RankFollowsOrder, BeforeIsTotalOrder
  <2> QED
    BY <1>1, <2>1
<1>3. rank \in Injection(P, ranks)
  BY <1>1, <1>2 DEF Injection, IsInjective
<1>4. IsFiniteSet(ranks) /\ Cardinality(ranks) = Cardinality(P)
  <2>1. Cardinality(P) - 1 \in Int /\ 0 \in Int
    BY <1>1
  <2>2. /\ IsFiniteSet(ranks)
        /\ Cardinality(ranks) = IF 0 > Cardinality(P) - 1 THEN 0 ELSE (Cardinality(P) - 1) - 0 + 1
    BY <2>1, FS_Interval
  <2> QED
    BY <1>1, <2>2
<1>5. rank \in Surjection(P, ranks)
  <2> HIDE DEF rank, ranks
  <2> QED
    BY <1>3, <1>4, FS_Injection
<1>6. \A n \in ranks : \E i \in P : rank[i] = n
  BY <1>5 DEF Surjection
<1> QED
  BY <1>2, <1>6

\* A sorted list holds the records at the positions it was made from, once each and in
\* their order.
LEMMA SortedList ==
  ASSUME workloads \in Seq(Records), NEW P \in SUBSET Positions
  PROVE  /\ Sorted(P) \in Seq(Records) /\ Len(Sorted(P)) = Cardinality(P)
         /\ \A k \in DOMAIN Sorted(P) :
              /\ Ranked(k - 1, P) \in P /\ Rank(Ranked(k - 1, P), P) = k - 1
              /\ Sorted(P)[k] = workloads[Ranked(k - 1, P)]
         /\ Range(Sorted(P)) = {workloads[i] : i \in P}
<1>1. Cardinality(P) \in Nat /\ \A i \in P : Rank(i, P) \in 0..(Cardinality(P) - 1)
  BY RankFollowsOrder
<1>2. \A k \in 1..Cardinality(P) : Ranked(k - 1, P) \in P /\ Rank(Ranked(k - 1, P), P) = k - 1
  <2> TAKE k \in 1..Cardinality(P)
  <2>1. k - 1 \in 0..(Cardinality(P) - 1)
    BY <1>1
  <2>2. \E i \in P : Rank(i, P) = k - 1
    BY <2>1, RankIsOnto
  <2> QED
    BY <2>2 DEF Ranked
<1>3. \A i \in P : workloads[i] \in Records
  BY DEF Positions
<1>4. Sorted(P) = [k \in 1..Cardinality(P) |-> workloads[Ranked(k - 1, P)]]
  BY DEF Sorted
<1>5. Sorted(P) \in Seq(Records) /\ Len(Sorted(P)) = Cardinality(P)
      /\ DOMAIN Sorted(P) = 1..Cardinality(P)
  BY <1>1, <1>2, <1>3, <1>4
<1>6. \A i \in P : \E k \in 1..Cardinality(P) : Ranked(k - 1, P) = i
  <2> SUFFICES ASSUME NEW i \in P
               PROVE  \E k \in 1..Cardinality(P) : Ranked(k - 1, P) = i
    OBVIOUS
  <2>1. (Rank(i, P) + 1) - 1 = Rank(i, P) /\ Rank(i, P) + 1 \in 1..Cardinality(P)
    BY <1>1
  <2>2. Rank(Ranked(Rank(i, P), P), P) = Rank(i, P) /\ Ranked(Rank(i, P), P) \in P
    BY <1>2, <2>1
  <2>3. Ranked((Rank(i, P) + 1) - 1, P) = i
    BY <2>1, <2>2, RankIsOnto
  <2> QED
    BY <2>1, <2>3
<1>7. Range(Sorted(P)) = {workloads[i] : i \in P}
  BY <1>2, <1>4, <1>5, <1>6 DEF Range
<1> QED
  BY <1>2, <1>4, <1>5, <1>7

\* A better record comes before.
LEMMA BetterComesFirst ==
  ASSUME workloads \in Seq(Records), NEW i \in Positions, NEW j \in Positions,
         i = j \/ Before(i, j)
  PROVE  ~Better(workloads[j], workloads[i])
<1>1. /\ workloads[i].ts \in Nat /\ workloads[i].stale \in BOOLEAN
      /\ workloads[j].ts \in Nat /\ workloads[j].stale \in BOOLEAN
  <2>1. workloads[i] \in Records /\ workloads[j] \in Records
    BY DEF Positions
  <2> QED
    BY <2>1, IngestAssumption DEF IngestAssumption, Records
<1> QED
  BY <1>1 DEF Better, Before

\* The reduction keeps one position for every identity, the first in the order.
LEMMA FirstOfEveryIdentity ==
  ASSUME workloads \in Seq(Records)
  PROVE  /\ Unique \in SUBSET Positions
         /\ \A u, v \in Unique : workloads[u].id = workloads[v].id => u = v
         /\ \A i \in Positions : \E u \in Unique : /\ workloads[u].id = workloads[i].id
                                                   /\ u = i \/ Before(u, i)
<1>1. Unique \in SUBSET Positions
  BY DEF Unique, Positions
<1>2. \A u, v \in Unique : workloads[u].id = workloads[v].id => u = v
  <2> SUFFICES ASSUME NEW u \in Unique, NEW v \in Unique, workloads[u].id = workloads[v].id, u # v
               PROVE  FALSE
    OBVIOUS
  <2>1. Before(u, v) /\ Before(v, u)
    BY DEF Unique
  <2> QED
    BY <1>1, <2>1, BeforeIsTotalOrder
<1>3. ASSUME NEW i \in Positions
      PROVE  \E u \in Unique : workloads[u].id = workloads[i].id /\ (u = i \/ Before(u, i))
  <2> DEFINE same == {j \in Positions : workloads[j].id = workloads[i].id}
  <2>1. same \in SUBSET Positions /\ i \in same
    OBVIOUS
  <2>2. \A j \in same : Rank(j, same) \in 0..(Cardinality(same) - 1)
    BY <2>1, RankFollowsOrder
  <2>3. 0 \in 0..(Cardinality(same) - 1)
    <3>1. Cardinality(same) \in Nat
      BY <2>1, RankFollowsOrder
    <3> HIDE DEF same
    <3> QED
      BY <2>1, <2>2, <3>1
  <2>4. PICK u \in same : Rank(u, same) = 0
    BY <2>1, <2>3, RankIsOnto
  <2>5. \A j \in same : j = u \/ Before(u, j)
    <3> SUFFICES ASSUME NEW j \in same, Before(j, u) PROVE FALSE
      BY <2>1, BeforeIsTotalOrder
    <3>1. Rank(j, same) < Rank(u, same) /\ Rank(j, same) \in Nat
      BY <2>1, <2>2, RankFollowsOrder
    <3> QED
      BY <2>4, <3>1
  <2>6. u \in Unique
    BY <2>5 DEF Unique, Positions
  <2> QED
    BY <2>5, <2>6
<1> QED
  BY <1>1, <1>2, <1>3

\* So it keeps as many as there are identities.
LEMMA UniqueCountsIdentities ==
  ASSUME workloads \in Seq(Records)
  PROVE  Cardinality({r.id : r \in Range(workloads)}) = Cardinality(Unique)
<1> DEFINE ids == {r.id : r \in Range(workloads)}
           idOf == [u \in Unique |-> workloads[u].id]
<1>1. IsFiniteSet(Unique)
  BY FirstOfEveryIdentity, RankFollowsOrder
<1>2. \A u \in Unique : workloads[u].id \in ids
  BY FirstOfEveryIdentity DEF Range, Positions
<1>3. \A d \in ids : \E u \in Unique : workloads[u].id = d
  <2> SUFFICES ASSUME NEW i \in Positions PROVE \E u \in Unique : workloads[u].id = workloads[i].id
    BY DEF Range, Positions
  <2> QED
    BY FirstOfEveryIdentity
<1>4. idOf \in Bijection(Unique, ids)
  BY <1>2, <1>3, FirstOfEveryIdentity DEF Bijection, Injection, Surjection, IsInjective
<1>5. ExistsBijection(Unique, ids)
  BY <1>4 DEF ExistsBijection
<1> QED
  BY <1>1, <1>5, FS_Bijection

\* The cap keeps what it has room for, and fills it.
LEMMA CapKeepsTheFirst ==
  ASSUME workloads \in Seq(Records), NEW P \in SUBSET Positions
  PROVE  /\ Capped(P) \in SUBSET P
         /\ Cardinality(P) <= MaxWorkloads => Capped(P) = P
         /\ Cardinality(P) > MaxWorkloads => Cardinality(Capped(P)) = MaxWorkloads
<1>1. Capped(P) \in SUBSET P
  BY DEF Capped
<1>2. /\ Cardinality(P) \in Nat /\ MaxWorkloads \in Nat
      /\ \A i \in P : Rank(i, P) \in 0..(Cardinality(P) - 1)
  BY RankFollowsOrder, IngestAssumption DEF IngestAssumption
<1>3. ASSUME Cardinality(P) <= MaxWorkloads PROVE Capped(P) = P
  BY <1>2, <1>3 DEF Capped
<1>4. ASSUME Cardinality(P) > MaxWorkloads PROVE Cardinality(Capped(P)) = MaxWorkloads
  <2> DEFINE ranks == 0..(MaxWorkloads - 1)
             rank == [i \in Capped(P) |-> Rank(i, P)]
  <2>1. \A i \in Capped(P) : Rank(i, P) \in ranks
    BY <1>2 DEF Capped
  <2>2. rank \in Injection(Capped(P), ranks)
    <3>1. \A i, j \in Capped(P) : Rank(i, P) = Rank(j, P) => i = j
      BY <1>1, RankIsOnto
    <3> QED
      BY <2>1, <3>1 DEF Injection, IsInjective
  <2>3. \A n \in ranks : \E i \in Capped(P) : Rank(i, P) = n
    <3> SUFFICES ASSUME NEW n \in ranks PROVE \E i \in Capped(P) : Rank(i, P) = n
      OBVIOUS
    <3>1. n \in 0..(Cardinality(P) - 1) /\ n < MaxWorkloads
      BY <1>2, <1>4
    <3> QED
      BY <3>1, RankIsOnto DEF Capped
  <2>4. rank \in Surjection(Capped(P), ranks)
    BY <2>1, <2>3 DEF Surjection
  <2>5. IsFiniteSet(ranks) /\ Cardinality(ranks) = MaxWorkloads
    <3>1. MaxWorkloads - 1 \in Int /\ 0 \in Int
      BY <1>2
    <3>2. /\ IsFiniteSet(ranks)
          /\ Cardinality(ranks) = IF 0 > MaxWorkloads - 1 THEN 0 ELSE (MaxWorkloads - 1) - 0 + 1
      BY <3>1, FS_Interval
    <3> QED
      BY <1>2, <3>2
  <2> HIDE DEF rank, ranks
  <2> QED
    BY <2>2, <2>4, <2>5, FS_Injection
<1> QED
  BY <1>1, <1>3, <1>4

\* The list that is exported: the first record of every identity, as many as fit.
LEMMA ExportedList ==
  ASSUME workloads \in Seq(Records)
  PROVE  /\ Export \in Seq(Records)
         /\ Range(Export) = {workloads[i] : i \in Capped(Unique)}
         /\ Capped(Unique) \in SUBSET Unique /\ Unique \in SUBSET Positions
         /\ Cardinality(Unique) <= MaxWorkloads => Len(Export) = Cardinality(Unique)
         /\ Cardinality(Unique) > MaxWorkloads => Len(Export) = MaxWorkloads
<1>1. Capped(Unique) \in SUBSET Unique /\ Unique \in SUBSET Positions
  BY FirstOfEveryIdentity, CapKeepsTheFirst
<1>2. Capped(Unique) \in SUBSET Positions
  BY <1>1
<1>3. Export \in Seq(Records) /\ Len(Export) = Cardinality(Capped(Unique))
      /\ Range(Export) = {workloads[i] : i \in Capped(Unique)}
  BY <1>2, SortedList DEF Export
<1> QED
  BY <1>1, <1>3, CapKeepsTheFirst

\* No two records of it have one identity, and none is worse than another that was read.
LEMMA ExportHoldsFreshest ==
  ASSUME workloads \in Seq(Records), exported = Export
  PROVE  ExportIsFreshest
<1>1. Capped(Unique) \in SUBSET Positions /\ Capped(Unique) \in SUBSET Unique
  BY ExportedList
<1>2. ASSUME NEW k \in DOMAIN Export, NEW l \in DOMAIN Export, Export[k].id = Export[l].id
      PROVE  k = l
  <2> DEFINE i == Ranked(k - 1, Capped(Unique))
             j == Ranked(l - 1, Capped(Unique))
  <2>1. /\ i \in Capped(Unique) /\ Rank(i, Capped(Unique)) = k - 1 /\ Export[k] = workloads[i]
        /\ j \in Capped(Unique) /\ Rank(j, Capped(Unique)) = l - 1 /\ Export[l] = workloads[j]
    BY <1>1, SortedList DEF Export
  <2>2. i = j
    BY <1>1, <1>2, <2>1, FirstOfEveryIdentity
  <2>3. k \in Nat /\ l \in Nat
    BY ExportedList
  <2> HIDE DEF i, j
  <2> QED
    BY <2>1, <2>2, <2>3
<1>3. ASSUME NEW p \in Capped(Unique), NEW i \in Positions, workloads[i].id = workloads[p].id
      PROVE  ~Better(workloads[i], workloads[p])
  <2>1. PICK u \in Unique : workloads[u].id = workloads[i].id /\ (u = i \/ Before(u, i))
    BY FirstOfEveryIdentity
  <2>2. u = p
    BY <1>1, <1>3, <2>1, FirstOfEveryIdentity
  <2> QED
    BY <1>1, <2>1, <2>2, BetterComesFirst
<1>4. \A e \in Range(Export), r \in Range(workloads) : r.id = e.id => ~Better(r, e)
  BY <1>3, ExportedList DEF Range, Positions
<1> QED
  BY <1>2, <1>4 DEF ExportIsFreshest

\* An identity that has no place gives way to records that are no worse.
LEMMA ExportHoldsTheBest ==
  ASSUME workloads \in Seq(Records), exported = Export
  PROVE  LimitKeepsTheBest
<1> SUFFICES ASSUME NEW i \in Positions
             PROVE  \/ \E e \in Range(Export) : e.id = workloads[i].id
                    \/ /\ Len(Export) = MaxWorkloads
                       /\ \A e \in Range(Export) : ~Better(workloads[i], e)
  BY DEF LimitKeepsTheBest, Range, Positions
<1>1. PICK u \in Unique : workloads[u].id = workloads[i].id /\ (u = i \/ Before(u, i))
  BY FirstOfEveryIdentity
<1>2. CASE u \in Capped(Unique)
  BY <1>1, <1>2, ExportedList
<1>3. CASE u \notin Capped(Unique)
  <2>1. Unique \in SUBSET Positions
    BY FirstOfEveryIdentity
  <2>2. /\ Rank(u, Unique) \in Nat /\ Cardinality(Unique) \in Nat /\ MaxWorkloads \in Nat
        /\ Rank(u, Unique) < Cardinality(Unique)
    BY <2>1, RankFollowsOrder, IngestAssumption DEF IngestAssumption
  <2>3. ~(Rank(u, Unique) < MaxWorkloads)
    BY <1>3 DEF Capped
  <2>4. Len(Export) = MaxWorkloads
    BY <2>2, <2>3, ExportedList
  <2>5. ASSUME NEW p \in Capped(Unique) PROVE ~Better(workloads[i], workloads[p])
    <3>1. p \in Unique /\ p \in Positions /\ Rank(p, Unique) < MaxWorkloads
      BY <2>1 DEF Capped
    <3>2. Rank(p, Unique) \in Nat
      BY <2>1, <3>1, RankFollowsOrder
    <3>3. Before(p, u)
      BY <2>1, <2>2, <2>3, <3>1, <3>2, RankFollowsOrder
    <3>4. Before(p, i)
      BY <1>1, <2>1, <3>1, <3>3, BeforeIsTotalOrder
    <3> QED
      BY <3>1, <3>4, BetterComesFirst
  <2> QED
    BY <2>4, <2>5, ExportedList
<1> QED
  BY <1>2, <1>3
-----------------------------------------------------------------------------
(* Sums and totals.                                                        *)

\* A set of numbers has a least one: what takes the place of induction below.
LEMMA LeastNumber ==
  ASSUME NEW T \in SUBSET Nat, T # {}
  PROVE  \E n \in T : \A m \in T : n <= m
<1> DEFINE less == {ss \in Nat \X Nat : ss[1] < ss[2]}
<1>1. IsWellFoundedOn(less, Nat)
  <2>1. OpToRel(<, Nat) = less
    BY Zenon DEF OpToRel
  <2> QED
    BY <2>1, NatLessThanWellFounded
<1>2. T \subseteq Nat
  OBVIOUS
<1>3. \A m, n \in Nat : m < n => <<m, n>> \in less
  OBVIOUS
<1> HIDE DEF less
<1>4. PICK n \in T : \A m \in T : ~ (<<m, n>> \in less)
  BY <1>1, <1>2, WFMin
<1>5. ASSUME NEW m \in T PROVE n <= m
  <2>1. m \in Nat /\ n \in Nat
    BY <1>2
  <2>2. ~ (m < n)
    <3> SUFFICES ASSUME m < n PROVE FALSE
      OBVIOUS
    <3>1. <<m, n>> \in less
      BY <1>3, <2>1
    <3>2. ~ (<<m, n>> \in less)
      BY <1>4
    <3> QED
      BY <3>1, <3>2
  <2> QED
    BY <2>1, <2>2
<1> QED
  BY <1>5

\* The recursive function of UsedOf is defined: sums of a finite list exist.
LEMMA SumExists ==
  ASSUME NEW len \in Nat, NEW u \in [1..len -> Nat]
  PROVE  \E f \in [0..len -> Nat] :
           f = [n \in 0..len |-> IF n = 0 THEN 0 ELSE f[n - 1] + u[n]]
<1> DEFINE Sums(f, k) == /\ f \in [0..len -> Nat]
                         /\ \A n \in 0..k : f[n] = IF n = 0 THEN 0 ELSE f[n - 1] + u[n]
           without == {k \in 0..len : ~ \E f : Sums(f, k)}
<1>1. ASSUME NEW k \in without, \A m \in without : k <= m PROVE FALSE
  <2>1. CASE k = 0
    <3>1. Sums([n \in 0..len |-> 0], 0)
      OBVIOUS
    <3> QED
     BY <2>1, <3>1
  <2>2. CASE k # 0
    <3>1. k - 1 \in 0..len /\ k - 1 \notin without /\ k \in Nat
      BY <1>1, <2>2
    <3>2. PICK f : Sums(f, k - 1)
      BY <3>1
    <3> DEFINE g == [n \in 0..len |-> IF n = k THEN f[k - 1] + u[k] ELSE f[n]]
    <3>3. k \in 1..len /\ f[k - 1] + u[k] \in Nat
      BY <2>2, <3>1, <3>2
    <3>4. g \in [0..len -> Nat]
      BY <3>2, <3>3
    <3>5. ASSUME NEW n \in 0..k PROVE g[n] = IF n = 0 THEN 0 ELSE g[n - 1] + u[n]
      <4>1. CASE n = k
        BY <3>3, <4>1
      <4>2. CASE n # k
        <5>1. n \in 0..(k - 1) /\ n \in 0..len /\ (n # 0 => n - 1 \in 0..len /\ n - 1 # k)
          BY <3>1, <4>2
        <5>2. f[n] = IF n = 0 THEN 0 ELSE f[n - 1] + u[n]
          BY <3>2, <5>1
        <5> QED
          BY <4>2, <5>1, <5>2
      <4> QED
        BY <4>1, <4>2
    <3>6. Sums(g, k)
      BY <3>4, <3>5
    <3> QED
      BY <3>6
  <2> QED
    BY <2>1, <2>2
<1>2. without = {}
  <2>1. without \in SUBSET Nat
    OBVIOUS
  <2> QED
    BY <1>1, <2>1, LeastNumber
<1>3. PICK f : Sums(f, len)
  <2>1. len \in 0..len
    OBVIOUS
  <2> QED
    BY <1>2, <2>1
<1>4. f = [n \in 0..len |-> IF n = 0 THEN 0 ELSE f[n - 1] + u[n]]
  BY <1>3
<1> QED
  BY <1>3, <1>4

\* A sum of counts is a count.
LEMMA UsedIsCount ==
  ASSUME NEW s \in Seq(Records)
  PROVE  UsedOf(s) \in Nat
<1> DEFINE u == [n \in 1..Len(s) |-> IF s[n].active /\ ~s[n].stale THEN s[n].used ELSE 0]
           sum == CHOOSE f : f = [n \in 0..Len(s) |->
                    IF n = 0 THEN 0
                    ELSE f[n - 1] + IF s[n].active /\ ~s[n].stale THEN s[n].used ELSE 0]
<1>1. Len(s) \in Nat /\ u \in [1..Len(s) -> Nat]
  <2>1. Len(s) \in Nat /\ \A n \in 1..Len(s) : s[n] \in Records
    OBVIOUS
  <2>2. \A n \in 1..Len(s) : s[n].used \in Nat
    BY <2>1, IngestAssumption DEF IngestAssumption, Records
  <2> QED
    BY <2>1, <2>2
<1>2. PICK f \in [0..Len(s) -> Nat] :
        f = [n \in 0..Len(s) |-> IF n = 0 THEN 0 ELSE f[n - 1] + u[n]]
  BY <1>1, SumExists
<1>3. f = [n \in 0..Len(s) |->
             IF n = 0 THEN 0
             ELSE f[n - 1] + IF s[n].active /\ ~s[n].stale THEN s[n].used ELSE 0]
  <2>1. \A n \in 0..Len(s) :
          n # 0 => u[n] = IF s[n].active /\ ~s[n].stale THEN s[n].used ELSE 0
    OBVIOUS
  <2> QED
    BY <1>2, <2>1
<1>4. sum = [n \in 0..Len(s) |->
               IF n = 0 THEN 0
               ELSE sum[n - 1] + IF s[n].active /\ ~s[n].stale THEN s[n].used ELSE 0]
  BY <1>3
<1>5. UsedOf(s) = sum[Len(s)]
  BY Zenon DEF UsedOf
<1>6. \A n \in 0..Len(s) : sum[n] \in Nat
  <2> DEFINE without == {n \in 0..Len(s) : sum[n] \notin Nat}
  <2> SUFFICES ASSUME without # {} PROVE FALSE
    OBVIOUS
  <2> HIDE DEF sum
  <2>1. without \in SUBSET Nat
    OBVIOUS
  <2>2. PICK k \in without : \A m \in without : k <= m
    BY <2>1, LeastNumber
  <2>3. sum[k] = IF k = 0 THEN 0
                 ELSE sum[k - 1] + IF s[k].active /\ ~s[k].stale THEN s[k].used ELSE 0
    BY <1>4, <2>2
  <2>4. k # 0 => sum[k - 1] \in Nat
    BY <2>2
  <2>5. k # 0 => (IF s[k].active /\ ~s[k].stale THEN s[k].used ELSE 0) \in Nat
    <3>1. k # 0 => u[k] \in Nat /\ u[k] = IF s[k].active /\ ~s[k].stale THEN s[k].used ELSE 0
      BY <1>1, <2>2
    <3> QED
      BY <3>1
  <2> QED
    BY <2>2, <2>3, <2>4, <2>5
<1> QED
  BY <1>1, <1>5, <1>6

\* Max is the greatest of finitely many numbers: the one that the fewest are above.
LEMMA MaxOfFinite ==
  ASSUME NEW S \in SUBSET Int, IsFiniteSet(S), S # {}
  PROVE  Max(S) \in S /\ \A y \in S : Max(S) >= y
<1> DEFINE above(x) == {z \in S : z > x}
           sizes == {Cardinality(above(x)) : x \in S}
<1>1. \A x \in S : IsFiniteSet(above(x)) /\ Cardinality(above(x)) \in Nat
  <2> TAKE x \in S
  <2>1. above(x) \in SUBSET S
    OBVIOUS
  <2> QED
    BY <2>1, FS_Subset, FS_CardinalityType
<1>2. PICK x \in S : \A z \in S : Cardinality(above(x)) <= Cardinality(above(z))
  <2>1. sizes \in SUBSET Nat /\ sizes # {}
    BY <1>1
  <2>2. \E n \in sizes : \A m \in sizes : n <= m
    <3> HIDE DEF sizes
    <3> QED
      BY <2>1, LeastNumber
  <2> QED
    BY <2>2
<1>3. \A y \in S : x >= y
  <2> SUFFICES ASSUME NEW y \in S, ~(x >= y) PROVE FALSE
    OBVIOUS
  <2>1. above(y) \in SUBSET above(x) /\ y \in above(x) /\ y \notin above(y)
    <3>1. x \in Int /\ y \in Int /\ y > x /\ \A z \in S : z \in Int
      OBVIOUS
    <3>2. y \in above(x) /\ y \notin above(y)
      BY <3>1
    <3>3. \A z \in S : z > y => z > x
      BY <3>1
    <3> QED
      BY <3>2, <3>3
  <2>2. Cardinality(above(y)) <= Cardinality(above(x))
        /\ Cardinality(above(y)) # Cardinality(above(x))
    <3> HIDE DEF above
    <3> QED
      BY <1>1, <2>1, FS_Subset
  <2>3. Cardinality(above(x)) <= Cardinality(above(y))
    BY <1>2
  <2>4. Cardinality(above(x)) \in Nat /\ Cardinality(above(y)) \in Nat
    BY <1>1
  <2> HIDE DEF above
  <2> QED
    BY <2>2, <2>3, <2>4
<1> QED
  BY <1>3 DEF Max

\* The total is one of the totals, if there are any.
LEMMA TotalIsCount ==
  ASSUME NEW s \in Seq(Records)
  PROVE  TotalOf(s) \in Count
<1> DEFINE fresh == {n \in 1..Len(s) : ~s[n].stale}
           totals == {r.total : r \in Fresh(s)}
           totalAt == [n \in fresh |-> s[n].total]
<1>1. Len(s) \in Nat /\ DOMAIN s = 1..Len(s) /\ \A n \in 1..Len(s) : s[n] \in Records
  OBVIOUS
<1>2. \A n \in 1..Len(s) : s[n].total \in Count
  BY <1>1, IngestAssumption DEF IngestAssumption, Records, Count
<1>3. totalAt \in Surjection(fresh, totals)
  BY <1>1 DEF Surjection, Fresh, Range
<1>4. IsFiniteSet(fresh)
  <2>1. IsFiniteSet(1..Len(s)) /\ fresh \in SUBSET (1..Len(s))
    BY <1>1, FS_Interval
  <2> QED
    BY <2>1, FS_Subset
<1>5. IsFiniteSet(totals \cup {None})
  <2>1. IsFiniteSet(totals)
    BY <1>3, <1>4, FS_Surjection
  <2> QED
    BY <2>1, FS_AddElement
<1>6. totals \cup {None} \in SUBSET Count
  BY <1>1, <1>2 DEF Fresh, Range, Count
<1>7. Max(totals \cup {None}) \in totals \cup {None}
  <2>1. totals \cup {None} \in SUBSET Int /\ totals \cup {None} # {}
    BY <1>6 DEF Count, None
  <2> HIDE DEF totals
  <2> QED
    BY <1>5, <2>1, MaxOfFinite
<1> QED
  BY <1>6, <1>7 DEF TotalOf

\* Min of two numbers is the smaller one.
LEMMA MinOfTwo ==
  ASSUME NEW a \in Int, NEW b \in Int
  PROVE  Min({a, b}) \in {a, b} /\ Min({a, b}) <= a /\ Min({a, b}) <= b
<1>1. \E x \in {a, b} : \A y \in {a, b} : x <= y
  OBVIOUS
<1> QED
  BY <1>1 DEF Min

\* What is filled in are counts, and those that come from the profiler agree.
LEMMA FilledCountsAgree ==
  ASSUME NEW s \in Seq(Records), tensix \in Tensix
  PROVE  /\ Filled(s) \in Tensix
         /\ (tensix.used = None /\ tensix.total = None /\ tensix.available = None) =>
              /\ Filled(s).total # None =>
                   Filled(s).used # None /\ Filled(s).used <= Filled(s).total
              /\ Filled(s).available # None =>
                   Filled(s).used + Filled(s).available = Filled(s).total
<1> DEFINE total == TotalOf(s)
           used  == IF total = None THEN UsedOf(s) ELSE Min({UsedOf(s), total})
           free  == IF total = None THEN None ELSE total - used
<1>1. total \in Count /\ UsedOf(s) \in Nat
  BY TotalIsCount, UsedIsCount
<1>2. used \in Nat /\ (total # None => total \in Nat /\ used <= total)
  <2>1. total # None => total \in Nat
    BY <1>1 DEF Count
  <2>2. ASSUME total # None
        PROVE  Min({UsedOf(s), total}) \in {UsedOf(s), total}
               /\ Min({UsedOf(s), total}) <= total
    <3>1. UsedOf(s) \in Int /\ total \in Int
      BY <1>1, <2>1, <2>2
    <3> HIDE DEF total
    <3> QED
      BY <3>1, MinOfTwo
  <2> QED
    BY <1>1, <2>1, <2>2
<1>3. free \in Count /\ (total # None => used + free = total) /\ (free # None => total # None)
  <2> HIDE DEF used, total
  <2> QED
    BY <1>2 DEF Count, None
<1>4. tensix.used \in Count /\ tensix.total \in Count /\ tensix.available \in Count
      /\ tensix.source \in {"none", "sysfs", "metalium_profiler"}
  BY DEF Tensix
<1>5. CASE Fresh(s) = {}
  <2>1. Filled(s) = tensix
    BY <1>5 DEF Filled
  <2> QED
    BY <2>1
<1>6. CASE Fresh(s) # {}
  <2> DEFINE fills == \/ tensix.used = None
                      \/ total # None /\ (tensix.total = None \/ tensix.available = None)
  <2>1. Filled(s) = [used      |-> FirstOf(tensix.used, used),
                     total     |-> FirstOf(tensix.total, total),
                     available |-> FirstOf(tensix.available, free),
                     source    |-> IF fills THEN "metalium_profiler" ELSE tensix.source]
    BY <1>6 DEF Filled
  <2> HIDE DEF used, total, free, fills
  <2>2. Filled(s) \in Tensix
    BY <1>1, <1>2, <1>3, <1>4, <2>1 DEF Tensix, FirstOf, Count
  <2>3. ASSUME tensix.used = None, tensix.total = None, tensix.available = None
        PROVE  Filled(s).used = used /\ Filled(s).total = total /\ Filled(s).available = free
    BY <2>1, <2>3 DEF FirstOf
  <2>4. None \notin Nat
    BY DEF None
  <2> QED
    BY <1>2, <1>3, <2>2, <2>3, <2>4
<1> QED
  BY <1>5, <1>6
-----------------------------------------------------------------------------
(* The scan.                                                               *)

\* The flag of a directory over its limit is a number.
LEMMA CutIsNumber ==
  ASSUME NEW names, IsFiniteSet(names)
  PROVE  Cardinality(names) \in Nat /\ Cut(names) \in Nat
<1>1. Cardinality(names) \in Nat
  BY FS_CardinalityType
<1> QED
  BY <1>1 DEF Cut

\* What a scan has left of its directory is finite.
LEMMA UnreadIsFinite ==
  ASSUME IInv
  PROVE  IsFiniteSet(unread) /\ Cardinality(unread) \in Nat /\ budget \in Nat
<1>1. unread \in SUBSET (Pods \cup Legacy) /\ IsFiniteSet(Pods \cup Legacy)
  BY IngestAssumption, FS_Union DEF IngestAssumption, IInv, TypeOK
<1>2. IsFiniteSet(unread) /\ Cardinality(unread) \in Nat
  BY <1>1, FS_Subset, FS_CardinalityType
<1>3. budget \in Nat
  BY IngestAssumption DEF IngestAssumption, IInv, TypeOK
<1> QED
  BY <1>2, <1>3

\* When a scan has ended, entries are left exactly when there were too many for its budget.
LEMMA ScanEnds ==
  ASSUME IInv, Scanned
  PROVE  LeftUnread = IF Cardinality(unread) > budget THEN 1 ELSE 0
<1>1. Cardinality(unread) \in Nat /\ budget \in Nat /\ IsFiniteSet(unread)
  BY UnreadIsFinite
<1>2. CASE unread = {}
  <2>1. Cardinality(unread) = 0
    BY <1>2, FS_EmptySet
  <2> QED
    BY <1>1, <1>2, <2>1 DEF LeftUnread
<1>3. CASE unread # {}
  <2>1. budget = 0 /\ Cardinality(unread) # 0
    BY <1>1, <1>3, FS_EmptySet DEF Scanned
  <2> QED
    BY <1>1, <1>3, <2>1 DEF LeftUnread
<1> QED
  BY <1>2, <1>3

\* What a file yields is a record of its schema.
LEMMA AcceptedIsRecord ==
  ASSUME NEW schema \in {1, 2}, NEW r \in Accepted(schema)
  PROVE  r \in Records /\ r.schema = schema
<1>1. PICK id \in Ids, x \in Samples :
         r = [id |-> id, ts |-> x.ts, stale |-> IsStale(x.ts), active |-> x.active,
              used |-> x.used, total |-> x.total, schema |-> schema]
  BY DEF Accepted
<1>2. x.ts \in Nat /\ x.active \in BOOLEAN /\ x.used \in Nat /\ x.total \in Count
  BY IngestAssumption DEF IngestAssumption, Count
<1>3. IsStale(x.ts) \in BOOLEAN
  BY DEF IsStale
<1> QED
  BY <1>1, <1>2, <1>3 DEF Records

\* While only v2 files have been read, no record is superseded.
LEMMA AcceptedV2 ==
  ASSUME accepted \in Seq(Records), \A i \in DOMAIN accepted : accepted[i].schema = 2,
         NEW r \in Records, r.schema = 2, accepted' = Append(accepted, r)
  PROVE  /\ accepted' \in Seq(Records) /\ Len(accepted') = Len(accepted) + 1
         /\ \A i \in DOMAIN accepted' : accepted'[i].schema = 2
         /\ NamedByV2' = NamedByV2 \cup {r.id}
         /\ Superseded = {} /\ Superseded' = {}
<1>1. /\ accepted' \in Seq(Records) /\ Len(accepted') = Len(accepted) + 1 /\ Len(accepted) \in Nat
      /\ DOMAIN accepted = 1..Len(accepted) /\ DOMAIN accepted' = 1..(Len(accepted) + 1)
      /\ \A i \in DOMAIN accepted : accepted'[i] = accepted[i]
      /\ accepted'[Len(accepted) + 1] = r
  OBVIOUS
<1>2. \A i \in DOMAIN accepted' : i \in DOMAIN accepted \/ i = Len(accepted) + 1
  BY <1>1
<1>3. DOMAIN accepted \subseteq DOMAIN accepted' /\ Len(accepted) + 1 \in DOMAIN accepted'
  BY <1>1
<1>4. \A i \in DOMAIN accepted' : accepted'[i].schema = 2
  BY <1>1, <1>2
<1>5. NamedByV2' = {accepted'[i].id : i \in DOMAIN accepted'}
  BY <1>4 DEF NamedByV2
<1>6. NamedByV2 = {accepted[i].id : i \in DOMAIN accepted}
  BY DEF NamedByV2
<1>7. NamedByV2' = NamedByV2 \cup {r.id}
  BY <1>1, <1>2, <1>3, <1>5, <1>6
<1>8. Superseded = {} /\ Superseded' = {}
  BY <1>4 DEF Superseded
<1> QED
  BY <1>1, <1>4, <1>7, <1>8

\* A v1 record names no identity for others; it is superseded if a v2 file names its own.
LEMMA AcceptedV1 ==
  ASSUME accepted \in Seq(Records), NEW r \in Records, r.schema = 1,
         accepted' = Append(accepted, r)
  PROVE  /\ accepted' \in Seq(Records) /\ Len(accepted') = Len(accepted) + 1
         /\ NamedByV2' = NamedByV2
         /\ Cardinality(Superseded) \in Nat
         /\ Cardinality(Superseded') =
              Cardinality(Superseded) + IF r.id \in NamedByV2 THEN 1 ELSE 0
<1>1. /\ accepted' \in Seq(Records) /\ Len(accepted') = Len(accepted) + 1 /\ Len(accepted) \in Nat
      /\ DOMAIN accepted = 1..Len(accepted) /\ DOMAIN accepted' = 1..(Len(accepted) + 1)
      /\ \A i \in DOMAIN accepted : accepted'[i] = accepted[i]
      /\ accepted'[Len(accepted) + 1] = r
  OBVIOUS
<1>2. /\ \A i \in DOMAIN accepted' : i \in DOMAIN accepted \/ i = Len(accepted) + 1
      /\ DOMAIN accepted \subseteq DOMAIN accepted' /\ Len(accepted) + 1 \in DOMAIN accepted'
      /\ Len(accepted) + 1 \notin DOMAIN accepted
  BY <1>1
<1>3. NamedByV2' = NamedByV2
  <2>1. {j \in DOMAIN accepted' : accepted'[j].schema = 2}
          = {j \in DOMAIN accepted : accepted[j].schema = 2}
    BY <1>1, <1>2
  <2>2. {accepted'[i].id : i \in {j \in DOMAIN accepted : accepted[j].schema = 2}}
          = {accepted[i].id : i \in {j \in DOMAIN accepted : accepted[j].schema = 2}}
    BY <1>1
  <2> QED
    BY <2>1, <2>2 DEF NamedByV2
<1>4. Superseded' = IF r.id \in NamedByV2 THEN Superseded \cup {Len(accepted) + 1}
                    ELSE Superseded
  <2>1. Superseded' = {i \in DOMAIN accepted' : accepted'[i].schema = 1 /\ accepted'[i].id \in NamedByV2}
    BY <1>3 DEF Superseded
  <2> QED
    BY <1>1, <1>2, <2>1 DEF Superseded
<1>5. IsFiniteSet(Superseded) /\ Cardinality(Superseded) \in Nat
  <2>1. Superseded \in SUBSET (1..Len(accepted)) /\ IsFiniteSet(1..Len(accepted))
    BY <1>1, FS_Interval DEF Superseded
  <2> QED
    BY <2>1, FS_Subset, FS_CardinalityType
<1>6. Len(accepted) + 1 \notin Superseded
  BY <1>2 DEF Superseded
<1>7. Cardinality(Superseded \cup {Len(accepted) + 1}) = Cardinality(Superseded) + 1
  BY <1>5, <1>6, FS_AddElement
<1>8. Cardinality(Superseded') = Cardinality(Superseded) + IF r.id \in NamedByV2 THEN 1 ELSE 0
  BY <1>4, <1>5, <1>7
<1> QED
  BY <1>1, <1>3, <1>5, <1>8

\* The counts of sysfs agree with themselves when there are none.
LEMMA InitEstablishes == Init => IInv
<1> SUFFICES ASSUME Init PROVE IInv
  OBVIOUS
<1> USE DEF Init
<1>1. sysfs \in Tensix
  BY IngestAssumption DEF IngestAssumption, Tensix, Count
<1>2. IsFiniteSet(unread) /\ unread \subseteq Pods
  BY IngestAssumption, FS_EmptySet DEF IngestAssumption
<1>3. Cut(unread) \in Nat
  BY <1>2, CutIsNumber
<1>4. now \in Start..Horizon /\ budget \in 0..MaxEntries
  BY IngestAssumption DEF IngestAssumption
<1>5. TypeOK
  BY <1>1, <1>2, <1>3, <1>4 DEF TypeOK
<1>6. /\ DOMAIN accepted = {} /\ NamedByV2 = {} /\ Superseded = {} /\ Cardinality(Superseded) = 0
      /\ Len(accepted) = 0 /\ Len(workloads) = 0
  <2>1. DOMAIN accepted = {} /\ Len(accepted) = 0 /\ Len(workloads) = 0
    OBVIOUS
  <2>2. NamedByV2 = {} /\ Superseded = {}
    BY <2>1 DEF NamedByV2, Superseded
  <2> QED
    BY <2>1, <2>2, FS_EmptySet
<1>7. issues = cut + IF Cardinality(unread) > budget THEN 1 ELSE 0
  BY DEF Cut
<1>8. ScanInProgress
  BY <1>2, <1>6, <1>7 DEF ScanInProgress
<1>9. ProfilerCountsAgree
  BY DEF ProfilerCountsAgree
<1> QED
  BY <1>5, <1>8, <1>9 DEF IInv

\* Taking an entry uses up one of it and one of the budget.
LEMMA TakeUsesBudget ==
  ASSUME IInv, phase # "done", NEW name, Take(name)
  PROVE  /\ name \in unread /\ unread' \subseteq unread
         /\ budget' \in 0..MaxEntries
         /\ issues' = cut' + IF Cardinality(unread') > budget' THEN 1 ELSE 0
         /\ UNCHANGED <<phase, now, cut, exported, tensix, sysfs, issues>>
<1>1. /\ name \in unread /\ unread' = unread \ {name}
      /\ budget > 0 /\ budget' = budget - 1
      /\ UNCHANGED <<phase, now, cut, exported, tensix, sysfs, issues>>
  BY DEF Take
<1>2. IsFiniteSet(unread) /\ Cardinality(unread) \in Nat
  BY UnreadIsFinite
<1>3. Cardinality(unread') = Cardinality(unread) - 1
  BY <1>1, <1>2, FS_RemoveElement
<1>4. budget \in 0..MaxEntries /\ MaxEntries \in Nat
  BY IngestAssumption DEF IngestAssumption, IInv, TypeOK
<1>5. issues = cut + IF Cardinality(unread) > budget THEN 1 ELSE 0
  BY DEF IInv, ScanInProgress
<1>6. Cardinality(unread') > budget' <=> Cardinality(unread) > budget
  BY <1>1, <1>2, <1>3, <1>4
<1>7. issues' = cut' + IF Cardinality(unread') > budget' THEN 1 ELSE 0
  BY <1>1, <1>5, <1>6
<1> QED
  BY <1>1, <1>4, <1>7

\* What reading a file does to the lists.
ListsKept ==
  /\ workloads \in Seq(Records) /\ identities \subseteq Ids /\ accepted \in Seq(Records)
  /\ phase = "v2" => \A i \in DOMAIN accepted : accepted[i].schema = 2
  /\ identities = NamedByV2
  /\ Len(workloads) = Len(accepted) - Cardinality(Superseded)

\* A file that is passed over leaves the lists alone.
LEMMA PassOverKeepsLists == IInv /\ PassOver => ListsKept'
<1> SUFFICES ASSUME IInv, PassOver PROVE ListsKept'
  OBVIOUS
<1>1. UNCHANGED <<phase, workloads, identities, accepted>>
  BY DEF PassOver, Take
<1>2. NamedByV2' = NamedByV2 /\ Superseded' = Superseded
  BY <1>1 DEF NamedByV2, Superseded
<1> QED
  BY <1>1, <1>2 DEF ListsKept, IInv, TypeOK, ScanInProgress

\* A v2 record is kept, under the name of its directory.
LEMMA ReadV2KeepsLists == IInv /\ ReadV2 => ListsKept'
<1> SUFFICES ASSUME IInv, ReadV2 PROVE ListsKept'
  OBVIOUS
<1>1. PICK pod \in unread, r \in Accepted(2) :
        /\ Take(pod)
        /\ accepted' = Append(accepted, r)
        /\ identities' = identities \cup {r.id}
        /\ workloads' = Append(workloads, [r EXCEPT !.id = pod])
  BY DEF ReadV2
<1>2. /\ workloads \in Seq(Records) /\ accepted \in Seq(Records) /\ phase = "v2"
      /\ identities = NamedByV2 /\ identities \subseteq Ids
      /\ \A i \in DOMAIN accepted : accepted[i].schema = 2
      /\ Len(workloads) = Len(accepted) - Cardinality(Superseded)
  BY DEF IInv, TypeOK, ScanInProgress, ReadV2
<1>3. pod \in Ids
  BY IngestAssumption DEF IngestAssumption, IInv, ReadV2, ScanInProgress
<1>4. r \in Records /\ r.schema = 2
  BY AcceptedIsRecord
<1>5. r.id \in Ids /\ [r EXCEPT !.id = pod] \in Records
  BY <1>3, <1>4 DEF Records
<1>6. /\ accepted' \in Seq(Records) /\ Len(accepted') = Len(accepted) + 1
      /\ \A i \in DOMAIN accepted' : accepted'[i].schema = 2
      /\ NamedByV2' = NamedByV2 \cup {r.id}
      /\ Superseded = {} /\ Superseded' = {}
  BY <1>1, <1>2, <1>4, AcceptedV2
<1>7. workloads' \in Seq(Records) /\ Len(workloads') = Len(workloads) + 1
  <2> DEFINE kept == [r EXCEPT !.id = pod]
  <2>1. workloads' = Append(workloads, kept) /\ kept \in Records /\ workloads \in Seq(Records)
    BY <1>1, <1>2, <1>5
  <2> HIDE DEF kept
  <2> QED
    BY <2>1
<1>8. Len(workloads') = Len(accepted') - Cardinality(Superseded')
  <2>1. Cardinality(Superseded) = 0 /\ Cardinality(Superseded') = 0
    BY <1>6, FS_EmptySet
  <2>2. Len(accepted) \in Nat /\ Len(workloads) \in Nat
    BY <1>2
  <2>3. Len(workloads') = Len(workloads) + 1 /\ Len(accepted') = Len(accepted) + 1
    BY <1>6, <1>7
  <2>4. Len(workloads) = Len(accepted)
    BY <1>2, <2>1, <2>2
  <2>5. Len(accepted') - 0 = Len(accepted')
    BY <2>2, <2>3
  <2> QED
    BY <2>1, <2>3, <2>4, <2>5
<1>9. identities' \subseteq Ids /\ identities' = NamedByV2'
  BY <1>1, <1>2, <1>5, <1>6
<1> QED
  BY <1>6, <1>7, <1>8, <1>9 DEF ListsKept

\* A v1 record is kept or superseded.
LEMMA ReadV1KeepsLists == IInv /\ ReadV1 => ListsKept'
<1> SUFFICES ASSUME IInv, ReadV1 PROVE ListsKept'
  OBVIOUS
<1>1. PICK name \in unread, r \in Accepted(1) :
        /\ Take(name)
        /\ accepted' = Append(accepted, r)
        /\ workloads' = IF r.id \in identities THEN workloads ELSE Append(workloads, r)
  BY DEF ReadV1
<1>2. /\ workloads \in Seq(Records) /\ accepted \in Seq(Records) /\ phase' = "v1"
      /\ identities = NamedByV2 /\ identities \subseteq Ids /\ identities' = identities
      /\ Len(workloads) = Len(accepted) - Cardinality(Superseded)
  BY <1>1 DEF IInv, TypeOK, ScanInProgress, ReadV1, Take
<1>3. r \in Records /\ r.schema = 1
  BY AcceptedIsRecord
<1>4. /\ accepted' \in Seq(Records) /\ Len(accepted') = Len(accepted) + 1
      /\ NamedByV2' = NamedByV2
      /\ Cardinality(Superseded) \in Nat
      /\ Cardinality(Superseded') =
           Cardinality(Superseded) + IF r.id \in NamedByV2 THEN 1 ELSE 0
  BY <1>1, <1>2, <1>3, AcceptedV1
<1>5. /\ workloads' \in Seq(Records)
      /\ Len(workloads') = Len(workloads) + IF r.id \in NamedByV2 THEN 0 ELSE 1
  <2>1. CASE r.id \in identities
    <3>1. workloads' = workloads /\ Len(workloads) \in Nat
      BY <1>1, <1>2, <2>1
    <3> QED
      BY <1>2, <2>1, <3>1
  <2>2. CASE r.id \notin identities
    <3>1. workloads' = Append(workloads, r)
      BY <1>1, <2>2
    <3>2. Append(workloads, r) \in Seq(Records) /\ Len(Append(workloads, r)) = Len(workloads) + 1
      BY <1>2, <1>3
    <3> QED
      BY <1>2, <2>2, <3>1, <3>2
  <2> QED
    BY <2>1, <2>2
<1>6. Len(workloads') = Len(accepted') - Cardinality(Superseded')
  <2>1. Len(accepted) \in Nat /\ Len(workloads) \in Nat
    BY <1>2
  <2>2. CASE r.id \in NamedByV2
    BY <1>2, <1>4, <1>5, <2>1, <2>2
  <2>3. CASE r.id \notin NamedByV2
    BY <1>2, <1>4, <1>5, <2>1, <2>3
  <2> QED
    BY <2>2, <2>3
<1> QED
  BY <1>2, <1>4, <1>5, <1>6 DEF ListsKept

\* Reading a file adds at most a record.
LEMMA ReadingPreserves == IInv /\ (PassOver \/ ReadV2 \/ ReadV1) => IInv'
<1> SUFFICES ASSUME IInv, PassOver \/ ReadV2 \/ ReadV1 PROVE IInv'
  OBVIOUS
<1>1. phase \in {"v2", "v1"}
  BY DEF PassOver, ReadV2, ReadV1, IInv, TypeOK
<1>2. PICK name : Take(name)
  BY DEF PassOver, ReadV2, ReadV1
<1>3. /\ name \in unread /\ unread' \subseteq unread
      /\ budget' \in 0..MaxEntries
      /\ issues' = cut' + IF Cardinality(unread') > budget' THEN 1 ELSE 0
      /\ UNCHANGED <<phase, now, cut, exported, tensix, sysfs, issues>>
  BY <1>1, <1>2, TakeUsesBudget
<1>4. ListsKept'
  BY PassOverKeepsLists, ReadV2KeepsLists, ReadV1KeepsLists
<1>5. TypeOK'
  BY <1>3, <1>4 DEF IInv, TypeOK, ListsKept
<1>6. ScanInProgress'
  BY <1>1, <1>3, <1>4 DEF IInv, ScanInProgress, ListsKept
<1>7. ProfilerCountsAgree'
  BY <1>3 DEF IInv, ProfilerCountsAgree
<1> QED
  BY <1>5, <1>6, <1>7 DEF IInv

\* The second scan starts with a budget of its own; what the first has left is counted.
LEMMA OpenV1Preserves == IInv /\ OpenV1 => IInv'
<1> SUFFICES ASSUME IInv, OpenV1 PROVE IInv'
  OBVIOUS
<1>1. /\ phase = "v2" /\ phase' = "v1" /\ unread' \in {{}, Legacy} /\ budget' = MaxEntries
      /\ cut' = cut + LeftUnread /\ issues' = issues + Cut(unread')
      /\ UNCHANGED <<now, workloads, identities, accepted, exported, tensix, sysfs>>
  BY DEF OpenV1
<1>2. IsFiniteSet(unread')
  BY <1>1, IngestAssumption, FS_EmptySet DEF IngestAssumption
<1>3. Cardinality(unread') \in Nat /\ Cut(unread') \in Nat
  BY <1>2, CutIsNumber
<1>4. issues \in Nat /\ cut \in Nat /\ MaxEntries \in Nat
  BY IngestAssumption DEF IngestAssumption, IInv, TypeOK
<1>5. LeftUnread \in Nat
  BY DEF LeftUnread
<1>6. TypeOK'
  BY <1>1, <1>3, <1>4, <1>5 DEF IInv, TypeOK
<1>7. issues' = cut' + IF Cardinality(unread') > budget' THEN 1 ELSE 0
  <2>1. issues = cut + LeftUnread
    BY <1>1, ScanEnds DEF IInv, ScanInProgress, OpenV1
  <2>2. Cut(unread') = IF Cardinality(unread') > budget' THEN 1 ELSE 0
    BY <1>1 DEF Cut
  <2> QED
    BY <1>1, <1>4, <1>5, <2>1, <2>2
<1>8. NamedByV2' = NamedByV2 /\ Superseded' = Superseded
  BY <1>1 DEF NamedByV2, Superseded
<1>9. ScanInProgress'
  BY <1>1, <1>7, <1>8 DEF IInv, ScanInProgress
<1>10. ProfilerCountsAgree'
  BY <1>1 DEF IInv, ProfilerCountsAgree
<1> QED
  BY <1>6, <1>9, <1>10 DEF IInv

\* What the merge makes of the list depends on nothing else.
LEMMA MergeReadsTheList == workloads' = workloads => Export' = Export /\ Loss' = Loss
BY DEF Export, Loss, Sorted, Capped, Unique, Ranked, Rank, Before

\* The merge counts its losses on top of those of the scans.
LEMMA FinishPreserves == IInv /\ Finish => IInv'
<1> SUFFICES ASSUME IInv, Finish PROVE IInv'
  OBVIOUS
<1>1. /\ phase = "v1" /\ Scanned /\ phase' = "done" /\ cut' = cut + LeftUnread
      /\ exported' = Export /\ issues' = issues + Loss /\ tensix' = Filled(Export)
      /\ UNCHANGED <<now, unread, budget, workloads, identities, accepted, sysfs>>
  BY DEF Finish
<1>2. /\ workloads \in Seq(Records) /\ issues \in Nat /\ cut \in Nat
      /\ tensix \in Tensix /\ tensix = sysfs
  BY <1>1 DEF IInv, TypeOK, ScanInProgress
<1>3. Loss \in Nat
  <2>1. Unique \in SUBSET Positions
    BY <1>2, FirstOfEveryIdentity
  <2>2. /\ Cardinality(Unique) \in Nat /\ Cardinality(Unique) <= Len(workloads)
        /\ Len(workloads) \in Nat
    BY <1>2, <2>1, RankFollowsOrder, PositionsAreFinite, FS_Subset
  <2> QED
    BY <2>2 DEF Loss
<1>4. Export \in Seq(Records)
  BY <1>2, ExportedList
<1>5. LeftUnread \in Nat
  BY DEF LeftUnread
<1>6. TypeOK'
  BY <1>1, <1>2, <1>3, <1>4, <1>5, FilledCountsAgree DEF IInv, TypeOK
<1>7. issues' = Loss + cut'
  <2>1. issues = cut + LeftUnread
    BY <1>1, ScanEnds DEF IInv, ScanInProgress
  <2> QED
    BY <1>1, <1>2, <1>3, <1>5, <2>1
<1>8. NamedByV2' = NamedByV2 /\ Superseded' = Superseded
  BY <1>1 DEF NamedByV2, Superseded
<1>9. ScanInProgress'
  <2>1. Export' = Export /\ Loss' = Loss
    BY <1>1, MergeReadsTheList
  <2>2. identities' = NamedByV2' /\ Len(workloads') = Len(accepted') - Cardinality(Superseded')
    BY <1>1, <1>8 DEF IInv, ScanInProgress
  <2> QED
    BY <1>1, <1>7, <2>1, <2>2 DEF ScanInProgress
<1>10. ProfilerCountsAgree'
  BY <1>1, <1>2, <1>4, FilledCountsAgree DEF ProfilerCountsAgree
<1> QED
  BY <1>6, <1>9, <1>10 DEF IInv

\* What was read is not judged again.
LEMMA TickPreserves == IInv /\ (Tick \/ UNCHANGED vars) => IInv'
<1> SUFFICES ASSUME IInv, Tick \/ UNCHANGED vars PROVE IInv'
  OBVIOUS
<1>1. UNCHANGED <<phase, unread, budget, workloads, identities, accepted, cut, exported, tensix,
                  sysfs, issues>>
  BY DEF Tick, vars
<1>2. now' \in Start..Horizon
  <2>1. Start \in Nat /\ Horizon \in Nat /\ now \in Start..Horizon
    BY IngestAssumption DEF IngestAssumption, IInv, TypeOK
  <2> QED
    BY <2>1 DEF Tick, vars
<1>3. TypeOK'
  BY <1>1, <1>2 DEF IInv, TypeOK
<1>4. Export' = Export /\ Loss' = Loss
  BY <1>1, MergeReadsTheList
<1>5. NamedByV2' = NamedByV2 /\ Superseded' = Superseded
  BY <1>1 DEF NamedByV2, Superseded
<1>6. ScanInProgress'
  BY <1>1, <1>4, <1>5 DEF IInv, ScanInProgress
<1>7. ProfilerCountsAgree'
  BY <1>1 DEF IInv, ProfilerCountsAgree
<1> QED
  BY <1>3, <1>6, <1>7 DEF IInv
-----------------------------------------------------------------------------
(* The theorems.                                                           *)

\* Every reachable state satisfies the inductive invariant.
THEOREM Invariance == Spec => []IInv
<1>1. IInv /\ [Next]_vars => IInv'
  BY ReadingPreserves, OpenV1Preserves, FinishPreserves, TickPreserves DEF Next
<1> QED
  BY <1>1, InitEstablishes, PTL DEF Spec

\* In particular, every count that is filled in is a number or absent.
THEOREM TypeCorrect == Spec => []TypeOK
<1>1. IInv => TypeOK
  BY DEF IInv
<1> QED
  BY <1>1, Invariance, PTL

\* However many records a scan reads, and in whatever order: one series per identity, and
\* for each the freshest record (the reduction in _read_workloads).
THEOREM OneFreshRecordEach == Spec => []ExportIsFreshest
<1>1. IInv => ExportIsFreshest
  <2> SUFFICES ASSUME IInv PROVE ExportIsFreshest
    OBVIOUS
  <2>1. CASE phase = "done"
    BY <2>1, ExportHoldsFreshest DEF IInv, TypeOK, ScanInProgress
  <2>2. CASE phase # "done"
    <3>1. exported = <<>> /\ DOMAIN exported = {} /\ Range(exported) = {}
      BY <2>2 DEF IInv, ScanInProgress, Range
    <3> QED
      BY <3>1 DEF ExportIsFreshest
  <2> QED
    BY <2>1, <2>2
<1> QED
  BY <1>1, Invariance, PTL

\* Whatever the limit, what it leaves out is no better than what it keeps.
THEOREM CutIsTheWorst == Spec => []LimitKeepsTheBest
<1>1. IInv => LimitKeepsTheBest
  <2>1. phase = "done" /\ IInv => LimitKeepsTheBest
    BY ExportHoldsTheBest DEF IInv, TypeOK, ScanInProgress
  <2>2. phase # "done" => LimitKeepsTheBest
    BY DEF LimitKeepsTheBest
  <2> QED
    BY <2>1, <2>2
<1> QED
  BY <1>1, Invariance, PTL

\* For any directories and any limits, the issues account exactly for the accepted records
\* that are not exported, but for v1 records a v2 file supersedes, and for both cut scans.
THEOREM NoSilentLoss == Spec => []LossIsCounted
<1>1. IInv => LossIsCounted
  <2> DEFINE readIds == {r.id : r \in Range(workloads)}
  <2> SUFFICES ASSUME IInv, phase = "done"
               PROVE  issues = ((Len(accepted) - Cardinality(Superseded)) - Cardinality(readIds))
                                 + (IF Cardinality(readIds) > Len(exported) THEN 1 ELSE 0) + cut
    BY DEF LossIsCounted
  <2>1. /\ workloads \in Seq(Records) /\ exported = Export /\ issues = Loss + cut
        /\ Len(workloads) = Len(accepted) - Cardinality(Superseded)
    BY DEF IInv, TypeOK, ScanInProgress
  <2>2. /\ Cardinality(readIds) = Cardinality(Unique) /\ Cardinality(Unique) \in Nat
        /\ Len(workloads) \in Nat /\ MaxWorkloads \in Nat
    BY <2>1, UniqueCountsIdentities, FirstOfEveryIdentity, RankFollowsOrder, PositionsAreFinite,
       IngestAssumption DEF IngestAssumption
  <2>3. Cardinality(readIds) > Len(exported) <=> Cardinality(Unique) > MaxWorkloads
    BY <2>1, <2>2, ExportedList
  <2> HIDE DEF readIds
  <2> QED
    BY <2>1, <2>2, <2>3 DEF Loss
<1> QED
  BY <1>1, Invariance, PTL

\* Whatever workloads report of themselves, counts that come from the profiler alone agree.
THEOREM CountsAgree == Spec => []ProfilerCountsAgree
<1>1. IInv => ProfilerCountsAgree
  BY DEF IInv
<1> QED
  BY <1>1, Invariance, PTL
=============================================================================
