----------------------------- MODULE DeviceProofs -----------------------------
(***************************************************************************)
(* Proofs about DeviceCollection and DevicePage: for any root and any      *)
(* files, whatever each of them comes to, and a device that may go away    *)
(* between any two reads.                                                  *)
(***************************************************************************)
EXTENDS DevicePage, FiniteSetTheorems, NaturalsInduction, WellFoundedInduction, TLAPS

(***************************************************************************)
(* The plan.                                                               *)
(***************************************************************************)

\* The steps of the plan are numbered from 1, and the last one is a rule.
LEMMA PlanIsList ==
  /\ Len(Plan) \in Nat \ {0} /\ DOMAIN Plan = 1..Len(Plan)
  /\ \A i \in DOMAIN Plan :
       /\ Plan[i] \in [field : STRING, readers : Seq(DOMAIN Outcomes)]
       /\ Len(Plan[i].readers) \in 0..6
       /\ DOMAIN Plan[i].readers = 1..Len(Plan[i].readers)
       /\ Plan[i].readers = <<>> <=> Len(Plan[i].readers) = 0
  /\ Plan[Len(Plan)].field = "state" /\ Plan[Len(Plan)].readers = <<>>
<1> DEFINE steps == [field : STRING, readers : Seq(DOMAIN Outcomes)]
<1>1. Plan \in Seq(steps) /\ Plan # <<>>
  BY PlanAssumption DEF PlanAssumption
<1>2. Len(Plan) \in Nat /\ DOMAIN Plan = 1..Len(Plan) /\ \A i \in DOMAIN Plan : Plan[i] \in steps
  <2> HIDE DEF steps
  <2> QED
    BY <1>1
<1>3. Len(Plan) # 0
  <2> HIDE DEF steps
  <2> QED
    BY <1>1
<1>4. ASSUME NEW i \in DOMAIN Plan
      PROVE  /\ Len(Plan[i].readers) \in 0..6
             /\ DOMAIN Plan[i].readers = 1..Len(Plan[i].readers)
             /\ Plan[i].readers = <<>> <=> Len(Plan[i].readers) = 0
  <2>1. Plan[i].readers \in Seq(DOMAIN Outcomes)
    BY <1>2
  <2>2. Len(Plan[i].readers) <= 6
    BY PlanAssumption DEF PlanAssumption
  <2> DEFINE r == Plan[i].readers
  <2>3. r \in Seq(DOMAIN Outcomes) /\ Len(r) <= 6
    BY <2>1, <2>2
  <2> HIDE DEF r
  <2>4. Len(r) \in Nat /\ DOMAIN r = 1..Len(r)
    BY <2>3
  <2>5. Len(r) \in 0..6
    BY <2>3, <2>4
  <2>6. r = <<>> <=> Len(r) = 0
    BY <2>3
  <2> QED
    BY <2>4, <2>5, <2>6 DEF r
<1>5. Plan[Len(Plan)].field = "state" /\ Plan[Len(Plan)].readers = <<>>
  BY PlanAssumption DEF PlanAssumption, Rule, Chain
<1> QED
  BY <1>2, <1>3, <1>4, <1>5

RuleFields == {"board", "architecture_of_id", "sensors", "resources", "counters", "usage",
               "mesh", "source", "links", "state"}
StepFields == ReadFields \cup RuleFields

\* Every field of the plan is found at its place, and only there.
LEMMA PlaceOfStep ==
  /\ \A i \in DOMAIN Plan : Plan[i].field \in StepFields /\ Place[Plan[i].field] = i
  /\ \A f \in StepFields : Place[f] \in DOMAIN Plan /\ Plan[Place[f]].field = f
<1>1. StepFields = {step.field : step \in Range(Plan)}
  <2>1. RuleFields = {step.field : step \in {s \in Range(Plan) : s.readers = <<>>}}
    BY PlanAssumption DEF PlanAssumption, RuleFields
  <2> QED
    BY <2>1 DEF StepFields, ReadFields
<1>2. ASSUME NEW f \in StepFields PROVE Place[f] \in DOMAIN Plan /\ Plan[Place[f]].field = f
  <2>1. PICK i \in DOMAIN Plan : Plan[i].field = f
    BY <1>1 DEF Range
  <2>2. Place[f] = CHOOSE k \in DOMAIN Plan : Plan[k].field = f
    BY <1>1 DEF Place
  <2> QED
    BY <2>1, <2>2
<1>3. ASSUME NEW i \in DOMAIN Plan PROVE Plan[i].field \in StepFields /\ Place[Plan[i].field] = i
  <2>1. Plan[i].field \in StepFields
    BY <1>1 DEF Range
  <2> QED
    BY <2>1, <1>2, PlanAssumption DEF PlanAssumption
<1> QED
  BY <1>2, <1>3

\* Steps with readers are for fields that are read, the others are the rules.
LEMMA ReadOrRule ==
  /\ ReadFields \cap RuleFields = {}
  /\ \A i \in DOMAIN Plan : /\ Plan[i].readers # <<>> => Plan[i].field \in ReadFields
                            /\ Plan[i].readers = <<>> => Plan[i].field \in RuleFields
<1>1. RuleFields = {step.field : step \in {s \in Range(Plan) : s.readers = <<>>}}
  BY PlanAssumption DEF PlanAssumption, RuleFields
<1>2. ASSUME NEW i \in DOMAIN Plan
      PROVE  /\ Plan[i].readers # <<>> => Plan[i].field \in ReadFields
             /\ Plan[i].readers = <<>> => Plan[i].field \in RuleFields
  <2>1. Plan[i] \in Range(Plan)
    BY DEF Range
  <2> QED
    BY <2>1, <1>1 DEF ReadFields
<1>3. ASSUME NEW f \in ReadFields, f \in RuleFields PROVE FALSE
  <2>1. PICK i \in DOMAIN Plan : Plan[i].field = f /\ Plan[i].readers # <<>>
    BY DEF ReadFields, Range
  <2>2. PICK k \in DOMAIN Plan : Plan[k].field = f /\ Plan[k].readers = <<>>
    BY <1>1, <1>3 DEF Range
  <2> QED
    BY <2>1, <2>2, PlaceOfStep
<1> QED
  BY <1>2, <1>3

\* The fields of a record: those that are read, those of the state directories, and the
\* source of the counts.
LEMMA RecordFields ==
  /\ DOMAIN Blank = Fields \cup Texts /\ ReadFields \subseteq DOMAIN Blank
  /\ Texts \subseteq ReadFields /\ TensixCounts \subseteq ReadFields /\ "source" \in DOMAIN Blank
  /\ ReadFields \cap (FromState \cup {"source"}) = {}
  /\ TensixNumbers \cup TensixLabels \subseteq ReadFields
<1> USE PlanAssumption DEF PlanAssumption
<1>1. DOMAIN Blank = Fields \cup Texts
  BY DEF Blank
<1>2. Texts \cap (FromState \cup {"source"}) = {}
  BY DEF Texts, FromState, Allocation, JanitorLabels, JanitorNumbers
<1>3. ReadFields = (Fields \ ({"source"} \cup FromState)) \cup Texts
  OBVIOUS
<1>4. TensixNumbers \cup TensixLabels \subseteq Fields /\ "source" \in Fields
  BY DEF Fields
<1>5. (TensixNumbers \cup TensixLabels) \cap (FromState \cup {"source"}) = {}
  BY DEF TensixNumbers, TensixLabels, TensixCounts, FromState, Allocation, JanitorLabels, JanitorNumbers
<1>6. TensixCounts \subseteq TensixNumbers
  BY DEF TensixNumbers
<1> HIDE PlanAssumption DEF PlanAssumption
<1> QED
  BY <1>1, <1>2, <1>3, <1>4, <1>5, <1>6

\* A set of numbers that is not empty has a least one.
LEMMA MinOfNumbers ==
  ASSUME NEW T \in SUBSET Nat, T # {}
  PROVE  Min(T) \in T /\ \A m \in T : Min(T) <= m
<1> DEFINE less == {ss \in Nat \X Nat : ss[1] < ss[2]}
<1>1. IsWellFoundedOn(less, Nat)
  <2>1. OpToRel(<, Nat) = less
    BY Zenon DEF OpToRel
  <2> QED
    BY <2>1, NatLessThanWellFounded
<1>2. T \subseteq Nat /\ T # {}
  OBVIOUS
<1>3. \A m, n \in Nat : ~ (<<m, n>> \in less) => n <= m
  OBVIOUS
<1> HIDE DEF less
<1>4. PICK n \in T : \A m \in T : ~ (<<m, n>> \in less)
  BY <1>1, <1>2, WFMin
<1>5. \A m \in T : n <= m
  BY <1>2, <1>3, <1>4
<1> QED
  BY <1>5 DEF Min

LEMMA MaxOfOneAnd ==
  ASSUME NEW n \in Nat
  PROVE  /\ Max({1, n}) \in Nat /\ Max({1, n}) >= 1 /\ Max({1, n}) >= n
         /\ n >= 1 => Max({1, n}) = n
<1>1. \E x \in {1, n} : \A y \in {1, n} : x >= y
  <2>1. 1 >= n \/ n >= 1
    OBVIOUS
  <2> QED
    BY <2>1
<1>2. Max({1, n}) \in {1, n} /\ \A y \in {1, n} : Max({1, n}) >= y
  BY <1>1 DEF Max
<1> QED
  BY <1>2

\* The next step is one behind, and what is passed over are fields without a file.
LEMMA NextStep ==
  ASSUME NEW i \in 0..(Len(Plan) - 1)
  PROVE  /\ StepAfter(i) \in DOMAIN Plan /\ i < StepAfter(i)
         /\ \A j \in DOMAIN Plan : i < j /\ j < StepAfter(i) =>
              Plan[j].readers # <<>> /\ \A f \in node.files : f[1] # Plan[j].field
<1> DEFINE candidates == {j \in i + 1 .. Len(Plan) : \/ Plan[j].readers = <<>>
                                                     \/ \E f \in node.files : f[1] = Plan[j].field}
<1>1. Len(Plan) \in candidates /\ candidates \in SUBSET Nat
  BY PlanIsList
<1>2. StepAfter(i) = Min(candidates)
  BY DEF StepAfter
<1>3. StepAfter(i) \in candidates /\ \A m \in candidates : StepAfter(i) <= m
  <2> HIDE DEF candidates
  <2> QED
    BY <1>1, <1>2, MinOfNumbers
<1>4. StepAfter(i) \in i + 1 .. Len(Plan)
  BY <1>3
<1>5. ASSUME NEW j \in DOMAIN Plan, i < j, j < StepAfter(i), j \in candidates PROVE FALSE
  <2>1. j \in Nat /\ StepAfter(i) \in Nat /\ StepAfter(i) <= j
    BY <1>3, <1>4, <1>5, PlanIsList
  <2> QED
    BY <1>5, <2>1
<1>6. \A j \in DOMAIN Plan : i < j => j \in i + 1 .. Len(Plan)
  BY PlanIsList
<1> QED
  BY <1>4, <1>5, <1>6, PlanIsList
-----------------------------------------------------------------------------
(***************************************************************************)
(* The scan of the root.                                                   *)
(***************************************************************************)

\* The end of the scan sorts: every place of the list is taken by the name with as many
\* smaller ones before it.
LEMMA SortedDevices ==
  ASSUME NEW S \in SUBSET Nat, NEW s \in Seq(S), IsInjective(s)
  PROVE  /\ Ascending(s) \in Seq(S) /\ Range(Ascending(s)) = Range(s)
         /\ \A i, j \in DOMAIN Ascending(s) : i < j => Ascending(s)[i] < Ascending(s)[j]
<1> DEFINE D == 1..Len(s)
           T == Range(s)
           ranks == 0..(Len(s) - 1)
           smaller(x) == {y \in T : y < x}
           rank == [x \in T |-> Cardinality(smaller(x))]
<1>1. Len(s) \in Nat /\ DOMAIN s = D /\ T = {s[i] : i \in D} /\ T \subseteq S /\ T \subseteq Nat
      /\ s \in [D -> T]
  BY DEF Range
<1>2. IsFiniteSet(T) /\ Cardinality(T) = Len(s)
  <2>1. s \in Bijection(D, T)
    BY <1>1 DEF Bijection, Surjection, Injection, IsInjective
  <2>2. IsFiniteSet(D) /\ Cardinality(D) = Len(s)
    BY <1>1, FS_Interval
  <2> HIDE DEF D, T
  <2> QED
    BY <2>1, <2>2, FS_Bijection DEF ExistsBijection
<1>3. \A x \in T : smaller(x) \in SUBSET T /\ smaller(x) # T
  <2> HIDE DEF T
  <2>1. \A x \in T : x \notin smaller(x)
    BY <1>1
  <2> QED
    BY <2>1
<1>4. IsFiniteSet(ranks) /\ Cardinality(ranks) = Len(s)
  <2>1. Len(s) - 1 \in Int /\ 0 \in Int
    BY <1>1
  <2>2. IsFiniteSet(ranks) /\ Cardinality(ranks) = IF 0 > Len(s) - 1 THEN 0 ELSE (Len(s) - 1) - 0 + 1
    BY <2>1, FS_Interval
  <2> QED
    BY <1>1, <2>2
<1>5. \A x \in T : IsFiniteSet(smaller(x)) /\ Cardinality(smaller(x)) \in ranks
  <2> TAKE x \in T
  <2>1. /\ IsFiniteSet(smaller(x)) /\ Cardinality(smaller(x)) \in Nat
        /\ Cardinality(smaller(x)) <= Len(s) /\ Cardinality(smaller(x)) # Len(s)
    <3>1. smaller(x) \in SUBSET T /\ smaller(x) # T
      BY <1>3
    <3> HIDE DEF smaller, T
    <3> QED
      BY <1>2, <3>1, FS_Subset, FS_CardinalityType
  <2> HIDE DEF smaller
  <2> QED
    BY <1>1, <2>1
<1>6. ASSUME NEW x \in T, NEW y \in T, x < y PROVE rank[x] < rank[y]
  <2>1. smaller(x) \in SUBSET smaller(y) /\ x \in smaller(y) /\ x \notin smaller(x)
    <3> HIDE DEF T
    <3>1. x \in Nat /\ y \in Nat /\ \A z \in T : z \in Nat
      BY <1>1
    <3>2. \A z \in T : z < x => z < y
      BY <1>6, <3>1
    <3>3. ~ (x < x)
      BY <3>1
    <3> QED
      BY <1>6, <3>2, <3>3
  <2>2. IsFiniteSet(smaller(y))
    BY <1>5
  <2>3. Cardinality(smaller(x)) <= Cardinality(smaller(y))
        /\ Cardinality(smaller(x)) # Cardinality(smaller(y))
    <3> HIDE DEF smaller
    <3> QED
      BY <2>1, <2>2, FS_Subset
  <2>4. Cardinality(smaller(x)) \in Nat /\ Cardinality(smaller(y)) \in Nat
    <3>1. Cardinality(smaller(x)) \in ranks /\ Cardinality(smaller(y)) \in ranks
      BY <1>5
    <3> HIDE DEF smaller
    <3> QED
      BY <1>1, <3>1
  <2>5. rank[x] = Cardinality(smaller(x)) /\ rank[y] = Cardinality(smaller(y))
    OBVIOUS
  <2> HIDE DEF smaller, rank
  <2> QED
    BY <2>3, <2>4, <2>5
<1>7. rank \in [T -> ranks] /\ \A x \in T : rank[x] = Cardinality(smaller(x))
  BY <1>5
<1>8. \A k \in D : Ascending(s)[k] = CHOOSE x \in T : rank[x] = k - 1
  BY <1>1 DEF Ascending
<1> HIDE DEF rank, smaller
<1>9. \A x, y \in T : rank[x] = rank[y] => x = y
  <2> SUFFICES ASSUME NEW x \in T, NEW y \in T, rank[x] = rank[y], x # y PROVE FALSE
    OBVIOUS
  <2>1. x \in Nat /\ y \in Nat
    BY <1>1
  <2>2. rank[x] \in Nat /\ rank[y] \in Nat
    BY <1>1, <1>7
  <2> QED
    BY <1>6, <2>1, <2>2
<1>10. rank \in Surjection(T, ranks)
  <2>1. rank \in Injection(T, ranks)
    BY <1>7, <1>9 DEF Injection, IsInjective
  <2> HIDE DEF T, ranks
  <2> QED
    BY <1>2, <1>4, <2>1, FS_Injection
<1>11. ASSUME NEW k \in D PROVE Ascending(s)[k] \in T /\ rank[Ascending(s)[k]] = k - 1
  <2>1. k - 1 \in ranks
    BY <1>1
  <2>2. \E x \in T : rank[x] = k - 1
    BY <1>10, <2>1 DEF Surjection
  <2> QED
    BY <1>8, <2>2
<1>12. DOMAIN Ascending(s) = D /\ Ascending(s) = [k \in D |-> Ascending(s)[k]]
  <2>1. Ascending(s) = [k \in DOMAIN s |-> CHOOSE x \in Range(s) : Cardinality({y \in Range(s) : y < x}) = k - 1]
    BY Zenon DEF Ascending
  <2> HIDE DEF D, T
  <2>2. DOMAIN Ascending(s) = D
    BY <1>1, <2>1
  <2> QED
    BY <2>1, <2>2
<1>13. ASSUME NEW i \in D, NEW j \in D, i < j PROVE Ascending(s)[i] < Ascending(s)[j]
  <2> DEFINE a == Ascending(s)[i]
             b == Ascending(s)[j]
  <2>1. a \in T /\ b \in T /\ rank[a] = i - 1 /\ rank[b] = j - 1
    BY <1>11
  <2> HIDE DEF a, b
  <2>2. a \in Nat /\ b \in Nat /\ i \in Nat /\ j \in Nat
    BY <1>1, <2>1
  <2>3. a # b
    BY <1>13, <2>1, <2>2
  <2>4. ~ (b < a)
    <3> SUFFICES ASSUME b < a PROVE FALSE
      OBVIOUS
    <3>1. rank[b] < rank[a]
      BY <1>6, <2>1
    <3> QED
      BY <1>13, <2>1, <2>2, <3>1
  <2>5. a < b
    BY <2>2, <2>3, <2>4
  <2> QED
    BY <2>5 DEF a, b
<1>14. ASSUME NEW x \in T PROVE \E k \in D : Ascending(s)[k] = x
  <2>1. rank[x] \in ranks
    BY <1>7
  <2>2. rank[x] + 1 \in D /\ (rank[x] + 1) - 1 = rank[x]
    BY <1>1, <2>1
  <2>3. Ascending(s)[rank[x] + 1] = x
    BY <1>9, <1>11, <2>2
  <2> QED
    BY <2>2, <2>3
<1>15. Ascending(s) \in Seq(S)
  BY <1>1, <1>11, <1>12
<1>16. Range(Ascending(s)) = T
  BY <1>11, <1>12, <1>14 DEF Range
<1> QED
  BY <1>12, <1>13, <1>15, <1>16
-----------------------------------------------------------------------------
\* A step while a device is read, with a rule of the plan or without; the last rule, the
\* state directories, is not one of these.
RuleInPlan ==
  \/ NameBoard \/ InferArchitecture \/ ListSensors \/ ListResources \/ ListCounters
  \/ ParseUsage \/ ParseMesh \/ NameSource \/ ListLinks

LEMMA RulesOfPlan == RuleStep <=> RuleInPlan \/ PopulateState
  BY Zenon DEF RuleStep, RuleInPlan

\* What is alike in all these steps.
ReadingStep ==
  /\ phase = "device" /\ UNCHANGED frame
  /\ \/ at # Len(Plan) /\ Advance
     \/ name < Len(Step.readers) /\ name' = name + 1 /\ UNCHANGED at
  /\ DOMAIN record' = DOMAIN record
  /\ issues' \in Nat /\ (issues' = 0 => issues = 0)

\* A step for a field that is read, or for a rule but the last.
LEMMA NotTheLast ==
  ASSUME at \in DOMAIN Plan,
         Step.readers # <<>> \/ Step.field # "state"
  PROVE  at # Len(Plan)
  BY PlanIsList DEF Step

LEMMA ListingIsReading ==
  ASSUME TypeOK, NEW rule, rule # "state", NEW enabled, NEW candidates, NEW damage,
         IsFiniteSet(candidates), Listing(rule, enabled, candidates, damage)
  PROVE  ReadingStep /\ UNCHANGED record
<1>1. Apply(rule) /\ UNCHANGED record
  BY DEF Listing
<1>2. at # Len(Plan)
  BY <1>1, NotTheLast DEF Apply, InDevice, TypeOK
<1>3. issues' \in Nat /\ (issues' = 0 => issues = 0)
  <2> DEFINE entries == IF enabled /\ Here /\ rule \in node.lists THEN candidates ELSE {}
  <2>1. \E found \in SUBSET entries :
          \E damaged \in SUBSET {e \in entries : (IF e \in found THEN "listed" ELSE "left out") \in damage} :
            issues' = issues + Cardinality(damaged)
    BY DEF Listing
  <2>2. entries \subseteq candidates
    OBVIOUS
  <2> HIDE DEF entries
  <2>3. PICK damaged \in SUBSET candidates : issues' = issues + Cardinality(damaged)
    BY <2>1, <2>2
  <2>4. Cardinality(damaged) \in Nat
    BY <2>3, FS_Subset, FS_CardinalityType
  <2>5. issues \in Nat
    BY DEF TypeOK
  <2> QED
    BY <2>3, <2>4, <2>5
<1> QED
  BY <1>1, <1>2, <1>3 DEF ReadingStep, Apply, InDevice

LEMMA RuleIsReading == TypeOK /\ RuleInPlan => ReadingStep
<1> SUFFICES ASSUME TypeOK, RuleInPlan PROVE ReadingStep
  OBVIOUS
<1> USE DEF TypeOK, ReadingStep, Apply, InDevice
<1>1. CASE NameBoard
  BY <1>1, NotTheLast DEF NameBoard
<1>2. CASE InferArchitecture
  BY <1>2, NotTheLast DEF InferArchitecture
<1>3. CASE ListSensors
  BY <1>3, ListingIsReading, NodesAssumption DEF ListSensors, NodesAssumption
<1>4. CASE ListResources
  BY <1>4, NotTheLast DEF ListResources
<1>5. CASE ListCounters
  <2> DEFINE counters == {s \in Sensors : s.base = 1}
  <2>1. counters \in SUBSET Sensors /\ IsFiniteSet(Sensors)
    BY NodesAssumption DEF NodesAssumption
  <2>2. IsFiniteSet(counters)
    BY <2>1, FS_Subset
  <2> QED
    BY <1>5, <2>2, ListingIsReading DEF ListCounters
<1>6. CASE ParseUsage
  BY <1>6, NotTheLast DEF ParseUsage
<1>7. CASE ParseMesh
  BY <1>7, NotTheLast DEF ParseMesh
<1>8. CASE NameSource
  BY <1>8, NotTheLast DEF NameSource
<1>9. CASE ListLinks
  BY <1>9, ListingIsReading, NodesAssumption DEF ListLinks, NodesAssumption
<1> QED
  BY <1>1, <1>2, <1>3, <1>4, <1>5, <1>6, <1>7, <1>8, <1>9 DEF RuleInPlan

LEMMA PassIsReading == TypeOK /\ PassAttribute => ReadingStep /\ UNCHANGED record
  BY NotTheLast DEF PassAttribute, TypeOK, ReadingStep

LEMMA NameIsReading == TypeOK /\ ReadName => ReadingStep
<1> SUFFICES ASSUME TypeOK, ReadName PROVE ReadingStep
  OBVIOUS
<1>1. at # Len(Plan) /\ at \in DOMAIN Plan
  BY NotTheLast DEF ReadName, TypeOK
<1>2. Advance \/ (name' = name + 1 /\ UNCHANGED at /\ name # Len(Step.readers))
  BY DEF ReadName
<1>3. name \in 1..Len(Step.readers) /\ Len(Step.readers) \in Nat
  <2>1. name \in 1..Max({1, Len(Step.readers)}) /\ Len(Step.readers) \in Nat \ {0}
    BY <1>1, PlanIsList DEF ReadName, TypeOK, Step
  <2> QED
    BY <2>1, MaxOfOneAnd
<1>4. issues' \in Nat /\ (issues' = 0 => issues = 0)
  <2>1. issues \in Nat /\ (issues' = issues + 1 \/ issues' = issues + 0)
    BY DEF ReadName, TypeOK
  <2> QED
    BY <2>1
<1>5. DOMAIN record' = DOMAIN record
  <2> DEFINE outcome == Read(<<Step.field, name>>)
  <2>1. record' = IF Gives(outcome) THEN [record EXCEPT ![Step.field] = Origin(outcome, name)] ELSE record
    BY DEF ReadName
  <2> QED
    BY <2>1
<1> QED
  BY <1>1, <1>2, <1>3, <1>4, <1>5 DEF ReadName, ReadingStep

\* Every entry of the root is looked at once.
LEMMA InitScans == Init => TypeOK /\ ScanInProgress /\ ScanAccounting
<1> SUFFICES ASSUME Init PROVE TypeOK /\ ScanInProgress /\ ScanAccounting
  OBVIOUS
<1>1. devices \in Seq(node.directories) /\ Range(devices) = {}
  BY DEF Init, Range
<1> QED
  BY <1>1 DEF Init, TypeOK, ScanInProgress, ScanAccounting

\* Reading a device is no concern of the scan.
LEMMA ReadingKeepsScan ==
  TypeOK /\ ScanInProgress /\ ReadingStep => (TypeOK /\ ScanInProgress /\ ScanAccounting)'
<1> SUFFICES ASSUME TypeOK, ScanInProgress, ReadingStep
             PROVE  (TypeOK /\ ScanInProgress /\ ScanAccounting)'
  OBVIOUS
<1>1. UNCHANGED <<phase, node, present, unseen, device, tree, critical, devices>> /\ phase = "device"
      /\ issues' \in Nat /\ DOMAIN record' = DOMAIN Blank
  BY DEF ReadingStep, frame, TypeOK
<1>2. at' \in DOMAIN Plan /\ name' \in 1..Max({1, Len(Plan[at'].readers)})
  <2>1. at \in 1..Len(Plan) /\ Len(Plan) \in Nat
    BY <1>1, PlanIsList DEF TypeOK
  <2>2. CASE at # Len(Plan) /\ Advance
    <3>1. at \in 0..(Len(Plan) - 1)
      BY <2>1, <2>2
    <3>2. at' \in DOMAIN Plan /\ name' = 1
      BY <2>2, <3>1, NextStep DEF Advance
    <3>3. Len(Plan[at'].readers) \in Nat
      BY <3>2, PlanIsList
    <3>4. Max({1, Len(Plan[at'].readers)}) \in Nat /\ Max({1, Len(Plan[at'].readers)}) >= 1
      BY <3>3, MaxOfOneAnd
    <3> QED
      BY <3>2, <3>4
  <2>3. CASE name < Len(Step.readers) /\ name' = name + 1 /\ UNCHANGED at
    <3> DEFINE n == Len(Plan[at].readers)
    <3>1. n \in Nat /\ name \in 1..Max({1, n}) /\ at' = at /\ name < n
      BY <1>1, <2>1, <2>3, PlanIsList DEF TypeOK, Step
    <3> HIDE DEF n
    <3>2. Max({1, n}) \in Nat /\ Max({1, n}) >= n
      BY <3>1, MaxOfOneAnd
    <3>3. name' \in 1..Max({1, n})
      BY <2>3, <3>1, <3>2
    <3> QED
      BY <2>1, <3>1, <3>3, PlanIsList DEF n
  <2> QED
    BY <2>2, <2>3 DEF ReadingStep
<1>3. TypeOK'
  BY <1>1, <1>2 DEF TypeOK
<1>4. ScanInProgress' /\ ScanAccounting'
  BY <1>1 DEF ScanInProgress, ScanAccounting
<1> QED
  BY <1>3, <1>4

LEMMA BeginKeepsScan ==
  TypeOK /\ ScanInProgress /\ BeginDevice => (TypeOK /\ ScanInProgress /\ ScanAccounting)'
<1> SUFFICES ASSUME TypeOK, ScanInProgress, BeginDevice
             PROVE  (TypeOK /\ ScanInProgress /\ ScanAccounting)'
  OBVIOUS
<1>1. /\ phase = "entries" /\ phase' = "device" /\ device' \in unseen \cap present
      /\ unseen' = unseen \ {device'}
      /\ at' = StepAfter(0) /\ name' = 1 /\ record' = Blank /\ issues' = 0
      /\ UNCHANGED <<node, present, critical, devices>>
  BY DEF BeginDevice
<1>2. at' \in DOMAIN Plan /\ name' \in 1..Max({1, Len(Plan[at'].readers)})
  <2>1. at' \in DOMAIN Plan
    BY <1>1, NextStep, PlanIsList
  <2>2. Len(Plan[at'].readers) \in Nat
    BY <2>1, PlanIsList
  <2>3. Max({1, Len(Plan[at'].readers)}) \in Nat /\ Max({1, Len(Plan[at'].readers)}) >= 1
    BY <2>2, MaxOfOneAnd
  <2> QED
    BY <1>1, <2>1, <2>3
<1>3. TypeOK'
  BY <1>1, <1>2 DEF TypeOK
<1>4. ScanInProgress' /\ ScanAccounting'
  BY <1>1 DEF ScanInProgress, ScanAccounting
<1> QED
  BY <1>3, <1>4

\* The record of a device that has been read is kept, and the device is not seen again.
LEMMA PopulateKeepsScan ==
  TypeOK /\ ScanInProgress /\ PopulateState => (TypeOK /\ ScanInProgress /\ ScanAccounting)'
<1> SUFFICES ASSUME TypeOK, ScanInProgress, PopulateState
             PROVE  (TypeOK /\ ScanInProgress /\ ScanAccounting)'
  OBVIOUS
<1>1. /\ phase = "device" /\ phase' = "entries" /\ devices' = Append(devices, device)
      /\ UNCHANGED <<node, present, unseen, device, tree, at, name, issues, critical>>
  BY DEF PopulateState, InDevice
<1>2. devices \in Seq(node.directories) /\ device \in node.directories
  BY <1>1 DEF TypeOK
<1>3. /\ devices' \in Seq(node.directories) /\ DOMAIN devices' = 1..(Len(devices) + 1)
      /\ Len(devices) \in Nat /\ DOMAIN devices = 1..Len(devices)
      /\ \A i \in DOMAIN devices : devices'[i] = devices[i]
      /\ devices'[Len(devices) + 1] = device
  BY <1>1, <1>2
<1>4. Range(devices') = Range(devices) \cup {device}
  BY <1>3 DEF Range
<1>5. IsInjective(devices')
  <2>1. \A i \in DOMAIN devices : devices[i] # device
    BY <1>1 DEF ScanInProgress, Range
  <2>2. IsInjective(devices)
    BY <1>1 DEF ScanInProgress
  <2> SUFFICES ASSUME NEW i \in DOMAIN devices', NEW j \in DOMAIN devices', devices'[i] = devices'[j]
               PROVE  i = j
    BY DEF IsInjective
  <2>3. (i \in DOMAIN devices \/ i = Len(devices) + 1) /\ (j \in DOMAIN devices \/ j = Len(devices) + 1)
    BY <1>3
  <2> QED
    BY <1>3, <2>1, <2>2, <2>3 DEF IsInjective
<1>6. TypeOK'
  BY <1>1, <1>3 DEF TypeOK
<1>7. ScanInProgress' /\ ScanAccounting'
  BY <1>1, <1>4, <1>5 DEF ScanInProgress, ScanAccounting
<1> QED
  BY <1>6, <1>7

LEMMA FinishKeepsScan ==
  TypeOK /\ ScanInProgress /\ Finish => (TypeOK /\ ScanInProgress /\ ScanAccounting)'
<1> SUFFICES ASSUME TypeOK, ScanInProgress, Finish
             PROVE  (TypeOK /\ ScanInProgress /\ ScanAccounting)'
  OBVIOUS
<1>1. /\ phase = "entries" /\ phase' = "done" /\ unseen = {} /\ devices' = Ascending(devices)
      /\ UNCHANGED <<node, present, unseen, device, tree, at, name, record, listed, issues, critical>>
  BY DEF Finish, deviceVars
<1>2. node.directories \in SUBSET Nat /\ devices \in Seq(node.directories)
  BY NodesAssumption DEF NodesAssumption, TypeOK
<1>3. critical /\ IsInjective(devices) /\ present \subseteq Range(devices)
  BY <1>1 DEF ScanInProgress
<1>4. /\ devices' \in Seq(node.directories) /\ Range(devices') = Range(devices)
      /\ \A i, j \in DOMAIN devices' : i < j => devices'[i] < devices'[j]
  BY <1>1, <1>2, <1>3, SortedDevices
<1>5. TypeOK' /\ ScanInProgress'
  BY <1>1, <1>3, <1>4 DEF TypeOK, ScanInProgress
<1>6. ScanAccounting'
  <2>1. Range(devices') \subseteq node.directories
    BY <1>4 DEF Range
  <2> QED
    BY <1>1, <1>3, <1>4, <2>1 DEF ScanAccounting
<1> QED
  BY <1>5, <1>6

\* The root is listed, or is not; an entry is passed over; a directory goes away; the
\* collection ends with an exception.
LEMMA RootKeepsScan ==
  TypeOK /\ ScanInProgress /\ ScanAccounting
    /\ (ScanFails \/ Scan \/ SkipEntry \/ Vanish \/ CollectionRaises \/ UNCHANGED vars)
  => (TypeOK /\ ScanInProgress /\ ScanAccounting)'
<1> SUFFICES ASSUME TypeOK, ScanInProgress, ScanAccounting,
                    ScanFails \/ Scan \/ SkipEntry \/ Vanish \/ CollectionRaises \/ UNCHANGED vars
             PROVE  (TypeOK /\ ScanInProgress /\ ScanAccounting)'
  OBVIOUS
<1> USE DEF deviceVars
<1>1. CASE ScanFails
  <2>1. TypeOK'
    BY <1>1 DEF ScanFails, TypeOK
  <2>2. ScanInProgress'
    BY <1>1 DEF ScanFails, ScanInProgress
  <2>3. devices = <<>> /\ ~critical /\ Range(devices) = {}
    BY <1>1 DEF ScanFails, ScanInProgress, Range
  <2> QED
    BY <1>1, <2>1, <2>2, <2>3 DEF ScanFails, ScanAccounting
<1>2. CASE Scan
  <2>1. TypeOK'
    BY <1>2, NodesAssumption DEF Scan, TypeOK, NodesAssumption
  <2>2. devices = <<>> /\ Range(devices) = {} /\ IsInjective(devices)
    BY <1>2 DEF Scan, ScanInProgress, Range, IsInjective
  <2>3. ScanInProgress'
    BY <1>2, <2>2 DEF Scan, ScanInProgress
  <2> QED
    BY <1>2, <2>1, <2>3 DEF Scan, ScanAccounting
<1>3. CASE SkipEntry
  <2>1. TypeOK'
    BY <1>3 DEF SkipEntry, TypeOK
  <2>2. ScanInProgress'
    BY <1>3 DEF SkipEntry, ScanInProgress
  <2> QED
    BY <1>3, <2>1, <2>2 DEF SkipEntry, ScanAccounting
<1>4. CASE Vanish
  <2>1. TypeOK'
    BY <1>4 DEF Vanish, TypeOK
  <2>2. ScanInProgress'
    BY <1>4 DEF Vanish, ScanInProgress
  <2> QED
    BY <1>4, <2>1, <2>2 DEF Vanish, ScanAccounting
<1>5. CASE UNCHANGED vars
  <2>1. TypeOK'
    BY <1>5 DEF vars, TypeOK
  <2> QED
    BY <1>5, <2>1 DEF vars, ScanInProgress, ScanAccounting
<1>6. CASE CollectionRaises
  <2>1. /\ phase = "device" /\ phase' = "raised"
        /\ UNCHANGED <<node, present, unseen, deviceVars, issues, critical, devices>>
    BY <1>6 DEF CollectionRaises
  <2>2. TypeOK'
    BY <2>1 DEF TypeOK
  <2> QED
    BY <2>1, <2>2 DEF ScanInProgress, ScanAccounting
<1> QED
  BY <1>1, <1>2, <1>3, <1>4, <1>5, <1>6

\* The actions, sorted by what they are for.
LEMMA Steps ==
  [Next]_vars => \/ ScanFails \/ Scan \/ SkipEntry \/ Vanish \/ UNCHANGED vars
                 \/ BeginDevice \/ PassAttribute \/ ReadName \/ RuleInPlan \/ PopulateState
                 \/ Finish \/ CollectionRaises
  BY RulesOfPlan DEF Next, Terminated

\* Types, and the scan.
THEOREM ScanInvariance == Spec => [](TypeOK /\ ScanInProgress /\ ScanAccounting)
<1>1. TypeOK /\ ScanInProgress /\ ScanAccounting /\ [Next]_vars
        => (TypeOK /\ ScanInProgress /\ ScanAccounting)'
  BY Steps, RootKeepsScan, BeginKeepsScan, FinishKeepsScan, PopulateKeepsScan, ReadingKeepsScan,
     PassIsReading, NameIsReading, RuleIsReading
<1> QED
  BY InitScans, <1>1, PTL DEF Spec

\* The step of the plan, the alternative and the record are as the reading code expects
\* them, and devices are entries of the root that are directories.
THEOREM TypeCorrect == Spec => []TypeOK
  BY ScanInvariance, PTL

\* Whatever directories vanish, and whenever: every device that stays is exported, sorted
\* and once, and a root that cannot be scanned is reported as such.
THEOREM ScanAccounts == Spec => []ScanAccounting
  BY ScanInvariance, PTL
-----------------------------------------------------------------------------
(***************************************************************************)
(* Reading one device: where the plan is.                                  *)
(***************************************************************************)

\* The step that is next has not been done, and what comes before it in the plan has.
LEMMA StepsInOrder ==
  ASSUME TypeOK, phase = "device"
  PROVE  /\ at \in DOMAIN Plan /\ Step.field \in StepFields /\ Place[Step.field] = at
         /\ \A f \in StepFields : f = Step.field <=> Place[f] = at
         /\ \A f, g \in StepFields : Before(f, g) =>
              /\ Sought(g) \/ Step.field = g => Sought(f)
              /\ Step.field = f => ~Sought(g) /\ Step.field # g
<1>1. at \in DOMAIN Plan /\ Step.field \in StepFields /\ Place[Step.field] = at
  BY PlaceOfStep DEF TypeOK, Step
<1>2. \A f \in StepFields : Place[f] \in Nat
  BY PlaceOfStep, PlanIsList
<1>3. \A f \in StepFields : f = Step.field <=> Place[f] = at
  BY <1>1, PlaceOfStep DEF Step
<1>4. at \in Nat
  BY <1>1, <1>2
<1>5. ASSUME NEW f \in StepFields, NEW g \in StepFields, Before(f, g)
      PROVE  /\ Sought(g) \/ Step.field = g => Sought(f)
             /\ Step.field = f => ~Sought(g) /\ Step.field # g
  <2>1. Place[f] \in Nat /\ Place[g] \in Nat /\ Place[f] < Place[g]
    BY <1>2, <1>5 DEF Before
  <2>2. (f = Step.field <=> Place[f] = at) /\ (g = Step.field <=> Place[g] = at)
    BY <1>3
  <2> QED
    BY <1>4, <2>1, <2>2 DEF Sought
<1> QED
  BY <1>1, <1>3, <1>5

\* What a step of reading has done afterwards: the step itself, and fields without a file.
LEMMA SoughtGrows ==
  ASSUME TypeOK, ReadingStep
  PROVE  /\ ~Sought(Step.field)
         /\ \A f \in StepFields : Sought(f) => Sought(f)'
         /\ \A f \in StepFields : Sought(f)' /\ ~Sought(f) =>
              \/ f = Step.field /\ Advance
              \/ f \in ReadFields /\ \A file \in node.files : file[1] # f
         /\ \A r \in RuleFields : r # Step.field => (Sought(r)' <=> Sought(r))
         /\ Advance => \A f \in StepFields : f = Step.field => Sought(f)'
<1>1. /\ at \in DOMAIN Plan /\ Place[Step.field] = at /\ Step.field \in StepFields
      /\ \A f \in StepFields : f = Step.field <=> Place[f] = at
  BY StepsInOrder DEF ReadingStep
<1>2. at \in 1..Len(Plan) /\ Len(Plan) \in Nat
  BY <1>1, PlanIsList
<1>3. \A f \in StepFields : Place[f] \in 1..Len(Plan) /\ Plan[Place[f]].field = f
  BY PlaceOfStep, PlanIsList
<1>4. CASE at # Len(Plan) /\ Advance
  <2>1. at \in 0..(Len(Plan) - 1)
    BY <1>2, <1>4
  <2> DEFINE next == StepAfter(at)
  <2>2. /\ next \in DOMAIN Plan /\ at < next /\ at' = next
        /\ \A j \in DOMAIN Plan : at < j /\ j < next =>
             Plan[j].readers # <<>> /\ \A f \in node.files : f[1] # Plan[j].field
    BY <1>4, <2>1, NextStep DEF Advance
  <2> HIDE DEF next
  <2>3. next \in Nat /\ at \in Nat
    BY <1>2, <2>2, PlanIsList
  <2>4. \A f \in StepFields : Sought(f) <=> Place[f] < at
    BY DEF Sought
  <2>5. \A f \in StepFields : Sought(f)' <=> Place[f] < next
    BY <2>2 DEF Sought
  <2>6. ASSUME NEW f \in StepFields, Sought(f)', ~Sought(f), f # Step.field
        PROVE  f \in ReadFields /\ \A file \in node.files : file[1] # f
    <3>1. Place[f] \in DOMAIN Plan /\ Place[f] \in Nat /\ Place[f] # at /\ Plan[Place[f]].field = f
      BY <1>1, <1>3, <2>6, PlanIsList
    <3>2. at < Place[f] /\ Place[f] < next
      BY <2>3, <2>4, <2>5, <2>6, <3>1
    <3>3. Plan[Place[f]].readers # <<>> /\ \A file \in node.files : file[1] # f
      BY <2>2, <3>1, <3>2
    <3> QED
      BY <3>1, <3>3, ReadOrRule
  <2>7. \A f \in StepFields : Sought(f) => Sought(f)'
    <3>1. \A f \in StepFields : Place[f] \in Nat
      BY <1>3, <1>2
    <3> QED
      BY <2>2, <2>3, <2>4, <2>5, <3>1
  <2>8. ~Sought(Step.field) /\ \A f \in StepFields : f = Step.field => Sought(f)'
    <3>1. Step.field \in StepFields /\ Place[Step.field] = at /\ at < next /\ ~ (at < at)
      BY <1>1, <2>2, <2>3
    <3> QED
      BY <3>1, <2>4, <2>5
  <2>9. ASSUME NEW r \in RuleFields, r # Step.field, Sought(r)' PROVE Sought(r)
    BY <2>6, <2>9, ReadOrRule DEF StepFields
  <2> QED
    BY <1>4, <2>6, <2>7, <2>8, <2>9 DEF StepFields
<1>5. CASE name < Len(Step.readers) /\ name' = name + 1 /\ UNCHANGED at
  <2>1. name \in Nat /\ name # 0
    <3>1. name \in 1..Max({1, Len(Step.readers)})
      BY DEF TypeOK, Step, ReadingStep
    <3>2. Max({1, Len(Step.readers)}) \in Nat
      BY <1>1, PlanIsList, MaxOfOneAnd DEF Step
    <3> QED
      BY <3>1, <3>2
  <2>2. ~Advance
    BY <1>5, <2>1 DEF Advance
  <2>3. \A f \in StepFields : Sought(f)' <=> Sought(f)
    BY <1>5 DEF Sought
  <2>4. ~Sought(Step.field)
    BY <1>1, <1>2 DEF Sought
  <2> QED
    BY <2>2, <2>3, <2>4 DEF StepFields
<1> QED
  BY <1>4, <1>5 DEF ReadingStep

\* A value says which alternative gave it, or that it is empty.
Origins == {"empty", "first", "second", "third", "fourth", "fifth", "sixth"}

LEMMA OriginIsOne ==
  ASSUME NEW outcome, NEW i \in 1..6
  PROVE  Origin(outcome, i) \in Origins /\ (Origin(outcome, i) = Empty <=> outcome = "empty")
<1>1. i \in {1, 2, 3, 4, 5, 6}
  OBVIOUS
<1>2. Alternative[i] \in Origins \ {"empty"}
  BY <1>1 DEF Alternative, Origins
<1> QED
  BY <1>2 DEF Origin, Origins, Empty

\* Reading a file: the alternative exists, and its value goes where it belongs.
LEMMA NameIsRead ==
  ASSUME TypeOK, ReadName
  PROVE  /\ Step.field \in ReadFields /\ name \in 1..6 /\ name \in DOMAIN Step.readers
         /\ \/ ~Gives(Read(<<Step.field, name>>)) /\ record' = record
            \/ /\ Gives(Read(<<Step.field, name>>))
               /\ record' = [record EXCEPT ![Step.field] = Origin(Read(<<Step.field, name>>), name)]
         /\ issues' = issues + IF Counted(Read(<<Step.field, name>>)) THEN 1 ELSE 0
         /\ IF Gives(Read(<<Step.field, name>>)) \/ name = Len(Step.readers) THEN Advance
            ELSE name' = name + 1 /\ UNCHANGED at
<1>1. at \in DOMAIN Plan /\ Step.readers # <<>>
  BY DEF ReadName, TypeOK
<1>2. Step.field \in ReadFields /\ Len(Step.readers) \in 0..6 /\ Len(Step.readers) # 0
      /\ DOMAIN Step.readers = 1..Len(Step.readers)
  BY <1>1, ReadOrRule, PlanIsList DEF Step
<1>3. name \in 1..Max({1, Len(Step.readers)})
  BY DEF ReadName, TypeOK, Step
<1>4. name \in 1..6 /\ name \in 1..Len(Step.readers)
  <2> DEFINE n == Len(Step.readers)
  <2>0. n \in 0..6 /\ n # 0 /\ name \in 1..Max({1, n})
    BY <1>2, <1>3
  <2> HIDE DEF n
  <2>1. n \in Nat /\ n >= 1 /\ n <= 6 /\ name \in 1..Max({1, n})
    BY <2>0
  <2>2. name \in 1..n
    BY <2>1, MaxOfOneAnd
  <2>3. name \in 1..6
    BY <2>1, <2>2
  <2> QED
    BY <2>2, <2>3 DEF n
<1> DEFINE outcome == Read(<<Step.field, name>>)
<1>5. /\ record' = IF Gives(outcome) THEN [record EXCEPT ![Step.field] = Origin(outcome, name)] ELSE record
      /\ issues' = issues + IF Counted(outcome) THEN 1 ELSE 0
      /\ IF Gives(outcome) \/ name = Len(Step.readers) THEN Advance
         ELSE name' = name + 1 /\ UNCHANGED at
  BY DEF ReadName
<1> QED
  BY <1>2, <1>4, <1>5
-----------------------------------------------------------------------------
(***************************************************************************)
(* Where the counts come from.                                             *)
(***************************************************************************)

LEMMA UntouchedCounts ==
  ASSUME TypeOK, CountsInProgress, ReadingStep, Step.field # "source",
         record'.source = record.source,
         \A c \in TensixCounts : record'[c] # "profiler",
         \A c \in TensixCounts : Sought("source") => record'[c] = record[c]
  PROVE  CountsSoFar'
<1>1. "source" \in RuleFields /\ phase = "device"
  BY DEF RuleFields, ReadingStep
<1>2. Sought("source")' <=> Sought("source")
  BY <1>1, SoughtGrows
<1> QED
  BY <1>1, <1>2 DEF CountsSoFar, CountsInProgress

LEMMA ReadingKeepsCounts ==
  TypeOK /\ CountsInProgress /\ (PassAttribute \/ ReadName \/ RuleInPlan) => CountsSoFar'
<1> SUFFICES ASSUME TypeOK, CountsInProgress, PassAttribute \/ ReadName \/ RuleInPlan
             PROVE  CountsSoFar'
  OBVIOUS
<1>1. ReadingStep /\ phase = "device" /\ CountsSoFar
  BY PassIsReading, NameIsReading, RuleIsReading DEF ReadingStep, CountsInProgress
<1>2. DOMAIN record = DOMAIN Blank /\ TensixCounts \subseteq DOMAIN record /\ "source" \in DOMAIN record
      /\ TensixCounts \subseteq ReadFields
  BY <1>1, RecordFields DEF TypeOK
<1>3. "source" \notin TensixCounts /\ TensixCounts = {"used", "available", "total"}
  BY DEF TensixCounts
<1>4. ASSUME UNCHANGED record, Step.field # "source" PROVE CountsSoFar'
  BY <1>1, <1>4, UntouchedCounts DEF CountsSoFar
<1>5. CASE PassAttribute
  <2>1. UNCHANGED record /\ Step.readers # <<>> /\ at \in DOMAIN Plan
    BY <1>5 DEF PassAttribute, TypeOK
  <2>2. Step.field # "source"
    BY <2>1, ReadOrRule DEF Step, RuleFields
  <2> QED
    BY <1>4, <2>1, <2>2
<1>6. CASE ReadName
  <2>1. Step.field \in ReadFields /\ Step.field # "source"
    BY <1>6, NameIsRead, ReadOrRule DEF RuleFields
  <2>2. \/ record' = record
        \/ \E v \in Origins : record' = [record EXCEPT ![Step.field] = v]
    BY <1>6, NameIsRead, OriginIsOne
  <2>3. ASSUME NEW c \in TensixCounts, Sought("source") PROVE Step.field # c
    <3>1. Before(c, "source") /\ c \in StepFields /\ "source" \in StepFields
      BY <1>2, PlanAssumption DEF PlanAssumption, StepFields, RuleFields, TensixNumbers
    <3> QED
      BY <1>1, <2>3, <3>1, StepsInOrder
  <2>4. \A c \in TensixCounts : record'[c] # "profiler"
    BY <1>1, <1>2, <2>2 DEF Origins, CountsSoFar
  <2>5. record'.source = record.source
    BY <1>2, <2>1, <2>2
  <2>6. \A c \in TensixCounts : Sought("source") => record'[c] = record[c]
    BY <1>2, <2>2, <2>3
  <2> QED
    BY <1>1, <2>1, <2>4, <2>5, <2>6, UntouchedCounts
<1>7. CASE NameBoard
  <2>1. Step.field # "source"
    BY <1>7 DEF NameBoard, Apply, InDevice
  <2>2. record' = record \/ record' = [record EXCEPT !.board_type = "firmware"]
    BY <1>7 DEF NameBoard
  <2>3. \A c \in TensixCounts \cup {"source"} : record'[c] = record[c]
    BY <1>2, <1>3, <2>2
  <2> QED
    BY <1>1, <2>1, <2>3, UntouchedCounts DEF CountsSoFar
<1>8. CASE InferArchitecture
  <2>1. Step.field # "source"
    BY <1>8 DEF InferArchitecture, Apply, InDevice
  <2>2. record' = record \/ record' = [record EXCEPT !.architecture = "pci_id"]
    BY <1>8 DEF InferArchitecture
  <2>3. \A c \in TensixCounts \cup {"source"} : record'[c] = record[c]
    BY <1>2, <1>3, <2>2
  <2> QED
    BY <1>1, <2>1, <2>3, UntouchedCounts DEF CountsSoFar
<1>9. CASE ListSensors \/ ListCounters \/ ListLinks \/ ListResources
  BY <1>4, <1>9 DEF ListSensors, ListCounters, ListLinks, ListResources, Listing, Apply, InDevice
<1>10. CASE ParseUsage
  <2>1. Step.field # "source"
    BY <1>10 DEF ParseUsage, Apply, InDevice
  <2>2. record' = record \/ \E v, w : record' = [record EXCEPT !.used_bytes = v, !.total_bytes = w]
    BY <1>10 DEF ParseUsage
  <2>3. \A c \in TensixCounts \cup {"source"} : record'[c] = record[c]
    BY <1>2, <1>3, <2>2
  <2> QED
    BY <1>1, <2>1, <2>3, UntouchedCounts DEF CountsSoFar
<1>11. CASE ParseMesh
  <2>1. Step.field # "source"
    BY <1>11 DEF ParseMesh, Apply, InDevice
  <2>2. record' = record \/ record' = [record EXCEPT !.mesh_rows = "grid", !.mesh_cols = "grid"]
    BY <1>11 DEF ParseMesh
  <2>3. \A c \in TensixCounts \cup {"source"} : record'[c] = record[c]
    BY <1>2, <1>3, <2>2
  <2> QED
    BY <1>1, <2>1, <2>3, UntouchedCounts DEF CountsSoFar
<1>12. CASE NameSource
  <2>1. CASE \E f \in TensixNumbers \cup TensixLabels : record[f] # None
    <3>1. record' = [record EXCEPT !.source = "sysfs"]
      BY <1>12, <2>1 DEF NameSource
    <3> QED
      BY <1>1, <1>2, <1>3, <3>1 DEF CountsSoFar, None
  <2>2. CASE ~ \E f \in TensixNumbers \cup TensixLabels : record[f] # None
    <3>1. record' = record
      BY <1>12, <2>2 DEF NameSource
    <3> QED
      BY <1>1, <2>2, <3>1 DEF CountsSoFar, TensixNumbers
  <2> QED
    BY <2>1, <2>2
<1> QED
  BY <1>5, <1>6, <1>7, <1>8, <1>9, <1>10, <1>11, <1>12 DEF RuleInPlan

\* The profiler's counts fill the gaps, and name the source if there is a gap to fill.
LEMMA PopulateExplainsCounts ==
  TypeOK /\ CountsInProgress /\ PopulateState => (CountsInProgress /\ SourceOfCounts)'
<1> SUFFICES ASSUME TypeOK, CountsInProgress, PopulateState
             PROVE  (CountsInProgress /\ SourceOfCounts)'
  OBVIOUS
<1>1. /\ phase = "device" /\ phase' = "entries" /\ Step.field = "state" /\ node \in Nodes
      /\ CountsSoFar /\ DOMAIN record = DOMAIN Blank
  BY DEF PopulateState, InDevice, TypeOK, CountsInProgress
<1>2. PICK labels \in SUBSET node.state, given \in {{}, {"used"}, TensixCounts} :
        record' = [f \in DOMAIN record |-> IF f \in labels THEN "state" ELSE FillCounts(given)[f]]
  BY DEF PopulateState
<1>3. given \in SUBSET TensixCounts
  BY <1>2 DEF TensixCounts
<1>4. labels \cap (TensixCounts \cup {"source"}) = {}
  BY <1>1, <1>2, NodesAssumption
     DEF NodesAssumption, FromState, Allocation, JanitorLabels, JanitorNumbers, TensixCounts
<1>5. TensixCounts \cup {"source"} \subseteq DOMAIN record /\ "source" \notin TensixCounts
  BY <1>1, RecordFields DEF TensixCounts
<1>6. \A c \in TensixCounts :
        record'[c] = IF c \in given /\ record[c] = None THEN "profiler" ELSE record[c]
  BY <1>2, <1>4, <1>5 DEF FillCounts
<1>7. record'.source = IF \E c \in given : record[c] = None THEN "metalium_profiler" ELSE record.source
  BY <1>2, <1>3, <1>4, <1>5 DEF FillCounts
<1>8. record.source = None => \A c \in TensixCounts : record[c] = None
  <2>1. Sought("source")
    <3>1. Place["source"] \in DOMAIN Plan /\ Place["source"] # at
      BY <1>1, StepsInOrder, PlaceOfStep DEF StepFields, RuleFields
    <3>2. at = Len(Plan)
      BY <1>1, StepsInOrder, PlaceOfStep, PlanIsList
    <3> QED
      BY <3>1, <3>2, PlanIsList DEF Sought
  <2> QED
    BY <1>1, <2>1 DEF CountsSoFar
<1>9. CASE \E c \in given : record[c] = None
  <2>1. record'.source = "metalium_profiler" /\ \E c \in TensixCounts : record'[c] = "profiler"
    BY <1>3, <1>6, <1>7, <1>9
  <2> QED
    BY <1>1, <2>1 DEF SourceOfCounts, CountsInProgress, None
<1>10. CASE ~ \E c \in given : record[c] = None
  <2>1. record'.source = record.source /\ \A c \in TensixCounts : record'[c] = record[c]
    BY <1>3, <1>6, <1>7, <1>10
  <2> QED
    BY <1>1, <1>8, <2>1 DEF SourceOfCounts, CountsInProgress, CountsSoFar, None
<1> QED
  BY <1>9, <1>10

\* A new record is blank.
LEMMA BlankRecord ==
  ASSUME record' = Blank
  PROVE  /\ record'.source = None /\ \A c \in TensixCounts : record'[c] = None
         /\ \A f \in Fields \cup Texts : record'[f] = None
<1>1. TensixCounts \cup {"source"} \subseteq Fields \cup Texts
  BY RecordFields
<1> QED
  BY <1>1 DEF Blank

LEMMA InitExplainsCounts == Init => CountsInProgress /\ SourceOfCounts
<1> SUFFICES ASSUME Init PROVE CountsInProgress /\ SourceOfCounts
  OBVIOUS
<1>1. TensixCounts \cup {"source"} \subseteq Fields \cup Texts
  BY RecordFields
<1>2. record.source = None /\ \A c \in TensixCounts : record[c] = None
  BY <1>1 DEF Init, Blank
<1> QED
  BY <1>2 DEF Init, CountsInProgress, SourceOfCounts, None

LEMMA BeginExplainsCounts == BeginDevice => (CountsInProgress /\ SourceOfCounts)'
<1> SUFFICES ASSUME BeginDevice PROVE (CountsInProgress /\ SourceOfCounts)'
  OBVIOUS
<1>1. record'.source = None /\ \A c \in TensixCounts : record'[c] = None
  BY BlankRecord DEF BeginDevice
<1> QED
  BY <1>1 DEF CountsInProgress, CountsSoFar, SourceOfCounts, None

LEMMA RootKeepsCounts ==
  CountsInProgress /\ SourceOfCounts
    /\ (ScanFails \/ Scan \/ SkipEntry \/ Vanish \/ Finish \/ CollectionRaises \/ UNCHANGED vars)
  => (CountsInProgress /\ SourceOfCounts)'
<1> SUFFICES ASSUME CountsInProgress, SourceOfCounts,
                    ScanFails \/ Scan \/ SkipEntry \/ Vanish \/ Finish \/ CollectionRaises
                      \/ UNCHANGED vars
             PROVE  (CountsInProgress /\ SourceOfCounts)'
  OBVIOUS
<1>1. /\ UNCHANGED <<record, at>>
      /\ phase' = "device" => phase = "device"
      /\ phase' \notin {"device", "raised"} => phase \notin {"device", "raised"}
  BY DEF ScanFails, Scan, SkipEntry, Vanish, Finish, CollectionRaises, vars, deviceVars
<1> QED
  BY <1>1 DEF CountsInProgress, CountsSoFar, SourceOfCounts, Sought

\* Sysfs counts keep their source until the state directories are read, and after that.
THEOREM CountsInvariance == Spec => [](CountsInProgress /\ SourceOfCounts)
<1> DEFINE Counts == CountsInProgress /\ SourceOfCounts
<1>1. Init => Counts
  BY InitExplainsCounts
<1>2. TypeOK /\ Counts /\ [Next]_vars => Counts'
  <2> SUFFICES ASSUME TypeOK, CountsInProgress, SourceOfCounts, [Next]_vars PROVE Counts'
    OBVIOUS
  <2>1. CASE PassAttribute \/ ReadName \/ RuleInPlan
    <3>1. CountsSoFar' /\ phase' = "device"
      BY <2>1, ReadingKeepsCounts, PassIsReading, NameIsReading, RuleIsReading DEF ReadingStep, frame
    <3> QED
      BY <3>1 DEF CountsInProgress, CountsSoFar, SourceOfCounts, None
  <2> QED
    BY <2>1, Steps, RootKeepsCounts, BeginExplainsCounts, PopulateExplainsCounts
<1> QED
  BY <1>1, <1>2, TypeCorrect, PTL DEF Spec

\* A count of the profiler is never shown as one of sysfs, although each is filled in on
\* its own, and counts without a source are never shown.
THEOREM SourceTellsCounts == Spec => []SourceOfCounts
  BY CountsInvariance, PTL
-----------------------------------------------------------------------------
(***************************************************************************)
(* The files of a device, and what the pages show of its record.           *)
(***************************************************************************)

\* A file of a device is an alternative for a field of the plan.
LEMMA FileOfPlan ==
  ASSUME node \in Nodes, NEW f \in node.files
  PROVE  /\ f = <<f[1], f[2]>>
         /\ f[1] \in ReadFields /\ f[2] \in 1..6 /\ f[2] \in DOMAIN Readers(f[1])
         /\ Readers(f[1])[f[2]] \in DOMAIN Outcomes
         /\ Readers(f[1])[f[2]] = "uevent" => f[1] \in {"dev_name", "bdf", "driver"}
<1>1. f \in UNION {{<<step.field, k>> : k \in DOMAIN step.readers} : step \in Range(Plan)}
  BY NodesAssumption DEF NodesAssumption
<1>2. PICK i \in DOMAIN Plan : \E k \in DOMAIN Plan[i].readers : f = <<Plan[i].field, k>>
  BY <1>1 DEF Range
<1>3. PICK k \in DOMAIN Plan[i].readers : f = <<Plan[i].field, k>>
  BY <1>2
<1>4. f[1] = Plan[i].field /\ f[2] = k /\ Place[f[1]] = i /\ Readers(f[1]) = Plan[i].readers
  BY <1>3, PlaceOfStep DEF Readers
<1>5. k \in 1..Len(Plan[i].readers) /\ Len(Plan[i].readers) \in 0..6 /\ Plan[i].readers # <<>>
      /\ Plan[i].readers \in Seq(DOMAIN Outcomes)
  <2>1. Plan[i] \in [field : STRING, readers : Seq(DOMAIN Outcomes)]
        /\ Len(Plan[i].readers) \in 0..6 /\ DOMAIN Plan[i].readers = 1..Len(Plan[i].readers)
        /\ (Plan[i].readers = <<>> <=> Len(Plan[i].readers) = 0)
    BY PlanIsList
  <2> QED
    BY <1>3, <2>1
<1>6. f[2] \in 1..6
  BY <1>4, <1>5
<1>7. Plan[i].readers[k] \in DOMAIN Outcomes
  BY <1>5
<1>8. Plan[i].readers[k] = "uevent" => f[1] \in {"dev_name", "bdf", "driver"}
  BY <1>3, <1>4, PlanAssumption DEF PlanAssumption
<1>9. f[1] \in ReadFields
  BY <1>4, <1>5, ReadOrRule
<1> QED
  BY <1>3, <1>4, <1>6, <1>7, <1>8, <1>9

\* ... and reading it comes to what its reader makes of it.
LEMMA FileOfDevice ==
  ASSUME node \in Nodes, tree \in Trees(node.files), NEW f \in DOMAIN tree
  PROVE  /\ f = <<f[1], f[2]>> /\ f \in node.files
         /\ f[1] \in ReadFields /\ f[2] \in 1..6 /\ f[2] \in DOMAIN Readers(f[1])
         /\ Readers(f[1])[f[2]] \in DOMAIN Outcomes
         /\ Readers(f[1])[f[2]] = "uevent" => f[1] \in {"dev_name", "bdf", "driver"}
         /\ tree[f] \in Outcomes[Readers(f[1])[f[2]]] \ {"missing"}
<1>1. f \in node.files
  BY DEF Trees
<1>2. <<f, tree[f]>> \in
        UNION {{g} \X (Outcomes[Readers(g[1])[g[2]]] \ {"missing"}) : g \in node.files}
  BY <1>1 DEF Trees
<1>3. PICK g \in node.files :
        <<f, tree[f]>> \in {g} \X (Outcomes[Readers(g[1])[g[2]]] \ {"missing"})
  BY <1>2
<1>4. tree[f] \in Outcomes[Readers(f[1])[f[2]]] \ {"missing"}
  BY <1>3
<1> QED
  BY <1>1, <1>4, FileOfPlan

\* Only a uevent can give an empty value, and only three labels are read from one.
LEMMA EmptyIsOfUevent ==
  ASSUME node \in Nodes, tree \in Trees(node.files), NEW f \in DOMAIN tree, tree[f] = "empty"
  PROVE  f[1] \in {"dev_name", "bdf", "driver"}
<1>1. \A r \in DOMAIN Outcomes : "empty" \in Outcomes[r] => r = "uevent"
  BY DEF Outcomes
<1> QED
  BY <1>1, FileOfDevice

LEMMA InitHasShape == Init => RecordShape
<1>1. DOMAIN Blank = Fields \cup Texts /\ \A f \in Fields : Blank[f] # Empty
  BY DEF Blank, None, Empty
<1> QED
  BY <1>1 DEF Init, RecordShape

LEMMA ReadingKeepsShape ==
  TypeOK /\ RecordShape /\ (PassAttribute \/ ReadName \/ RuleInPlan) => RecordShape'
<1> SUFFICES ASSUME TypeOK, RecordShape, PassAttribute \/ ReadName \/ RuleInPlan
             PROVE  RecordShape'
  OBVIOUS
<1>1. ReadingStep
  BY PassIsReading, NameIsReading, RuleIsReading
<1>2. /\ tree' \in Trees(node'.files) /\ DOMAIN record' = Fields \cup Texts /\ tree' = tree
      /\ tree \in Trees(node.files) /\ node \in Nodes /\ DOMAIN record = Fields \cup Texts
  BY <1>1 DEF ReadingStep, frame, RecordShape, Trees, TypeOK
<1>3. ASSUME \A f \in Fields : record'[f] \in {record[f], "firmware", "pci_id", "usage", "grid", "sysfs", None}
      PROVE  RecordShape'
  BY <1>2, <1>3 DEF RecordShape, Empty, None
<1>4. CASE PassAttribute
  BY <1>2, <1>3, <1>4 DEF PassAttribute
<1>5. CASE ReadName
  <2> DEFINE file == <<Step.field, name>>
  <2>1. CASE record' = record
    BY <1>3, <2>1
  <2>2. CASE /\ Gives(Read(file)) /\ record' = [record EXCEPT ![Step.field] = Origin(Read(file), name)]
    <3>1. name \in 1..6
      BY <1>5, NameIsRead
    <3>2. file \in DOMAIN tree /\ Read(file) = tree[file]
      BY <2>2 DEF Read, Gives
    <3>3. Origin(Read(file), name) = Empty => Step.field \in {"dev_name", "bdf", "driver"}
      BY <1>2, <3>1, <3>2, OriginIsOne, EmptyIsOfUevent
    <3> QED
      BY <1>2, <2>2, <3>3 DEF RecordShape
  <2> QED
    BY <1>5, <2>1, <2>2, NameIsRead
<1>6. CASE NameBoard
  BY <1>2, <1>3, <1>6 DEF NameBoard
<1>7. CASE InferArchitecture
  BY <1>2, <1>3, <1>7 DEF InferArchitecture
<1>8. CASE ListSensors \/ ListCounters \/ ListLinks \/ ListResources
  BY <1>2, <1>3, <1>8 DEF ListSensors, ListCounters, ListLinks, ListResources, Listing
<1>9. CASE ParseUsage
  <2>1. \/ record' = record
        \/ \E v, w \in {"usage", None} : record' = [record EXCEPT !.used_bytes = v, !.total_bytes = w]
    BY <1>9 DEF ParseUsage
  <2> QED
    BY <1>2, <1>3, <2>1
<1>10. CASE ParseMesh
  <2>1. record' = record \/ record' = [record EXCEPT !.mesh_rows = "grid", !.mesh_cols = "grid"]
    BY <1>10 DEF ParseMesh
  <2> QED
    BY <1>2, <1>3, <2>1
<1>11. CASE NameSource
  BY <1>2, <1>3, <1>11 DEF NameSource
<1> QED
  BY <1>4, <1>5, <1>6, <1>7, <1>8, <1>9, <1>10, <1>11 DEF RuleInPlan

LEMMA OtherStepsKeepShape ==
  RecordShape /\ (ScanFails \/ Scan \/ SkipEntry \/ Vanish \/ Finish \/ CollectionRaises
                    \/ UNCHANGED vars \/ BeginDevice \/ PopulateState)
  => RecordShape'
<1> SUFFICES ASSUME RecordShape,
                    ScanFails \/ Scan \/ SkipEntry \/ Vanish \/ Finish \/ CollectionRaises
                      \/ UNCHANGED vars \/ BeginDevice \/ PopulateState
             PROVE  RecordShape'
  OBVIOUS
<1>1. CASE ScanFails \/ Scan \/ SkipEntry \/ Vanish \/ Finish \/ CollectionRaises \/ UNCHANGED vars
  <2>1. UNCHANGED <<node, tree, record>> /\ (phase' = "device" => phase = "device")
    BY <1>1 DEF ScanFails, Scan, SkipEntry, Vanish, Finish, CollectionRaises, vars, deviceVars
  <2> QED
    BY <2>1 DEF RecordShape, Trees
<1>2. CASE BeginDevice
  <2>1. DOMAIN Blank = Fields \cup Texts /\ \A f \in Fields : Blank[f] # Empty
    BY DEF Blank, None, Empty
  <2>2. tree' \in Trees(node'.files) /\ record' = Blank
    BY <1>2 DEF BeginDevice, Trees
  <2> QED
    BY <2>1, <2>2 DEF RecordShape
<1>3. CASE PopulateState
  <2>1. PICK labels \in SUBSET node.state, given \in {{}, {"used"}, TensixCounts} :
          record' = [f \in DOMAIN record |-> IF f \in labels THEN "state" ELSE FillCounts(given)[f]]
    BY <1>3 DEF PopulateState
  <2>2. \A f \in DOMAIN record : FillCounts(given)[f] \in {"profiler", "metalium_profiler", record[f]}
    BY DEF FillCounts
  <2>3. DOMAIN record' = DOMAIN record
        /\ \A f \in DOMAIN record : record'[f] \in {"state", "profiler", "metalium_profiler", record[f]}
    BY <2>1, <2>2
  <2>4. phase' = "entries"
    BY <1>3 DEF PopulateState
  <2> QED
    BY <2>3, <2>4 DEF RecordShape, Empty
<1> QED
  BY <1>1, <1>2, <1>3

THEOREM ShapeInvariance == Spec => []RecordShape
<1>1. TypeOK /\ RecordShape /\ [Next]_vars => RecordShape'
  BY Steps, ReadingKeepsShape, OtherStepsKeepShape
<1> QED
  BY InitHasShape, <1>1, TypeCorrect, PTL DEF Spec

\* Families name every field but the source of the counts.
LEMMA FieldsShown ==
  /\ "source" \notin NumberFamilies /\ NumberFamilies \subseteq Fields
  /\ NumberFamilies \cap {"dev_name", "bdf", "driver"} = {}
  /\ \A family \in LabelFamilies :
       /\ family.labels \subseteq Fields \ {"source"} /\ family.needs \subseteq Fields
  /\ Fields \ {"source"} = UNION {NumberFamilies, InfoLabels, FirmwareLabels, PowerLabels, MemoryLabels,
                                  TensixLabels, FaultLabels, Allocation, JanitorLabels}
<1> DEFINE sets == {Identity, CharacterDevice, PciInfo, PowerLabels, PowerNumbers, FirmwareNumbers,
                    FirmwareLabels, MemoryLabels, MemoryNumbers, TensixNumbers, TensixLabels,
                    FaultLabels, FaultNumbers, Allocation, JanitorLabels, JanitorNumbers}
<1>1. \A f : f \in Fields <=> f \in UNION sets \/ f = "source"
  BY DEF Fields
<1>2. \A s \in sets : "source" \notin s
  BY DEF Identity, CharacterDevice, PciInfo, PowerLabels, PowerNumbers, FirmwareNumbers,
         FirmwareLabels, MemoryLabels, MemoryNumbers, TensixCounts, TensixNumbers, TensixLabels,
         FaultLabels, FaultNumbers, Allocation, JanitorLabels, JanitorNumbers
<1>3. {"current_link_width", "max_link_width", "current_link_speed", "max_link_speed"} \subseteq PciInfo
  BY DEF PciInfo
<1>4. Fields \ {"source"} = UNION sets
  <2>1. "source" \notin UNION sets
    BY <1>2
  <2> HIDE DEF sets
  <2> QED
    BY <1>1, <2>1
<1>5. "source" \notin NumberFamilies /\ NumberFamilies \subseteq Fields
  BY <1>3, <1>4 DEF NumberFamilies
<1>6. NumberFamilies \cap {"dev_name", "bdf", "driver"} = {}
  BY DEF NumberFamilies, FirmwareNumbers, PowerNumbers, MemoryNumbers, TensixNumbers, TensixCounts,
         FaultNumbers, JanitorNumbers
<1>7. ASSUME NEW family \in LabelFamilies
      PROVE  family.labels \subseteq Fields \ {"source"} /\ family.needs \subseteq Fields
  BY <1>3, <1>4 DEF LabelFamilies, Family, InfoLabels, Always
<1>8. UNION sets = UNION {NumberFamilies, InfoLabels, FirmwareLabels, PowerLabels, MemoryLabels,
                          TensixLabels, FaultLabels, Allocation, JanitorLabels}
  BY <1>3 DEF NumberFamilies, InfoLabels
<1> QED
  BY <1>4, <1>5, <1>6, <1>7, <1>8

\* What the families show, together, is every value of the record but the source.
LEMMA PrometheusShows ==
  ASSUME RecordShape
  PROVE  DOMAIN PrometheusPage = {g \in Fields \ {"source"} : record[g] \notin {None, Empty}}
<1> DEFINE numbers == {f \in NumberFamilies : record[f] # None}
           labels == UNION {family.labels : family \in {g \in LabelFamilies : IsShown(g)}}
           valued == {g \in Fields \ {"source"} : record[g] \notin {None, Empty}}
<1>1. DOMAIN PrometheusPage = numbers \cup {l \in labels : HasLabel(l)}
  BY DEF PrometheusPage
<1>2. numbers \subseteq valued
  BY FieldsShown DEF RecordShape
<1>3. {l \in labels : HasLabel(l)} \subseteq valued
  BY FieldsShown DEF HasLabel
<1>4. ASSUME NEW g \in valued PROVE g \in numbers \/ (g \in labels /\ HasLabel(g))
  <2>1. HasLabel(g) /\ record[g] # None
    BY DEF HasLabel
  <2>2. CASE g \in NumberFamilies
    BY <2>1, <2>2
  <2>3. ASSUME NEW family \in LabelFamilies, g \in family.labels,
               family.needs = Always \/ g \in family.needs
        PROVE  g \in labels
    BY <2>1, <2>3 DEF IsShown
  <2>4. CASE g \in InfoLabels \/ g \in FirmwareLabels \/ g \in PowerLabels
    <3>1. {Family(InfoLabels, Always), Family(FirmwareLabels, Always), Family(PowerLabels, Always)}
            \subseteq LabelFamilies
      BY DEF LabelFamilies
    <3> QED
      BY <2>1, <2>3, <2>4, <3>1 DEF Family
  <2>5. CASE g \in MemoryLabels \/ g \in TensixLabels \/ g \in FaultLabels \/ g \in Allocation
    <3>1. {Family(MemoryLabels, MemoryLabels), Family(TensixLabels, TensixLabels),
           Family(FaultLabels, FaultLabels), Family(Allocation, Allocation)} \subseteq LabelFamilies
      BY DEF LabelFamilies
    <3> QED
      BY <2>1, <2>3, <2>5, <3>1 DEF Family
  <2>6. CASE g \in JanitorLabels
    <3>1. Family(JanitorLabels, JanitorLabels \cup JanitorNumbers) \in LabelFamilies
      BY DEF LabelFamilies
    <3> QED
      BY <2>1, <2>3, <2>6, <3>1 DEF Family
  <2> QED
    BY <2>1, <2>2, <2>4, <2>5, <2>6, FieldsShown
<1> QED
  BY <1>1, <1>2, <1>3, <1>4

\* Of any record that can be collected the two pages show the same values, but for the
\* source of the tensix counts, which only JSON shows.
THEOREM PagesDiffer == Spec => []PagesDifferInSourceOnly
<1>1. RecordShape => PagesDifferInSourceOnly
  <2> SUFFICES ASSUME RecordShape PROVE PagesDifferInSourceOnly
    OBVIOUS
  <2>1. DOMAIN JsonPage = Fields /\ \A f \in Fields : JsonPage[f] = record[f]
    <3>1. Fields = UNION {Identity, CharacterDevice, PciInfo, PowerLabels, PowerNumbers,
                FirmwareNumbers, FirmwareLabels, MemoryNumbers, MemoryLabels,
                TensixNumbers, TensixLabels, {"source"}, FaultLabels, FaultNumbers,
                Allocation, JanitorLabels, JanitorNumbers}
      BY DEF Fields
    <3>2. JsonPage = [f \in Fields |-> record[f]]
      BY <3>1 DEF JsonPage
    <3> QED
      BY <3>2
  <2>2. PrometheusPage = [f \in DOMAIN PrometheusPage |-> record[f]]
    BY DEF PrometheusPage
  <2> DEFINE valued == {g \in Fields \ {"source"} : JsonPage[g] \notin {None, Empty}}
  <2>3. DOMAIN PrometheusPage = valued
    BY <2>1, PrometheusShows
  <2>4. PrometheusPage = [f \in valued |-> JsonPage[f]]
    BY <2>1, <2>2, <2>3
  <2> QED
    BY <2>1, <2>4 DEF PagesDifferInSourceOnly
<1> QED
  BY <1>1, ShapeInvariance, PTL
-----------------------------------------------------------------------------
(***************************************************************************)
(* What the record of a device says of its files.                          *)
(***************************************************************************)

\* The fields that the rules are about, in the order of the plan.
RuledFields ==
  {"architecture", "board_type", "dev_number", "dev_name", "device_id", "card_type", "usage_text",
   "used_bytes", "total_bytes", "mesh_rows", "mesh_cols", "mesh_text"}

LEMMA RuledFieldsAreRead == RuledFields \subseteq ReadFields
<1>1. RuledFields \subseteq Fields \cup Texts
  BY DEF RuledFields, Fields, Identity, CharacterDevice, PciInfo, FirmwareLabels, MemoryNumbers,
         TensixNumbers, Texts
<1>2. RuledFields \cap ({"source"} \cup FromState) = {}
  BY DEF RuledFields, FromState, Allocation, JanitorLabels, JanitorNumbers
<1>3. ReadFields = (Fields \ ({"source"} \cup FromState)) \cup Texts
  BY PlanAssumption DEF PlanAssumption
<1> QED
  BY <1>1, <1>2, <1>3

LEMMA RulesInOrder ==
  ASSUME TypeOK, phase = "device"
  PROVE  /\ Step.field \in {"device_id", "architecture_of_id"} => Sought("architecture")
         /\ Step.field \in {"board_type", "card_type"} => ~Sought("board")
         /\ Step.field = "board" => Sought("board_type") /\ Sought("card_type")
         /\ Step.field = "dev_number" => ~Sought("dev_name")
         /\ Step.field = "usage" => ~Sought("used_bytes") /\ ~Sought("total_bytes")
         /\ Step.field \in {"mesh_text", "mesh"} => Sought("mesh_rows") /\ Sought("mesh_cols")
<1>1. RuledFields \cup {"board", "architecture_of_id", "usage", "mesh"} \subseteq StepFields
  BY RuledFieldsAreRead DEF StepFields, RuleFields
<1>2. /\ Before("architecture", "device_id") /\ Before("device_id", "architecture_of_id")
      /\ Before("card_type", "board") /\ Before("board_type", "board")
      /\ Before("dev_number", "dev_name")
      /\ Before("usage", "used_bytes") /\ Before("usage", "total_bytes")
      /\ Before("mesh_rows", "mesh_text") /\ Before("mesh_cols", "mesh_text")
      /\ Before("mesh_text", "mesh")
  BY PlanAssumption DEF PlanAssumption
<1>3. \A f, g \in StepFields : Before(f, g) =>
         /\ Sought(g) \/ Step.field = g => Sought(f)
         /\ Step.field = f => ~Sought(g) /\ Step.field # g
  BY StepsInOrder
<1>4. {"architecture", "device_id", "architecture_of_id", "card_type", "board", "board_type", "dev_number",
       "dev_name", "usage", "used_bytes", "total_bytes", "mesh_rows", "mesh_cols", "mesh_text", "mesh"}
      \subseteq StepFields
  BY <1>1 DEF RuledFields
<1>5. Step.field \in {"device_id", "architecture_of_id"} => Sought("architecture")
  BY <1>2, <1>3, <1>4
<1>6. /\ Step.field \in {"board_type", "card_type"} => ~Sought("board")
      /\ Step.field = "board" => Sought("board_type") /\ Sought("card_type")
  BY <1>2, <1>3, <1>4
<1>7. Step.field = "dev_number" => ~Sought("dev_name")
  BY <1>2, <1>3, <1>4
<1>8. Step.field = "usage" => ~Sought("used_bytes") /\ ~Sought("total_bytes")
  BY <1>2, <1>3, <1>4
<1>9. Step.field \in {"mesh_text", "mesh"} => Sought("mesh_rows") /\ Sought("mesh_cols")
  BY <1>2, <1>3, <1>4
<1> QED
  BY <1>5, <1>6, <1>7, <1>8, <1>9

\* The first alternative that gives a value is what the files give.
LEMMA FirstIsGiven ==
  ASSUME node \in Nodes, tree \in Trees(node.files), NEW field
  PROVE  /\ FirstGiven(field) \in Origins \cup {None} /\ None \notin Origins
         /\ Given(field) <=> \E f \in DOMAIN tree : f[1] = field /\ Gives(tree[f])
         /\ \A i \in 1..6 :
              /\ <<field, i>> \in DOMAIN tree /\ Gives(tree[<<field, i>>])
              /\ \A k \in 1 .. i - 1 : <<field, k>> \in DOMAIN tree => ~Gives(tree[<<field, k>>])
              => FirstGiven(field) = Origin(tree[<<field, i>>], i)
<1> DEFINE given == {f \in DOMAIN tree : f[1] = field /\ Gives(tree[f])}
           numbers == {f[2] : f \in given}
           first == Min(numbers)
<1>1. \A f \in given : f = <<field, f[2]>> /\ f[2] \in 1..6
  BY FileOfDevice
<1>2. None \notin Origins
  BY DEF None, Origins
<1>3. FirstGiven(field) = IF given = {} THEN None ELSE Origin(tree[<<field, first>>], first)
  BY DEF FirstGiven
<1>4. given # {} => first \in numbers /\ \A m \in numbers : first <= m
  <2>1. numbers \in SUBSET Nat
    BY <1>1
  <2>2. given # {} => numbers # {}
    OBVIOUS
  <2> HIDE DEF numbers, given
  <2> QED
    BY <2>1, <2>2, MinOfNumbers
<1>5. given # {} => first \in 1..6
  BY <1>1, <1>4
<1> HIDE DEF first
<1>6. FirstGiven(field) \in Origins \cup {None}
  BY <1>3, <1>5, OriginIsOne
<1>7. Given(field) <=> given # {}
  BY <1>2, <1>3, <1>5, OriginIsOne DEF Given
<1>8. ASSUME NEW i \in 1..6, <<field, i>> \in DOMAIN tree, Gives(tree[<<field, i>>]),
             \A k \in 1 .. i - 1 : <<field, k>> \in DOMAIN tree => ~Gives(tree[<<field, k>>])
      PROVE  FirstGiven(field) = Origin(tree[<<field, i>>], i)
  <2>1. <<field, i>> \in given /\ i \in numbers
    BY <1>8
  <2>2. first \in 1..6 /\ first <= i /\ <<field, first>> \in given
    BY <1>1, <1>4, <1>5, <2>1
  <2>3. first \notin 1 .. i - 1
    BY <1>8, <2>2
  <2>4. first = i
    BY <2>2, <2>3
  <2> QED
    BY <1>3, <2>1, <2>4
<1> QED
  BY <1>2, <1>6, <1>7, <1>8

\* What one step may write: the value the files give, as long as the device is there, or
\* what a rule makes of values that were found.
ReadHere(f) ==
  /\ f = Step.field /\ Here /\ Advance
  /\ record[f] = None /\ ~Unneeded(f)
  /\ record'[f] = FirstGiven(f) /\ FirstGiven(f) \in Origins

Written(f) ==
  \/ record'[f] = record[f]
  \/ ReadHere(f)
  \/ /\ f = "architecture" /\ Step.field = "architecture_of_id"
     /\ record'[f] = "pci_id" /\ record[f] = None /\ record.device_id # None
  \/ f = "board_type" /\ Step.field = "board" /\ record'[f] = "firmware" /\ record.card_type # None
  \/ /\ f \in {"used_bytes", "total_bytes"} /\ Step.field = "usage"
     /\ record'[f] \in {"usage", None} /\ record.usage_text # None
  \/ /\ f \in {"mesh_rows", "mesh_cols"} /\ Step.field = "mesh"
     /\ record'[f] = "grid" /\ record.mesh_text # None

StepWrites ==
  /\ \A f \in ReadFields : Written(f)
  /\ Step.field = "board" /\ record.card_type # None => record'.board_type = "firmware"
  /\ Step.field = "mesh" => \/ record'.mesh_rows = record.mesh_rows /\ record'.mesh_cols = record.mesh_cols
                            \/ record'.mesh_rows = "grid" /\ record'.mesh_cols = "grid"

LEMMA RulesWrite == TypeOK /\ RuleInPlan => StepWrites
<1> SUFFICES ASSUME TypeOK, RuleInPlan PROVE StepWrites
  OBVIOUS
<1>1. phase = "device" /\ DOMAIN record = DOMAIN Blank
  BY RuleIsReading DEF ReadingStep, TypeOK
<1>2. RuledFields \subseteq DOMAIN record /\ ReadFields \subseteq DOMAIN record
  BY <1>1, RuledFieldsAreRead, RecordFields
<1>3. "source" \notin ReadFields
  BY RecordFields
<1>4. ASSUME UNCHANGED record, Step.field = "board" => record.card_type = None PROVE StepWrites
  BY <1>4 DEF StepWrites, Written
<1>5. CASE NameBoard
  <2>1. CASE record.card_type = None
    BY <1>4, <1>5, <2>1 DEF NameBoard
  <2>2. CASE record.card_type # None
    <3>1. record' = [record EXCEPT !.board_type = "firmware"] /\ Step.field = "board"
      BY <1>5, <2>2 DEF NameBoard, Apply, InDevice
    <3> QED
      BY <1>2, <2>2, <3>1 DEF StepWrites, Written, RuledFields
  <2> QED
    BY <2>1, <2>2
<1>6. CASE InferArchitecture
  <2>1. Step.field = "architecture_of_id"
    BY <1>6 DEF InferArchitecture, Apply, InDevice
  <2>2. \/ record' = record
        \/ /\ record.architecture = None /\ record.device_id # None
           /\ record' = [record EXCEPT !.architecture = "pci_id"]
    BY <1>6 DEF InferArchitecture
  <2> QED
    BY <1>2, <1>4, <2>1, <2>2 DEF StepWrites, Written, RuledFields
<1>7. CASE ListSensors \/ ListCounters \/ ListLinks \/ ListResources
  BY <1>4, <1>7 DEF ListSensors, ListCounters, ListLinks, ListResources, Listing, Apply, InDevice
<1>8. CASE ParseUsage
  <2>1. Step.field = "usage"
    BY <1>8 DEF ParseUsage, Apply, InDevice
  <2>2. \/ record' = record
        \/ /\ record.usage_text # None
           /\ \E v, w \in {"usage", None} : record' = [record EXCEPT !.used_bytes = v, !.total_bytes = w]
    BY <1>8 DEF ParseUsage
  <2> QED
    BY <1>2, <1>4, <2>1, <2>2 DEF StepWrites, Written, RuledFields
<1>9. CASE ParseMesh
  <2>1. Step.field = "mesh"
    BY <1>9 DEF ParseMesh, Apply, InDevice
  <2>2. \/ record' = record
        \/ /\ record.mesh_text # None
           /\ record' = [record EXCEPT !.mesh_rows = "grid", !.mesh_cols = "grid"]
    BY <1>9 DEF ParseMesh
  <2> QED
    BY <1>2, <1>4, <2>1, <2>2 DEF StepWrites, Written, RuledFields
<1>10. CASE NameSource
  <2>1. Step.field = "source"
    BY <1>10 DEF NameSource, Apply, InDevice
  <2>2. record' = record \/ record' = [record EXCEPT !.source = "sysfs"]
    BY <1>10 DEF NameSource
  <2> QED
    BY <1>2, <1>3, <1>4, <2>1, <2>2 DEF StepWrites, Written
<1> QED
  BY <1>5, <1>6, <1>7, <1>8, <1>9, <1>10 DEF RuleInPlan

\* A name that is read and gives a value is the first that does.
LEMMA ReadingWrites ==
  ASSUME TypeOK, RecordShape, FoundSoFar, ReadName
  PROVE  /\ StepWrites
         /\ Gives(Read(<<Step.field, name>>)) => \A f \in ReadFields : f = Step.field => ReadHere(f)
<1> DEFINE file == <<Step.field, name>>
<1>1. /\ phase = "device" /\ node \in Nodes /\ tree \in Trees(node.files)
      /\ DOMAIN record = DOMAIN Blank /\ ReadFields \subseteq DOMAIN record
  BY RecordFields DEF ReadName, TypeOK, RecordShape
<1>2. Step.field \in ReadFields /\ Step.field \notin RuleFields /\ name \in 1..6
  BY NameIsRead, ReadOrRule
<1>3. CASE ~Gives(Read(file)) /\ record' = record
  BY <1>2, <1>3 DEF StepWrites, Written, RuleFields
<1>4. CASE /\ Gives(Read(file)) /\ record' = [record EXCEPT ![Step.field] = Origin(Read(file), name)]
  <2>1. Here /\ file \in DOMAIN tree /\ Read(file) = tree[file]
    BY <1>4 DEF Read, Gives
  <2>2. \A k \in 1 .. name - 1 : <<Step.field, k>> \in DOMAIN tree => ~Gives(tree[<<Step.field, k>>])
    BY <2>1 DEF FoundSoFar
  <2>3. FirstGiven(Step.field) = Origin(tree[file], name)
    BY <1>1, <1>2, <1>4, <2>1, <2>2, FirstIsGiven
  <2>4. FirstGiven(Step.field) \in Origins
    BY <1>2, <2>3, OriginIsOne
  <2>5. Advance /\ ~Unneeded(Step.field)
    BY <1>4, NameIsRead DEF ReadName
  <2>6. record[Step.field] = None
    BY <2>5 DEF Unneeded
  <2>7. ASSUME NEW f \in ReadFields PROVE Written(f) /\ (f = Step.field => ReadHere(f))
    BY <1>1, <1>4, <2>1, <2>3, <2>4, <2>5, <2>6 DEF Written, ReadHere
  <2> QED
    BY <1>2, <2>7 DEF StepWrites, RuleFields
<1> QED
  BY <1>3, <1>4, NameIsRead

LEMMA PassingWrites == TypeOK /\ PassAttribute => StepWrites
<1> SUFFICES ASSUME TypeOK, PassAttribute PROVE StepWrites
  OBVIOUS
<1>1. UNCHANGED record /\ Step.field \in ReadFields
  BY ReadOrRule DEF PassAttribute, TypeOK, Step
<1>2. Step.field \notin RuleFields
  BY <1>1, ReadOrRule
<1> QED
  BY <1>1, <1>2 DEF StepWrites, Written, RuleFields

LEMMA FilesStay ==
  ASSUME UNCHANGED tree, NEW f
  PROVE  FirstGiven(f)' = FirstGiven(f) /\ (Given(f)' <=> Given(f))
  BY DEF FirstGiven, Given

\* A value without a rule to explain it is what the files give: so they give it.
LEMMA ValueIsGiven ==
  ASSUME ValuesSoFar, NEW f \in {"device_id", "card_type", "dev_number", "usage_text", "mesh_text"},
         record[f] # None
  PROVE  Given(f)
<1>1. f \in ReadFields
  BY RuledFieldsAreRead DEF RuledFields
<1>2. ~Ruled(f)
  BY DEF Ruled
<1>3. record[f] = FirstGiven(f)
  BY <1>1, <1>2 DEF ValuesSoFar
<1> QED
  BY <1>3 DEF Given

LEMMA ValuesKept ==
  ASSUME TypeOK, ReadingStep, StepWrites, ValuesSoFar, RulesSoFar
  PROVE  ValuesSoFar'
<1>1. phase = "device" /\ UNCHANGED tree
  BY DEF ReadingStep, frame
<1>2. \A f \in ReadFields : (Sought(f) => Sought(f)')
  BY SoughtGrows DEF StepFields
<1>3. \A f : (Given(f)' <=> Given(f)) /\ FirstGiven(f)' = FirstGiven(f)
  BY <1>1, FilesStay
<1>4. ASSUME NEW f \in ReadFields, record'[f] = record[f]
      PROVE  /\ ~Sought(f)' /\ record'[f] # None =>
                  f \in {"used_bytes", "total_bytes"} /\ record'[f] = "usage" /\ Given("usage_text")'
             /\ record'[f] # None => record'[f] = FirstGiven(f)' \/ Ruled(f)'
  <2>1. Ruled(f)' <=> Ruled(f)
    BY <1>3, <1>4 DEF Ruled
  <2> QED
    BY <1>2, <1>3, <1>4, <2>1 DEF ValuesSoFar
<1>5. ASSUME NEW f \in ReadFields, ReadHere(f)
      PROVE  Sought(f)' /\ record'[f] = FirstGiven(f)'
  <2>1. Sought(f)'
    BY <1>5, SoughtGrows DEF ReadHere, StepFields
  <2> QED
    BY <1>3, <1>5, <2>1 DEF ReadHere
<1>6. ASSUME NEW f \in ReadFields,
             f = "architecture" /\ Step.field = "architecture_of_id",
             record'[f] = "pci_id" /\ record[f] = None /\ record.device_id # None
      PROVE  Sought(f)' /\ Ruled(f)'
  <2>1. Sought(f)'
    BY <1>1, <1>2, <1>6, RulesInOrder
  <2>2. Given("device_id") /\ ~Given(f)
    BY <1>6, ValueIsGiven DEF RulesSoFar
  <2> QED
    BY <1>3, <1>6, <2>1, <2>2 DEF Ruled
<1>7. ASSUME NEW f \in ReadFields, f = "board_type" /\ Step.field = "board",
             record'[f] = "firmware" /\ record.card_type # None
      PROVE  Sought(f)' /\ Ruled(f)'
  <2>1. Sought(f)'
    BY <1>1, <1>2, <1>7, RulesInOrder
  <2>2. Given("card_type")
    BY <1>7, ValueIsGiven
  <2> QED
    BY <1>3, <1>7, <2>1, <2>2 DEF Ruled
<1>8. ASSUME NEW f \in ReadFields, f \in {"used_bytes", "total_bytes"},
             record'[f] \in {"usage", None} /\ record.usage_text # None
      PROVE  record'[f] # None => record'[f] = "usage" /\ Given("usage_text")' /\ Ruled(f)'
  <2>1. Given("usage_text")
    BY <1>8, ValueIsGiven
  <2> QED
    BY <1>3, <1>8, <2>1 DEF Ruled
<1>9. ASSUME NEW f \in ReadFields, f \in {"mesh_rows", "mesh_cols"} /\ Step.field = "mesh",
             record'[f] = "grid" /\ record.mesh_text # None
      PROVE  Sought(f)' /\ Ruled(f)'
  <2>1. Sought(f)'
    BY <1>1, <1>2, <1>9, RulesInOrder
  <2>2. Given("mesh_text") /\ ~(Given("mesh_rows") /\ Given("mesh_cols"))
    BY <1>9, ValueIsGiven DEF RulesSoFar
  <2> QED
    BY <1>3, <1>9, <2>1, <2>2 DEF Ruled
<1> SUFFICES ASSUME NEW f \in ReadFields
             PROVE  /\ ~Sought(f)' /\ record'[f] # None =>
                         f \in {"used_bytes", "total_bytes"} /\ record'[f] = "usage" /\ Given("usage_text")'
                    /\ record'[f] # None => record'[f] = FirstGiven(f)' \/ Ruled(f)'
  BY DEF ValuesSoFar
<1>10. Written(f)
  BY DEF StepWrites
<1> QED
  BY <1>4, <1>5, <1>6, <1>7, <1>8, <1>9, <1>10 DEF Written

\* The fields without a rule that writes them: as they were, or read in this step.
LEMMA WrittenByReading ==
  ASSUME StepWrites, NEW f \in {"device_id", "card_type", "dev_number", "dev_name", "mesh_text"}
  PROVE  record'[f] = record[f] \/ ReadHere(f)
<1>1. f \in ReadFields
  BY RuledFieldsAreRead DEF RuledFields
<1> QED
  BY <1>1 DEF StepWrites, Written

LEMMA RulesKept ==
  ASSUME TypeOK, ReadingStep, StepWrites, ValuesSoFar, FoundSoFar, RulesSoFar
  PROVE  RulesSoFar'
<1>1. phase = "device" /\ UNCHANGED tree
  BY DEF ReadingStep, frame
<1>2. \A f : Given(f)' <=> Given(f)
  BY <1>1, FilesStay
<1>3. RuledFields \subseteq ReadFields /\ \A f \in RuledFields : Written(f)
  BY RuledFieldsAreRead DEF StepWrites
<1>4. None \notin Origins /\ "grid" \notin Origins
  BY DEF None, Origins
<1>5. record'.device_id # None => record'.architecture # None \/ ~Given("architecture")'
  <2>1. record.architecture # None => record'.architecture # None
    <3>1. Written("architecture")
      BY <1>3 DEF RuledFields
    <3> QED
      BY <1>4, <3>1 DEF Written, ReadHere, None
  <2>2. CASE record'.device_id = record.device_id
    BY <1>2, <2>1, <2>2 DEF RulesSoFar
  <2>3. CASE ReadHere("device_id")
    <3>1. Here /\ Sought("architecture")
      BY <1>1, <2>3, RulesInOrder DEF ReadHere
    <3>2. Given("architecture") => record.architecture # None
      BY <1>3, <3>1 DEF FoundSoFar, Unneeded, RuledFields
    <3> QED
      BY <1>2, <2>1, <3>2
  <2> QED
    BY <2>2, <2>3, WrittenByReading
<1>6. record'.dev_name # None => Given("dev_number")'
  <2>1. CASE record'.dev_name = record.dev_name
    BY <1>2, <2>1 DEF RulesSoFar
  <2>2. CASE ReadHere("dev_name")
    <3>1. record.dev_number # None
      BY <2>2 DEF ReadHere, Unneeded
    <3> QED
      BY <1>2, <3>1, ValueIsGiven
  <2> QED
    BY <2>1, <2>2, WrittenByReading
<1>7. record'.mesh_text # None => ~(Given("mesh_rows")' /\ Given("mesh_cols")')
  <2>1. CASE record'.mesh_text = record.mesh_text
    BY <1>2, <2>1 DEF RulesSoFar
  <2>2. CASE ReadHere("mesh_text")
    <3>1. Here /\ Sought("mesh_rows") /\ Sought("mesh_cols")
      BY <1>1, <2>2, RulesInOrder DEF ReadHere
    <3>2. ~(record.mesh_rows # None /\ record.mesh_cols # None)
      BY <2>2 DEF ReadHere, Unneeded
    <3>3. /\ Given("mesh_rows") => record.mesh_rows # None
          /\ Given("mesh_cols") => record.mesh_cols # None
      BY <1>3, <3>1 DEF FoundSoFar, Unneeded, RuledFields
    <3> QED
      BY <1>2, <3>2, <3>3
  <2> QED
    BY <2>1, <2>2, WrittenByReading
<1>8. record'.mesh_rows = "grid" <=> record'.mesh_cols = "grid"
  <2>1. CASE Step.field = "mesh"
    BY <2>1 DEF StepWrites, RulesSoFar
  <2>2. CASE Step.field # "mesh"
    <3>1. /\ record'.mesh_rows = record.mesh_rows \/ ReadHere("mesh_rows")
          /\ record'.mesh_cols = record.mesh_cols \/ ReadHere("mesh_cols")
      BY <1>3, <2>2 DEF Written, RuledFields
    <3>2. ReadHere("mesh_rows") => record.mesh_rows = None /\ record'.mesh_rows # "grid"
      BY <1>4 DEF ReadHere
    <3>3. ReadHere("mesh_cols") => record.mesh_cols = None /\ record'.mesh_cols # "grid"
      BY <1>4 DEF ReadHere
    <3>4. record.mesh_rows = "grid" <=> record.mesh_cols = "grid"
      BY DEF RulesSoFar
    <3> QED
      BY <3>1, <3>2, <3>3, <3>4 DEF None
  <2> QED
    BY <2>1, <2>2
<1>9. Sought("board")' /\ record'.card_type # None => record'.board_type = "firmware"
  <2>1. CASE Step.field = "board"
    BY <2>1, WrittenByReading DEF ReadHere, StepWrites
  <2>2. CASE Step.field # "board"
    <3>1. Sought("board")' <=> Sought("board")
      BY <2>2, SoughtGrows DEF RuleFields
    <3>2. ASSUME Sought("board") PROVE record'.card_type = record.card_type /\ record'.board_type = record.board_type
      <4>1. Step.field \notin {"card_type", "board_type"}
        BY <1>1, <3>2, RulesInOrder
      <4>2. Written("board_type")
        BY <1>3 DEF RuledFields
      <4> QED
        BY <2>2, <4>1, <4>2, WrittenByReading DEF Written, ReadHere
    <3> QED
      BY <3>1, <3>2 DEF RulesSoFar
  <2> QED
    BY <2>1, <2>2
<1> QED
  BY <1>5, <1>6, <1>7, <1>8, <1>9 DEF RulesSoFar

\* What is not needed before a step is not needed after it.
LEMMA UnneededStays ==
  ASSUME TypeOK, ReadingStep, StepWrites, NEW f \in ReadFields, Sought(f) \/ ReadHere(f) \/ Step.field = f,
         Unneeded(f) \/ ReadHere(f)
  PROVE  Unneeded(f)'
<1>1. phase = "device" /\ ~Sought(Step.field)
  BY SoughtGrows DEF ReadingStep
<1>2. \A g \in RuledFields \cup {f} : Written(g)
  BY RuledFieldsAreRead DEF StepWrites
<1>3. None \notin Origins
  BY DEF None, Origins
<1>4. ASSUME record[f] # None PROVE record'[f] # None
  <2>1. ~ (f \in {"used_bytes", "total_bytes"} /\ Step.field = "usage")
    BY <1>1, RulesInOrder DEF ReadHere
  <2> QED
    BY <1>2, <1>3, <1>4, <2>1 DEF Written, ReadHere, None
<1>5. CASE ReadHere(f)
  BY <1>3, <1>5 DEF ReadHere, Unneeded
<1>6. CASE f = "dev_name" /\ record.dev_number = None
  <2>1. Step.field # "dev_number"
    BY <1>1, <1>6, RulesInOrder DEF ReadHere
  <2>2. record'.dev_number = record.dev_number
    BY <2>1, WrittenByReading DEF ReadHere
  <2> QED
    BY <1>6, <2>2 DEF Unneeded
<1>7. CASE f = "mesh_text" /\ record.mesh_rows # None /\ record.mesh_cols # None
  <2>1. Written("mesh_rows") /\ Written("mesh_cols")
    BY <1>2 DEF RuledFields
  <2>2. record'.mesh_rows # None /\ record'.mesh_cols # None
    BY <1>3, <1>7, <2>1 DEF Written, ReadHere, None
  <2> QED
    BY <1>7, <2>2 DEF Unneeded
<1> QED
  BY <1>4, <1>5, <1>6, <1>7 DEF Unneeded

\* When the plan advances past a field of a device that is there, its value is not needed,
\* or just found, or no file gives one.
LEMMA SearchIsOver ==
  ASSUME TypeOK, RecordShape, FoundSoFar, Here, PassAttribute \/ ReadName \/ RuleInPlan,
         Advance, NEW f \in ReadFields, f = Step.field, Given(f)
  PROVE  Unneeded(f) \/ ReadHere(f)
<1>1. phase = "device" /\ at \in DOMAIN Plan /\ node \in Nodes /\ tree \in Trees(node.files)
  BY PassIsReading, NameIsReading, RuleIsReading DEF ReadingStep, RecordShape, TypeOK
<1>2. CASE PassAttribute
  BY <1>2 DEF PassAttribute
<1>3. CASE RuleInPlan
  <2>1. Step.field \in RuleFields
    BY <1>3 DEF RuleInPlan, NameBoard, InferArchitecture, ListSensors, ListResources, ListCounters,
                ParseUsage, ParseMesh, NameSource, ListLinks, Listing, Apply, InDevice, RuleFields
  <2> QED
    BY <2>1, ReadOrRule
<1>4. CASE ReadName
  <2> DEFINE file == <<Step.field, name>>
  <2>1. CASE Gives(Read(file))
    BY <1>4, <2>1, ReadingWrites
  <2>2. CASE ~Gives(Read(file))
    <3>1. name = Len(Step.readers) /\ name \in 1..6
      <4>1. name \in 1..6 /\ (name = Len(Step.readers) \/ (name' = name + 1 /\ UNCHANGED at))
        BY <1>4, <2>2, NameIsRead
      <4>2. name' = 1
        BY DEF Advance
      <4> QED
        BY <4>1, <4>2
    <3>2. PICK g \in DOMAIN tree : g[1] = f /\ Gives(tree[g])
      BY <1>1, FirstIsGiven
    <3>3. g = <<f, g[2]>> /\ g[2] \in DOMAIN Readers(f)
      BY <1>1, <3>2, FileOfDevice
    <3>4. Readers(f) = Step.readers /\ DOMAIN Step.readers = 1..Len(Step.readers)
      BY <1>1, StepsInOrder, PlanIsList DEF Readers, Step
    <3>5. g[2] \in 1..name
      BY <3>1, <3>3, <3>4
    <3>6. g[2] # name
      BY <2>2, <3>2, <3>3 DEF Read
    <3>7. g[2] \in 1 .. name - 1
      BY <3>1, <3>5, <3>6
    <3> QED
      BY <3>2, <3>3, <3>7 DEF FoundSoFar
  <2> QED
    BY <2>1, <2>2
<1> QED
  BY <1>2, <1>3, <1>4

\* A search that goes on has not found anything in the alternatives so far.
LEMMA SearchGoesOn ==
  ASSUME TypeOK, PassAttribute \/ ReadName \/ RuleInPlan, ~Advance
  PROVE  ReadName /\ ~Gives(Read(<<Step.field, name>>)) /\ name' = name + 1 /\ UNCHANGED at
         /\ name \in 1..6
<1>1. PassAttribute \/ RuleInPlan => Advance
  BY DEF PassAttribute, RuleInPlan, NameBoard, InferArchitecture, ListSensors, ListResources,
         ListCounters, ParseUsage, ParseMesh, NameSource, ListLinks, Listing, Apply
<1> QED
  BY <1>1, NameIsRead

LEMMA FoundKept ==
  ASSUME TypeOK, RecordShape, FoundSoFar, PassAttribute \/ ReadName \/ RuleInPlan,
         ReadingStep, StepWrites
  PROVE  FoundSoFar'
<1>1. phase = "device" /\ UNCHANGED <<tree, node, device, present>> /\ (Here' <=> Here)
      /\ tree \in Trees(node.files) /\ node \in Nodes
  BY DEF ReadingStep, frame, Here, RecordShape, TypeOK
<1>2. \A f : Given(f)' <=> Given(f)
  BY <1>1, FilesStay
<1>3. ASSUME Here, NEW f \in ReadFields, Sought(f)', Given(f)
      PROVE  Unneeded(f)'
  <2>1. CASE Sought(f)
    <3>1. Unneeded(f)
      BY <1>3, <2>1 DEF FoundSoFar
    <3> QED
      BY <2>1, <3>1, UnneededStays
  <2>2. CASE ~Sought(f) /\ f = Step.field /\ Advance
    <3>1. Unneeded(f) \/ ReadHere(f)
      BY <1>3, <2>2, SearchIsOver
    <3> QED
      BY <2>2, <3>1, UnneededStays
  <2>3. CASE ~Sought(f) /\ \A file \in node.files : file[1] # f
    <3>1. DOMAIN tree = node.files
      BY <1>1 DEF Trees
    <3> QED
      BY <1>1, <1>3, <2>3, <3>1, FirstIsGiven
  <2>4. f \in StepFields
    BY DEF StepFields
  <2> QED
    BY <1>3, <2>1, <2>2, <2>3, <2>4, SoughtGrows
<1>4. ASSUME Here, NEW i \in 1 .. name' - 1, <<Step.field', i>> \in DOMAIN tree
      PROVE  ~Gives(tree[<<Step.field', i>>])
  <2>1. ~Advance
    <3> SUFFICES ASSUME Advance PROVE FALSE
      OBVIOUS
    <3>1. name' = 1
      BY DEF Advance
    <3> QED
      BY <3>1
  <2>2. /\ ~Gives(Read(<<Step.field, name>>)) /\ name' = name + 1 /\ name \in 1..6 /\ Step' = Step
    BY <2>1, SearchGoesOn DEF Step
  <2>3. i \in 1 .. name - 1 \/ i = name
    BY <2>2
  <2>4. CASE i = name
    BY <1>4, <2>2, <2>4 DEF Read
  <2>5. CASE i \in 1 .. name - 1
    BY <1>4, <2>2, <2>5 DEF FoundSoFar
  <2> QED
    BY <2>3, <2>4, <2>5
<1> QED
  BY <1>1, <1>2, <1>3, <1>4 DEF FoundSoFar

\* A damaged file leaves an issue, unless it is not read because it is not needed.
LEMMA DamageKept ==
  ASSUME TypeOK, RecordShape, FoundSoFar, DamageSoFar, PassAttribute \/ ReadName \/ RuleInPlan,
         ReadingStep, StepWrites
  PROVE  DamageSoFar'
<1>1. phase = "device" /\ UNCHANGED <<tree, node, device, present>> /\ (Here' <=> Here)
      /\ tree \in Trees(node.files) /\ node \in Nodes /\ (issues' = 0 => issues = 0)
      /\ at \in DOMAIN Plan
  BY DEF ReadingStep, frame, Here, RecordShape, TypeOK
<1> SUFFICES ASSUME Here, issues' = 0, NEW f \in DOMAIN tree, tree[f] \in {"failed", "refused", "raises"}
             PROVE  /\ Sought(f[1])' => Unneeded(f[1])'
                    /\ Place[f[1]] = at' => f[2] >= name'
  BY <1>1 DEF DamageSoFar
<1>2. /\ f = <<f[1], f[2]>> /\ f \in node.files /\ f[1] \in ReadFields /\ f[1] \in StepFields
      /\ f[2] \in 1..6 /\ f[2] \in DOMAIN Readers(f[1])
  BY <1>1, FileOfDevice DEF StepFields
<1>3. /\ Sought(f[1]) => Unneeded(f[1])
      /\ Place[f[1]] = at => f[2] >= name
  BY <1>1 DEF DamageSoFar
<1>4. f[1] = Step.field <=> Place[f[1]] = at
  BY <1>1, <1>2, StepsInOrder
<1>5. ~Gives(tree[f]) /\ (Counted(tree[f]) \/ tree[f] = "raises")
  BY DEF Gives, Counted
<1>6. ASSUME ReadName PROVE f # <<Step.field, name>>
  <2> SUFFICES ASSUME f = <<Step.field, name>> PROVE FALSE
    OBVIOUS
  <2>0. Read(<<Step.field, name>>) # "raises"
    BY <1>6 DEF ReadName
  <2>1. Counted(Read(<<Step.field, name>>))
    BY <1>5, <2>0 DEF Read
  <2>2. issues' = issues + 1 /\ issues \in Nat
    BY <1>6, <2>1, NameIsRead DEF TypeOK
  <2> QED
    BY <2>2
<1>7. ASSUME Place[f[1]] = at' PROVE f[2] >= name'
  <2>1. CASE Advance
    BY <1>2, <2>1 DEF Advance
  <2>2. CASE ~Advance
    <3>1. ReadName /\ name' = name + 1 /\ at' = at /\ name \in 1..6
      BY <2>2, SearchGoesOn
    <3>2. f[2] >= name /\ f[1] = Step.field
      BY <1>3, <1>4, <1>7, <3>1
    <3>3. f[2] # name
      BY <1>2, <1>6, <3>1, <3>2
    <3> QED
      BY <1>2, <3>1, <3>2, <3>3
  <2> QED
    BY <2>1, <2>2
<1>8. ASSUME f[1] = Step.field, Advance PROVE Unneeded(f[1]) \/ ReadHere(f[1])
  <2>1. CASE PassAttribute
    BY <1>8, <2>1 DEF PassAttribute
  <2>2. CASE RuleInPlan
    <3>1. Step.field \in RuleFields
      BY <2>2 DEF RuleInPlan, NameBoard, InferArchitecture, ListSensors, ListResources, ListCounters,
                ParseUsage, ParseMesh, NameSource, ListLinks, Listing, Apply, InDevice, RuleFields
    <3> QED
      BY <1>2, <1>8, <3>1, ReadOrRule
  <2>3. CASE ReadName
    <3>1. CASE Gives(Read(<<Step.field, name>>))
      BY <1>2, <1>8, <2>3, <3>1, ReadingWrites
    <3>2. CASE ~Gives(Read(<<Step.field, name>>))
      <4>1. name \in 1..6 /\ (name = Len(Step.readers) \/ name' = name + 1)
        BY <2>3, <3>2, NameIsRead
      <4>2. name = Len(Step.readers)
        BY <1>8, <4>1 DEF Advance
      <4>3. Readers(f[1]) = Step.readers /\ DOMAIN Step.readers = 1..Len(Step.readers)
        BY <1>1, <1>4, <1>8, PlanIsList DEF Readers, Step
      <4>4. f[2] \in 1..name /\ f[2] >= name
        BY <1>2, <1>3, <1>4, <1>8, <4>2, <4>3
      <4>5. f[2] = name
        BY <4>1, <4>4
      <4> QED
        BY <1>2, <1>6, <1>8, <2>3, <4>5
    <3> QED
      BY <3>1, <3>2
  <2> QED
    BY <2>1, <2>2, <2>3
<1>9. ASSUME Sought(f[1])' PROVE Unneeded(f[1])'
  <2> DEFINE field == f[1]
  <2>1. field \in ReadFields /\ field \in StepFields /\ Sought(field)'
    BY <1>2, <1>9
  <2>2. \/ Sought(field)
        \/ field = Step.field /\ Advance
        \/ \A file \in node.files : file[1] # field
    <3> HIDE DEF field
    <3> QED
      BY <2>1, SoughtGrows
  <2>3. Sought(field) \/ (field = Step.field /\ Advance)
    BY <1>2, <2>2
  <2>4. Unneeded(field) \/ ReadHere(field)
    BY <1>3, <1>8, <2>3
  <2>5. Unneeded(field)'
    <3> HIDE DEF field
    <3> QED
      BY <2>1, <2>3, <2>4, UnneededStays
  <2> QED
    BY <2>5
<1> QED
  BY <1>7, <1>9

LEMMA ReadingKeepsRecord ==
  TypeOK /\ RecordShape /\ RecordInProgress /\ (PassAttribute \/ ReadName \/ RuleInPlan)
  => RecordInProgress'
<1> SUFFICES ASSUME TypeOK, RecordShape, RecordInProgress, PassAttribute \/ ReadName \/ RuleInPlan
             PROVE  RecordInProgress'
  OBVIOUS
<1>1. ReadingStep
  BY PassIsReading, NameIsReading, RuleIsReading
<1>2. ValuesSoFar /\ FoundSoFar /\ RulesSoFar /\ DamageSoFar
  BY <1>1 DEF ReadingStep, RecordInProgress
<1>3. StepWrites
  BY <1>2, PassingWrites, ReadingWrites, RulesWrite
<1> QED
  BY <1>1, <1>2, <1>3, ValuesKept, RulesKept, FoundKept, DamageKept DEF RecordInProgress

\* Fields that are passed over at the start have no file; the record is blank.
LEMMA BeginStartsRecord == TypeOK /\ BeginDevice => RecordInProgress'
<1> SUFFICES ASSUME TypeOK, BeginDevice PROVE RecordInProgress'
  OBVIOUS
<1>1. /\ tree' \in Trees(node.files) /\ node \in Nodes /\ at' = StepAfter(0) /\ name' = 1
      /\ record' = Blank
  BY DEF BeginDevice, TypeOK
<1>2. DOMAIN tree' = node.files
  BY <1>1 DEF Trees
<1>3. \A f \in ReadFields : record'[f] = None
  BY <1>1, BlankRecord, RecordFields
<1>4. RuledFields \subseteq ReadFields
  BY RuledFieldsAreRead
<1>5. ASSUME NEW f \in ReadFields, Sought(f)' PROVE \A file \in node.files : file[1] # f
  <2>1. Place[f] \in DOMAIN Plan /\ Plan[Place[f]].field = f
    BY PlaceOfStep DEF StepFields
  <2>2. Place[f] \in Nat /\ 0 < Place[f] /\ Place[f] < StepAfter(0)
    BY <1>1, <1>5, <2>1, PlanIsList DEF Sought
  <2>3. 0 \in 0..(Len(Plan) - 1)
    BY PlanIsList
  <2> QED
    BY <2>1, <2>2, <2>3, NextStep
<1>6. ValuesSoFar'
  BY <1>3 DEF ValuesSoFar
<1>7. FoundSoFar'
  <2>1. ASSUME NEW f \in ReadFields, Sought(f)' PROVE ~Given(f)'
    <3>1. {g \in DOMAIN tree' : g[1] = f /\ Gives(tree'[g])} = {}
      BY <1>2, <1>5, <2>1
    <3> QED
      BY <3>1 DEF Given, FirstGiven
  <2>2. 1 .. name' - 1 = {}
    BY <1>1
  <2> QED
    BY <2>1, <2>2 DEF FoundSoFar
<1>8. RulesSoFar'
  BY <1>3, <1>4 DEF RulesSoFar, RuledFields, None
<1>9. DamageSoFar'
  <2>1. ASSUME NEW f \in DOMAIN tree' PROVE ~Sought(f[1])' /\ f[2] >= name'
    <3>1. f[1] \in ReadFields /\ f[2] \in 1..6 /\ f \in node.files
      BY <1>1, <1>2, FileOfPlan
    <3> QED
      BY <1>1, <1>5, <3>1
  <2> QED
    BY <2>1 DEF DamageSoFar
<1> QED
  BY <1>6, <1>7, <1>8, <1>9 DEF RecordInProgress

\* A device that goes away is no longer asked for what its files give.
LEMMA OtherStepsKeepRecord ==
  RecordInProgress
    /\ (ScanFails \/ Scan \/ SkipEntry \/ Vanish \/ UNCHANGED vars \/ PopulateState \/ Finish
          \/ CollectionRaises)
  => RecordInProgress'
<1> SUFFICES ASSUME RecordInProgress,
                    ScanFails \/ Scan \/ SkipEntry \/ Vanish \/ UNCHANGED vars \/ PopulateState \/ Finish
                      \/ CollectionRaises
             PROVE  RecordInProgress'
  OBVIOUS
<1>1. CASE phase' # "device"
  BY <1>1 DEF RecordInProgress
<1>2. CASE phase' = "device"
  <2>1. phase = "device" /\ UNCHANGED <<tree, at, name, record, issues>> /\ (Here' => Here)
    BY <1>2 DEF ScanFails, Scan, SkipEntry, Vanish, PopulateState, Finish, CollectionRaises,
              vars, deviceVars, Here
  <2>2. ValuesSoFar /\ FoundSoFar /\ RulesSoFar /\ DamageSoFar
    BY <2>1 DEF RecordInProgress
  <2>3. \A f : /\ (Sought(f)' <=> Sought(f)) /\ (Given(f)' <=> Given(f)) /\ FirstGiven(f)' = FirstGiven(f)
               /\ (Unneeded(f)' <=> Unneeded(f)) /\ (Ruled(f)' <=> Ruled(f))
    BY <2>1 DEF Sought, Given, FirstGiven, Unneeded, Ruled
  <2>4. ValuesSoFar'
    BY <2>1, <2>2, <2>3 DEF ValuesSoFar
  <2>5. FoundSoFar'
    BY <2>1, <2>2, <2>3 DEF FoundSoFar, Step
  <2>6. RulesSoFar'
    BY <2>1, <2>2, <2>3 DEF RulesSoFar
  <2>7. DamageSoFar'
    BY <2>1, <2>2, <2>3 DEF DamageSoFar
  <2> QED
    BY <2>4, <2>5, <2>6, <2>7 DEF RecordInProgress
<1> QED
  BY <1>1, <1>2

THEOREM RecordInvariance == Spec => []RecordInProgress
<1>1. Init => RecordInProgress
  BY DEF Init, RecordInProgress
<1>2. TypeOK /\ RecordShape /\ RecordInProgress /\ [Next]_vars => RecordInProgress'
  BY Steps, ReadingKeepsRecord, BeginStartsRecord, OtherStepsKeepRecord
<1> QED
  BY <1>1, <1>2, TypeCorrect, ShapeInvariance, PTL DEF Spec

\* What a field may have when everything was read, field by field.
LEMMA CompleteValues ==
  ASSUME NEW f
  PROVE  /\ f = "architecture" =>
              Complete(f) = IF ~Given(f) /\ Given("device_id") THEN {None, "pci_id"} ELSE {FirstGiven(f)}
         /\ f = "board_type" =>
              Complete(f) = IF Given("card_type") THEN {"firmware"} ELSE {FirstGiven(f)}
         /\ f \in {"used_bytes", "total_bytes"} =>
              Complete(f) = IF Given("usage_text") THEN {"usage", FirstGiven(f)} ELSE {FirstGiven(f)}
         /\ f \in {"mesh_rows", "mesh_cols"} =>
              Complete(f) = IF Given("mesh_text") /\ ~(Given("mesh_rows") /\ Given("mesh_cols"))
                            THEN {"grid", FirstGiven(f)} ELSE {FirstGiven(f)}
         /\ f = "dev_name" =>
              Complete(f) = IF ~Given("dev_number") THEN {None} ELSE {FirstGiven(f)}
         /\ f \notin {"architecture", "board_type", "used_bytes", "total_bytes", "mesh_rows", "mesh_cols",
                      "dev_name"} => Complete(f) = {FirstGiven(f)}
<1>1. CASE f = "architecture"
  BY <1>1 DEF Complete
<1>2. CASE f = "board_type"
  BY <1>2 DEF Complete
<1>3. CASE f \in {"used_bytes", "total_bytes"}
  BY <1>3 DEF Complete
<1>4. CASE f \in {"mesh_rows", "mesh_cols"}
  BY <1>4 DEF Complete
<1>5. CASE f = "dev_name"
  BY <1>5 DEF Complete
<1>6. CASE f \notin {"architecture", "board_type", "used_bytes", "total_bytes", "mesh_rows", "mesh_cols",
                     "dev_name"}
  BY <1>6 DEF Complete
<1> QED
  BY <1>1, <1>2, <1>3, <1>4, <1>5, <1>6

\* At any moment, a value is one that the finished record may have, or is replaced later.
LEMMA ValuesAreOfFiles ==
  ASSUME ValuesSoFar, RulesSoFar, NEW f \in ReadFields, record[f] # None
  PROVE  \/ record[f] \in Complete(f)
         \/ f \in {"board_type", "mesh_rows", "mesh_cols"} /\ record[f] = FirstGiven(f)
<1>1. record[f] = FirstGiven(f) \/ Ruled(f)
  BY DEF ValuesSoFar
<1>2. CASE Ruled(f)
  BY <1>2, CompleteValues DEF Ruled
<1>3. CASE record[f] = FirstGiven(f)
  <2>1. Given(f)
    BY <1>3 DEF Given
  <2>2. f = "dev_name" => Given("dev_number")
    BY DEF RulesSoFar
  <2> QED
    BY <1>3, <2>1, <2>2, CompleteValues
<1> QED
  BY <1>1, <1>2, <1>3

\* A device that goes away while it is read leaves gaps in its record, never a value that
\* its files would not have given.
THEOREM VanishingLeavesGaps == Spec => []VanishedLeavesGaps
<1>1. RecordInProgress => VanishedLeavesGaps
  <2> SUFFICES ASSUME RecordInProgress, phase = "device", NEW f \in FromFiles, record[f] # None
               PROVE  \/ record[f] \in Complete(f)
                      \/ f \in {"board_type", "mesh_rows", "mesh_cols"} /\ record[f] = FirstGiven(f)
    BY DEF VanishedLeavesGaps
  <2> QED
    BY ValuesAreOfFiles DEF RecordInProgress, FromFiles
<1> QED
  BY <1>1, RecordInvariance, PTL

\* When the state directories are next, everything has been sought.
LEMMA AllIsSought ==
  ASSUME TypeOK, InDevice("state")
  PROVE  (\A f \in ReadFields : Sought(f)) /\ Sought("board")
<1>1. phase = "device" /\ at = Len(Plan) /\ at \in Nat
  <2>1. at \in DOMAIN Plan /\ Plan[at].field = Plan[Len(Plan)].field
    BY PlanIsList DEF InDevice, TypeOK, Step
  <2>2. Len(Plan) \in DOMAIN Plan
    BY PlanIsList
  <2> QED
    BY <2>1, <2>2, PlanIsList, PlaceOfStep DEF InDevice
<1>2. \A f \in StepFields : f # "state" => Place[f] \in DOMAIN Plan /\ Place[f] # at
  BY <1>1, PlaceOfStep, PlanIsList
<1>3. \A f \in StepFields : f # "state" => Place[f] < at
  BY <1>1, <1>2, PlanIsList
<1>4. "state" \notin ReadFields
  BY ReadOrRule DEF RuleFields
<1> QED
  BY <1>3, <1>4 DEF Sought, StepFields, RuleFields

\* A device that stays is exported with what its files say: no file that could be read and
\* is needed is left out, the card type of the firmware names the board, and the grid is
\* of one source.
THEOREM RecordsAreComplete == Spec => []RecordIsComplete
<1>1. TypeOK /\ RecordInProgress => RecordIsComplete
  <2> SUFFICES ASSUME TypeOK, RecordInProgress, InDevice("state"), Here
               PROVE  /\ \A f \in FromFiles : record[f] \in Complete(f)
                      /\ record.mesh_rows = "grid" <=> record.mesh_cols = "grid"
    BY DEF RecordIsComplete
  <2>1. ValuesSoFar /\ FoundSoFar /\ RulesSoFar
    BY DEF InDevice, RecordInProgress
  <2>2. (\A f \in ReadFields : Given(f) => Unneeded(f)) /\ Sought("board")
    BY <2>1, AllIsSought DEF FoundSoFar
  <2>3. RuledFields \subseteq ReadFields
    BY RuledFieldsAreRead
  <2>4. Given("card_type") => record.board_type = "firmware"
    <3>1. Given("card_type") => record.card_type # None
      BY <2>2, <2>3 DEF RuledFields, Unneeded
    <3> QED
      BY <2>1, <2>2, <3>1 DEF RulesSoFar
  <2>5. ASSUME NEW f \in FromFiles PROVE record[f] \in Complete(f)
    <3>1. f \in ReadFields /\ f # "mesh_text"
      BY DEF FromFiles, Texts
    <3>2. CASE record[f] # None
      <4>1. CASE record[f] \in Complete(f)
        BY <4>1
      <4>2. CASE f \in {"board_type", "mesh_rows", "mesh_cols"} /\ record[f] = FirstGiven(f)
        BY <2>4, <4>2, CompleteValues
      <4> QED
        BY <2>1, <3>1, <3>2, <4>1, <4>2, ValuesAreOfFiles
    <3>3. CASE record[f] = None /\ f # "dev_name"
      <4>1. FirstGiven(f) = None
        BY <2>2, <3>1, <3>3 DEF Unneeded, Given
      <4>2. f = "board_type" => ~Given("card_type")
        BY <2>4, <3>3 DEF None
      <4> QED
        BY <3>3, <4>1, <4>2, CompleteValues
    <3>4. CASE record[f] = None /\ f = "dev_name"
      <4>1. Given("dev_number") => record.dev_number # None
        BY <2>2, <2>3 DEF RuledFields, Unneeded
      <4>2. Given("dev_number") => FirstGiven(f) = None
        BY <2>2, <3>1, <3>4, <4>1 DEF Unneeded, Given
      <4> QED
        BY <3>4, <4>2, CompleteValues
    <3> QED
      BY <3>2, <3>3, <3>4
  <2> QED
    BY <2>1, <2>5 DEF RulesSoFar
<1> QED
  BY <1>1, TypeCorrect, RecordInvariance, PTL

\* When a device that stays has been read without an issue, a file whose field has no value
\* is one whose text its reader ignores without counting it.
THEOREM NoSilentDamage == Spec => []GapsAreExplained
<1>1. TypeOK /\ RecordShape /\ RecordInProgress => GapsAreExplained
  <2> SUFFICES ASSUME TypeOK, RecordShape, RecordInProgress, InDevice("state"), Here, issues = 0,
                      NEW f \in DOMAIN tree, tree[f] # "ignored"
               PROVE  Unneeded(f[1])
    BY DEF GapsAreExplained
  <2>1. DamageSoFar /\ FoundSoFar /\ node \in Nodes /\ tree \in Trees(node.files)
    BY DEF InDevice, RecordInProgress, RecordShape, TypeOK
  <2>2. f[1] \in ReadFields /\ f[1] \in StepFields /\ f = <<f[1], f[2]>> /\ f[2] \in 1..6
        /\ Readers(f[1])[f[2]] \in DOMAIN Outcomes
        /\ tree[f] \in Outcomes[Readers(f[1])[f[2]]] \ {"missing"}
    BY <2>1, FileOfDevice DEF StepFields
  <2>3. Sought(f[1])
    BY <2>2, AllIsSought
  <2>4. Gives(tree[f]) \/ tree[f] \in {"failed", "refused", "raises"}
    <3>1. \A r \in DOMAIN Outcomes : Outcomes[r] \subseteq
            {"missing", "failed", "refused", "ignored", "raises", "empty", "value"}
      BY DEF Outcomes
    <3> QED
      BY <2>2, <3>1 DEF Gives
  <2>5. CASE tree[f] \in {"failed", "refused", "raises"}
    BY <2>1, <2>3, <2>5 DEF DamageSoFar
  <2>6. CASE Gives(tree[f])
    <3>1. Given(f[1])
      BY <2>1, <2>2, <2>6, FirstIsGiven
    <3> QED
      BY <2>1, <2>2, <2>3, <3>1 DEF FoundSoFar
  <2> QED
    BY <2>4, <2>5, <2>6
<1> QED
  BY <1>1, TypeCorrect, ShapeInvariance, RecordInvariance, PTL
-----------------------------------------------------------------------------
(***************************************************************************)
(* The parsers: loops over a text.                                         *)
(***************************************************************************)

\* What holds before a loop and is kept by every turn holds after any number of turns.
LEMMA LoopKeeps ==
  ASSUME NEW len \in Nat, NEW T \in SUBSET (0..len),
         0 \in T, \A n \in 1..len : n - 1 \in T => n \in T
  PROVE  \A n \in 0..len : n \in T
<1> DEFINE rest == (0..len) \ T
<1> SUFFICES ASSUME rest # {} PROVE FALSE
  OBVIOUS
<1>1. rest \in SUBSET Nat
  OBVIOUS
<1>2. Min(rest) \in rest /\ \A m \in rest : Min(rest) <= m
  <2> HIDE DEF rest
  <2> QED
    BY <1>1, MinOfNumbers
<1> DEFINE n == Min(rest)
<1>3. n \in 1..len /\ n - 1 \in 0..len /\ n - 1 \notin rest
  <2>1. n \in 0..len /\ n # 0
    BY <1>2
  <2> HIDE DEF n
  <2>2. n - 1 \in Nat /\ ~ (n <= n - 1) /\ n \in 1..len /\ n - 1 \in 0..len
    BY <2>1
  <2> QED
    BY <1>2, <2>2 DEF n
<1> QED
  BY <1>2, <1>3

Loops(f, first, len, turn) == f[0] = first /\ \A n \in 1..len : f[n] = turn[n][f[n - 1]]

\* A loop whose turns stay in a set defines a function of the number of turns.
LEMMA LoopExists ==
  ASSUME NEW S, NEW len \in Nat, NEW first \in S, NEW turn \in [1..len -> [S -> S]]
  PROVE  \E f \in [0..len -> S] : Loops(f, first, len, turn)
<1> DEFINE Runs(f, k) == /\ f \in [0..len -> S]
                         /\ \A n \in 0..k : f[n] = IF n = 0 THEN first ELSE turn[n][f[n - 1]]
           T == {k \in 0..len : \E f : Runs(f, k)}
<1>1. 0 \in T
  <2>1. Runs([n \in 0..len |-> first], 0)
    OBVIOUS
  <2>2. 0 \in 0..len
    OBVIOUS
  <2> HIDE DEF Runs
  <2> QED
    BY <2>1, <2>2
<1>2. ASSUME NEW k \in 1..len, k - 1 \in T PROVE k \in T
  <2>1. PICK f : Runs(f, k - 1)
    BY <1>2
  <2> DEFINE g == [n \in 0..len |-> IF n = k THEN turn[k][f[k - 1]] ELSE f[n]]
  <2>2. k - 1 \in 0..len /\ k \in 0..len /\ turn[k][f[k - 1]] \in S
    BY <2>1
  <2>3. g \in [0..len -> S]
    BY <2>1, <2>2
  <2>4. ASSUME NEW n \in 0..k PROVE g[n] = IF n = 0 THEN first ELSE turn[n][g[n - 1]]
    <3>1. CASE n = k
      BY <2>2, <3>1
    <3>2. CASE n # k
      <4>1. n \in 0..(k - 1) /\ n \in 0..len /\ (n # 0 => n - 1 \in 0..len /\ n - 1 # k)
        BY <3>2
      <4>2. f[n] = IF n = 0 THEN first ELSE turn[n][f[n - 1]]
        BY <2>1, <4>1
      <4> QED
        BY <3>2, <4>1, <4>2
    <3> QED
      BY <3>1, <3>2
  <2> QED
    BY <2>2, <2>3, <2>4
<1>3. len \in T
  <2>1. T \in SUBSET (0..len) /\ len \in 0..len
    OBVIOUS
  <2> HIDE DEF T
  <2> QED
    BY <1>1, <1>2, <2>1, LoopKeeps
<1>4. PICK f : Runs(f, len)
  BY <1>3
<1>5. f[0] = first
  <2>1. 0 \in 0..len
    OBVIOUS
  <2> QED
    BY <1>4, <2>1
<1>6. ASSUME NEW n \in 1..len PROVE f[n] = turn[n][f[n - 1]]
  <2>1. n \in 0..len /\ n # 0
    OBVIOUS
  <2> QED
    BY <1>4, <2>1
<1> QED
  BY <1>4, <1>5, <1>6 DEF Loops

\* The bytes of a value, and what has been taken of a file.
ByteValues == 0..Uint64Max \cup {NoValue}
Usages == [used : ByteValues, total : ByteValues, unkeyed : Seq(ByteValues)]
NoUsage == [used |-> NoValue, total |-> NoValue, unkeyed |-> <<>>]

LEMMA TokensAreTyped ==
  ASSUME NEW text \in Seq(Token), NEW i \in Nat
  PROVE  TokenAt(text, i) \in Token
<1>1. LineEnd \in Token
  BY DEF LineEnd, Token, NoValue, Plain
<1> QED
  BY <1>1 DEF TokenAt

\* A value is a number times a unit, or none.
LEMMA ByteValueIsTyped ==
  ASSUME NEW token \in Token, NEW next \in Token
  PROVE  ByteValue(token, next) \in ByteValues
<1> USE Uint64MaxAssumption DEF Uint64MaxAssumption
<1>1. Scaled(token, next) \in Nat \cup {NoValue}
  <2>1. ASSUME NEW a \in Nat, NEW b \in Nat PROVE a * b \in Nat
    OBVIOUS
  <2>2. \A m \in Nat : token.number # NoValue => token.number * m \in Nat
    BY <2>1 DEF Token
  <2> QED
    BY <2>2 DEF Scaled, Token, Plain, NoValue, Unknown
<1> QED
  BY <1>1 DEF ByteValue, ByteValues, NoValue

LEMMA ValuesAreTyped ==
  ASSUME NEW text \in Seq(Token), NEW i \in Nat
  PROVE  OwnValue(text, i) \in ByteValues /\ ValueOfKey(text, i) \in ByteValues
<1>1. i + 1 \in Nat /\ i + 2 \in Nat
  OBVIOUS
<1> QED
  BY <1>1, TokensAreTyped, ByteValueIsTyped DEF OwnValue, ValueOfKey

LEMMA TurnIsTyped ==
  ASSUME NEW text \in Seq(Token), NEW usage \in Usages, NEW i \in Nat
  PROVE  TakeToken(text, usage, i) \in Usages
<1>1. /\ OwnValue(text, i) \in ByteValues /\ ValueOfKey(text, i) \in ByteValues
      /\ TokenAt(text, i).key \in {"used", "total", "none"}
  BY ValuesAreTyped, TokensAreTyped DEF Token
<1>2. ASSUME NEW v \in ByteValues PROVE Append(usage.unkeyed, v) \in Seq(ByteValues)
  BY DEF Usages
<1> QED
  BY <1>1, <1>2 DEF TakeToken, Usages, Or

\* The loop of parse_memory_usage, turn by turn.
LEMMA UsageLoop ==
  ASSUME NEW text \in Seq(Token)
  PROVE  \E u \in [0..Len(text) -> Usages] :
           /\ u[0] = NoUsage
           /\ \A n \in 1..Len(text) : u[n] = TakeToken(text, u[n - 1], n)
           /\ TakenTokens(text) = u[Len(text)]
<1> DEFINE len == Len(text)
           turn == [n \in 1..len |-> [usage \in Usages |-> TakeToken(text, usage, n)]]
           u == CHOOSE f : f = [n \in 0..len |->
                  IF n = 0 THEN NoUsage ELSE TakeToken(text, f[n - 1], n)]
<1>1. len \in Nat /\ NoUsage \in Usages
  BY DEF Usages, NoUsage, ByteValues
<1>2. turn \in [1..len -> [Usages -> Usages]]
  BY TurnIsTyped
<1>3. PICK f \in [0..len -> Usages] : Loops(f, NoUsage, len, turn)
  <2> HIDE DEF turn, len, u
  <2> QED
    BY <1>1, <1>2, LoopExists
<1>4. f = [n \in 0..len |-> IF n = 0 THEN NoUsage ELSE TakeToken(text, f[n - 1], n)]
  <2>1. ASSUME NEW n \in 1..len PROVE f[n] = TakeToken(text, f[n - 1], n)
    <3>1. n - 1 \in 0..len
      BY <1>1
    <3> QED
      BY <1>3, <3>1 DEF Loops
  <2>2. \A n \in 0..len : f[n] = IF n = 0 THEN NoUsage ELSE TakeToken(text, f[n - 1], n)
    BY <1>1, <1>3, <2>1 DEF Loops
  <2> HIDE DEF turn, u
  <2> QED
    BY <1>3, <2>2
<1>5. u = [n \in 0..len |-> IF n = 0 THEN NoUsage ELSE TakeToken(text, u[n - 1], n)]
  BY <1>4
<1>6. TakenTokens(text) = u[len]
  BY Zenon DEF TakenTokens, NoUsage
<1> HIDE DEF u
<1>7. u[0] = NoUsage /\ \A n \in 1..len : u[n] = TakeToken(text, u[n - 1], n)
  BY <1>1, <1>5
<1>8. \A n \in 0..len : u[n] \in Usages
  <2> DEFINE T == {n \in 0..len : u[n] \in Usages}
  <2>1. 0 \in T
    BY <1>1, <1>7
  <2>2. ASSUME NEW n \in 1..len, n - 1 \in T PROVE n \in T
    BY <1>7, <2>2, TurnIsTyped
  <2>3. T \in SUBSET (0..len)
    OBVIOUS
  <2>4. \A n \in 0..len : n \in T
    <3> HIDE DEF T, len
    <3> QED
      BY <1>1, <2>1, <2>2, <2>3, LoopKeeps
  <2> QED
    BY <2>4
<1>9. u \in [0..len -> Usages]
  BY <1>5, <1>8
<1> QED
  BY <1>6, <1>7, <1>9

Keyed(text, key, n) == {i \in 1..n : text[i].key = key /\ ValueOfKey(text, i) # NoValue}
Bare(text, n) == {i \in 1..n : text[i].key = "none" /\ OwnValue(text, i) # NoValue}

\* What one turn changes.
LEMMA TurnTakes ==
  ASSUME NEW text \in Seq(Token), NEW usage \in Usages, NEW i \in DOMAIN text
  PROVE  /\ \A key \in {"used", "total"} :
              TakeToken(text, usage, i)[key] =
                IF text[i].key = key /\ ValueOfKey(text, i) # NoValue
                THEN ValueOfKey(text, i) ELSE usage[key]
         /\ TakeToken(text, usage, i).unkeyed =
              IF text[i].key = "none" /\ OwnValue(text, i) # NoValue
              THEN Append(usage.unkeyed, OwnValue(text, i)) ELSE usage.unkeyed
<1>1. TokenAt(text, i) = text[i] /\ text[i].key \in {"used", "total", "none"}
  <2>1. text[i] \in Token /\ TokenAt(text, i) = text[i]
    BY DEF TokenAt
  <2> QED
    BY <2>1 DEF Token
<1> QED
  BY <1>1 DEF TakeToken, Usages, Or

IsUsageLoop(text, u) ==
  /\ u \in [0..Len(text) -> Usages]
  /\ u[0] = NoUsage
  /\ \A n \in 1..Len(text) : u[n] = TakeToken(text, u[n - 1], n)

LastKeyed(text, key, n, value) ==
  \/ Keyed(text, key, n) = {} /\ value = NoValue
  \/ \E i \in Keyed(text, key, n) :
       (\A j \in Keyed(text, key, n) : j <= i) /\ value = ValueOfKey(text, i)

\* After any number of turns, a field holds the last of the values with its key.
LEMMA KeyedSoFar ==
  ASSUME NEW text \in Seq(Token), NEW u, IsUsageLoop(text, u), NEW key \in {"used", "total"}
  PROVE  LastKeyed(text, key, Len(text), u[Len(text)][key])
<1> DEFINE len == Len(text)
           T == {n \in 0..len : LastKeyed(text, key, n, u[n][key])}
<1>1. len \in Nat /\ DOMAIN text = 1..len
  OBVIOUS
<1>2. 0 \in T
  <2>1. Keyed(text, key, 0) = {} /\ u[0][key] = NoValue
    BY DEF Keyed, IsUsageLoop, NoUsage
  <2> QED
    BY <1>1, <2>1 DEF LastKeyed
<1>3. ASSUME NEW n \in 1..len, n - 1 \in T PROVE n \in T
  <2>1. n - 1 \in 0..len /\ n \in DOMAIN text /\ n \in 0..len /\ n \in Nat
        /\ u[n - 1] \in Usages /\ u[n] = TakeToken(text, u[n - 1], n)
    BY <1>1 DEF IsUsageLoop
  <2>2. 1..n = (1..(n - 1)) \cup {n} /\ \A j \in 1..(n - 1) : j <= n
    BY <2>1
  <2>3. LastKeyed(text, key, n - 1, u[n - 1][key])
    BY <1>3
  <2>4. CASE text[n].key = key /\ ValueOfKey(text, n) # NoValue
    <3>1. u[n][key] = ValueOfKey(text, n)
      BY <2>1, <2>4, TurnTakes
    <3>2. n \in Keyed(text, key, n) /\ \A j \in Keyed(text, key, n) : j <= n
      BY <2>1, <2>2, <2>4 DEF Keyed
    <3> QED
      BY <2>1, <3>1, <3>2 DEF LastKeyed
  <2>5. CASE ~ (text[n].key = key /\ ValueOfKey(text, n) # NoValue)
    <3>1. u[n][key] = u[n - 1][key]
      BY <2>1, <2>5, TurnTakes
    <3>2. Keyed(text, key, n) = Keyed(text, key, n - 1)
      BY <2>2, <2>5 DEF Keyed
    <3> QED
      BY <2>1, <2>3, <3>1, <3>2 DEF LastKeyed
  <2> QED
    BY <2>4, <2>5
<1>4. T \in SUBSET (0..len) /\ len \in 0..len
  BY <1>1
<1>5. len \in T
  <2> HIDE DEF T, len
  <2> QED
    BY <1>1, <1>2, <1>3, <1>4, LoopKeeps
<1> QED
  BY <1>5

FirstBare(text, n, values) ==
  \/ Bare(text, n) = {} /\ values = <<>>
  \/ \E i \in Bare(text, n) : Bare(text, n) = {i} /\ values = <<OwnValue(text, i)>>
  \/ \E i, j \in Bare(text, n) :
       /\ i < j /\ \A k \in Bare(text, n) : k = i \/ k >= j
       /\ Len(values) >= 2 /\ values[1] = OwnValue(text, i) /\ values[2] = OwnValue(text, j)

\* The values without a key are in the order of the file.
LEMMA BareSoFar ==
  ASSUME NEW text \in Seq(Token), NEW u, IsUsageLoop(text, u)
  PROVE  FirstBare(text, Len(text), u[Len(text)].unkeyed)
<1> DEFINE len == Len(text)
           T == {n \in 0..len : FirstBare(text, n, u[n].unkeyed)}
<1>1. len \in Nat /\ DOMAIN text = 1..len
  OBVIOUS
<1>2. 0 \in T
  <2>1. Bare(text, 0) = {} /\ u[0].unkeyed = <<>>
    BY DEF Bare, IsUsageLoop, NoUsage
  <2> QED
    BY <1>1, <2>1 DEF FirstBare
<1>3. ASSUME NEW n \in 1..len, n - 1 \in T PROVE n \in T
  <2>1. n - 1 \in 0..len /\ n \in DOMAIN text /\ n \in 0..len /\ n \in Nat
        /\ u[n - 1] \in Usages /\ u[n] = TakeToken(text, u[n - 1], n)
    BY <1>1 DEF IsUsageLoop
  <2>2. 1..n = (1..(n - 1)) \cup {n} /\ \A j \in 1..(n - 1) : j < n /\ j \in Nat
    BY <2>1
  <2> DEFINE before == u[n - 1].unkeyed
             bare == Bare(text, n - 1)
             v == OwnValue(text, n)
  <2>3. FirstBare(text, n - 1, before) /\ before \in Seq(ByteValues)
        /\ \A j \in bare : j < n /\ j \in Nat
    BY <1>3, <2>1, <2>2 DEF Usages, Bare
  <2>4. CASE text[n].key = "none" /\ v # NoValue
    <3>1. u[n].unkeyed = Append(before, v) /\ v \in ByteValues
      BY <2>1, <2>4, TurnTakes, ValuesAreTyped
    <3>2. Bare(text, n) = bare \cup {n}
      BY <2>2, <2>4 DEF Bare
    <3> HIDE DEF bare, before, v
    <3>3. CASE bare = {} /\ before = <<>>
      <4>1. Append(before, v) = <<v>> /\ bare \cup {n} = {n}
        BY <3>3
      <4> QED
        BY <2>1, <3>1, <3>2, <4>1 DEF FirstBare, v
    <3>4. ASSUME NEW i \in bare, bare = {i}, before = <<OwnValue(text, i)>>
          PROVE  FirstBare(text, n, Append(before, v))
      <4>1. i < n /\ \A k \in bare \cup {n} : k = i \/ k >= n
        BY <2>1, <2>3, <3>4
      <4>2. /\ Len(Append(before, v)) = 2
            /\ Append(before, v)[1] = OwnValue(text, i) /\ Append(before, v)[2] = v
        BY <3>4
      <4> QED
        BY <3>2, <3>4, <4>1, <4>2 DEF FirstBare, v
    <3>5. ASSUME NEW i \in bare, NEW j \in bare, i < j, \A k \in bare : k = i \/ k >= j,
                 Len(before) >= 2, before[1] = OwnValue(text, i), before[2] = OwnValue(text, j)
          PROVE  FirstBare(text, n, Append(before, v))
      <4>1. \A k \in bare \cup {n} : k = i \/ k >= j
        BY <2>1, <2>3, <3>5
      <4>2. /\ Len(Append(before, v)) >= 2
            /\ Append(before, v)[1] = before[1] /\ Append(before, v)[2] = before[2]
        BY <2>3, <3>1, <3>5
      <4> QED
        BY <3>2, <3>5, <4>1, <4>2 DEF FirstBare
    <3> QED
      BY <2>1, <2>3, <3>1, <3>3, <3>4, <3>5 DEF FirstBare, bare
  <2>5. CASE ~ (text[n].key = "none" /\ v # NoValue)
    <3>1. u[n].unkeyed = before
      BY <2>1, <2>5, TurnTakes
    <3>2. Bare(text, n) = bare
      BY <2>2, <2>5 DEF Bare
    <3> QED
      BY <2>1, <2>3, <3>1, <3>2 DEF FirstBare
  <2> QED
    BY <2>4, <2>5
<1>4. T \in SUBSET (0..len) /\ len \in 0..len
  BY <1>1
<1>5. len \in T
  <2> HIDE DEF T, len
  <2> QED
    BY <1>1, <1>2, <1>3, <1>4, LoopKeeps
<1> QED
  BY <1>5

IsProduct(text, value) ==
  LET tokens == Range(text)
      units == {Plain} \cup {t.unit : t \in tokens} \cup {t.attached : t \in tokens}
  IN /\ value \in 0..Uint64Max
     /\ \E t \in tokens, u \in units : t.number # NoValue /\ value = t.number * u

\* A value is a product of what the file holds, and fits.
LEMMA ValueIsProduct ==
  ASSUME NEW text \in Seq(Token), NEW i \in Nat, NEW j \in Nat,
         ByteValue(TokenAt(text, i), TokenAt(text, j)) # NoValue
  PROVE  IsProduct(text, ByteValue(TokenAt(text, i), TokenAt(text, j)))
<1> DEFINE token == TokenAt(text, i)
           next == TokenAt(text, j)
           value == ByteValue(token, next)
<1>1. value \in 0..Uint64Max
  <2>1. token \in Token /\ next \in Token
    BY TokensAreTyped
  <2>2. value # NoValue
    OBVIOUS
  <2> HIDE DEF token, next
  <2> QED
    BY <2>1, <2>2, ByteValueIsTyped DEF ByteValues
<1>2. value = Scaled(token, next) /\ token.number # NoValue
  BY DEF ByteValue, Scaled
<1>3. token \in Range(text)
  BY <1>2 DEF TokenAt, LineEnd, Range
<1>4. next.unit = Plain \/ next \in Range(text)
  BY DEF TokenAt, LineEnd, Range
<1>5. PICK unit \in {Plain} \cup {s.unit : s \in Range(text)} \cup {s.attached : s \in Range(text)} :
        Scaled(token, next) = token.number * unit
  <2>1. token.attached \in {s.attached : s \in Range(text)}
    BY <1>3
  <2>2. next.unit \in {Plain} \cup {s.unit : s \in Range(text)}
    BY <1>4
  <2>3. Scaled(token, next) \in {token.number * token.attached, token.number * next.unit,
                                 token.number * Plain}
    BY <1>1, <1>2 DEF ByteValue, Scaled
  <2> HIDE DEF token, next
  <2> QED
    BY <2>1, <2>2, <2>3
<1> HIDE DEF token, next, value
<1>6. IsProduct(text, value)
  BY <1>1, <1>2, <1>3, <1>5 DEF IsProduct
<1> QED
  BY <1>6 DEF token, next, value

\* Of a set of numbers that has one, Min and Max are the least and the greatest.
LEMMA GreatestIsMax ==
  ASSUME NEW T \in SUBSET Nat, NEW n \in T, \A m \in T : m <= n
  PROVE  Max(T) = n
<1>1. Max(T) \in T /\ \A m \in T : m <= Max(T)
  BY DEF Max
<1>2. Max(T) \in Nat /\ n \in Nat /\ Max(T) <= n /\ n <= Max(T)
  BY <1>1
<1> QED
  BY <1>2

LEMMA LeastIsMin ==
  ASSUME NEW T \in SUBSET Nat, NEW n \in T, \A m \in T : n <= m
  PROVE  Min(T) = n
<1>1. Min(T) \in T /\ \A m \in T : Min(T) <= m
  BY DEF Min
<1>2. Min(T) \in Nat /\ n \in Nat /\ Min(T) <= n /\ n <= Min(T)
  BY <1>1
<1> QED
  BY <1>2

\* What parse_memory_usage gives: the last value with the key, or else the first, or the
\* second, of those without.
LEMMA UsageMeans ==
  ASSUME NEW text \in Seq(Token), NEW key \in {"used", "total"}
  PROVE  LET bare == Bare(text, Len(text))
             fallback == [used |-> bare, total |-> {i \in bare : \E j \in bare : j < i}]
             keyed == Keyed(text, key, Len(text))
             value == MemoryUsage(text)[key]
         IN /\ value # NoValue => IsProduct(text, value)
            /\ keyed # {} => value = ValueOfKey(text, Max(keyed))
            /\ keyed = {} /\ fallback[key] # {} => value = OwnValue(text, Min(fallback[key]))
            /\ keyed = {} /\ fallback[key] = {} => value = NoValue
<1> DEFINE len == Len(text)
           bare == Bare(text, len)
           later == {i \in bare : \E j \in bare : j < i}
           own == IF key = "used" THEN bare ELSE later
           keyed == Keyed(text, key, len)
           value == MemoryUsage(text)[key]
<1>1. PICK u : IsUsageLoop(text, u) /\ TakenTokens(text) = u[len]
  BY UsageLoop DEF IsUsageLoop
<1>2. LastKeyed(text, key, len, u[len][key]) /\ FirstBare(text, len, u[len].unkeyed)
  BY <1>1, KeyedSoFar, BareSoFar
<1>3. u[len] \in Usages
  <2>1. len \in 0..len
    OBVIOUS
  <2> QED
    BY <1>1, <2>1 DEF IsUsageLoop
<1> DEFINE values == u[len].unkeyed
           place == IF key = "used" THEN 1 ELSE 2
<1>4. value = IF u[len][key] # NoValue THEN u[len][key]
              ELSE IF Len(values) >= place THEN values[place] ELSE NoValue
  BY <1>1 DEF MemoryUsage, Or
<1>5. bare \in SUBSET Nat /\ keyed \in SUBSET Nat
  BY DEF Bare, Keyed
<1>6. \A i \in keyed : ValueOfKey(text, i) # NoValue
  BY DEF Keyed
<1>7. ASSUME keyed # {} PROVE value = ValueOfKey(text, Max(keyed))
  <2>1. PICK i \in keyed : (\A j \in keyed : j <= i) /\ u[len][key] = ValueOfKey(text, i)
    BY <1>2, <1>7 DEF LastKeyed
  <2> HIDE DEF keyed, value
  <2>2. Max(keyed) = i
    BY <1>5, <2>1, GreatestIsMax
  <2> QED
    BY <1>4, <1>6, <2>1, <2>2
<1>8. ASSUME keyed = {}
      PROVE  value = IF Len(values) >= place THEN values[place] ELSE NoValue
  <2>1. u[len][key] = NoValue
    BY <1>2, <1>8 DEF LastKeyed
  <2> HIDE DEF value, values
  <2> QED
    BY <1>4, <2>1
<1>9. own # {} => Len(values) >= place /\ values[place] = OwnValue(text, Min(own))
  <2> HIDE DEF values, bare
  <2>1. CASE bare = {} /\ values = <<>>
    BY <2>1
  <2>2. ASSUME NEW i \in bare, bare = {i}, values = <<OwnValue(text, i)>>
        PROVE  own # {} => Len(values) >= place /\ values[place] = OwnValue(text, Min(own))
    <3>1. i \in Nat /\ ~ (i < i)
      BY <1>5
    <3>2. later = {}
      BY <2>2, <3>1
    <3>3. Min({i}) = i
      BY <3>1, LeastIsMin
    <3> HIDE DEF later
    <3> QED
      BY <2>2, <3>2, <3>3
  <2>3. ASSUME NEW i \in bare, NEW j \in bare, i < j, \A k \in bare : k = i \/ k >= j,
               Len(values) >= 2, values[1] = OwnValue(text, i), values[2] = OwnValue(text, j)
        PROVE  own # {} => Len(values) >= place /\ values[place] = OwnValue(text, Min(own))
    <3>1. i \in Nat /\ j \in Nat /\ \A k \in bare : k \in Nat
      BY <1>5
    <3>2. \A k \in bare : i <= k
      BY <2>3, <3>1
    <3>3. j \in later /\ i \notin later
      BY <2>3, <3>1, <3>2
    <3>4. \A k \in later : j <= k
      BY <2>3, <3>1, <3>3
    <3>5. later \in SUBSET Nat
      BY <3>1
    <3> HIDE DEF later
    <3>6. Min(bare) = i /\ Min(later) = j
      BY <1>5, <3>2, <3>3, <3>4, <3>5, LeastIsMin
    <3>7. Len(values) >= 1 /\ Len(values) >= 2
      <4>1. values \in Seq(ByteValues)
        BY <1>3 DEF values, Usages
      <4> QED
        BY <2>3, <4>1
    <3> QED
      BY <2>3, <3>6, <3>7
  <2>4. FirstBare(text, len, values) 
    BY <1>2 DEF values
  <2> QED
    BY <2>1, <2>2, <2>3, <2>4 DEF FirstBare, bare
<1>10. own = {} => ~ (Len(values) >= place)
  <2> HIDE DEF values, bare
  <2>1. CASE bare = {} /\ values = <<>>
    BY <2>1
  <2>2. ASSUME NEW i \in bare, bare = {i}, values = <<OwnValue(text, i)>>
        PROVE  own = {} => ~ (Len(values) >= place)
    BY <2>2
  <2>3. ASSUME NEW i \in bare, NEW j \in bare, i < j PROVE own # {}
    BY <2>3
  <2>4. FirstBare(text, len, values) 
    BY <1>2 DEF values
  <2> QED
    BY <2>1, <2>2, <2>3, <2>4 DEF FirstBare, bare
<1>11. value # NoValue => IsProduct(text, value)
  <2>1. ASSUME NEW i \in Nat PROVE
          /\ ValueOfKey(text, i) # NoValue => IsProduct(text, ValueOfKey(text, i))
          /\ OwnValue(text, i) # NoValue => IsProduct(text, OwnValue(text, i))
    <3>1. i + 1 \in Nat /\ i + 2 \in Nat
      OBVIOUS
    <3> QED
      BY <3>1, ValueIsProduct DEF ValueOfKey, OwnValue
  <2>2. later \in SUBSET Nat
    BY <1>5
  <2> HIDE DEF value, values, keyed, bare, later
  <2>3. keyed # {} => \E i \in Nat : value = ValueOfKey(text, i)
    <3>1. ASSUME keyed # {} PROVE Max(keyed) \in Nat
      <4>1. PICK i \in keyed : \A j \in keyed : j <= i
        BY <1>2, <3>1 DEF LastKeyed, keyed
      <4> QED
        BY <1>5, <4>1, GreatestIsMax
    <3> QED
      BY <1>7, <3>1
  <2>4. own # {} => Min(own) \in Nat
    BY <1>5, <2>2, MinOfNumbers
  <2> HIDE DEF own, place
  <2>5. keyed = {} => value = NoValue \/ \E i \in Nat : value = OwnValue(text, i)
    BY <1>8, <1>9, <1>10, <2>4
  <2> QED
    BY <2>1, <2>3, <2>5
<1> DEFINE fallback == [used |-> bare, total |-> later]
<1>12. fallback[key] = own
  <2> HIDE DEF bare, later
  <2>1. CASE key = "used"
    BY <2>1
  <2>2. CASE key = "total"
    BY <2>2
  <2> QED
    BY <2>1, <2>2
<1>13. /\ value # NoValue => IsProduct(text, value)
       /\ keyed # {} => value = ValueOfKey(text, Max(keyed))
       /\ keyed = {} /\ fallback[key] # {} => value = OwnValue(text, Min(fallback[key]))
       /\ keyed = {} /\ fallback[key] = {} => value = NoValue
  <2> HIDE DEF value, values, keyed, own, fallback
  <2> QED
    BY <1>7, <1>8, <1>9, <1>10, <1>11, <1>12
<1> QED
  BY <1>13, Zenon

\* A number saturates, one that is missing is none.
LEMMA Uint64Means ==
  ASSUME NEW column \in Seq(Int), Len(column) <= 1
  PROVE  /\ Uint64(column) = NoValue <=> column = <<>> 
         /\ column # <<>> /\ column[1] >= 0 =>
              Uint64(column) = IF column[1] <= Uint64Max THEN column[1] ELSE Uint64Max
<1> USE Uint64MaxAssumption DEF Uint64MaxAssumption
<1>1. ASSUME NEW a \in Int PROVE Min({a, Uint64Max}) = IF a <= Uint64Max THEN a ELSE Uint64Max
  <2> DEFINE T == {a, Uint64Max}
             least == IF a <= Uint64Max THEN a ELSE Uint64Max
  <2>1. least \in T /\ T \in SUBSET Int /\ \A m \in T : least <= m
    OBVIOUS
  <2>2. \A x \in T : (\A m \in T : x <= m) => x = least
    <3> HIDE DEF T, least
    <3> QED
      BY <2>1
  <2>3. Min(T) \in T /\ \A m \in T : Min(T) <= m
    BY <2>1 DEF Min
  <2> QED
    BY <2>2, <2>3
<1>2. column # <<>> => column[1] \in Int
  OBVIOUS
<1>3. column # <<>> /\ column[1] < 0 => column[1] % Modulus \in 0..Uint64Max
  BY <1>2 DEF Modulus
<1>4. CASE column = <<>>
  BY <1>4 DEF Uint64
<1>5. CASE column # <<>> /\ column[1] < 0
  <2>1. Uint64(column) = column[1] % Modulus /\ ~ (column[1] >= 0)
    BY <1>2, <1>5 DEF Uint64
  <2> QED
    BY <1>3, <1>5, <2>1 DEF NoValue
<1>6. CASE column # <<>> /\ ~ (column[1] < 0)
  <2>1. Uint64(column) = Min({column[1], Uint64Max})
    BY <1>2, <1>6 DEF Uint64
  <2> QED
    BY <1>1, <1>2, <1>6, <2>1 DEF NoValue
<1> QED
  BY <1>4, <1>5, <1>6

\* The loop of parse_pci_resources lists the lines that are resources, each once.
LEMMA ResourcesListed ==
  ASSUME NEW lines \in Seq(Seq(Seq(Int)))
  PROVE  Range(PciResources(lines)) =
           {PciResource(lines, i) : i \in {j \in 1..Len(lines) : IsResource(lines, j)}}
<1> DEFINE len == Len(lines)
           S == {PciResource(lines, i) : i \in 1..len}
           turn == [n \in 1..len |-> [resources \in Seq(S) |->
                      IF IsResource(lines, n) THEN Append(resources, PciResource(lines, n))
                      ELSE resources]]
           r == CHOOSE f : f = [n \in 0..len |->
                  CASE n = 0 -> <<>>
                    [] n # 0 /\ IsResource(lines, n) -> Append(f[n - 1], PciResource(lines, n))
                    [] OTHER -> f[n - 1]]
           Listed(n) == {PciResource(lines, i) : i \in {j \in 1..n : IsResource(lines, j)}}
<1>1. len \in Nat /\ <<>> \in Seq(S)
  OBVIOUS
<1>2. turn \in [1..len -> [Seq(S) -> Seq(S)]]
  <2>1. ASSUME NEW n \in 1..len, NEW resources \in Seq(S)
        PROVE  Append(resources, PciResource(lines, n)) \in Seq(S)
    <3>1. PciResource(lines, n) \in S
      OBVIOUS
    <3> HIDE DEF S
    <3> QED
      BY <3>1
  <2> HIDE DEF S, len
  <2> QED
    BY <2>1
<1>3. PICK f \in [0..len -> Seq(S)] : Loops(f, <<>>, len, turn)
  <2> HIDE DEF turn, len, r, S
  <2> QED
    BY <1>1, <1>2, LoopExists
<1> HIDE DEF S
<1>4. ASSUME NEW n \in 1..len
      PROVE  f[n] = IF IsResource(lines, n) THEN Append(f[n - 1], PciResource(lines, n))
                    ELSE f[n - 1]
  <2>1. n - 1 \in 0..len
    BY <1>1
  <2> QED
    BY <1>3, <2>1 DEF Loops
<1>5. f = [n \in 0..len |->
             CASE n = 0 -> <<>>
               [] n # 0 /\ IsResource(lines, n) -> Append(f[n - 1], PciResource(lines, n))
               [] OTHER -> f[n - 1]]
  <2>1. \A n \in 0..len : f[n] =
             CASE n = 0 -> <<>>
               [] n # 0 /\ IsResource(lines, n) -> Append(f[n - 1], PciResource(lines, n))
               [] OTHER -> f[n - 1]
    <3> TAKE n \in 0..len
    <3>1. CASE n = 0
      BY <1>3, <3>1 DEF Loops
    <3>2. CASE n # 0
      <4>1. n \in 1..len
        BY <1>1, <3>2
      <4> QED
        BY <1>4, <3>2, <4>1
    <3> QED
      BY <3>1, <3>2
  <2> HIDE DEF turn, r, len
  <2> QED
    BY <1>3, <2>1
<1>6. r = [n \in 0..len |->
             CASE n = 0 -> <<>>
               [] n # 0 /\ IsResource(lines, n) -> Append(r[n - 1], PciResource(lines, n))
               [] OTHER -> r[n - 1]]
  BY <1>5
<1>7. PciResources(lines) = r[len]
  BY Zenon DEF PciResources
<1> HIDE DEF r
<1>8. /\ r[0] = <<>>
      /\ \A n \in 1..len : r[n] = IF IsResource(lines, n) THEN Append(r[n - 1], PciResource(lines, n))
                                  ELSE r[n - 1]
  <2>1. r[0] = <<>>
    <3>1. 0 \in 0..len
      BY <1>1
    <3> QED
      BY <1>6, <3>1
  <2>2. ASSUME NEW n \in 1..len
        PROVE  r[n] = IF IsResource(lines, n) THEN Append(r[n - 1], PciResource(lines, n))
                      ELSE r[n - 1]
    <3>1. n \in 0..len /\ n # 0
      BY <1>1
    <3> QED
      BY <1>6, <3>1
  <2> QED
    BY <2>1, <2>2
<1> DEFINE T == {n \in 0..len : r[n] \in Seq(S) /\ Range(r[n]) = Listed(n)}
<1>9. 0 \in T
  <2>1. Range(<<>>) = {} /\ Listed(0) = {} /\ 0 \in 0..len /\ <<>> \in Seq(S)
    BY <1>1 DEF Range
  <2> HIDE DEF Listed
  <2> QED
    BY <1>8, <2>1
<1>10. ASSUME NEW n \in 1..len, n - 1 \in T PROVE n \in T
  <2>1. n \in 0..len /\ r[n - 1] \in Seq(S) /\ Range(r[n - 1]) = Listed(n - 1)
    BY <1>10
  <2>2. 1..n = (1..(n - 1)) \cup {n}
    OBVIOUS
  <2>3. CASE IsResource(lines, n)
    <3>1. Listed(n) = Listed(n - 1) \cup {PciResource(lines, n)}
      BY <2>2, <2>3
    <3>2. PciResource(lines, n) \in S
      BY DEF S
    <3>3. ASSUME NEW s \in Seq(S), NEW e \in S
          PROVE  Append(s, e) \in Seq(S) /\ Range(Append(s, e)) = Range(s) \cup {e}
      <4>1. DOMAIN Append(s, e) = DOMAIN s \cup {Len(s) + 1} /\ DOMAIN s = 1..Len(s)
            /\ (\A i \in DOMAIN s : Append(s, e)[i] = s[i]) /\ Append(s, e)[Len(s) + 1] = e
        OBVIOUS
      <4> QED
        BY <4>1 DEF Range
    <3> HIDE DEF Listed
    <3> QED
      BY <1>8, <2>1, <2>3, <3>1, <3>2, <3>3
  <2>4. CASE ~ IsResource(lines, n)
    <3>1. Listed(n) = Listed(n - 1)
      BY <2>2, <2>4
    <3> HIDE DEF Listed
    <3> QED
      BY <1>8, <2>1, <2>4, <3>1
  <2> QED
    BY <2>3, <2>4
<1>11. T \in SUBSET (0..len) /\ len \in 0..len
  BY <1>1
<1>12. len \in T
  <2> HIDE DEF T, len
  <2> QED
    BY <1>1, <1>9, <1>10, <1>11, LoopKeeps
<1> QED
  BY <1>7, <1>12

LEMMA LineOfThree ==
  ASSUME NEW line \in Seq(Seq(Int)), Len(line) >= 3, NEW k \in 1..3
  PROVE  k \in DOMAIN line /\ line[k] \in Seq(Int)
<1>1. Len(line) \in Nat /\ DOMAIN line = 1..Len(line)
  OBVIOUS
<1>2. k \in 1..Len(line)
  BY <1>1
<1> QED
  BY <1>1, <1>2

LEMMA ColumnOfNumber ==
  ASSUME NEW column \in Seq(Int), Len(column) <= 1, column # <<>>
  PROVE  column[1] \in Int /\ column = <<column[1]>>
<1>1. Len(column) # 0
  OBVIOUS
<1>2. Len(column) = 1
  <2>1. Len(column) \in Nat
    OBVIOUS
  <2>2. \A n \in Nat : n <= 1 /\ n # 0 => n = 1
    OBVIOUS
  <2> QED
    BY <1>1, <2>1, <2>2
<1> QED
  BY <1>2

\* The numbers between two, up to a limit.
LEMMA IntervalUpTo ==
  ASSUME NEW a \in Nat, NEW b \in Nat, NEW limit \in Nat, a <= limit
  PROVE  LET last == IF b <= limit THEN b ELSE limit
         IN /\ last \in Nat
            /\ (a .. b) \cap (0 .. limit) = a .. last
            /\ (a .. b) \cap (0 .. limit) = {} <=> ~ (last >= a)
<1>1. CASE b <= limit
  <2>1. \A n \in a .. b : n \in 0 .. limit
    BY <1>1
  <2>2. (a .. b) \cap (0 .. limit) = a .. b
    BY <2>1
  <2>3. a .. b = {} <=> ~ (b >= a)
    OBVIOUS
  <2> QED
    BY <1>1, <2>2, <2>3
<1>2. CASE ~ (b <= limit)
  <2>1. \A n : n \in (a .. b) \cap (0 .. limit) <=> n \in a .. limit
    BY <1>2
  <2>2. (a .. b) \cap (0 .. limit) = a .. limit
    BY <2>1
  <2>3. a \in a .. limit
    OBVIOUS
  <2> QED
    BY <1>2, <2>2, <2>3
<1> QED
  BY <1>1, <1>2

\* Columns of numbers are zero if the numbers are.
LEMMA ColumnsOfZero ==
  ASSUME NEW x, NEW y, NEW z, NEW a, NEW b, NEW c, x = <<a>>, y = <<b>>, z = <<c>>
  PROVE  <<x, y, z>> = << <<0>>, <<0>>, <<0>> >> <=> a = 0 /\ b = 0 /\ c = 0
<1>1. \A u, v : <<u>> = <<v>> <=> u = v
  OBVIOUS
<1>2. <<x, y, z>> = << <<0>>, <<0>>, <<0>> >> <=> x = <<0>> /\ y = <<0>> /\ z = <<0>>
  OBVIOUS
<1> QED
  BY <1>1, <1>2

\* A line of numbers that are not negative gives the addresses that the width can express.
LEMMA RangeMeans ==
  ASSUME NEW lines \in Seq(Seq(Seq(Int))),
         \A k \in DOMAIN lines : \A c \in DOMAIN lines[k] : Len(lines[k][c]) <= 1,
         NEW i \in DOMAIN lines, Len(lines[i]) >= 3,
         \A k \in 1..3 : lines[i][k] # <<>> /\ lines[i][k][1] >= 0,
         lines[i][1][1] <= Uint64Max
  PROVE  LET line == lines[i]
             listedHere == {r \in Range(PciResources(lines)) : r.index = i - 1}
             addresses == (line[1][1] .. line[2][1]) \cap (0 .. Uint64Max)
         IN {[a |-> r.start .. r.end, n |-> r.size] : r \in listedHere} =
              IF addresses = {} \/ <<line[1], line[2], line[3]>> = << <<0>>, <<0>>, <<0>> >>
              THEN {} ELSE {[a |-> addresses, n |-> Cardinality(addresses)]}
<1> DEFINE line == lines[i]
           start == line[1][1]
           last == line[2][1]
           end == IF last <= Uint64Max THEN last ELSE Uint64Max
           flags == IF line[3][1] <= Uint64Max THEN line[3][1] ELSE Uint64Max
           here == PciResource(lines, i)
           addresses == (start .. last) \cap (0 .. Uint64Max)
           zero == <<line[1], line[2], line[3]>> = << <<0>>, <<0>>, <<0>> >>
           listedHere == {r \in Range(PciResources(lines)) : r.index = i - 1}
<1> USE Uint64MaxAssumption DEF Uint64MaxAssumption
<1>1. i \in 1..Len(lines) /\ line \in Seq(Seq(Int))
  OBVIOUS
<1>2. ASSUME NEW k \in 1..3
      PROVE  /\ line[k] \in Seq(Int) /\ line[k][1] \in Nat /\ line[k] = <<line[k][1]>>
             /\ Uint64(line[k]) = IF line[k][1] <= Uint64Max THEN line[k][1] ELSE Uint64Max
  <2>1. k \in DOMAIN line /\ line[k] \in Seq(Int)
    BY <1>1, LineOfThree
  <2>2. Len(line[k]) <= 1 /\ line[k] # <<>> /\ line[k][1] >= 0
    BY <2>1
  <2> DEFINE column == line[k]
  <2>3. column \in Seq(Int) /\ Len(column) <= 1 /\ column # <<>> /\ column[1] >= 0
    BY <2>1, <2>2
  <2> HIDE DEF column
  <2>4. Uint64(column) = IF column[1] <= Uint64Max THEN column[1] ELSE Uint64Max
    BY <2>3, Uint64Means
  <2>5. column[1] \in Nat /\ column = <<column[1]>>
    BY <2>3, ColumnOfNumber
  <2> QED
    BY <2>1, <2>4, <2>5 DEF column
<1>3. /\ here = [index |-> i - 1, start |-> start, end |-> end, flags |-> flags,
                 size |-> end - start + 1]
      /\ start \in Nat /\ last \in Nat /\ line[3][1] \in Nat /\ start <= Uint64Max
  <2>1. 1 \in 1..3 /\ 2 \in 1..3 /\ 3 \in 1..3
    OBVIOUS
  <2>2. Uint64(line[1]) = IF start <= Uint64Max THEN start ELSE Uint64Max
    BY <1>2, <2>1
  <2>3. Uint64(line[2]) = end
    BY <1>2, <2>1
  <2>4. Uint64(line[3]) = flags
    BY <1>2, <2>1
  <2>5. start \in Nat /\ last \in Nat /\ line[3][1] \in Nat /\ start <= Uint64Max
    BY <1>2, <2>1
  <2>6. Uint64(line[1]) = start
    BY <2>2, <2>5
  <2>7. here = [index |-> i - 1, start |-> Uint64(lines[i][1]), end |-> Uint64(lines[i][2]),
                flags |-> Uint64(lines[i][3]),
                size |-> Uint64(lines[i][2]) - Uint64(lines[i][1]) + 1]
    BY DEF PciResource
  <2> HIDE DEF here, start, last, end, flags
  <2> QED
    BY <2>3, <2>4, <2>5, <2>6, <2>7
<1>4. /\ end \in Nat /\ flags \in Nat /\ addresses = start .. end
      /\ addresses = {} <=> ~ (end >= start)
  <2>1. flags \in Nat
    BY <1>3
  <2> HIDE DEF start, last
  <2> QED
    BY <1>3, <2>1, IntervalUpTo
<1>5. zero <=> {start, end, flags} = {0}
  <2>1. zero <=> start = 0 /\ last = 0 /\ line[3][1] = 0
    <3>1. line[1] = <<start>> /\ line[2] = <<last>> /\ line[3] = <<line[3][1]>>
      <4>1. 1 \in 1..3 /\ 2 \in 1..3 /\ 3 \in 1..3
        OBVIOUS
      <4> QED
        BY <1>2, <4>1
    <3> HIDE DEF line, start, last
    <3>2. <<line[1], line[2], line[3]>> = << <<0>>, <<0>>, <<0>> >>
            <=> start = 0 /\ last = 0 /\ line[3][1] = 0
      BY <3>1, ColumnsOfZero
    <3> QED
      BY <3>2
  <2>2. zero => start = 0 /\ end = 0 /\ flags = 0
    BY <1>3, <2>1
  <2>3. start = 0 /\ end = 0 /\ flags = 0 => zero
    BY <1>3, <2>1
  <2> HIDE DEF zero, start, end, flags
  <2> QED
    BY <2>2, <2>3
<1>6. IsResource(lines, i) <=> ~ (addresses = {} \/ zero)
  <2>1. IsResource(lines, i) <=> {start, end, flags} # {0} /\ end >= start
    <3> HIDE DEF start, end, flags
    <3>1. NoValue \notin {start, end, flags}
      <4>1. start \in Nat /\ end \in Nat /\ flags \in Nat
        BY <1>3, <1>4
      <4>2. \A n \in Nat : n # NoValue
        BY DEF NoValue
      <4> QED
        BY <4>1, <4>2
    <3>2. PciResource(lines, i).start = start /\ PciResource(lines, i).end = end
          /\ PciResource(lines, i).flags = flags
      BY <1>3
    <3> QED
      BY <3>1, <3>2 DEF IsResource
  <2> HIDE DEF zero, addresses, start, end, flags
  <2> QED
    BY <1>4, <1>5, <2>1
<1>7. listedHere = IF IsResource(lines, i) THEN {here} ELSE {}
  <2>1. \A j \in 1..Len(lines) : PciResource(lines, j).index = j - 1
    BY DEF PciResource
  <2>2. \A r \in Range(PciResources(lines)) : r.index = i - 1 => r = here /\ IsResource(lines, i)
    BY <1>1, <2>1, ResourcesListed
  <2>3. IsResource(lines, i) => here \in Range(PciResources(lines)) /\ here.index = i - 1
    BY <1>1, <2>1, ResourcesListed
  <2> QED
    BY <2>2, <2>3
<1>8. addresses # {} => Cardinality(addresses) = end - start + 1
  <2> HIDE DEF addresses, start, end
  <2>1. start \in Int /\ end \in Int /\ addresses = start .. end
        /\ (addresses # {} => ~ (start > end))
    BY <1>3, <1>4
  <2>2. Cardinality(start .. end) = IF start > end THEN 0 ELSE end - start + 1
    BY <2>1, FS_Interval
  <2> QED
    BY <2>1, <2>2
<1>9. here.start .. here.end = addresses /\ here.size = end - start + 1
  <2> HIDE DEF addresses, start, end, flags, here
  <2> QED
    BY <1>3, <1>4
<1>10. {[a |-> r.start .. r.end, n |-> r.size] : r \in listedHere} =
         IF addresses = {} \/ zero THEN {} ELSE {[a |-> addresses, n |-> Cardinality(addresses)]}
  <2> HIDE DEF addresses, start, end, flags, here, zero, listedHere
  <2> QED
    BY <1>6, <1>7, <1>8, <1>9
<1> QED
  BY <1>10, Zenon
-----------------------------------------------------------------------------
(***************************************************************************)
(* What is parsed.                                                         *)
(***************************************************************************)

\* Only the rules that parse a file put a text there.
LEMMA RulesKeepTexts == TextListed /\ RuleInPlan => TextListed'
<1> SUFFICES ASSUME TextListed, RuleInPlan PROVE TextListed'
  OBVIOUS
<1>1. CASE UNCHANGED listed
  BY <1>1 DEF TextListed
<1>2. CASE NameBoard \/ InferArchitecture \/ ParseMesh \/ NameSource
  BY <1>1, <1>2 DEF NameBoard, InferArchitecture, ParseMesh, NameSource
<1>3. CASE ParseUsage
  <2>1. UNCHANGED listed \/ \E text \in UsageTexts : listed' = [kind |-> "usage", items |-> text]
    BY <1>3, Zenon DEF ParseUsage
  <2> QED
    BY <1>1, <2>1 DEF TextListed
<1>4. CASE ListResources
  BY <1>1, <1>4 DEF ListResources, TextListed
<1>5. ASSUME NEW rule \in {"sensors", "counters", "links"}, NEW enabled, NEW candidates,
             NEW damage, Listing(rule, enabled, candidates, damage)
      PROVE  TextListed'
  <2>1. PICK found : listed' = [kind |-> rule, items |-> Sorted(found)]
    BY <1>5 DEF Listing
  <2> QED
    BY <2>1 DEF TextListed
<1>6. CASE ListSensors \/ ListCounters \/ ListLinks
  BY <1>5, <1>6 DEF ListSensors, ListCounters, ListLinks
<1> QED
  BY <1>2, <1>3, <1>4, <1>6 DEF RuleInPlan

\* The text behind the latest step is one that the file may have.
THEOREM TextsAreListed == Spec => []TextListed
<1>1. Init => TextListed
  BY DEF Init, TextListed, NoList
<1>2. TextListed /\ [Next]_vars => TextListed'
  <2> SUFFICES ASSUME TextListed, [Next]_vars PROVE TextListed'
    OBVIOUS
  <2>1. CASE UNCHANGED listed
    BY <2>1 DEF TextListed
  <2>2. CASE listed' = NoList
    BY <2>2 DEF TextListed, NoList
  <2>3. CASE ScanFails \/ Scan \/ SkipEntry \/ Vanish \/ Finish \/ CollectionRaises \/ UNCHANGED vars
    BY <2>1, <2>3 DEF ScanFails, Scan, SkipEntry, Vanish, Finish, CollectionRaises, vars, deviceVars
  <2>4. CASE BeginDevice \/ PassAttribute \/ ReadName \/ PopulateState
    BY <2>2, <2>4 DEF BeginDevice, PassAttribute, ReadName, PopulateState
  <2> QED
    BY <2>3, <2>4, RulesKeepTexts, Steps
<1> QED
  BY <1>1, <1>2, PTL DEF Spec

\* For any text of a usage file on which the parser returns, and any width: a key with a
\* value has its last one; without any key's value among them, the bare numbers fill in by
\* their order; and never is the rest of a number shown that does not fit.
THEOREM UsageIsMeant == Spec => []UsageIsExact
<1>1. TextListed => UsageIsExact
  <2> SUFFICES ASSUME TextListed, listed.kind = "usage" PROVE UsageIsExact
    BY Zenon DEF UsageIsExact
  <2> DEFINE text == listed.items
             tokens == Range(text)
             units == {Plain} \cup {t.unit : t \in tokens} \cup {t.attached : t \in tokens}
             bare == {i \in DOMAIN text : text[i].key = "none" /\ OwnValue(text, i) # NoValue}
             behindKey == {i \in bare : \E j \in DOMAIN text : j = i - 1 /\ text[j].key # "none"}
             fallback == [used |-> bare, total |-> {i \in bare : \E j \in bare : j < i}]
             keyed(key) == {i \in DOMAIN text : text[i].key = key /\ ValueOfKey(text, i) # NoValue}
  <2>1. text \in Seq(Token)
    BY NodesAssumption DEF NodesAssumption, TextListed
  <2>2. DOMAIN text = 1..Len(text)
    BY <2>1
  <2>3. ASSUME NEW key \in {"used", "total"}
        PROVE  /\ MemoryUsage(text)[key] # NoValue =>
                    /\ MemoryUsage(text)[key] \in 0..Uint64Max
                    /\ \E t \in tokens, u \in units :
                         t.number # NoValue /\ MemoryUsage(text)[key] = t.number * u
               /\ keyed(key) # {} => MemoryUsage(text)[key] = ValueOfKey(text, Max(keyed(key)))
               /\ keyed(key) = {} /\ behindKey = {} /\ fallback[key] # {}
                    => MemoryUsage(text)[key] = OwnValue(text, Min(fallback[key]))
               /\ keyed(key) = {} /\ fallback[key] = {} => MemoryUsage(text)[key] = NoValue
    <3>1. Keyed(text, key, Len(text)) = keyed(key)
      BY <2>2, Zenon DEF Keyed
    <3>2. Bare(text, Len(text)) = bare
      BY <2>2, Zenon DEF Bare
    <3> HIDE DEF text, tokens, units, bare, behindKey, keyed
    <3> QED
      BY <2>1, <3>1, <3>2, UsageMeans DEF IsProduct, tokens, units
  <2> QED
    BY <2>3, Zenon DEF UsageIsExact
<1> QED
  BY <1>1, TextsAreListed, PTL

\* For any list of PCI ranges and any width: a range has exactly the addresses of its line
\* that can be expressed, and its line number.
THEOREM RangesAreMeant == Spec => []RangesAreExact
<1>1. TextListed => RangesAreExact
  <2> SUFFICES ASSUME TextListed, listed.kind = "resources",
                      NEW i \in DOMAIN listed.items, Len(listed.items[i]) >= 3,
                      \A k \in 1..3 : listed.items[i][k] # <<>> /\ listed.items[i][k][1] >= 0,
                      listed.items[i][1][1] <= Uint64Max
               PROVE  LET line == listed.items[i]
                          listedHere == {r \in Range(PciResources(listed.items)) : r.index = i - 1}
                          addresses == (line[1][1] .. line[2][1]) \cap (0 .. Uint64Max)
                      IN {[a |-> r.start .. r.end, n |-> r.size] : r \in listedHere} =
                           IF addresses = {} \/ <<line[1], line[2], line[3]>> = << <<0>>, <<0>>, <<0>> >>
                           THEN {} ELSE {[a |-> addresses, n |-> Cardinality(addresses)]}
    BY DEF RangesAreExact
  <2>1. /\ listed.items \in Seq(Seq(Seq(Int)))
        /\ \A k \in DOMAIN listed.items : \A c \in DOMAIN listed.items[k] :
             Len(listed.items[k][c]) <= 1
    BY NodesAssumption DEF NodesAssumption, TextListed
  <2> QED
    BY <2>1, RangeMeans
<1> QED
  BY <1>1, TextsAreListed, PTL

\* The inductive invariant of a collection, in all its parts.
THEOREM Invariance == Spec => []IInv
  BY ScanInvariance, CountsInvariance, ShapeInvariance, RecordInvariance, TextsAreListed, PTL
     DEF IInv
=============================================================================
