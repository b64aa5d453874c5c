-------------------------- MODULE AlgorithmsProofs --------------------------
(***************************************************************************)
(* Lists and trees of data, whatever is in them: the order and the choice  *)
(* of versions, the report of errors, the references to fields and the     *)
(* redaction of what is logged.  What a recursive function computes is     *)
(* proved by induction: of the trees for which it would be wrong, one      *)
(* would have the least number of levels.                                  *)
(***************************************************************************)
EXTENDS Versions, FieldRefs, ObservedErrors, Redaction, FiniteSetTheorems,
        WellFoundedInduction, TLAPS

(* A set of numbers has a least one.                                       *)
LEMMA LeastNumber ==
  ASSUME NEW T, T \subseteq Nat, T # {}
  PROVE  \E m \in T : \A k \in T : m <= k
<1>1. PICK m \in T : \A k \in T : ~(<<k, m>> \in OpToRel(<, Nat))
  BY WFMin, NatLessThanWellFounded
<1>2. \A k \in T : ~(k < m)
  BY <1>1 DEF OpToRel
<1> QED BY <1>2

(* What holds of 0 and of each number after one it holds of, up to n.      *)
LEMMA Upwards ==
  ASSUME NEW n \in Nat, NEW Good, 0 \in Good,
         \A d \in 1..n : d - 1 \in Good => d \in Good
  PROVE  0..n \subseteq Good
<1> DEFINE Bad == {d \in 0..n : d \notin Good}
<1>1. SUFFICES ASSUME Bad # {} PROVE FALSE
  OBVIOUS
<1>2. Bad \subseteq Nat
  OBVIOUS
<1>3. PICK m \in Bad : \A k \in Bad : m <= k
  <2> HIDE DEF Bad
  <2> QED BY <1>1, <1>2, LeastNumber
<1>4. m \in 1..n
  BY <1>3
<1>5. m - 1 \in Good
  <2>1. m - 1 \in 0..n /\ m - 1 < m
    BY <1>4
  <2>2. m - 1 \notin Bad
    BY <2>1, <1>3
  <2> QED BY <2>1, <2>2
<1> QED BY <1>3, <1>4, <1>5

-----------------------------------------------------------------------------
(* Versions.                                                               *)

(* A name that does not match counts as number 0.                          *)
Known == {Stable(n) : n \in Nat} \cup [major : Nat, stability : {"alpha", "beta"}, minor : Nat]

VersionsTyped == versions \in Seq(Known)

(* The parts of a version, and that a stable one has no minor number.      *)
LEMMA Parts ==
  ASSUME NEW v \in Known
  PROVE  /\ v.major \in Nat /\ v.minor \in Nat
         /\ v.stability \in {"stable", "beta", "alpha"}
         /\ v.stability = "stable" => v.minor = 0
BY DEF Known, Stable

(* Ranks of stability are numbers, and different for different ones.       *)
LEMMA Ranks ==
  StabilityOrder["stable"] = 3 /\ StabilityOrder["beta"] = 2 /\ StabilityOrder["alpha"] = 1
BY DEF StabilityOrder

(* A version compares with another as its parts do, the first that is      *)
(* different, with the rank in place of the stability.                     *)
LEMMA Lexicographic ==
  ASSUME NEW a \in Known, NEW b \in Known
  PROVE  LET r == StabilityOrder[a.stability]
             s == StabilityOrder[b.stability]
         IN /\ r \in Int /\ s \in Int
            /\ Compare(a, b) \in Int
            /\ Compare(a, b) >= 0 <=>
                 \/ a.major > b.major
                 \/ a.major = b.major /\ r > s
                 \/ a.major = b.major /\ r = s /\ a.minor >= b.minor
            /\ Compare(a, b) > 0 <=>
                 \/ a.major > b.major
                 \/ a.major = b.major /\ r > s
                 \/ a.major = b.major /\ r = s /\ a.minor > b.minor
<1>1. a.major \in Nat /\ a.minor \in Nat /\ b.major \in Nat /\ b.minor \in Nat
  BY Parts
<1>2. a.stability \in {"stable", "beta", "alpha"} /\ b.stability \in {"stable", "beta", "alpha"}
  BY Parts
<1>3. /\ StabilityOrder[a.stability] \in Int /\ StabilityOrder[b.stability] \in Int
      /\ StabilityOrder[a.stability] = StabilityOrder[b.stability] <=> a.stability = b.stability
  BY <1>2, Ranks
<1>4. a.stability = "stable" /\ b.stability = "stable" => a.minor = b.minor
  BY Parts
<1> QED BY <1>1, <1>3, <1>4 DEF Compare

(* Swapping the arguments changes the sign.                                *)
LEMMA SignChanges ==
  ASSUME NEW a \in Known, NEW b \in Known
  PROVE  Compare(a, b) > 0 <=> Compare(b, a) < 0
<1>1. a.major \in Nat /\ a.minor \in Nat /\ b.major \in Nat /\ b.minor \in Nat
  BY Parts
<1>2. Compare(b, a) \in Int
  BY Lexicographic
<1>3. Compare(b, a) < 0 <=> ~ (Compare(b, a) >= 0)
  BY <1>2
<1> QED BY <1>1, <1>3, Lexicographic

(* What is not before the second is not before what comes after it.        *)
LEMMA Transitive ==
  ASSUME NEW a \in Known, NEW b \in Known, NEW c \in Known,
         Compare(a, b) >= 0, Compare(b, c) >= 0
  PROVE  Compare(a, c) >= 0
<1>1. /\ a.major \in Nat /\ a.minor \in Nat /\ b.major \in Nat
      /\ b.minor \in Nat /\ c.major \in Nat /\ c.minor \in Nat
  BY Parts
<1> QED BY <1>1, Lexicographic

(* Versions added are ones parseVersion may return.                        *)
LEMMA TypeCorrect == VersionSpec => []VersionsTyped
<1>1. VersionInit => VersionsTyped
  BY DEF VersionInit, VersionsTyped
<1>2. VersionsTyped /\ [VersionNext]_versionVars => VersionsTyped'
  <2> SUFFICES ASSUME VersionsTyped, [VersionNext]_versionVars PROVE VersionsTyped'
    OBVIOUS
  <2>1. CASE UNCHANGED versionVars
    BY <2>1 DEF versionVars, VersionsTyped
  <2>2. CASE VersionNext
    <3>1. PICK v \in Version : AddVersion(v)
      BY <2>2 DEF VersionNext
    <3>2. v \in Known
      BY NumbersAssumption DEF Version, NonStandard, Known, Stable
    <3> QED BY <3>1, <3>2 DEF AddVersion, VersionsTyped
  <2> QED BY <2>1, <2>2 DEF VersionNext
<1> QED BY <1>1, <1>2, PTL DEF VersionSpec

(* compareKubernetesVersions may be given to sort: in a list of any        *)
(* versions with any numbers, it changes its sign and is transitive.       *)
THEOREM SortIsDefined == VersionSpec => []ComparisonIsOrder
<1>1. VersionsTyped => ComparisonIsOrder
  <2> SUFFICES ASSUME VersionsTyped, NEW i \in DOMAIN versions, NEW j \in DOMAIN versions,
                      NEW k \in DOMAIN versions
               PROVE  /\ Compare(versions[i], versions[j]) > 0 <=>
                           Compare(versions[j], versions[i]) < 0
                      /\ Compare(versions[i], versions[j]) >= 0
                         /\ Compare(versions[j], versions[k]) >= 0 =>
                           Compare(versions[i], versions[k]) >= 0
    BY DEF ComparisonIsOrder
  <2>1. versions[i] \in Known /\ versions[j] \in Known /\ versions[k] \in Known
    BY DEF VersionsTyped
  <2> QED BY <2>1, SignChanges, Transitive
<1> QED BY <1>1, TypeCorrect, PTL

-----------------------------------------------------------------------------
(* The choice of the latest.                                               *)

(* In a list any two positions have an order, and only one of them.        *)
LEMMA PrecedesIsOrder ==
  ASSUME NEW vs \in Seq(Known), NEW i \in DOMAIN vs, NEW j \in DOMAIN vs
  PROVE  /\ i # j => Precedes(vs, i, j) \/ Precedes(vs, j, i)
         /\ ~(Precedes(vs, i, j) /\ Precedes(vs, j, i))
<1>1. vs[i] \in Known /\ vs[j] \in Known /\ i \in Nat /\ j \in Nat
  OBVIOUS
<1>2. Compare(vs[i], vs[j]) \in Int /\ Compare(vs[j], vs[i]) \in Int
  BY <1>1, Lexicographic
<1>3. /\ Compare(vs[i], vs[j]) > 0 <=> Compare(vs[j], vs[i]) < 0
      /\ Compare(vs[j], vs[i]) > 0 <=> Compare(vs[i], vs[j]) < 0
  BY <1>1, SignChanges
<1> QED BY <1>1, <1>2, <1>3 DEF Precedes

(* Of three entries, the first precedes the third if it precedes the       *)
(* second and the second the third.                                        *)
LEMMA PrecedesTransitive ==
  ASSUME NEW vs \in Seq(Known), NEW i \in DOMAIN vs, NEW j \in DOMAIN vs, NEW k \in DOMAIN vs,
         Precedes(vs, i, j), Precedes(vs, j, k)
  PROVE  Precedes(vs, i, k)
<1>1. vs[i] \in Known /\ vs[j] \in Known /\ vs[k] \in Known /\ i \in Nat /\ j \in Nat /\ k \in Nat
  OBVIOUS
<1>2. /\ Compare(vs[i], vs[j]) \in Int /\ Compare(vs[j], vs[k]) \in Int /\ Compare(vs[i], vs[k]) \in Int
      /\ Compare(vs[j], vs[i]) \in Int /\ Compare(vs[k], vs[j]) \in Int /\ Compare(vs[k], vs[i]) \in Int
  BY <1>1, Lexicographic
<1>3. /\ Compare(vs[i], vs[j]) > 0 <=> Compare(vs[j], vs[i]) < 0
      /\ Compare(vs[j], vs[i]) > 0 <=> Compare(vs[i], vs[j]) < 0
      /\ Compare(vs[j], vs[k]) > 0 <=> Compare(vs[k], vs[j]) < 0
      /\ Compare(vs[k], vs[j]) > 0 <=> Compare(vs[j], vs[k]) < 0
      /\ Compare(vs[i], vs[k]) > 0 <=> Compare(vs[k], vs[i]) < 0
      /\ Compare(vs[k], vs[i]) > 0 <=> Compare(vs[i], vs[k]) < 0
  BY <1>1, SignChanges
<1>4. Compare(vs[i], vs[j]) >= 0 /\ Compare(vs[j], vs[k]) >= 0
  BY <1>2, <1>3 DEF Precedes
<1>5. Compare(vs[i], vs[k]) >= 0
  BY <1>1, <1>4, Transitive
<1>6. CASE Compare(vs[k], vs[i]) < 0
  BY <1>6 DEF Precedes
<1>7. CASE Compare(vs[k], vs[i]) = 0
  <2>1. Compare(vs[k], vs[j]) >= 0
    <3>1. Compare(vs[k], vs[i]) >= 0
      BY <1>7
    <3> QED BY <1>1, <1>4, <3>1, Transitive
  <2>2. Compare(vs[j], vs[i]) >= 0
    <3>1. Compare(vs[k], vs[i]) >= 0
      BY <1>7
    <3> QED BY <1>1, <1>4, <3>1, Transitive
  <2>3. i < j /\ j < k
    BY <1>2, <2>1, <2>2 DEF Precedes
  <2> QED BY <1>1, <1>7, <2>3 DEF Precedes
<1> QED BY <1>2, <1>3, <1>5, <1>6, <1>7

(* One more version finds its place: before the first it precedes.         *)
LEMMA OrderGrows ==
  ASSUME NEW vs \in Seq(Known), NEW v \in Known, NEW order, Sorts(order, vs)
  PROVE  \E o : Sorts(o, Append(vs, v))
<1> DEFINE n == Len(vs)
           ws == Append(vs, v)
           After == {i \in 1..n : Precedes(ws, n + 1, order[i])}
<1>1. /\ n \in Nat /\ DOMAIN vs = 1..n /\ DOMAIN ws = 1..(n + 1) /\ ws \in Seq(Known)
      /\ \A i \in 1..n : ws[i] = vs[i]
  OBVIOUS
<1>2. /\ order \in [1..n -> 1..n]
      /\ \A k \in 1..n : \E i \in 1..n : order[i] = k
      /\ \A i, j \in 1..n : i < j => Precedes(vs, order[i], order[j])
  BY <1>1 DEF Sorts
<1>3. \A i, j \in 1..n : Precedes(ws, i, j) <=> Precedes(vs, i, j)
  BY <1>1 DEF Precedes
<1>4. PICK m \in 1..(n + 1) :
        /\ \A i \in 1..n : i < m => ~Precedes(ws, n + 1, order[i])
        /\ m <= n => Precedes(ws, n + 1, order[m])
  <2>1. CASE After = {}
    BY <1>1, <2>1
  <2>2. CASE After # {}
    <3>1. After \subseteq Nat
      BY <1>1
    <3>2. PICK m \in After : \A k \in After : m <= k
      BY <2>2, <3>1, LeastNumber
    <3> QED BY <1>1, <3>2
  <2> QED BY <2>1, <2>2
<1> DEFINE o == [i \in 1..(n + 1) |-> IF i < m THEN order[i] ELSE IF i = m THEN n + 1 ELSE order[i - 1]]
<1> HIDE DEF n, ws, After
<1>5. /\ \A i \in 1..n : i < m => o[i] = order[i] /\ order[i] \in 1..n
      /\ o[m] = n + 1
      /\ \A i \in 1..n : i >= m => o[i + 1] = order[i] /\ order[i] \in 1..n
  <2>1. \A i \in 1..n : order[i] \in 1..n
    BY <1>2
  <2>2. \A i \in 1..(n + 1) :
          o[i] = IF i < m THEN order[i] ELSE IF i = m THEN n + 1 ELSE order[i - 1]
    OBVIOUS
  <2> HIDE DEF o
  <2>3. \A i \in 1..n : i \in 1..(n + 1)
    BY <1>1
  <2>4. \A i \in 1..n : i >= m => o[i + 1] = order[i]
    <3> SUFFICES ASSUME NEW i \in 1..n, i >= m PROVE o[i + 1] = order[i]
      OBVIOUS
    <3>1. i + 1 \in 1..(n + 1) /\ ~(i + 1 < m) /\ i + 1 # m /\ (i + 1) - 1 = i
      BY <1>1
    <3> QED BY <2>2, <3>1
  <2>5. \A i \in 1..n : i < m => o[i] = order[i]
    BY <2>2, <2>3
  <2>6. o[m] = n + 1
    BY <1>1, <2>2
  <2> QED BY <2>1, <2>4, <2>5, <2>6
<1>6. o \in [1..(n + 1) -> 1..(n + 1)]
  <2>1. \A i \in 1..(n + 1) : o[i] \in 1..(n + 1)
    <3> HIDE DEF o
    <3> SUFFICES ASSUME NEW i \in 1..(n + 1) PROVE o[i] \in 1..(n + 1)
      OBVIOUS
    <3>1. CASE i < m
      BY <1>1, <1>5, <3>1
    <3>2. CASE i = m
      BY <1>1, <1>5, <3>2
    <3>3. CASE i > m
      <4>1. i - 1 \in 1..n /\ i - 1 >= m /\ (i - 1) + 1 = i
        BY <1>1, <3>3
      <4>2. o[i] = order[i - 1] /\ order[i - 1] \in 1..n
        BY <1>5, <4>1
      <4> QED BY <1>1, <4>2
    <3> QED BY <1>1, <3>1, <3>2, <3>3
  <2> QED BY <2>1
<1> HIDE DEF o
<1>7. \A k \in 1..(n + 1) : \E i \in 1..(n + 1) : o[i] = k
  <2> SUFFICES ASSUME NEW k \in 1..(n + 1) PROVE \E i \in 1..(n + 1) : o[i] = k
    OBVIOUS
  <2>1. CASE k = n + 1
    BY <1>5, <2>1
  <2>2. CASE k # n + 1
    <3>1. PICK i \in 1..n : order[i] = k
      BY <1>1, <1>2, <2>2
    <3>2. CASE i < m
      BY <1>1, <1>5, <3>1, <3>2
    <3>3. CASE ~(i < m)
      <4>1. i + 1 \in 1..(n + 1) /\ i >= m
        BY <1>1, <3>3
      <4> QED BY <1>5, <3>1, <4>1
    <3> QED BY <3>2, <3>3
  <2> QED BY <2>1, <2>2
<1>8. \A i \in 1..n :
        IF i < m THEN Precedes(ws, order[i], n + 1) ELSE Precedes(ws, n + 1, order[i])
  <2> SUFFICES ASSUME NEW i \in 1..n
               PROVE  IF i < m THEN Precedes(ws, order[i], n + 1) ELSE Precedes(ws, n + 1, order[i])
    OBVIOUS
  <2>1. order[i] \in 1..(n + 1) /\ order[i] # n + 1 /\ n + 1 \in 1..(n + 1)
    BY <1>1, <1>2
  <2>2. CASE i < m
    BY <1>1, <1>4, <2>1, <2>2, PrecedesIsOrder
  <2>3. CASE i = m
    BY <1>1, <1>4, <2>3
  <2>4. CASE i > m
    <3>1. m \in 1..n /\ m < i
      BY <1>1, <2>4
    <3>2. Precedes(ws, n + 1, order[m]) /\ order[m] \in 1..(n + 1)
      BY <1>1, <1>2, <1>4, <3>1
    <3>3. Precedes(ws, order[m], order[i])
      BY <1>2, <1>3, <3>1
    <3> QED BY <1>1, <2>1, <2>4, <3>2, <3>3, PrecedesTransitive
  <2> QED BY <1>1, <2>2, <2>3, <2>4
<1>9. \A i, j \in 1..(n + 1) : i < j => Precedes(ws, o[i], o[j])
  <2> SUFFICES ASSUME NEW i \in 1..(n + 1), NEW j \in 1..(n + 1), i < j
               PROVE  Precedes(ws, o[i], o[j])
    OBVIOUS
  <2>1. CASE j < m
    <3>1. i \in 1..n /\ j \in 1..n
      BY <1>1, <2>1
    <3>2. o[i] = order[i] /\ o[j] = order[j] /\ order[i] \in 1..n /\ order[j] \in 1..n
      BY <1>1, <1>5, <2>1, <3>1
    <3> QED BY <1>2, <1>3, <3>1, <3>2
  <2>2. CASE j = m
    <3>1. i \in 1..n /\ i < m
      BY <1>1, <2>2
    <3> QED BY <1>5, <1>8, <2>2, <3>1
  <2>3. CASE j > m /\ i < m
    <3>1. i \in 1..n /\ j - 1 \in 1..n /\ i < j - 1 /\ j - 1 >= m /\ (j - 1) + 1 = j
      BY <1>1, <2>3
    <3>2. Precedes(ws, order[i], order[j - 1])
      BY <1>2, <1>3, <3>1
    <3> QED BY <1>5, <2>3, <3>1, <3>2
  <2>4. CASE j > m /\ i = m
    <3>1. j - 1 \in 1..n /\ j - 1 >= m /\ (j - 1) + 1 = j
      BY <1>1, <2>4
    <3>2. Precedes(ws, n + 1, order[j - 1])
      BY <1>1, <1>8, <3>1
    <3> QED BY <1>5, <2>4, <3>1, <3>2
  <2>5. CASE j > m /\ i > m
    <3>1. /\ j - 1 \in 1..n /\ j - 1 >= m /\ (j - 1) + 1 = j
          /\ i - 1 \in 1..n /\ i - 1 >= m /\ (i - 1) + 1 = i /\ i - 1 < j - 1
      BY <1>1, <2>5
    <3>2. Precedes(ws, order[i - 1], order[j - 1])
      BY <1>2, <1>3, <3>1
    <3> QED BY <1>5, <3>1, <3>2
  <2> QED BY <1>1, <2>1, <2>2, <2>3, <2>4, <2>5
<1>10. Sorts(o, ws)
  BY <1>1, <1>6, <1>7, <1>9 DEF Sorts
<1> QED BY <1>10 DEF ws

(* The latest is the version that precedes all others in the list.         *)
Foremost(vs, k) == \A j \in DOMAIN vs \ {k} : Precedes(vs, k, j)

(* An order that sorts the list begins with the entry before all others.   *)
LEMMA LatestIsFirst ==
  ASSUME NEW vs \in Seq(Known), vs # <<>>, NEW order, Sorts(order, vs)
  PROVE  \E k \in DOMAIN vs : Latest(vs) = vs[k] /\ Foremost(vs, k)
<1>1. DOMAIN vs = 1..Len(vs) /\ Len(vs) \in Nat /\ 1 \in DOMAIN vs
  OBVIOUS
<1>2. CASE Len(vs) = 1
  BY <1>1, <1>2 DEF Latest, Foremost
<1>3. CASE Len(vs) # 1
  <2> DEFINE o == CHOOSE o \in [DOMAIN vs -> DOMAIN vs] : Sorts(o, vs)
  <2>1. Sorts(o, vs)
    BY DEF Sorts
  <2>2. Sorted(vs)[1] = vs[o[1]]
    BY <1>1 DEF Sorted
  <2> HIDE DEF o
  <2>3. o[1] \in DOMAIN vs
    BY <1>1, <2>1 DEF Sorts
  <2>4. Foremost(vs, o[1])
    <3> SUFFICES ASSUME NEW j \in DOMAIN vs, j # o[1] PROVE Precedes(vs, o[1], j)
      BY DEF Foremost
    <3>1. PICK i \in DOMAIN vs : o[i] = j
      BY <2>1 DEF Sorts
    <3>2. 1 < i
      BY <1>1, <3>1
    <3> QED BY <1>1, <2>1, <3>1, <3>2 DEF Sorts
  <2> QED BY <1>3, <2>2, <2>3, <2>4 DEF Latest
<1> QED BY <1>2, <1>3

(* Versions can be sorted, and the latest is the first of them.            *)
ChoiceInv ==
  /\ VersionsTyped
  /\ \E order : Sorts(order, versions)
  /\ versions # <<>> => \E k \in DOMAIN versions : latest = versions[k] /\ Foremost(versions, k)

(* An empty list is sorted as it is.                                       *)
LEMMA InitChoice == VersionInit => ChoiceInv
<1> SUFFICES ASSUME VersionInit PROVE ChoiceInv
  OBVIOUS
<1>1. versions = <<>> /\ DOMAIN versions = {}
  BY DEF VersionInit
<1>2. Sorts([i \in {} |-> i], versions)
  BY <1>1 DEF Sorts
<1> QED BY <1>1, <1>2 DEF ChoiceInv, VersionsTyped

(* A version added takes the first one's place only if it is greater than  *)
(* all that were there.                                                    *)
LEMMA ChoiceStep ==
  ASSUME ChoiceInv, NEW v \in Version, AddVersion(v)
  PROVE  /\ ChoiceInv'
         /\ latest' # latest => \A i \in DOMAIN versions : Compare(latest', versions[i]) > 0
<1> DEFINE n == Len(versions)
<1>1. v \in Known
  BY NumbersAssumption DEF Version, NonStandard, Known, Stable
<1>2. versions \in Seq(Known) /\ versions' = Append(versions, v) /\ latest' = Latest(versions')
  BY DEF ChoiceInv, VersionsTyped, AddVersion
<1>3. /\ n \in Nat /\ DOMAIN versions = 1..n /\ DOMAIN versions' = 1..(n + 1)
      /\ versions' \in Seq(Known) /\ versions' # <<>> /\ versions'[n + 1] = v
      /\ \A i \in 1..n : versions'[i] = versions[i] /\ versions[i] \in Known
  BY <1>1, <1>2
<1>4. \E order : Sorts(order, versions')
  BY <1>1, <1>2, OrderGrows DEF ChoiceInv
<1>5. PICK k \in DOMAIN versions' : latest' = versions'[k] /\ Foremost(versions', k)
  BY <1>2, <1>3, <1>4, LatestIsFirst
<1>6. ChoiceInv'
  BY <1>3, <1>4, <1>5 DEF ChoiceInv, VersionsTyped
<1> HIDE DEF n
<1>7. ASSUME latest' # latest, NEW i \in DOMAIN versions
      PROVE  Compare(latest', versions[i]) > 0
  <2>1. CASE k = n + 1
    <3>1. Precedes(versions', n + 1, i) /\ i < n + 1
      BY <1>3, <1>5, <1>7, <2>1 DEF Foremost
    <3>2. Compare(versions[i], v) < 0
      <4>1. Compare(versions'[i], versions'[n + 1]) < 0
        BY <1>3, <1>7, <3>1 DEF Precedes
      <4> QED BY <1>3, <1>7, <4>1
    <3>3. latest' = v /\ versions[i] \in Known
      BY <1>3, <1>5, <1>7, <2>1
    <3> QED BY <1>1, <3>2, <3>3, SignChanges
  <2>2. CASE k # n + 1
    <3>1. k \in 1..n /\ versions # <<>>
      BY <1>3, <1>7, <2>2
    <3>2. PICK m \in 1..n : latest = versions[m] /\ Foremost(versions, m)
      BY <1>3, <3>1 DEF ChoiceInv
    <3>3. m = k
      <4> SUFFICES ASSUME m # k PROVE FALSE
        OBVIOUS
      <4>1. Precedes(versions', k, m)
        BY <1>3, <1>5, <3>2 DEF Foremost
      <4>2. Precedes(versions, m, k)
        BY <1>3, <3>1, <3>2 DEF Foremost
      <4>3. Precedes(versions, k, m)
        BY <1>3, <3>1, <4>1 DEF Precedes
      <4> QED BY <1>2, <1>3, <3>1, <4>2, <4>3, PrecedesIsOrder
    <3> QED BY <1>3, <1>5, <1>7, <3>1, <3>2, <3>3
  <2> QED BY <2>1, <2>2
<1> QED BY <1>6, <1>7

(* So it is in every run.                                                  *)
LEMMA Choice == VersionSpec => []ChoiceInv
<1>1. ChoiceInv /\ [VersionNext]_versionVars => ChoiceInv'
  <2> SUFFICES ASSUME ChoiceInv, [VersionNext]_versionVars PROVE ChoiceInv'
    OBVIOUS
  <2>1. CASE UNCHANGED versionVars
    BY <2>1 DEF versionVars, ChoiceInv, VersionsTyped
  <2> QED BY <2>1, ChoiceStep DEF VersionNext
<1> QED BY InitChoice, <1>1, PTL DEF VersionSpec

(* getLatestKubernetesVersion, through a sort: in a list of any length,    *)
(* whatever was added before and in which order, a version added becomes   *)
(* the latest only if it is greater than every other.                      *)
THEOREM LatestFollows == VersionSpec => LatestIsRunningMaximum
<1>1. ChoiceInv /\ [VersionNext]_versionVars =>
        [latest' # latest => \A i \in DOMAIN versions : Compare(latest', versions[i]) > 0]_versionVars
  BY ChoiceStep DEF VersionNext
<1> QED BY <1>1, Choice, PTL DEF VersionSpec, LatestIsRunningMaximum

-----------------------------------------------------------------------------
(* The report of errors.                                                   *)

Places(s, x) == {i \in DOMAIN s : s[i] = x}

(* A count is the number of places.                                        *)
LEMMA CountIs ==
  ASSUME NEW s, NEW x
  PROVE  Count(s, x) = Cardinality(Places(s, x))
BY DEF Count, Places

(* In a sequence, a thing is found finitely often.                         *)
LEMMA CountTyped ==
  ASSUME NEW E, NEW s \in Seq(E), NEW x
  PROVE  /\ IsFiniteSet(Places(s, x)) /\ Places(s, x) \subseteq 1..Len(s) /\ Count(s, x) \in Nat
<1>1. Len(s) \in Nat /\ DOMAIN s = 1..Len(s)
  OBVIOUS
<1>2. Places(s, x) \subseteq 1..Len(s)
  BY <1>1 DEF Places
<1>3. IsFiniteSet(1..Len(s))
  BY <1>1, FS_Interval
<1>4. IsFiniteSet(Places(s, x))
  BY <1>2, <1>3, FS_Subset
<1> QED BY <1>2, <1>4, FS_CardinalityType, CountIs

(* Of two sequences, one behind the other, it is found in each.            *)
LEMMA CountBoth ==
  ASSUME NEW E, NEW s \in Seq(E), NEW t \in Seq(E), NEW x
  PROVE  Count(s \o t, x) = Count(s, x) + Count(t, x)
<1>1. PICK m \in Nat, n \in Nat : m = Len(s) /\ n = Len(t)
  OBVIOUS
<1>2. PICK u : u = s \o t
  OBVIOUS
<1>3. /\ u \in Seq(E) /\ DOMAIN u = 1..(m + n) /\ DOMAIN s = 1..m /\ DOMAIN t = 1..n
      /\ \A i \in 1..m : u[i] = s[i]
      /\ \A i \in 1..n : u[m + i] = t[i]
  BY <1>1, <1>2
<1> DEFINE S == Places(s, x)
           T == {i \in (m + 1)..(m + n) : u[i] = x}
           Up == [i \in Places(t, x) |-> m + i]
<1>4. Places(u, x) = S \cup T /\ S \cap T = {}
  <2>1. \A i \in 1..(m + n) : i \in 1..m \/ i \in (m + 1)..(m + n)
    BY <1>1
  <2>2. \A i \in 1..m : i \in 1..(m + n) /\ i \notin (m + 1)..(m + n)
    BY <1>1
  <2>3. \A i \in (m + 1)..(m + n) : i \in 1..(m + n)
    BY <1>1
  <2> QED BY <1>3, <2>1, <2>2, <2>3 DEF Places
<1>5. T \subseteq 1..(m + n) /\ IsFiniteSet(T)
  <2>1. T \subseteq 1..(m + n)
    BY <1>1
  <2>2. IsFiniteSet(1..(m + n))
    BY FS_Interval
  <2> HIDE DEF T
  <2> QED BY <2>1, <2>2, FS_Subset
<1>6. ExistsBijection(Places(t, x), T)
  <2>1. ASSUME NEW i \in Places(t, x)
        PROVE  i \in 1..n /\ m + i \in (m + 1)..(m + n) /\ u[m + i] = x
    <3>1. i \in 1..n /\ t[i] = x
      BY <1>3 DEF Places
    <3>2. u[m + i] = x
      BY <1>3, <3>1
    <3> QED BY <3>1, <3>2
  <2>2. Up \in [Places(t, x) -> T]
    BY <2>1
  <2>3. \A a, b \in Places(t, x) : Up[a] = Up[b] => a = b
    BY <1>1, <2>1
  <2>4. ASSUME NEW j \in T PROVE \E i \in Places(t, x) : Up[i] = j
    <3>1. j - m \in 1..n /\ m + (j - m) = j
      BY <1>1
    <3>2. j - m \in Places(t, x)
      BY <1>3, <3>1 DEF Places
    <3> QED BY <3>1, <3>2
  <2> HIDE DEF T, Up
  <2> QED BY <2>2, <2>3, <2>4 DEF ExistsBijection, Bijection, Injection, Surjection, IsInjective
<1>7. Cardinality(T) = Count(t, x)
  <2>1. IsFiniteSet(Places(t, x))
    BY CountTyped
  <2> HIDE DEF T, Up
  <2> QED BY <1>6, <2>1, FS_Bijection, CountIs
<1>8. Cardinality(S \cup T) = Cardinality(S) + Cardinality(T)
  <2>1. IsFiniteSet(S)
    BY CountTyped
  <2>2. Cardinality(S \cap T) = 0
    BY <1>4, FS_EmptySet
  <2>3. Cardinality(S) \in Nat /\ Cardinality(T) \in Nat
    BY <1>5, <2>1, FS_CardinalityType
  <2> HIDE DEF S, T
  <2>4. Cardinality(S \cup T) = Cardinality(S) + Cardinality(T) - Cardinality(S \cap T)
    BY <1>5, <2>1, FS_Union
  <2> QED BY <2>2, <2>3, <2>4
<1> QED BY <1>2, <1>4, <1>7, <1>8, CountIs

(* What FlattenSeq goes through: what it has of the first i of them.       *)
IsFlattening(f, ss, n) ==
  f = [i \in 1..n |-> IF i = 1 THEN ss[i] ELSE f[i - 1] \o ss[i]]

(* A sequence without length is empty.                                     *)
LEMMA NothingThere ==
  ASSUME NEW E, NEW s \in Seq(E), Len(s) = 0
  PROVE  s = <<>>
OBVIOUS

(* The way to it, up to n.                                                 *)
LEMMA FlatteningExists ==
  ASSUME NEW E, NEW ss \in Seq(Seq(E)), NEW n \in Nat, n <= Len(ss)
  PROVE  \E f \in [1..n -> Seq(E)] : IsFlattening(f, ss, n)
<1> DEFINE T == {m \in Nat : m <= Len(ss) /\ ~ \E f \in [1..m -> Seq(E)] : IsFlattening(f, ss, m)}
<1> SUFFICES ASSUME T # {} PROVE FALSE
  OBVIOUS
<1>1. PICK m \in T : \A k \in T : m <= k
  <2>1. T \subseteq Nat
    OBVIOUS
  <2> HIDE DEF T
  <2> QED BY <2>1, LeastNumber
<1>2. m # 0
  <2>1. [i \in 1..0 |-> <<>>] \in [1..0 -> Seq(E)] /\ IsFlattening([i \in 1..0 |-> <<>>], ss, 0)
    BY DEF IsFlattening
  <2> QED BY <1>1, <2>1
<1>3. m - 1 \in Nat /\ m - 1 \notin T /\ m - 1 <= Len(ss) /\ Len(ss) \in Nat
  <2>1. m \in Nat /\ m <= Len(ss) /\ Len(ss) \in Nat
    OBVIOUS
  <2>2. m - 1 \in Nat /\ ~(m <= m - 1)
    BY <1>2, <2>1
  <2> HIDE DEF T
  <2> QED BY <1>1, <2>1, <2>2
<1>4. PICK f \in [1..(m - 1) -> Seq(E)] : IsFlattening(f, ss, m - 1)
  BY <1>3
<1>5. ss[m] \in Seq(E)
  BY <1>1, <1>2
<1>6. PICK g : g = [i \in 1..m |-> IF i = m THEN (IF m = 1 THEN ss[m] ELSE f[m - 1] \o ss[m]) ELSE f[i]]
  OBVIOUS
<1>7. m # 1 => m - 1 \in 1..(m - 1)
  BY <1>3
<1>8. \A i \in 1..m : i # m => i \in 1..(m - 1) /\ (i # 1 => i - 1 \in 1..(m - 1))
  BY <1>3
<1>9. g \in [1..m -> Seq(E)]
  <2>1. m # 1 => f[m - 1] \in Seq(E) /\ f[m - 1] \o ss[m] \in Seq(E)
    BY <1>4, <1>5, <1>7
  <2> QED BY <1>4, <1>5, <1>6, <1>8, <2>1
<1>10. \A i \in 1..(m - 1) : f[i] = IF i = 1 THEN ss[i] ELSE f[i - 1] \o ss[i]
  <2>1. f = [i \in 1..(m - 1) |-> IF i = 1 THEN ss[i] ELSE f[i - 1] \o ss[i]]
    BY <1>4 DEF IsFlattening
  <2> QED BY <2>1
<1>11. ASSUME NEW i \in 1..m PROVE g[i] = IF i = 1 THEN ss[i] ELSE g[i - 1] \o ss[i]
  <2>1. CASE i = m
    <3>1. m # 1 => g[m - 1] = f[m - 1]
      BY <1>3, <1>6, <1>7
    <3> QED BY <1>6, <2>1, <3>1
  <2>2. CASE i # m
    <3>1. g[i] = f[i] /\ i \in 1..(m - 1)
      BY <1>6, <1>8, <2>2
    <3>2. i # 1 => g[i - 1] = f[i - 1]
      <4>1. i - 1 # m
        BY <1>3
      <4>2. i # 1 => i - 1 \in 1..m
        BY <1>3
      <4> QED BY <1>6, <4>1, <4>2
    <3> QED BY <1>10, <3>1, <3>2
  <2> QED BY <2>1, <2>2
<1>12. IsFlattening(g, ss, m)
  <2>1. g = [i \in 1..m |-> g[i]]
    BY <1>6
  <2> QED BY <1>11, <2>1 DEF IsFlattening
<1> QED BY <1>1, <1>9, <1>12

(* If counts add up to g along the parts, g has the count of the whole.    *)
LEMMA CountFlattened ==
  ASSUME NEW E, NEW ss \in Seq(Seq(E)), NEW x, NEW g,
         g[0] = 0, \A i \in 1..Len(ss) : g[i] = g[i - 1] + Count(ss[i], x)
  PROVE  FlattenSeq(ss) \in Seq(E) /\ Count(FlattenSeq(ss), x) = g[Len(ss)]
<1>1. PICK n \in Nat : n = Len(ss)
  OBVIOUS
<1>2. CASE n = 0
  <2>0. ss = <<>>
    <3>1. Len(ss) = 0
      BY <1>1, <1>2
    <3> QED BY <3>1, NothingThere
  <2>1. ss = <<>> /\ FlattenSeq(ss) = ss
    BY <2>0 DEF FlattenSeq
  <2>2. Places(<<>>, x) = {}
    BY DEF Places
  <2>3. Count(<<>>, x) = 0
    BY <2>2, FS_EmptySet, CountIs
  <2>4. <<>> \in Seq(E) /\ Len(<<>>) = 0
    OBVIOUS
  <2> QED BY <2>1, <2>3, <2>4
<1>3. CASE n # 0
  <2> DEFINE flat == CHOOSE f : IsFlattening(f, ss, n)
  <2>1. n \in 1..n
    BY <1>3
  <2>2. PICK f \in [1..n -> Seq(E)] : IsFlattening(f, ss, n)
    <3>1. n <= Len(ss) /\ Len(ss) = n
      BY <1>1
    <3> QED BY <3>1, FlatteningExists
  <2>3. IsFlattening(flat, ss, n)
    BY <2>2
  <2>4. FlattenSeq(ss) = flat[n]
    BY <1>1, <1>3 DEF FlattenSeq, IsFlattening
  <2> HIDE DEF flat
  <2>5. \A i \in 1..n : flat[i] = IF i = 1 THEN ss[i] ELSE flat[i - 1] \o ss[i]
    BY <1>1, <2>3 DEF IsFlattening
  <2> DEFINE Fine(i) == flat[i] \in Seq(E) /\ Count(flat[i], x) = g[i]
             T == {i \in Nat : i \in 1..n /\ ~Fine(i)}
  <2>6. T = {}
    <3> SUFFICES ASSUME T # {} PROVE FALSE
      OBVIOUS
    <3>1. PICK m \in T : \A k \in T : m <= k
      <4>1. T \subseteq Nat
        OBVIOUS
      <4> HIDE DEF T
      <4> QED BY <4>1, LeastNumber
    <3>2. m \in 1..n /\ ss[m] \in Seq(E) /\ g[m] = g[m - 1] + Count(ss[m], x) /\ Count(ss[m], x) \in Nat
      BY <1>1, <3>1, CountTyped
    <3>3. CASE m = 1
      BY <2>5, <3>1, <3>2, <3>3
    <3>4. CASE m # 1
      <4>1. m - 1 \in 1..n /\ m - 1 \notin T
        BY <3>1, <3>2, <3>4
      <4>2. flat[m - 1] \in Seq(E) /\ Count(flat[m - 1], x) = g[m - 1]
        BY <4>1
      <4>3. flat[m] = flat[m - 1] \o ss[m]
        BY <2>5, <3>2, <3>4
      <4>4. Count(flat[m], x) = g[m] /\ flat[m] \in Seq(E)
        BY <3>2, <4>2, <4>3, CountBoth
      <4> QED BY <3>1, <4>4
    <3> QED BY <3>3, <3>4
  <2>7. Fine(n)
    BY <2>1, <2>6
  <2> QED BY <1>1, <2>4, <2>7
<1> QED BY <1>2, <1>3

(* Up to i there is one more of a set than up to i - 1 if i is in it.      *)
LEMMA OneMoreUpTo ==
  ASSUME NEW S, NEW i \in Nat \ {0}
  PROVE  Cardinality(S \cap (1..i)) =
           Cardinality(S \cap (1..(i - 1))) + (IF i \in S THEN 1 ELSE 0)
<1> DEFINE T == S \cap (1..(i - 1))
<1>1. IsFiniteSet(T) /\ Cardinality(T) \in Nat
  <2>1. IsFiniteSet(1..(i - 1))
    BY FS_Interval
  <2>2. T \subseteq 1..(i - 1)
    OBVIOUS
  <2> HIDE DEF T
  <2> QED BY <2>1, <2>2, FS_Subset, FS_CardinalityType
<1>2. S \cap (1..i) = IF i \in S THEN T \cup {i} ELSE T
  <2>1. 1..i = (1..(i - 1)) \cup {i}
    OBVIOUS
  <2> QED BY <2>1
<1>3. i \notin T
  OBVIOUS
<1> HIDE DEF T
<1>4. Cardinality(T \cup {i}) = Cardinality(T) + 1
  BY <1>1, <1>3, FS_AddElement
<1>5. Cardinality(S \cap (1..i)) = Cardinality(T) + (IF i \in S THEN 1 ELSE 0)
  BY <1>1, <1>2, <1>4
<1> QED BY <1>5 DEF T

ErrorEntry == [of : Range(Refs), what : {"Synced", "Ready", "manifest"}]

(* A condition of o adds an entry for w of r.                              *)
Adds(o, j, w) ==
  j \in Failing(o) /\ (w = o.conditions[j] \/ (w = "manifest" /\ o.kind = "Object"))

Adding(o, w) == {j \in DOMAIN o.conditions : Adds(o, j, w)}

(* Conditions are a sequence of conditions.                                *)
LEMMA ConditionsTyped ==
  ASSUME NEW o \in Observed
  PROVE  /\ o.conditions \in Seq(Condition)
         /\ Failing(o) \subseteq DOMAIN o.conditions
         /\ \A j \in Failing(o) : o.conditions[j] \in {"Synced", "Ready"}
<1>1. o.conditions \in SeqOf(Condition, MaxConditions)
  BY DEF Observed
<1>2. PICK m \in 0..MaxConditions : o.conditions \in [1..m -> Condition]
  BY <1>1 DEF SeqOf
<1>3. o.conditions \in Seq(Condition)
  BY <1>2
<1> QED BY <1>2, <1>3 DEF Failing, Condition

(* One and one more are two.                                               *)
LEMMA TwoInOrder ==
  ASSUME NEW E, NEW a \in E, NEW b \in E
  PROVE  <<a>> \o <<b>> = <<a, b>> /\ <<a, b>> \in Seq(E)
<1>1. PICK u, v : u = <<a>> \o <<b>> /\ v = <<a, b>>
  OBVIOUS
<1>2. u \in Seq(E) /\ Len(u) = 2 /\ u[1] = a /\ u[2] = b
  BY <1>1
<1>3. v \in Seq(E) /\ Len(v) = 2 /\ v[1] = a /\ v[2] = b
  BY <1>1
<1>4. u \in [1..2 -> E] /\ v \in [1..2 -> E]
  BY <1>2, <1>3
<1>5. \A i \in 1..2 : u[i] = v[i]
  <2>1. \A i \in 1..2 : i = 1 \/ i = 2
    OBVIOUS
  <2> QED BY <1>2, <1>3, <2>1
<1>6. u = v
  BY <1>4, <1>5
<1> QED BY <1>1, <1>3, <1>6

(* What one condition adds, it adds once.                                  *)
LEMMA ReportedOnce ==
  ASSUME NEW r \in Range(Refs), NEW o \in Observed, NEW j \in DOMAIN o.conditions,
         NEW q, NEW w
  PROVE  /\ Reported(r, o, j) \in Seq(ErrorEntry)
         /\ Count(Reported(r, o, j), [of |-> q, what |-> w]) =
              IF q = r /\ Adds(o, j, w) THEN 1 ELSE 0
<1>1. PICK c : c = o.conditions[j]
  OBVIOUS
<1>2. PICK x : x = [of |-> q, what |-> w]
  OBVIOUS
<1>3. PICK a, b : a = [of |-> r, what |-> c] /\ b = [of |-> r, what |-> "manifest"]
  OBVIOUS
<1>4. (x = a <=> q = r /\ w = c) /\ (x = b <=> q = r /\ w = "manifest")
  BY <1>2, <1>3
<1>5. CASE j \notin Failing(o)
  <2>1. Reported(r, o, j) = <<>> /\ Places(<<>>, x) = {}
    BY <1>5 DEF Reported, Places
  <2>2. ~Adds(o, j, w)
    BY <1>5 DEF Adds
  <2>3. Count(<<>>, x) = 0
    BY <2>1, FS_EmptySet, CountIs
  <2>4. <<>> \in Seq(ErrorEntry)
    OBVIOUS
  <2> QED BY <1>2, <2>1, <2>2, <2>3, <2>4
<1>6. CASE j \in Failing(o)
  <2>1. c \in {"Synced", "Ready"} /\ a \in ErrorEntry /\ b \in ErrorEntry /\ a # b
    BY <1>1, <1>3, <1>6, ConditionsTyped DEF ErrorEntry
  <2>2. CASE o.kind = "Object"
    <3>1. Reported(r, o, j) = <<a, b>> /\ <<a, b>> \in Seq(ErrorEntry)
      <4>1. Reported(r, o, j) = <<a>> \o <<b>>
        BY <1>1, <1>3, <1>6, <2>2 DEF Reported, Added
      <4> QED BY <2>1, <4>1, TwoInOrder
    <3>2. Places(<<a, b>>, x) = IF x = a THEN {1} ELSE IF x = b THEN {2} ELSE {}
      BY <2>1 DEF Places
    <3>3. Adds(o, j, w) <=> w = c \/ w = "manifest"
      BY <1>1, <1>6, <2>2 DEF Adds
    <3> QED BY <1>2, <1>4, <3>1, <3>2, <3>3, FS_EmptySet, FS_Singleton, CountIs
  <2>3. CASE o.kind # "Object"
    <3>1. Reported(r, o, j) = <<a>> /\ <<a>> \in Seq(ErrorEntry)
      BY <1>1, <1>3, <1>6, <2>1, <2>3 DEF Reported, Added
    <3>2. Places(<<a>>, x) = IF x = a THEN {1} ELSE {}
      BY DEF Places
    <3>3. Adds(o, j, w) <=> w = c
      BY <1>1, <1>6, <2>3 DEF Adds
    <3> QED BY <1>2, <1>4, <3>1, <3>2, <3>3, FS_EmptySet, FS_Singleton, CountIs
  <2> QED BY <2>2, <2>3
<1> QED BY <1>5, <1>6

(* Of one resource, each condition that fails is reported once.            *)
LEMMA ErrorsOfOne ==
  ASSUME NEW r \in Range(Refs), NEW o \in Observed, NEW q, NEW w
  PROVE  /\ ErrorsOf(r, o) \in Seq(ErrorEntry)
         /\ Count(ErrorsOf(r, o), [of |-> q, what |-> w]) =
              IF q = r THEN Cardinality(Adding(o, w)) ELSE 0
<1>1. PICK n \in Nat : n = Len(o.conditions) /\ DOMAIN o.conditions = 1..n
  BY ConditionsTyped
<1>2. PICK ss : ss = [j \in DOMAIN o.conditions |-> Reported(r, o, j)]
  OBVIOUS
<1>3. PICK x : x = [of |-> q, what |-> w]
  OBVIOUS
<1>4. \A j \in 1..n : /\ ss[j] \in Seq(ErrorEntry)
                       /\ Count(ss[j], x) = IF q = r /\ Adds(o, j, w) THEN 1 ELSE 0
  BY <1>1, <1>2, <1>3, ReportedOnce
<1>5. ss \in Seq(Seq(ErrorEntry)) /\ Len(ss) = n
  <2>1. ss \in [1..n -> Seq(ErrorEntry)]
    BY <1>1, <1>2, <1>4
  <2> QED BY <2>1
<1>6. PICK S : S = IF q = r THEN {j \in 1..n : Adds(o, j, w)} ELSE {}
  OBVIOUS
<1>7. PICK g : g = [i \in 0..n |-> Cardinality(S \cap (1..i))]
  OBVIOUS
<1>8. g[0] = 0
  <2>1. S \cap (1..0) = {} /\ 0 \in 0..n
    OBVIOUS
  <2> QED BY <1>7, <2>1, FS_EmptySet
<1>9. ASSUME NEW i \in 1..n PROVE g[i] = g[i - 1] + Count(ss[i], x)
  <2>1. i \in 0..n /\ i - 1 \in 0..n /\ i \in Nat \ {0}
    OBVIOUS
  <2>2. Count(ss[i], x) = IF i \in S THEN 1 ELSE 0
    BY <1>4, <1>6
  <2>3. g[i] = Cardinality(S \cap (1..i)) /\ g[i - 1] = Cardinality(S \cap (1..(i - 1)))
    BY <1>7, <2>1
  <2> QED BY <2>1, <2>2, <2>3, OneMoreUpTo
<1>10. ErrorsOf(r, o) = FlattenSeq(ss)
  BY <1>2 DEF ErrorsOf
<1>11. ErrorsOf(r, o) \in Seq(ErrorEntry) /\ Count(ErrorsOf(r, o), x) = g[n]
  BY <1>5, <1>8, <1>9, <1>10, CountFlattened
<1>12. g[n] = Cardinality(S)
  <2>1. S \cap (1..n) = S /\ n \in 0..n
    BY <1>6
  <2> QED BY <1>7, <2>1
<1>13. q = r => S = Adding(o, w)
  BY <1>1, <1>6 DEF Adding
<1>14. q # r => g[n] = 0
  BY <1>6, <1>12, FS_EmptySet
<1> QED BY <1>3, <1>11, <1>12, <1>13, <1>14

(* And so it is of all, since each resource has its own place.             *)
LEMMA ErrorsOfAll ==
  ASSUME NEW obs \in [Range(Refs) -> Observed], NEW r \in Range(Refs), NEW w
  PROVE  /\ Errors(obs) \in Seq(ErrorEntry)
         /\ Count(Errors(obs), [of |-> r, what |-> w]) =
              Cardinality(Adding(obs[r], w))
<1>1. PICK n \in Nat : n = Len(Refs) /\ DOMAIN Refs = 1..n
  BY RefsAssumption
<1>2. PICK k \in 1..n : Refs[k] = r
  BY <1>1 DEF Range
<1>3. \A i \in 1..n : Refs[i] \in Range(Refs) /\ (Refs[i] = r => i = k)
  BY <1>1, <1>2, RefsAssumption DEF Range, IsInjective
<1>4. PICK ss : ss = [i \in DOMAIN Refs |-> ErrorsOf(Refs[i], obs[Refs[i]])]
  OBVIOUS
<1>5. PICK x : x = [of |-> r, what |-> w]
  OBVIOUS
<1>6. PICK c : c = Cardinality(Adding(obs[r], w))
  OBVIOUS
<1>7. ASSUME NEW i \in 1..n
      PROVE  ss[i] \in Seq(ErrorEntry) /\ Count(ss[i], x) = IF i = k THEN c ELSE 0
  <2>1. obs[Refs[i]] \in Observed /\ Refs[i] \in Range(Refs)
    BY <1>3
  <2>2. ss[i] = ErrorsOf(Refs[i], obs[Refs[i]])
    BY <1>1, <1>4
  <2>3. /\ ss[i] \in Seq(ErrorEntry)
        /\ Count(ss[i], x) =
             IF r = Refs[i] THEN Cardinality(Adding(obs[Refs[i]], w))
             ELSE 0
    <3>1. PICK q, o : q = Refs[i] /\ o = obs[Refs[i]]
      OBVIOUS
    <3>2. /\ ErrorsOf(q, o) \in Seq(ErrorEntry)
          /\ Count(ErrorsOf(q, o), [of |-> r, what |-> w]) =
               IF r = q THEN Cardinality(Adding(o, w)) ELSE 0
      BY <2>1, <3>1, ErrorsOfOne
    <3> QED BY <1>5, <2>2, <3>1, <3>2
  <2>4. r = Refs[i] <=> i = k
    BY <1>2, <1>3
  <2>5. CASE i = k
    BY <1>6, <2>3, <2>4, <2>5
  <2>6. CASE i # k
    BY <2>3, <2>4, <2>6
  <2> QED BY <2>5, <2>6
<1>8. ss \in Seq(Seq(ErrorEntry)) /\ Len(ss) = n
  <2>1. ss \in [1..n -> Seq(ErrorEntry)]
    BY <1>1, <1>4, <1>7
  <2> QED BY <2>1
<1>9. c \in Nat
  <2>1. obs[r] \in Observed
    OBVIOUS
  <2>2. PICK m \in Nat : DOMAIN obs[r].conditions = 1..m
    BY <2>1, ConditionsTyped
  <2>3. PICK S : S = Adding(obs[r], w)
    OBVIOUS
  <2>4. S \subseteq 1..m /\ IsFiniteSet(1..m)
    BY <2>2, <2>3, FS_Interval DEF Adding
  <2> QED BY <1>6, <2>3, <2>4, FS_Subset, FS_CardinalityType
<1>10. PICK g : g = [i \in 0..n |-> IF i < k THEN 0 ELSE c]
  OBVIOUS
<1>11. g[0] = 0 /\ g[n] = c /\ \A i \in 1..n : g[i] = g[i - 1] + Count(ss[i], x)
  <2>1. g[0] = 0 /\ g[n] = c
    BY <1>10
  <2>2. ASSUME NEW i \in 1..n PROVE g[i] = g[i - 1] + Count(ss[i], x)
    <3>1. i \in 0..n /\ i - 1 \in 0..n /\ (i - 1 < k <=> (i < k \/ i = k))
      OBVIOUS
    <3>2. g[i] = (IF i < k THEN 0 ELSE c) /\ g[i - 1] = (IF i < k \/ i = k THEN 0 ELSE c)
      BY <1>10, <3>1
    <3> QED BY <1>7, <1>9, <3>2
  <2> QED BY <2>1, <2>2
<1>12. Errors(obs) = FlattenSeq(ss)
  BY <1>4 DEF Errors
<1>13. FlattenSeq(ss) \in Seq(ErrorEntry) /\ Count(FlattenSeq(ss), x) = g[n]
  BY <1>8, <1>11, CountFlattened
<1> QED BY <1>5, <1>6, <1>11, <1>12, <1>13

(* What failed is whatever adds an entry for a condition; an Object adds   *)
(* its manifest for each.                                                  *)
LEMMA AddsIs ==
  ASSUME NEW o \in Observed
  PROVE  LET fails(w) == Count(o.conditions, w)
             adds(w) == Cardinality(Adding(o, w))
         IN /\ adds("Synced") = fails("Synced") /\ adds("Ready") = fails("Ready")
            /\ adds("manifest") = IF o.kind = "Object" THEN fails("Synced") + fails("Ready") ELSE 0
            /\ Failing(o) # {} => \E w \in {"Synced", "Ready"} : fails(w) # 0
<1>1. PICK n \in Nat : DOMAIN o.conditions = 1..n
  BY ConditionsTyped
<1>2. PICK S, R : /\ S = {j \in 1..n : o.conditions[j] = "Synced"}
                  /\ R = {j \in 1..n : o.conditions[j] = "Ready"}
  OBVIOUS
<1>3. /\ Failing(o) = S \cup R /\ S \cap R = {}
      /\ Failing(o) \subseteq 1..n
  BY <1>1, <1>2, ConditionsTyped DEF Failing
<1>4. /\ Adding(o, "Synced") = S
      /\ Adding(o, "Ready") = R
      /\ Adding(o, "manifest") =
           IF o.kind = "Object" THEN S \cup R ELSE {}
  <2>1. /\ \A j \in S : Adds(o, j, "Synced")
        /\ \A j \in R : Adds(o, j, "Ready")
        /\ \A j \in 1..n : Adds(o, j, "Synced") => j \in S
        /\ \A j \in 1..n : Adds(o, j, "Ready") => j \in R
    BY <1>2, <1>3 DEF Adds
  <2>2. \A j \in 1..n : Adds(o, j, "manifest") <=> o.kind = "Object" /\ j \in S \cup R
    BY <1>2, <1>3 DEF Adds
  <2>3. S \subseteq 1..n /\ R \subseteq 1..n
    BY <1>2
  <2>4. {j \in 1..n : Adds(o, j, "Synced")} = S /\ {j \in 1..n : Adds(o, j, "Ready")} = R
    BY <2>1, <2>3
  <2>5. {j \in 1..n : Adds(o, j, "manifest")} = IF o.kind = "Object" THEN S \cup R ELSE {}
    BY <2>2, <2>3
  <2> QED BY <1>1, <2>4, <2>5 DEF Adding
<1>5. IsFiniteSet(S) /\ IsFiniteSet(R)
  <2>1. S \subseteq 1..n /\ R \subseteq 1..n /\ IsFiniteSet(1..n)
    BY <1>2, FS_Interval
  <2> QED BY <2>1, FS_Subset
<1>6. /\ Cardinality(S) \in Nat /\ Cardinality(R) \in Nat
      /\ S # {} => Cardinality(S) # 0
      /\ R # {} => Cardinality(R) # 0
  BY <1>5, FS_CardinalityType, FS_EmptySet
<1>7. Cardinality(S \cup R) = Cardinality(S) + Cardinality(R)
  <2>1. Cardinality(S \cup R) = Cardinality(S) + Cardinality(R) - Cardinality(S \cap R)
    BY <1>5, FS_Union
  <2>2. Cardinality(S \cap R) = 0
    BY <1>3, FS_EmptySet
  <2> QED BY <1>6, <2>1, <2>2
<1>8. /\ Places(o.conditions, "Synced") = S
      /\ Places(o.conditions, "Ready") = R
  BY <1>1, <1>2 DEF Places
<1>9. Failing(o) # {} => Cardinality(S) # 0 \/ Cardinality(R) # 0
  BY <1>3, <1>6
<1>10. /\ Count(o.conditions, "Synced") = Cardinality(S)
       /\ Count(o.conditions, "Ready") = Cardinality(R)
  BY <1>8, CountIs DEF Places
<1> QED BY <1>4, <1>7, <1>9, <1>10, FS_EmptySet

(* A call that returned with something that failed has stored its errors.  *)
ReportInv ==
  /\ observed \in [Range(Refs) -> Observed]
  /\ ~threw /\ (\E r \in Range(Refs) : Failing(observed[r]) # {}) =>
       errors = Errors(observed)

(* Where something failed there is an error to report.                     *)
LEMMA FailingIsReported ==
  ASSUME NEW obs \in [Range(Refs) -> Observed],
         NEW r \in Range(Refs), Failing(obs[r]) # {}
  PROVE  Errors(obs) # <<>>
<1>1. obs[r] \in Observed
  OBVIOUS
<1>2. PICK o : o = obs[r]
  OBVIOUS
<1>3. PICK w \in {"Synced", "Ready"} : Cardinality(Adding(o, w)) # 0
  BY <1>1, <1>2, AddsIs
<1>4. Count(Errors(obs), [of |-> r, what |-> w]) # 0
  BY <1>2, <1>3, ErrorsOfAll
<1>5. \A x : Count(<<>>, x) = 0
  BY FS_EmptySet, CountIs DEF Places
<1> QED BY <1>4, <1>5

(* Nothing has failed at first.                                            *)
LEMMA NoReportHolds == ReportInit => ReportInv
<1> SUFFICES ASSUME ReportInit PROVE ReportInv
  OBVIOUS
<1>1. PICK o : o = [kind |-> "other", conditions |-> <<>>]
  OBVIOUS
<1>2. observed = [r \in Range(Refs) |-> o]
  BY <1>1 DEF ReportInit, Range
<1>3. o \in Observed
  <2>1. <<>> \in [1..0 -> Condition] /\ 0 \in 0..MaxConditions
    BY MaxConditionsAssumption
  <2>2. <<>> \in SeqOf(Condition, MaxConditions)
    BY <2>1 DEF SeqOf
  <2>3. IsInjective(<<>>)
    BY DEF IsInjective
  <2> QED BY <1>1, <2>2, <2>3 DEF Observed
<1>4. Failing(o) = {}
  BY <1>1 DEF Failing
<1> QED BY <1>2, <1>3, <1>4 DEF ReportInv

(* A call that finds errors stores all of them, and one that finds none had *)
(* nothing that failed.                                                    *)
LEMMA ReportStepHolds == ReportInv /\ [ReportNext]_reportVars => ReportInv'
<1> SUFFICES ASSUME ReportInv, [ReportNext]_reportVars PROVE ReportInv'
  OBVIOUS
<1>1. CASE UNCHANGED reportVars
  BY <1>1 DEF reportVars, ReportInv, Failing, Errors, ErrorsOf, Reported, Added
<1>2. ASSUME NEW obs \in [Range(Refs) -> Observed], BuildResponse(obs)
      PROVE  ReportInv'
  <2>1. observed' = obs /\ threw' = Throws(obs)
    BY <1>2 DEF BuildResponse
  <2>2. ASSUME ~Throws(obs), NEW r \in Range(Refs), Failing(obs[r]) # {}
        PROVE  errors' = Errors(obs)
    BY <1>2, <2>2, FailingIsReported DEF BuildResponse
  <2> QED BY <2>1, <2>2 DEF ReportInv
<1> QED BY <1>1, <1>2 DEF ReportNext, Range

(* What is stored counts what failed.                                      *)
LEMMA ReportInvTells == ReportInv => ReportIsWhole
<1> DEFINE Whole(r) ==
      /\ \A w \in {"Synced", "Ready"} :
           Count(errors, [of |-> r, what |-> w]) = Count(observed[r].conditions, w)
      /\ Count(errors, [of |-> r, what |-> "manifest"]) =
           IF observed[r].kind = "Object"
           THEN Count(observed[r].conditions, "Synced") + Count(observed[r].conditions, "Ready") ELSE 0
<1>1. ASSUME ReportInv, ~threw, NEW q \in Range(Refs), Failing(observed[q]) # {},
             NEW r \in Range(Refs)
      PROVE  Whole(r)
  <2>1. observed \in [Range(Refs) -> Observed] /\ errors = Errors(observed)
    BY <1>1 DEF ReportInv
  <2>2. PICK o \in Observed : o = observed[r]
    BY <2>1
  <2>3. \A w : Count(errors, [of |-> r, what |-> w]) = Cardinality(Adding(o, w))
    BY <2>1, <2>2, ErrorsOfAll
  <2>4. /\ Cardinality(Adding(o, "Synced")) = Count(o.conditions, "Synced")
        /\ Cardinality(Adding(o, "Ready")) = Count(o.conditions, "Ready")
        /\ Cardinality(Adding(o, "manifest")) =
             IF o.kind = "Object" THEN Count(o.conditions, "Synced") + Count(o.conditions, "Ready") ELSE 0
    BY AddsIs
  <2> QED BY <2>2, <2>3, <2>4
<1>2. (\A r \in Range(Refs) : Whole(r)) /\ ReportInv => ReportIsWhole
  BY DEF ReportIsWhole, Range
<1>3. ReportInv /\ (threw \/ \A q \in Range(Refs) : Failing(observed[q]) = {}) => ReportIsWhole
  BY DEF ReportIsWhole, Range
<1> HIDE DEF Whole
<1> QED BY <1>1, <1>2, <1>3

(* After every call that returns, of any resources with any conditions.    *)
THEOREM ReportComplete == ReportSpec => []ReportIsWhole
<1>1. ReportSpec => []ReportInv
  BY NoReportHolds, ReportStepHolds, PTL DEF ReportSpec
<1> QED BY <1>1, ReportInvTells, PTL

(* Step makes of each of some functions on the trees of n levels another   *)
(* one, of which a value depends only on those for the level below.        *)
GoesUp(n, L, C, Step) ==
  /\ n \in Nat /\ C # {} /\ Step \in [C -> C]
  /\ \A f \in C : f = [t \in L[n] |-> f[t]]
  /\ \A f, g \in C : \A t \in L[0] : Step[f][t] = Step[g][t]
  /\ \A f, g \in C : \A d \in 1..n :
       (\A u \in L[d - 1] : f[u] = g[u]) => (\A t \in L[d] : Step[f][t] = Step[g][t])

(* Then one is what Step makes of it: a function that is right up to a     *)
(* level is, after one more step, right up to the next.                    *)
LEMMA RecursionExists ==
  ASSUME NEW n, NEW L, NEW C, NEW Step, GoesUp(n, L, C, Step)
  PROVE  \E f \in C : f = Step[f]
<1> USE DEF GoesUp
<1> DEFINE Right(f, d) == \A t \in L[d] : Step[f][t] = f[t]
           Good == {d \in 0..n : \E f \in C : Right(f, d)}
<1>1. 0 \in Good
  <2>1. PICK f \in C : TRUE
    OBVIOUS
  <2>2. Step[f] \in C
    OBVIOUS
  <2>3. Right(Step[f], 0)
    BY <2>2
  <2> QED BY <2>2, <2>3
<1>2. ASSUME NEW d \in 1..n, d - 1 \in Good PROVE d \in Good
  <2>1. PICK f \in C : Right(f, d - 1)
    BY <1>2
  <2>2. PICK g \in C : g = Step[f]
    OBVIOUS
  <2>3. \A u \in L[d - 1] : g[u] = f[u]
    BY <2>1, <2>2
  <2>4. \A t \in L[d] : Step[g][t] = Step[f][t]
    BY <2>3
  <2>5. Right(g, d)
    BY <2>2, <2>4
  <2> QED BY <2>5
<1>3. n \in Good
  <2> HIDE DEF Good
  <2>1. 0..n \subseteq Good
    BY <1>1, <1>2, Upwards
  <2> QED BY <2>1
<1>4. PICK f \in C : Right(f, n)
  BY <1>3
<1>5. Step[f] \in C
  OBVIOUS
<1>6. Step[f] = [t \in L[n] |-> Step[f][t]] /\ f = [t \in L[n] |-> f[t]]
  BY <1>5
<1> QED BY <1>4, <1>6

-----------------------------------------------------------------------------
(* The trees of FieldRefs.                                                 *)

Above(s, d) == s \cup [kind : Inner, sub : SeqOf(s, Widths[d])]

LevelsUpTo(m, f) == f = [d \in 0..m |-> IF d = 0 THEN Leaves ELSE Above(f[d - 1], d)]

(* The levels are what their recursive definition says.                    *)
LEMMA LevelsAre == LevelsUpTo(Len(Widths), Level)
<1> DEFINE n == Len(Widths)
           Good == {m \in 0..n : \E f : LevelsUpTo(m, f)}
<1>0. n \in Nat
  BY WidthsAssumption
<1>1. 0 \in Good
  <2> DEFINE f == [d \in 0..0 |-> Leaves]
  <2>1. LevelsUpTo(0, f)
    BY DEF LevelsUpTo
  <2> QED BY <1>0, <2>1
<1>2. ASSUME NEW m \in 1..n, m - 1 \in Good PROVE m \in Good
  <2>1. PICK f : LevelsUpTo(m - 1, f)
    BY <1>2
  <2>2. PICK top : top = Above(f[m - 1], m)
    OBVIOUS
  <2> DEFINE g == [d \in 0..m |-> IF d = m THEN top ELSE f[d]]
  <2>3. ASSUME NEW d \in 0..m PROVE g[d] = IF d = 0 THEN Leaves ELSE Above(g[d - 1], d)
    <3>1. CASE d = m
      <4>1. g[m - 1] = f[m - 1]
        BY <1>0
      <4> QED BY <4>1, <3>1, <2>2, <1>0
    <3>2. CASE d # m
      <4>1. d \in 0..(m - 1)
        BY <3>2, <1>0
      <4>2. f[d] = IF d = 0 THEN Leaves ELSE Above(f[d - 1], d)
        BY <4>1, <2>1 DEF LevelsUpTo
      <4>3. d # 0 => g[d - 1] = f[d - 1]
        BY <4>1, <1>0
      <4> QED BY <4>2, <4>3, <3>2
    <3> QED BY <3>1, <3>2
  <2>4. LevelsUpTo(m, g)
    BY <2>3 DEF LevelsUpTo
  <2> QED BY <2>4
<1>3. n \in Good
  <2> HIDE DEF Good
  <2>1. 0..n \subseteq Good
    BY <1>0, <1>1, <1>2, Upwards
  <2> QED BY <1>0, <2>1
<1>4. \E f : LevelsUpTo(n, f)
  BY <1>3
<1> QED BY <1>4 DEF LevelsUpTo, Level, Above

(* Level by level: the leaves, and what is made of the level below.        *)
LEMMA LevelStep ==
  /\ Len(Widths) \in Nat
  /\ Level[0] = Leaves
  /\ \A d \in 1..Len(Widths) : Level[d] = Above(Level[d - 1], d)
<1>1. Len(Widths) \in Nat
  BY WidthsAssumption
<1>2. Level = [d \in 0..Len(Widths) |-> IF d = 0 THEN Leaves ELSE Above(Level[d - 1], d)]
  BY LevelsAre DEF LevelsUpTo
<1> HIDE DEF Level
<1> QED BY <1>1, <1>2

(* Objects and arrays with entries of a level.                             *)
Containers(s, d) == [kind : Inner, sub : SeqOf(s, Widths[d])]

(* The entries of a container are so many trees.                           *)
LEMMA ContainerIs ==
  ASSUME NEW s, NEW d, NEW t
  PROVE  t \in Containers(s, d) <=>
           \E k \in Inner, m \in 0..Widths[d] : \E e \in [1..m -> s] : t = [kind |-> k, sub |-> e]
BY DEF Containers, SeqOf

(* A tree is a leaf, or a container of trees of a level below its own.     *)
LEMMA LevelHas ==
  ASSUME NEW d \in 0..Len(Widths), NEW t
  PROVE  t \in Level[d] <=> t \in Leaves \/ \E e \in 1..d : t \in Containers(Level[e - 1], e)
<1> DEFINE Has(b) == t \in Leaves \/ \E e \in 1..b : t \in Containers(Level[e - 1], e)
           Good == {b \in 0..Len(Widths) : t \in Level[b] <=> Has(b)}
<1>0. Len(Widths) \in Nat
  BY LevelStep
<1> HIDE DEF Level
<1>1. 0 \in Good
  BY LevelStep
<1>2. ASSUME NEW b \in 1..Len(Widths), b - 1 \in Good PROVE b \in Good
  <2>1. t \in Level[b] <=> t \in Level[b - 1] \/ t \in Containers(Level[b - 1], b)
    BY LevelStep DEF Above, Containers
  <2>2. Has(b) <=> Has(b - 1) \/ t \in Containers(Level[b - 1], b)
    <3>1. \A e \in 1..b : e \in 1..(b - 1) \/ e = b
      BY <1>0
    <3>2. \A e \in 1..(b - 1) : e \in 1..b
      BY <1>0
    <3>3. b \in 1..b
      BY <1>0
    <3> QED BY <3>1, <3>2, <3>3
  <2>3. t \in Level[b - 1] <=> Has(b - 1)
    BY <1>2
  <2> HIDE DEF Has
  <2> QED BY <2>1, <2>2, <2>3
<1>3. 0..Len(Widths) \subseteq Good
  <2> HIDE DEF Good
  <2> QED BY <1>0, <1>1, <1>2, Upwards
<1> QED BY <1>3

(* A level contains the ones below it.                                     *)
LEMMA LevelsGrow ==
  ASSUME NEW d \in 0..Len(Widths), NEW e \in 0..d
  PROVE  Level[e] \subseteq Level[d]
<1>1. Len(Widths) \in Nat /\ e \in 0..Len(Widths)
  BY LevelStep
<1>2. \A b \in 1..e : b \in 1..d
  BY <1>1
<1> HIDE DEF Level
<1> QED BY <1>1, <1>2, LevelHas

(* What holds of the leaves, and of a container if it holds of its         *)
(* entries, holds of every tree.                                           *)
LEMMA TreeInduction ==
  ASSUME NEW S, Leaves \subseteq S,
         \A t \in Tree : t.kind \in Inner /\ (\A i \in DOMAIN t.sub : t.sub[i] \in S \cap Tree) => t \in S
  PROVE  Tree \subseteq S
<1> DEFINE Good == {d \in 0..Len(Widths) : Level[d] \subseteq S}
<1>0. Len(Widths) \in Nat
  BY LevelStep
<1> HIDE DEF Level
<1>1. 0 \in Good
  BY LevelStep
<1>2. ASSUME NEW d \in 1..Len(Widths), d - 1 \in Good PROVE d \in Good
  <2>1. ASSUME NEW t \in Containers(Level[d - 1], d) PROVE t \in S
    <3>0. PICK k \in Inner, m \in 0..Widths[d] : \E a \in [1..m -> Level[d - 1]] : t = [kind |-> k, sub |-> a]
      BY ContainerIs
    <3>1. PICK e \in [1..m -> Level[d - 1]] : t = [kind |-> k, sub |-> e]
      BY <3>0
    <3>2. Level[d - 1] \subseteq Tree
      BY LevelsGrow, <1>0 DEF Tree
    <3>3. t \in Tree
      BY <2>1, LevelHas, LevelsGrow, <1>0 DEF Tree
    <3>4. \A i \in DOMAIN t.sub : t.sub[i] \in S \cap Tree
      BY <3>1, <3>2, <1>2
    <3> QED BY <3>1, <3>3, <3>4
  <2>2. Level[d] = Level[d - 1] \cup Containers(Level[d - 1], d)
    BY LevelStep DEF Above, Containers
  <2> QED BY <2>1, <2>2, <1>2
<1>3. 0..Len(Widths) \subseteq Good
  <2> HIDE DEF Good
  <2> QED BY <1>0, <1>1, <1>2, Upwards
<1> QED BY <1>3, <1>0 DEF Tree

(* Trees are leaves or containers of trees.                                *)
LEMMA TreeHas ==
  ASSUME NEW t \in Tree
  PROVE  \/ t \in Leaves
         \/ /\ t.kind \in Inner /\ t = [kind |-> t.kind, sub |-> t.sub]
            /\ \A i \in DOMAIN t.sub : t.sub[i] \in Tree
<1>0. Len(Widths) \in Nat
  BY LevelStep
<1> HIDE DEF Level
<1>1. CASE \E e \in 1..Len(Widths) : t \in Containers(Level[e - 1], e)
  <2>1. PICK d \in 1..Len(Widths) : t \in Containers(Level[d - 1], d)
    BY <1>1
  <2>2. PICK k \in Inner, m \in 0..Widths[d] : \E a \in [1..m -> Level[d - 1]] : t = [kind |-> k, sub |-> a]
    BY <2>1, ContainerIs
  <2>3. PICK e \in [1..m -> Level[d - 1]] : t = [kind |-> k, sub |-> e]
    BY <2>2
  <2>4. Level[d - 1] \subseteq Tree
    BY LevelsGrow, <1>0 DEF Tree
  <2> QED BY <2>3, <2>4
<1> QED BY <1>0, <1>1, LevelHas DEF Tree

(* Of a tree, what kind it is and where its entries are.                   *)
LEMMA EntriesBelow ==
  ASSUME NEW d \in 0..Len(Widths), NEW t \in Level[d]
  PROVE  \/ t \in Leaves
         \/ /\ d # 0 /\ t.kind \in Inner
            /\ \A i \in DOMAIN t.sub : t.sub[i] \in Level[d - 1] \cap Level[d]
<1>0. Len(Widths) \in Nat
  BY LevelStep
<1> HIDE DEF Level
<1>1. ASSUME NEW b \in 1..d, t \in Containers(Level[b - 1], b)
      PROVE  d # 0 /\ t.kind \in Inner /\ \A i \in DOMAIN t.sub : t.sub[i] \in Level[d - 1] \cap Level[d]
  <2>1. PICK k \in Inner, m \in 0..Widths[b] : \E a \in [1..m -> Level[b - 1]] : t = [kind |-> k, sub |-> a]
    BY <1>1, ContainerIs
  <2>2. PICK e \in [1..m -> Level[b - 1]] : t = [kind |-> k, sub |-> e]
    BY <2>1
  <2>3. Level[b - 1] \subseteq Level[d - 1] /\ Level[b - 1] \subseteq Level[d]
    <3>1. d - 1 \in 0..Len(Widths) /\ b - 1 \in 0..(d - 1) /\ b - 1 \in 0..d
      BY <1>0
    <3> QED BY <3>1, LevelsGrow
  <2>4. t.sub = e /\ t.kind = k
    BY <2>2
  <2>5. \A i \in DOMAIN t.sub : t.sub[i] \in Level[b - 1]
    BY <2>4
  <2> QED BY <2>3, <2>4, <2>5, <1>0
<1> QED BY <1>1, LevelHas

(* Leaves are trees.                                                       *)
LEMMA LeavesAreTrees == Leaves \subseteq Tree
<1>1. Len(Widths) \in Nat
  BY LevelStep
<1> HIDE DEF Level
<1> QED BY <1>1, LevelStep, LevelsGrow DEF Tree

(* The parts of a leaf.                                                    *)
LEMMA LeafIs ==
  ASSUME NEW t \in Leaves
  PROVE  /\ t.kind \in {"value", "null", "found", "fallback", "default"}
         /\ t.kind \notin Inner /\ t = Leaf(t.kind) /\ t.sub = <<>> /\ DOMAIN t.sub = {}
<1>1. PICK k \in {"value", "null", "found", "fallback", "default"} : t = Leaf(k)
  BY DEF Leaves
<1>2. t.kind = k /\ t.sub = <<>>
  BY <1>1 DEF Leaf
<1>3. DOMAIN t.sub = {}
  BY <1>2
<1> QED BY <1>1, <1>2, <1>3 DEF Inner

-----------------------------------------------------------------------------
(* processFieldRefs.                                                       *)

(* Functions that make of a tree one with no more levels.                  *)
Keeps == {f \in [Tree -> Tree] : \A d \in 0..Len(Widths) : \A t \in Level[d] : f[t] \in Level[d]}

(* A call is one of these, if the calls it makes are.                      *)
LEMMA ProcessKeeps ==
  ASSUME NEW f \in Keeps, NEW d \in 0..Len(Widths), NEW t \in Level[d]
  PROVE  Process(t, f) \in Level[d]
<1>0. Len(Widths) \in Nat /\ Leaves \subseteq Level[d]
  BY LevelStep, LevelHas
<1> HIDE DEF Level
<1>1. CASE t \in Leaves
  <2>1. Process(t, f) \in Leaves
    BY <1>1, LeafIs DEF Process, Leaves
  <2> QED BY <2>1, <1>0
<1>2. ASSUME NEW b \in 1..d, t \in Containers(Level[b - 1], b)
      PROVE  Process(t, f) \in Level[d]
  <2>1. PICK k \in Inner, m \in 0..Widths[b] : \E a \in [1..m -> Level[b - 1]] : t = [kind |-> k, sub |-> a]
    BY <1>2, ContainerIs
  <2>2. PICK e \in [1..m -> Level[b - 1]] : t = [kind |-> k, sub |-> e]
    BY <2>1
  <2> DEFINE made == [i \in 1..m |-> f[e[i]]]
  <2>3. made \in [1..m -> Level[b - 1]]
    BY <1>0 DEF Keeps
  <2>4. Process(t, f) = [kind |-> k, sub |-> made]
    <3>1. t.kind = k /\ t.sub = e /\ DOMAIN t.sub = 1..m
      BY <2>2
    <3>2. [t EXCEPT !.sub = made] = [kind |-> k, sub |-> made]
      <4> HIDE DEF made
      <4> QED BY <2>2
    <3>3. Process(t, f) = [t EXCEPT !.sub = made]
      BY <3>1 DEF Process, Inner
    <3> QED BY <3>2, <3>3
  <2> HIDE DEF made
  <2>5. Process(t, f) \in Containers(Level[b - 1], b)
    BY <2>3, <2>4, ContainerIs
  <2> QED BY <2>5, LevelHas
<1> QED BY <1>1, <1>2, LevelHas

(* A call depends on the results for the entries only.                     *)
LEMMA ProcessLocal ==
  ASSUME NEW f, NEW g, NEW t, \A i \in DOMAIN t.sub : f[t.sub[i]] = g[t.sub[i]]
  PROVE  Process(t, f) = Process(t, g)
<1>1. [i \in DOMAIN t.sub |-> f[t.sub[i]]] = [i \in DOMAIN t.sub |-> g[t.sub[i]]]
  OBVIOUS
<1> QED BY <1>1 DEF Process

(* processFieldRefs ends, with a tree, and is what its definition says.    *)
LEMMA ProcessIs ==
  /\ ProcessFieldRefs \in [Tree -> Tree]
  /\ \A t \in Tree : ProcessFieldRefs[t] = Process(t, ProcessFieldRefs)
<1> DEFINE n == Len(Widths)
           Step == [f \in Keeps |-> [t \in Tree |-> Process(t, f)]]
<1>0. n \in Nat /\ Tree = Level[n]
  BY LevelStep DEF Tree
<1>1. Step \in [Keeps -> Keeps]
  <2> SUFFICES ASSUME NEW f \in Keeps PROVE [t \in Tree |-> Process(t, f)] \in Keeps
    OBVIOUS
  <2> HIDE DEF Level, Tree
  <2>1. \A d \in 0..n : \A t \in Level[d] : t \in Tree /\ Process(t, f) \in Level[d]
    BY <1>0, ProcessKeeps, LevelsGrow
  <2>2. \A t \in Tree : Process(t, f) \in Tree
    BY <1>0, <2>1
  <2> QED BY <2>1, <2>2 DEF Keeps
<1>2. Keeps # {}
  <2>1. [t \in Tree |-> t] \in Keeps
    <3> HIDE DEF Level, Tree
    <3>1. \A d \in 0..n : Level[d] \subseteq Tree
      BY <1>0, LevelsGrow
    <3> QED BY <3>1 DEF Keeps
  <2> QED BY <2>1
<1>3. \A f \in Keeps : f = [t \in Level[n] |-> f[t]]
  BY <1>0 DEF Keeps
<1>4. \A f, g \in Keeps : \A t \in Level[0] : Step[f][t] = Step[g][t]
  <2> HIDE DEF Level, Tree
  <2>1. Level[0] = Leaves /\ Level[0] \subseteq Tree
    BY <1>0, LevelStep, LevelsGrow
  <2> QED BY <2>1, LeafIs, ProcessLocal
<1>5. ASSUME NEW f \in Keeps, NEW g \in Keeps, NEW d \in 1..n, \A u \in Level[d - 1] : f[u] = g[u]
      PROVE  \A t \in Level[d] : Step[f][t] = Step[g][t]
  <2> SUFFICES ASSUME NEW t \in Level[d] PROVE Step[f][t] = Step[g][t]
    OBVIOUS
  <2> HIDE DEF Level, Tree
  <2>1. t \in Tree
    BY <1>0, LevelsGrow
  <2>2. \A i \in DOMAIN t.sub : f[t.sub[i]] = g[t.sub[i]]
    BY <1>0, <1>5, EntriesBelow, LeafIs
  <2> QED BY <2>1, <2>2, ProcessLocal
<1>6. PICK f \in Keeps : f = [t \in Tree |-> Process(t, f)]
  <2>1. \A f, g \in Keeps : \A d \in 1..n :
          (\A u \in Level[d - 1] : f[u] = g[u]) => (\A t \in Level[d] : Step[f][t] = Step[g][t])
    BY <1>5
  <2>2. \E f \in Keeps : f = Step[f]
    <3> HIDE DEF Step, n, Level, Keeps
    <3>1. GoesUp(n, Level, Keeps, Step)
      BY <1>0, <1>1, <1>2, <1>3, <1>4, <2>1 DEF GoesUp
    <3> QED BY <3>1, RecursionExists
  <2> QED BY <2>2
<1> HIDE DEF Step, n, Keeps, Tree, Process
<1>7. PICK g : g = ProcessFieldRefs /\ g = [t \in Tree |-> Process(t, g)]
  BY <1>6 DEF ProcessFieldRefs
<1>8. \A t \in Tree : f[t] = Process(t, f)
  BY <1>6
<1>9. \A t \in Tree : g[t] = Process(t, g)
  BY <1>7
<1>10. Tree \subseteq {t \in Tree : f[t] = g[t]}
  <2> DEFINE S == {t \in Tree : f[t] = g[t]}
  <2>1. Leaves \subseteq Tree
    BY LeavesAreTrees
  <2>2. Leaves \subseteq S
    BY <1>8, <1>9, <2>1, LeafIs, ProcessLocal
  <2>3. \A t \in Tree : t.kind \in Inner /\ (\A i \in DOMAIN t.sub : t.sub[i] \in S \cap Tree) => t \in S
    BY <1>8, <1>9, ProcessLocal
  <2>4. Tree \subseteq S
    <3> HIDE DEF S
    <3> QED BY <2>2, <2>3, TreeInduction
  <2> QED BY <2>4
<1>11. f = [t \in Tree |-> f[t]] /\ g = [t \in Tree |-> g[t]]
  BY <1>6, <1>7
<1>12. g = f
  BY <1>10, <1>11
<1>13. f \in [Tree -> Tree]
  BY <1>6 DEF Keeps
<1> QED BY <1>7, <1>9, <1>12, <1>13

(* The entries of a tree are a sequence of trees.                          *)
LEMMA EntriesAreTrees ==
  ASSUME NEW t \in Tree
  PROVE  \E m \in Nat : DOMAIN t.sub = 1..m /\ \A i \in 1..m : t.sub[i] \in Tree
<1>0. Len(Widths) \in Nat /\ Widths \in Seq(Nat)
  BY LevelStep, WidthsAssumption
<1>1. CASE t \in Leaves
  <2>1. DOMAIN t.sub = 1..0 /\ \A i \in 1..0 : t.sub[i] \in Tree
    BY <1>1, LeafIs
  <2>2. 0 \in Nat
    OBVIOUS
  <2> HIDE DEF Tree
  <2> QED BY <2>1, <2>2
<1>2. ASSUME NEW b \in 1..Len(Widths), t \in Containers(Level[b - 1], b)
      PROVE  \E m \in Nat : DOMAIN t.sub = 1..m /\ \A i \in 1..m : t.sub[i] \in Tree
  <2> HIDE DEF Level
  <2>1. PICK k \in Inner, m \in 0..Widths[b] : \E a \in [1..m -> Level[b - 1]] : t = [kind |-> k, sub |-> a]
    BY <1>2, ContainerIs
  <2>2. PICK e \in [1..m -> Level[b - 1]] : t = [kind |-> k, sub |-> e]
    BY <2>1
  <2>3. m \in Nat
    BY <1>0
  <2>4. Level[b - 1] \subseteq Tree
    BY LevelsGrow, <1>0 DEF Tree
  <2>5. t.sub = e
    BY <2>2
  <2> QED BY <2>3, <2>4, <2>5
<1>3. t \in Leaves \/ \E b \in 1..Len(Widths) : t \in Containers(Level[b - 1], b)
  <2> HIDE DEF Level
  <2> QED BY <1>0, LevelHas DEF Tree
<1> QED BY <1>1, <1>2, <1>3

(* Do two functions give the same for the entries of a tree, and for those *)
(* of its entries?                                                         *)
Alike(f, g, t) ==
  \A i \in DOMAIN t.sub :
    /\ f[t.sub[i]] = g[t.sub[i]]
    /\ \A j \in DOMAIN t.sub[i].sub : f[t.sub[i].sub[j]] = g[t.sub[i].sub[j]]

(* A recursive function on trees exists if its calls look no deeper.       *)
LEMMA TreeRecursion ==
  ASSUME NEW V, V # {}, NEW Step \in [[Tree -> V] -> [Tree -> V]],
         \A f, g \in [Tree -> V] : \A t \in Tree : Alike(f, g, t) => Step[f][t] = Step[g][t]
  PROVE  \E f \in [Tree -> V] : f = Step[f]
<1> DEFINE n == Len(Widths)
           C == [Tree -> V]
<1>0. n \in Nat /\ Tree = Level[n] /\ \A d \in 0..n : Level[d] \subseteq Tree
  <2>1. Len(Widths) \in Nat
    BY LevelStep
  <2> HIDE DEF Level
  <2> QED BY <2>1, LevelsGrow DEF Tree
<1>1. C # {}
  <2>1. PICK v \in V : TRUE
    OBVIOUS
  <2>2. [t \in Tree |-> v] \in C
    OBVIOUS
  <2> QED BY <2>2
<1>2. ASSUME NEW f \in C, NEW g \in C, NEW t \in Level[0] PROVE Step[f][t] = Step[g][t]
  <2>1. t \in Leaves /\ t \in Tree
    <3> HIDE DEF Level, Tree
    <3> QED BY <1>0, LevelStep
  <2>2. Alike(f, g, t)
    BY <2>1, LeafIs DEF Alike
  <2> QED BY <2>1, <2>2
<1>3. ASSUME NEW f \in C, NEW g \in C, NEW d \in 1..n, \A u \in Level[d - 1] : f[u] = g[u], NEW t \in Level[d]
      PROVE  Step[f][t] = Step[g][t]
  <2> HIDE DEF Level, Tree
  <2>0. d \in 0..n /\ d - 1 \in 0..n
    BY <1>0
  <2>1. t \in Tree
    BY <1>0, <2>0
  <2>2. \A i \in DOMAIN t.sub : t.sub[i] \in Level[d - 1]
    BY <2>0, EntriesBelow, LeafIs
  <2>3. \A u \in Level[d - 1] : \A j \in DOMAIN u.sub : u.sub[j] \in Level[d - 1]
    BY <2>0, EntriesBelow, LeafIs
  <2>4. Alike(f, g, t)
    BY <1>3, <2>2, <2>3 DEF Alike
  <2> QED BY <2>1, <2>4
<1>4. GoesUp(n, Level, C, Step)
  <2>1. \A f \in C : f = [t \in Level[n] |-> f[t]]
    BY <1>0
  <2> HIDE DEF n, C, Level
  <2> QED BY <1>0, <1>1, <1>2, <1>3, <2>1 DEF GoesUp, C
<1> QED BY <1>4, RecursionExists

-----------------------------------------------------------------------------
(* What is in a tree.                                                      *)

KindsOf(t, of) == {t.kind} \cup UNION {of[t.sub[i]] : i \in DOMAIN t.sub}

UnderOf(t, of) ==
  UNION {{t.sub[i].kind} \cup (IF t.sub[i].kind = "object" THEN of[t.sub[i]] ELSE {}) : i \in DOMAIN t.sub}

(* All kinds of trees.                                                     *)
Kind == {"value", "null", "found", "fallback", "default", "object", "array"}

(* Every tree is of one of them.                                           *)
LEMMA KindIs ==
  ASSUME NEW t \in Tree
  PROVE  t.kind \in Kind
BY TreeHas, LeafIs DEF Inner, Kind

(* KindsIn is what its definition says.                                    *)
LEMMA KindsInIs == \A t \in Tree : KindsIn[t] = KindsOf(t, KindsIn)
<1> DEFINE V == SUBSET Kind
           Step == [f \in [Tree -> V] |-> [t \in Tree |-> KindsOf(t, f)]]
<1>1. ASSUME NEW f \in [Tree -> V], NEW t \in Tree PROVE KindsOf(t, f) \in V
  <2>1. t.kind \in Kind /\ \A i \in DOMAIN t.sub : t.sub[i] \in Tree
    BY KindIs, EntriesAreTrees
  <2> HIDE DEF Kind, Tree
  <2> QED BY <2>1 DEF KindsOf
<1>2. Step \in [[Tree -> V] -> [Tree -> V]]
  BY <1>1
<1>3. ASSUME NEW f \in [Tree -> V], NEW g \in [Tree -> V], NEW t \in Tree, Alike(f, g, t)
      PROVE  KindsOf(t, f) = KindsOf(t, g)
  BY <1>3 DEF Alike, KindsOf
<1>4. \E f \in [Tree -> V] : f = Step[f]
  <2>1. V # {}
    OBVIOUS
  <2>2. \A f, g \in [Tree -> V] : \A t \in Tree : Alike(f, g, t) => Step[f][t] = Step[g][t]
    BY <1>3
  <2> HIDE DEF V, Step, Tree
  <2> QED BY <1>2, <2>1, <2>2, TreeRecursion
<1>5. \E f : f = [t \in Tree |-> KindsOf(t, f)]
  BY <1>4
<1>6. KindsIn = [t \in Tree |-> KindsOf(t, KindsIn)]
  <2> HIDE DEF Tree
  <2> QED BY <1>5 DEF KindsIn, KindsOf
<1> HIDE DEF Tree, KindsIn
<1> QED BY <1>6

(* UnderKeys is what its definition says.                                  *)
LEMMA UnderKeysIs == \A t \in Tree : UnderKeys[t] = UnderOf(t, UnderKeys)
<1> DEFINE V == SUBSET Kind
           Step == [f \in [Tree -> V] |-> [t \in Tree |-> UnderOf(t, f)]]
<1>1. ASSUME NEW f \in [Tree -> V], NEW t \in Tree PROVE UnderOf(t, f) \in V
  <2>1. \A i \in DOMAIN t.sub : t.sub[i] \in Tree /\ t.sub[i].kind \in Kind
    BY KindIs, EntriesAreTrees
  <2> HIDE DEF Kind, Tree
  <2> QED BY <2>1 DEF UnderOf
<1>2. Step \in [[Tree -> V] -> [Tree -> V]]
  BY <1>1
<1>3. ASSUME NEW f \in [Tree -> V], NEW g \in [Tree -> V], NEW t \in Tree, Alike(f, g, t)
      PROVE  UnderOf(t, f) = UnderOf(t, g)
  BY <1>3 DEF Alike, UnderOf
<1>4. \E f \in [Tree -> V] : f = Step[f]
  <2>1. V # {}
    OBVIOUS
  <2>2. \A f, g \in [Tree -> V] : \A t \in Tree : Alike(f, g, t) => Step[f][t] = Step[g][t]
    BY <1>3
  <2> HIDE DEF V, Step, Tree
  <2> QED BY <1>2, <2>1, <2>2, TreeRecursion
<1>5. \E f : f = [t \in Tree |-> UnderOf(t, f)]
  BY <1>4
<1>6. UnderKeys = [t \in Tree |-> UnderOf(t, UnderKeys)]
  <2> HIDE DEF Tree
  <2> QED BY <1>5 DEF UnderKeys, UnderOf
<1> HIDE DEF Tree, UnderKeys
<1> QED BY <1>6

-----------------------------------------------------------------------------
(* areFieldRefsBroken.                                                     *)

Verdicts == {"clean", "broken", "throws"}

(* A loop over so many entries ends as First says.                         *)
LEMMA FirstIs ==
  ASSUME NEW v, NEW m \in Nat, DOMAIN v = 1..m
  PROVE  /\ First(v) = "clean" <=> \A i \in 1..m : v[i] = "clean"
         /\ First(v) # "clean" => \E i \in 1..m : First(v) = v[i]
<1> DEFINE ends == {i \in DOMAIN v : v[i] # "clean"}
<1>1. CASE ends = {}
  <2>1. \A i \in 1..m : v[i] = "clean"
    BY <1>1
  <2>2. First(v) = "clean"
    BY <1>1 DEF First
  <2> QED BY <2>1, <2>2
<1>2. CASE ends # {}
  <2> DEFINE IsLeast(i) == i \in ends /\ \A j \in ends : i <= j
             least == CHOOSE i \in ends : \A j \in ends : i <= j
  <2>1. ends \subseteq Nat
    OBVIOUS
  <2>2. \E i \in ends : \A j \in ends : i <= j
    <3> HIDE DEF ends
    <3> QED BY <1>2, <2>1, LeastNumber
  <2>3. least \in ends
    <3> HIDE DEF ends
    <3> QED BY <2>2
  <2>4. First(v) = v[least]
    BY <1>2 DEF First
  <2>5. \E i \in ends : First(v) = v[i]
    <3> HIDE DEF ends, least
    <3> QED BY <2>3, <2>4
  <2> QED BY <2>5
<1> QED BY <1>1, <1>2

BrokenOf(t, of) ==
  IF t.kind = "null" THEN "throws"
  ELSE First([i \in DOMAIN t.sub |-> Verdict(t.sub[i], of)])

(* A verdict on the value of a key is one.                                 *)
LEMMA VerdictTyped ==
  ASSUME NEW f \in [Tree -> Verdicts], NEW v \in Tree
  PROVE  Verdict(v, f) \in Verdicts
<1>1. PICK m \in Nat : DOMAIN v.sub = 1..m /\ \A j \in 1..m : v.sub[j] \in Tree
  BY EntriesAreTrees
<1>2. PICK w : w = [j \in DOMAIN v.sub |-> f[v.sub[j]]]
  OBVIOUS
<1>3. DOMAIN w = 1..m /\ \A j \in 1..m : w[j] \in Verdicts
  <2> HIDE DEF Tree, Verdicts
  <2> QED BY <1>1, <1>2
<1>4. First(w) \in Verdicts
  BY <1>3, FirstIs DEF Verdicts
<1>5. Verdict(v, f) \in {"broken", "clean", First(w), f[v]}
  BY <1>2 DEF Verdict
<1>6. f[v] \in Verdicts
  OBVIOUS
<1> QED BY <1>4, <1>5, <1>6 DEF Verdicts

(* A call gives one.                                                       *)
LEMMA BrokenTyped ==
  ASSUME NEW f \in [Tree -> Verdicts], NEW t \in Tree
  PROVE  BrokenOf(t, f) \in Verdicts
<1>1. PICK m \in Nat : DOMAIN t.sub = 1..m /\ \A j \in 1..m : t.sub[j] \in Tree
  BY EntriesAreTrees
<1>2. PICK w : w = [i \in DOMAIN t.sub |-> Verdict(t.sub[i], f)]
  OBVIOUS
<1>3. DOMAIN w = 1..m /\ \A j \in 1..m : w[j] \in Verdicts
  BY <1>1, <1>2, VerdictTyped
<1>4. First(w) \in Verdicts
  BY <1>3, FirstIs DEF Verdicts
<1> QED BY <1>2, <1>4 DEF BrokenOf, Verdicts

(* A call looks two levels down at most.                                   *)
LEMMA BrokenLocal ==
  ASSUME NEW f, NEW g, NEW t, Alike(f, g, t)
  PROVE  BrokenOf(t, f) = BrokenOf(t, g)
<1>1. ASSUME NEW i \in DOMAIN t.sub PROVE Verdict(t.sub[i], f) = Verdict(t.sub[i], g)
  <2>1. PICK v : v = t.sub[i]
    OBVIOUS
  <2>2. [j \in DOMAIN v.sub |-> f[v.sub[j]]] = [j \in DOMAIN v.sub |-> g[v.sub[j]]]
    BY <2>1 DEF Alike
  <2>3. f[v] = g[v]
    BY <2>1 DEF Alike
  <2>4. Verdict(v, f) = Verdict(v, g)
    BY <2>2, <2>3 DEF Verdict
  <2> QED BY <2>1, <2>4
<1>2. [i \in DOMAIN t.sub |-> Verdict(t.sub[i], f)] = [i \in DOMAIN t.sub |-> Verdict(t.sub[i], g)]
  BY <1>1
<1> QED BY <1>2 DEF BrokenOf

(* areFieldRefsBroken ends, and is what its definition says.               *)
LEMMA BrokenIs == \A t \in Tree : AreFieldRefsBroken[t] = BrokenOf(t, AreFieldRefsBroken)
<1> DEFINE V == Verdicts
           Step == [f \in [Tree -> V] |-> [t \in Tree |-> BrokenOf(t, f)]]
<1>1. Step \in [[Tree -> V] -> [Tree -> V]]
  <2>1. \A f \in [Tree -> V] : \A t \in Tree : BrokenOf(t, f) \in V
    BY BrokenTyped
  <2> HIDE DEF V, Tree
  <2> QED BY <2>1
<1>2. \E f \in [Tree -> V] : f = Step[f]
  <2>1. V # {}
    BY DEF Verdicts
  <2>2. \A f, g \in [Tree -> V] : \A t \in Tree : Alike(f, g, t) => Step[f][t] = Step[g][t]
    BY BrokenLocal
  <2> HIDE DEF V, Step, Tree
  <2> QED BY <1>1, <2>1, <2>2, TreeRecursion
<1>3. \E f : f = [t \in Tree |-> BrokenOf(t, f)]
  BY <1>2
<1>4. AreFieldRefsBroken = [t \in Tree |-> BrokenOf(t, AreFieldRefsBroken)]
  <2> HIDE DEF Tree, First, Verdict
  <2> QED BY <1>3 DEF AreFieldRefsBroken, BrokenOf
<1> HIDE DEF Tree, AreFieldRefsBroken
<1> QED BY <1>4

-----------------------------------------------------------------------------
(* Resources.                                                              *)

NoReference(t) == KindsIn[t] \cap {"found", "fallback"} = {}

Replaced(t, u) == "default" \in KindsIn[u] <=> KindsIn[t] \cap {"fallback", "default"} # {}

(* processFieldRefs leaves no reference, and the fallback in place of one  *)
(* that fell back.                                                         *)
LEMMA ProcessResolves ==
  ASSUME NEW t \in Tree
  PROVE  NoReference(ProcessFieldRefs[t]) /\ Replaced(t, ProcessFieldRefs[t])
<1> DEFINE S == {u \in Tree : NoReference(ProcessFieldRefs[u]) /\ Replaced(u, ProcessFieldRefs[u])}
<1> HIDE DEF Tree, KindsIn, ProcessFieldRefs
<1>1. ASSUME NEW u \in Leaves PROVE u \in S
  <2>1. PICK w : w = ProcessFieldRefs[u]
    OBVIOUS
  <2>2. u \in Tree /\ w \in Tree /\ w = Process(u, ProcessFieldRefs)
    BY <2>1, LeavesAreTrees, ProcessIs
  <2>3. w \in Leaves /\ w.kind \in {"value", "null", "default"}
        /\ (w.kind = "default" <=> u.kind \in {"fallback", "default"})
    <3>1. \A k \in {"value", "null", "found", "fallback", "default"} : Leaf(k) \in Leaves /\ Leaf(k).kind = k
      BY DEF Leaf, Leaves
    <3> QED BY <2>2, <3>1, LeafIs DEF Process
  <2>4. \A x \in Leaves : KindsIn[x] = {x.kind}
    <3> SUFFICES ASSUME NEW x \in Leaves PROVE KindsIn[x] = {x.kind}
      OBVIOUS
    <3>1. x \in Tree /\ DOMAIN x.sub = {}
      BY LeavesAreTrees, LeafIs
    <3> QED BY <3>1, KindsInIs DEF KindsOf
  <2> QED BY <2>1, <2>2, <2>3, <2>4 DEF NoReference, Replaced
<1>2. ASSUME NEW u \in Tree, u.kind \in Inner, \A i \in DOMAIN u.sub : u.sub[i] \in S \cap Tree
      PROVE  u \in S
  <2>1. PICK w : w = ProcessFieldRefs[u]
    OBVIOUS
  <2>2. w \in Tree /\ w = Process(u, ProcessFieldRefs)
    BY <2>1, ProcessIs
  <2>3. u = [kind |-> u.kind, sub |-> u.sub]
    BY <1>2, TreeHas, LeafIs
  <2>4. w = [u EXCEPT !.sub = [i \in DOMAIN u.sub |-> ProcessFieldRefs[u.sub[i]]]]
    BY <1>2, <2>2 DEF Process, Inner
  <2>5. w.kind = u.kind /\ DOMAIN w.sub = DOMAIN u.sub
        /\ \A i \in DOMAIN u.sub : w.sub[i] = ProcessFieldRefs[u.sub[i]]
    <3>1. PICK k, e : k = u.kind /\ e = u.sub
      OBVIOUS
    <3>2. PICK made : made = [i \in DOMAIN u.sub |-> ProcessFieldRefs[u.sub[i]]]
      OBVIOUS
    <3>3. w = [kind |-> k, sub |-> made]
      BY <2>3, <2>4, <3>1, <3>2
    <3> QED BY <3>1, <3>2, <3>3
  <2>6. \A k : k \in KindsIn[w] <=> k = u.kind \/ \E i \in DOMAIN u.sub : k \in KindsIn[ProcessFieldRefs[u.sub[i]]]
    BY <2>2, <2>5, KindsInIs DEF KindsOf
  <2>7. \A k : k \in KindsIn[u] <=> k = u.kind \/ \E i \in DOMAIN u.sub : k \in KindsIn[u.sub[i]]
    BY KindsInIs DEF KindsOf
  <2>8. \A i \in DOMAIN u.sub : NoReference(ProcessFieldRefs[u.sub[i]]) /\ Replaced(u.sub[i], ProcessFieldRefs[u.sub[i]])
    BY <1>2
  <2>9. u.kind \notin {"found", "fallback", "default"}
    BY <1>2 DEF Inner
  <2>10. NoReference(w)
    BY <2>6, <2>8, <2>9 DEF NoReference
  <2>11. Replaced(u, w)
    BY <2>6, <2>7, <2>8, <2>9 DEF Replaced
  <2> QED BY <2>1, <2>10, <2>11
<1>3. Tree \subseteq S
  <2> HIDE DEF S
  <2> QED BY <1>1, <1>2, TreeInduction
<1> QED BY <1>3

(* The verdict follows the references: one that fell back under keys ends  *)
(* the loop, and only one that fell back makes it "broken".                *)
Judged(t) ==
  /\ AreFieldRefsBroken[t] \in Verdicts
  /\ "fallback" \in UnderKeys[t] => AreFieldRefsBroken[t] # "clean"
  /\ AreFieldRefsBroken[t] = "broken" => "fallback" \in KindsIn[t]

(* A container is judged as its entries and theirs are.                    *)
LEMMA ContainerJudged ==
  ASSUME NEW t \in Tree, t.kind # "null",
         \A i \in DOMAIN t.sub : Judged(t.sub[i]) /\ \A j \in DOMAIN t.sub[i].sub : Judged(t.sub[i].sub[j])
  PROVE  Judged(t)
<1> HIDE DEF Tree, KindsIn, UnderKeys, AreFieldRefsBroken
<1>1. PICK m \in Nat : DOMAIN t.sub = 1..m /\ \A j \in 1..m : t.sub[j] \in Tree
  BY EntriesAreTrees
<1>2. PICK w : w = [i \in DOMAIN t.sub |-> Verdict(t.sub[i], AreFieldRefsBroken)]
  OBVIOUS
<1>3. DOMAIN w = 1..m /\ AreFieldRefsBroken[t] = First(w)
  BY <1>1, <1>2, BrokenIs DEF BrokenOf
<1>4. ASSUME "fallback" \in UnderKeys[t] PROVE First(w) # "clean"
  <2>1. PICK i \in 1..m : \/ t.sub[i].kind = "fallback"
                          \/ t.sub[i].kind = "object" /\ "fallback" \in UnderKeys[t.sub[i]]
    BY <1>1, <1>4, UnderKeysIs DEF UnderOf
  <2>2. PICK v : v = t.sub[i]
    OBVIOUS
  <2>3. w[i] = Verdict(v, AreFieldRefsBroken)
    BY <1>1, <1>2, <2>2
  <2>4. v.kind = "object" => AreFieldRefsBroken[v] # "clean"
    BY <1>1, <2>1, <2>2 DEF Judged
  <2>5. w[i] # "clean"
    BY <2>1, <2>2, <2>3, <2>4 DEF Verdict
  <2> QED BY <1>3, <2>5, FirstIs
<1>5. ASSUME First(w) = "broken" PROVE "fallback" \in KindsIn[t]
  <2>1. PICK i \in 1..m : w[i] = "broken"
    BY <1>3, <1>5, FirstIs
  <2>2. PICK v : v = t.sub[i]
    OBVIOUS
  <2>3. v \in Tree /\ Verdict(v, AreFieldRefsBroken) = "broken"
    BY <1>1, <1>2, <2>1, <2>2
  <2>4. \A k : k \in KindsIn[v] <=> k = v.kind \/ \E j \in DOMAIN v.sub : k \in KindsIn[v.sub[j]]
    BY <2>3, KindsInIs DEF KindsOf
  <2>5. "fallback" \in KindsIn[v]
    <3>1. CASE v.kind = "fallback"
      BY <2>4, <3>1
    <3>2. CASE v.kind = "object"
      <4>1. AreFieldRefsBroken[v] = "broken"
        BY <2>3, <3>2 DEF Verdict
      <4> QED BY <4>1, <1>1, <2>2 DEF Judged
    <3>3. CASE v.kind = "array"
      <4>1. PICK b \in Nat : DOMAIN v.sub = 1..b
        BY <2>3, EntriesAreTrees
      <4>2. PICK x : x = [j \in DOMAIN v.sub |-> AreFieldRefsBroken[v.sub[j]]]
        OBVIOUS
      <4>3. First(x) = "broken" /\ DOMAIN x = 1..b
        BY <2>3, <3>3, <4>1, <4>2 DEF Verdict
      <4>4. PICK j \in 1..b : x[j] = "broken"
        BY <4>3, FirstIs
      <4>5. AreFieldRefsBroken[v.sub[j]] = "broken" /\ Judged(v.sub[j])
        BY <1>1, <2>2, <4>1, <4>2, <4>4
      <4> QED BY <2>4, <4>1, <4>5 DEF Judged
    <3> QED BY <2>3, <3>1, <3>2, <3>3 DEF Verdict
  <2> QED BY <1>1, <2>2, <2>5, KindsInIs DEF KindsOf
<1>6. First(w) \in Verdicts
  <2>1. ASSUME NEW i \in 1..m PROVE w[i] \in Verdicts
    <3>1. PICK v : v = t.sub[i]
      OBVIOUS
    <3>2. v \in Tree /\ w[i] = Verdict(v, AreFieldRefsBroken)
      BY <1>1, <1>2, <3>1
    <3>3. PICK b \in Nat : DOMAIN v.sub = 1..b
      BY <3>2, EntriesAreTrees
    <3>4. PICK x : x = [j \in DOMAIN v.sub |-> AreFieldRefsBroken[v.sub[j]]]
      OBVIOUS
    <3>5. DOMAIN x = 1..b /\ \A j \in 1..b : x[j] \in Verdicts
      BY <1>1, <3>1, <3>3, <3>4 DEF Judged
    <3>6. First(x) \in Verdicts
      BY <3>5, FirstIs DEF Verdicts
    <3>7. AreFieldRefsBroken[v] \in Verdicts
      BY <1>1, <3>1 DEF Judged
    <3>8. w[i] \in {"broken", "clean", First(x), AreFieldRefsBroken[v]}
      BY <3>2, <3>4 DEF Verdict
    <3> QED BY <3>6, <3>7, <3>8 DEF Verdicts
  <2> QED BY <1>3, <2>1, FirstIs DEF Verdicts
<1> QED BY <1>3, <1>4, <1>5, <1>6 DEF Judged

(* So is every tree.                                                       *)
LEMMA VerdictsFollow ==
  ASSUME NEW t \in Tree
  PROVE  Judged(t)
<1> DEFINE S == {u \in Tree : Judged(u) /\ \A i \in DOMAIN u.sub : Judged(u.sub[i])}
<1> HIDE DEF Tree
<1>1. ASSUME NEW u \in Leaves PROVE u \in S
  <2>1. u \in Tree /\ DOMAIN u.sub = {}
    BY LeavesAreTrees, LeafIs
  <2>2. UnderKeys[u] = {}
    <3> HIDE DEF UnderKeys
    <3> QED BY <2>1, UnderKeysIs DEF UnderOf
  <2>3. AreFieldRefsBroken[u] \in {"throws", "clean"}
    <3> HIDE DEF AreFieldRefsBroken
    <3>1. PICK w : w = [i \in DOMAIN u.sub |-> Verdict(u.sub[i], AreFieldRefsBroken)]
      OBVIOUS
    <3>2. DOMAIN w = 1..0
      BY <2>1, <3>1
    <3>3. First(w) = "clean"
      <4>1. 0 \in Nat
        OBVIOUS
      <4> QED BY <3>2, <4>1, FirstIs
    <3> QED BY <2>1, <3>1, <3>3, BrokenIs DEF BrokenOf
  <2> HIDE DEF UnderKeys, AreFieldRefsBroken, KindsIn
  <2> QED BY <2>1, <2>2, <2>3 DEF Judged, Verdicts
<1>2. ASSUME NEW u \in Tree, u.kind \in Inner, \A i \in DOMAIN u.sub : u.sub[i] \in S \cap Tree
      PROVE  u \in S
  <2>1. u.kind # "null"
    BY <1>2 DEF Inner
  <2>2. \A i \in DOMAIN u.sub : Judged(u.sub[i]) /\ \A j \in DOMAIN u.sub[i].sub : Judged(u.sub[i].sub[j])
    BY <1>2
  <2>3. Judged(u)
    BY <2>1, <2>2, ContainerJudged
  <2> QED BY <2>2, <2>3
<1>3. Tree \subseteq S
  <2> HIDE DEF S
  <2> QED BY <1>1, <1>2, TreeInduction
<1> QED BY <1>3

(* What is stored for a resource that was written so.                      *)
StoredRight(r, t) ==
  /\ r.class = "plain" /\ "fallback" \in UnderKeys[t] => r.paused
  /\ r.paused => "fallback" \in KindsIn[t]
  /\ r.class = "model" => NoReference(r.body) /\ Replaced(t, r.body)

ResourceInv ==
  /\ DOMAIN resources = Names /\ DOMAIN written = Names
  /\ \A n \in Names : StoredRight(resources[n], written[n])

(* No resource is stored at first.                                         *)
LEMMA NothingStored == UpdateInit => ResourceInv
<1> SUFFICES ASSUME UpdateInit PROVE ResourceInv
  OBVIOUS
<1>1. \A n \in Names : resources[n].class = "none" /\ resources[n].paused = FALSE
  BY DEF UpdateInit, NoResource
<1> HIDE DEF UnderKeys, KindsIn
<1>2. \A n \in Names : StoredRight(resources[n], written[n])
  BY <1>1 DEF StoredRight
<1> QED BY <1>2 DEF ResourceInv, UpdateInit

(* updateResource keeps what is stored right.                              *)
LEMMA UpdateStores ==
  ASSUME ResourceInv, NEW n \in Names, NEW c \in Classes, NEW t \in Written, UpdateResource(n, c, t)
  PROVE  ResourceInv'
<1> HIDE DEF Tree, KindsIn, UnderKeys, ProcessFieldRefs, AreFieldRefsBroken
<1>1. PICK body : body = Construct(c, t)
  OBVIOUS
<1>2. PICK verdict : verdict = AreFieldRefsBroken[Plain(c, body)]
  OBVIOUS
<1>3. PICK r : r = [class |-> c, body |-> body, paused |-> verdict = "broken" /\ c = "plain"]
  OBVIOUS
<1>4. t \in Tree
  BY DEF Written
<1>5. CASE verdict = "throws"
  <2>1. resources' = resources /\ written' = written
    BY <1>1, <1>2, <1>5 DEF UpdateResource
  <2> QED BY <2>1 DEF ResourceInv
<1>6. CASE verdict # "throws"
  <2>1. resources' = [resources EXCEPT ![n] = r] /\ written' = [written EXCEPT ![n] = t]
    BY <1>1, <1>2, <1>3, <1>6 DEF UpdateResource
  <2>2. r.class = c /\ r.body = body /\ (r.paused <=> verdict = "broken" /\ c = "plain")
    BY <1>3
  <2>3. StoredRight(r, t)
    <3>1. CASE c = "model"
      <4>1. body = ProcessFieldRefs[t]
        BY <1>1, <3>1 DEF Construct
      <4>2. NoReference(body) /\ Replaced(t, body)
        BY <1>4, <4>1, ProcessResolves
      <4> QED BY <2>2, <3>1, <4>2 DEF StoredRight
    <3>2. CASE c = "plain"
      <4>1. verdict = AreFieldRefsBroken[t]
        BY <1>1, <1>2, <3>2 DEF Construct, Plain
      <4>2. Judged(t)
        BY <1>4, VerdictsFollow
      <4> QED BY <1>6, <2>2, <3>2, <4>1, <4>2 DEF StoredRight, Judged, Verdicts
    <3>3. CASE c \notin {"model", "plain"}
      BY <2>2, <3>3 DEF StoredRight
    <3> QED BY <3>1, <3>2, <3>3
  <2>4. \A m \in Names : StoredRight(resources'[m], written'[m])
    BY <2>1, <2>3 DEF ResourceInv
  <2> QED BY <2>1, <2>4 DEF ResourceInv
<1> QED BY <1>5, <1>6

(* What is stored stays right.                                             *)
LEMMA StoredStaysRight == UpdateSpec => []ResourceInv
<1>1. ResourceInv /\ [UpdateNext]_updateVars => ResourceInv'
  <2> SUFFICES ASSUME ResourceInv, [UpdateNext]_updateVars PROVE ResourceInv'
    OBVIOUS
  <2>1. CASE UpdateNext
    <3>1. PICK n \in Names, c \in Classes, t \in Written : UpdateResource(n, c, t)
      BY <2>1 DEF UpdateNext
    <3> QED BY <3>1, UpdateStores
  <2>2. CASE UNCHANGED updateVars
    BY <2>2 DEF updateVars, ResourceInv
  <2> QED BY <2>1, <2>2
<1> QED BY <1>1, NothingStored, PTL DEF UpdateSpec

(* In any run of any resources, whatever their names and nesting: an       *)
(* object literal with a reference that fell back under keys of objects is *)
(* paused, and what is paused has one.                                     *)
THEOREM PausedFollows == UpdateSpec => []PausedForFallback
<1>1. ResourceInv => PausedForFallback
  <2> HIDE DEF KindsIn, UnderKeys
  <2> QED BY DEF ResourceInv, StoredRight, PausedForFallback
<1> QED BY <1>1, StoredStaysRight, PTL

(* An instance of an SDK class is sent without a reference, at any depth   *)
(* and through arrays, with the fallback in place of each that fell back.  *)
THEOREM ResolvedFollows == UpdateSpec => []ModelsAreResolved
<1>1. ResourceInv => ModelsAreResolved
  <2> HIDE DEF KindsIn
  <2> QED BY DEF ResourceInv, StoredRight, NoReference, Replaced, ModelsAreResolved
<1> QED BY <1>1, StoredStaysRight, PTL

-----------------------------------------------------------------------------
(* The values of Redaction.                                                *)

Holders(s, d) ==
  [kind : {"array"}, sub : SeqOf(Entry({NoKey}, s), Entries[d])] \cup
  [kind : {"map"}, sub : {q \in SeqOf(Entry(Key, s), Entries[d]) : Distinct(q)}]

Enclosing(s, d) ==
  s \cup
  [kind : {"array"}, sub : SeqOf(Entry({NoKey}, s), Entries[d])] \cup
  [kind : {"map"}, sub : {q \in SeqOf(Entry(Key, s), Entries[d]) : Distinct(q)}]

NestedUpTo(m, f) ==
  f = [d \in 0..m |-> IF d = 0 THEN {Scalar, Redacted} ELSE Enclosing(f[d - 1], d)]

(* The levels are what their recursive definition says.                    *)
LEMMA NestedAre == NestedUpTo(Len(Entries), Nested)
<1> DEFINE n == Len(Entries)
           Good == {m \in 0..n : \E f : NestedUpTo(m, f)}
<1>0. n \in Nat
  BY EntriesAssumption
<1>1. 0 \in Good
  <2> DEFINE f == [d \in 0..0 |-> {Scalar, Redacted}]
  <2>1. NestedUpTo(0, f)
    BY DEF NestedUpTo
  <2> QED BY <1>0, <2>1
<1>2. ASSUME NEW m \in 1..n, m - 1 \in Good PROVE m \in Good
  <2>1. PICK f : NestedUpTo(m - 1, f)
    BY <1>2
  <2>2. PICK top : top = Enclosing(f[m - 1], m)
    OBVIOUS
  <2> DEFINE g == [d \in 0..m |-> IF d = m THEN top ELSE f[d]]
  <2>3. ASSUME NEW d \in 0..m
        PROVE  g[d] = IF d = 0 THEN {Scalar, Redacted} ELSE Enclosing(g[d - 1], d)
    <3>1. CASE d = m
      <4>1. g[m - 1] = f[m - 1]
        BY <1>0
      <4> QED BY <4>1, <3>1, <2>2, <1>0
    <3>2. CASE d # m
      <4>1. d \in 0..(m - 1)
        BY <3>2, <1>0
      <4>2. f[d] = IF d = 0 THEN {Scalar, Redacted} ELSE Enclosing(f[d - 1], d)
        BY <4>1, <2>1 DEF NestedUpTo
      <4>3. d # 0 => g[d - 1] = f[d - 1]
        BY <4>1, <1>0
      <4> QED BY <4>2, <4>3, <3>2
    <3> QED BY <3>1, <3>2
  <2>4. NestedUpTo(m, g)
    BY <2>3 DEF NestedUpTo
  <2> QED BY <2>4
<1>3. n \in Good
  <2> HIDE DEF Good
  <2>1. 0..n \subseteq Good
    BY <1>0, <1>1, <1>2, Upwards
  <2> QED BY <1>0, <2>1
<1>4. \E f : NestedUpTo(n, f)
  BY <1>3
<1> QED BY <1>4 DEF NestedUpTo, Nested, Enclosing

(* Level by level: what is no map or array, and what is made of the level  *)
(* below.                                                                  *)
LEMMA NestedStep ==
  /\ Len(Entries) \in Nat
  /\ Nested[0] = {Scalar, Redacted}
  /\ \A d \in 1..Len(Entries) : Nested[d] = Nested[d - 1] \cup Holders(Nested[d - 1], d)
<1>1. Len(Entries) \in Nat
  BY EntriesAssumption
<1>2. Nested = [d \in 0..Len(Entries) |-> IF d = 0 THEN {Scalar, Redacted} ELSE Enclosing(Nested[d - 1], d)]
  BY NestedAre DEF NestedUpTo
<1> HIDE DEF Nested
<1>3. \A s, d : Enclosing(s, d) = s \cup Holders(s, d)
  BY DEF Enclosing, Holders
<1>4. Nested[0] = {Scalar, Redacted}
  BY <1>1, <1>2
<1>5. ASSUME NEW d \in 1..Len(Entries) PROVE Nested[d] = Nested[d - 1] \cup Holders(Nested[d - 1], d)
  <2>1. d \in 0..Len(Entries) /\ d # 0
    BY <1>1
  <2>2. Nested[d] = Enclosing(Nested[d - 1], d)
    BY <1>2, <2>1
  <2> QED BY <2>2, <1>3
<1> QED BY <1>1, <1>4, <1>5

(* The values of each level are in the ones above.                         *)
LEMMA NestedHas ==
  ASSUME NEW d \in 0..Len(Entries), NEW t
  PROVE  t \in Nested[d] <=> t \in {Scalar, Redacted} \/ \E e \in 1..d : t \in Holders(Nested[e - 1], e)
<1> DEFINE Has(b) == t \in {Scalar, Redacted} \/ \E e \in 1..b : t \in Holders(Nested[e - 1], e)
           Good == {b \in 0..Len(Entries) : t \in Nested[b] <=> Has(b)}
<1>0. Len(Entries) \in Nat
  BY NestedStep
<1> HIDE DEF Nested
<1>1. 0 \in Good
  BY NestedStep
<1>2. ASSUME NEW b \in 1..Len(Entries), b - 1 \in Good PROVE b \in Good
  <2>1. t \in Nested[b] <=> t \in Nested[b - 1] \/ t \in Holders(Nested[b - 1], b)
    BY NestedStep
  <2>2. Has(b) <=> Has(b - 1) \/ t \in Holders(Nested[b - 1], b)
    <3>1. \A e \in 1..b : e \in 1..(b - 1) \/ e = b
      BY <1>0
    <3>2. \A e \in 1..(b - 1) : e \in 1..b
      BY <1>0
    <3>3. b \in 1..b
      BY <1>0
    <3> QED BY <3>1, <3>2, <3>3
  <2>3. t \in Nested[b - 1] <=> Has(b - 1)
    BY <1>2
  <2> HIDE DEF Has
  <2> QED BY <2>1, <2>2, <2>3
<1>3. 0..Len(Entries) \subseteq Good
  <2> HIDE DEF Good
  <2> QED BY <1>0, <1>1, <1>2, Upwards
<1> QED BY <1>3

(* A level contains the ones below it.                                     *)
LEMMA NestedGrow ==
  ASSUME NEW d \in 0..Len(Entries), NEW e \in 0..d
  PROVE  Nested[e] \subseteq Nested[d]
<1>1. Len(Entries) \in Nat /\ e \in 0..Len(Entries)
  BY NestedStep
<1>2. \A b \in 1..e : b \in 1..d
  BY <1>1
<1> HIDE DEF Nested
<1> QED BY <1>1, <1>2, NestedHas

(* The levels are part of Json, and the highest is all of it.              *)
LEMMA JsonIs ==
  /\ Len(Entries) \in Nat
  /\ Json = Nested[Len(Entries)]
  /\ \A d \in 0..Len(Entries) : Nested[d] \subseteq Json
  /\ Scalar \in Json /\ Redacted \in Json
<1>1. Len(Entries) \in Nat
  BY NestedStep
<1> HIDE DEF Nested
<1>2. Json = Nested[Len(Entries)]
  BY DEF Json
<1>3. \A d \in 0..Len(Entries) : Nested[d] \subseteq Json
  BY <1>1, <1>2, NestedGrow
<1> QED BY <1>1, <1>2, <1>3, NestedStep

(* So many entries, with values of s.                                      *)
Holds(t, s, m) ==
  /\ DOMAIN t.sub = 1..m
  /\ t.sub \in [1..m -> Entry(Key \cup {NoKey}, s)]
  /\ t.kind = "array" => t.sub \in [1..m -> Entry({NoKey}, s)]
  /\ t.kind = "map" => t.sub \in [1..m -> Entry(Key, s)] /\ Distinct(t.sub)

(* The entries of a map or an array.                                       *)
LEMMA HolderIs ==
  ASSUME NEW s, NEW d \in 1..Len(Entries), NEW t \in Holders(s, d)
  PROVE  /\ t.kind \in {"array", "map"} /\ t = [kind |-> t.kind, sub |-> t.sub]
         /\ \E m \in 0..Entries[d] : Holds(t, s, m)
<1>0. /\ Entry({NoKey}, s) \subseteq Entry(Key \cup {NoKey}, s)
      /\ Entry(Key, s) \subseteq Entry(Key \cup {NoKey}, s)
  BY DEF Entry
<1>1. CASE t \in [kind : {"array"}, sub : SeqOf(Entry({NoKey}, s), Entries[d])]
  <2>1. PICK m \in 0..Entries[d] : t.sub \in [1..m -> Entry({NoKey}, s)]
    BY <1>1 DEF SeqOf
  <2>2. t.sub \in [1..m -> Entry(Key \cup {NoKey}, s)] /\ DOMAIN t.sub = 1..m
    BY <1>0, <2>1
  <2>3. t.kind = "array" /\ t = [kind |-> t.kind, sub |-> t.sub]
    BY <1>1
  <2> QED BY <2>1, <2>2, <2>3 DEF Holds
<1>2. CASE t \in [kind : {"map"}, sub : {q \in SeqOf(Entry(Key, s), Entries[d]) : Distinct(q)}]
  <2>1. t.sub \in SeqOf(Entry(Key, s), Entries[d]) /\ Distinct(t.sub)
        /\ t.kind = "map" /\ t = [kind |-> t.kind, sub |-> t.sub]
    BY <1>2
  <2>2. PICK m \in 0..Entries[d] : t.sub \in [1..m -> Entry(Key, s)]
    BY <2>1 DEF SeqOf
  <2>3. t.sub \in [1..m -> Entry(Key \cup {NoKey}, s)] /\ DOMAIN t.sub = 1..m
    BY <1>0, <2>2
  <2> QED BY <2>1, <2>2, <2>3 DEF Holds
<1> QED BY <1>1, <1>2 DEF Holders

(* And the other way round.                                                *)
LEMMA HolderOf ==
  ASSUME NEW s, NEW d \in 1..Len(Entries), NEW m \in 0..Entries[d], NEW e
  PROVE  /\ e \in [1..m -> Entry({NoKey}, s)] => [kind |-> "array", sub |-> e] \in Holders(s, d)
         /\ e \in [1..m -> Entry(Key, s)] /\ Distinct(e) => [kind |-> "map", sub |-> e] \in Holders(s, d)
<1>1. ASSUME NEW E, e \in [1..m -> E] PROVE e \in SeqOf(E, Entries[d])
  BY <1>1 DEF SeqOf
<1>2. e \in [1..m -> Entry({NoKey}, s)] => e \in SeqOf(Entry({NoKey}, s), Entries[d])
  BY <1>1
<1>3. e \in [1..m -> Entry(Key, s)] => e \in SeqOf(Entry(Key, s), Entries[d])
  BY <1>1
<1> QED BY <1>2, <1>3 DEF Holders

(* Of a value, where its entries are.                                      *)
LEMMA EntriesWithin ==
  ASSUME NEW d \in 0..Len(Entries), NEW t \in Nested[d]
  PROVE  \/ t \in {Scalar, Redacted}
         \/ /\ d # 0 /\ t.kind \in {"array", "map"}
            /\ \A i \in DOMAIN t.sub : t.sub[i].tree \in Nested[d - 1]
<1>0. Len(Entries) \in Nat
  BY NestedStep
<1> HIDE DEF Nested
<1>1. ASSUME NEW b \in 1..d, t \in Holders(Nested[b - 1], b)
      PROVE  d # 0 /\ t.kind \in {"array", "map"} /\ \A i \in DOMAIN t.sub : t.sub[i].tree \in Nested[d - 1]
  <2>0. b \in 1..Len(Entries) /\ d - 1 \in 0..Len(Entries) /\ b - 1 \in 0..(d - 1)
    BY <1>0
  <2>1. PICK s : s = Nested[b - 1]
    OBVIOUS
  <2>2. t \in Holders(s, b)
    BY <1>1, <2>1
  <2>3. t.kind \in {"array", "map"} /\ \E m \in 0..Entries[b] : Holds(t, s, m)
    BY <2>0, <2>2, HolderIs
  <2>4. PICK m \in 0..Entries[b] : Holds(t, s, m)
    BY <2>3
  <2>5. \A i \in DOMAIN t.sub : t.sub[i].tree \in s
    BY <2>4 DEF Entry, Holds
  <2>6. s \subseteq Nested[d - 1]
    BY <2>0, <2>1, NestedGrow
  <2>7. d # 0
    BY <1>0
  <2> QED BY <2>3, <2>5, <2>6, <2>7
<1> QED BY <1>1, NestedHas

(* What has no entries.                                                    *)
LEMMA NoEntries ==
  ASSUME NEW t \in {Scalar, Redacted}
  PROVE  t.sub = <<>> /\ DOMAIN t.sub = {} /\ t.kind \in {"value", "REDACTED"}
<1>1. t.sub = <<>> /\ t.kind \in {"value", "REDACTED"}
  BY DEF Scalar, Redacted
<1>2. DOMAIN t.sub = {}
  BY <1>1
<1> QED BY <1>1, <1>2

(* The entries of a value are numbered and have keys and values.           *)
LEMMA EntriesTyped ==
  ASSUME NEW t \in Json
  PROVE  /\ t.kind \in {"value", "REDACTED", "array", "map"}
         /\ t = [kind |-> t.kind, sub |-> t.sub]
         /\ \E m \in Nat : DOMAIN t.sub = 1..m
         /\ \A i \in DOMAIN t.sub :
              t.sub[i] \in Entry(Key \cup {NoKey}, Json)
<1> HIDE DEF Json, Nested
<1>1. CASE t \in {Scalar, Redacted}
  <2>1. t = [kind |-> t.kind, sub |-> t.sub]
    BY <1>1 DEF Scalar, Redacted
  <2>2. 0 \in Nat /\ 1..0 = {}
    OBVIOUS
  <2> QED BY <1>1, <2>1, <2>2, NoEntries
<1>2. CASE t \notin {Scalar, Redacted}
  <2>1. PICK b \in 1..Len(Entries) : t \in Holders(Nested[b - 1], b)
    BY <1>2, JsonIs, NestedHas
  <2>2. PICK s : s = Nested[b - 1]
    OBVIOUS
  <2>3. s \subseteq Json
    <3>1. b - 1 \in 0..Len(Entries)
      BY JsonIs
    <3> QED BY <2>2, <3>1, JsonIs
  <2>4. t.kind \in {"array", "map"} /\ t = [kind |-> t.kind, sub |-> t.sub]
        /\ \E m \in 0..Entries[b] : Holds(t, s, m)
    <3>1. t \in Holders(s, b)
      BY <2>1, <2>2
    <3> QED BY <3>1, HolderIs
  <2>5. PICK m \in 0..Entries[b] : DOMAIN t.sub = 1..m /\ t.sub \in [1..m -> Entry(Key \cup {NoKey}, s)]
    BY <2>4 DEF Holds
  <2>6. m \in Nat
    BY EntriesAssumption
  <2>7. \A x \in Entry(Key \cup {NoKey}, s) : x \in Entry(Key \cup {NoKey}, Json)
    BY <2>3 DEF Entry
  <2> QED BY <2>4, <2>5, <2>6, <2>7
<1> QED BY <1>1, <1>2

(* What holds of values without entries, and of a map or an array if it    *)
(* holds of what it has, holds of every value.                             *)
LEMMA JsonInduction ==
  ASSUME NEW S, {Scalar, Redacted} \subseteq S,
         \A t \in Json : (\A i \in DOMAIN t.sub : t.sub[i].tree \in S \cap Json) => t \in S
  PROVE  Json \subseteq S
<1> DEFINE Good == {d \in 0..Len(Entries) : Nested[d] \subseteq S}
<1>0. Len(Entries) \in Nat
  BY NestedStep
<1> HIDE DEF Nested, Json
<1>1. 0 \in Good
  BY NestedStep
<1>2. ASSUME NEW d \in 1..Len(Entries), d - 1 \in Good PROVE d \in Good
  <2>0. d \in 0..Len(Entries) /\ d - 1 \in 0..Len(Entries)
    BY <1>0
  <2>1. ASSUME NEW t \in Nested[d] PROVE t \in S
    <3>1. t \in Json /\ Nested[d - 1] \subseteq Json /\ Nested[d - 1] \subseteq S
      BY <2>0, <1>2, JsonIs
    <3> QED BY <2>0, <3>1, EntriesWithin
  <2> QED BY <2>0, <2>1
<1>3. 0..Len(Entries) \subseteq Good
  <2> HIDE DEF Good
  <2> QED BY <1>0, <1>1, <1>2, Upwards
<1> QED BY <1>3, <1>0, JsonIs

-----------------------------------------------------------------------------
(* redactInPlace.                                                          *)

(* Functions that make of a value one with no more levels.                 *)
KeepsLevels ==
  {f \in [Json -> Json] : \A d \in 0..Len(Entries) : \A t \in Nested[d] : f[t] \in Nested[d]}

(* What a call makes of a map or an array.                                 *)
LEMMA RedactMakes ==
  ASSUME NEW f, NEW t, t = [kind |-> t.kind, sub |-> t.sub],
         \A i \in DOMAIN t.sub : t.sub[i] = [key |-> t.sub[i].key, tree |-> t.sub[i].tree]
  PROVE  Redact(t, f) =
           [kind |-> t.kind,
            sub |-> [i \in DOMAIN t.sub |->
                       [key |-> t.sub[i].key,
                        tree |-> IF Hides(t.sub[i].key) THEN Redacted ELSE f[t.sub[i].tree]]]]
<1> DEFINE one(i) == IF Hides(t.sub[i].key) THEN Redacted ELSE f[t.sub[i].tree]
           made == [i \in DOMAIN t.sub |-> [key |-> t.sub[i].key, tree |-> one(i)]]
<1>1. ASSUME NEW i \in DOMAIN t.sub
      PROVE  [t.sub[i] EXCEPT !.tree = IF Hides(t.sub[i].key) THEN Redacted ELSE f[@]]
             = [key |-> t.sub[i].key, tree |-> one(i)]
  <2>1. PICK x : x = t.sub[i]
    OBVIOUS
  <2>2. x = [key |-> x.key, tree |-> x.tree]
    BY <2>1
  <2>3. [x EXCEPT !.tree = IF Hides(x.key) THEN Redacted ELSE f[@]]
        = [key |-> x.key, tree |-> IF Hides(x.key) THEN Redacted ELSE f[x.tree]]
    BY <2>2
  <2> QED BY <2>1, <2>3
<1>2. [i \in DOMAIN t.sub |-> [t.sub[i] EXCEPT !.tree = IF Hides(t.sub[i].key) THEN Redacted ELSE f[@]]] = made
  BY <1>1
<1>3. [t EXCEPT !.sub = made] = [kind |-> t.kind, sub |-> made]
  <2>1. PICK k, e : k = t.kind /\ e = t.sub
    OBVIOUS
  <2>2. PICK w : w = made
    OBVIOUS
  <2>3. [t EXCEPT !.sub = w] = [kind |-> t.kind, sub |-> w]
    <3> HIDE DEF made
    <3> QED OBVIOUS
  <2> QED BY <2>2, <2>3
<1>4. Redact(t, f) = [t EXCEPT !.sub = made]
  BY <1>2 DEF Redact
<1> QED BY <1>3, <1>4

(* A call keeps the levels, if the calls it makes do.                      *)
LEMMA RedactKeeps ==
  ASSUME NEW f \in KeepsLevels, NEW d \in 0..Len(Entries), NEW t \in Nested[d]
  PROVE  Redact(t, f) \in Nested[d]
<1> HIDE DEF Json, Nested
<1>0. t \in Json
  BY JsonIs
<1>1. t = [kind |-> t.kind, sub |-> t.sub]
      /\ \A i \in DOMAIN t.sub : t.sub[i] = [key |-> t.sub[i].key, tree |-> t.sub[i].tree]
  BY <1>0, EntriesTyped DEF Entry
<1>2. PICK e : e = [i \in DOMAIN t.sub |->
                       [key |-> t.sub[i].key,
                        tree |-> IF Hides(t.sub[i].key) THEN Redacted ELSE f[t.sub[i].tree]]]
  OBVIOUS
<1>3. Redact(t, f) = [kind |-> t.kind, sub |-> e]
  BY <1>1, <1>2, RedactMakes
<1>4. CASE t \in {Scalar, Redacted}
  <2>1. t.sub = <<>> /\ DOMAIN t.sub = {}
    BY <1>4, NoEntries
  <2>2. e = t.sub
    BY <1>2, <2>1
  <2> QED BY <1>1, <1>3, <2>2
<1>5. ASSUME NEW b \in 1..d, t \in Holders(Nested[b - 1], b) PROVE Redact(t, f) \in Nested[d]
  <2>0. b \in 1..Len(Entries) /\ b - 1 \in 0..Len(Entries)
    BY JsonIs
  <2>1. PICK s : s = Nested[b - 1]
    OBVIOUS
  <2>2. t.kind \in {"array", "map"} /\ \E m \in 0..Entries[b] : Holds(t, s, m)
    <3>1. t \in Holders(s, b)
      BY <1>5, <2>1
    <3> QED BY <2>0, <3>1, HolderIs
  <2>3. PICK m \in 0..Entries[b] : DOMAIN t.sub = 1..m
              /\ (t.kind = "array" => t.sub \in [1..m -> Entry({NoKey}, s)])
              /\ (t.kind = "map" => t.sub \in [1..m -> Entry(Key, s)] /\ Distinct(t.sub))
    BY <2>2 DEF Holds
  <2>4. Redacted \in s /\ \A x \in s : f[x] \in s
    BY <2>0, <2>1, NestedHas DEF KeepsLevels
  <2>5. DOMAIN e = 1..m /\ e = [i \in 1..m |-> e[i]]
        /\ \A i \in 1..m : e[i].key = t.sub[i].key
             /\ e[i] = [key |-> t.sub[i].key, tree |-> e[i].tree]
             /\ e[i].tree = IF Hides(t.sub[i].key) THEN Redacted ELSE f[t.sub[i].tree]
    BY <1>2, <2>3
  <2>6. CASE t.kind = "array"
    <3>1. \A i \in 1..m : t.sub[i].key \in {NoKey} /\ t.sub[i].tree \in s
      BY <2>3, <2>6 DEF Entry
    <3>2. \A i \in 1..m : e[i].tree \in s
      BY <2>4, <2>5, <3>1
    <3>3. ASSUME NEW i \in 1..m PROVE e[i] \in Entry({NoKey}, s)
      <4>1. PICK k, x : k = t.sub[i].key /\ x = e[i].tree
        OBVIOUS
      <4>2. k \in {NoKey} /\ x \in s /\ e[i] = [key |-> k, tree |-> x]
        BY <2>5, <3>1, <3>2, <4>1
      <4> QED BY <4>2 DEF Entry
    <3>4. e \in [1..m -> Entry({NoKey}, s)]
      BY <2>5, <3>3
    <3>5. [kind |-> "array", sub |-> e] \in Holders(s, b)
      BY <2>0, <3>4, HolderOf
    <3> QED BY <1>3, <2>1, <2>6, <3>5, NestedHas
  <2>7. CASE t.kind = "map"
    <3>1. \A i \in 1..m : t.sub[i].key \in Key /\ t.sub[i].tree \in s
      BY <2>3, <2>7 DEF Entry
    <3>2. \A i \in 1..m : e[i].tree \in s
      BY <2>4, <2>5, <3>1
    <3>3. ASSUME NEW i \in 1..m PROVE e[i] \in Entry(Key, s)
      <4>1. PICK k, x : k = t.sub[i].key /\ x = e[i].tree
        OBVIOUS
      <4>2. k \in Key /\ x \in s /\ e[i] = [key |-> k, tree |-> x]
        BY <2>5, <3>1, <3>2, <4>1
      <4> QED BY <4>2 DEF Entry
    <3>4. e \in [1..m -> Entry(Key, s)]
      BY <2>5, <3>3
    <3>5. Distinct(e)
      BY <2>3, <2>5, <2>7 DEF Distinct
    <3>6. [kind |-> "map", sub |-> e] \in Holders(s, b)
      BY <2>0, <3>4, <3>5, HolderOf
    <3> QED BY <1>3, <2>1, <2>7, <3>6, NestedHas
  <2> QED BY <2>2, <2>6, <2>7
<1> QED BY <1>4, <1>5, NestedHas

(* Do two functions give the same for the entries of a value?              *)
AlikeIn(f, g, t) == \A i \in DOMAIN t.sub : f[t.sub[i].tree] = g[t.sub[i].tree]

(* A call depends on the results for the entries only.                     *)
LEMMA RedactLocal ==
  ASSUME NEW f, NEW g, NEW t \in Json, AlikeIn(f, g, t)
  PROVE  Redact(t, f) = Redact(t, g)
<1> HIDE DEF Json
<1>1. t = [kind |-> t.kind, sub |-> t.sub]
      /\ \A i \in DOMAIN t.sub : t.sub[i] = [key |-> t.sub[i].key, tree |-> t.sub[i].tree]
  BY EntriesTyped DEF Entry
<1>2. [i \in DOMAIN t.sub |->
         [key |-> t.sub[i].key, tree |-> IF Hides(t.sub[i].key) THEN Redacted ELSE f[t.sub[i].tree]]]
      = [i \in DOMAIN t.sub |->
           [key |-> t.sub[i].key, tree |-> IF Hides(t.sub[i].key) THEN Redacted ELSE g[t.sub[i].tree]]]
  BY DEF AlikeIn
<1> QED BY <1>1, <1>2, RedactMakes

(* Steps that keep values of V, or the levels, go up the levels.           *)
LEMMA JsonGoesUp ==
  ASSUME NEW C, C # {}, NEW Step \in [C -> C], \A f \in C : f = [t \in Json |-> f[t]],
         \A f, g \in C : \A t \in Json : AlikeIn(f, g, t) => Step[f][t] = Step[g][t]
  PROVE  \E f \in C : f = Step[f]
<1> DEFINE n == Len(Entries)
<1>0. n \in Nat /\ Json = Nested[n] /\ \A d \in 0..n : Nested[d] \subseteq Json
  <2> HIDE DEF Nested, Json
  <2> QED BY JsonIs
<1> HIDE DEF Json, Nested
<1>1. ASSUME NEW f \in C, NEW g \in C, NEW t \in Nested[0] PROVE Step[f][t] = Step[g][t]
  <2>1. t \in Json /\ t \in {Scalar, Redacted}
    BY <1>0, NestedStep
  <2>2. AlikeIn(f, g, t)
    BY <2>1, NoEntries DEF AlikeIn
  <2> QED BY <2>1, <2>2
<1>2. ASSUME NEW f \in C, NEW g \in C, NEW d \in 1..n, \A u \in Nested[d - 1] : f[u] = g[u], NEW t \in Nested[d]
      PROVE  Step[f][t] = Step[g][t]
  <2>0. d \in 0..n
    BY <1>0
  <2>1. t \in Json
    BY <1>0, <2>0
  <2>2. \A i \in DOMAIN t.sub : t.sub[i].tree \in Nested[d - 1]
    BY <2>0, EntriesWithin, NoEntries
  <2>3. AlikeIn(f, g, t)
    BY <1>2, <2>2 DEF AlikeIn
  <2> QED BY <2>1, <2>3
<1>3. \A f \in C : f = [t \in Nested[n] |-> f[t]]
  BY <1>0
<1>4. GoesUp(n, Nested, C, Step)
  <2> HIDE DEF n
  <2> QED BY <1>0, <1>1, <1>2, <1>3 DEF GoesUp
<1> QED BY <1>4, RecursionExists

(* redactInPlace ends, with a value, and is what its definition says.      *)
LEMMA RedactIs ==
  /\ RedactInPlace \in [Json -> Json]
  /\ \A t \in Json : RedactInPlace[t] = Redact(t, RedactInPlace)
<1> DEFINE Step == [f \in KeepsLevels |-> [t \in Json |-> Redact(t, f)]]
<1>0. Len(Entries) \in Nat /\ Json = Nested[Len(Entries)] /\ \A d \in 0..Len(Entries) : Nested[d] \subseteq Json
  <2> HIDE DEF Nested, Json
  <2> QED BY JsonIs
<1> HIDE DEF Json, Nested
<1>1. Step \in [KeepsLevels -> KeepsLevels]
  <2> SUFFICES ASSUME NEW f \in KeepsLevels PROVE [t \in Json |-> Redact(t, f)] \in KeepsLevels
    OBVIOUS
  <2>1. \A d \in 0..Len(Entries) : \A t \in Nested[d] : t \in Json /\ Redact(t, f) \in Nested[d]
    BY <1>0, RedactKeeps
  <2>2. \A t \in Json : Redact(t, f) \in Json
    BY <1>0, <2>1
  <2> QED BY <2>1, <2>2 DEF KeepsLevels
<1>2. KeepsLevels # {}
  <2>1. [t \in Json |-> t] \in KeepsLevels
    BY <1>0 DEF KeepsLevels
  <2> QED BY <2>1
<1>3. \A f \in KeepsLevels : f = [t \in Json |-> f[t]]
  BY DEF KeepsLevels
<1>4. \A f, g \in KeepsLevels : \A t \in Json : AlikeIn(f, g, t) => Step[f][t] = Step[g][t]
  BY RedactLocal
<1>5. \E f \in KeepsLevels : f = Step[f]
  <2> HIDE DEF Step, KeepsLevels
  <2> QED BY <1>1, <1>2, <1>3, <1>4, JsonGoesUp
<1>6. PICK f \in KeepsLevels : f = [t \in Json |-> Redact(t, f)]
  BY <1>5
<1> HIDE DEF Step, KeepsLevels
<1>7. PICK g : g = RedactInPlace /\ g = [t \in Json |-> Redact(t, g)]
  BY <1>6 DEF RedactInPlace
<1>8. \A t \in Json : f[t] = Redact(t, f)
  BY <1>6
<1>9. \A t \in Json : g[t] = Redact(t, g)
  BY <1>7
<1>10. Json \subseteq {t \in Json : f[t] = g[t]}
  <2> DEFINE S == {t \in Json : f[t] = g[t]}
  <2>1. ASSUME NEW t \in Json, \A i \in DOMAIN t.sub : t.sub[i].tree \in S \cap Json PROVE t \in S
    <3>1. AlikeIn(f, g, t)
      BY <2>1 DEF AlikeIn
    <3> QED BY <1>8, <1>9, <3>1, RedactLocal
  <2>2. {Scalar, Redacted} \subseteq S
    <3>1. Scalar \in Json /\ Redacted \in Json
      BY JsonIs
    <3> QED BY <2>1, <3>1, NoEntries
  <2>3. Json \subseteq S
    <3> HIDE DEF S
    <3> QED BY <2>1, <2>2, JsonInduction
  <2> QED BY <2>3
<1>11. f = [t \in Json |-> f[t]] /\ g = [t \in Json |-> g[t]]
  BY <1>6, <1>7
<1>12. g = f
  BY <1>10, <1>11
<1>13. f \in [Json -> Json]
  BY <1>6 DEF KeepsLevels
<1> QED BY <1>7, <1>9, <1>12, <1>13

-----------------------------------------------------------------------------
(* What is found in a value.                                               *)

Hop(i, k) == [at |-> i, key |-> k]

Extended(i, k, c) == [path |-> <<Hop(i, k)>> \o c.path, kind |-> c.kind]

ContentsOf(t, of) ==
  {[path |-> <<>>, kind |-> t.kind]} \cup
  UNION {{Extended(i, t.sub[i].key, c) : c \in of[t.sub[i].tree]} : i \in DOMAIN t.sub}

Hops == [at : Nat, key : Key \cup {NoKey}]
Found == [path : Seq(Hops), kind : {"value", "REDACTED", "array", "map"}]

(* What is found has a path and a kind, if what is in the entries does.    *)
LEMMA ContentsTyped ==
  ASSUME NEW t \in Json, NEW of, \A i \in DOMAIN t.sub : of[t.sub[i].tree] \subseteq Found
  PROVE  ContentsOf(t, of) \subseteq Found
<1> HIDE DEF Json
<1>1. [path |-> <<>>, kind |-> t.kind] \in Found
  <2>1. PICK k, p : k = t.kind /\ p = <<>>
    OBVIOUS
  <2>2. k \in {"value", "REDACTED", "array", "map"} /\ p \in Seq(Hops)
    <3>1. k \in {"value", "REDACTED", "array", "map"}
      BY <2>1, EntriesTyped
    <3>2. \A E : <<>> \in Seq(E)
      OBVIOUS
    <3> QED BY <2>1, <3>1, <3>2
  <2>3. [path |-> p, kind |-> k] \in Found
    BY <2>2 DEF Found
  <2> QED BY <2>1, <2>3
<1>2. ASSUME NEW i \in DOMAIN t.sub, NEW c \in of[t.sub[i].tree] PROVE Extended(i, t.sub[i].key, c) \in Found
  <2>1. c.path \in Seq(Hops) /\ c.kind \in {"value", "REDACTED", "array", "map"}
    BY <1>2 DEF Found
  <2>2. i \in Nat /\ t.sub[i].key \in Key \cup {NoKey}
    <3>1. PICK m \in Nat : DOMAIN t.sub = 1..m
      BY EntriesTyped
    <3>2. i \in Nat
      BY <3>1
    <3>3. t.sub[i] \in Entry(Key \cup {NoKey}, Json)
      BY EntriesTyped
    <3>4. t.sub[i].key \in Key \cup {NoKey}
      BY <3>3 DEF Entry
    <3> QED BY <3>2, <3>4
  <2>3. <<Hop(i, t.sub[i].key)>> \in Seq(Hops)
    <3>1. Hop(i, t.sub[i].key) \in Hops
      BY <2>2 DEF Hop, Hops
    <3> QED BY <3>1
  <2>4. PICK p : p = <<Hop(i, t.sub[i].key)>> \o c.path
    OBVIOUS
  <2>5. p \in Seq(Hops)
    <3> HIDE DEF Hops
    <3> QED BY <2>1, <2>3, <2>4
  <2> QED BY <2>1, <2>4, <2>5 DEF Extended, Found
<1>3. ASSUME NEW x \in ContentsOf(t, of) PROVE x \in Found
  <2>1. x = [path |-> <<>>, kind |-> t.kind] \/
        \E i \in DOMAIN t.sub : \E c \in of[t.sub[i].tree] : x = Extended(i, t.sub[i].key, c)
    BY <1>3 DEF ContentsOf
  <2> HIDE DEF Found
  <2> QED BY <2>1, <1>1, <1>2
<1> QED BY <1>3

(* Contents is what its definition says.                                   *)
LEMMA ContentsIs ==
  \A t \in Json : Contents[t] = ContentsOf(t, Contents) /\ Contents[t] \subseteq Found
<1> DEFINE V == SUBSET Found
           Up == [f \in [Json -> V] |-> [t \in Json |-> ContentsOf(t, f)]]
<1> HIDE DEF Json, Nested, Found
<1>1. ASSUME NEW f \in [Json -> V], NEW t \in Json PROVE ContentsOf(t, f) \in V
  <2>1. \A i \in DOMAIN t.sub : t.sub[i].tree \in Json
    BY EntriesTyped DEF Entry
  <2>2. \A i \in DOMAIN t.sub : f[t.sub[i].tree] \subseteq Found
    BY <2>1
  <2> QED BY <2>2, ContentsTyped
<1>2. Up \in [[Json -> V] -> [Json -> V]]
  BY <1>1
<1>3. ASSUME NEW f, NEW g, NEW t, AlikeIn(f, g, t) PROVE ContentsOf(t, f) = ContentsOf(t, g)
  BY <1>3 DEF AlikeIn, ContentsOf
<1>4. \E f \in [Json -> V] : f = Up[f]
  <2> DEFINE C == [Json -> V]
  <2>1. C # {}
    <3>1. [t \in Json |-> {}] \in C
      OBVIOUS
    <3> QED BY <3>1
  <2>2. \A f, g \in C : \A t \in Json : AlikeIn(f, g, t) => Up[f][t] = Up[g][t]
    BY <1>3
  <2>3. \A f \in C : f = [t \in Json |-> f[t]]
    OBVIOUS
  <2>4. \E f \in C : f = Up[f]
    <3>1. Up \in [C -> C]
      BY <1>2
    <3> HIDE DEF C, Up
    <3> QED BY <2>1, <2>2, <2>3, <3>1, JsonGoesUp
  <2> QED BY <2>4
<1>5. \E f : f = [t \in Json |-> ContentsOf(t, f)]
  BY <1>4
<1>6. Contents = [t \in Json |-> ContentsOf(t, Contents)]
  BY <1>5 DEF Contents, ContentsOf, Extended, Hop
<1> HIDE DEF Contents
<1>7. \A t \in Json : Contents[t] = ContentsOf(t, Contents)
  BY <1>6
<1>8. Json \subseteq {t \in Json : Contents[t] \subseteq Found}
  <2> DEFINE S == {t \in Json : Contents[t] \subseteq Found}
  <2>1. ASSUME NEW t \in Json, \A i \in DOMAIN t.sub : t.sub[i].tree \in S \cap Json PROVE t \in S
    <3>1. \A i \in DOMAIN t.sub : Contents[t.sub[i].tree] \subseteq Found
      BY <2>1
    <3> QED BY <1>7, <3>1, ContentsTyped
  <2>2. {Scalar, Redacted} \subseteq S
    <3>1. Scalar \in Json /\ Redacted \in Json
      BY JsonIs
    <3> QED BY <2>1, <3>1, NoEntries
  <2>3. Json \subseteq S
    <3> HIDE DEF S
    <3> QED BY <2>1, <2>2, JsonInduction
  <2> QED BY <2>3
<1> QED BY <1>7, <1>8

-----------------------------------------------------------------------------
(* What is shown of it.                                                    *)

Sensitive(step) == step.key \in {Credentials, Details, Fragment}
Below(p) == \E n \in 1 .. Len(p) - 1 : Sensitive(p[n])
Hidden(p) == p # <<>> /\ Sensitive(p[Len(p)])
Shown(c) == [path |-> c.path, kind |-> IF Hidden(c.path) THEN "REDACTED" ELSE c.kind]
Kept(C) == {Shown(c) : c \in {c \in C : ~Below(c.path)}}

(* A path one step longer.                                                 *)
LEMMA PathExtends ==
  ASSUME NEW s \in Hops, NEW q \in Seq(Hops), NEW p, p = <<s>> \o q
  PROVE  /\ p # <<>>
         /\ Below(p) <=> (Sensitive(s) /\ q # <<>>) \/ Below(q)
         /\ Hidden(p) <=> IF q = <<>> THEN Sensitive(s) ELSE Hidden(q)
<1> HIDE DEF Hops
<1>1. PICK m \in Nat : Len(q) = m
  OBVIOUS
<1>2. p \in Seq(Hops) /\ Len(p) = m + 1 /\ p[1] = s /\ \A n \in 1..m : p[n + 1] = q[n]
  <2>1. <<s>> \in Seq(Hops) /\ Len(<<s>>) = 1 /\ <<s>>[1] = s
    OBVIOUS
  <2> QED BY <1>1, <2>1
<1>3. q = <<>> <=> m = 0
  BY <1>1
<1>4. Below(p) <=> (Sensitive(s) /\ m # 0) \/ Below(q)
  <2>1. ASSUME NEW n \in 1..m, Sensitive(p[n]) PROVE (Sensitive(s) /\ m # 0) \/ Below(q)
    <3>1. CASE n = 1
      BY <1>2, <2>1, <3>1
    <3>2. CASE n # 1
      <4>1. n - 1 \in 1..(m - 1) /\ n - 1 \in 1..m /\ (n - 1) + 1 = n
        BY <3>2
      <4>2. p[n] = q[n - 1]
        BY <1>2, <4>1
      <4> QED BY <1>1, <2>1, <4>1, <4>2 DEF Below
    <3> QED BY <3>1, <3>2
  <2>2. ASSUME Sensitive(s), m # 0 PROVE \E n \in 1..m : Sensitive(p[n])
    BY <1>1, <1>2, <2>2
  <2>3. ASSUME NEW n \in 1..(m - 1), Sensitive(q[n]) PROVE \E k \in 1..m : Sensitive(p[k])
    <3>1. n + 1 \in 1..m /\ n \in 1..m
      BY <1>1
    <3> QED BY <1>2, <2>3, <3>1
  <2>4. Below(p) <=> \E n \in 1..m : Sensitive(p[n])
    <3>1. Len(p) - 1 = m
      BY <1>1, <1>2
    <3> QED BY <3>1 DEF Below
  <2>5. Below(q) <=> \E n \in 1..(m - 1) : Sensitive(q[n])
    BY <1>1 DEF Below
  <2> QED BY <2>1, <2>2, <2>3, <2>4, <2>5
<1>5. p # <<>>
  BY <1>1, <1>2
<1>6. Hidden(p) <=> Sensitive(p[m + 1])
  BY <1>2, <1>5 DEF Hidden
<1>7. Hidden(p) <=> IF q = <<>> THEN Sensitive(s) ELSE Hidden(q)
  <2>1. CASE m = 0
    <3>1. p[m + 1] = s
      BY <1>2, <2>1
    <3>2. Hidden(p) <=> Sensitive(s)
      BY <1>6, <3>1
    <3> QED BY <1>3, <2>1, <3>2
  <2>2. CASE m # 0
    <3>1. p[m + 1] = q[m]
      BY <1>1, <1>2, <2>2
    <3>2. Hidden(q) <=> Sensitive(q[m])
      BY <1>1, <1>3, <2>2 DEF Hidden
    <3>3. Hidden(p) <=> Hidden(q)
      BY <1>6, <3>1, <3>2
    <3> QED BY <1>3, <2>2, <3>3
  <2> QED BY <2>1, <2>2
<1> QED BY <1>3, <1>4, <1>5, <1>7

(* What is found one step further.                                         *)
LEMMA FoundExtends ==
  ASSUME NEW i \in Nat, NEW k \in Key \cup {NoKey}, NEW c \in Found
  PROVE  /\ Extended(i, k, c).path # <<>>
         /\ ~Sensitive(Hop(i, k)) => /\ Below(Extended(i, k, c).path) <=> Below(c.path)
                                     /\ Shown(Extended(i, k, c)) = Extended(i, k, Shown(c))
         /\ Sensitive(Hop(i, k)) /\ c.path # <<>> => Below(Extended(i, k, c).path)
         /\ Sensitive(Hop(i, k)) /\ c.path = <<>> =>
              /\ ~Below(Extended(i, k, c).path)
              /\ Shown(Extended(i, k, c)) = Extended(i, k, [path |-> <<>>, kind |-> "REDACTED"])
<1>1. PICK s : s = Hop(i, k)
  OBVIOUS
<1>2. s \in Hops
  BY <1>1 DEF Hop, Hops
<1>3. PICK q, v : q = c.path /\ v = c.kind
  OBVIOUS
<1>4. q \in Seq(Hops)
  BY <1>3 DEF Found
<1>5. PICK p : p = <<s>> \o q
  OBVIOUS
<1>6. Extended(i, k, c) = [path |-> p, kind |-> v]
  BY <1>1, <1>3, <1>5 DEF Extended
<1>7. /\ p # <<>>
      /\ Below(p) <=> (Sensitive(s) /\ q # <<>>) \/ Below(q)
      /\ Hidden(p) <=> IF q = <<>> THEN Sensitive(s) ELSE Hidden(q)
  BY <1>2, <1>4, <1>5, PathExtends
<1>8. ~Below(<<>>) /\ ~Hidden(<<>>)
  BY DEF Below, Hidden
<1>9. Shown(Extended(i, k, c)) = [path |-> p, kind |-> IF Hidden(p) THEN "REDACTED" ELSE v]
  BY <1>6 DEF Shown
<1>10. Shown(c) = [path |-> q, kind |-> IF Hidden(q) THEN "REDACTED" ELSE v]
  BY <1>3 DEF Shown
<1>11. Extended(i, k, Shown(c)) = [path |-> p, kind |-> IF Hidden(q) THEN "REDACTED" ELSE v]
  BY <1>1, <1>5, <1>10 DEF Extended
<1>12. q = <<>> => Extended(i, k, [path |-> <<>>, kind |-> "REDACTED"]) = [path |-> p, kind |-> "REDACTED"]
  BY <1>1, <1>5 DEF Extended
<1>13. ASSUME ~Sensitive(s) PROVE Hidden(p) <=> Hidden(q)
  BY <1>7, <1>8, <1>13
<1>14. Extended(i, k, c).path = p
  BY <1>6
<1>15. ~Sensitive(s) => Shown(Extended(i, k, c)) = Extended(i, k, Shown(c))
  BY <1>9, <1>11, <1>13
<1>16. Sensitive(s) /\ q = <<>> => Shown(Extended(i, k, c)) = Extended(i, k, [path |-> <<>>, kind |-> "REDACTED"])
  BY <1>7, <1>9, <1>12
<1>17. ~Sensitive(s) => (Below(p) <=> Below(q))
  BY <1>7
<1>18. Sensitive(s) /\ q # <<>> => Below(p)
  BY <1>7
<1>19. Sensitive(s) /\ q = <<>> => ~Below(p)
  BY <1>7, <1>8
<1> QED BY <1>1, <1>3, <1>7, <1>14, <1>15, <1>16, <1>17, <1>18, <1>19

(* redactInPlace hides by these keys.                                      *)
LEMMA HidesIs ==
  ASSUME NEW i, NEW k \in Key \cup {NoKey}
  PROVE  Hides(k) <=> Sensitive(Hop(i, k))
BY DEF Hides, LooksSensitiveKey, Sensitive, Hop, Key, NoKey, Credentials, Details, ProtoDetails,
       Fragment

(* What is found in a value: itself, and what is found in its entries.     *)
LEMMA ContentsHas ==
  ASSUME NEW t \in Json, NEW x
  PROVE  x \in Contents[t] <=>
           \/ x = [path |-> <<>>, kind |-> t.kind]
           \/ \E i \in DOMAIN t.sub : \E c \in Contents[t.sub[i].tree] : x = Extended(i, t.sub[i].key, c)
<1> HIDE DEF Json, Contents
<1>1. PICK r : r = [path |-> <<>>, kind |-> t.kind]
  OBVIOUS
<1> DEFINE Part(i) == {Extended(i, t.sub[i].key, c) : c \in Contents[t.sub[i].tree]}
<1>2. Contents[t] = {r} \cup UNION {Part(i) : i \in DOMAIN t.sub}
  BY <1>1, ContentsIs DEF ContentsOf
<1>3. \A i \in DOMAIN t.sub :
        x \in Part(i) <=> \E c \in Contents[t.sub[i].tree] : x = Extended(i, t.sub[i].key, c)
  OBVIOUS
<1> HIDE DEF Part
<1>4. x \in UNION {Part(i) : i \in DOMAIN t.sub} <=> \E i \in DOMAIN t.sub : x \in Part(i)
  OBVIOUS
<1> QED BY <1>1, <1>2, <1>3, <1>4

(* Nothing but its place is found in what is hidden.                       *)
LEMMA RedactedHas == Contents[Redacted] = {[path |-> <<>>, kind |-> "REDACTED"]}
<1> HIDE DEF Json, Contents
<1>1. Redacted \in Json /\ DOMAIN Redacted.sub = {} /\ Redacted.kind = "REDACTED"
  BY JsonIs, NoEntries DEF Redacted
<1> HIDE DEF Redacted
<1>2. Contents[Redacted] = ContentsOf(Redacted, Contents)
  BY <1>1, ContentsIs
<1> QED BY <1>1, <1>2 DEF ContentsOf

(* A value is found in itself, at no distance.                             *)
LEMMA RootIsFound ==
  ASSUME NEW t \in Json
  PROVE  \E c \in Contents[t] : c.path = <<>>
<1> HIDE DEF Json, Contents
<1>1. PICK r : r = [path |-> <<>>, kind |-> t.kind]
  OBVIOUS
<1>2. r \in Contents[t]
  BY <1>1, ContentsIs DEF ContentsOf
<1>3. r.path = <<>>
  BY <1>1
<1> QED BY <1>2, <1>3

(* What is found in an entry of the copy is what is kept of what is found  *)
(* in that of the original.                                                *)
LEMMA EntryKept ==
  ASSUME NEW i \in Nat, NEW k \in Key \cup {NoKey}, NEW u \in Json, NEW w,
         w = (IF Hides(k) THEN Redacted ELSE RedactInPlace[u]),
         Contents[RedactInPlace[u]] = Kept(Contents[u]), NEW x
  PROVE  (\E c \in Contents[w] : x = Extended(i, k, c)) <=>
           \E c \in Contents[u] : ~Below(Extended(i, k, c).path) /\ x = Shown(Extended(i, k, c))
<1> HIDE DEF Json, Contents, RedactInPlace
<1>1. Contents[u] \subseteq Found
  BY ContentsIs
<1>2. CASE Hides(k)
  <2>1. Sensitive(Hop(i, k))
    BY <1>2, HidesIs
  <2>2. PICK e : e = [path |-> <<>>, kind |-> "REDACTED"]
    OBVIOUS
  <2>3. Contents[w] = {e}
    BY <1>2, <2>2, RedactedHas
  <2>4. \A c \in Contents[u] : ~Below(Extended(i, k, c).path) <=> c.path = <<>>
    BY <1>1, <2>1, FoundExtends
  <2>5. \A c \in Contents[u] : c.path = <<>> => Shown(Extended(i, k, c)) = Extended(i, k, e)
    BY <1>1, <2>1, <2>2, FoundExtends
  <2>6. PICK c \in Contents[u] : c.path = <<>>
    BY RootIsFound
  <2> QED BY <2>3, <2>4, <2>5, <2>6
<1>3. CASE ~Hides(k)
  <2>1. ~Sensitive(Hop(i, k))
    BY <1>3, HidesIs
  <2>2. Contents[w] = Kept(Contents[u])
    BY <1>3
  <2>3. ASSUME NEW c \in Contents[u]
        PROVE  /\ Below(Extended(i, k, c).path) <=> Below(c.path)
               /\ Shown(Extended(i, k, c)) = Extended(i, k, Shown(c))
    <3>1. c \in Found
      BY <1>1
    <3>2. ~Sensitive(Hop(i, k)) => /\ Below(Extended(i, k, c).path) <=> Below(c.path)
                                   /\ Shown(Extended(i, k, c)) = Extended(i, k, Shown(c))
      BY <3>1, FoundExtends
    <3> QED BY <2>1, <3>2
  <2>4. \A y : y \in Contents[w] <=> \E c \in Contents[u] : ~Below(c.path) /\ y = Shown(c)
    BY <2>2 DEF Kept
  <2> QED BY <2>2, <2>3, <2>4
<1> QED BY <1>2, <1>3

(* Of a copy, what is kept of the original is found, and nothing else.     *)
LEMMA RedactionKeeps ==
  ASSUME NEW t \in Json
  PROVE  Contents[RedactInPlace[t]] = Kept(Contents[t])
<1> HIDE DEF Json, Contents, RedactInPlace
<1> DEFINE S == {u \in Json : Contents[RedactInPlace[u]] = Kept(Contents[u])}
<1>1. ASSUME NEW u \in Json, \A i \in DOMAIN u.sub : u.sub[i].tree \in S \cap Json PROVE u \in S
  <2>1. u = [kind |-> u.kind, sub |-> u.sub]
        /\ \A i \in DOMAIN u.sub : u.sub[i] = [key |-> u.sub[i].key, tree |-> u.sub[i].tree]
    BY EntriesTyped DEF Entry
  <2>2. PICK e : e = [i \in DOMAIN u.sub |->
                       [key |-> u.sub[i].key,
                        tree |-> IF Hides(u.sub[i].key) THEN Redacted ELSE RedactInPlace[u.sub[i].tree]]]
    OBVIOUS
  <2>3. PICK w : w = RedactInPlace[u]
    OBVIOUS
  <2>4. w \in Json /\ w = Redact(u, RedactInPlace)
    BY <2>3, RedactIs
  <2>5. w = [kind |-> u.kind, sub |-> e]
    BY <2>1, <2>2, <2>4, RedactMakes
  <2>6. DOMAIN w.sub = DOMAIN u.sub /\ w.kind = u.kind
        /\ \A i \in DOMAIN u.sub :
             /\ w.sub[i].key = u.sub[i].key
             /\ w.sub[i].tree = IF Hides(u.sub[i].key) THEN Redacted ELSE RedactInPlace[u.sub[i].tree]
    <3>1. w.sub = e /\ w.kind = u.kind
      BY <2>5
    <3> QED BY <2>2, <3>1
  <2>7. PICK r : r = [path |-> <<>>, kind |-> u.kind]
    OBVIOUS
  <2>8. ASSUME NEW x
        PROVE  x \in Contents[w] <=>
                 x = r \/ \E i \in DOMAIN u.sub : \E c \in Contents[w.sub[i].tree] : x = Extended(i, u.sub[i].key, c)
    <3>1. x \in Contents[w] <=>
            x = r \/ \E i \in DOMAIN w.sub : \E c \in Contents[w.sub[i].tree] : x = Extended(i, w.sub[i].key, c)
      <4>1. r = [path |-> <<>>, kind |-> w.kind]
        BY <2>6, <2>7
      <4>2. w \in Json
        BY <2>4
      <4>3. x \in Contents[w] <=>
              \/ x = [path |-> <<>>, kind |-> w.kind]
              \/ \E i \in DOMAIN w.sub : \E c \in Contents[w.sub[i].tree] : x = Extended(i, w.sub[i].key, c)
        BY <4>2, ContentsHas
      <4> QED BY <4>1, <4>3
    <3> QED BY <2>6, <3>1
  <2>9. \A c : c \in Contents[u] <=>
          c = r \/ \E i \in DOMAIN u.sub : \E b \in Contents[u.sub[i].tree] : c = Extended(i, u.sub[i].key, b)
    BY <2>7, ContentsHas
  <2>10. ~Below(r.path) /\ Shown(r) = r
    <3>1. r.path = <<>> /\ r.kind = u.kind
      BY <2>7
    <3>2. ~Below(<<>>) /\ ~Hidden(<<>>)
      BY DEF Below, Hidden
    <3> QED BY <2>7, <3>1, <3>2 DEF Shown
  <2>11. ASSUME NEW x
         PROVE  x \in Kept(Contents[u]) <=>
                  x = r \/ \E i \in DOMAIN u.sub : \E b \in Contents[u.sub[i].tree] :
                             /\ ~Below(Extended(i, u.sub[i].key, b).path)
                             /\ x = Shown(Extended(i, u.sub[i].key, b))
    <3>1. x \in Kept(Contents[u]) <=> \E c \in Contents[u] : ~Below(c.path) /\ x = Shown(c)
      BY DEF Kept
    <3> QED BY <2>9, <2>10, <3>1
  <2>12. ASSUME NEW x, NEW i \in DOMAIN u.sub
         PROVE  (\E c \in Contents[w.sub[i].tree] : x = Extended(i, u.sub[i].key, c)) <=>
                  \E b \in Contents[u.sub[i].tree] :
                    /\ ~Below(Extended(i, u.sub[i].key, b).path)
                    /\ x = Shown(Extended(i, u.sub[i].key, b))
    <3>1. PICK k, v, y : k = u.sub[i].key /\ v = u.sub[i].tree /\ y = w.sub[i].tree
      OBVIOUS
    <3>2. i \in Nat
      <4>1. PICK m \in Nat : DOMAIN u.sub = 1..m
        BY EntriesTyped
      <4> QED BY <4>1
    <3>3. k \in Key \cup {NoKey} /\ v \in Json
      <4>1. u.sub[i] \in Entry(Key \cup {NoKey}, Json)
        BY EntriesTyped
      <4> QED BY <3>1, <4>1 DEF Entry
    <3>4. y = (IF Hides(k) THEN Redacted ELSE RedactInPlace[v])
      BY <2>6, <3>1
    <3>5. Contents[RedactInPlace[v]] = Kept(Contents[v])
      BY <1>1, <3>1
    <3> QED BY <3>1, <3>2, <3>3, <3>4, <3>5, EntryKept
  <2>13. \A x : x \in Contents[w] <=> x \in Kept(Contents[u])
    <3> SUFFICES ASSUME NEW x PROVE x \in Contents[w] <=> x \in Kept(Contents[u])
      OBVIOUS
    <3>1. x \in Contents[w] <=>
            x = r \/ \E i \in DOMAIN u.sub : \E c \in Contents[w.sub[i].tree] : x = Extended(i, u.sub[i].key, c)
      BY <2>8
    <3>2. x \in Kept(Contents[u]) <=>
            x = r \/ \E i \in DOMAIN u.sub : \E b \in Contents[u.sub[i].tree] :
                       /\ ~Below(Extended(i, u.sub[i].key, b).path)
                       /\ x = Shown(Extended(i, u.sub[i].key, b))
      BY <2>11
    <3>3. \A i \in DOMAIN u.sub :
            (\E c \in Contents[w.sub[i].tree] : x = Extended(i, u.sub[i].key, c)) <=>
            \E b \in Contents[u.sub[i].tree] :
              /\ ~Below(Extended(i, u.sub[i].key, b).path)
              /\ x = Shown(Extended(i, u.sub[i].key, b))
      BY <2>12
    <3> QED BY <3>1, <3>2, <3>3
  <2>14. Contents[w] = Kept(Contents[u])
    <3>1. PICK A, B : A = Contents[w] /\ B = Kept(Contents[u])
      OBVIOUS
    <3>2. \A x : x \in A <=> x \in B
      BY <2>13, <3>1
    <3>3. A = B
      BY <3>2
    <3> QED BY <3>1, <3>3
  <2> QED BY <2>3, <2>14
<1>2. {Scalar, Redacted} \subseteq S
  <2>1. Scalar \in Json /\ Redacted \in Json
    BY JsonIs
  <2> QED BY <1>1, <2>1, NoEntries
<1>3. Json \subseteq S
  <2> HIDE DEF S
  <2> QED BY <1>1, <1>2, JsonInduction
<1> QED BY <1>3

(* The log has of the payload what is kept of it.                          *)
CopyInv == payload \in Json /\ Contents[out] = Kept(Contents[payload])

(* Nothing is logged at first, and a scalar is its own copy.               *)
LEMMA NothingIsLogged == IOInit => CopyInv
<1> SUFFICES ASSUME IOInit PROVE CopyInv
  OBVIOUS
<1> HIDE DEF Json, Contents, RedactInPlace
<1>1. Scalar \in Json /\ DOMAIN Scalar.sub = {} /\ Scalar = [kind |-> Scalar.kind, sub |-> Scalar.sub]
  BY JsonIs, NoEntries, EntriesTyped
<1>2. Scalar.sub = <<>> /\ [i \in DOMAIN Scalar.sub |->
        [key |-> Scalar.sub[i].key,
         tree |-> IF Hides(Scalar.sub[i].key) THEN Redacted ELSE RedactInPlace[Scalar.sub[i].tree]]] = Scalar.sub
  BY <1>1, NoEntries
<1>3. Redact(Scalar, RedactInPlace) = Scalar
  <2>1. \A i \in DOMAIN Scalar.sub : Scalar.sub[i] = [key |-> Scalar.sub[i].key, tree |-> Scalar.sub[i].tree]
    BY <1>1
  <2> QED BY <1>1, <1>2, <2>1, RedactMakes
<1>4. RedactInPlace[Scalar] = Scalar
  BY <1>1, <1>3, RedactIs
<1>5. payload = Scalar /\ out = Scalar
  BY DEF IOInit
<1>6. Contents[RedactInPlace[Scalar]] = Kept(Contents[Scalar])
  BY <1>1, RedactionKeeps
<1> QED BY <1>1, <1>4, <1>5, <1>6 DEF CopyInv

(* redactInPlace, whatever the payload, its maps, arrays and keys: of the  *)
(* values below credentials, connectionDetails or a key with one of the    *)
(* fragments nothing is logged but that they were there, and everything    *)
(* else as it is.  That is what the code hides, not all it is to hide: the *)
(* connection details of a message come as connection_details and are      *)
(* logged (ConnectionDetailsHidden is violated).                           *)
THEOREM RedactionFollowsKeys == IOSpec => []RedactedByKey
<1> HIDE DEF Json, Contents, RedactInPlace
<1>1. CopyInv /\ [IONext]_ioVars => CopyInv'
  <2> SUFFICES ASSUME CopyInv, [IONext]_ioVars PROVE CopyInv'
    OBVIOUS
  <2>1. CASE IONext
    <3>1. PICK t \in Payloads : payload' = t /\ out' = RedactInPlace[t]
      BY <2>1 DEF IONext, LogCrossplaneProto
    <3>2. t \in Json
      BY DEF Payloads
    <3>3. Contents[RedactInPlace[t]] = Kept(Contents[t])
      BY <3>2, RedactionKeeps
    <3> QED BY <3>1, <3>2, <3>3 DEF CopyInv
  <2>2. CASE UNCHANGED ioVars
    BY <2>2 DEF ioVars, CopyInv
  <2> QED BY <2>1, <2>2
<1>2. CopyInv => RedactedByKey
  BY DEF CopyInv, RedactedByKey, Kept, Shown, Below, Hidden, Sensitive
<1> QED BY <1>1, <1>2, NothingIsLogged, PTL DEF IOSpec
=============================================================================
