------------------------------- MODULE Versions ------------------------------
(***************************************************************************)
(* The order of the versions of a Kubernetes API and the choice of the     *)
(* latest (packages/libs/version-utils.ts).  gen-manifests takes the       *)
(* version of a composition's composite type from the XRD's list with it.  *)
(***************************************************************************)
EXTENDS Integers, Sequences

CONSTANTS
  Numbers,      \* the numbers that occur in versions
  MaxVersions   \* bound: length of spec.versions

ASSUME NumbersAssumption == Numbers \subseteq Nat

VARIABLES
  versions,   \* spec.versions of the XRD
  latest      \* what getLatestKubernetesVersion made of it

versionVars == <<versions, latest>>

(* What parseVersion makes of a name: a name that does not match has major *)
(* number 0 and is stable.                                                 *)
Stable(n) == [major |-> n, stability |-> "stable", minor |-> 0]
NonStandard == Stable(0)
Version ==
  {Stable(n) : n \in Numbers} \cup {NonStandard}
    \cup [major : Numbers, stability : {"alpha", "beta"}, minor : Numbers]

None == [major |-> 0, stability |-> "none", minor |-> 0]

VersionInit == versions = <<>> /\ latest = None

StabilityOrder == [stable |-> 3, beta |-> 2, alpha |-> 1]

(* Faulty variant: a stable version is not compared with one that is not.  *)
CompareLikes(a, b) ==
  IF a.major # b.major THEN a.major - b.major
  ELSE IF a.stability = b.stability THEN a.minor - b.minor
  ELSE IF "stable" \in {a.stability, b.stability} THEN 0
  ELSE StabilityOrder[a.stability] - StabilityOrder[b.stability]

(* compareKubernetesVersions                                               *)
Compare(a, b) ==
  IF a.major # b.major THEN a.major - b.major
  ELSE IF a.stability # b.stability
       THEN StabilityOrder[a.stability] - StabilityOrder[b.stability]
  ELSE IF a.stability # "stable" THEN a.minor - b.minor
  ELSE 0

(* Array.prototype.sort with the arguments swapped, which is stable: the   *)
(* positions in a new order, those that compare equal in the old one.      *)
Precedes(vs, i, j) ==
  Compare(vs[j], vs[i]) < 0 \/ (Compare(vs[j], vs[i]) = 0 /\ i < j)

Sorts(order, vs) ==
  /\ order \in [DOMAIN vs -> DOMAIN vs]
  /\ \A k \in DOMAIN vs : \E i \in DOMAIN vs : order[i] = k
  /\ \A i, j \in DOMAIN vs : i < j => Precedes(vs, order[i], order[j])

Sorted(vs) ==
  LET order == CHOOSE o \in [DOMAIN vs -> DOMAIN vs] : Sorts(o, vs)
  IN [i \in DOMAIN vs |-> vs[order[i]]]

(* Faulty variant: the list is sorted in ascending order.                  *)
LatestAscending(vs) == Sorted(vs)[Len(vs)]

(* getLatestKubernetesVersion: the first of the list in descending order.  *)
Latest(vs) == IF Len(vs) = 1 THEN vs[1] ELSE Sorted(vs)[1]

(* The author of the XRD adds a version and generates the manifests.       *)
AddVersion(v) ==
  /\ Len(versions) < MaxVersions
  /\ versions' = Append(versions, v)
  /\ latest' = Latest(versions')

VersionNext == \E v \in Version : AddVersion(v)

VersionSpec == VersionInit /\ [][VersionNext]_versionVars
-----------------------------------------------------------------------------
(* Properties.                                                             *)

(* The comparison is one a sort may be given: of any versions in the list, *)
(* swapping the arguments changes the sign, and it is transitive.          *)
ComparisonIsOrder ==
  \A i, j, k \in DOMAIN versions :
    LET a == versions[i]
        b == versions[j]
        c == versions[k]
    IN /\ Compare(a, b) > 0 <=> Compare(b, a) < 0
       /\ Compare(a, b) >= 0 /\ Compare(b, c) >= 0 => Compare(a, c) >= 0

(* The choice follows the list: an added version becomes the latest only   *)
(* if it is greater than every one before it, and replaces it only then.   *)
LatestIsRunningMaximum ==
  [][latest' # latest =>
       \A i \in DOMAIN versions : Compare(latest', versions[i]) > 0]_versionVars
=============================================================================
