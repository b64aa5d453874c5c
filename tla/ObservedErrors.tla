---------------------------- MODULE ObservedErrors ----------------------------
(***************************************************************************)
(* How a function reports the errors of its composed resources:            *)
(* getErrorsFromObservedResources and buildResponse (packages/sdk,         *)
(* responseUtils.ts).  Reconciliations follow each other, and the status   *)
(* that one returns is part of the composite that the next one is given.   *)
(***************************************************************************)
EXTENDS Integers, Sequences, FiniteSets, SequencesExt, Functions

CONSTANTS
  Refs,           \* the composed resources, a sequence in the order of for ... in
  MaxConditions,  \* bound: conditions of one of them
  MaxCalls        \* bound: reconciliations

(* The keys of a JSON object are all different.                            *)
ASSUME RefsAssumption == Refs \in Seq(Range(Refs)) /\ IsInjective(Refs)

ASSUME MaxConditionsAssumption == MaxConditions \in Nat

VARIABLES
  observed,   \* what the last call was given
  errors,     \* status.errors of the composite
  threw,      \* did the last call throw an error?
  calls       \* bound: the calls so far

reportVars == <<observed, errors, threw, calls>>

(* The two that are reported when their status is "False", and any other.  *)
Condition == {"Synced", "Ready", "fine"}

(* An Object of kubernetes.crossplane.io has a manifest in its             *)
(* status.atProvider once the provider has observed it.  There is one      *)
(* condition of a type.                                                    *)
Observed ==
  [kind : {"other", "Object", "Object without manifest"},
   conditions : {s \in SeqOf(Condition, MaxConditions) : IsInjective(s)}]

ReportInit ==
  /\ observed = [r \in Range(Refs) |-> [kind |-> "other", conditions |-> <<>>]]
  /\ errors = <<>>
  /\ threw = FALSE
  /\ calls = 0

-----------------------------------------------------------------------------
(* getErrorsFromObservedResources.                                         *)

Failing(o) == {j \in DOMAIN o.conditions : o.conditions[j] # "fine"}

(* What a failing condition adds: itself, and the state of the manifest.   *)
Added(r, o, j) ==
  <<[of |-> r, what |-> o.conditions[j]]>> \o
    (IF o.kind = "Object" THEN <<[of |-> r, what |-> "manifest"]>> ELSE <<>>)

(* Faulty variant: the loop is left with the first failing condition.      *)
ReportedFirst(r, o, j) ==
  IF j \in Failing(o) /\ \A k \in Failing(o) : j <= k THEN Added(r, o, j) ELSE <<>>

Reported(r, o, j) == IF j \in Failing(o) THEN Added(r, o, j) ELSE <<>>

ErrorsOf(r, o) == FlattenSeq([j \in DOMAIN o.conditions |-> Reported(r, o, j)])

Errors(obs) == FlattenSeq([i \in DOMAIN Refs |-> ErrorsOf(Refs[i], obs[Refs[i]])])

(* The manifest is read whether it is there or not.                        *)
Throws(obs) ==
  \E r \in Range(Refs) :
    obs[r].kind = "Object without manifest" /\ Failing(obs[r]) # {}

-----------------------------------------------------------------------------

(* status.errors is set if there are errors, and never taken away.         *)
BuildResponse(obs) ==
  /\ calls < MaxCalls
  /\ calls' = calls + 1
  /\ observed' = obs
  /\ threw' = Throws(obs)
  /\ errors' = IF Throws(obs) \/ Errors(obs) = <<>> THEN errors ELSE Errors(obs)

ReportNext == \E obs \in [Range(Refs) -> Observed] : BuildResponse(obs)

ReportSpec == ReportInit /\ [][ReportNext]_reportVars
-----------------------------------------------------------------------------
(* Properties.                                                             *)

Count(s, x) == Cardinality({i \in DOMAIN s : s[i] = x})

(* responseUtils.ts, with its tests: a call that returns has reported all  *)
(* of what failed if anything did, every condition of every resource once  *)
(* and the manifest of an Object with each.                                *)
ReportIsWhole ==
  ~threw /\ (\E r \in Range(Refs) : Failing(observed[r]) # {}) =>
    \A r \in Range(Refs) :
      LET reported(w) == Count(errors, [of |-> r, what |-> w])
          fails(w) == Count(observed[r].conditions, w)
      IN /\ \A w \in {"Synced", "Ready"} : reported(w) = fails(w)
         /\ reported("manifest") =
              IF observed[r].kind = "Object" THEN fails("Synced") + fails("Ready") ELSE 0
=============================================================================
