----------------------------- MODULE RunFunction -----------------------------
(***************************************************************************)
(* One call of Function.RunFunction (pkg/grpc/handler.go): a request of    *)
(* Crossplane's pipeline carries the desired state earlier functions have  *)
(* built up; the user's function is run, and what it returned is merged    *)
(* into the response, part by part.  A value is represented by who wrote   *)
(* it: an earlier function of the pipeline, or this one.                   *)
(***************************************************************************)
EXTENDS Integers, Sequences, FiniteSets, SequencesExt

CONSTANTS
  Names,          \* names of composed resources
  Keys,           \* keys of connection details and of the context
  Types,          \* types of conditions
  Reserved,       \* the types that belong to Crossplane (isSystemConditionType)
  MaxEvents,      \* bound: events a function returns
  MaxConditions   \* bound: conditions a function returns

ASSUME ReservedAssumption == Reserved \subseteq Types
ASSUME BoundsAssumption == MaxEvents \in Nat /\ MaxConditions \in Nat

VARIABLES
  pc,       \* where the call is
  req,      \* the desired state and context of the request, as they came
  fn,       \* what the user's function returned (JSResponse)
  rsp,      \* the RunFunctionResponse
  dxr,      \* resourceBundle.dxr, the desired composite resource
  desired,  \* resourceBundle.desired, the desired composed resources
  todo,     \* composed resources the loop of ProcessResources has still to visit
  at        \* index of the loops of SetEvents and SetConditions

vars == <<pc, req, fn, rsp, dxr, desired, todo, at>>

Writers == {"none", "earlier", "function"}
Parts == {"absent", "broken", "given"}   \* broken: not the JSON of an object
Conditions == [type : Types, force : BOOLEAN]

State == [object : {"none", "earlier"}, details : [Keys -> {"none", "earlier"}],
          resources : [Names -> {"none", "earlier"}], context : [Keys -> {"none", "earlier"}]]

Responses == [composite : Parts, details : SUBSET Keys, resources : [Names -> Parts],
              named : SUBSET Keys,     \* connection details of the resource "composite"
              events : SeqOf({"valid", "invalid"}, MaxEvents),
              requirement : {"none", "namespaced"},
              conditions : SeqOf(Conditions, MaxConditions), context : SUBSET Keys]

GivenNames(f) == {n \in Names : f.resources[n] = "given"}

(* Connection details belong to a resource.                                *)
JSResponse ==
  {f \in Responses : /\ f.composite # "given" => f.details = {}
                     /\ "composite" \notin GivenNames(f) => f.named = {}}

NoState == [object |-> "none", details |-> [k \in Keys |-> "none"],
            resources |-> [n \in Names |-> "none"], context |-> [k \in Keys |-> "none"]]
NoResponse == [composite |-> "absent", details |-> {}, resources |-> [n \in Names |-> "absent"],
               named |-> {}, events |-> <<>>, requirement |-> "none", conditions |-> <<>>,
               context |-> {}]

(* response.To: the response starts out with the desired state and context *)
(* of the request.                                                         *)
To(r) == [object |-> r.object, details |-> r.details, resources |-> r.resources,
          context |-> r.context, results |-> <<>>, conditions |-> <<>>, requirement |-> "none"]

Init ==
  /\ pc = "idle"
  /\ req = NoState
  /\ fn = NoResponse
  /\ rsp = To(NoState)
  /\ dxr = [object |-> "none", details |-> NoState.details]
  /\ desired = NoState.resources
  /\ todo = {}
  /\ at = 1

-----------------------------------------------------------------------------

(* response.Fatal and the return of the response.                          *)
Fail(fatals) ==
  /\ rsp' = [rsp EXCEPT !.results = @ \o fatals]
  /\ pc' = "done"

Overwrite(f, S) == [k \in DOMAIN f |-> IF k \in S THEN "function" ELSE f[k]]

(* The maps of the response's desired state are those of the request, and  *)
(* so is dxr's map of connection details unless it was nil: then           *)
(* GetDesiredCompositeResource has made a new one.                         *)
Aliased == \E k \in Keys : req.details[k] # "none"

(* Writes into dxr.ConnectionDetails.                                      *)
WriteDetails(S) ==
  /\ dxr' = [dxr EXCEPT !.details = Overwrite(@, S)]
  /\ rsp' = [rsp EXCEPT !.details = IF Aliased THEN Overwrite(@, S) ELSE @]

-----------------------------------------------------------------------------
(* RunFunction up to buildResponse.                                        *)

Receive ==
  /\ pc = "idle"
  /\ req' \in State
  /\ rsp' = To(req')
  /\ pc' = "parse"
  /\ UNCHANGED <<fn, dxr, desired, todo, at>>

(* parseInput, prepareResources, createEnhancedInput, executeFunction or   *)
(* processResult returns an error: no source, a malformed resource, the    *)
(* last error of the retries, an error of the user's code, no result.      *)
StageFails ==
  /\ pc \in {"parse", "prepare", "enhance", "execute", "process"}
  /\ Fail(<<"fatal">>)
  /\ UNCHANGED <<req, fn, dxr, desired, todo, at>>

ParseInput ==
  /\ pc = "parse"
  /\ pc' = "prepare"
  /\ UNCHANGED <<req, fn, rsp, dxr, desired, todo, at>>

PrepareResources ==
  /\ pc = "prepare"
  /\ dxr' = [object |-> req.object, details |-> req.details]
  /\ desired' = req.resources
  /\ pc' = "enhance"
  /\ UNCHANGED <<req, fn, rsp, todo, at>>

CreateEnhancedInput ==
  /\ pc = "enhance"
  /\ pc' = "execute"
  /\ UNCHANGED <<req, fn, rsp, dxr, desired, todo, at>>

ExecuteFunction ==
  /\ pc = "execute"
  /\ pc' = "process"
  /\ UNCHANGED <<req, fn, rsp, dxr, desired, todo, at>>

ProcessResult ==
  /\ pc = "process"
  /\ fn' \in JSResponse
  /\ pc' = "composite"
  /\ UNCHANGED <<req, rsp, dxr, desired, todo, at>>

-----------------------------------------------------------------------------
(* buildResponse.                                                          *)

CompositeBroken ==
  /\ pc = "composite"
  /\ fn.composite = "broken"
  /\ Fail(<<"fatal">>)
  /\ UNCHANGED <<req, fn, dxr, desired, todo, at>>

ProcessComposite ==
  /\ pc = "composite"
  /\ \/ fn.composite = "absent" /\ UNCHANGED <<rsp, dxr>>
     \/ /\ fn.composite = "given"
        /\ dxr' = [object |-> "function", details |-> Overwrite(dxr.details, fn.details)]
        /\ rsp' = [rsp EXCEPT !.details = IF Aliased THEN Overwrite(@, fn.details) ELSE @]
  /\ todo' = {n \in Names : fn.resources[n] # "absent"}
  /\ pc' = "resources"
  /\ UNCHANGED <<req, fn, desired, at>>

ResourceBroken(n) ==
  /\ pc = "resources"
  /\ n \in todo
  /\ fn.resources[n] = "broken"
  /\ Fail(<<"fatal">>)
  /\ UNCHANGED <<req, fn, dxr, desired, todo, at>>

(* Faulty variant: the response's map is written, not the copy.            *)
ProcessResourceInPlace(n) ==
  /\ pc = "resources"
  /\ n \in todo
  /\ fn.resources[n] = "given"
  /\ rsp' = [rsp EXCEPT !.resources[n] = "function"]
  /\ desired' = [desired EXCEPT ![n] = "function"]
  /\ todo' = todo \ {n}
  /\ UNCHANGED <<pc, req, fn, dxr, at>>

(* The loop runs over a Go map: in any order.  Connection details of the   *)
(* resource named "composite" go to the composite resource.                *)
ProcessResource(n) ==
  /\ pc = "resources"
  /\ n \in todo
  /\ fn.resources[n] = "given"
  /\ IF n = "composite" THEN WriteDetails(fn.named) ELSE UNCHANGED <<rsp, dxr>>
  /\ desired' = [desired EXCEPT ![n] = "function"]
  /\ todo' = todo \ {n}
  /\ UNCHANGED <<pc, req, fn, at>>

ResourcesDone ==
  /\ pc = "resources"
  /\ todo = {}
  /\ pc' = "events"
  /\ at' = 1
  /\ UNCHANGED <<req, fn, rsp, dxr, desired, todo>>

(* SetEvents and then RunFunction: two fatal results.                      *)
EventInvalid ==
  /\ pc = "events"
  /\ at <= Len(fn.events)
  /\ fn.events[at] = "invalid"
  /\ Fail(<<"fatal", "fatal">>)
  /\ UNCHANGED <<req, fn, dxr, desired, todo, at>>

SetEvent ==
  /\ pc = "events"
  /\ at <= Len(fn.events)
  /\ fn.events[at] = "valid"
  /\ rsp' = [rsp EXCEPT !.results = Append(@, "event")]
  /\ at' = at + 1
  /\ UNCHANGED <<pc, req, fn, dxr, desired, todo>>

(* ToResourceSelector copies the namespace, too.                           *)
SetRequirements ==
  /\ pc = "events"
  /\ at > Len(fn.events)
  /\ rsp' = [rsp EXCEPT !.requirement = fn.requirement]
  /\ pc' = "conditions"
  /\ at' = 1
  /\ UNCHANGED <<req, fn, dxr, desired, todo>>

(* conditionsSet: has a condition of this type been appended already?      *)
AlreadySet(t) == \E i \in DOMAIN rsp.conditions : fn.conditions[rsp.conditions[i]].type = t

ConditionReserved ==
  /\ pc = "conditions"
  /\ at <= Len(fn.conditions)
  /\ fn.conditions[at].type \in Reserved
  /\ Fail(<<"fatal", "fatal">>)
  /\ UNCHANGED <<req, fn, dxr, desired, todo, at>>

(* Faulty variant: force is not looked at.                                 *)
SetConditionForced ==
  /\ pc = "conditions"
  /\ at <= Len(fn.conditions)
  /\ fn.conditions[at].type \notin Reserved
  /\ rsp' = [rsp EXCEPT !.conditions = Append(@, at)]
  /\ at' = at + 1
  /\ UNCHANGED <<pc, req, fn, dxr, desired, todo>>

(* A condition is appended, by its index in fn.conditions.  One of a type  *)
(* that is set already is skipped unless it is forced.                     *)
SetCondition ==
  /\ pc = "conditions"
  /\ at <= Len(fn.conditions)
  /\ fn.conditions[at].type \notin Reserved
  /\ rsp' = [rsp EXCEPT !.conditions =
       IF AlreadySet(fn.conditions[at].type) /\ ~fn.conditions[at].force THEN @ ELSE Append(@, at)]
  /\ at' = at + 1
  /\ UNCHANGED <<pc, req, fn, dxr, desired, todo>>

(* Faulty variant: the context of the request is replaced, not merged.     *)
ReplaceContext ==
  /\ pc = "conditions"
  /\ at > Len(fn.conditions)
  /\ rsp' = [rsp EXCEPT !.context = Overwrite(NoState.context, fn.context)]
  /\ pc' = "desired"
  /\ UNCHANGED <<req, fn, dxr, desired, todo, at>>

(* processContext, whose conversions do not fail for what JSON can say.    *)
ProcessContext ==
  /\ pc = "conditions"
  /\ at > Len(fn.conditions)
  /\ rsp' = [rsp EXCEPT !.context = Overwrite(@, fn.context)]
  /\ pc' = "desired"
  /\ UNCHANGED <<req, fn, dxr, desired, todo, at>>

(* SetDesiredCompositeResource and SetDesiredComposedResources.            *)
SetDesired ==
  /\ pc = "desired"
  /\ rsp' = [rsp EXCEPT !.object = dxr.object, !.details = dxr.details,
       !.resources = [n \in Names |-> IF desired[n] = "none" THEN @[n] ELSE desired[n]]]
  /\ pc' = "done"
  /\ UNCHANGED <<req, fn, dxr, desired, todo, at>>

(* The response is sent; the next call starts with variables of its own.   *)
Return ==
  /\ pc = "done"
  /\ pc' = "idle"
  /\ req' = NoState
  /\ fn' = NoResponse
  /\ rsp' = To(NoState)
  /\ dxr' = [object |-> "none", details |-> NoState.details]
  /\ desired' = NoState.resources
  /\ todo' = {}
  /\ at' = 1

BuildResponse ==
  \/ CompositeBroken \/ ProcessComposite
  \/ \E n \in Names : ResourceBroken(n) \/ ProcessResource(n)
  \/ ResourcesDone \/ EventInvalid \/ SetEvent \/ SetRequirements
  \/ ConditionReserved \/ SetCondition \/ ProcessContext \/ SetDesired

Next ==
  \/ Receive \/ StageFails \/ ParseInput \/ PrepareResources \/ CreateEnhancedInput \/ ExecuteFunction
  \/ ProcessResult \/ BuildResponse \/ Return

Spec == Init /\ [][Next]_vars
-----------------------------------------------------------------------------
(* Properties.                                                             *)

PCs == {"idle", "parse", "prepare", "enhance", "execute", "process", "composite", "resources",
        "events", "conditions", "desired", "done"}

Response == [object : Writers, details : [Keys -> Writers], resources : [Names -> Writers],
             context : [Keys -> Writers], results : Seq({"event", "fatal"}),
             conditions : Seq(1..MaxConditions), requirement : {"none", "namespaced"}]

TypeOK ==
  /\ pc \in PCs
  /\ req \in State
  /\ fn \in Responses
  /\ rsp \in Response
  /\ dxr \in [object : Writers, details : [Keys -> Writers]]
  /\ desired \in [Names -> Writers]
  /\ todo \in SUBSET Names
  /\ at \in 1..(MaxEvents + MaxConditions + 1)

Fatal == \E i \in DOMAIN rsp.results : rsp.results[i] = "fatal"

(* A response without a fatal result holds everything the function has     *)
(* returned and everything of the request the function did not overwrite:  *)
(* whatever order the parts were merged in, nothing is lost and nothing    *)
(* that cannot be delivered is passed over.                                *)
SuccessDelivers ==
  pc = "done" /\ ~Fatal =>
    /\ fn.composite # "broken" /\ \A n \in Names : fn.resources[n] # "broken"
    /\ rsp.object = IF fn.composite = "given" THEN "function" ELSE req.object
    /\ rsp.resources = Overwrite(req.resources, GivenNames(fn))
    /\ rsp.details = Overwrite(req.details, fn.details \cup fn.named)
    /\ rsp.context = Overwrite(req.context, fn.context)
    /\ rsp.requirement = fn.requirement
    /\ rsp.results = [i \in DOMAIN fn.events |-> "event"]
    /\ \A i \in DOMAIN fn.events : fn.events[i] = "valid"
    /\ \A i \in DOMAIN fn.conditions : fn.conditions[i].type \notin Reserved

(* conditions.go: a condition that is forced overrides an earlier one of   *)
(* the same type, one that is not leaves it.  Crossplane applies a         *)
(* response's conditions in order, so the last of a type decides.          *)
Positions(t) == {i \in DOMAIN fn.conditions : fn.conditions[i].type = t}
Decides(i, P) ==
  /\ i \in P
  /\ \A j \in P :
       \/ j = i
       \/ fn.conditions[i].force /\ (fn.conditions[j].force => j < i)
       \/ i < j /\ ~fn.conditions[j].force

Sent(t) == {i \in DOMAIN rsp.conditions : fn.conditions[rsp.conditions[i]].type = t}
LastSent(t) == rsp.conditions[CHOOSE i \in Sent(t) : \A j \in Sent(t) : j <= i]

ForcedDecide ==
  pc = "done" /\ ~Fatal =>
    \A t \in Types :
      IF Positions(t) = {} THEN Sent(t) = {}
      ELSE Sent(t) # {} /\ Decides(LastSent(t), Positions(t))

(* A response with a fatal result, wherever in the merge the failure was,  *)
(* hands on the composite's object, the composed resources and the context *)
(* as they came.                                                           *)
Untouched ==
  rsp.object = req.object /\ rsp.resources = req.resources /\ rsp.context = req.context

FatalKeepsState == Fatal => Untouched

(* The inductive invariant behind it: until the context and the desired    *)
(* state are set, after which nothing fails, the response has those of the *)
(* request, and a response with a fatal result is on its way out.          *)
MergeInv ==
  /\ TypeOK
  /\ pc = "desired" => ~Fatal
  /\ pc \notin {"desired", "done"} => Untouched /\ ~Fatal
  /\ pc = "done" => Untouched \/ ~Fatal
=============================================================================
