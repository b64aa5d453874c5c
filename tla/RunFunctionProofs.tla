-------------------------- MODULE RunFunctionProofs --------------------------
(***************************************************************************)
(* What RunFunction hands on when it fails, for any names, keys and        *)
(* condition types and for results of the user's function of any length.   *)
(***************************************************************************)
EXTENDS RunFunction, TLAPS

(* A bounded sequence is a sequence.                                       *)
LEMMA SeqOfIsSeq ==
  ASSUME NEW S, NEW n \in Nat, NEW s \in SeqOf(S, n)
  PROVE  s \in Seq(S) /\ Len(s) \in 0..n
<1>1. PICK m \in 0..n : s \in [1..m -> S]
  BY DEF SeqOf
<1>2. s \in Seq(S) /\ Len(s) = m
  BY <1>1
<1>3. QED
  BY <1>2

(* The empty sequence is a bounded one.                                    *)
LEMMA EmptyInSeqOf ==
  ASSUME NEW S, NEW n \in Nat
  PROVE  <<>> \in SeqOf(S, n)
<1>1. <<>> \in [1..0 -> S]
  OBVIOUS
<1>2. QED
  BY <1>1 DEF SeqOf

(* The lists of a function's result.                                       *)
LEMMA ListTypes ==
  ASSUME NEW f \in Responses
  PROVE  /\ f.events \in Seq({"valid", "invalid"})
         /\ f.conditions \in Seq(Conditions)
         /\ Len(f.events) \in 0..MaxEvents /\ Len(f.conditions) \in 0..MaxConditions
<1>1. f.events \in SeqOf({"valid", "invalid"}, MaxEvents)
  BY DEF Responses
<1>2. f.conditions \in SeqOf(Conditions, MaxConditions)
  BY DEF Responses
<1>3. QED
  BY <1>1, <1>2, SeqOfIsSeq, BoundsAssumption

(* No response is one with nothing in it.                                  *)
LEMMA NoResponseType == NoResponse \in Responses
<1>1. <<>> \in SeqOf({"valid", "invalid"}, MaxEvents) /\ <<>> \in SeqOf(Conditions, MaxConditions)
  BY EmptyInSeqOf, BoundsAssumption
<1>2. QED
  BY <1>1 DEF NoResponse, Responses, Parts

(* A response begins with the request's state.                             *)
LEMMA ToType ==
  ASSUME NEW r \in State
  PROVE  /\ To(r) \in Response
         /\ To(r).object = r.object /\ To(r).resources = r.resources /\ To(r).context = r.context
         /\ To(r).results = <<>>
  BY DEF To, State, Response, Writers

(* No state is one with nothing in it.                                     *)
LEMMA NoStateType == NoState \in State
  BY DEF NoState, State

(* The invariant holds before the call.                                    *)
LEMMA InitInv == Init => MergeInv
<1> SUFFICES ASSUME Init PROVE MergeInv
  OBVIOUS
<1>1. rsp \in Response /\ Untouched /\ ~Fatal
  BY ToType, NoStateType DEF Init, Untouched, Fatal
<1>2. fn \in Responses /\ at \in 1..(MaxEvents + MaxConditions + 1)
  BY NoResponseType, BoundsAssumption DEF Init
<1>3. dxr \in [object : Writers, details : [Keys -> Writers]] /\ desired \in [Names -> Writers]
  BY DEF Init, NoState, Writers
<1>4. QED
  BY <1>1, <1>2, <1>3, NoStateType DEF Init, MergeInv, TypeOK, PCs

(* Failing leaves everything but the results alone.                        *)
LEMMA FailInv ==
  ASSUME MergeInv, NEW fatals \in Seq({"event", "fatal"}), Fail(fatals),
         pc \notin {"desired", "done"}, UNCHANGED <<req, fn, dxr, desired, todo, at>>
  PROVE  MergeInv'
<1>1. rsp.results \o fatals \in Seq({"event", "fatal"})
  BY DEF MergeInv, TypeOK, Response
<1>2. rsp' \in Response /\ Untouched'
  BY <1>1 DEF Fail, MergeInv, TypeOK, Response, Untouched
<1>3. QED
  BY <1>2 DEF Fail, MergeInv, TypeOK, PCs

(* What is overwritten keeps its type.                                     *)
LEMMA OverwriteType ==
  ASSUME NEW D, NEW f \in [D -> Writers], NEW S
  PROVE  Overwrite(f, S) \in [D -> Writers]
  BY DEF Overwrite, Writers

(* A step that changes neither the request nor what a failing call hands   *)
(* on, and adds no fatal result.                                           *)
Harmless ==
  /\ rsp' \in Response
  /\ UNCHANGED req
  /\ rsp'.object = rsp.object /\ rsp'.resources = rsp.resources /\ rsp'.context = rsp.context
  /\ rsp'.results = rsp.results \/ rsp'.results = Append(rsp.results, "event")

(* A step that does not touch the response keeps the invariant.            *)
LEMMA HarmlessInv ==
  ASSUME MergeInv, Harmless, TypeOK', pc \notin {"desired", "done"}, pc' # "done"
  PROVE  MergeInv'
<1>1. ~Fatal /\ Untouched
  BY DEF MergeInv
<1>2. rsp.results \in Seq({"event", "fatal"})
  BY DEF MergeInv, TypeOK, Response
<1>3. ~Fatal'
  BY <1>1, <1>2 DEF Harmless, Fatal
<1>4. Untouched'
  BY <1>1 DEF Harmless, Untouched
<1>5. QED
  BY <1>3, <1>4 DEF MergeInv

(* So do the steps before the merge.                                       *)
LEMMA PreludeInv ==
  ASSUME MergeInv,
         \/ Receive \/ ParseInput \/ PrepareResources \/ CreateEnhancedInput
         \/ ExecuteFunction \/ ProcessResult
  PROVE  MergeInv'
<1>1. ASSUME Receive PROVE MergeInv'
  <2>1. rsp' \in Response /\ Untouched' /\ ~Fatal'
    BY <1>1, ToType DEF Receive, Untouched, Fatal
  <2>2. QED
    BY <1>1, <2>1 DEF Receive, MergeInv, TypeOK, PCs
<1>2. ASSUME PrepareResources PROVE MergeInv'
  <2>1. dxr' \in [object : Writers, details : [Keys -> Writers]] /\ desired' \in [Names -> Writers]
    BY <1>2 DEF PrepareResources, MergeInv, TypeOK, State, Writers
  <2>2. QED
    BY <1>2, <2>1 DEF PrepareResources, MergeInv, TypeOK, PCs, Untouched, Fatal
<1>3. ASSUME ParseInput \/ CreateEnhancedInput \/ ExecuteFunction PROVE MergeInv'
  BY <1>3 DEF ParseInput, CreateEnhancedInput, ExecuteFunction, MergeInv, TypeOK, PCs, Untouched, Fatal
<1>4. ASSUME ProcessResult PROVE MergeInv'
  <2>1. fn' \in Responses
    BY <1>4 DEF ProcessResult, JSResponse
  <2>2. QED
    BY <1>4, <2>1 DEF ProcessResult, MergeInv, TypeOK, PCs, Untouched, Fatal
<1>5. QED
  BY <1>1, <1>2, <1>3, <1>4

(* Every way out with an error.                                            *)
LEMMA FailuresInv ==
  ASSUME MergeInv,
         \/ StageFails \/ CompositeBroken \/ EventInvalid \/ ConditionReserved
         \/ \E n \in Names : ResourceBroken(n)
  PROVE  MergeInv'
<1>1. <<"fatal">> \in Seq({"event", "fatal"}) /\ <<"fatal", "fatal">> \in Seq({"event", "fatal"})
  OBVIOUS
<1>2. PICK fatals \in {<<"fatal">>, <<"fatal", "fatal">>} :
        Fail(fatals) /\ pc \notin {"desired", "done"} /\ UNCHANGED <<req, fn, dxr, desired, todo, at>>
  BY DEF StageFails, CompositeBroken, EventInvalid, ConditionReserved, ResourceBroken
<1>3. QED
  BY <1>1, <1>2, FailInv

(* The merge of the parts: connection details are the only part of the     *)
(* request's state that is written before nothing can fail any more.       *)
LEMMA PartsInv ==
  ASSUME MergeInv,
         \/ ProcessComposite \/ ResourcesDone \/ SetEvent \/ SetRequirements \/ SetCondition
         \/ \E n \in Names : ProcessResource(n)
  PROVE  MergeInv'
<1> USE DEF MergeInv, TypeOK
<1>0. /\ rsp.details \in [Keys -> Writers] /\ dxr.details \in [Keys -> Writers]
      /\ fn.events \in Seq({"valid", "invalid"}) /\ fn.conditions \in Seq(Conditions)
      /\ Len(fn.events) \in 0..MaxEvents /\ Len(fn.conditions) \in 0..MaxConditions
  BY ListTypes DEF Response
<1>1. ASSUME ProcessComposite PROVE MergeInv'
  <2>1. Overwrite(rsp.details, fn.details) \in [Keys -> Writers]
        /\ Overwrite(dxr.details, fn.details) \in [Keys -> Writers]
    BY <1>0, OverwriteType
  <2>2. rsp' \in Response /\ Harmless
    BY <1>1, <2>1 DEF ProcessComposite, Response, Harmless
  <2>3. dxr' \in [object : Writers, details : [Keys -> Writers]]
    BY <1>1, <2>1 DEF ProcessComposite, Writers
  <2>4. TypeOK' /\ pc \notin {"desired", "done"} /\ pc' # "done"
    BY <1>1, <2>2, <2>3 DEF ProcessComposite, PCs
  <2>5. QED
    BY <2>2, <2>4, HarmlessInv
<1>2. ASSUME NEW n \in Names, ProcessResource(n) PROVE MergeInv'
  <2>1. Overwrite(rsp.details, fn.named) \in [Keys -> Writers]
        /\ Overwrite(dxr.details, fn.named) \in [Keys -> Writers]
    BY <1>0, OverwriteType
  <2>2. rsp' \in Response /\ Harmless
    <3>1. rsp' = [rsp EXCEPT !.details = rsp'.details]
          /\ rsp'.details \in {rsp.details, Overwrite(rsp.details, fn.named)}
      BY <1>2 DEF ProcessResource, WriteDetails, Response
    <3>2. rsp'.details \in [Keys -> Writers]
      BY <2>1, <3>1 DEF Response
    <3>3. QED
      BY <1>2, <3>1, <3>2 DEF ProcessResource, Response, Harmless
  <2>3. dxr' \in [object : Writers, details : [Keys -> Writers]]
    BY <1>2, <2>1 DEF ProcessResource, WriteDetails
  <2>4. desired' \in [Names -> Writers]
    BY <1>2 DEF ProcessResource, Writers
  <2>5. TypeOK' /\ pc \notin {"desired", "done"} /\ pc' # "done"
    BY <1>2, <2>2, <2>3, <2>4 DEF ProcessResource
  <2>6. QED
    BY <2>2, <2>5, HarmlessInv
<1>3. ASSUME ResourcesDone PROVE MergeInv'
  <2>1. TypeOK' /\ Harmless
    BY <1>3, BoundsAssumption DEF ResourcesDone, PCs, Harmless
  <2>2. QED
    BY <1>3, <2>1, HarmlessInv DEF ResourcesDone
<1>4. ASSUME SetEvent PROVE MergeInv'
  <2>0. Append(rsp.results, "event") \in Seq({"event", "fatal"})
    BY DEF Response
  <2>1. rsp' \in Response /\ Harmless
    BY <1>4, <2>0 DEF SetEvent, Response, Harmless
  <2>2. at' \in 1..(MaxEvents + MaxConditions + 1)
    BY <1>0, <1>4, BoundsAssumption DEF SetEvent
  <2>3. QED
    BY <1>4, <2>1, <2>2, HarmlessInv DEF SetEvent
<1>5. ASSUME SetRequirements PROVE MergeInv'
  <2>1. rsp' \in Response /\ Harmless
    BY <1>5 DEF SetRequirements, Response, Responses, Harmless
  <2>2. TypeOK'
    BY <1>5, <2>1, BoundsAssumption DEF SetRequirements, PCs
  <2>3. QED
    BY <1>5, <2>1, <2>2, HarmlessInv DEF SetRequirements
<1>6. ASSUME SetCondition PROVE MergeInv'
  <2>1. at \in 1..MaxConditions /\ rsp.conditions \in Seq(1..MaxConditions)
    BY <1>0, <1>6, BoundsAssumption DEF SetCondition, Response
  <2>2. Append(rsp.conditions, at) \in Seq(1..MaxConditions)
    BY <2>1
  <2>3. rsp' \in Response /\ Harmless
    BY <1>6, <2>2 DEF SetCondition, Response, Harmless
  <2>4. at' \in 1..(MaxEvents + MaxConditions + 1)
    BY <1>6, <2>1, BoundsAssumption DEF SetCondition
  <2>5. QED
    BY <1>6, <2>3, <2>4, HarmlessInv DEF SetCondition
<1>7. QED
  BY <1>1, <1>2, <1>3, <1>4, <1>5, <1>6

(* The end of a call that succeeds, and the next call.                     *)
LEMMA EndInv ==
  ASSUME MergeInv, ProcessContext \/ SetDesired \/ Return
  PROVE  MergeInv'
<1> USE DEF MergeInv, TypeOK
<1>1. ASSUME ProcessContext PROVE MergeInv'
  <2>1. Overwrite(rsp.context, fn.context) \in [Keys -> Writers]
    BY OverwriteType DEF Response
  <2>2. rsp' \in Response /\ rsp'.results = rsp.results
    BY <1>1, <2>1 DEF ProcessContext, Response
  <2>3. QED
    BY <1>1, <2>2 DEF ProcessContext, PCs, Fatal
<1>2. ASSUME SetDesired PROVE MergeInv'
  <2>1. rsp' \in Response /\ rsp'.results = rsp.results
    BY <1>2 DEF SetDesired, Response
  <2>2. QED
    BY <1>2, <2>1 DEF SetDesired, PCs, Fatal
<1>3. ASSUME Return PROVE MergeInv'
  <2>1. Init'
    BY <1>3 DEF Return, Init
  <2>2. QED
    BY <2>1, InitInv, PTL
<1>4. QED
  BY <1>1, <1>2, <1>3

(* So does every step.                                                     *)
LEMMA NextInv ==
  ASSUME MergeInv, [Next]_vars
  PROVE  MergeInv'
<1>1. CASE UNCHANGED vars
  BY <1>1 DEF vars, MergeInv, TypeOK, Untouched, Fatal
<1>2. CASE Next
  BY <1>2, PreludeInv, FailuresInv, PartsInv, EndInv DEF Next, BuildResponse
<1>3. QED
  BY <1>1, <1>2

(* The invariant, and with it the types, hold in every reachable state.    *)
THEOREM Merge == Spec => []MergeInv
<1>1. QED
  BY InitInv, NextInv, PTL DEF Spec

(* buildResponse, handler.go: whichever part cannot be merged, a response  *)
(* with a fatal result hands on the composite's object, the composed       *)
(* resources and the context of the request.                               *)
THEOREM FailuresKeepState == Spec => []FatalKeepsState
<1>1. MergeInv => FatalKeepsState
  BY DEF MergeInv, FatalKeepsState
<1>2. QED
  BY <1>1, Merge, PTL

-----------------------------------------------------------------------------
(* What a success delivers: how far the merge has come, in each stage.     *)

(* The composite resource and the resources visited are merged, and with   *)
(* the resource named "composite" its connection details.                  *)
Visited == GivenNames(fn) \ todo
ResourcesMerged ==
  /\ fn.composite # "broken"
  /\ dxr.object = IF fn.composite = "given" THEN "function" ELSE req.object
  /\ dxr.details =
       Overwrite(req.details, fn.details \cup IF "composite" \in Visited THEN fn.named ELSE {})
  /\ desired = Overwrite(req.resources, Visited)
  /\ \A n \in Names \ todo : fn.resources[n] # "broken"

(* The first n events are valid and are all the results there are.         *)
EventsMerged(n) ==
  /\ n \in 0..Len(fn.events)
  /\ rsp.results = [i \in 1..n |-> "event"]
  /\ \A i \in 1..n : fn.events[i] = "valid"

ConditionsLawful(n) ==
  n \in 0..Len(fn.conditions) /\ \A i \in 1..n : fn.conditions[i].type \notin Reserved

Before == {"parse", "prepare", "enhance", "execute", "process", "composite"}
Prepared == {"enhance", "execute", "process", "composite"}
Merging == {"resources", "events", "conditions", "desired"}

DeliverInv ==
  /\ fn \in JSResponse
  /\ pc \in Before => rsp = To(req)
  /\ pc \in Prepared => dxr = [object |-> req.object, details |-> req.details] /\ desired = req.resources
  /\ pc \in Merging => ResourcesMerged
  /\ pc \in Merging \ {"resources"} => todo = {}
  /\ pc = "resources" => rsp.results = <<>>
  /\ pc = "events" => EventsMerged(at - 1)
  /\ pc \in {"conditions", "desired"} =>
       EventsMerged(Len(fn.events)) /\ rsp.requirement = fn.requirement
  /\ pc = "conditions" => ConditionsLawful(at - 1)
  /\ pc = "desired" =>
       /\ ConditionsLawful(Len(fn.conditions))
       /\ rsp.context = Overwrite(req.context, fn.context)
       /\ rsp.resources = req.resources
  /\ SuccessDelivers

(* To write twice is to write what either writes.                          *)
LEMMA OverwriteTwice ==
  ASSUME NEW D, NEW f, DOMAIN f = D, NEW S, NEW T
  PROVE  Overwrite(Overwrite(f, S), T) = Overwrite(f, S \cup T)
BY DEF Overwrite

(* Nothing written is nothing changed.                                     *)
LEMMA OverwriteNone ==
  ASSUME NEW D, NEW R, NEW f \in [D -> R]
  PROVE  Overwrite(f, {}) = f
BY DEF Overwrite

(* One element more at the end of the results.                             *)
LEMMA OneMore ==
  ASSUME NEW n \in Nat
  PROVE  Append([i \in 1..n |-> "event"], "event") = [i \in 1..(n + 1) |-> "event"]
<1> DEFINE s == [i \in 1..n |-> "event"]
           t == [i \in 1..(n + 1) |-> "event"]
<1>1. s \in Seq({"event"}) /\ Len(s) = n
  OBVIOUS
<1>2. t \in Seq({"event"}) /\ Len(t) = n + 1
  OBVIOUS
<1>3. Append(s, "event") \in Seq({"event"}) /\ Len(Append(s, "event")) = n + 1
  BY <1>1
<1>4. \A i \in 1..(n + 1) : Append(s, "event")[i] = t[i]
  BY <1>1
<1> QED BY <1>2, <1>3, <1>4

(* No response is one a function could send.                               *)
LEMMA NoResponseIsJS == NoResponse \in JSResponse
BY NoResponseType DEF JSResponse, NoResponse

(* The request's maps, as functions.                                       *)
LEMMA RequestMaps ==
  ASSUME MergeInv
  PROVE  /\ req.details \in [Keys -> {"none", "earlier"}]
         /\ req.resources \in [Names -> {"none", "earlier"}]
         /\ req.context \in [Keys -> {"none", "earlier"}]
BY DEF MergeInv, TypeOK, State

(* Nothing is to be delivered before the call.                             *)
LEMMA InitDelivers == Init => DeliverInv
BY NoResponseIsJS DEF Init, DeliverInv, Before, Prepared, Merging, SuccessDelivers

(* A step that fails leaves nothing to deliver.                            *)
LEMMA FailureDelivers ==
  ASSUME MergeInv, DeliverInv,
         \/ StageFails \/ CompositeBroken \/ EventInvalid \/ ConditionReserved
         \/ \E n \in Names : ResourceBroken(n)
  PROVE  DeliverInv'
<1>1. PICK fatals \in {<<"fatal">>, <<"fatal", "fatal">>} : Fail(fatals) /\ UNCHANGED fn
  BY DEF StageFails, CompositeBroken, EventInvalid, ConditionReserved, ResourceBroken
<1>2. rsp'.results = rsp.results \o fatals /\ rsp.results \in Seq({"event", "fatal"})
  BY <1>1 DEF Fail, MergeInv, TypeOK, Response
<1>3. fatals \in Seq({"event", "fatal"}) /\ Len(fatals) >= 1 /\ fatals[1] = "fatal"
  <2>1. CASE fatals = <<"fatal">>
    BY <2>1
  <2>2. CASE fatals = <<"fatal", "fatal">>
    BY <2>2
  <2> QED BY <2>1, <2>2
<1>4. Len(rsp.results) + 1 \in DOMAIN rsp'.results /\ rsp'.results[Len(rsp.results) + 1] = "fatal"
  BY <1>2, <1>3
<1>5. Fatal' /\ pc' = "done"
  BY <1>1, <1>4 DEF Fatal, Fail
<1> QED BY <1>1, <1>5 DEF DeliverInv, Before, Prepared, Merging, SuccessDelivers

(* Until the merge begins the response is the request's.                   *)
LEMMA PreludeDelivers ==
  ASSUME MergeInv, DeliverInv,
         \/ Receive \/ ParseInput \/ PrepareResources \/ CreateEnhancedInput
         \/ ExecuteFunction \/ ProcessResult
  PROVE  DeliverInv'
<1> USE DEF DeliverInv, Before, Prepared, Merging, SuccessDelivers
<1>1. CASE Receive
  BY <1>1 DEF Receive
<1>2. CASE ParseInput
  BY <1>2 DEF ParseInput
<1>3. CASE PrepareResources
  BY <1>3 DEF PrepareResources
<1>4. CASE CreateEnhancedInput
  BY <1>4 DEF CreateEnhancedInput
<1>5. CASE ExecuteFunction
  BY <1>5 DEF ExecuteFunction
<1>6. CASE ProcessResult
  BY <1>6 DEF ProcessResult
<1> QED BY <1>1, <1>2, <1>3, <1>4, <1>5, <1>6

(* The composite resource is merged, and no other resource is yet.         *)
LEMMA CompositeDelivers ==
  ASSUME MergeInv, DeliverInv, ProcessComposite
  PROVE  DeliverInv'
<1>1. /\ rsp = To(req) /\ desired = req.resources
      /\ dxr = [object |-> req.object, details |-> req.details]
  BY DEF DeliverInv, ProcessComposite, Before, Prepared
<1>2. rsp'.results = <<>>
  <2>1. rsp.results = <<>>
    BY <1>1 DEF To
  <2> QED BY <2>1 DEF ProcessComposite, MergeInv, TypeOK, Response
<1>3. fn \in JSResponse /\ UNCHANGED <<req, fn, desired>> /\ pc' = "resources"
  BY DEF DeliverInv, ProcessComposite
<1>4. Visited' = {}
  BY DEF Visited, GivenNames, ProcessComposite
<1>5. desired' = Overwrite(req.resources, {})
  BY <1>1, <1>3, OverwriteNone, RequestMaps
<1>6. dxr'.object = IF fn.composite = "given" THEN "function" ELSE req.object
  BY <1>1 DEF ProcessComposite
<1>7. dxr'.details = Overwrite(req.details, fn.details)
  <2>1. CASE fn.composite = "given"
    BY <1>1, <2>1 DEF ProcessComposite
  <2>2. CASE fn.composite # "given"
    <3>1. fn.details = {} /\ dxr'.details = req.details
      BY <1>1, <1>3, <2>2 DEF JSResponse, ProcessComposite
    <3> QED BY <3>1, OverwriteNone, RequestMaps
  <2> QED BY <2>1, <2>2
<1>8. fn.composite # "broken" /\ \A n \in Names \ todo' : fn.resources[n] # "broken"
  BY DEF ProcessComposite
<1>9. fn.details \cup (IF "composite" \in {} THEN fn.named ELSE {}) = fn.details
  OBVIOUS
<1>10. ResourcesMerged'
  BY <1>3, <1>4, <1>5, <1>6, <1>7, <1>8, <1>9 DEF ResourcesMerged
<1> QED BY <1>2, <1>3, <1>10 DEF DeliverInv, Before, Prepared, Merging, SuccessDelivers

(* A resource is merged, with the details it may bring for the composite.  *)
LEMMA ResourceDelivers ==
  ASSUME MergeInv, DeliverInv, NEW n \in Names, ProcessResource(n)
  PROVE  DeliverInv'
<1>1. ResourcesMerged /\ rsp.results = <<>> /\ fn \in JSResponse
  BY DEF DeliverInv, ProcessResource, Merging
<1>2. UNCHANGED <<pc, req, fn, at>> /\ pc = "resources" /\ todo' = todo \ {n} /\ n \in todo
  BY DEF ProcessResource
<1>3. rsp'.results = <<>>
  BY <1>1 DEF ProcessResource, WriteDetails, MergeInv, TypeOK, Response
<1>4. Visited' = Visited \cup {n} /\ n \notin Visited
  BY <1>2 DEF Visited, GivenNames, ProcessResource
<1>5. desired' = Overwrite(req.resources, Visited \cup {n})
  <2>1. desired' = Overwrite(desired, {n})
    BY DEF ProcessResource, Overwrite, MergeInv, TypeOK
  <2> QED BY <1>1, <2>1, OverwriteTwice DEF ResourcesMerged
<1>6. dxr'.object = dxr.object
  BY DEF ProcessResource, WriteDetails, MergeInv, TypeOK
<1>7. dxr'.details =
        Overwrite(req.details, fn.details \cup IF "composite" \in Visited \cup {n} THEN fn.named ELSE {})
  <2>1. CASE n = "composite"
    <3>1. dxr.details = Overwrite(req.details, fn.details \cup {})
      BY <1>1, <1>4, <2>1 DEF ResourcesMerged
    <3>2. dxr'.details = Overwrite(dxr.details, fn.named)
      BY <2>1 DEF ProcessResource, WriteDetails, MergeInv, TypeOK
    <3>3. dxr'.details = Overwrite(req.details, (fn.details \cup {}) \cup fn.named)
      BY <3>1, <3>2, OverwriteTwice
    <3>4. (fn.details \cup {}) \cup fn.named = fn.details \cup fn.named
      OBVIOUS
    <3> QED BY <2>1, <3>3, <3>4
  <2>2. CASE n # "composite"
    BY <1>1, <2>2 DEF ProcessResource, ResourcesMerged
  <2> QED BY <2>1, <2>2
<1>8. \A m \in Names \ todo' : fn.resources[m] # "broken"
  BY <1>1, <1>2 DEF ProcessResource, ResourcesMerged
<1>9. ResourcesMerged'
  BY <1>1, <1>2, <1>4, <1>5, <1>6, <1>7, <1>8 DEF ResourcesMerged
<1> QED BY <1>1, <1>2, <1>3, <1>9 DEF DeliverInv, Before, Prepared, Merging, SuccessDelivers

(* What SetEvents, SetRequirements, SetConditions and processContext do    *)
(* leaves the resources merged.                                            *)
LEMMA MergedStays ==
  ASSUME ResourcesMerged, UNCHANGED <<req, fn, dxr, desired, todo>>
  PROVE  ResourcesMerged'
BY DEF ResourcesMerged, Visited, GivenNames

(* The events, one after the other.                                        *)
LEMMA EventsDeliver ==
  ASSUME MergeInv, DeliverInv, ResourcesDone \/ SetEvent \/ SetRequirements
  PROVE  DeliverInv'
<1> USE DEF Before, Prepared, Merging, SuccessDelivers
<1>0. ResourcesMerged /\ fn \in JSResponse /\ UNCHANGED <<req, fn, dxr, desired, todo>>
  BY DEF DeliverInv, ResourcesDone, SetEvent, SetRequirements
<1>1. ResourcesMerged'
  BY <1>0, MergedStays
<1>2. /\ Len(fn.events) \in Nat /\ Len(fn.conditions) \in Nat /\ at \in Nat
      /\ fn.events \in Seq({"valid", "invalid"})
  BY ListTypes, BoundsAssumption DEF MergeInv, TypeOK
<1>3. CASE ResourcesDone
  <2>1. rsp'.results = [i \in 1..0 |-> "event"]
    BY <1>3 DEF ResourcesDone, DeliverInv
  <2>2. EventsMerged(at - 1)'
    BY <1>2, <1>3, <2>1 DEF ResourcesDone, EventsMerged
  <2> QED BY <1>0, <1>1, <1>3, <2>2 DEF ResourcesDone, DeliverInv
<1>4. CASE SetEvent
  <2>1. EventsMerged(at - 1) /\ at <= Len(fn.events) /\ fn.events[at] = "valid" /\ at' = at + 1
    BY <1>4 DEF SetEvent, DeliverInv
  <2>2. rsp'.results = Append(rsp.results, "event")
    BY <1>4 DEF SetEvent, MergeInv, TypeOK, Response
  <2>3. at - 1 \in Nat /\ (at - 1) + 1 = at /\ at' - 1 = at
    BY <1>2, <2>1 DEF EventsMerged
  <2>4. rsp'.results = [i \in 1..at |-> "event"]
    BY <2>1, <2>2, <2>3, OneMore DEF EventsMerged
  <2>5. at \in 0..Len(fn.events) /\ \A i \in 1..at : fn.events[i] = "valid"
    BY <1>2, <2>1, <2>3 DEF EventsMerged
  <2>6. EventsMerged(at - 1)'
    BY <1>0, <2>3, <2>4, <2>5 DEF EventsMerged
  <2> QED BY <1>0, <1>1, <1>4, <2>6 DEF SetEvent, DeliverInv
<1>5. CASE SetRequirements
  <2>1. EventsMerged(at - 1) /\ at > Len(fn.events)
    BY <1>5 DEF SetRequirements, DeliverInv
  <2>2. EventsMerged(Len(fn.events))
    <3>1. at - 1 = Len(fn.events)
      BY <1>2, <2>1 DEF EventsMerged
    <3> QED BY <2>1, <3>1
  <2>3. rsp'.results = rsp.results /\ rsp'.requirement = fn.requirement
    BY <1>5 DEF SetRequirements, MergeInv, TypeOK, Response
  <2>4. EventsMerged(Len(fn.events))'
    BY <1>0, <2>2, <2>3 DEF EventsMerged
  <2>5. ConditionsLawful(at - 1)'
    BY <1>0, <1>2, <1>5 DEF SetRequirements, ConditionsLawful
  <2> QED BY <1>0, <1>1, <1>5, <2>3, <2>4, <2>5 DEF SetRequirements, DeliverInv
<1> QED BY <1>3, <1>4, <1>5

(* The conditions, one after the other, and the context.                   *)
LEMMA ConditionsDeliver ==
  ASSUME MergeInv, DeliverInv, SetCondition \/ ProcessContext
  PROVE  DeliverInv'
<1> USE DEF Before, Prepared, Merging, SuccessDelivers
<1>0. /\ ResourcesMerged /\ fn \in JSResponse /\ UNCHANGED <<req, fn, dxr, desired, todo>>
      /\ todo = {} /\ EventsMerged(Len(fn.events)) /\ rsp.requirement = fn.requirement
      /\ ConditionsLawful(at - 1)
  BY DEF DeliverInv, SetCondition, ProcessContext
<1>1. ResourcesMerged'
  BY <1>0, MergedStays
<1>2. Len(fn.conditions) \in Nat /\ at \in Nat
  BY ListTypes, BoundsAssumption DEF MergeInv, TypeOK
<1>3. rsp'.results = rsp.results /\ rsp'.requirement = rsp.requirement /\ rsp'.resources = rsp.resources
  BY DEF SetCondition, ProcessContext, MergeInv, TypeOK, Response
<1>4. EventsMerged(Len(fn.events))'
  BY <1>0, <1>3 DEF EventsMerged
<1>5. CASE SetCondition
  <2>1. ConditionsLawful(at - 1)'
    BY <1>0, <1>2, <1>5 DEF SetCondition, ConditionsLawful
  <2> QED BY <1>0, <1>1, <1>3, <1>4, <1>5, <2>1 DEF SetCondition, DeliverInv
<1>6. CASE ProcessContext
  <2>1. rsp.context = req.context /\ rsp.resources = req.resources
    BY <1>6 DEF ProcessContext, MergeInv, Untouched
  <2>2. rsp'.context = Overwrite(req.context, fn.context)
    BY <1>6, <2>1 DEF ProcessContext, MergeInv, TypeOK, Response
  <2>3. ConditionsLawful(Len(fn.conditions))'
    BY <1>0, <1>2, <1>6 DEF ProcessContext, ConditionsLawful
  <2> QED BY <1>0, <1>1, <1>3, <1>4, <1>6, <2>1, <2>2, <2>3 DEF ProcessContext, DeliverInv
<1> QED BY <1>5, <1>6

(* Everything has been merged when the desired state is set.               *)
LEMMA DesiredDelivers ==
  ASSUME MergeInv, DeliverInv, SetDesired
  PROVE  DeliverInv'
<1>0. /\ ResourcesMerged /\ fn \in JSResponse /\ UNCHANGED <<req, fn>> /\ pc' = "done"
      /\ todo = {} /\ EventsMerged(Len(fn.events)) /\ rsp.requirement = fn.requirement
      /\ ConditionsLawful(Len(fn.conditions)) /\ rsp.resources = req.resources
      /\ rsp.context = Overwrite(req.context, fn.context)
  BY DEF DeliverInv, SetDesired, Merging
<1>1. /\ rsp'.object = dxr.object /\ rsp'.details = dxr.details
      /\ rsp'.resources = [n \in Names |-> IF desired[n] = "none" THEN rsp.resources[n] ELSE desired[n]]
      /\ rsp'.context = rsp.context /\ rsp'.results = rsp.results /\ rsp'.requirement = rsp.requirement
  BY DEF SetDesired, MergeInv, TypeOK, Response
<1>2. Visited = GivenNames(fn)
  BY <1>0 DEF Visited
<1>3. rsp'.resources = Overwrite(req.resources, GivenNames(fn))
  BY <1>0, <1>1, <1>2, RequestMaps DEF ResourcesMerged, Overwrite
<1>4. rsp'.details = Overwrite(req.details, fn.details \cup fn.named)
  <2>1. CASE "composite" \in GivenNames(fn)
    BY <1>0, <1>1, <1>2, <2>1 DEF ResourcesMerged
  <2>2. CASE "composite" \notin GivenNames(fn)
    <3>1. fn.named = {}
      BY <1>0, <2>2 DEF JSResponse
    <3> QED BY <1>0, <1>1, <1>2, <2>2, <3>1 DEF ResourcesMerged
  <2> QED BY <2>1, <2>2
<1>5. /\ DOMAIN fn.events = 1..Len(fn.events)
      /\ DOMAIN fn.conditions = 1..Len(fn.conditions)
  BY ListTypes DEF MergeInv, TypeOK
<1>6. SuccessDelivers'
  BY <1>0, <1>1, <1>3, <1>4, <1>5
     DEF SuccessDelivers, ResourcesMerged, EventsMerged, ConditionsLawful, GivenNames
<1> QED BY <1>0, <1>6 DEF DeliverInv, Before, Prepared, Merging

(* Every step keeps what has been merged so far.                           *)
LEMMA DeliverStep ==
  ASSUME MergeInv, DeliverInv, [Next]_vars
  PROVE  DeliverInv'
<1>1. CASE UNCHANGED vars
  BY <1>1 DEF vars, DeliverInv, Before, Prepared, Merging, SuccessDelivers, ResourcesMerged,
              Visited, GivenNames, EventsMerged, ConditionsLawful, Fatal
<1>2. CASE Return
  <2>1. Init'
    BY <1>2 DEF Return, Init
  <2> QED BY <2>1, InitDelivers, PTL
<1> QED BY <1>1, <1>2, FailureDelivers, PreludeDelivers, CompositeDelivers, ResourceDelivers,
           EventsDeliver, ConditionsDeliver, DesiredDelivers DEF Next, BuildResponse

(* RunFunction, handler.go: a response without a fatal result holds all    *)
(* the function returned and all of the request it did not overwrite, in   *)
(* whichever order Go's map iteration merged the resources.                *)
THEOREM Delivered == Spec => []SuccessDelivers
<1>1. DeliverInv => SuccessDelivers
  BY DEF DeliverInv
<1> QED BY <1>1, InitInv, NextInv, InitDelivers, DeliverStep, PTL DEF Spec

-----------------------------------------------------------------------------
(* Which condition of a type decides, as far as the loop has come.         *)

(* Of the first n conditions of type t, the one sent last decides.         *)
DecidedBy(t, n) ==
  LET P == Positions(t) \cap 1..n
  IN IF P = {} THEN Sent(t) = {}
     ELSE \E i \in Sent(t) : Decides(rsp.conditions[i], P) /\ \A j \in Sent(t) : j <= i

ForceInv ==
  /\ pc \notin {"conditions", "desired", "done"} => rsp.conditions = <<>>
  /\ pc = "conditions" =>
       /\ \A i \in DOMAIN rsp.conditions : rsp.conditions[i] < at
       /\ \A t \in Types : DecidedBy(t, at - 1)
  /\ pc \in {"desired", "done"} =>
       Fatal \/ \A t \in Types : DecidedBy(t, Len(fn.conditions))

(* A sequence over a set is one over any larger set.                       *)
LEMMA SeqOfMore ==
  ASSUME NEW S, NEW T, S \subseteq T, NEW s \in Seq(S)
  PROVE  s \in Seq(T)
<1>1. s \in [1..Len(s) -> S] /\ Len(s) \in Nat
  OBVIOUS
<1>2. s \in [1..Len(s) -> T]
  BY <1>1
<1> QED BY <1>1, <1>2

(* The conditions sent are given by their positions.                       *)
LEMMA SeqOfNumbers ==
  ASSUME MergeInv
  PROVE  rsp.conditions \in Seq(Nat)
<1>1. rsp.conditions \in Seq(1..MaxConditions) /\ 1..MaxConditions \subseteq Nat
  BY DEF MergeInv, TypeOK, Response
<1> QED BY <1>1, SeqOfMore

(* The greatest index is the one CHOOSE finds.                             *)
LEMMA LastSentIs ==
  ASSUME NEW t, NEW i \in Sent(t), \A j \in Sent(t) : j <= i, rsp.conditions \in Seq(Nat)
  PROVE  LastSent(t) = rsp.conditions[i]
<1> DEFINE Bound(k) == \A j \in Sent(t) : j <= k
<1>1. Sent(t) \subseteq Int
  BY DEF Sent
<1>2. \A k \in Sent(t) : Bound(k) => k = i
  BY <1>1
<1>3. (CHOOSE k \in Sent(t) : Bound(k)) = i
  BY <1>2
<1> QED BY <1>3 DEF LastSent

(* A condition comes after the first n of its type.                        *)
LEMMA NextPosition ==
  ASSUME MergeInv, NEW n \in Nat, n + 1 \in DOMAIN fn.conditions, NEW t
  PROVE  Positions(t) \cap 1..(n + 1) =
           (Positions(t) \cap 1..n) \cup IF fn.conditions[n + 1].type = t THEN {n + 1} ELSE {}
<1>1. DOMAIN fn.conditions \subseteq Nat \ {0}
  BY ListTypes DEF MergeInv, TypeOK
<1> QED BY <1>1 DEF Positions

(* What is sent is sent still when a condition is appended.                *)
LEMMA SentAppended ==
  ASSUME MergeInv, UNCHANGED fn, NEW c \in 1..MaxConditions,
         rsp'.conditions = Append(rsp.conditions, c), NEW t
  PROVE  /\ \A i \in DOMAIN rsp.conditions : rsp'.conditions[i] = rsp.conditions[i]
         /\ rsp'.conditions[Len(rsp.conditions) + 1] = c
         /\ \A i \in Sent(t) : i <= Len(rsp.conditions)
         /\ Sent(t)' = Sent(t) \cup
              IF fn.conditions[c].type = t THEN {Len(rsp.conditions) + 1} ELSE {}
<1>1. rsp.conditions \in Seq(1..MaxConditions)
  BY DEF MergeInv, TypeOK, Response
<1>2. /\ rsp'.conditions \in Seq(1..MaxConditions)
      /\ Len(rsp'.conditions) = Len(rsp.conditions) + 1
      /\ rsp'.conditions[Len(rsp.conditions) + 1] = c
      /\ \A i \in 1..Len(rsp.conditions) : rsp'.conditions[i] = rsp.conditions[i]
  BY <1>1
<1>3. /\ DOMAIN rsp.conditions = 1..Len(rsp.conditions)
      /\ DOMAIN rsp'.conditions = 1..(Len(rsp.conditions) + 1)
      /\ Len(rsp.conditions) \in Nat
  BY <1>1, <1>2
<1> QED BY <1>2, <1>3 DEF Sent

(* The loop's step: the condition is appended, or skipped because one of   *)
(* its type has been sent and it is not forced.                            *)
LEMMA SetConditionDecides ==
  ASSUME MergeInv, ForceInv, SetCondition
  PROVE  ForceInv'
<1>1. PICK a, s, k : a = at /\ s = fn.conditions[at].type /\ k = Len(rsp.conditions) + 1
  OBVIOUS
<1>2. /\ a \in 1..Len(fn.conditions) /\ a \in DOMAIN fn.conditions
      /\ fn.conditions \in Seq(Conditions) /\ a \in 1..MaxConditions
      /\ a - 1 \in Nat /\ (a - 1) + 1 = a
  BY <1>1, ListTypes, BoundsAssumption DEF SetCondition, MergeInv, TypeOK
<1>3. UNCHANGED fn /\ at' = a + 1 /\ at' - 1 = a /\ pc = "conditions" /\ pc' = "conditions"
  BY <1>1, <1>2 DEF SetCondition
<1>4. /\ \A i \in DOMAIN rsp.conditions : rsp.conditions[i] < a
      /\ \A t \in Types : DecidedBy(t, a - 1)
  BY <1>1, <1>3 DEF ForceInv
<1>5. rsp.conditions \in Seq(Nat)
  BY SeqOfNumbers
<1>6. s \in Types
  <2>1. fn.conditions[a] \in Conditions
    BY <1>2
  <2> QED BY <1>1, <2>1 DEF Conditions
<1>7. \A i \in DOMAIN rsp.conditions : rsp.conditions[i] \in Nat /\ rsp.conditions[i] < a
  BY <1>4, <1>5
<1>8. \A t : /\ Positions(t)' = Positions(t)
             /\ t # s => Positions(t) \cap 1..a = Positions(t) \cap 1..(a - 1)
  BY <1>1, <1>2, <1>3, NextPosition DEF Positions
<1>9. Positions(s) \cap 1..a = (Positions(s) \cap 1..(a - 1)) \cup {a}
  BY <1>1, <1>2, NextPosition
<1>10. \A i, P : Decides(i, P)' <=> Decides(i, P)
  BY <1>3 DEF Decides
<1>11. AlreadySet(s) <=> Sent(s) # {}
  BY DEF AlreadySet, Sent
<1>12. CASE AlreadySet(s) /\ ~fn.conditions[a].force
  <2>1. rsp'.conditions = rsp.conditions
    BY <1>1, <1>12 DEF SetCondition, MergeInv, TypeOK, Response
  <2>2. \A t : Sent(t)' = Sent(t)
    BY <1>3, <2>1 DEF Sent
  <2>3. PICK i \in Sent(s) : /\ Decides(rsp.conditions[i], Positions(s) \cap 1..(a - 1))
                             /\ \A j \in Sent(s) : j <= i
    BY <1>4, <1>6, <1>11, <1>12 DEF DecidedBy
  <2>4. rsp.conditions[i] < a
    BY <1>7 DEF Sent
  <2>5. Decides(rsp.conditions[i], Positions(s) \cap 1..a)
    BY <1>9, <1>12, <2>3, <2>4 DEF Decides
  <2>6. DecidedBy(s, a)'
    <3>1. Positions(s)' \cap 1..a # {}
      BY <1>8, <1>9
    <3> QED BY <1>8, <1>10, <2>1, <2>2, <2>3, <2>5, <3>1 DEF DecidedBy
  <2>7. \A t \in Types \ {s} : DecidedBy(t, a)'
    BY <1>4, <1>8, <1>10, <2>1, <2>2 DEF DecidedBy
  <2>8. \A m \in DOMAIN rsp'.conditions : rsp'.conditions[m] < at'
    BY <1>2, <1>3, <1>7, <2>1
  <2> QED BY <1>3, <2>6, <2>7, <2>8 DEF ForceInv
<1>13. CASE ~(AlreadySet(s) /\ ~fn.conditions[a].force)
  <2>1. rsp'.conditions = Append(rsp.conditions, a)
    BY <1>1, <1>13 DEF SetCondition, MergeInv, TypeOK, Response
  <2>2. \A t : /\ \A i \in DOMAIN rsp.conditions : rsp'.conditions[i] = rsp.conditions[i]
               /\ rsp'.conditions[k] = a
               /\ \A i \in Sent(t) : i <= Len(rsp.conditions)
               /\ Sent(t)' = Sent(t) \cup IF s = t THEN {k} ELSE {}
    BY <1>1, <1>2, <1>3, <2>1, SentAppended
  <2>3. Sent(s)' = Sent(s) \cup {k} /\ \A j \in Sent(s)' : j <= k
    <3>1. \A i \in Sent(s) : i \in Nat
      BY <1>5 DEF Sent
    <3> QED BY <1>1, <1>5, <2>2, <3>1
  <2>4. Decides(a, Positions(s) \cap 1..a)
    <3>1. CASE Positions(s) \cap 1..(a - 1) = {}
      BY <1>9, <3>1 DEF Decides
    <3>2. CASE Positions(s) \cap 1..(a - 1) # {}
      <4>1. fn.conditions[a].force
        BY <1>4, <1>6, <1>11, <1>13, <3>2 DEF DecidedBy
      <4>2. \A j \in Positions(s) \cap 1..(a - 1) : j < a
        BY <1>2
      <4> QED BY <1>9, <4>1, <4>2 DEF Decides
    <3> QED BY <3>1, <3>2
  <2>5. DecidedBy(s, a)'
    <3>1. Positions(s)' \cap 1..a # {}
      BY <1>8, <1>9
    <3> QED BY <1>8, <1>10, <2>2, <2>3, <2>4, <3>1 DEF DecidedBy
  <2>6. \A t \in Types \ {s} : DecidedBy(t, a)'
    <3> TAKE t \in Types \ {s}
    <3>1. Sent(t)' = Sent(t)
      BY <2>2
    <3>2. Sent(t) \subseteq DOMAIN rsp.conditions
      BY DEF Sent
    <3>3. \A i \in Sent(t) : rsp'.conditions[i] = rsp.conditions[i]
      BY <2>2, <3>2
    <3> QED BY <1>4, <1>8, <1>10, <3>1, <3>3 DEF DecidedBy
  <2>7. \A i \in DOMAIN rsp'.conditions : rsp'.conditions[i] < at'
    <3>1. DOMAIN rsp'.conditions = (DOMAIN rsp.conditions) \cup {k}
      BY <1>1, <1>2, <1>5, <2>1
    <3>2. \A i \in DOMAIN rsp.conditions : rsp'.conditions[i] < at'
      <4>1. \A i \in DOMAIN rsp.conditions : rsp'.conditions[i] = rsp.conditions[i]
        BY <2>2
      <4> QED BY <1>2, <1>3, <1>7, <4>1
    <3>3. rsp'.conditions[k] < at'
      BY <1>2, <1>3, <2>2
    <3> QED BY <3>1, <3>2, <3>3
  <2> QED BY <1>3, <2>5, <2>6, <2>7 DEF ForceInv
<1> QED BY <1>12, <1>13

(* No condition is decided before the call.                                *)
LEMMA InitForce == Init => ForceInv
BY DEF Init, ForceInv, To

(* A call that fails has nothing to decide.                                *)
LEMMA FailureForce ==
  ASSUME MergeInv, NEW fatals \in {<<"fatal">>, <<"fatal", "fatal">>}, Fail(fatals)
  PROVE  ForceInv'
<1>1. rsp'.results = rsp.results \o fatals /\ rsp.results \in Seq({"event", "fatal"})
  BY DEF Fail, MergeInv, TypeOK, Response
<1>2. fatals \in Seq({"event", "fatal"}) /\ Len(fatals) >= 1 /\ fatals[1] = "fatal"
  <2>1. CASE fatals = <<"fatal">>
    BY <2>1
  <2>2. CASE fatals = <<"fatal", "fatal">>
    BY <2>2
  <2> QED BY <2>1, <2>2
<1>3. Len(rsp.results) + 1 \in DOMAIN rsp'.results /\ rsp'.results[Len(rsp.results) + 1] = "fatal"
  BY <1>1, <1>2
<1>4. Fatal'
  BY <1>3 DEF Fatal
<1> QED BY <1>4 DEF ForceInv, Fail

(* The steps before the conditions send none.                              *)
LEMMA EarlierForce ==
  ASSUME MergeInv, ForceInv,
         \/ Receive \/ ParseInput \/ PrepareResources \/ CreateEnhancedInput \/ ExecuteFunction
         \/ ProcessResult \/ ProcessComposite \/ ResourcesDone \/ SetEvent
         \/ \E n \in Names : ProcessResource(n)
  PROVE  ForceInv'
<1>1. /\ pc \notin {"conditions", "desired", "done"}
      /\ pc' \notin {"conditions", "desired", "done"}
  BY DEF Receive, ParseInput, PrepareResources, CreateEnhancedInput, ExecuteFunction,
         ProcessResult, ProcessComposite, ResourcesDone, SetEvent, ProcessResource
<1>2. rsp.conditions = <<>>
  BY <1>1 DEF ForceInv
<1>3. CASE Receive
  <2>1. rsp'.conditions = <<>>
    BY <1>3 DEF Receive, To
  <2> QED BY <1>1, <2>1 DEF ForceInv
<1>4. CASE ~Receive
  <2>1. rsp'.conditions = rsp.conditions
    BY <1>4 DEF ParseInput, PrepareResources, CreateEnhancedInput, ExecuteFunction, ProcessResult,
                ProcessComposite, ResourcesDone, SetEvent, ProcessResource, WriteDetails,
                MergeInv, TypeOK, Response
  <2> QED BY <1>1, <1>2, <2>1 DEF ForceInv
<1> QED BY <1>3, <1>4

(* Before the first condition nothing is sent and nothing decides; after   *)
(* the last the response's conditions stay as they are.                    *)
LEMMA LaterForce ==
  ASSUME MergeInv, ForceInv, SetRequirements \/ ProcessContext \/ SetDesired
  PROVE  ForceInv'
<1>1. UNCHANGED fn /\ rsp'.conditions = rsp.conditions /\ rsp'.results = rsp.results
  BY DEF SetRequirements, ProcessContext, SetDesired, MergeInv, TypeOK, Response
<1>2. \A t, n : DecidedBy(t, n)' <=> DecidedBy(t, n)
  BY <1>1 DEF DecidedBy, Positions, Sent, Decides
<1>3. fn.conditions \in Seq(Conditions) /\ at \in Nat
  BY ListTypes, BoundsAssumption DEF MergeInv, TypeOK
<1>4. CASE SetRequirements
  <2>1. rsp.conditions = <<>> /\ pc' = "conditions" /\ at' = 1
    BY <1>4 DEF SetRequirements, ForceInv
  <2>2. \A t : Sent(t) = {} /\ Positions(t) \cap 1..0 = {}
    BY <2>1 DEF Sent
  <2>3. \A t : DecidedBy(t, 0)
    BY <2>2 DEF DecidedBy
  <2> QED BY <1>1, <1>2, <2>1, <2>3 DEF ForceInv
<1>5. CASE ProcessContext
  <2>1. \A t \in Types : DecidedBy(t, at - 1) /\ at > Len(fn.conditions) /\ pc' = "desired"
    BY <1>5 DEF ProcessContext, ForceInv
  <2>2. \A t : Positions(t) \cap 1..(at - 1) = Positions(t) \cap 1..Len(fn.conditions)
    BY <1>3, <1>5 DEF Positions, ProcessContext
  <2>3. \A t \in Types : DecidedBy(t, Len(fn.conditions))
    BY <2>1, <2>2 DEF DecidedBy
  <2> QED BY <1>1, <1>2, <1>5, <2>3 DEF ForceInv, ProcessContext
<1>6. CASE SetDesired
  <2>1. Fatal' <=> Fatal
    BY <1>1 DEF Fatal
  <2> QED BY <1>1, <1>2, <1>6, <2>1 DEF ForceInv, SetDesired
<1> QED BY <1>4, <1>5, <1>6

(* Every step keeps what is decided.                                       *)
LEMMA ForceStep ==
  ASSUME MergeInv, ForceInv, [Next]_vars
  PROVE  ForceInv'
<1>1. CASE UNCHANGED vars
  BY <1>1 DEF vars, ForceInv, DecidedBy, Positions, Sent, Decides, Fatal
<1>2. CASE Return
  <2>1. Init'
    BY <1>2 DEF Return, Init
  <2> QED BY <2>1, InitForce, PTL
<1>3. CASE \/ StageFails \/ CompositeBroken \/ EventInvalid \/ ConditionReserved
           \/ \E n \in Names : ResourceBroken(n)
  <2>1. PICK fatals \in {<<"fatal">>, <<"fatal", "fatal">>} : Fail(fatals)
    BY <1>3 DEF StageFails, CompositeBroken, EventInvalid, ConditionReserved, ResourceBroken
  <2> QED BY <2>1, FailureForce
<1> QED BY <1>1, <1>2, <1>3, EarlierForce, LaterForce, SetConditionDecides DEF Next, BuildResponse

(* SetConditions, conditions.go: of the conditions of a type, the one that *)
(* is sent last is the last forced one, or the first if none is forced;    *)
(* for lists of conditions of any length, in any order.                    *)
THEOREM ForceWins == Spec => []ForcedDecide
<1>1. MergeInv /\ ForceInv => ForcedDecide
  <2> SUFFICES ASSUME MergeInv, ForceInv, pc = "done", ~Fatal, NEW t \in Types
               PROVE  IF Positions(t) = {} THEN Sent(t) = {}
                      ELSE Sent(t) # {} /\ Decides(LastSent(t), Positions(t))
    BY DEF ForcedDecide
  <2>1. fn.conditions \in Seq(Conditions) /\ rsp.conditions \in Seq(Nat)
    BY SeqOfNumbers, ListTypes DEF MergeInv, TypeOK
  <2>2. Positions(t) \cap 1..Len(fn.conditions) = Positions(t)
    BY <2>1 DEF Positions
  <2>3. DecidedBy(t, Len(fn.conditions))
    BY DEF ForceInv
  <2> QED BY <2>1, <2>2, <2>3, LastSentIs DEF DecidedBy
<1> QED BY <1>1, InitInv, NextInv, InitForce, ForceStep, PTL DEF Spec
=============================================================================
