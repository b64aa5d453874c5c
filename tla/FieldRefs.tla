------------------------------ MODULE FieldRefs ------------------------------
(***************************************************************************)
(* References to fields that may not exist yet (packages/sdk, FieldRef.ts) *)
(* and updateResource (responseUtils.ts), which is to pause a resource     *)
(* that contains a reference it had to replace by its fallback.  A         *)
(* resource is a tree of objects and arrays.                               *)
(***************************************************************************)
EXTENDS Integers, Sequences, FiniteSets, SequencesExt

CONSTANTS
  Names,     \* names of composed resources
  Classes,   \* of {"plain", "model"}: object literals, instances of SDK classes
  Widths     \* bound: entries of an object or array, from the innermost to the top

ASSUME WidthsAssumption == Widths \in Seq(Nat)

VARIABLES
  resources,   \* CrossplaneFunctionResponse.resources
  written,     \* what the function's author wrote for it
  failed       \* has updateResource thrown an error?

updateVars == <<resources, written, failed>>

(* A leaf is a value, null, a FieldRef that found its value or one that    *)
(* fell back; "default" is the fallback as a plain value.                  *)
Leaf(k) == [kind |-> k, sub |-> <<>>]
Leaves == {Leaf(k) : k \in {"value", "null", "found", "fallback", "default"}}
Inner == {"object", "array"}

(* The trees with at most so many levels below the top.                    *)
Level[d \in 0 .. Len(Widths)] ==
  IF d = 0 THEN Leaves
  ELSE Level[d - 1] \cup [kind : Inner, sub : SeqOf(Level[d - 1], Widths[d])]

Tree == Level[Len(Widths)]

(* A resource is an object.                                                *)
Written == {t \in Tree : t.kind = "object"}

NoResource == [class |-> "none", body |-> Leaf("null"), paused |-> FALSE]

UpdateInit ==
  /\ resources = [n \in Names |-> NoResource]
  /\ written = [n \in Names |-> Leaf("null")]
  /\ failed = FALSE

-----------------------------------------------------------------------------
(* The operators with an argument "of" are one call of a recursive         *)
(* function; "of" has the results of the calls it makes.                   *)

(* Faulty variant: arrays are taken as they are.                           *)
ProcessObjectsOnly(t, of) ==
  CASE t.kind = "found" -> Leaf("value")
    [] t.kind = "fallback" -> Leaf("default")
    [] t.kind = "object" -> [t EXCEPT !.sub = [i \in DOMAIN t.sub |-> of[t.sub[i]]]]
    [] OTHER -> t

(* processFieldRefs: every FieldRef becomes its raw value.                 *)
Process(t, of) ==
  CASE t.kind = "found" -> Leaf("value")
    [] t.kind = "fallback" -> Leaf("default")
    [] t.kind \in Inner -> [t EXCEPT !.sub = [i \in DOMAIN t.sub |-> of[t.sub[i]]]]
    [] OTHER -> t

ProcessFieldRefs[t \in Tree] == Process(t, ProcessFieldRefs)

(* The first verdict that ends a loop.                                     *)
First(verdicts) ==
  LET ends == {i \in DOMAIN verdicts : verdicts[i] # "clean"}
  IN IF ends = {} THEN "clean" ELSE verdicts[CHOOSE i \in ends : \A j \in ends : i <= j]

(* Faulty variant: the loop does not descend into objects.                 *)
VerdictAtTop(v, of) ==
  CASE v.kind = "fallback" -> "broken"
    [] v.kind = "array" -> First([j \in DOMAIN v.sub |-> of[v.sub[j]]])
    [] OTHER -> "clean"

(* What the value of a key is to areFieldRefsBroken.                       *)
Verdict(v, of) ==
  CASE v.kind = "fallback" -> "broken"
    [] v.kind = "array" -> First([j \in DOMAIN v.sub |-> of[v.sub[j]]])
    [] v.kind = "object" -> of[v]
    [] OTHER -> "clean"

(* areFieldRefsBroken.  Object.keys throws for null, and yields no         *)
(* FieldRef for a value or for a FieldRef itself, which is a String: only  *)
(* the values under a key are asked canResolve.                            *)
AreFieldRefsBroken[t \in Tree] ==
  IF t.kind = "null" THEN "throws"
  ELSE First([i \in DOMAIN t.sub |-> Verdict(t.sub[i], AreFieldRefsBroken)])

-----------------------------------------------------------------------------

(* The constructor of a class made by withFieldRefsClassFactory resolves   *)
(* the references; an object literal keeps them.                           *)
Construct(c, t) == IF c = "model" THEN ProcessFieldRefs[t] ELSE t

(* toJSON of a model makes a new object.                                   *)
Plain(c, body) == IF c = "model" THEN ProcessFieldRefs[body] ELSE body

(* The annotation is set on the plain object.  What is stored is the       *)
(* argument, which is the same object only if it has no toJSON.            *)
UpdateResource(n, c, t) ==
  LET body == Construct(c, t)
      verdict == AreFieldRefsBroken[Plain(c, body)]
  IN \/ /\ verdict # "throws"
        /\ resources' = [resources EXCEPT ![n] =
             [class |-> c, body |-> body, paused |-> verdict = "broken" /\ c = "plain"]]
        /\ written' = [written EXCEPT ![n] = t]
        /\ UNCHANGED failed
     \/ /\ verdict = "throws"
        /\ failed' = TRUE
        /\ UNCHANGED <<resources, written>>

(* After an error the function returns nothing.  What a call stores does   *)
(* not depend on what was there, so each name is set once (a bound).       *)
UpdateNext ==
  /\ ~failed
  /\ \E n \in Names :
       /\ resources[n] = NoResource
       /\ \E c \in Classes, t \in Written : UpdateResource(n, c, t)

UpdateSpec == UpdateInit /\ [][UpdateNext]_updateVars
-----------------------------------------------------------------------------
(* Properties.                                                             *)

(* The kinds of what is in a tree, and of what is the value of a key in    *)
(* it, with only objects above.                                            *)
KindsIn[t \in Tree] == {t.kind} \cup UNION {KindsIn[t.sub[i]] : i \in DOMAIN t.sub}

UnderKeys[t \in Tree] ==
  UNION {{t.sub[i].kind} \cup (IF t.sub[i].kind = "object" THEN UnderKeys[t.sub[i]] ELSE {}) :
         i \in DOMAIN t.sub}

(* FieldRef.ts: "If the field is not found, the resource will be set with  *)
(* a wrong value, but it will be paused".  The code does it for an object  *)
(* literal, at any depth below keys of objects, and pauses nothing whose   *)
(* references have all been found.                                         *)
PausedForFallback ==
  \A n \in Names :
    /\ resources[n].class = "plain" /\ "fallback" \in UnderKeys[written[n]] => resources[n].paused
    /\ resources[n].paused => "fallback" \in KindsIn[written[n]]

(* README: a FieldRef "is resolved immediately by the JS function          *)
(* runtime": whatever nesting a model was given, what is sent has none.    *)
ModelsAreResolved ==
  \A n \in Names :
    resources[n].class = "model" =>
      /\ KindsIn[resources[n].body] \cap {"found", "fallback"} = {}
      /\ "default" \in KindsIn[resources[n].body] <=>
           KindsIn[written[n]] \cap {"fallback", "default"} # {}
=============================================================================
