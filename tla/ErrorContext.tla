----------------------------- MODULE ErrorContext -----------------------------
(***************************************************************************)
(* Errors with context (pkg/errors/errors.go): what is wrapped around an   *)
(* error is a new error, which shares the map of fields with the one it    *)
(* was made of.  fmt.Errorf with %w may come in between.                   *)
(***************************************************************************)
EXTENDS Integers, Sequences

CONSTANTS
  Codes,      \* error codes other than ErrorCodeUnknown
  Resources,
  Fields,     \* names of additional fields
  Values,     \* and their values
  MaxErrors   \* bound: errors that are made

VARIABLES
  errs,   \* every error made, none of which is ever changed
  maps    \* the maps of fields

vars == <<errs, maps>>

Unknown == "ERR_UNKNOWN"
None == "none"
NoFields == [f \in Fields |-> None]

(* from is history: the error it was made of, 0 for a new one, and how.    *)
Error(kind, original, code, resource, fields, from, how) ==
  [kind |-> kind, original |-> original, code |-> code, resource |-> resource,
   fields |-> fields, from |-> from, how |-> how]

Init == errs = <<>> /\ maps = <<>>

Made == DOMAIN errs
Add(e) == Len(errs) < MaxErrors /\ errs' = Append(errs, e)

(* Going down from i, each link to an earlier number: the first of ends    *)
(* that is met, 0 if none.                                                 *)
FirstOf(ends, links, i) ==
  LET way[j \in 0 .. i] == IF j = 0 \/ j \in ends THEN j ELSE way[links[j]] IN way[i]

Originals == [i \in Made |-> errs[i].original]

(* errors.As: it goes down by Unwrap.                                      *)
As(e) == FirstOf({i \in Made : errs[i].kind = "contextual"}, Originals, e)

(* Errors of other packages.                                               *)
Plain == Add(Error("plain", 0, None, None, 0, 0, <<"plain">>)) /\ UNCHANGED maps

Errorf(e) == Add(Error("fmt", e, None, None, 0, e, <<"fmt">>)) /\ UNCHANGED maps

(* New and NewWithCode; a code is any, or the unknown one.                 *)
New(code, how) ==
  /\ Add(Error("contextual", 0, code, None, Len(maps) + 1, 0, how))
  /\ maps' = Append(maps, NoFields)

GetCode(i) == IF As(i) = 0 THEN Unknown ELSE errs[As(i)].code
GetResource(i) == IF As(i) = 0 THEN None ELSE errs[As(i)].resource
GetFields(i) == IF As(i) = 0 THEN NoFields ELSE maps[errs[As(i)].fields]

(* What Wrap and its like have in common: a contextual error found in err  *)
(* is copied with what is new, and anything else becomes its original.     *)
WrapWith(e, how, code, resource) ==
  LET c == As(e)
      new == Len(maps) + 1
  IN IF c # 0
     THEN /\ Add(Error("contextual", errs[c].original, code, resource, errs[c].fields, e, how))
          /\ UNCHANGED maps
     ELSE /\ Add(Error("contextual", e, code, resource, new, e, how))
          /\ maps' = Append(maps, NoFields)

Wrap(e) == WrapWith(e, <<"wrap">>, GetCode(e), GetResource(e))
WrapWithCode(e, code) == WrapWith(e, <<"code", code>>, code, GetResource(e))
WrapWithResource(e, res) == WrapWith(e, <<"resource", res>>, GetCode(e), res)

(* Faulty variant: the field is added to the map that is there.            *)
WrapWithFieldInPlace(e, f, v) ==
  LET c == As(e)
      how == <<"field", f, v>>
  IN IF c # 0
     THEN /\ Add(Error("contextual", errs[c].original, errs[c].code, errs[c].resource,
                       errs[c].fields, e, how))
          /\ maps' = [maps EXCEPT ![errs[c].fields][f] = v]
     ELSE /\ Add(Error("contextual", e, Unknown, None, Len(maps) + 1, e, how))
          /\ maps' = Append(maps, [NoFields EXCEPT ![f] = v])

(* The map is copied before the field is added.                            *)
WrapWithField(e, f, v) ==
  LET c == As(e)
      old == IF c = 0 THEN NoFields ELSE maps[errs[c].fields]
      new == Len(maps) + 1
      how == <<"field", f, v>>
  IN /\ maps' = Append(maps, [old EXCEPT ![f] = v])
     /\ Add(IF c = 0 THEN Error("contextual", e, Unknown, None, new, e, how)
            ELSE Error("contextual", errs[c].original, errs[c].code, errs[c].resource, new, e, how))

(* errors.Is: it goes down by Unwrap, and from a contextual error by Is.   *)
Finds(i, target) == FirstOf({target}, Originals, i) # 0

Next ==
  \/ Plain
  \/ New(Unknown, <<"new">>)
  \/ \E c \in Codes : New(c, <<"code", c>>)
  \/ \E e \in Made :
       \/ Errorf(e)
       \/ Wrap(e)
       \/ \E c \in Codes : WrapWithCode(e, c)
       \/ \E r \in Resources : WrapWithResource(e, r)
       \/ \E f \in Fields, v \in Values : WrapWithField(e, f, v)

Spec == Init /\ [][Next]_vars
-----------------------------------------------------------------------------
(* Properties.                                                             *)

(* The history of an error is the errors it was made of, itself the first: *)
(* the latest of them that was made in one of these ways, and the oldest.  *)
History == [i \in Made |-> errs[i].from]
Latest(i, ways) == FirstOf({j \in Made : errs[j].how \in ways}, History, i)
Root(i) == FirstOf({j \in Made : errs[j].from = 0}, History, i)

(* What an error tells is what has been said along the errors it was made  *)
(* of, the last word of each code, resource and field, and the cause it    *)
(* began with: nothing of that is lost on the way, whatever comes in       *)
(* between, and nothing comes in that was said of another error.           *)
ContextIsItsOwn ==
  \A i \in Made :
    LET said(ways, missing) == LET j == Latest(i, ways) IN IF j = 0 THEN missing ELSE Tail(errs[j].how)
    IN /\ <<GetCode(i)>> = said({"code"} \X Codes, <<Unknown>>)
       /\ <<GetResource(i)>> = said({"resource"} \X Resources, <<None>>)
       /\ \A f \in Fields :
            <<f, GetFields(i)[f]>> = said({"field"} \X {f} \X Values, <<f, None>>)
       /\ errs[Root(i)].kind = "plain" => Finds(i, Root(i))
=============================================================================
