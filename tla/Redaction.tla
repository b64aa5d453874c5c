------------------------------ MODULE Redaction ------------------------------
(***************************************************************************)
(* The copy of a request or a response that is logged when the log of      *)
(* Crossplane's input and output is enabled (pkg/grpc/crossplaneio.go).    *)
(* A payload is a tree of JSON maps and arrays.                            *)
(***************************************************************************)
EXTENDS Integers, Sequences, SequencesExt, Functions

CONSTANT
  Entries    \* bound: entries of a map or array, from the innermost to the payload

ASSUME EntriesAssumption == Entries \in Seq(Nat)

VARIABLES
  payload,   \* what came in or goes out
  out        \* what redactInPlace made of its copy

ioVars == <<payload, out>>

(* Keys in lower case, by what redactInPlace compares them with: its two   *)
(* names, the fragments of looksSensitiveKey, and every other key.  Of the *)
(* latter is the proto field of connection details, which protojson gives  *)
(* by its proto name.  An entry of an array has none.                      *)
Credentials == "credentials"
Details == "connectiondetails"
ProtoDetails == "connection_details"
Fragment == "password"
Key == {Credentials, Details, ProtoDetails, Fragment, "name"}
NoKey == "none"

Scalar == [kind |-> "value", sub |-> <<>>]
Redacted == [kind |-> "REDACTED", sub |-> <<>>]

Entry(keys, trees) == [key : keys, tree : trees]

(* A key of a map occurs once.                                             *)
Distinct(entries) == \A i, j \in DOMAIN entries : entries[i].key = entries[j].key => i = j

(* The values with at most so many levels of maps and arrays.              *)
Nested[d \in 0 .. Len(Entries)] ==
  IF d = 0 THEN {Scalar, Redacted}
  ELSE Nested[d - 1] \cup
       [kind : {"array"}, sub : SeqOf(Entry({NoKey}, Nested[d - 1]), Entries[d])] \cup
       [kind : {"map"}, sub : {s \in SeqOf(Entry(Key, Nested[d - 1]), Entries[d]) : Distinct(s)}]

Json == Nested[Len(Entries)]

(* protojson makes a map of a message.                                     *)
Payloads == {t \in Json : t.kind = "map"}

IOInit == payload = Scalar /\ out = Scalar

-----------------------------------------------------------------------------

LooksSensitiveKey(k) == k = Fragment

Hides(k) == k \in {Credentials, Details} \/ LooksSensitiveKey(k)

(* Faulty variant: only values that are maps are looked into.              *)
RedactMaps(t, of) ==
  [t EXCEPT !.sub =
     [i \in DOMAIN t.sub |->
        [t.sub[i] EXCEPT !.tree =
           IF Hides(t.sub[i].key) THEN Redacted ELSE IF @.kind = "map" THEN of[@] ELSE @]]]

(* One call of redactInPlace; "of" has the results of the calls it makes.  *)
Redact(t, of) ==
  [t EXCEPT !.sub =
     [i \in DOMAIN t.sub |->
        [t.sub[i] EXCEPT !.tree = IF Hides(t.sub[i].key) THEN Redacted ELSE of[@]]]]

RedactInPlace[t \in Json] == Redact(t, RedactInPlace)

(* The protobuf message is marshalled and parsed again, so what is         *)
(* redacted is a copy.                                                     *)
LogCrossplaneProto(t) ==
  /\ payload' = t
  /\ out' = RedactInPlace[t]

(* A payload says nothing of the next one: one is enough (a bound).        *)
IONext == payload = Scalar /\ \E t \in Payloads : LogCrossplaneProto(t)

IOSpec == IOInit /\ [][IONext]_ioVars
-----------------------------------------------------------------------------
(* Properties.                                                             *)

(* What is found in a value: the keys on the way to it and its kind.       *)
Contents[t \in Json] ==
  {[path |-> <<>>, kind |-> t.kind]} \cup
  UNION {{[path |-> <<[at |-> i, key |-> t.sub[i].key]>> \o c.path, kind |-> c.kind] :
            c \in Contents[t.sub[i].tree]} : i \in DOMAIN t.sub}

(* redactInPlace: of the values below credentials, connectionDetails or a  *)
(* key with a sensitive fragment, at any depth and through arrays, nothing *)
(* is logged but that they were there, and everything else is logged as it *)
(* is, what is below connection_details included.                          *)
RedactedByKey ==
  LET named(step) == step.key \in {Credentials, Details, Fragment}
      below(p) == \E n \in 1 .. Len(p) - 1 : named(p[n])
      hidden(p) == p # <<>> /\ named(p[Len(p)])
  IN Contents[out] =
       {[path |-> c.path, kind |-> IF hidden(c.path) THEN "REDACTED" ELSE c.kind] :
          c \in {c \in Contents[payload] : ~below(c.path)}}

(* crossplaneio.go, "It must always redact secrets" and "Connection        *)
(* details may appear in observed composite state; we redact any field     *)
(* named connectionDetails": no value of a field of connection details is  *)
(* logged, by whichever of its two names it comes.                         *)
ConnectionDetailsHidden ==
  \A c \in Contents[out] : \A n \in DOMAIN c.path :
    c.path[n].key \in {Details, ProtoDetails} => n = Len(c.path) /\ c.kind = "REDACTED"
=============================================================================
