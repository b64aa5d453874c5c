---------------------------- MODULE FunctionCalls ----------------------------
(***************************************************************************)
(* What ExecuteFunction promises its callers, without processes, locks or  *)
(* directories: a call carries a spec, is tried a bounded number of times  *)
(* and returns once, with what the code of its own spec computed, with the *)
(* error that its module is missing, or, when the tries are used up, with  *)
(* the last error.                                                         *)
(***************************************************************************)
EXTENDS Integers

CONSTANTS Requests, Hashes, MaxRetries

VARIABLES status, spec, tries, answer

callsVars == <<status, spec, tries, answer>>

Init ==
  /\ status = [r \in Requests |-> "idle"]
  /\ spec \in [Requests -> Hashes \cup {"nil"}]
  /\ tries = [r \in Requests |-> 0]
  /\ answer = [r \in Requests |-> "none"]

Begin(r, h) ==
  /\ status[r] = "idle"
  /\ status' = [status EXCEPT ![r] = "busy"]
  /\ spec' = [spec EXCEPT ![r] = h]
  /\ answer' = [answer EXCEPT ![r] = "none"]
  /\ UNCHANGED tries

Again(r) ==
  /\ status[r] = "busy"
  /\ tries[r] < MaxRetries
  /\ tries' = [tries EXCEPT ![r] = @ + 1]
  /\ UNCHANGED <<status, spec, answer>>

Finish(r, a) ==
  /\ status[r] = "busy"
  /\ a = "failed" => tries[r] = MaxRetries
  /\ status' = [status EXCEPT ![r] = "idle"]
  /\ tries' = [tries EXCEPT ![r] = 0]
  /\ answer' = [answer EXCEPT ![r] = a]
  /\ UNCHANGED spec

Next ==
  \E r \in Requests :
    \/ \E h \in Hashes : Begin(r, h)
    \/ Again(r)
    \/ \E a \in {spec[r], "noModule", "failed"} : Finish(r, a)

Spec == Init /\ [][Next]_callsVars
=============================================================================
