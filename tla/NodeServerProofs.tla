-------------------------- MODULE NodeServerProofs --------------------------
(***************************************************************************)
(* What holds of one node child for any requests, any timeouts and any     *)
(* texts in the errors of user code, checked by TLAPS.                     *)
(***************************************************************************)
EXTENDS NodeServer, TLAPS

USE DEF Off

(* The times are numbers.                                                  *)
LEMMA TimesTyped ==
  /\ ExecutionTimeout \in Nat /\ ForceExit \in Nat /\ CloseTimeout \in Nat
  /\ Delay \in Nat /\ RequestTimeout \in Nat
BY TimesAssumption

(* The words of user errors that count.                                    *)
LEMMA TextsKnown ==
  UserTexts \subseteq {"timed out", "Module import failed", "Function execution error"}
BY TimesAssumption

(* A timer is off or has some time left.                                   *)
LEMMA InRange == ASSUME NEW n \in Nat PROVE Off \in Off..n /\ n \in Off..n /\ n # Off
OBVIOUS

(* Each timer can be off or just set.                                      *)
LEMMA OffIsSmall ==
  /\ Off \in Off..ExecutionTimeout /\ Off \in Off..RequestTimeout
  /\ Off \in Off..ForceExit /\ Off \in Off..CloseTimeout /\ Off \in Off..Delay
  /\ ExecutionTimeout \in Off..ExecutionTimeout /\ RequestTimeout \in Off..RequestTimeout
  /\ ForceExit \in Off..ForceExit /\ CloseTimeout \in Off..CloseTimeout /\ Delay \in Off..Delay
<1> HIDE DEF Off
<1>1. QED  BY TimesTyped, InRange

(* The codes that an error message leads to.                               *)
LEMMA TimeoutCode == Classify({"timed out"}) = "408"
BY DEF Classify

(* A message without any of the words gives 500.                           *)
LEMMA OtherCode == Classify({}) = "500"
BY DEF Classify

(* A failed import gives 400, or 408 if the text says so.                  *)
LEMMA ImportCode ==
  ASSUME NEW m \in SUBSET UserTexts
  PROVE  Classify(m \cup {"Module import failed"}) \in {"400", "408"}
<1> DEFINE msg == m \cup {"Module import failed"}
<1>1. msg # {"Function execution error"}
  <2>1. "Module import failed" \in msg /\ "Module import failed" # "Function execution error"
    OBVIOUS
  <2>2. QED  BY <2>1
<1>2. CASE "timed out" \in msg
  BY <1>1, <1>2 DEF Classify
<1>3. CASE "timed out" \notin msg
  BY <1>1, <1>3 DEF Classify
<1>4. QED  BY <1>2, <1>3

(* An error of the function gives 422, or what its text says.              *)
LEMMA UserCode ==
  ASSUME NEW m \in SUBSET UserTexts
  PROVE  Classify(m \cup {"Function execution error"}) \in {"400", "408", "422"}
<1> DEFINE msg == m \cup {"Function execution error"}
<1>1. CASE "timed out" \in msg
  BY <1>1 DEF Classify
<1>2. CASE "timed out" \notin msg /\ "Module import failed" \in msg
  BY <1>2 DEF Classify
<1>3. CASE "timed out" \notin msg /\ "Module import failed" \notin msg
  <2>1. msg = {"Function execution error"}
    BY <1>3, TextsKnown
  <2>2. QED  BY <2>1, <1>3 DEF Classify
<1>4. QED  BY <1>1, <1>2, <1>3

(* What replaces an error without a message gives one of these codes.      *)
LEMMA UnreadableCode ==
  ASSUME NEW m \in SUBSET UserTexts
  PROVE  Classify(m) \in {"400", "408", "422", "500"}
<1>1. CASE "timed out" \in m
  <2>1. "timed out" # "Function execution error"
    OBVIOUS
  <2>2. m # {"Function execution error"}
    BY <1>1, <2>1
  <2>3. QED  BY <1>1, <2>2 DEF Classify
<1>2. CASE "timed out" \notin m /\ "Module import failed" \in m
  <2>1. "Module import failed" # "Function execution error"
    OBVIOUS
  <2>2. m # {"Function execution error"}
    BY <1>2, <2>1
  <2>3. QED  BY <1>2, <2>2 DEF Classify
<1>3. CASE m = {"Function execution error"}
  BY <1>3 DEF Classify
<1>4. CASE "timed out" \notin m /\ "Module import failed" \notin m /\ m # {"Function execution error"}
  BY <1>4 DEF Classify
<1>5. QED  BY <1>1, <1>2, <1>3, <1>4

-----------------------------------------------------------------------------
(* Types.                                                                  *)

(* The race of result and timeout keeps the types.                         *)
LEMMA RaceTyped ==
  ASSUME TypeOK, NEW r \in Requests, NEW a \in Codes, NEW c \in Causes, Race(r, a, c)
  PROVE  /\ answer' \in [Requests -> Codes]
         /\ cause' \in [Requests -> Causes]
         /\ conn' \in [Requests -> {"none", "active", "idle", "closed", "gone", "reset"}]
         /\ patience' \in [Requests -> Off..RequestTimeout]
<1> USE DEF TypeOK
<1>1. CASE answer[r] = "none"
  <2>1. answer' \in [Requests -> Codes]
    BY <1>1 DEF Race
  <2>2. cause' \in [Requests -> Causes]
    BY <1>1 DEF Race
  <2>3. conn' \in [Requests -> {"none", "active", "idle", "closed", "gone", "reset"}]
    BY <1>1 DEF Race, Respond
  <2>4. Off \in Off..RequestTimeout
    BY OffIsSmall
  <2>5. patience' \in [Requests -> Off..RequestTimeout]
    BY <1>1, <2>4 DEF Race, Respond
  <2>6. QED  BY <2>1, <2>2, <2>3, <2>5
<1>2. CASE answer[r] # "none"
  BY <1>2 DEF Race, clientVars
<1>3. QED  BY <1>1, <1>2

(* So does the end of an execution.                                        *)
LEMMA SettleTyped ==
  ASSUME TypeOK, NEW r \in Requests, NEW a \in Codes, NEW c \in Causes, Settle(r, a, c)
  PROVE  /\ exec' \in [Requests -> {"none", "received", "importing", "running", "settled"}]
         /\ timer' \in [Requests -> Off..ExecutionTimeout]
         /\ answer' \in [Requests -> Codes]
         /\ cause' \in [Requests -> Causes]
         /\ conn' \in [Requests -> {"none", "active", "idle", "closed", "gone", "reset"}]
         /\ patience' \in [Requests -> Off..RequestTimeout]
<1>1. Race(r, a, c)
  BY DEF Settle
<1>2. exec' \in [Requests -> {"none", "received", "importing", "running", "settled"}]
      /\ timer' \in [Requests -> Off..ExecutionTimeout]
  BY OffIsSmall DEF Settle, TypeOK
<1>3. QED  BY <1>1, <1>2, RaceTyped

(* What a step of the handler, the executor or the user function does to   *)
(* the request: how its execution goes on is one of these.                 *)
LEMMA HandleForms ==
  ASSUME NEW r \in Requests, Handle(r)
  PROVE  \/ Settle(r, "http500", "other")
         \/ /\ exec' = [exec EXCEPT ![r] = "importing"]
            /\ timer' = [timer EXCEPT ![r] = ExecutionTimeout]
            /\ UNCHANGED <<answer, cause, clientVars>>
BY DEF Handle

(* An error without a message ends the execution with one of these codes.  *)
LEMMA UnreadableForms ==
  ASSUME NEW r \in Requests, Unreadable(r)
  PROVE  \E a \in {"400", "408", "422", "500", "http500"} : Settle(r, a, "unreadable")
BY UnreadableCode DEF Unreadable

(* An import goes on, or ends the execution with its code.                 *)
LEMMA ImportForms ==
  ASSUME NEW r \in Requests, Import(r)
  PROVE  \/ exec' = [exec EXCEPT ![r] = "running"] /\ UNCHANGED <<timer, answer, cause, clientVars>>
         \/ \E a \in {"400", "408"} : Settle(r, a, "import")
         \/ Settle(r, "500", "other")
         \/ \E a \in {"400", "408", "422", "500", "http500"} : Settle(r, a, "unreadable")
BY ImportCode, OtherCode, UnreadableForms DEF Import

(* A function that returns ends the execution, with its result or its      *)
(* error.                                                                  *)
LEMMA ReturnForms ==
  ASSUME NEW r \in Requests, Return(r)
  PROVE  \/ Settle(r, "result", "none")
         \/ Settle(r, "http500", "other")
         \/ \E a \in {"400", "408", "422"} : Settle(r, a, "user")
         \/ \E a \in {"400", "408", "422", "500", "http500"} : Settle(r, a, "unreadable")
BY UserCode, UnreadableForms DEF Return

-----------------------------------------------------------------------------
(* The inductive invariant.                                                *)

Unanswered ==
  \A r \in Requests :
    /\ conn[r] = "none" => exec[r] = "none"
    /\ exec[r] \in {"none", "received"} => answer[r] = "none"

(* The invariant holds before the child listens.                           *)
LEMMA InitInv == Init => IndInv
<1> SUFFICES ASSUME Init PROVE IndInv
  OBVIOUS
<1>1. TypeOK
  <2> HIDE DEF Off
  <2>1. QED  BY OffIsSmall DEF Init, TypeOK, Codes, Causes
<1>2. TimerPending /\ Progress /\ CutByForce
  BY DEF Init, TimerPending, Progress, CutByForce, Alive
<1>3. QED  BY <1>1, <1>2 DEF IndInv

(* A step of one request: neither the shutdown nor the process is touched, *)
(* and no connection becomes active.                                       *)
LEMMA RequestInv ==
  ASSUME IndInv, TypeOK', TimerPending', Unanswered',
         UNCHANGED <<proc, exit, loop, shutdownVars, parent>>,
         \A s \in Requests : conn'[s] = "active" => conn[s] = "active"
  PROVE  IndInv'
<1>1. Progress'
  BY DEF IndInv, Progress, Unanswered, Alive, shutdownVars
<1>2. CutByForce'
  BY DEF IndInv, CutByForce, shutdownVars
<1>3. QED  BY <1>1, <1>2 DEF IndInv

(* Nobody connects in the race.                                            *)
LEMMA RaceQuiet ==
  ASSUME TypeOK, NEW r \in Requests, NEW a, NEW c, Race(r, a, c)
  PROVE  \A s \in Requests :
           /\ conn'[s] = "active" => conn[s] = "active"
           /\ conn'[s] = "none" => conn[s] = "none"
           /\ s # r => answer'[s] = answer[s]
           /\ answer'[r] = IF answer[r] = "none" THEN a ELSE answer[r]
BY DEF Race, Respond, TypeOK, clientVars

(* The end of an execution keeps the invariant.                            *)
LEMMA SettleInv ==
  ASSUME IndInv, NEW r \in Requests, NEW a \in Codes, NEW c \in Causes, Settle(r, a, c), exec[r] # "none",
         UNCHANGED <<proc, exit, loop, shutdownVars, parent>>
  PROVE  IndInv'
<1>1. TypeOK
  BY DEF IndInv
<1>2. TypeOK'
  BY <1>1, SettleTyped DEF TypeOK, shutdownVars
<1>3. Race(r, a, c)
  BY DEF Settle
<1>4. TimerPending'
  BY <1>1, <1>3, RaceQuiet DEF IndInv, TimerPending, TypeOK, Settle
<1>5. Unanswered'
  BY <1>1, <1>3, RaceQuiet DEF IndInv, Progress, Unanswered, TypeOK, Settle
<1>6. QED  BY <1>1, <1>2, <1>3, <1>4, <1>5, RaceQuiet, RequestInv

(* So does a request that is handled.                                      *)
LEMMA HandleInv == ASSUME IndInv, NEW r \in Requests, Handle(r) PROVE IndInv'
<1>1. UNCHANGED <<proc, exit, loop, shutdownVars, parent>> /\ exec[r] = "received"
  BY DEF Handle
<1>2. CASE Settle(r, "http500", "other")
  BY <1>1, <1>2, SettleInv DEF Codes, Causes
<1>3. CASE /\ exec' = [exec EXCEPT ![r] = "importing"]
           /\ timer' = [timer EXCEPT ![r] = ExecutionTimeout]
           /\ UNCHANGED <<answer, cause, clientVars>>
  <2>1. TypeOK'
    <3> HIDE DEF Off
    <3>1. QED  BY <1>1, <1>3, OffIsSmall DEF IndInv, TypeOK, clientVars, shutdownVars
  <2>2. ExecutionTimeout # Off
    <3> HIDE DEF Off
    <3>1. QED  BY TimesTyped, InRange
  <2>3. answer[r] = "none"
    BY <1>1 DEF IndInv, Progress
  <2>4. TimerPending'
    BY <1>3, <2>2, <2>3 DEF IndInv, TypeOK, TimerPending
  <2>5. Unanswered'
    BY <1>1, <1>3 DEF IndInv, TypeOK, Progress, Unanswered, clientVars
  <2>6. QED  BY <1>1, <1>3, <2>1, <2>4, <2>5, RequestInv DEF clientVars
<1>4. QED  BY <1>2, <1>3, HandleForms

(* So does an import.                                                      *)
LEMMA ImportInv == ASSUME IndInv, NEW r \in Requests, Import(r) PROVE IndInv'
<1>1. UNCHANGED <<proc, exit, loop, shutdownVars, parent>> /\ exec[r] = "importing"
  BY DEF Import
<1>2. CASE /\ exec' = [exec EXCEPT ![r] = "running"]
           /\ UNCHANGED <<timer, answer, cause, clientVars>>
  <2>1. TypeOK'
    BY <1>1, <1>2 DEF IndInv, TypeOK, clientVars, shutdownVars
  <2>2. TimerPending'
    BY <1>1, <1>2 DEF IndInv, TypeOK, TimerPending
  <2>3. Unanswered'
    BY <1>1, <1>2 DEF IndInv, TypeOK, Progress, Unanswered, clientVars
  <2>4. QED  BY <1>1, <1>2, <2>1, <2>2, <2>3, RequestInv DEF clientVars
<1>3. ASSUME NEW a \in {"400", "408"}, Settle(r, a, "import") PROVE IndInv'
  BY <1>1, <1>3, SettleInv DEF Codes, Causes
<1>4. CASE Settle(r, "500", "other")
  BY <1>1, <1>4, SettleInv DEF Codes, Causes
<1>5. ASSUME NEW a \in {"400", "408", "422", "500", "http500"}, Settle(r, a, "unreadable") PROVE IndInv'
  BY <1>1, <1>5, SettleInv DEF Codes, Causes
<1>6. QED  BY <1>2, <1>3, <1>4, <1>5, ImportForms

(* So does a function that returns.                                        *)
LEMMA ReturnInv == ASSUME IndInv, NEW r \in Requests, Return(r) PROVE IndInv'
<1>1. UNCHANGED <<proc, exit, loop, shutdownVars, parent>>
  BY DEF Return
<1> exec[r] # "none"
  BY DEF Return
<1>2. ASSUME NEW a \in {"400", "408", "422"}, Settle(r, a, "user") PROVE IndInv'
  BY <1>1, <1>2, SettleInv DEF Codes, Causes
<1>3. CASE Settle(r, "result", "none")
  BY <1>1, <1>3, SettleInv DEF Codes, Causes
<1>4. CASE Settle(r, "http500", "other")
  BY <1>1, <1>4, SettleInv DEF Codes, Causes
<1>5. ASSUME NEW a \in {"400", "408", "422", "500", "http500"}, Settle(r, a, "unreadable") PROVE IndInv'
  BY <1>1, <1>5, SettleInv DEF Codes, Causes
<1>6. QED  BY <1>2, <1>3, <1>4, <1>5, ReturnForms

(* So does the timeout of an execution.                                    *)
LEMMA TimeoutInv == ASSUME IndInv, NEW r \in Requests, Timeout(r) PROVE IndInv'
<1>1. /\ UNCHANGED <<exec, proc, exit, loop, shutdownVars, parent>>
      /\ timer[r] = 0 /\ timer' = [timer EXCEPT ![r] = Off]
      /\ Race(r, "408", "timeout")
  BY TimeoutCode DEF Timeout
<1>2. TypeOK /\ exec[r] \in {"importing", "running"} /\ answer[r] = "none"
  BY <1>1 DEF IndInv, TimerPending
<1>3. TypeOK'
  <2> HIDE DEF Off
  <2>1. timer' \in [Requests -> Off..ExecutionTimeout]
    BY <1>1, <1>2, OffIsSmall DEF TypeOK
  <2>2. QED  BY <1>1, <1>2, <2>1, RaceTyped DEF TypeOK, shutdownVars, Codes, Causes
<1>4. TimerPending'
  BY <1>1, <1>2, RaceQuiet DEF IndInv, TypeOK, TimerPending
<1>5. Unanswered'
  BY <1>1, <1>2, RaceQuiet DEF IndInv, TypeOK, Progress, Unanswered
<1>6. QED  BY <1>1, <1>2, <1>3, <1>4, <1>5, RaceQuiet, RequestInv

-----------------------------------------------------------------------------
(* Steps of the process, its client and its parent.                        *)

(* They leave the requests' executions and their answers alone.            *)
LEMMA ServerInv ==
  ASSUME IndInv, TypeOK', Progress', CutByForce', UNCHANGED <<exec, timer, answer>>
  PROVE  IndInv'
BY DEF IndInv, TimerPending

(* So does the end of the process.                                         *)
LEMMA ExitInv ==
  ASSUME IndInv, NEW c \in {0, 1, 9}, Exit(c),
         parent' \in {parent, "restarted", "collected"}
  PROVE  IndInv'
<1>1. TypeOK'
  BY DEF IndInv, TypeOK, Exit, requestVars, shutdownVars
<1>2. Progress'
  BY DEF IndInv, Progress, Exit, requestVars, shutdownVars, Alive
<1>3. CutByForce'
  BY DEF IndInv, CutByForce, Exit, shutdownVars
<1>4. QED  BY <1>1, <1>2, <1>3, ServerInv DEF Exit, requestVars

(* So does the start.                                                      *)
LEMMA BootInv == ASSUME IndInv, Boot PROVE IndInv'
<1>1. CASE Exit(1)
  BY <1>1, ExitInv DEF Boot
<1>2. CASE proc' = "listening" /\ UNCHANGED <<exit, conn, requestVars, patience, loop, shutdownVars>>
  <2>1. TypeOK'
    BY <1>2 DEF IndInv, TypeOK, Boot, requestVars, shutdownVars
  <2>2. Progress'
    BY <1>2 DEF IndInv, Progress, Boot, requestVars, shutdownVars, Alive
  <2>3. CutByForce'
    BY <1>2 DEF IndInv, CutByForce, shutdownVars
  <2>4. QED  BY <1>2, <2>1, <2>2, <2>3, ServerInv DEF requestVars
<1>3. QED  BY <1>1, <1>2 DEF Boot

(* Signals and their handler.                                              *)
LEMMA SignalInv == ASSUME IndInv, Signal \/ CollectTerm PROVE IndInv'
<1>1. TypeOK'
  BY DEF IndInv, TypeOK, Signal, CollectTerm, requestVars, clientVars
<1>2. Progress' /\ CutByForce'
  BY DEF IndInv, Progress, CutByForce, Signal, CollectTerm, requestVars, clientVars, Alive
<1>3. QED  BY <1>1, <1>2, ServerInv DEF Signal, CollectTerm, requestVars

(* So does the handler of the signals.                                     *)
LEMMA HandleSignalInv == ASSUME IndInv, HandleSignal PROVE IndInv'
<1>1. UNCHANGED <<exit, exec, timer, answer, cause, patience, loop, parent>> /\ signal' = FALSE
  BY DEF HandleSignal, requestVars
<1>2. CASE shutdown # "no" /\ UNCHANGED <<proc, conn, shutdown, force, close, delay>>
  <2>1. TypeOK' /\ Progress' /\ CutByForce'
    BY <1>1, <1>2 DEF IndInv, TypeOK, Progress, CutByForce, Alive
  <2>2. QED  BY <1>1, <2>1, ServerInv
<1>3. CASE /\ shutdown = "no" /\ proc = "listening" /\ proc' = "closed" /\ shutdown' = "closing"
           /\ force' = ForceExit /\ close' = CloseTimeout
           /\ conn' = [r \in Requests |-> IF conn[r] = "idle" THEN "closed" ELSE conn[r]]
           /\ UNCHANGED delay
  <2>1. TypeOK'
    <3> HIDE DEF Off
    <3>1. QED  BY <1>1, <1>3, OffIsSmall DEF IndInv, TypeOK
  <2>2. Progress'
    <3>1. 0 <= force'
      BY <1>3, TimesTyped
    <3>2. delay = Off
      BY <1>3 DEF IndInv, Progress
    <3>3. Unanswered'
      BY <1>1, <1>3 DEF IndInv, TypeOK, Progress, Unanswered
    <3>4. exit' = Off
      BY <1>1, <1>3 DEF IndInv, Progress, Alive
    <3>5. QED  BY <1>3, <3>1, <3>2, <3>3, <3>4 DEF Progress, Unanswered
  <2>3. CutByForce'
    BY <1>3 DEF CutByForce
  <2>4. QED  BY <1>1, <2>1, <2>2, <2>3, ServerInv
<1>4. CASE /\ shutdown = "no" /\ proc = "boot" /\ shutdown' = "delay"
           /\ force' = ForceExit /\ delay' = Delay /\ UNCHANGED <<proc, conn, close>>
  <2>1. TypeOK'
    <3> HIDE DEF Off
    <3>1. QED  BY <1>1, <1>4, OffIsSmall DEF IndInv, TypeOK
  <2>2. Progress' /\ CutByForce'
    BY <1>1, <1>4 DEF IndInv, Progress, CutByForce, Alive
  <2>3. QED  BY <1>1, <2>1, <2>2, ServerInv
<1>5. QED  BY <1>2, <1>3, <1>4 DEF HandleSignal

(* The close is over: by the end of the connections if the forced exit     *)
(* does not come later than the timeout.                                   *)
LEMMA ClosedInv == ASSUME IndInv, Closed PROVE IndInv'
<1>1. /\ shutdown = "closing" /\ shutdown' = "delay" /\ delay' = Delay /\ close' = Off
      /\ UNCHANGED <<proc, exit, exec, timer, answer, cause, conn, patience, loop, signal, force, parent>>
  BY DEF Closed, Closable, requestVars, clientVars
<1>2. TypeOK'
  <2> HIDE DEF Off
  <2>1. QED  BY <1>1, OffIsSmall DEF IndInv, TypeOK
<1>3. Progress'
  BY <1>1 DEF IndInv, Progress, Alive
<1>4. ASSUME ForceExit <= CloseTimeout PROVE \A r \in Requests : conn[r] # "active"
  <2>1. force <= close /\ 0 <= force /\ force \in Int /\ close \in Int
    <3>1. force <= close /\ 0 <= force
      BY <1>1, <1>4 DEF IndInv, CutByForce, Progress
    <3>2. force \in Int /\ close \in Int
      BY TimesTyped DEF IndInv, TypeOK
    <3>3. QED  BY <3>1, <3>2
  <2>2. ~(close = 0 /\ force # 0)
    BY <2>1
  <2>3. QED  BY <2>2 DEF Closed, Closable
<1>5. CutByForce'
  BY <1>1, <1>4 DEF CutByForce
<1>6. QED  BY <1>1, <1>2, <1>3, <1>5, ServerInv

(* The connections.                                                        *)
LEMMA SendInv == ASSUME IndInv, NEW r \in Requests, Send(r) PROVE IndInv'
<1>1. TypeOK'
  <2> HIDE DEF Off
  <2>1. QED  BY OffIsSmall DEF IndInv, TypeOK, Send, shutdownVars
<1>2. Progress'
  BY DEF IndInv, TypeOK, Progress, Send, shutdownVars, Alive
<1>3. CutByForce'
  BY DEF IndInv, CutByForce, Send, shutdownVars
<1>4. TimerPending'
  BY DEF IndInv, TypeOK, TimerPending, Progress, Send
<1>5. QED  BY <1>1, <1>2, <1>3, <1>4 DEF IndInv

(* So does a client that goes away.                                        *)
LEMMA EndOfConnInv == ASSUME IndInv, NEW r \in Requests, GiveUp(r) \/ Disconnect(r) PROVE IndInv'
<1>1. TypeOK'
  <2> HIDE DEF Off
  <2>1. CASE GiveUp(r)
    BY <2>1, OffIsSmall DEF IndInv, TypeOK, GiveUp, requestVars, shutdownVars
  <2>2. CASE Disconnect(r)
    BY <2>2 DEF IndInv, TypeOK, Disconnect, requestVars, shutdownVars
  <2>3. QED  BY <2>1, <2>2
<1>2. Progress' /\ CutByForce'
  BY DEF IndInv, TypeOK, Progress, CutByForce, GiveUp, Disconnect, requestVars, shutdownVars, Alive
<1>3. QED  BY <1>1, <1>2, ServerInv DEF GiveUp, Disconnect, requestVars

(* So does user code that takes the loop or gives it back.                 *)
LEMMA LoopInv == ASSUME IndInv, Unblock \/ (\E r \in Requests : Block(r)) PROVE IndInv'
<1>1. TypeOK' /\ Progress' /\ CutByForce'
  BY DEF IndInv, TypeOK, Progress, CutByForce, Unblock, Block, requestVars, clientVars, shutdownVars, Alive
<1>2. QED  BY <1>1, ServerInv DEF Unblock, Block, requestVars

(* Time.                                                                   *)
LEMMA ElapseRange ==
  ASSUME NEW n \in Nat, NEW t \in Off..n
  PROVE  /\ Elapse(t) \in Off..n
         /\ Elapse(t) = Off <=> t = Off
         /\ 0 <= t => 0 <= Elapse(t)
BY DEF Elapse

(* Time keeps the order of two timers.                                     *)
LEMMA ElapseMonotone ==
  ASSUME NEW t \in Int, NEW u \in Int, t <= u, 0 <= t
  PROVE  Elapse(t) <= Elapse(u)
BY DEF Elapse

(* A second that passes keeps the invariant.                               *)
LEMMA TickInv == ASSUME IndInv, Tick PROVE IndInv'
<1>1. TypeOK
  BY DEF IndInv
<1>2. /\ force' = Elapse(force) /\ close' = Elapse(close) /\ delay' = Elapse(delay)
      /\ UNCHANGED <<proc, exit, exec, answer, cause, conn, loop, signal, shutdown, parent>>
  BY DEF Tick
<1>3. TypeOK'
  <2> HIDE DEF Off
  <2>1. timer' \in [Requests -> Off..ExecutionTimeout]
    BY <1>1, TimesTyped, ElapseRange DEF TypeOK, Tick
  <2>2. patience' \in [Requests -> Off..RequestTimeout]
    BY <1>1, TimesTyped, ElapseRange DEF TypeOK, Tick
  <2>3. force' \in Off..ForceExit /\ close' \in Off..CloseTimeout /\ delay' \in Off..Delay
    BY <1>1, <1>2, TimesTyped, ElapseRange DEF TypeOK
  <2>4. QED  BY <1>1, <1>2, <2>1, <2>2, <2>3 DEF TypeOK
<1>4. TimerPending'
  <2> HIDE DEF Off
  <2>1. ASSUME NEW r \in Requests PROVE timer'[r] = Off <=> timer[r] = Off
    BY <1>1, TimesTyped, ElapseRange DEF TypeOK, Tick
  <2>2. QED  BY <1>2, <2>1 DEF IndInv, TimerPending
<1>5. 0 <= force => 0 <= force'
  BY <1>1, <1>2, TimesTyped, ElapseRange DEF TypeOK
<1>6. Progress'
  <2> HIDE DEF Off
  <2>1. delay' = Off <=> delay = Off
    BY <1>1, <1>2, TimesTyped, ElapseRange DEF TypeOK
  <2>2. QED  BY <1>2, <1>5, <2>1 DEF IndInv, Progress, Alive
<1>7. CutByForce'
  <2>1. force \in Int /\ close \in Int
    BY <1>1, TimesTyped DEF TypeOK
  <2>2. ASSUME ForceExit <= CloseTimeout, shutdown = "closing" PROVE force' <= close'
    BY <1>2, <2>1, <2>2, ElapseMonotone DEF IndInv, CutByForce, Progress
  <2>3. QED  BY <1>2, <2>2 DEF IndInv, CutByForce
<1>8. QED  BY <1>3, <1>4, <1>6, <1>7 DEF IndInv

-----------------------------------------------------------------------------

(* Every step keeps the invariant.                                         *)
LEMMA NextInv == ASSUME IndInv, [Next]_vars PROVE IndInv'
<1>1. CASE HandleSignalNotRunning \/ DelayEnds \/ ForceTimer
  BY <1>1, ExitInv DEF HandleSignalNotRunning, DelayEnds, ForceTimer
<1>2. CASE Restart
  <2>1. PICK c \in {0, 1, 9} : Exit(c) /\ parent' = "restarted"
    BY <1>2 DEF Restart
  <2>2. QED  BY <2>1, ExitInv
<1>3. CASE CollectKill
  <2>1. PICK c \in {0, 1, 9} : Exit(c) /\ parent' = "collected"
    BY <1>3 DEF CollectKill
  <2>2. QED  BY <2>1, ExitInv
<1>4. CASE \/ Boot \/ Signal \/ CollectTerm \/ HandleSignal \/ Closed \/ Unblock \/ Tick
  BY <1>4, BootInv, SignalInv, HandleSignalInv, ClosedInv, LoopInv, TickInv
<1>5. ASSUME NEW r \in Requests,
             \/ Send(r) \/ Handle(r) \/ Import(r) \/ Return(r) \/ Block(r) \/ Timeout(r)
             \/ GiveUp(r) \/ Disconnect(r)
      PROVE  IndInv'
  BY <1>5, SendInv, HandleInv, ImportInv, ReturnInv, LoopInv, TimeoutInv, EndOfConnInv
<1>6. CASE UNCHANGED vars
  BY <1>6 DEF vars, requestVars, clientVars, shutdownVars, IndInv, TypeOK, TimerPending, Progress,
              CutByForce, Alive
<1>7. QED  BY <1>1, <1>2, <1>3, <1>4, <1>5, <1>6 DEF Next

(* index.ts, executor.ts: types are right, the timer of a request is       *)
(* pending exactly while its execution is, and only a signal starts the    *)
(* timers of a shutdown.                                                   *)
THEOREM IndInvInvariant == Spec => []IndInv
<1>1. QED  BY InitInv, NextInv, PTL DEF Spec

-----------------------------------------------------------------------------
(* What the answers say.                                                   *)

Tells(a, c) ==
  /\ c = "timeout" => a = "408"
  /\ c = "import" => a \in {"400", "408"}
  /\ c = "user" => a \in {"400", "408", "422"}
  /\ a = "422" => c \in {"user", "unreadable"}
  /\ a = "500" => c \in {"other", "unreadable"}

(* The race gives an answer with the code of its cause.                    *)
LEMMA RaceTells ==
  ASSUME TypeOK, CodeTellsCause, NEW r \in Requests, NEW a, NEW c, Tells(a, c), Race(r, a, c)
  PROVE  CodeTellsCause'
<1>1. CASE UNCHANGED <<answer, cause>>
  BY <1>1 DEF CodeTellsCause
<1>2. CASE answer' = [answer EXCEPT ![r] = a] /\ cause' = [cause EXCEPT ![r] = c]
  BY <1>2 DEF CodeTellsCause, TypeOK, Tells
<1>3. QED  BY <1>1, <1>2 DEF Race

(* So does each callback of an execution.                                  *)
LEMMA StepTells ==
  ASSUME TypeOK, CodeTellsCause, NEW r \in Requests, Handle(r) \/ Import(r) \/ Return(r) \/ Timeout(r)
  PROVE  CodeTellsCause'
<1>1. CASE UNCHANGED <<answer, cause>>
  BY <1>1 DEF CodeTellsCause
<1>2. ASSUME NEW a, NEW c, Settle(r, a, c), Tells(a, c) PROVE CodeTellsCause'
  BY <1>2, RaceTells DEF Settle
<1>3. CASE Handle(r)
  BY <1>1, <1>2, <1>3, HandleForms DEF Tells
<1>4. CASE Import(r)
  BY <1>1, <1>2, <1>4, ImportForms DEF Tells
<1>5. CASE Return(r)
  BY <1>1, <1>2, <1>5, ReturnForms DEF Tells
<1>6. CASE Timeout(r)
  <2>1. Race(r, "408", "timeout") /\ Tells("408", "timeout")
    BY <1>6, TimeoutCode DEF Timeout, Tells
  <2>2. QED  BY <2>1, RaceTells
<1>7. QED  BY <1>3, <1>4, <1>5, <1>6

(* No other step answers.                                                  *)
LEMMA OthersAnswerNothing ==
  ASSUME [Next]_vars, ~\E r \in Requests : Handle(r) \/ Import(r) \/ Return(r) \/ Timeout(r)
  PROVE  UNCHANGED <<answer, cause>>
BY DEF Next, vars, requestVars, clientVars, Boot, Signal, HandleSignal, HandleSignalNotRunning,
       Closed, DelayEnds, ForceTimer, Restart, CollectTerm, CollectKill, Unblock, Tick, Exit,
       Send, Block, GiveUp, Disconnect

(* executor.ts: the code of an answer tells where the error comes from,    *)
(* for any texts that the messages of user errors contain.                 *)
THEOREM CodesTell == Spec => []CodeTellsCause
<1>1. Init => CodeTellsCause
  BY DEF Init, CodeTellsCause
<1>2. ASSUME IndInv, CodeTellsCause, [Next]_vars PROVE CodeTellsCause'
  <2>1. ASSUME NEW r \in Requests, Handle(r) \/ Import(r) \/ Return(r) \/ Timeout(r)
        PROVE  CodeTellsCause'
    BY <1>2, <2>1, StepTells DEF IndInv
  <2>2. CASE UNCHANGED <<answer, cause>>
    BY <1>2, <2>2 DEF CodeTellsCause
  <2>3. QED  BY <1>2, <2>1, <2>2, OthersAnswerNothing
<1>3. QED  BY <1>1, <1>2, IndInvInvariant, PTL DEF Spec

-----------------------------------------------------------------------------
(* How the process ends.                                                   *)

(* The only exit with 0 is the one after the delay.                        *)
LEMMA OnlyDelayEndsWithZero ==
  ASSUME [Next]_vars, exit' = 0, exit = Off
  PROVE  DelayEnds
BY DEF Next, vars, Boot, Signal, HandleSignal, HandleSignalNotRunning, Closed, ForceTimer, Restart,
       CollectTerm, CollectKill, Unblock, Tick, Exit, Send, Handle, Import, Return, Block, Timeout,
       GiveUp, Disconnect

(* index.ts: as long as the forced exit is not later than the timeout of   *)
(* shutdownServer (5 s both), an exit with code 0 after the close of the   *)
(* server cuts off nobody.                                                 *)
THEOREM CleanExit == ASSUME ForceExit <= CloseTimeout PROVE Spec => ExitZeroIsClean
<1>1. ASSUME IndInv, [Next]_vars, proc = "closed", exit' = 0
      PROVE  \A r \in Requests : conn[r] # "active"
  <2>1. exit = Off
    BY <1>1 DEF IndInv, Progress, Alive
  <2>2. DelayEnds
    BY <1>1, <2>1, OnlyDelayEndsWithZero
  <2>3. shutdown = "delay"
    BY <1>1, <2>2 DEF IndInv, Progress, DelayEnds
  <2>4. QED  BY <1>1, <2>3 DEF IndInv, CutByForce
<1>2. IndInv /\ [Next]_vars
        => [proc = "closed" /\ exit' = 0 => \A r \in Requests : conn[r] # "active"]_vars
  BY <1>1
<1>3. QED  BY <1>2, IndInvInvariant, PTL DEF Spec, ExitZeroIsClean
=============================================================================
