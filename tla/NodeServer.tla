----------------------------- MODULE NodeServer -----------------------------
(***************************************************************************)
(* One node child process (packages/server): the express server, the       *)
(* executor with its timeout, and the shutdown on a signal, as its Go      *)
(* parent uses it.  JavaScript runs on one event loop: an action of the    *)
(* child is a run of one callback and needs the loop; while user code      *)
(* blocks the loop neither timers nor signals are handled.  Time is a      *)
(* number of seconds that Tick lets pass.                                  *)
(***************************************************************************)
EXTENDS Integers

CONSTANTS
  Requests,          \* requests to /execute
  ExecutionTimeout,  \* executionTimeout (executor.ts), in seconds
  ForceExit,         \* forceExitTimeout (index.ts)
  CloseTimeout,      \* the timeout of shutdownServer (server.ts)
  Delay,             \* the delay before exit (index.ts)
  RequestTimeout,    \* the timeout of the Go client (requestTimeout)
  UserTexts          \* what the message of a user error may contain

ASSUME RequestsAssumption == "free" \notin Requests
ASSUME TimesAssumption ==
  /\ {ExecutionTimeout, ForceExit, CloseTimeout, Delay, RequestTimeout} \subseteq Nat \ {0}
  /\ UserTexts \subseteq {"timed out", "Module import failed", "Function execution error"}

VARIABLES
  proc,      \* life of the process and of its listening socket
  exit,      \* exit code, or 9 for SIGKILL
  exec,      \* the execution promise of a request
  timer,     \* seconds left of its timeout promise
  answer,    \* what the server answered: the error code or "result"
  cause,     \* what went wrong, to compare with answer
  conn,      \* the connection of a request
  patience,  \* seconds the client still waits
  loop,      \* "free", or the request whose code blocks the event loop
  signal,    \* is a signal waiting for its handler?
  shutdown,  \* where gracefulShutdown is
  force,     \* seconds left of forceExitTimeout
  close,     \* seconds left of the timeout of shutdownServer
  delay,     \* seconds left of the delay before exit
  parent     \* the collector of the parent, between SIGTERM and SIGKILL

requestVars == <<exec, timer, answer, cause>>
clientVars == <<conn, patience>>
shutdownVars == <<signal, shutdown, force, close, delay>>
vars == <<proc, exit, requestVars, clientVars, loop, shutdownVars, parent>>

Off == -1
Codes == {"none", "result", "400", "408", "422", "500", "http500"}
Causes == {"none", "other", "timeout", "import", "user", "unreadable"}

Init ==
  /\ proc = "boot"
  /\ exit = Off
  /\ exec = [r \in Requests |-> "none"]
  /\ timer = [r \in Requests |-> Off]
  /\ answer = [r \in Requests |-> "none"]
  /\ cause = [r \in Requests |-> "none"]
  /\ conn = [r \in Requests |-> "none"]
  /\ patience = [r \in Requests |-> Off]
  /\ loop = "free"
  /\ signal = FALSE
  /\ shutdown = "no"
  /\ force = Off
  /\ close = Off
  /\ delay = Off
  /\ parent = "idle"

Alive == proc # "exited"
CanRun == Alive /\ loop = "free"

(* The process ends: open connections are reset.                           *)
Exit(c) ==
  /\ proc' = "exited"
  /\ exit' = c
  /\ conn' = [r \in Requests |-> IF conn[r] = "active" THEN "reset" ELSE conn[r]]
  /\ UNCHANGED <<requestVars, patience, loop, shutdownVars>>

-----------------------------------------------------------------------------
(* index.ts and server.ts: from the start to listening, or an exit because *)
(* the environment is wrong, the code file is missing or the port is taken.*)

Boot ==
  /\ CanRun
  /\ proc = "boot"
  /\ \/ proc' = "listening" /\ UNCHANGED <<exit, conn, requestVars, patience, loop, shutdownVars>>
     \/ Exit(1)
  /\ UNCHANGED parent

(* The parent sends one request at a time (ProcessInfo.Lock), but does not *)
(* wait for an execution that it gave up.                                  *)
Send(r) ==
  /\ proc = "listening"
  /\ conn[r] = "none"
  /\ \A s \in Requests : conn[s] # "active"
  /\ conn' = [conn EXCEPT ![r] = "active"]
  /\ patience' = [patience EXCEPT ![r] = RequestTimeout]
  /\ exec' = [exec EXCEPT ![r] = "received"]
  /\ UNCHANGED <<proc, exit, timer, answer, cause, loop, shutdownVars, parent>>

(* res.json: the connection of a client that is still there goes idle.     *)
Respond(r) ==
  /\ conn' = [conn EXCEPT ![r] = IF @ = "active" THEN "idle" ELSE @]
  /\ patience' = [patience EXCEPT ![r] = Off]

-----------------------------------------------------------------------------
(* executor.ts: the execution promise races the timeout promise.           *)

(* Faulty variant: an import error is looked for first.                    *)
ClassifyImportFirst(msg) ==
  CASE "Function execution error" \in msg -> "400"
    [] "timed out" \in msg -> "408"
    [] "Module import failed" \in msg -> "422"
    [] OTHER -> "500"

(* The error code, from what the message contains.                         *)
Classify(msg) ==
  CASE "timed out" \in msg -> "408"
    [] "timed out" \notin msg /\ "Module import failed" \in msg -> "400"
    [] msg = {"Function execution error"} -> "422"
    [] OTHER -> "500"

(* Promise.race: the first to settle is answered, the other is ignored.    *)
Race(r, a, c) ==
  \/ /\ answer[r] = "none"
     /\ answer' = [answer EXCEPT ![r] = a]
     /\ cause' = [cause EXCEPT ![r] = c]
     /\ Respond(r)
  \/ /\ answer[r] # "none"
     /\ UNCHANGED <<answer, cause, clientVars>>

(* Faulty variant: clearTimeout is forgotten.                              *)
SettleKeepsTimer(r, a, c) ==
  /\ exec' = [exec EXCEPT ![r] = "settled"]
  /\ Race(r, a, c)
  /\ UNCHANGED timer

(* The execution promise settles, and the timeout is cleared.              *)
Settle(r, a, c) ==
  /\ exec' = [exec EXCEPT ![r] = "settled"]
  /\ Race(r, a, c)
  /\ timer' = [timer EXCEPT ![r] = Off]

(* The handler starts: a body that does not parse or has no input is a     *)
(* 500, otherwise the timer is set and the module imported.                *)
Handle(r) ==
  /\ CanRun
  /\ exec[r] = "received"
  /\ \/ Settle(r, "http500", "other")
     \/ /\ exec' = [exec EXCEPT ![r] = "importing"]
        /\ timer' = [timer EXCEPT ![r] = ExecutionTimeout]
        /\ UNCHANGED <<answer, cause, clientVars>>
  /\ UNCHANGED <<proc, exit, loop, shutdownVars, parent>>

(* The import or the function fails with something that has no message to  *)
(* read, such as null or undefined: reading it throws, so what is          *)
(* classified is the text of that new error; when even that one cannot be  *)
(* read, the handler answers with HTTP status 500.                         *)
Unreadable(r) ==
  \/ \E m \in SUBSET UserTexts : Settle(r, Classify(m), "unreadable")
  \/ Settle(r, "http500", "unreadable")

Import(r) ==
  /\ CanRun
  /\ exec[r] = "importing"
  /\ \/ exec' = [exec EXCEPT ![r] = "running"] /\ UNCHANGED <<timer, answer, cause, clientVars>>
     \/ \E m \in SUBSET UserTexts : Settle(r, Classify(m \cup {"Module import failed"}), "import")
     \/ Unreadable(r)
     \/ Settle(r, Classify({}), "other")
  /\ UNCHANGED <<proc, exit, loop, shutdownVars, parent>>

(* The function of the user returns a result, or one that JSON cannot      *)
(* express (the handler's catch), or throws; without this step it is one   *)
(* whose promise never settles, for instance because a callback of its     *)
(* threw (uncaughtException only logs).                                    *)
Return(r) ==
  /\ CanRun
  /\ exec[r] = "running"
  /\ \/ Settle(r, "result", "none")
     \/ Settle(r, "http500", "other")
     \/ Unreadable(r)
     \/ \E m \in SUBSET UserTexts : Settle(r, Classify(m \cup {"Function execution error"}), "user")
  /\ UNCHANGED <<proc, exit, loop, shutdownVars, parent>>

(* User code keeps the event loop busy, and perhaps gives it back.         *)
Block(r) ==
  /\ CanRun
  /\ exec[r] = "running"
  /\ loop' = r
  /\ UNCHANGED <<proc, exit, requestVars, clientVars, shutdownVars, parent>>

Unblock ==
  /\ Alive
  /\ loop # "free"
  /\ loop' = "free"
  /\ UNCHANGED <<proc, exit, requestVars, clientVars, shutdownVars, parent>>

(* Faulty variant: the timeout fires but only logs.                        *)
TimeoutLogs(r) ==
  /\ CanRun
  /\ timer[r] = 0
  /\ timer' = [timer EXCEPT ![r] = Off]
  /\ UNCHANGED <<exec, answer, cause, clientVars, proc, exit, loop, shutdownVars, parent>>

(* The timeout promise wins; the user function goes on running.            *)
Timeout(r) ==
  /\ CanRun
  /\ timer[r] = 0
  /\ timer' = [timer EXCEPT ![r] = Off]
  /\ Race(r, Classify({"timed out"}), "timeout")
  /\ UNCHANGED <<exec, proc, exit, loop, shutdownVars, parent>>

-----------------------------------------------------------------------------
(* The client.                                                             *)

(* Its timeout has passed, or the context of the call is done.             *)
GiveUp(r) ==
  /\ conn[r] = "active"
  /\ conn' = [conn EXCEPT ![r] = "gone"]
  /\ patience' = [patience EXCEPT ![r] = Off]
  /\ UNCHANGED <<proc, exit, requestVars, loop, shutdownVars, parent>>

(* An idle connection is closed by either side.                            *)
Disconnect(r) ==
  /\ Alive
  /\ conn[r] = "idle"
  /\ conn' = [conn EXCEPT ![r] = "closed"]
  /\ UNCHANGED <<proc, exit, requestVars, patience, loop, shutdownVars, parent>>

-----------------------------------------------------------------------------
(* index.ts: gracefulShutdown.                                             *)

(* From outside comes at most one signal (a bound); the collector's is     *)
(* CollectTerm.                                                            *)
Signal ==
  /\ proc \in {"boot", "listening"}
  /\ ~signal /\ shutdown = "no"
  /\ signal' = TRUE
  /\ UNCHANGED <<proc, exit, requestVars, clientVars, loop, shutdown, force, close, delay, parent>>

(* Faulty variant: the server is closed without a time limit.              *)
HandleSignalNoLimit ==
  /\ CanRun
  /\ signal
  /\ signal' = FALSE
  /\ shutdown = "no" => proc' = "closed" /\ shutdown' = "closing"
  /\ shutdown # "no" => UNCHANGED <<proc, shutdown>>
  /\ UNCHANGED <<conn, force, close, delay, exit, requestVars, patience, loop, parent>>

(* The first signal starts the timer for the forced exit and, when there   *)
(* is a server, closes it; further signals are ignored.                    *)
HandleSignal ==
  /\ CanRun
  /\ signal
  /\ signal' = FALSE
  /\ \/ /\ shutdown # "no"
        /\ UNCHANGED <<proc, conn, shutdown, force, close, delay>>
     \/ /\ shutdown = "no"
        /\ proc = "listening"
        /\ proc' = "closed"
        /\ shutdown' = "closing"
        /\ force' = ForceExit
        /\ close' = CloseTimeout
        /\ conn' = [r \in Requests |-> IF conn[r] = "idle" THEN "closed" ELSE conn[r]]
        /\ UNCHANGED delay
     \/ /\ shutdown = "no"
        /\ proc = "boot"
        /\ shutdown' = "delay"
        /\ force' = ForceExit
        /\ delay' = Delay
        /\ UNCHANGED <<proc, conn, close>>
  /\ UNCHANGED <<exit, requestVars, patience, loop, parent>>

(* A server that is created but does not listen yet cannot be closed.      *)
HandleSignalNotRunning ==
  /\ CanRun
  /\ signal
  /\ shutdown = "no"
  /\ proc = "boot"
  /\ Exit(1)
  /\ UNCHANGED parent

(* Faulty variant: idle and active connections are not waited for.         *)
ClosableAtOnce == shutdown = "closing"

(* shutdownServer resolves: every connection has ended, or its timeout     *)
(* fires.  Timers of the same length fire in the order they were set, so   *)
(* the forced exit comes first.                                            *)
Closable ==
  /\ shutdown = "closing"
  /\ \/ \A r \in Requests : conn[r] \notin {"active", "idle"}
     \/ close = 0 /\ force # 0

Closed ==
  /\ CanRun
  /\ Closable
  /\ shutdown' = "delay"
  /\ delay' = Delay
  /\ close' = Off
  /\ UNCHANGED <<proc, exit, requestVars, clientVars, loop, signal, force, parent>>

DelayEnds ==
  /\ CanRun
  /\ delay = 0
  /\ Exit(0)
  /\ UNCHANGED parent

ForceTimer ==
  /\ CanRun
  /\ force = 0
  /\ Exit(1)
  /\ UNCHANGED parent

-----------------------------------------------------------------------------
(* The parent: restartProcess kills; the collector sends SIGTERM and then, *)
(* with nothing but a flush of its log buffer in between, SIGKILL.         *)

Restart ==
  /\ Alive
  /\ parent = "idle"
  /\ parent' = "restarted"
  /\ Exit(9)

CollectTerm ==
  /\ proc = "listening"
  /\ parent = "idle"
  /\ parent' = "collecting"
  /\ signal' = TRUE
  /\ UNCHANGED <<proc, exit, requestVars, clientVars, loop, shutdown, force, close, delay>>

CollectKill ==
  /\ Alive
  /\ parent = "collecting"
  /\ parent' = "collected"
  /\ Exit(9)

-----------------------------------------------------------------------------
(* Time passes when nobody has anything to do: the client gives up on time *)
(* and, while it is free, the event loop runs every callback that is due.  *)

Due ==
  \/ signal
  \/ Closable
  \/ 0 \in {force, delay}
  \/ \E r \in Requests : exec[r] = "received" \/ timer[r] = 0

Elapse(t) == IF t > 0 THEN t - 1 ELSE t

Tick ==
  /\ Alive
  /\ parent # "collecting"
  /\ \A r \in Requests : conn[r] = "active" => patience[r] # 0
  /\ loop = "free" => ~Due
  /\ timer' = [r \in Requests |-> Elapse(timer[r])]
  /\ patience' = [r \in Requests |-> Elapse(patience[r])]
  /\ force' = Elapse(force)
  /\ close' = Elapse(close)
  /\ delay' = Elapse(delay)
  /\ UNCHANGED <<proc, exit, exec, answer, cause, conn, loop, signal, shutdown, parent>>

Next ==
  \/ Boot \/ Signal \/ HandleSignal \/ HandleSignalNotRunning
  \/ Closed \/ DelayEnds \/ ForceTimer
  \/ Restart \/ CollectTerm \/ CollectKill \/ Unblock \/ Tick
  \/ \E r \in Requests :
       \/ Send(r) \/ Handle(r) \/ Import(r) \/ Return(r) \/ Block(r) \/ Timeout(r)
       \/ GiveUp(r) \/ Disconnect(r)

Spec == Init /\ [][Next]_vars

(* Callbacks the event loop has been given: of timers, signals, arrivals   *)
(* and closed connections.                                                 *)
Callback ==
  \/ HandleSignal \/ Closed \/ DelayEnds \/ ForceTimer
  \/ \E r \in Requests : Handle(r) \/ Timeout(r)

(* Time passes, the client gives up when its timeout is over, the parent   *)
(* sends SIGKILL after SIGTERM, and an event loop that is free again and   *)
(* again runs the callbacks that are due.  Nothing makes user code return, *)
(* or give the loop back.                                                  *)
Fairness ==
  /\ SF_vars(Tick) /\ SF_vars(Callback)
  /\ WF_vars(CollectKill)
  /\ \A r \in Requests : WF_vars(patience[r] = 0 /\ GiveUp(r))

FairSpec == Spec /\ Fairness
-----------------------------------------------------------------------------
(* Properties.                                                             *)

TypeOK ==
  /\ proc \in {"boot", "listening", "closed", "exited"}
  /\ exit \in {Off, 0, 1, 9}
  /\ exec \in [Requests -> {"none", "received", "importing", "running", "settled"}]
  /\ timer \in [Requests -> Off..ExecutionTimeout]
  /\ answer \in [Requests -> Codes]
  /\ cause \in [Requests -> Causes]
  /\ conn \in [Requests -> {"none", "active", "idle", "closed", "gone", "reset"}]
  /\ patience \in [Requests -> Off..RequestTimeout]
  /\ loop \in Requests \cup {"free"}
  /\ signal \in BOOLEAN
  /\ shutdown \in {"no", "closing", "delay"}
  /\ force \in Off..ForceExit
  /\ close \in Off..CloseTimeout
  /\ delay \in Off..Delay
  /\ parent \in {"idle", "restarted", "collecting", "collected"}

(* The timer of a request is pending exactly while its execution is and    *)
(* nothing has been answered, so a late timer cannot touch a request that  *)
(* is over.                                                                *)
TimerPending ==
  \A r \in Requests :
    timer[r] # Off <=> exec[r] \in {"importing", "running"} /\ answer[r] = "none"

(* How far a request and a shutdown have got: nothing executes before it   *)
(* is sent and nothing is answered before its handler runs, and only a     *)
(* signal starts a timer of the shutdown.                                  *)
Progress ==
  /\ \A r \in Requests :
       /\ conn[r] = "none" => exec[r] = "none"
       /\ exec[r] \in {"none", "received"} => answer[r] = "none"
  /\ Alive => exit = Off
  /\ delay # Off => shutdown = "delay"
  /\ proc \in {"boot", "listening"} => shutdown # "closing"
  /\ proc = "closed" => shutdown # "no"
  /\ shutdown = "closing" => 0 <= force

(* As the forced exit is due no later than the timeout of shutdownServer,  *)
(* that timeout never lets a connection be cut with exit code 0.           *)
CutByForce ==
  ForceExit <= CloseTimeout =>
    /\ shutdown = "closing" => force <= close
    /\ proc = "closed" /\ shutdown = "delay" => \A r \in Requests : conn[r] # "active"

(* The inductive invariant.                                                *)
IndInv == TypeOK /\ TimerPending /\ Progress /\ CutByForce

(* An exit with code 0 is a clean one: no client loses its answer, if the  *)
(* server was there to be closed when the signal came.                     *)
ExitZeroIsClean ==
  [][proc = "closed" /\ exit' = 0 => \A r \in Requests : conn[r] # "active"]_vars

(* The code of an error tells where it comes from (executor.ts), as far as *)
(* it can while the text of the user's error is searched as well: such an  *)
(* error may pass for a timeout or an import that failed, but no error of  *)
(* the server passes for the user's.  Of what the user's code does, only   *)
(* throwing something without a message is answered with a 500.            *)
CodeTellsCause ==
  \A r \in Requests :
    /\ cause[r] = "timeout" => answer[r] = "408"
    /\ cause[r] = "import" => answer[r] \in {"400", "408"}
    /\ cause[r] = "user" => answer[r] \in {"400", "408", "422"}
    /\ answer[r] = "422" => cause[r] \in {"user", "unreadable"}
    /\ answer[r] = "500" => cause[r] \in {"other", "unreadable"}

(* User code gives the event loop back whenever it has taken it.           *)
LoopReturns == []<>(loop = "free")

(* Whatever else the user function does, a request is answered unless the  *)
(* process ends.                                                           *)
EveryRequestAnswered ==
  LoopReturns =>
    \A r \in Requests : exec[r] = "importing" ~> answer[r] # "none" \/ ~Alive

(* A shutdown ends although connections stay open and functions hang.      *)
ShutdownEnds == LoopReturns => (shutdown # "no" ~> ~Alive)
=============================================================================
