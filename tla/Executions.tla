----------------------------- MODULE Executions -----------------------------
(***************************************************************************)
(* The process manager together with what its requests set off: how often  *)
(* and where the function of a call executes.  A request that was given up *)
(* or whose caller retries may still wait at a child, or execute in it.    *)
(* Each action is one of ProcessManager with what it means for the         *)
(* executions, or a step of an executor (packages/server) that the manager *)
(* does not see.                                                           *)
(***************************************************************************)
EXTENDS ProcessManager

VARIABLES
  clientFirst,  \* is requestTimeout the shorter one, as it is by default (5 s to 25 s)?
  work,         \* the last request of a call at a child
  late,         \* calls whose function goes on in a child that has answered with 408
  runs          \* how often the function of a call was started

execVars == <<work, late, runs>>
allVars == <<vars, clientFirst, execVars>>

InitExecutions ==
  /\ Init
  /\ clientFirst \in BOOLEAN
  /\ work = [p \in Procs |-> [r \in Requests |-> "none"]]
  /\ late = [p \in Procs |-> {}]
  /\ runs = [r \in Requests |-> 0]

Set(p, r, w) == work' = [work EXCEPT ![p][r] = w]

-----------------------------------------------------------------------------
(* Steps of the manager.                                                   *)

(* The end of a child is the end of what executes in it.                   *)
EndWithChild ==
  /\ work' = [p \in Procs |-> [r \in Requests |-> IF life'[p] = "dead" THEN "none" ELSE work[p][r]]]
  /\ late' = [p \in Procs |-> IF life'[p] = "dead" THEN {} ELSE late[p]]

CallCounted(r, h) ==
  /\ Call(r, h)
  /\ runs' = [runs EXCEPT ![r] = 0]
  /\ UNCHANGED <<clientFirst, work, late>>

(* The request waits at whoever listens on the port, even while the event  *)
(* loop there is blocked; without a listener the connection is refused.    *)
SendQueued(r) ==
  /\ Send(r)
  /\ work' = [p \in Procs |->
       IF Bound(p) /\ port[p] = port[ptr[r]] THEN [work[p] EXCEPT ![r] = "queued"] ELSE work[p]]
  /\ UNCHANGED <<clientFirst, late, runs>>

(* The answer to an execution that is over or was timed out, or, without   *)
(* one, that the module is not there.                                      *)
AnswerSettled(r) ==
  /\ Answer(r)
  /\ \E p \in Procs :
       /\ Answers(p, port[ptr[r]])
       /\ work[p][r] = IF loaded[p] THEN "settled" ELSE "queued"
       /\ Set(p, r, "none")
  /\ UNCHANGED <<clientFirst, late, runs>>

(* A step of another kind: only the end of a child matters to executions.  *)
OtherRequestStep(r) ==
  \/ ExecFails(r)
  \/ (pc[r] \notin {"plock", "exec"} /\ RequestStep(r))

OtherStep ==
  /\ \/ \E r \in Requests : OtherRequestStep(r)
     \/ GcTick \/ GcRound
     \/ \E p \in Procs : Boot(p) \/ Crash(p) \/ Hang(p) \/ Recover(p)
  /\ EndWithChild
  /\ UNCHANGED <<clientFirst, runs>>

-----------------------------------------------------------------------------
(* Steps of the executor of a child, on its event loop.                    *)

(* Faulty variant: an execution leaves its request in the queue.           *)
StartKeepsRequest(p, r) ==
  /\ life[p] = "ready"
  /\ work[p][r] = "queued"
  /\ \/ Import(p)
     \/ loaded[p] /\ UNCHANGED vars
  /\ runs' = [runs EXCEPT ![r] = IF @ <= MaxRetries THEN @ + 1 ELSE @]
  /\ UNCHANGED <<clientFirst, work, late>>

(* The module is imported, or was, and its function called; nobody looks   *)
(* whether the client still waits.                                         *)
Start(p, r) ==
  /\ life[p] = "ready"
  /\ work[p][r] = "queued"
  /\ \/ Import(p)
     \/ loaded[p] /\ UNCHANGED vars
  /\ Set(p, r, "running")
  /\ runs' = [runs EXCEPT ![r] = @ + 1]
  /\ UNCHANGED <<clientFirst, late>>

Settle(p, r) ==
  /\ life[p] = "ready"
  /\ work[p][r] = "running"
  /\ Set(p, r, "settled")
  /\ UNCHANGED <<vars, clientFirst, late, runs>>

(* Faulty variant: the executor's timer is the shorter one in any case.    *)
TimeOutAnyway(p, r) ==
  /\ life[p] = "ready"
  /\ work[p][r] = "running"
  /\ Set(p, r, "settled")
  /\ late' = [late EXCEPT ![p] = @ \cup {r}]
  /\ UNCHANGED <<vars, clientFirst, runs>>

(* The executor's timeout fires before the client's: it answers with 408,  *)
(* and the function goes on.                                               *)
TimeOut(p, r) ==
  /\ ~clientFirst
  /\ life[p] = "ready"
  /\ work[p][r] = "running"
  /\ Set(p, r, "settled")
  /\ late' = [late EXCEPT ![p] = @ \cup {r}]
  /\ UNCHANGED <<vars, clientFirst, runs>>

EndLate(p, r) ==
  /\ life[p] = "ready"
  /\ r \in late[p]
  /\ late' = [late EXCEPT ![p] = @ \ {r}]
  /\ UNCHANGED <<vars, clientFirst, work, runs>>

ExecutorStep(p, r) == Start(p, r) \/ Settle(p, r) \/ TimeOut(p, r) \/ EndLate(p, r)

-----------------------------------------------------------------------------

NextExecutions ==
  \/ \E r \in Requests :
       \/ SendQueued(r) \/ AnswerSettled(r)
       \/ \E h \in Hashes : CallCounted(r, h)
  \/ \E p \in Procs, r \in Requests : ExecutorStep(p, r)
  \/ OtherStep

SpecExecutions == InitExecutions /\ [][NextExecutions]_allVars
-----------------------------------------------------------------------------
(* Properties.                                                             *)

(* A request waits, executes or has its result only at the child its call  *)
(* is talking to, or has given up and is about to kill: two attempts of a  *)
(* call are never under way at the same time, and a call that has returned *)
(* has left none behind.                                                   *)
AttemptsApart ==
  \A p \in Procs, r \in Requests :
    work[p][r] # "none" => pc[r] \in {"exec", "kill"} /\ ptr[r] = p

(* While the client's timeout is the shorter one, the functions of two     *)
(* calls execute in one child only when that child is about to be killed.  *)
Executes(p, r) == work[p][r] = "running" \/ r \in late[p]

OverlapIsDoomed ==
  clientFirst =>
    \A p \in Procs, r1, r2 \in Requests :
      Executes(p, r1) /\ Executes(p, r2) /\ r1 # r2 =>
        \E r \in {r1, r2} : pc[r] = "kill" /\ ptr[r] = p

(* execution.go: maxRetries.  A call starts its function at most once per  *)
(* attempt, hence at most MaxRetries + 1 times, and at least once if its   *)
(* answer comes from the function.                                         *)
RunsCounted ==
  \A r \in Requests :
    /\ runs[r] <= IF pc[r] = "idle" THEN MaxRetries + 1 ELSE attempt[r] + 1
    /\ pc[r] \in {"lookup", "check", "check2", "plock"} => runs[r] <= attempt[r]
    /\ outcome[r] \in Hashes => runs[r] > 0

(* The inductive invariant.  An attempt that never sent its request goes   *)
(* through restartProcess too, when its process is found unhealthy (back   *)
(* is "lock"), and comes back without being counted.                       *)
WorkTypeOK ==
  /\ clientFirst \in BOOLEAN
  /\ work \in [Procs -> [Requests -> {"none", "queued", "running", "settled"}]]
  /\ late \in [Procs -> SUBSET Requests]
  /\ runs \in [Requests -> Nat]

InRestart == {"kill", "rmdir", "unmap"}

CallsInv ==
  \A r \in Requests :
    /\ outcome[r] \in Hashes => runs[r] > 0
    /\ runs[r] <= IF pc[r] = "idle" THEN MaxRetries + 1 ELSE attempt[r] + 1
    /\ \/ pc[r] \notin InRestart \cup {"idle", "exec"}
       \/ pc[r] \in InRestart /\ back[r] = "lock"
       => runs[r] <= attempt[r]

WorkInv ==
  \A p \in Procs, r \in Requests :
    work[p][r] # "none" =>
      /\ ptr[r] = p
      /\ pc[r] = "exec" \/ (pc[r] = "kill" /\ back[r] = "retry")
      /\ IF work[p][r] = "queued" THEN runs[r] <= attempt[r] ELSE runs[r] > 0

LateInv == clientFirst => \A p \in Procs : late[p] = {}

ExecInv == WorkTypeOK /\ CallsInv /\ WorkInv /\ LateInv
=============================================================================
