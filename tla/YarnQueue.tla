------------------------------ MODULE YarnQueue ------------------------------
(***************************************************************************)
(* The yarn install queue of pkg/node/yarn.go: a semaphore (a buffered     *)
(* channel) that bounds how many installs run, one worker goroutine per    *)
(* job, and the goroutine that calls InstallDependencies.  The caller      *)
(* holds ProcessManager.lock, so at most one caller waits at a time; a job *)
(* whose context is cancelled is abandoned by its caller while its worker  *)
(* goes on.                                                                *)
(***************************************************************************)
EXTENDS Integers, FiniteSets

CONSTANTS
  Jobs,           \* identities of YarnInstallJob values (reused once forgotten)
  MaxConcurrent   \* capacity of YarnQueue.semaphore

ASSUME JobsAssumption == IsFiniteSet(Jobs)
(* config.go: "max concurrent yarn installs must be positive".             *)
ASSUME MaxConcurrentAssumption == MaxConcurrent \in Nat \ {0}

VARIABLES
  caller,      \* the goroutine in InstallDependencies
  worker,      \* the goroutine started by SubmitYarnInstall
  cancelled,   \* is the Context of a job done?
  semaphore,   \* number of elements in YarnQueue.semaphore
  ResultChan,  \* what the channel of a job (capacity 1) holds
  err          \* what executeYarnInstall returned

vars == <<caller, worker, cancelled, semaphore, ResultChan, err>>

Results == {"ok", "failed", "ctxErr"}
CallerStates == {"none", "waiting"} \cup Results
WorkerStates == {"select", "running", "release", "send", "sendCtxErr", "done"}

Init ==
  /\ caller = [j \in Jobs |-> "none"]
  /\ worker = [j \in Jobs |-> "done"]
  /\ cancelled = [j \in Jobs |-> FALSE]
  /\ semaphore = 0
  /\ ResultChan = [j \in Jobs |-> "empty"]
  /\ err = [j \in Jobs |-> "ok"]

Goto(j, l) == worker' = [worker EXCEPT ![j] = l]

-----------------------------------------------------------------------------
(* The caller.                                                             *)

(* A new job, submitted by a goroutine that holds pm.lock.                 *)
InstallDependencies(j) ==
  /\ \A i \in Jobs : caller[i] # "waiting"
  /\ worker[j] = "done"
  /\ caller' = [caller EXCEPT ![j] = "waiting"]
  /\ Goto(j, "select")
  /\ ResultChan' = [ResultChan EXCEPT ![j] = "empty"]
  /\ \E c \in BOOLEAN : cancelled' = [cancelled EXCEPT ![j] = c]
  /\ UNCHANGED <<semaphore, err>>

ReceiveResult(j) ==
  /\ caller[j] = "waiting"
  /\ ResultChan[j] # "empty"
  /\ caller' = [caller EXCEPT ![j] = ResultChan[j]]
  /\ ResultChan' = [ResultChan EXCEPT ![j] = "empty"]
  /\ UNCHANGED <<worker, cancelled, semaphore, err>>

(* Faulty variant: the caller gives up on a timer of its own, and the      *)
(* context of the job lives on.                                            *)
GiveUpTimer(j) ==
  /\ caller[j] = "waiting"
  /\ caller' = [caller EXCEPT ![j] = "ctxErr"]
  /\ UNCHANGED <<worker, cancelled, semaphore, ResultChan, err>>

(* Faulty variant: the context is looked at only along with a result.      *)
GiveUpWithResult(j) ==
  /\ caller[j] = "waiting"
  /\ cancelled[j]
  /\ ResultChan[j] # "empty"
  /\ caller' = [caller EXCEPT ![j] = "ctxErr"]
  /\ UNCHANGED <<worker, cancelled, semaphore, ResultChan, err>>

GiveUp(j) ==
  /\ caller[j] = "waiting"
  /\ cancelled[j]
  /\ caller' = [caller EXCEPT ![j] = "ctxErr"]
  /\ UNCHANGED <<worker, cancelled, semaphore, ResultChan, err>>

(* The client of the call goes away, or its deadline passes.               *)
Cancel(j) ==
  /\ worker[j] # "done" \/ caller[j] = "waiting"
  /\ ~cancelled[j]
  /\ cancelled' = [cancelled EXCEPT ![j] = TRUE]
  /\ UNCHANGED <<caller, worker, semaphore, ResultChan, err>>

-----------------------------------------------------------------------------
(* The worker.                                                             *)

Acquire(j) ==
  /\ worker[j] = "select"
  /\ semaphore < MaxConcurrent
  /\ semaphore' = semaphore + 1
  /\ Goto(j, "running")
  /\ UNCHANGED <<caller, cancelled, ResultChan, err>>

(* When a slot is free as well, select may take either branch.             *)
GiveUpSlot(j) ==
  /\ worker[j] = "select"
  /\ cancelled[j]
  /\ Goto(j, "sendCtxErr")
  /\ UNCHANGED <<caller, cancelled, semaphore, ResultChan, err>>

(* Run returns: yarn has ended (it is killed once the context is done) and *)
(* nobody holds its output pipes any more, so a child that yarn left       *)
(* behind delays this after the kill.                                      *)
YarnEnds(j) ==
  /\ worker[j] = "running"
  /\ \E e \in {"ok", "failed"} : err' = [err EXCEPT ![j] = e]
  /\ Goto(j, "release")
  /\ UNCHANGED <<caller, cancelled, semaphore, ResultChan>>

(* Faulty variant: the slot is given back only after a successful install. *)
ReleaseIfOK(j) ==
  /\ worker[j] = "release"
  /\ semaphore' = IF err[j] = "ok" THEN semaphore - 1 ELSE semaphore
  /\ Goto(j, "send")
  /\ UNCHANGED <<caller, cancelled, ResultChan, err>>

Release(j) ==
  /\ worker[j] = "release"
  /\ semaphore' = semaphore - 1
  /\ Goto(j, "send")
  /\ UNCHANGED <<caller, cancelled, ResultChan, err>>

SendResult(j) ==
  /\ worker[j] = "send"
  /\ \/ /\ ResultChan[j] = "empty"
        /\ ResultChan' = [ResultChan EXCEPT ![j] = err[j]]
     \/ /\ cancelled[j]
        /\ UNCHANGED ResultChan
  /\ Goto(j, "done")
  /\ UNCHANGED <<caller, cancelled, semaphore, err>>

(* Faulty variant: a channel without buffer, where a send needs a receiver.*)
SendCtxErrUnbuffered(j) ==
  /\ worker[j] = "sendCtxErr"
  /\ caller[j] = "waiting"
  /\ ResultChan[j] = "empty"
  /\ ResultChan' = [ResultChan EXCEPT ![j] = "ctxErr"]
  /\ Goto(j, "done")
  /\ UNCHANGED <<caller, cancelled, semaphore, err>>

(* This send has no way out: it relies on the buffer of the channel.       *)
SendCtxErr(j) ==
  /\ worker[j] = "sendCtxErr"
  /\ ResultChan[j] = "empty"
  /\ ResultChan' = [ResultChan EXCEPT ![j] = "ctxErr"]
  /\ Goto(j, "done")
  /\ UNCHANGED <<caller, cancelled, semaphore, err>>

-----------------------------------------------------------------------------

CallerStep(j) == ReceiveResult(j) \/ GiveUp(j)
WorkerStep(j) ==
  Acquire(j) \/ GiveUpSlot(j) \/ Release(j) \/ SendResult(j) \/ SendCtxErr(j)

Next ==
  \E j \in Jobs :
    InstallDependencies(j) \/ CallerStep(j) \/ Cancel(j) \/ WorkerStep(j) \/ YarnEnds(j)

Spec == Init /\ [][Next]_vars

(* Goroutines that can run do; a channel wakes its blocked senders in      *)
(* order, so a worker that keeps finding slots gets one (strong fairness); *)
(* a cancelled yarn is killed, and what it left behind ends.  Nothing      *)
(* makes an install that is not cancelled end.                             *)
Fairness ==
  \A j \in Jobs :
    /\ WF_vars(CallerStep(j))
    /\ SF_vars(WorkerStep(j))
    /\ WF_vars(YarnEnds(j) /\ cancelled[j])

FairSpec == Spec /\ Fairness
-----------------------------------------------------------------------------
(* Properties.                                                             *)

TypeOK ==
  /\ caller \in [Jobs -> CallerStates]
  /\ worker \in [Jobs -> WorkerStates]
  /\ cancelled \in [Jobs -> BOOLEAN]
  /\ semaphore \in 0..MaxConcurrent
  /\ ResultChan \in [Jobs -> Results \cup {"empty"}]
  /\ err \in [Jobs -> {"ok", "failed"}]

SlotHolders == {j \in Jobs : worker[j] \in {"running", "release"}}

(* The elements of the semaphore are exactly the jobs between acquire and  *)
(* release, whatever the order of failures and cancellations.              *)
SlotsCounted == semaphore = Cardinality(SlotHolders)

(* "manages concurrent yarn install operations": never more than the       *)
(* configured number at once.                                              *)
InstallsBounded == Cardinality({j \in Jobs : worker[j] = "running"}) <= MaxConcurrent

(* The caller goes on with the directory (process.go starts node in it or  *)
(* removes it) while yarn still writes there only if the call was          *)
(* cancelled.                                                              *)
NoInstallBehindCaller ==
  \A j \in Jobs :
    worker[j] \in {"select", "running"} /\ caller[j] # "waiting" => cancelled[j]

(* A job that finds the queue full is ahead of nobody but abandoned ones:  *)
(* pm.lock lets one caller wait, so every other install that runs was      *)
(* cancelled by its caller.                                                *)
OnlyAbandonedInTheWay ==
  \A i, j \in Jobs :
    i # j /\ worker[i] \in {"select", "running"} /\ worker[j] \in {"select", "running"}
      => cancelled[i] \/ cancelled[j]

(* A result is in the channel only once the worker is through.             *)
ResultIsLast == \A j \in Jobs : ResultChan[j] # "empty" => worker[j] = "done"

(* The inductive invariant.                                                *)
IndInv ==
  TypeOK /\ SlotsCounted /\ ResultIsLast /\ NoInstallBehindCaller /\ OnlyAbandonedInTheWay

(* A caller whose context is done returns, whatever yarn does: this is     *)
(* what lets a client that gives up free pm.lock.                          *)
CancelledCallReturns ==
  \A j \in Jobs : caller[j] = "waiting" /\ cancelled[j] ~> caller[j] # "waiting"

(* No worker goroutine is left behind: once its job is cancelled it ends,  *)
(* also when nobody receives its result.                                   *)
CancelledWorkerEnds ==
  \A j \in Jobs : worker[j] # "done" /\ cancelled[j] ~> worker[j] = "done"

(* A full queue drains: a job that waits for a slot does not wait forever, *)
(* although all slots may be held by abandoned installs.                   *)
JobGetsSlot == \A j \in Jobs : worker[j] = "select" ~> worker[j] # "select"
=============================================================================
