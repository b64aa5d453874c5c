--------------------------- MODULE ProcessManager ---------------------------
(***************************************************************************)
(* The process manager of pkg/node: goroutines that run ExecuteFunction,   *)
(* the garbage collector goroutine, and the node child processes they      *)
(* share.  One action is the code between two points where another         *)
(* goroutine or a child can be observed: a lock operation, an HTTP         *)
(* exchange with a child, a kill, a change of the disk.                    *)
(***************************************************************************)
EXTENDS Integers, FiniteSets

CONSTANTS
  Requests,     \* goroutines that call ExecuteFunction
  Hashes,       \* hashes of the specs that the requests carry
  Procs,        \* identities of ProcessInfo values, of their children and ports
  MaxRetries,   \* maxRetries (execution.go)
  MaxHangs,     \* bound: how often a child may stop answering
  PortReuse     \* may a port still named by a ProcessInfo be handed out again?

Nil == "nil"

ASSUME RequestsAssumption == Requests \cap {"free", "gc"} = {}
ASSUME HashesAssumption == Hashes \cap {Nil, "none", "failed", "noModule"} = {}
ASSUME ProcsAssumption == Nil \notin Procs
ASSUME BoundsAssumption ==
  MaxRetries \in Nat /\ MaxHangs \in Nat /\ PortReuse \in BOOLEAN

VARIABLES
  entry,     \* ProcessManager.processes: hash -> ProcessInfo
  pmLock,    \* holder of the write side of ProcessManager.lock
  procLock,  \* holder of ProcessInfo.Lock
  life,      \* state of the child process
  specOf,    \* the spec a ProcessInfo was created for (its code file and directory)
  port,      \* ProcessInfo.Port
  loaded,    \* has the child imported its module (node caches it from then on)?
  code,      \* is the code file of a spec in its directory?
  pc,        \* where a request is in ExecuteFunction
  hash,      \* the hash of the spec a request carries
  ptr,       \* the *ProcessInfo a request works with
  attempt,   \* the retry counter of a request
  back,      \* where restartProcess returns to
  outcome,   \* what a call returned
  gcpc,      \* where the garbage collector is
  gcTodo,    \* entries the collector has still to visit
  gcAt,      \* the entry it visits
  expired,   \* processes whose LastUsed is older than idleTimeout at the collector's now
  hangs      \* how often a child has stopped answering (for MaxHangs)

mapVars == <<entry, pmLock>>
childVars == <<life, specOf, port, loaded, hangs>>
callVars == <<hash, attempt, outcome>>
gcVars == <<gcpc, gcTodo, gcAt, expired>>
vars == <<mapVars, procLock, childVars, code, pc, ptr, back, callVars, gcVars>>

Holders == Requests \cup {"free", "gc"}
Outcomes == Hashes \cup {"none", "failed", "noModule"}
Lives == {"starting", "ready", "hung", "dead"}
RequestPCs == {"idle", "lookup", "check", "kill", "rmdir", "unmap", "lock", "recheck", "drop",
               "write", "spawn", "wait", "verify", "discard", "check2", "plock", "exec"}
GcPCs == {"sleep", "lock", "iterate", "visit"}

Init ==
  /\ entry = [h \in Hashes |-> Nil]
  /\ pmLock = "free"
  /\ procLock = [p \in Procs |-> "free"]
  /\ life = [p \in Procs |-> "dead"]
  /\ specOf = [p \in Procs |-> Nil]
  /\ port = [p \in Procs |-> p]
  /\ loaded = [p \in Procs |-> FALSE]
  /\ code = [h \in Hashes |-> FALSE]
  /\ pc = [r \in Requests |-> "idle"]
  /\ hash = [r \in Requests |-> Nil]
  /\ ptr = [r \in Requests |-> Nil]
  /\ attempt = [r \in Requests |-> 0]
  /\ back = [r \in Requests |-> "lock"]
  /\ outcome = [r \in Requests |-> "none"]
  /\ gcpc = "sleep"
  /\ gcTodo = {}
  /\ gcAt = Nil
  /\ expired = {}
  /\ hangs = 0

-----------------------------------------------------------------------------
(* What the actions are built from.                                        *)

(* A child holds its port from listen until it exits, also while it does   *)
(* not answer.                                                             *)
Bound(p) == life[p] \in {"ready", "hung"}

(* An HTTP request to port q gets an answer from s within its timeout.     *)
Answers(s, q) == port[s] = q /\ life[s] = "ready"

(* isProcessHealthy: the manager never calls cmd.Wait, so ProcessState     *)
(* stays nil and all that counts is that somebody answers /ready with 200  *)
(* on the port of the ProcessInfo.                                         *)
Healthy(p) == \E s \in Procs : Answers(s, port[p])

(* An identity no goroutine and no map entry refers to (bookkeeping of the *)
(* model: the code allocates a new ProcessInfo).                           *)
Unused(p) ==
  /\ life[p] = "dead"
  /\ \A h \in Hashes : entry[h] # p
  /\ \A r \in Requests : ptr[r] # p

(* Faulty variant: a fixed or guessed port instead of one that is free.     *)
FreePortGuessed(p, q) == p \in Procs /\ q \in Procs

(* getAvailablePort: a port nobody listens on at that moment.  A port is   *)
(* named after a ProcessInfo; only with PortReuse may the kernel hand out  *)
(* one that is still the Port of another ProcessInfo.                      *)
FreePort(p, q) ==
  /\ \A s \in Procs : port[s] = q => ~Bound(s)
  /\ PortReuse \/ q = p

Goto(r, l) == pc' = [pc EXCEPT ![r] = l]
Hold(r, p) == ptr' = [ptr EXCEPT ![r] = p]
Kill(p) ==
  /\ life' = [life EXCEPT ![p] = "dead"]
  /\ loaded' = [loaded EXCEPT ![p] = FALSE]
RemoveAll(h) == code' = [code EXCEPT ![h] = FALSE]
Uninstall(h) == entry' = [entry EXCEPT ![h] = Nil]

Return(r, o) ==
  /\ Goto(r, "idle")
  /\ Hold(r, Nil)
  /\ attempt' = [attempt EXCEPT ![r] = 0]
  /\ outcome' = [outcome EXCEPT ![r] = o]

(* Faulty variant: off by one, the loop runs once more.                    *)
RetryOnceMore(r) ==
  \/ /\ attempt[r] <= MaxRetries
     /\ attempt' = [attempt EXCEPT ![r] = @ + 1]
     /\ Goto(r, "lookup")
     /\ Hold(r, Nil)
     /\ UNCHANGED <<hash, outcome>>
  \/ /\ attempt[r] > MaxRetries
     /\ Return(r, "failed")
     /\ UNCHANGED hash

(* Faulty variant: a failed attempt is repeated without being counted.     *)
RetryUncounted(r) ==
  /\ Goto(r, "lookup")
  /\ Hold(r, Nil)
  /\ UNCHANGED callVars

(* continue in the retry loop, or the return of lastErr after it.          *)
Retry(r) ==
  \/ /\ attempt[r] < MaxRetries
     /\ attempt' = [attempt EXCEPT ![r] = @ + 1]
     /\ Goto(r, "lookup")
     /\ Hold(r, Nil)
     /\ UNCHANGED <<hash, outcome>>
  \/ /\ attempt[r] >= MaxRetries
     /\ Return(r, "failed")
     /\ UNCHANGED hash

Restart(r, l) == Goto(r, "kill") /\ back' = [back EXCEPT ![r] = l]

-----------------------------------------------------------------------------
(* ExecuteFunction and getOrCreateProcess.                                 *)

Call(r, h) ==
  /\ pc[r] = "idle"
  /\ hash' = [hash EXCEPT ![r] = h]
  /\ outcome' = [outcome EXCEPT ![r] = "none"]
  /\ Goto(r, "lookup")
  /\ UNCHANGED <<mapVars, procLock, childVars, code, ptr, attempt, back, gcVars>>

(* The lookup under RLock: it sees the map only while nobody writes it.    *)
Lookup(r) ==
  /\ pc[r] = "lookup"
  /\ pmLock = "free"
  /\ Hold(r, entry[hash[r]])
  /\ Goto(r, IF entry[hash[r]] = Nil THEN "lock" ELSE "check")
  /\ UNCHANGED <<mapVars, procLock, childVars, code, back, callVars, gcVars>>

Check(r) ==
  /\ pc[r] = "check"
  /\ \/ Healthy(ptr[r]) /\ Goto(r, "check2") /\ UNCHANGED back
     \/ ~Healthy(ptr[r]) /\ Restart(r, "lock")
  /\ UNCHANGED <<mapVars, procLock, childVars, code, ptr, callVars, gcVars>>

Lock(r) ==
  /\ pc[r] = "lock"
  /\ pmLock = "free"
  /\ pmLock' = r
  /\ Goto(r, "recheck")
  /\ UNCHANGED <<entry, procLock, childVars, code, ptr, back, callVars, gcVars>>

(* Somebody else installed a process meanwhile.                            *)
RecheckReuse(r) ==
  /\ pc[r] = "recheck"
  /\ entry[hash[r]] # Nil
  /\ Healthy(entry[hash[r]])
  /\ Hold(r, entry[hash[r]])
  /\ pmLock' = "free"
  /\ Goto(r, "check2")
  /\ UNCHANGED <<entry, procLock, childVars, code, back, callVars, gcVars>>

RecheckCreate(r) ==
  /\ pc[r] = "recheck"
  /\ entry[hash[r]] = Nil
  /\ Goto(r, "write")
  /\ UNCHANGED <<mapVars, procLock, childVars, code, ptr, back, callVars, gcVars>>

(* The process that is installed does not answer for as long as the health *)
(* check waits.                                                            *)
RecheckStale(r) ==
  /\ pc[r] = "recheck"
  /\ entry[hash[r]] # Nil
  /\ ~Healthy(entry[hash[r]])
  /\ Goto(r, "drop")
  /\ UNCHANGED <<mapVars, procLock, childVars, code, ptr, back, callVars, gcVars>>

(* It is dropped, whatever it does meanwhile: neither is it killed nor its *)
(* directory removed.                                                      *)
Drop(r) ==
  /\ pc[r] = "drop"
  /\ Uninstall(hash[r])
  /\ Goto(r, "write")
  /\ UNCHANGED <<pmLock, procLock, childVars, code, ptr, back, callVars, gcVars>>

WriteCode(r) ==
  /\ pc[r] = "write"
  /\ code' = [code EXCEPT ![hash[r]] = TRUE]
  /\ Goto(r, "spawn")
  /\ UNCHANGED <<mapVars, procLock, childVars, ptr, back, callVars, gcVars>>

(* MkdirAll or WriteFile fails; a failed write may have truncated the file.*)
WriteFails(r) ==
  /\ pc[r] = "write"
  /\ RemoveAll(hash[r]) \/ UNCHANGED code
  /\ pmLock' = "free"
  /\ Retry(r)
  /\ UNCHANGED <<entry, procLock, childVars, back, gcVars>>

(* package.json, the port or cmd.Start fails.  A failed yarn install is    *)
(* only logged.                                                            *)
PrepareFails(r) ==
  /\ pc[r] = "spawn"
  /\ RemoveAll(hash[r])
  /\ pmLock' = "free"
  /\ Retry(r)
  /\ UNCHANGED <<entry, procLock, childVars, back, gcVars>>

(* The child is started and its ProcessInfo installed before it answers.   *)
Spawn(r, p, q) ==
  /\ pc[r] = "spawn"
  /\ Unused(p)
  /\ FreePort(p, q)
  /\ life' = [life EXCEPT ![p] = "starting"]
  /\ specOf' = [specOf EXCEPT ![p] = hash[r]]
  /\ port' = [port EXCEPT ![p] = q]
  /\ expired' = expired \ {p}
  /\ entry' = [entry EXCEPT ![hash[r]] = p]
  /\ Hold(r, p)
  /\ Goto(r, "wait")
  /\ UNCHANGED <<pmLock, procLock, loaded, hangs, code, back, callVars, gcpc, gcTodo, gcAt>>

Ready(r) ==
  /\ pc[r] = "wait"
  /\ Healthy(ptr[r])
  /\ Goto(r, "verify")
  /\ UNCHANGED <<mapVars, procLock, childVars, code, ptr, back, callVars, gcVars>>

(* Faulty variant: the child that did not become ready is not killed.      *)
WaitTimeoutNoKill(r) ==
  /\ pc[r] = "wait"
  /\ Uninstall(hash[r])
  /\ RemoveAll(hash[r])
  /\ pmLock' = "free"
  /\ Retry(r)
  /\ UNCHANGED <<procLock, childVars, back, gcVars>>

(* healthCheckWait has passed or the context of the call is done.          *)
WaitTimeout(r) ==
  /\ pc[r] = "wait"
  /\ Kill(ptr[r])
  /\ Uninstall(hash[r])
  /\ RemoveAll(hash[r])
  /\ pmLock' = "free"
  /\ Retry(r)
  /\ UNCHANGED <<procLock, specOf, port, hangs, back, gcVars>>

(* Faulty variant: the directory is cleaned up on the way out, as after an *)
(* error.                                                                  *)
VerifyOKCleans(r) ==
  /\ pc[r] = "verify"
  /\ Healthy(ptr[r])
  /\ RemoveAll(hash[r])
  /\ pmLock' = "free"
  /\ Goto(r, "check2")
  /\ UNCHANGED <<entry, procLock, childVars, ptr, back, callVars, gcVars>>

VerifyOK(r) ==
  /\ pc[r] = "verify"
  /\ Healthy(ptr[r])
  /\ pmLock' = "free"
  /\ Goto(r, "check2")
  /\ UNCHANGED <<entry, procLock, childVars, code, ptr, back, callVars, gcVars>>

VerifyFails(r) ==
  /\ pc[r] = "verify"
  /\ ~Healthy(ptr[r])
  /\ Goto(r, "discard")
  /\ UNCHANGED <<mapVars, procLock, childVars, code, ptr, back, callVars, gcVars>>

(* The process is dropped but, unlike in WaitTimeout, not killed.          *)
Discard(r) ==
  /\ pc[r] = "discard"
  /\ Uninstall(hash[r])
  /\ RemoveAll(hash[r])
  /\ pmLock' = "free"
  /\ Retry(r)
  /\ UNCHANGED <<procLock, childVars, back, gcVars>>

(* The second health check, in ExecuteFunction.                            *)
Check2(r) ==
  /\ pc[r] = "check2"
  /\ \/ Healthy(ptr[r]) /\ Goto(r, "plock") /\ UNCHANGED back
     \/ ~Healthy(ptr[r]) /\ Restart(r, "retry")
  /\ UNCHANGED <<mapVars, procLock, childVars, code, ptr, callVars, gcVars>>

(* Faulty variant: the request goes out without process.Lock.              *)
SendUnlocked(r) ==
  /\ pc[r] = "plock"
  /\ procLock' = [procLock EXCEPT ![ptr[r]] = r]
  /\ expired' = expired \ {ptr[r]}
  /\ Goto(r, "exec")
  /\ UNCHANGED <<mapVars, childVars, code, ptr, back, callVars, gcpc, gcTodo, gcAt>>

(* process.Lock.Lock(), LastUsed = now, and the request goes out.          *)
Send(r) ==
  /\ pc[r] = "plock"
  /\ procLock[ptr[r]] = "free"
  /\ procLock' = [procLock EXCEPT ![ptr[r]] = r]
  /\ expired' = expired \ {ptr[r]}
  /\ Goto(r, "exec")
  /\ UNCHANGED <<mapVars, childVars, code, ptr, back, callVars, gcpc, gcTodo, gcAt>>

(* Whoever listens on the port answers with 200: with what its module      *)
(* returned (or threw), or with the error that the module is not there.    *)
Answer(r) ==
  /\ pc[r] = "exec"
  /\ procLock' = [procLock EXCEPT ![ptr[r]] = "free"]
  /\ \E s \in Procs :
       /\ Answers(s, port[ptr[r]])
       /\ \/ loaded[s] /\ Return(r, specOf[s])
          \/ ~(loaded[s] \/ code[specOf[s]]) /\ Return(r, "noModule")
  /\ UNCHANGED <<mapVars, childVars, code, back, hash, gcVars>>

(* Faulty variant: process.Lock is released by a defer, that is after      *)
(* restartProcess.                                                         *)
ExecFailsDeferred(r) ==
  /\ pc[r] = "exec"
  /\ Restart(r, "retry")
  /\ UNCHANGED <<mapVars, procLock, childVars, code, ptr, callVars, gcVars>>

(* Timeout, broken connection or a status other than 200.                  *)
ExecFails(r) ==
  /\ pc[r] = "exec"
  /\ procLock' = [procLock EXCEPT ![ptr[r]] = "free"]
  /\ Restart(r, "retry")
  /\ UNCHANGED <<mapVars, childVars, code, ptr, callVars, gcVars>>

-----------------------------------------------------------------------------
(* restartProcess: kill and removal of the directory under no lock, then   *)
(* the removal of the entry, if it still is this process, under pm.lock.   *)

(* Faulty variant: the old process is left running.                        *)
RestartKillNot(r) ==
  /\ pc[r] = "kill"
  /\ Goto(r, "rmdir")
  /\ UNCHANGED <<mapVars, procLock, childVars, code, ptr, back, callVars, gcVars>>

RestartKill(r) ==
  /\ pc[r] = "kill"
  /\ Kill(ptr[r])
  /\ Goto(r, "rmdir")
  /\ UNCHANGED <<mapVars, procLock, specOf, port, hangs, code, ptr, back, callVars, gcVars>>

RestartRemoveDir(r) ==
  /\ pc[r] = "rmdir"
  /\ RemoveAll(specOf[ptr[r]])
  /\ Goto(r, "unmap")
  /\ UNCHANGED <<mapVars, procLock, childVars, ptr, back, callVars, gcVars>>

(* Faulty variant: the entry is deleted by hash, whatever process it names.*)
RestartUnmapByHash(r) ==
  /\ pc[r] = "unmap"
  /\ pmLock = "free"
  /\ Uninstall(hash[r])
  /\ \/ /\ back[r] = "lock"
        /\ Goto(r, "lock")
        /\ Hold(r, Nil)
        /\ UNCHANGED callVars
     \/ /\ back[r] = "retry"
        /\ Retry(r)
  /\ back' = [back EXCEPT ![r] = "lock"]
  /\ UNCHANGED <<pmLock, procLock, childVars, code, gcVars>>

RestartUnmap(r) ==
  /\ pc[r] = "unmap"
  /\ pmLock = "free"
  /\ entry' = [h \in Hashes |-> IF entry[h] = ptr[r] THEN Nil ELSE entry[h]]
  /\ \/ /\ back[r] = "lock"
        /\ Goto(r, "lock")
        /\ Hold(r, Nil)
        /\ UNCHANGED callVars
     \/ /\ back[r] = "retry"
        /\ Retry(r)
  /\ back' = [back EXCEPT ![r] = "lock"]
  /\ UNCHANGED <<pmLock, procLock, childVars, code, gcVars>>

-----------------------------------------------------------------------------
(* collectGarbage.                                                         *)

(* now is read before the lock is asked for; any process in the map may    *)
(* turn out to have been idle for longer than idleTimeout.                 *)
GcTick ==
  /\ gcpc = "sleep"
  /\ gcpc' = "lock"
  /\ expired' \in SUBSET {p \in Procs : \E h \in Hashes : entry[h] = p}
  /\ UNCHANGED <<mapVars, procLock, childVars, code, pc, ptr, back, callVars, gcTodo, gcAt>>

GcLock ==
  /\ gcpc = "lock"
  /\ pmLock = "free"
  /\ pmLock' = "gc"
  /\ gcTodo' = {h \in Hashes : entry[h] # Nil}
  /\ gcpc' = "iterate"
  /\ UNCHANGED <<entry, procLock, childVars, code, pc, ptr, back, callVars, gcAt, expired>>

(* Faulty variant: the collector does not take info.Lock.                  *)
GcVisitUnlocked(h) ==
  /\ gcpc = "iterate"
  /\ h \in gcTodo
  /\ gcAt' = h
  /\ gcTodo' = gcTodo \ {h}
  /\ gcpc' = "visit"
  /\ UNCHANGED <<mapVars, procLock, childVars, code, pc, ptr, back, callVars, expired>>

(* info.Lock.Lock(), while pm.lock is held.                                *)
GcVisit(h) ==
  /\ gcpc = "iterate"
  /\ h \in gcTodo
  /\ procLock[entry[h]] = "free"
  /\ procLock' = [procLock EXCEPT ![entry[h]] = "gc"]
  /\ gcAt' = h
  /\ gcTodo' = gcTodo \ {h}
  /\ gcpc' = "visit"
  /\ UNCHANGED <<mapVars, childVars, code, pc, ptr, back, callVars, expired>>

GcUnlock ==
  /\ procLock' = [procLock EXCEPT ![entry[gcAt]] = "free"]
  /\ gcAt' = Nil
  /\ gcpc' = "iterate"

GcCollect ==
  /\ gcpc = "visit"
  /\ entry[gcAt] \in expired
  /\ Kill(entry[gcAt])
  /\ RemoveAll(gcAt)
  /\ Uninstall(gcAt)
  /\ GcUnlock
  /\ UNCHANGED <<pmLock, specOf, port, hangs, pc, ptr, back, callVars, gcTodo, expired>>

(* Faulty variant: the round starts over after an entry it kept.           *)
GcSkipStartsOver ==
  /\ gcpc = "visit"
  /\ entry[gcAt] \notin expired
  /\ GcUnlock
  /\ gcTodo' = {h \in Hashes : entry[h] # Nil}
  /\ UNCHANGED <<mapVars, childVars, code, pc, ptr, back, callVars, expired>>

GcSkip ==
  /\ gcpc = "visit"
  /\ entry[gcAt] \notin expired
  /\ GcUnlock
  /\ UNCHANGED <<mapVars, childVars, code, pc, ptr, back, callVars, gcTodo, expired>>

GcDone ==
  /\ gcpc = "iterate"
  /\ gcTodo = {}
  /\ pmLock' = "free"
  /\ gcpc' = "sleep"
  /\ expired' = {}
  /\ UNCHANGED <<entry, procLock, childVars, code, pc, ptr, back, callVars, gcTodo, gcAt>>

-----------------------------------------------------------------------------
(* The children.                                                           *)

(* The child exits when its code file is missing (index.ts) or its port is *)
(* taken (server.ts), otherwise it starts to answer.                       *)
Boot(p) ==
  /\ life[p] = "starting"
  /\ life' = [life EXCEPT ![p] =
       IF code[specOf[p]] /\ ~\E s \in Procs : Bound(s) /\ port[s] = port[p]
       THEN "ready" ELSE "dead"]
  /\ UNCHANGED <<mapVars, procLock, specOf, port, loaded, hangs, code, pc, ptr, back, callVars, gcVars>>

(* The executor imports the module for a request, which may meanwhile have *)
(* been given up, if the code file is still there; node caches it.         *)
Import(p) ==
  /\ life[p] = "ready"
  /\ code[specOf[p]]
  /\ \E r \in Requests : pc[r] \in {"exec", "kill"} /\ port[ptr[r]] = port[p]
  /\ loaded' = [loaded EXCEPT ![p] = TRUE]
  /\ UNCHANGED <<mapVars, procLock, life, specOf, port, hangs, code, pc, ptr, back, callVars, gcVars>>

(* A child exits at any time: out of memory, process.exit in user code.    *)
Crash(p) ==
  /\ life[p] \in {"starting", "ready", "hung"}
  /\ Kill(p)
  /\ UNCHANGED <<mapVars, procLock, specOf, port, hangs, code, pc, ptr, back, callVars, gcVars>>

(* User code blocks the event loop for longer than the health check waits. *)
Hang(p) ==
  /\ life[p] = "ready"
  /\ hangs < MaxHangs
  /\ hangs' = hangs + 1
  /\ life' = [life EXCEPT ![p] = "hung"]
  /\ UNCHANGED <<mapVars, procLock, specOf, port, loaded, code, pc, ptr, back, callVars, gcVars>>

Recover(p) ==
  /\ life[p] = "hung"
  /\ life' = [life EXCEPT ![p] = "ready"]
  /\ UNCHANGED <<mapVars, procLock, specOf, port, loaded, hangs, code, pc, ptr, back, callVars, gcVars>>

-----------------------------------------------------------------------------

RequestStep(r) ==
  \/ Lookup(r) \/ Check(r) \/ Lock(r) \/ RecheckReuse(r) \/ RecheckCreate(r)
  \/ RecheckStale(r) \/ Drop(r) \/ WriteCode(r) \/ WriteFails(r) \/ PrepareFails(r)
  \/ \E p \in Procs, q \in Procs : Spawn(r, p, q)
  \/ Ready(r) \/ WaitTimeout(r) \/ VerifyOK(r) \/ VerifyFails(r) \/ Discard(r)
  \/ Check2(r) \/ Send(r) \/ Answer(r) \/ ExecFails(r)
  \/ RestartKill(r) \/ RestartRemoveDir(r) \/ RestartUnmap(r)

GcRound == GcLock \/ (\E h \in Hashes : GcVisit(h)) \/ GcCollect \/ GcSkip \/ GcDone

ChildStep(p) == Boot(p) \/ Import(p) \/ Crash(p) \/ Hang(p) \/ Recover(p)

Next ==
  \/ \E r \in Requests : RequestStep(r) \/ \E h \in Hashes : Call(r, h)
  \/ GcTick \/ GcRound
  \/ \E p \in Procs : ChildStep(p)

Spec == Init /\ [][Next]_vars

(* Go's sync.Mutex hands the lock to a waiter that has starved, RWMutex    *)
(* queues its writers on one and lets the waiting readers in first, so an  *)
(* acquisition that is enabled again and again succeeds: strong fairness.  *)
(* Every HTTP exchange and every wait has a timeout.  Nothing makes a      *)
(* client call, the ticker fire or a child change.                         *)
Fairness == SF_vars(GcRound) /\ \A r \in Requests : SF_vars(RequestStep(r))

FairSpec == Spec /\ Fairness
-----------------------------------------------------------------------------
(* Properties.                                                             *)

TypeOK ==
  /\ entry \in [Hashes -> Procs \cup {Nil}]
  /\ pmLock \in Holders
  /\ procLock \in [Procs -> Holders]
  /\ life \in [Procs -> Lives]
  /\ specOf \in [Procs -> Hashes \cup {Nil}]
  /\ port \in [Procs -> Procs]
  /\ loaded \in [Procs -> BOOLEAN]
  /\ code \in [Hashes -> BOOLEAN]
  /\ pc \in [Requests -> RequestPCs]
  /\ hash \in [Requests -> Hashes \cup {Nil}]
  /\ ptr \in [Requests -> Procs \cup {Nil}]
  /\ attempt \in [Requests -> 0..MaxRetries]
  /\ back \in [Requests -> {"lock", "retry"}]
  /\ outcome \in [Requests -> Outcomes]
  /\ gcpc \in GcPCs
  /\ gcTodo \in SUBSET Hashes
  /\ gcAt \in Hashes \cup {Nil}
  /\ expired \in SUBSET Procs
  /\ hangs \in 0..MaxHangs

(* What TypeOK leaves open: a request that runs carries a spec, a child    *)
(* that runs was created for one.                                          *)
SpecsKnown ==
  /\ \A r \in Requests : pc[r] # "idle" => hash[r] \in Hashes
  /\ \A p \in Procs : life[p] # "dead" => specOf[p] \in Hashes

TypeInv == TypeOK /\ SpecsKnown

(* Where a request is tells which locks it holds; the collector holds      *)
(* pm.lock for a whole round and one process's Lock during a visit.        *)
Creating == {"recheck", "drop", "write", "spawn", "wait", "verify", "discard"}
Holding == {"check", "kill", "rmdir", "unmap", "wait", "verify", "discard", "check2", "plock", "exec"}

Locks ==
  /\ \A r \in Requests : pmLock = r <=> pc[r] \in Creating
  /\ pmLock = "gc" <=> gcpc \in {"iterate", "visit"}
  /\ \A r \in Requests, p \in Procs : procLock[p] = r <=> pc[r] = "exec" /\ ptr[r] = p
  /\ \A p \in Procs : procLock[p] = "gc" <=> gcpc = "visit" /\ entry[gcAt] = p
  /\ gcpc = "visit" => gcAt \in Hashes \ gcTodo /\ entry[gcAt] # Nil
  /\ gcpc \in {"iterate", "visit"} => \A h \in gcTodo : entry[h] # Nil

(* A request works with a process of its own spec, an entry names one of   *)
(* its hash, and a process is installed while its creator waits for it.    *)
Pointers ==
  /\ \A r \in Requests :
       IF pc[r] \in Holding THEN ptr[r] \in Procs /\ specOf[ptr[r]] = hash[r] ELSE ptr[r] = Nil
  /\ \A h \in Hashes : entry[h] # Nil => specOf[entry[h]] = h
  /\ \A r \in Requests : pc[r] \in {"wait", "verify", "discard"} => entry[hash[r]] = ptr[r]
  /\ \A r \in Requests : pc[r] \in {"write", "spawn"} => entry[hash[r]] = Nil

(* Children that run have ports of their own, although a port is only free *)
(* when it is picked: one child starts at a time.  A process is killed but *)
(* never started again, and until it has answered only its creator knows   *)
(* it.                                                                     *)
Lifecycle ==
  /\ \A p, s \in Procs :
       life[p] # "dead" /\ life[s] # "dead" /\ port[p] = port[s] => p = s
  /\ \A r \in Requests : pc[r] \in {"rmdir", "unmap"} => life[ptr[r]] = "dead"
  /\ \A p \in Procs :
       life[p] = "starting" => \E r \in Requests : pc[r] = "wait" /\ ptr[r] = p
  /\ \A r \in Requests : pc[r] \in Holding \ {"wait"} => life[ptr[r]] # "starting"

(* The inductive invariant.                                                *)
Owners == TypeInv /\ Locks /\ Pointers
IndInv == Owners /\ Lifecycle

(* Without PortReuse the port names the process.                           *)
OwnPorts == \A p \in Procs : port[p] = p

(* README: every piece of code has its own instance.  What a call returns  *)
(* was computed by the code of its own spec.                               *)
OwnInstance == \A r \in Requests : outcome[r] \in Hashes => outcome[r] = hash[r]

(* While the child of a call runs, nobody else answers the call, also when *)
(* ports are handed out again: an answer of another spec's code comes only *)
(* to a call whose own child is dead.                                      *)
OwnChildAnswers ==
  [][\A r \in Requests :
       pc[r] = "exec" /\ pc'[r] = "idle" /\ outcome'[r] \in Hashes \ {hash[r]}
         => life[ptr[r]] = "dead"]_vars

(* Lock order pm.lock before ProcessInfo.Lock: the collector takes a       *)
(* process's Lock while it holds pm.lock, so no goroutine that holds a     *)
(* process's Lock may hold or be on its way to pm.lock (execution.go       *)
(* unlocks before restartProcess).                                         *)
LockOrder ==
  \A r \in Requests, p \in Procs :
    procLock[p] = r => pmLock # r /\ pc[r] \notin {"lookup", "lock", "unmap"}

(* A process is in the map before it is ready, yet no other goroutine ever *)
(* gets hold of one that has not answered its readiness probe.             *)
HalfStartedHidden ==
  \A r \in Requests :
    pc[r] \in {"check", "check2", "plock", "exec"} => life[ptr[r]] # "starting"

(* At most one request is in flight at any child, whichever ProcessInfo    *)
(* the goroutines hold.                                                    *)
OneRequestPerChild ==
  \A r1, r2 \in Requests :
    pc[r1] = "exec" /\ pc[r2] = "exec" /\ port[ptr[r1]] = port[ptr[r2]] => r1 = r2

(* The collector never kills a child while a request is in flight at it.   *)
GcSparesBusy ==
  [][\A r \in Requests :
       pc[r] = "exec" /\ gcpc = "visit" /\ gcpc' # "visit"
         => life'[ptr[r]] = life[ptr[r]]]_vars

(* A process leaves the map only when it is dead, or when the goroutine    *)
(* that holds pm.lock has seen it not answer: a restart that comes late,   *)
(* for a process already replaced, does not take the successor out.        *)
GivenUp(h) == \E r \in Requests : pc[r] \in {"drop", "discard"} /\ hash[r] = h

SuccessorKept ==
  [][\A h \in Hashes :
       entry[h] # Nil /\ entry'[h] # entry[h] => life'[entry[h]] = "dead" \/ GivenUp(h)]_vars

(* README: unused servers are garbage collected.  A child that runs is in  *)
(* the map, where the collector finds it, or a goroutine is about to kill  *)
(* it.                                                                     *)
Orphan(p) ==
  /\ life[p] \in {"starting", "ready", "hung"}
  /\ \A h \in Hashes : entry[h] # p
  /\ \A r \in Requests : ptr[r] = p => pc[r] \in {"idle", "rmdir", "unmap"}

NoOrphan == \A p \in Procs : ~Orphan(p)

(* Only a child that stops answering while it runs can be lost to the      *)
(* collector, and each such stop loses at most that one: no crash, failed  *)
(* creation, restart or collection ever does.                              *)
LostByHang == Cardinality({p \in Procs : Orphan(p)}) <= hangs

(* Why: a child that answers is the one installed for its spec, except     *)
(* those that hang, were dropped while they did or are about to be.        *)
Strayed ==
  {p \in Procs :
     \/ life[p] = "hung"
     \/ life[p] = "ready" /\ (entry[specOf[p]] # p \/ GivenUp(specOf[p]))}

StrayInv == IsFiniteSet(Strayed) /\ Cardinality(Strayed) <= hangs

(* At most one child runs for a spec.                                      *)
OneServerPerSpec ==
  \A p1, p2 \in Procs :
    /\ life[p1] \in {"starting", "ready", "hung"}
    /\ life[p2] \in {"starting", "ready", "hung"}
    /\ specOf[p1] = specOf[p2]
    => p1 = p2

(* The directory belongs to its process (processinfo.go): while a child in *)
(* the map may still have to import its module, its code file is there.    *)
OwnDirectory ==
  \A h \in Hashes :
    entry[h] # Nil /\ life[entry[h]] = "ready" /\ ~loaded[entry[h]] => code[h]

(* Why one request at a time keeps the directories: a restart then comes   *)
(* before any successor, and a child that answers has found its code file. *)
NoSuccessorYet == \A r \in Requests : pc[r] \in Holding => entry[hash[r]] \in {ptr[r], Nil}
CodeInPlace ==
  \A h \in Hashes :
    entry[h] # Nil /\ life[entry[h]] \in {"ready", "hung"} /\ ~loaded[entry[h]] => code[h]

(* Callers see what FunctionCalls promises.                                *)
Service == INSTANCE FunctionCalls WITH
  status <- [r \in Requests |-> IF pc[r] = "idle" THEN "idle" ELSE "busy"],
  spec <- hash, tries <- attempt, answer <- outcome

ImplementsFunctionCalls == Service!Spec

(* Every call returns, whatever the children, the other calls and the      *)
(* collector do.                                                           *)
CallReturns == \A r \in Requests : pc[r] # "idle" ~> pc[r] = "idle"

(* A collection round ends, although it waits for requests in flight with  *)
(* pm.lock held.                                                           *)
RoundEnds == gcpc = "lock" ~> gcpc = "sleep"
=============================================================================
