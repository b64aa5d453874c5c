------------------------ MODULE ProcessManagerProofs ------------------------
(***************************************************************************)
(* Theorems about ProcessManager and about Executions, which extends it,   *)
(* for every number of requests, specs and processes and every bound on    *)
(* retries and hangs.                                                      *)
(***************************************************************************)
EXTENDS Executions, FiniteSetTheorems, TLAPS

-----------------------------------------------------------------------------
(* The state of every behaviour has the types of TypeOK.                   *)

(* A retry keeps the types.                                                *)
LEMMA RetryType ==
  ASSUME TypeOK, NEW r \in Requests, Retry(r)
  PROVE  /\ pc' \in [Requests -> RequestPCs]
         /\ ptr' \in [Requests -> Procs \cup {Nil}]
         /\ attempt' \in [Requests -> 0..MaxRetries]
         /\ hash' \in [Requests -> Hashes \cup {Nil}]
         /\ outcome' \in [Requests -> Outcomes]
         /\ pc'[r] # "idle" => hash'[r] = hash[r]
         /\ \A s \in Requests \ {r} : pc'[s] = pc[s] /\ hash'[s] = hash[s]
  BY BoundsAssumption DEF TypeOK, Retry, Return, Goto, Hold, RequestPCs, Outcomes

(* So does each step of a request.                                         *)
LEMMA TypeRequest ==
  ASSUME TypeInv, NEW r \in Requests, RequestStep(r)
  PROVE  TypeInv'
  <1> USE DEF TypeInv, TypeOK, SpecsKnown, mapVars, childVars, callVars, gcVars, Goto, Hold, Kill,
              RemoveAll, Uninstall, Restart, Holders, RequestPCs, Lives
  <1>1. CASE Lookup(r) BY <1>1 DEF Lookup
  <1>2. CASE Check(r) BY <1>2 DEF Check
  <1>3. CASE Lock(r) BY <1>3 DEF Lock
  <1>4. CASE RecheckReuse(r) BY <1>4 DEF RecheckReuse
  <1>5. CASE RecheckCreate(r) \/ RecheckStale(r) \/ Drop(r)
    BY <1>5 DEF RecheckCreate, RecheckStale, Drop
  <1>6. CASE WriteCode(r) BY <1>6 DEF WriteCode
  <1>7. CASE WriteFails(r) BY <1>7, RetryType DEF WriteFails
  <1>8. CASE PrepareFails(r) BY <1>8, RetryType DEF PrepareFails
  <1>9. ASSUME NEW p \in Procs, NEW q \in Procs, Spawn(r, p, q)
        PROVE  TypeInv'
    BY <1>9 DEF Spawn
  <1>10. CASE Ready(r) BY <1>10 DEF Ready
  <1>11. CASE WaitTimeout(r) BY <1>11, RetryType DEF WaitTimeout
  <1>12. CASE VerifyOK(r) \/ VerifyFails(r) BY <1>12 DEF VerifyOK, VerifyFails
  <1>13. CASE Discard(r) BY <1>13, RetryType DEF Discard
  <1>14. CASE Check2(r) BY <1>14 DEF Check2
  <1>15. CASE Send(r) BY <1>15 DEF Send
  <1>16. CASE Answer(r)
    <2>1. PICK s \in Procs :
            life[s] = "ready" /\ (Return(r, specOf[s]) \/ Return(r, "noModule"))
      BY <1>16 DEF Answer, Answers
    <2>2. outcome' \in [Requests -> Outcomes]
      BY <2>1 DEF Return, Outcomes
    <2>3. attempt' \in [Requests -> 0..MaxRetries]
      BY <2>1, BoundsAssumption DEF Return
    <2> QED
      BY <1>16, <2>1, <2>2, <2>3 DEF Answer, Answers, Return
  <1>17. CASE ExecFails(r) BY <1>17 DEF ExecFails
  <1>18. CASE RestartKill(r) BY <1>18 DEF RestartKill
  <1>19. CASE RestartRemoveDir(r) BY <1>19 DEF RestartRemoveDir
  <1>20. CASE RestartUnmap(r) BY <1>20, RetryType DEF RestartUnmap
  <1> QED
    BY <1>1, <1>2, <1>3, <1>4, <1>5, <1>6, <1>7, <1>8, <1>9, <1>10, <1>11, <1>12,
       <1>13, <1>14, <1>15, <1>16, <1>17, <1>18, <1>19, <1>20 DEF RequestStep

(* So does each step of anybody else.                                      *)
LEMMA TypeOthers ==
  ASSUME TypeInv
  PROVE  /\ \A r \in Requests, h \in Hashes : Call(r, h) => TypeInv'
         /\ GcTick => TypeInv'
         /\ GcRound => TypeInv'
         /\ \A p \in Procs : ChildStep(p) => TypeInv'
  <1> USE DEF TypeInv, TypeOK, SpecsKnown, mapVars, childVars, callVars, gcVars, Goto,
              Kill, RemoveAll, Uninstall, Holders, RequestPCs, Lives, GcPCs
  <1>1. ASSUME NEW r \in Requests, NEW h \in Hashes, Call(r, h)
        PROVE  TypeInv'
    BY <1>1, BoundsAssumption DEF Call, Outcomes
  <1>2. GcTick => TypeInv'
    BY DEF GcTick
  <1>3. ASSUME GcRound
        PROVE  TypeInv'
    <2>1. CASE GcLock BY <2>1 DEF GcLock
    <2>2. ASSUME NEW h \in Hashes, GcVisit(h)
          PROVE  TypeInv'
      BY <2>2 DEF GcVisit
    <2>3. CASE GcCollect BY <2>3 DEF GcCollect, GcUnlock
    <2>4. CASE GcSkip BY <2>4 DEF GcSkip, GcUnlock
    <2>5. CASE GcDone BY <2>5 DEF GcDone
    <2> QED
      BY <1>3, <2>1, <2>2, <2>3, <2>4, <2>5 DEF GcRound
  <1>4. ASSUME NEW p \in Procs, ChildStep(p)
        PROVE  TypeInv'
    <2>1. CASE Boot(p) BY <2>1 DEF Boot
    <2>2. CASE Crash(p) BY <2>2 DEF Crash
    <2>3. CASE Hang(p) BY <2>3, BoundsAssumption DEF Hang
    <2>4. CASE Recover(p) BY <2>4 DEF Recover
    <2>5. CASE Import(p) BY <2>5 DEF Import
    <2> QED
      BY <1>4, <2>1, <2>2, <2>3, <2>4, <2>5 DEF ChildStep
  <1> QED
    BY <1>1, <1>2, <1>3, <1>4

(* So does every step.                                                     *)
LEMMA TypeStep == TypeInv /\ [Next]_vars => TypeInv'
  <1> SUFFICES ASSUME TypeInv, [Next]_vars
               PROVE  TypeInv'
    OBVIOUS
  <1>1. CASE Next
    BY <1>1, TypeRequest, TypeOthers DEF Next
  <1>2. CASE UNCHANGED vars
    BY <1>2 DEF vars, mapVars, childVars, callVars, gcVars, TypeInv, TypeOK, SpecsKnown
  <1> QED
    BY <1>1, <1>2

(* The types hold at first.                                                *)
LEMMA TypeInit == Init => TypeInv
  BY BoundsAssumption
  DEF Init, TypeInv, TypeOK, SpecsKnown, Holders, Lives, RequestPCs, GcPCs, Outcomes

(* Every reachable state has the types of TypeOK.                          *)
THEOREM TypeCorrect == Spec => []TypeOK
  <1>1. TypeInv => TypeOK
    BY DEF TypeInv
  <1> QED
    BY TypeInit, TypeStep, <1>1, PTL DEF Spec

-----------------------------------------------------------------------------
(* Who holds which lock, and what the pointers name.                       *)

(* A retry begins again or gives up, and holds nothing.                    *)
LEMMA RetryGoes ==
  ASSUME TypeInv, NEW r \in Requests, Retry(r)
  PROVE  /\ pc' \in [Requests -> RequestPCs] /\ pc'[r] \in {"idle", "lookup"}
         /\ ptr' \in [Requests -> Procs \cup {Nil}] /\ ptr'[r] = Nil
         /\ hash' = hash
         /\ \A s \in Requests \ {r} : pc'[s] = pc[s] /\ ptr'[s] = ptr[s]
  BY RetryType DEF TypeInv, TypeOK, Retry, Return, Goto, Hold

(* A step of a request keeps who holds what and who points where.          *)
LEMMA OwnersRequest ==
  ASSUME TypeInv, Locks, Pointers, NEW r \in Requests, RequestStep(r)
  PROVE  Locks' /\ Pointers'
  <1> USE RequestsAssumption, ProcsAssumption, HashesAssumption
      DEF TypeInv, TypeOK, SpecsKnown, Locks, Pointers, mapVars, childVars, callVars, gcVars,
          Goto, Hold, Kill, Uninstall, Restart, Holders, Creating, Holding, RequestPCs, GcPCs
  <1>1. CASE Lookup(r) BY <1>1 DEF Lookup
  <1>2. CASE Check(r) BY <1>2 DEF Check
  <1>3. CASE Lock(r) BY <1>3 DEF Lock
  <1>4. CASE RecheckReuse(r) BY <1>4 DEF RecheckReuse
  <1>5. CASE RecheckCreate(r) \/ RecheckStale(r) \/ Drop(r)
    BY <1>5 DEF RecheckCreate, RecheckStale, Drop
  <1>6. CASE WriteCode(r) BY <1>6 DEF WriteCode
  <1>7. CASE WriteFails(r)
    <2>1. Locks' BY <1>7, RetryGoes, SMTT(30) DEF WriteFails
    <2>2. Pointers' BY <1>7, RetryGoes DEF WriteFails
    <2> QED
      BY <2>1, <2>2
  <1>8. CASE PrepareFails(r) BY <1>8, RetryGoes DEF PrepareFails
  <1>9. ASSUME NEW p \in Procs, NEW q \in Procs, Spawn(r, p, q)
        PROVE  Locks' /\ Pointers'
    BY <1>9 DEF Spawn, Unused
  <1>10. CASE Ready(r) BY <1>10 DEF Ready
  <1>11. CASE WaitTimeout(r)
    <2>1. Locks' BY <1>11, RetryGoes DEF WaitTimeout
    <2>2. Pointers' BY <1>11, RetryGoes DEF WaitTimeout
    <2> QED
      BY <2>1, <2>2
  <1>12. CASE VerifyOK(r) \/ VerifyFails(r) BY <1>12 DEF VerifyOK, VerifyFails
  <1>13. CASE Discard(r) BY <1>13, RetryGoes DEF Discard
  <1>14. CASE Check2(r)
    <2>1. Locks' BY <1>14 DEF Check2
    <2>2. Pointers' BY <1>14 DEF Check2
    <2> QED
      BY <2>1, <2>2
  <1>15. CASE Send(r) BY <1>15 DEF Send
  <1>16. CASE Answer(r) BY <1>16 DEF Answer, Answers, Return
  <1>17. CASE ExecFails(r) BY <1>17 DEF ExecFails
  <1>18. CASE RestartKill(r) BY <1>18 DEF RestartKill
  <1>19. CASE RestartRemoveDir(r) BY <1>19 DEF RestartRemoveDir
  <1>20. CASE RestartUnmap(r) BY <1>20, RetryGoes DEF RestartUnmap
  <1> QED
    BY <1>1, <1>2, <1>3, <1>4, <1>5, <1>6, <1>7, <1>8, <1>9, <1>10, <1>11, <1>12,
       <1>13, <1>14, <1>15, <1>16, <1>17, <1>18, <1>19, <1>20 DEF RequestStep

(* So does a step of anybody else.                                         *)
LEMMA OwnersOthers ==
  ASSUME TypeInv, Locks, Pointers
  PROVE  /\ \A r \in Requests, h \in Hashes : Call(r, h) => Locks' /\ Pointers'
         /\ GcTick => Locks' /\ Pointers'
         /\ GcRound => Locks' /\ Pointers'
         /\ \A p \in Procs : ChildStep(p) => Locks' /\ Pointers'
  <1> USE RequestsAssumption, ProcsAssumption, HashesAssumption
      DEF TypeInv, TypeOK, SpecsKnown, Locks, Pointers, mapVars, childVars, callVars, gcVars,
          Goto, Kill, Uninstall, Holders, Creating, Holding, RequestPCs, GcPCs
  <1>1. ASSUME NEW r \in Requests, NEW h \in Hashes, Call(r, h)
        PROVE  Locks' /\ Pointers'
    BY <1>1 DEF Call
  <1>2. GcTick => Locks' /\ Pointers'
    BY DEF GcTick
  <1>3. ASSUME GcRound
        PROVE  Locks' /\ Pointers'
    <2>1. CASE GcLock BY <2>1 DEF GcLock
    <2>2. ASSUME NEW h \in Hashes, GcVisit(h)
          PROVE  Locks' /\ Pointers'
      BY <2>2 DEF GcVisit
    <2>3. CASE GcCollect BY <2>3 DEF GcCollect, GcUnlock
    <2>4. CASE GcSkip BY <2>4 DEF GcSkip, GcUnlock
    <2>5. CASE GcDone BY <2>5 DEF GcDone
    <2> QED
      BY <1>3, <2>1, <2>2, <2>3, <2>4, <2>5 DEF GcRound
  <1>4. ASSUME NEW p \in Procs, ChildStep(p)
        PROVE  Locks' /\ Pointers'
    BY <1>4 DEF ChildStep, Boot, Import, Crash, Hang, Recover
  <1> QED
    BY <1>1, <1>2, <1>3, <1>4

(* So it is in every run.                                                  *)
LEMMA OwnersInvariant == Spec => []Owners
  <1>1. Init => Owners
    BY TypeInit, RequestsAssumption, ProcsAssumption
    DEF Init, Owners, Locks, Pointers, Creating, Holding
  <1>2. Owners /\ [Next]_vars => Owners'
    <2> SUFFICES ASSUME Owners, [Next]_vars
                 PROVE  Owners'
      OBVIOUS
    <2>1. TypeInv'
      BY TypeStep DEF Owners
    <2>2. CASE Next
      BY <2>1, <2>2, OwnersRequest, OwnersOthers DEF Next, Owners
    <2>3. CASE UNCHANGED vars
      BY <2>1, <2>3 DEF vars, mapVars, childVars, callVars, gcVars, Owners, Locks, Pointers
    <2> QED
      BY <2>2, <2>3
  <1> QED
    BY <1>1, <1>2, PTL DEF Spec

(* No goroutine that holds a process's Lock holds pm.lock or waits for it, *)
(* so that goroutines and collector never wait for one another in a circle.*)
THEOREM LocksInOrder == Spec => []LockOrder
  <1>1. Owners => LockOrder
    BY DEF Owners, Locks, LockOrder, TypeInv, TypeOK, Creating
  <1> QED
    BY OwnersInvariant, <1>1, PTL

(* The collector never kills a child while a request is in flight at it:   *)
(* it holds the Lock that the request would hold.                          *)
THEOREM CollectorSparesBusy == Spec => GcSparesBusy
  <1> DEFINE Spares == \A r \in Requests :
               pc[r] = "exec" /\ gcpc = "visit" /\ gcpc' # "visit" => life'[ptr[r]] = life[ptr[r]]
  <1>1. Owners /\ [Next]_vars => [Spares]_vars
    <2> SUFFICES ASSUME Owners, Next, NEW r \in Requests,
                        pc[r] = "exec", gcpc = "visit", gcpc' # "visit"
                 PROVE  life'[ptr[r]] = life[ptr[r]]
      OBVIOUS
    <2>1. GcRound
      BY DEF Next, RequestStep, Call, ChildStep, GcTick, gcVars,
             Lookup, Check, Lock, RecheckReuse, RecheckCreate, RecheckStale, Drop, WriteCode,
             WriteFails, PrepareFails, Spawn, Ready, WaitTimeout, VerifyOK, VerifyFails, Discard,
             Check2, Send,
             Answer, ExecFails, RestartKill, RestartRemoveDir, RestartUnmap,
             Boot, Import, Crash, Hang, Recover
    <2>2. ptr[r] \in Procs /\ ptr[r] # entry[gcAt]
      BY RequestsAssumption DEF Owners, Locks, Pointers, Holding
    <2>3. CASE GcCollect
      BY <2>2, <2>3 DEF GcCollect, Kill, Owners, TypeInv, TypeOK
    <2> QED
      BY <2>1, <2>3 DEF GcRound, GcLock, GcVisit, GcSkip, GcDone, childVars
  <1> QED
    BY OwnersInvariant, <1>1, PTL DEF Spec, GcSparesBusy

-----------------------------------------------------------------------------
(* What follows from the lives and the ports of the children.              *)

(* While a child runs, who answers on its port is that child, so a health  *)
(* check says of it what is the case.                                      *)
LEMMA HealthyIsReady ==
  ASSUME Lifecycle, NEW p \in Procs
  PROVE  /\ life[p] # "dead" => (Healthy(p) <=> life[p] = "ready")
         /\ ~Healthy(p) => life[p] # "ready"
  BY DEF Healthy, Answers, Lifecycle

(* An answer leaves the children and the other requests as they are.       *)
LEMMA AnswerLifecycle ==
  ASSUME Owners, Lifecycle, NEW r \in Requests, Answer(r)
  PROVE  Lifecycle'
  <1>1. PICK a : Return(r, a)
    BY DEF Answer
  <1>2. /\ UNCHANGED <<life, port>>
        /\ pc' = [pc EXCEPT ![r] = "idle"] /\ ptr' = [ptr EXCEPT ![r] = Nil]
    BY <1>1 DEF Answer, Return, Goto, Hold, childVars
  <1>3. \A q \in Requests \ {r} : pc'[q] = pc[q] /\ ptr'[q] = ptr[q]
    BY <1>2 DEF Owners, TypeInv, TypeOK
  <1>4. pc[r] = "exec" /\ pc'[r] = "idle"
    BY <1>2 DEF Answer, Owners, TypeInv, TypeOK
  <1> QED
    BY <1>2, <1>3, <1>4 DEF Lifecycle, Holding

(* A step of a request keeps the lives of the processes in order.          *)
LEMMA LifecycleRequest ==
  ASSUME Owners, Lifecycle, NEW r \in Requests, RequestStep(r)
  PROVE  Lifecycle'
  <1> USE RequestsAssumption, ProcsAssumption
      DEF Owners, TypeInv, TypeOK, SpecsKnown, Locks, Pointers, Lifecycle,
          mapVars, childVars, callVars, gcVars, Goto, Hold, Kill, Restart,
          Holders, Creating, Holding, RequestPCs, Lives
  <1>1. CASE Lookup(r) BY <1>1 DEF Lookup
  <1>2. CASE Check(r) BY <1>2 DEF Check
  <1>3. CASE Lock(r) BY <1>3 DEF Lock
  <1>4. CASE RecheckReuse(r) BY <1>4, HealthyIsReady DEF RecheckReuse
  <1>5. CASE RecheckCreate(r) \/ RecheckStale(r) \/ Drop(r)
    BY <1>5 DEF RecheckCreate, RecheckStale, Drop
  <1>6. CASE WriteCode(r) BY <1>6 DEF WriteCode
  <1>7. CASE WriteFails(r) BY <1>7, RetryGoes DEF WriteFails
  <1>8. CASE PrepareFails(r) BY <1>8, RetryGoes DEF PrepareFails
  <1>9. ASSUME NEW p \in Procs, NEW q \in Procs, Spawn(r, p, q)
        PROVE  Lifecycle'
    BY <1>9 DEF Spawn, Unused, FreePort, Bound
  <1>10. CASE Ready(r) BY <1>10, HealthyIsReady DEF Ready
  <1>11. CASE WaitTimeout(r)
    <2>1. ptr[r] \in Procs /\ pc[r] = "wait" /\ port' = port
      BY <1>11 DEF WaitTimeout
    <2>2. \A p \in Procs : life'[p] # "dead" => life'[p] = life[p] /\ p # ptr[r]
      BY <1>11, <2>1 DEF WaitTimeout
    <2>3. \A q \in Requests \ {r} : pc'[q] = pc[q] /\ ptr'[q] = ptr[q]
      BY <1>11, RetryGoes DEF WaitTimeout
    <2>4. pc'[r] \in {"idle", "lookup"}
      BY <1>11, RetryGoes DEF WaitTimeout
    <2>5. \A p \in Procs : life[p] = "dead" => life'[p] = "dead"
      BY <1>11, <2>1 DEF WaitTimeout
    <2> QED
      BY <2>1, <2>2, <2>3, <2>4, <2>5
  <1>12. CASE VerifyOK(r) \/ VerifyFails(r) BY <1>12 DEF VerifyOK, VerifyFails
  <1>13. CASE Discard(r) BY <1>13, RetryGoes DEF Discard
  <1>14. CASE Check2(r) BY <1>14 DEF Check2
  <1>15. CASE Send(r) BY <1>15 DEF Send
  <1>16. CASE Answer(r) BY <1>16, AnswerLifecycle
  <1>17. CASE ExecFails(r) BY <1>17 DEF ExecFails
  <1>18. CASE RestartKill(r) BY <1>18 DEF RestartKill
  <1>19. CASE RestartRemoveDir(r) BY <1>19 DEF RestartRemoveDir
  <1>20. CASE RestartUnmap(r) BY <1>20, RetryGoes DEF RestartUnmap
  <1> QED
    BY <1>1, <1>2, <1>3, <1>4, <1>5, <1>6, <1>7, <1>8, <1>9, <1>10, <1>11, <1>12,
       <1>13, <1>14, <1>15, <1>16, <1>17, <1>18, <1>19, <1>20 DEF RequestStep

(* So does a step of anybody else.                                         *)
LEMMA LifecycleOthers ==
  ASSUME Owners, Lifecycle
  PROVE  /\ \A r \in Requests, h \in Hashes : Call(r, h) => Lifecycle'
         /\ GcTick => Lifecycle'
         /\ GcRound => Lifecycle'
         /\ \A p \in Procs : ChildStep(p) => Lifecycle'
  <1> USE RequestsAssumption, ProcsAssumption
      DEF Owners, TypeInv, TypeOK, SpecsKnown, Locks, Pointers, Lifecycle,
          mapVars, childVars, callVars, gcVars, Goto, Kill,
          Holders, Creating, Holding, RequestPCs, Lives
  <1>1. ASSUME NEW r \in Requests, NEW h \in Hashes, Call(r, h)
        PROVE  Lifecycle'
    BY <1>1 DEF Call
  <1>2. GcTick => Lifecycle'
    BY DEF GcTick
  <1>3. ASSUME GcRound
        PROVE  Lifecycle'
    <2>1. CASE GcLock BY <2>1 DEF GcLock
    <2>2. ASSUME NEW h \in Hashes, GcVisit(h)
          PROVE  Lifecycle'
      BY <2>2 DEF GcVisit
    <2>3. CASE GcCollect BY <2>3 DEF GcCollect, GcUnlock
    <2>4. CASE GcSkip BY <2>4 DEF GcSkip, GcUnlock
    <2>5. CASE GcDone BY <2>5 DEF GcDone
    <2> QED
      BY <1>3, <2>1, <2>2, <2>3, <2>4, <2>5 DEF GcRound
  <1>4. ASSUME NEW p \in Procs, ChildStep(p)
        PROVE  Lifecycle'
    BY <1>4 DEF ChildStep, Boot, Import, Crash, Hang, Recover
  <1> QED
    BY <1>1, <1>2, <1>3, <1>4

(* The inductive invariant: who holds what, and that children that run     *)
(* have ports of their own, whatever ports are handed out again.           *)
THEOREM IndInvInvariant == Spec => []IndInv
  <1>1. Init => IndInv
    <2> SUFFICES ASSUME Init PROVE IndInv
      OBVIOUS
    <2>1. Owners
      BY TypeInit, RequestsAssumption, ProcsAssumption
      DEF Init, Owners, Locks, Pointers, Creating, Holding
    <2>2. Lifecycle
      BY DEF Init, Lifecycle, Holding
    <2> QED
      BY <2>1, <2>2 DEF IndInv
  <1>2. IndInv /\ [Next]_vars => IndInv'
    <2> SUFFICES ASSUME IndInv, [Next]_vars
                 PROVE  IndInv'
      OBVIOUS
    <2>1. TypeInv'
      BY TypeStep DEF IndInv, Owners
    <2>2. CASE Next
      <3>1. Owners'
        BY <2>1, <2>2, OwnersRequest, OwnersOthers DEF Next, Owners, IndInv
      <3>2. Lifecycle'
        BY <2>2, LifecycleRequest, LifecycleOthers DEF Next, IndInv
      <3> QED
        BY <3>1, <3>2 DEF IndInv
    <2>3. CASE UNCHANGED vars
      BY <2>1, <2>3 DEF vars, mapVars, childVars, callVars, gcVars, IndInv, Owners,
                        Locks, Pointers, Lifecycle
    <2> QED
      BY <2>2, <2>3
  <1> QED
    BY <1>1, <1>2, PTL DEF Spec

(* An answer of another spec's code comes only to a call whose child is    *)
(* dead: who answers on the port of a child that runs is that child, which *)
(* was made for the call's spec.                                           *)
THEOREM OnlyOwnChildAnswers == Spec => OwnChildAnswers
  <1> DEFINE Own == \A r \in Requests :
               pc[r] = "exec" /\ pc'[r] = "idle" /\ outcome'[r] \in Hashes \ {hash[r]}
                 => life[ptr[r]] = "dead"
  <1>1. IndInv /\ [Next]_vars => [Own]_vars
    <2> SUFFICES ASSUME IndInv, Next, NEW r \in Requests,
                        pc[r] = "exec", pc'[r] = "idle", outcome'[r] \in Hashes \ {hash[r]}
                 PROVE  life[ptr[r]] = "dead"
      OBVIOUS
    <2>1. Answer(r)
      BY RetryGoes
      DEF IndInv, Owners, TypeInv, TypeOK, Next, RequestStep, Call, ChildStep, GcTick, GcRound, Goto,
          GcLock, GcVisit, GcCollect, GcSkip, GcDone, Lookup, Check, Lock, RecheckReuse, RecheckCreate,
          RecheckStale, Drop, WriteCode, WriteFails, PrepareFails, Spawn, Ready, WaitTimeout, VerifyOK,
          VerifyFails, Discard, Check2, Send, ExecFails, RestartKill, RestartRemoveDir,
          RestartUnmap, Restart, Boot, Import, Crash, Hang, Recover, Answer, Return
    <2>2. ptr[r] \in Procs /\ specOf[ptr[r]] = hash[r] /\ pc[r] = "exec"
      BY <2>1 DEF Answer, IndInv, Owners, Pointers, Holding
    <2>3. PICK s \in Procs :
            Answers(s, port[ptr[r]]) /\ (Return(r, specOf[s]) \/ Return(r, "noModule"))
      BY <2>1 DEF Answer
    <2>4. specOf[s] # hash[r]
      BY <2>3, HashesAssumption DEF Return, IndInv, Owners, TypeInv, TypeOK
    <2> QED
      BY <2>2, <2>3, <2>4 DEF Answers, IndInv, Lifecycle
  <1> QED
    BY IndInvInvariant, <1>1, PTL DEF Spec, OwnChildAnswers

(* While a port names one process only, it does in every run.              *)
LEMMA OwnPortsInvariant == ASSUME ~PortReuse PROVE Spec => []OwnPorts
  <1>1. Init => OwnPorts
    BY DEF Init, OwnPorts
  <1>2. IndInv /\ OwnPorts /\ [Next]_vars => OwnPorts'
    <2> SUFFICES ASSUME IndInv, OwnPorts, [Next]_vars
                 PROVE  OwnPorts'
      OBVIOUS
    <2>1. ASSUME NEW r \in Requests, NEW p \in Procs, NEW q \in Procs, Spawn(r, p, q)
          PROVE  OwnPorts'
      BY <2>1 DEF Spawn, FreePort, OwnPorts, IndInv, Owners, TypeInv, TypeOK
    <2>2. CASE UNCHANGED port
      BY <2>2 DEF OwnPorts
    <2> QED
      BY <2>1, <2>2
      DEF Next, RequestStep, Call, ChildStep, GcTick, GcRound, GcLock, GcVisit, GcCollect, GcSkip,
          GcDone, Lookup, Check, Lock, RecheckReuse, RecheckCreate, RecheckStale, Drop, WriteCode,
          WriteFails, PrepareFails, Ready, WaitTimeout, VerifyOK, VerifyFails, Discard, Check2,
          Send, Answer, ExecFails, RestartKill, RestartRemoveDir, RestartUnmap, Boot, Import,
          Crash, Hang, Recover, childVars, vars
  <1> QED
    BY IndInvInvariant, <1>1, <1>2, PTL DEF Spec

(* No two requests are in flight at one child, while no port is handed out *)
(* again.                                                                  *)
THEOREM RequestsExcludeEachOther == ASSUME ~PortReuse PROVE Spec => []OneRequestPerChild
  <1>1. IndInv /\ OwnPorts => OneRequestPerChild
    BY DEF IndInv, Owners, Locks, Pointers, OwnPorts, OneRequestPerChild, Holding
  <1> QED
    BY IndInvInvariant, OwnPortsInvariant, <1>1, PTL

(* Only its creator works with a process that has not answered yet.        *)
THEOREM CreationIsPrivate == Spec => []HalfStartedHidden
  <1>1. IndInv => HalfStartedHidden
    BY DEF IndInv, Lifecycle, HalfStartedHidden, Holding
  <1> QED
    BY IndInvInvariant, <1>1, PTL

(* A late restart does not take the successor out of the map.              *)
THEOREM RestartKeepsSuccessor == Spec => SuccessorKept
  <1> DEFINE Kept == \A h \in Hashes :
               entry[h] # Nil /\ entry'[h] # entry[h] => life'[entry[h]] = "dead" \/ GivenUp(h)
  <1>1. IndInv /\ [Next]_vars => [Kept]_vars
    <2> SUFFICES ASSUME IndInv, Next, NEW h \in Hashes,
                        entry[h] # Nil, entry'[h] # entry[h], ~GivenUp(h)
                 PROVE  life'[entry[h]] = "dead"
      OBVIOUS
    <2> USE DEF IndInv, Owners, TypeInv, TypeOK, mapVars, childVars, Uninstall
    <2>1. entry[h] \in Procs
      OBVIOUS
    <2>2. ASSUME NEW r \in Requests, RequestStep(r)
          PROVE  life'[entry[h]] = "dead"
      <3>1. CASE Drop(r) \/ Discard(r)
        BY <3>1 DEF Drop, Discard, GivenUp
      <3>2. CASE \E p \in Procs, q \in Procs : Spawn(r, p, q)
        BY <3>2 DEF Spawn, Pointers
      <3>3. CASE WaitTimeout(r)
        BY <2>1, <3>3 DEF WaitTimeout, Kill, Pointers
      <3>4. CASE RestartUnmap(r)
        BY <2>1, <3>4 DEF RestartUnmap, Lifecycle
      <3> QED
        BY <2>2, <3>1, <3>2, <3>3, <3>4
        DEF RequestStep, Lookup, Check, Lock, RecheckReuse, RecheckCreate, RecheckStale, WriteCode,
            WriteFails, PrepareFails, Ready, VerifyOK, VerifyFails, Check2, Send, Answer, ExecFails,
            RestartKill, RestartRemoveDir
    <2>3. CASE GcRound
      BY <2>1, <2>3
      DEF GcRound, GcLock, GcVisit, GcCollect, GcSkip, GcDone, GcUnlock, Kill
    <2> QED
      BY <2>2, <2>3 DEF Next, Call, GcTick, ChildStep, Boot, Import, Crash, Hang, Recover
  <1> QED
    BY IndInvInvariant, <1>1, PTL DEF Spec, SuccessorKept

-----------------------------------------------------------------------------
(* How many children the collector can lose.                               *)

(* A subset of a finite set is finite and no larger.                       *)
LEMMA SubsetCounts ==
  ASSUME NEW S, IsFiniteSet(S), NEW T \in SUBSET S
  PROVE  /\ IsFiniteSet(T) /\ Cardinality(T) <= Cardinality(S)
         /\ Cardinality(S) \in Nat /\ Cardinality(T) \in Nat
  BY FS_Subset, FS_CardinalityType

(* A step of a request makes no child stray: it takes out of the map one   *)
(* that has not answered, and so has strayed already, or a dead one.       *)
LEMMA StrayedRequest ==
  ASSUME IndInv, NEW r \in Requests, RequestStep(r)
  PROVE  Strayed' \subseteq Strayed
  <1> USE ProcsAssumption
      DEF IndInv, Owners, TypeInv, TypeOK, SpecsKnown, Strayed, GivenUp, mapVars, childVars, callVars,
          Uninstall, Kill, Goto, Hold, Restart, RequestPCs
  <1>1. CASE RecheckStale(r)
    <2>1. life[entry[hash[r]]] # "ready" /\ entry[hash[r]] \in Procs
      BY <1>1, HealthyIsReady DEF RecheckStale
    <2> QED
      BY <1>1, <2>1 DEF RecheckStale
  <1>2. CASE VerifyFails(r)
    <2>1. life[entry[hash[r]]] # "ready" /\ entry[hash[r]] \in Procs
      BY <1>2, HealthyIsReady DEF VerifyFails, Pointers, Holding
    <2> QED
      BY <1>2, <2>1 DEF VerifyFails
  <1>3. CASE Drop(r)
    BY <1>3 DEF Drop
  <1>4. CASE Discard(r)
    BY <1>4, RetryGoes DEF Discard
  <1>5. ASSUME NEW p \in Procs, NEW q \in Procs, Spawn(r, p, q)
        PROVE  Strayed' \subseteq Strayed
    <2>1. entry[hash[r]] = Nil /\ hash[r] \in Hashes
      BY <1>5 DEF Spawn, Pointers
    <2> QED
      BY <1>5, <2>1 DEF Spawn
  <1>6. CASE WaitTimeout(r)
    BY <1>6, RetryGoes DEF WaitTimeout, Pointers, Holding
  <1>7. CASE RestartUnmap(r)
    BY <1>7, RetryGoes DEF RestartUnmap, Lifecycle
  <1>8. CASE WriteFails(r) \/ PrepareFails(r)
    BY <1>8, RetryGoes DEF WriteFails, PrepareFails
  <1>9. CASE Lookup(r) \/ Check(r) \/ Lock(r) \/ RecheckReuse(r) \/ RecheckCreate(r) \/ WriteCode(r)
    BY <1>9 DEF Lookup, Check, Lock, RecheckReuse, RecheckCreate, WriteCode
  <1>10. CASE Ready(r) \/ VerifyOK(r) \/ Check2(r) \/ Send(r) \/ ExecFails(r)
    BY <1>10 DEF Ready, VerifyOK, Check2, Send, ExecFails
  <1>11. CASE RestartKill(r) \/ RestartRemoveDir(r)
    BY <1>11 DEF RestartKill, RestartRemoveDir
  <1>12. CASE Answer(r)
    BY <1>12 DEF Answer, Return
  <1> QED
    BY <1>1, <1>2, <1>3, <1>4, <1>5, <1>6, <1>7, <1>8, <1>9, <1>10, <1>11, <1>12 DEF RequestStep

(* Nor does a step of anybody else, but for a child that hangs.            *)
LEMMA StrayedOthers ==
  ASSUME IndInv
  PROVE  /\ \A r \in Requests, h \in Hashes : Call(r, h) => Strayed' \subseteq Strayed
         /\ GcTick => Strayed' \subseteq Strayed
         /\ GcRound => Strayed' \subseteq Strayed
         /\ \A p \in Procs : ChildStep(p) =>
              IF hangs' = hangs THEN Strayed' \subseteq Strayed
              ELSE hangs' = hangs + 1 /\ Strayed' \subseteq Strayed \cup {p}
  <1> USE ProcsAssumption
      DEF IndInv, Owners, TypeInv, TypeOK, SpecsKnown, Strayed, GivenUp, mapVars, childVars, callVars,
          Uninstall, Kill, Goto
  <1>1. ASSUME NEW r \in Requests, NEW h \in Hashes, Call(r, h)
        PROVE  Strayed' \subseteq Strayed
    BY <1>1 DEF Call
  <1>2. GcTick => Strayed' \subseteq Strayed
    BY DEF GcTick
  <1>3. GcRound => Strayed' \subseteq Strayed
    <2>1. GcCollect => Strayed' \subseteq Strayed
      BY DEF GcCollect, Locks
    <2> QED
      BY <2>1 DEF GcRound, GcLock, GcVisit, GcSkip, GcDone
  <1>4. ASSUME NEW p \in Procs, ChildStep(p)
        PROVE  IF hangs' = hangs THEN Strayed' \subseteq Strayed
               ELSE hangs' = hangs + 1 /\ Strayed' \subseteq Strayed \cup {p}
    <2>1. CASE Boot(p)
      <3>1. PICK r \in Requests : pc[r] = "wait" /\ ptr[r] = p
        BY <2>1 DEF Boot, Lifecycle
      <3>2. entry[specOf[p]] = p /\ pmLock = r /\ specOf[p] \in Hashes
        BY <3>1 DEF Pointers, Holding, Locks, Creating
      <3>3. ~GivenUp(specOf[p])
        BY <3>1, <3>2 DEF Locks, Creating
      <3> QED
        BY <2>1, <3>2, <3>3 DEF Boot
    <2>2. CASE Hang(p)
      BY <2>2, BoundsAssumption DEF Hang
    <2>3. CASE Import(p) \/ Crash(p) \/ Recover(p)
      BY <2>3 DEF Import, Crash, Recover
    <2> QED
      BY <1>4, <2>1, <2>2, <2>3 DEF ChildStep
  <1> QED
    BY <1>1, <1>2, <1>3, <1>4

(* So there are never more than hangs.                                     *)
LEMMA StrayInvariant == Spec => [](IndInv /\ StrayInv)
  <1>1. Init => StrayInv
    <2> SUFFICES ASSUME Init PROVE StrayInv
      OBVIOUS
    <2>1. Strayed = {}
      BY DEF Init, Strayed
    <2> QED
      BY <2>1, FS_EmptySet DEF StrayInv, Init
  <1>2. IndInv /\ StrayInv /\ [Next]_vars => StrayInv'
    <2> SUFFICES ASSUME IndInv, StrayInv, [Next]_vars
                 PROVE  StrayInv'
      OBVIOUS
    <2>1. hangs \in Nat /\ Cardinality(Strayed) \in Nat
      BY BoundsAssumption, FS_CardinalityType DEF IndInv, Owners, TypeInv, TypeOK, StrayInv
    <2>2. ASSUME Strayed' \subseteq Strayed, hangs' = hangs
          PROVE  StrayInv'
      BY <2>1, <2>2, SubsetCounts DEF StrayInv
    <2>3. ASSUME NEW p \in Procs, Strayed' \subseteq Strayed \cup {p}, hangs' = hangs + 1
          PROVE  StrayInv'
      <3>1. IsFiniteSet(Strayed)
        BY DEF StrayInv
      <3>2. /\ IsFiniteSet(Strayed \cup {p})
            /\ Cardinality(Strayed \cup {p}) \in {Cardinality(Strayed), Cardinality(Strayed) + 1}
        BY <3>1, FS_AddElement
      <3>3. Strayed' \in SUBSET (Strayed \cup {p})
        BY <2>3
      <3>4. IsFiniteSet(Strayed') /\ Cardinality(Strayed') <= Cardinality(Strayed \cup {p})
        BY <3>2, <3>3, SubsetCounts
      <3>5. Cardinality(Strayed') \in Nat
        BY <3>4, FS_CardinalityType
      <3> QED
        BY <2>1, <2>3, <3>2, <3>4, <3>5 DEF StrayInv
    <2>4. CASE UNCHANGED vars
      BY <2>2, <2>4 DEF vars, mapVars, childVars, callVars, Strayed, GivenUp
    <2>5. ASSUME NEW r \in Requests, RequestStep(r)
          PROVE  hangs' = hangs
      BY <2>5
      DEF RequestStep, Lookup, Check, Lock, RecheckReuse, RecheckCreate, RecheckStale, Drop, WriteCode,
          WriteFails, PrepareFails, Spawn, Ready, WaitTimeout, VerifyOK, VerifyFails, Discard, Check2,
          Send, Answer, ExecFails, RestartKill, RestartRemoveDir, RestartUnmap, childVars
    <2>6. (\E r \in Requests, h \in Hashes : Call(r, h)) \/ GcTick \/ GcRound => hangs' = hangs
      BY DEF Call, GcTick, GcRound, GcLock, GcVisit, GcCollect, GcSkip, GcDone, childVars
    <2> QED
      BY <2>2, <2>3, <2>4, <2>5, <2>6, StrayedRequest, StrayedOthers DEF Next
  <1> QED
    BY IndInvInvariant, <1>1, <1>2, PTL DEF Spec

(* A child that runs and has not strayed is the one installed for its      *)
(* spec.                                                                   *)
LEMMA InstalledUnlessStrayed ==
  ASSUME IndInv, NEW p \in Procs, life[p] # "dead", p \notin Strayed
  PROVE  specOf[p] \in Hashes /\ entry[specOf[p]] = p
  <1>1. specOf[p] \in Hashes
    BY DEF IndInv, Owners, TypeInv, SpecsKnown
  <1>2. CASE life[p] = "starting"
    BY <1>1, <1>2 DEF IndInv, Lifecycle, Owners, Pointers, Holding
  <1>3. CASE life[p] # "starting"
    BY <1>1, <1>3 DEF Strayed, IndInv, Owners, TypeInv, TypeOK, Lives
  <1> QED
    BY <1>2, <1>3

(* Whatever crashes, fails, restarts or is collected, and however the      *)
(* goroutines interleave: every child the collector loses cost a hang.     *)
THEOREM ChildrenAreLostByHangs == Spec => []LostByHang
  <1>1. IndInv /\ StrayInv => LostByHang
    <2> SUFFICES ASSUME IndInv, StrayInv PROVE LostByHang
      OBVIOUS
    <2>1. {p \in Procs : Orphan(p)} \subseteq Strayed
      BY InstalledUnlessStrayed DEF Orphan
    <2>2. hangs \in Nat
      BY BoundsAssumption DEF IndInv, Owners, TypeInv, TypeOK
    <2> QED
      BY <2>1, <2>2, SubsetCounts DEF StrayInv, LostByHang
  <1> QED
    BY StrayInvariant, <1>1, PTL

(* While no child hangs, no two children run for one spec.                 *)
THEOREM OneServerForSpec == ASSUME MaxHangs = 0 PROVE Spec => []OneServerPerSpec
  <1>1. IndInv /\ StrayInv => OneServerPerSpec
    <2> SUFFICES ASSUME IndInv, StrayInv PROVE OneServerPerSpec
      OBVIOUS
    <2>1. Cardinality(Strayed) = 0
      BY FS_CardinalityType, BoundsAssumption DEF StrayInv, IndInv, Owners, TypeInv, TypeOK
    <2>2. Strayed = {}
      BY <2>1, FS_EmptySet DEF StrayInv
    <2> QED
      BY <2>2, InstalledUnlessStrayed DEF OneServerPerSpec
  <1> QED
    BY StrayInvariant, <1>1, PTL

-----------------------------------------------------------------------------
(* What holds, besides, of one request at a time.                          *)

(* A step of the only request puts no successor beside its process.        *)
LEMMA AloneRequest ==
  ASSUME IndInv, NoSuccessorYet, CodeInPlace, NEW r \in Requests, RequestStep(r),
         \A s \in Requests : s = r
  PROVE  NoSuccessorYet' /\ CodeInPlace'
  <1> USE ProcsAssumption
      DEF IndInv, Owners, TypeInv, TypeOK, SpecsKnown, Pointers, NoSuccessorYet, CodeInPlace,
          mapVars, childVars, callVars, Goto, Hold, Restart, RemoveAll, Uninstall, Kill, Holding
  <1>1. CASE Lookup(r) BY <1>1 DEF Lookup
  <1>2. CASE Check(r) BY <1>2 DEF Check
  <1>3. CASE Lock(r) BY <1>3 DEF Lock
  <1>4. CASE RecheckReuse(r) BY <1>4 DEF RecheckReuse
  <1>5. CASE RecheckCreate(r) \/ RecheckStale(r) \/ Drop(r)
    BY <1>5 DEF RecheckCreate, RecheckStale, Drop
  <1>6. CASE WriteCode(r) BY <1>6 DEF WriteCode
  <1>7. CASE WriteFails(r) BY <1>7, RetryGoes DEF WriteFails
  <1>8. CASE PrepareFails(r) BY <1>8, RetryGoes DEF PrepareFails
  <1>9. ASSUME NEW p \in Procs, NEW q \in Procs, Spawn(r, p, q)
        PROVE  NoSuccessorYet' /\ CodeInPlace'
    BY <1>9 DEF Spawn, Unused
  <1>10. CASE Ready(r) BY <1>10 DEF Ready
  <1>11. CASE WaitTimeout(r) BY <1>11, RetryGoes DEF WaitTimeout
  <1>12. CASE VerifyOK(r) \/ VerifyFails(r) BY <1>12 DEF VerifyOK, VerifyFails
  <1>13. CASE Discard(r) BY <1>13, RetryGoes DEF Discard
  <1>14. CASE Check2(r) BY <1>14 DEF Check2
  <1>15. CASE Send(r) BY <1>15 DEF Send
  <1>16. CASE Answer(r) BY <1>16 DEF Answer, Return
  <1>17. CASE ExecFails(r) BY <1>17 DEF ExecFails
  <1>18. CASE RestartKill(r) BY <1>18 DEF RestartKill
  <1>19. CASE RestartRemoveDir(r) BY <1>19 DEF RestartRemoveDir, Lifecycle
  <1>20. CASE RestartUnmap(r) BY <1>20, RetryGoes DEF RestartUnmap
  <1> QED
    BY <1>1, <1>2, <1>3, <1>4, <1>5, <1>6, <1>7, <1>8, <1>9, <1>10, <1>11, <1>12,
       <1>13, <1>14, <1>15, <1>16, <1>17, <1>18, <1>19, <1>20 DEF RequestStep

(* Nor does a step of anybody else.                                        *)
LEMMA AloneOthers ==
  ASSUME IndInv, NoSuccessorYet, CodeInPlace
  PROVE  /\ \A r \in Requests, h \in Hashes : Call(r, h) => NoSuccessorYet' /\ CodeInPlace'
         /\ GcRound => NoSuccessorYet' /\ CodeInPlace'
         /\ \A p \in Procs : ChildStep(p) => NoSuccessorYet' /\ CodeInPlace'
  <1> USE ProcsAssumption
      DEF IndInv, Owners, TypeInv, TypeOK, SpecsKnown, Pointers, NoSuccessorYet, CodeInPlace,
          mapVars, childVars, callVars, Goto, RemoveAll, Uninstall, Kill, Holding
  <1>1. ASSUME NEW r \in Requests, NEW h \in Hashes, Call(r, h)
        PROVE  NoSuccessorYet' /\ CodeInPlace'
    BY <1>1 DEF Call
  <1>2. CASE GcCollect
    BY <1>2 DEF GcCollect, Locks
  <1>3. ASSUME NEW p \in Procs, ChildStep(p)
        PROVE  NoSuccessorYet' /\ CodeInPlace'
    BY <1>3 DEF ChildStep, Boot, Import, Crash, Hang, Recover
  <1> QED
    BY <1>1, <1>2, <1>3 DEF GcRound, GcLock, GcVisit, GcSkip, GcDone

(* With one request at a time a child in the map never misses its code     *)
(* file when it is to import it.                                           *)
THEOREM DirectoryKept ==
  ASSUME \A r, s \in Requests : r = s
  PROVE  Spec => []OwnDirectory
  <1>1. Init => NoSuccessorYet /\ CodeInPlace
    BY DEF Init, NoSuccessorYet, CodeInPlace, Holding
  <1>2. IndInv /\ NoSuccessorYet /\ CodeInPlace /\ [Next]_vars => NoSuccessorYet' /\ CodeInPlace'
    <2> SUFFICES ASSUME IndInv, NoSuccessorYet, CodeInPlace, [Next]_vars
                 PROVE  NoSuccessorYet' /\ CodeInPlace'
      OBVIOUS
    <2>1. CASE GcTick \/ UNCHANGED vars
      BY <2>1 DEF GcTick, vars, mapVars, childVars, callVars, NoSuccessorYet, CodeInPlace
    <2> QED
      BY <2>1, AloneRequest, AloneOthers DEF Next
  <1>3. CodeInPlace => OwnDirectory
    BY DEF CodeInPlace, OwnDirectory
  <1> QED
    BY IndInvInvariant, <1>1, <1>2, <1>3, PTL DEF Spec

-----------------------------------------------------------------------------
(* The manager implements FunctionCalls.                                   *)

(* A retry is another attempt, or the end of the call.                     *)
LEMMA RetryImplements ==
  ASSUME TypeInv, NEW r \in Requests, pc[r] # "idle", Retry(r)
  PROVE  Service!Again(r) \/ Service!Finish(r, "failed")
  <1> USE BoundsAssumption DEF TypeInv, TypeOK, Goto, Hold
  <1>1. CASE attempt[r] < MaxRetries /\ pc' = [pc EXCEPT ![r] = "lookup"]
    BY <1>1 DEF Retry, Return, Service!Again
  <1>2. CASE attempt[r] >= MaxRetries /\ Return(r, "failed")
    <2>1. attempt[r] = MaxRetries
      BY <1>2
    <2>2. /\ attempt' = [attempt EXCEPT ![r] = 0] /\ outcome' = [outcome EXCEPT ![r] = "failed"]
          /\ pc' = [pc EXCEPT ![r] = "idle"] /\ hash' = hash
      BY <1>2 DEF Retry, Return
    <2> QED
      BY <2>1, <2>2 DEF Service!Finish
  <1> QED
    BY <1>1, <1>2 DEF Retry

(* A step that leaves the call alone is invisible to the caller.           *)
LEMMA Invisible ==
  ASSUME TypeInv, NEW r \in Requests, NEW l, l # "idle", pc[r] # "idle",
         pc' = [pc EXCEPT ![r] = l], UNCHANGED callVars
  PROVE  UNCHANGED Service!callsVars
  BY DEF TypeInv, TypeOK, callVars, Service!callsVars

(* A step of a request is one of the abstract specification, or a stutter. *)
LEMMA StepImplements ==
  ASSUME IndInv, OwnPorts, NEW r \in Requests, RequestStep(r)
  PROVE  [Service!Next]_Service!callsVars
  <1> USE DEF IndInv, Owners, Goto, Restart
  <1>1. CASE Retry(r) /\ pc[r] # "idle"
    BY <1>1, RetryImplements DEF Service!Next
  <1>2. CASE Answer(r)
    <2>1. ptr[r] \in Procs /\ specOf[ptr[r]] = hash[r]
      BY <1>2 DEF Answer, Pointers, Holding
    <2>2. PICK a \in {hash[r], "noModule"} : Return(r, a)
      BY <1>2, <2>1 DEF Answer, Answers, OwnPorts
    <2>3. a # "failed"
      BY <1>2, HashesAssumption DEF Answer, TypeInv, SpecsKnown
    <2>4. Service!Finish(r, a)
      BY <1>2, <2>2, <2>3 DEF Answer, Return, Hold, TypeInv, TypeOK, Service!Finish
    <2> QED
      BY <2>4 DEF Service!Next
  <1>3. CASE RestartUnmap(r) /\ ~Retry(r)
    BY <1>3, Invisible DEF RestartUnmap
  <1>4. CASE Lookup(r) BY <1>4, Invisible DEF Lookup
  <1>5. CASE Check(r) BY <1>5, Invisible DEF Check
  <1>6. CASE Check2(r) BY <1>6, Invisible DEF Check2
  <1>7. CASE \E p \in Procs, q \in Procs : Spawn(r, p, q) BY <1>7, Invisible DEF Spawn
  <1>8. CASE Lock(r) \/ RecheckReuse(r) \/ RecheckCreate(r) \/ RecheckStale(r) \/ Drop(r) \/ WriteCode(r)
    BY <1>8, Invisible DEF Lock, RecheckReuse, RecheckCreate, RecheckStale, Drop, WriteCode
  <1>9. CASE Ready(r) \/ VerifyOK(r) \/ VerifyFails(r) \/ Send(r) \/ ExecFails(r)
    BY <1>9, Invisible DEF Ready, VerifyOK, VerifyFails, Send, ExecFails
  <1>10. CASE RestartKill(r) \/ RestartRemoveDir(r)
    BY <1>10, Invisible DEF RestartKill, RestartRemoveDir
  <1> QED
    BY <1>1, <1>2, <1>3, <1>4, <1>5, <1>6, <1>7, <1>8, <1>9, <1>10
    DEF RequestStep, WriteFails, PrepareFails, WaitTimeout, Discard, RestartUnmap

(* Whatever restarts, crashes and collections happen, each call returns    *)
(* once, within its tries, with an answer of its own code or an error.     *)
THEOREM ManagerImplementsCalls == ASSUME ~PortReuse PROVE Spec => ImplementsFunctionCalls
  <1>1. Init => Service!Init
    BY DEF Init, Service!Init, Nil
  <1>2. IndInv /\ OwnPorts /\ [Next]_vars => [Service!Next]_Service!callsVars
    <2> SUFFICES ASSUME IndInv, OwnPorts, [Next]_vars
                 PROVE  [Service!Next]_Service!callsVars
      OBVIOUS
    <2>1. ASSUME NEW r \in Requests, NEW h \in Hashes, Call(r, h)
          PROVE  Service!Begin(r, h)
      BY <2>1 DEF IndInv, Owners, TypeInv, TypeOK, Call, Goto, Service!Begin
    <2>2. CASE GcTick \/ GcRound \/ (\E p \in Procs : ChildStep(p)) \/ UNCHANGED vars
      BY <2>2
      DEF GcTick, GcRound, GcLock, GcVisit, GcCollect, GcSkip, GcDone, ChildStep, Boot, Import,
          Crash, Hang, Recover, vars, callVars, Service!callsVars
    <2> QED
      BY <2>1, <2>2, StepImplements DEF Next, Service!Next
  <1> QED
    BY IndInvInvariant, OwnPortsInvariant, <1>1, <1>2, PTL
    DEF Spec, ImplementsFunctionCalls, Service!Spec

-----------------------------------------------------------------------------
(* Executions, while a port means one process.  The manager's own          *)
(* invariant carries over, because every step is one of the manager's or   *)
(* changes nothing it knows of.                                            *)

(* With the executors in view, every step is the manager's or leaves it    *)
(* alone.                                                                  *)
LEMMA ManagerStep == NextExecutions => [Next]_vars
  <1> SUFFICES ASSUME NextExecutions PROVE [Next]_vars
    OBVIOUS
  <1> QED
    BY DEF NextExecutions, SendQueued, AnswerSettled, CallCounted, ExecutorStep, Start, Settle,
           TimeOut, EndLate, OtherStep, OtherRequestStep, Next, RequestStep, ChildStep

(* So its invariant holds with them.                                       *)
LEMMA ManagerInvariant == ASSUME ~PortReuse PROVE SpecExecutions => [](IndInv /\ OwnPorts)
  <1>1. InitExecutions => Init
    BY DEF InitExecutions
  <1>2. [NextExecutions]_allVars => [Next]_vars
    BY ManagerStep DEF allVars
  <1> QED
    BY IndInvInvariant, OwnPortsInvariant, <1>1, <1>2, PTL DEF SpecExecutions, Spec

(* What a step of a request other than Send and Answer does to its call:   *)
(* it stays before its request, or within its restart, or ends an attempt  *)
(* that was lost.                                                          *)
Before == RequestPCs \ ({"idle", "exec"} \cup InRestart)

(* What a step of a request leaves of the others, and of the children.     *)
LEMMA RequestGoesOn ==
  ASSUME IndInv, NEW r \in Requests, OtherRequestStep(r)
  PROVE  /\ \A s \in Requests \ {r} : pc'[s] = pc[s] /\ ptr'[s] = ptr[s] /\ back'[s] = back[s]
         /\ \A s \in Requests \ {r} : attempt'[s] = attempt[s] /\ outcome'[s] = outcome[s]
         /\ outcome'[r] = outcome[r] \/ outcome'[r] = "failed"
         /\ \/ /\ attempt'[r] = attempt[r]
               /\ \/ pc[r] \in Before /\ pc'[r] \in Before
                  \/ pc[r] \in Before /\ pc'[r] = "kill"
                  \/ pc[r] = "exec" /\ pc'[r] = "kill" /\ back'[r] = "retry" /\ ptr'[r] = ptr[r]
                  \/ pc[r] \in {"kill", "rmdir"} /\ pc'[r] \in {"rmdir", "unmap"} /\ back'[r] = back[r]
                  \/ pc[r] = "unmap" /\ back[r] = "lock" /\ pc'[r] = "lock"
            \/ /\ pc[r] \in Before \/ (pc[r] = "unmap" /\ back[r] = "retry")
               /\ \/ attempt'[r] = attempt[r] + 1 /\ pc'[r] = "lookup"
                  \/ attempt[r] = MaxRetries /\ attempt'[r] = 0 /\ pc'[r] = "idle"
  <1> USE BoundsAssumption
      DEF IndInv, Owners, TypeInv, TypeOK, mapVars, childVars, callVars, gcVars, Goto, Hold,
          Restart, Retry, Return, Before, InRestart, RequestPCs, OtherRequestStep
  <1>1. CASE ExecFails(r) BY <1>1 DEF ExecFails
  <1>2. CASE Lookup(r) BY <1>2 DEF Lookup
  <1>3. CASE Check(r) BY <1>3 DEF Check
  <1>4. CASE Lock(r) BY <1>4 DEF Lock
  <1>5. CASE RecheckReuse(r) BY <1>5 DEF RecheckReuse
  <1>6. CASE RecheckCreate(r) \/ RecheckStale(r) \/ Drop(r) BY <1>6 DEF RecheckCreate, RecheckStale, Drop
  <1>7. CASE WriteCode(r) BY <1>7 DEF WriteCode
  <1>8. CASE WriteFails(r) BY <1>8 DEF WriteFails
  <1>9. CASE PrepareFails(r) BY <1>9 DEF PrepareFails
  <1>10. CASE \E p \in Procs, q \in Procs : Spawn(r, p, q) BY <1>10 DEF Spawn
  <1>11. CASE Ready(r) BY <1>11 DEF Ready
  <1>12. CASE WaitTimeout(r) BY <1>12 DEF WaitTimeout
  <1>13. CASE VerifyOK(r) \/ VerifyFails(r) BY <1>13 DEF VerifyOK, VerifyFails
  <1>14. CASE Discard(r) BY <1>14 DEF Discard
  <1>15. CASE Check2(r) BY <1>15 DEF Check2
  <1>16. CASE RestartKill(r) BY <1>16 DEF RestartKill
  <1>17. CASE RestartRemoveDir(r) BY <1>17 DEF RestartRemoveDir
  <1>18. CASE RestartUnmap(r) BY <1>18 DEF RestartUnmap
  <1> QED
    BY <1>1, <1>2, <1>3, <1>4, <1>5, <1>6, <1>7, <1>8, <1>9, <1>10, <1>11, <1>12, <1>13,
       <1>14, <1>15, <1>16, <1>17, <1>18 DEF RequestStep, Send, Answer, ExecFails

(* A goroutine that leaves "kill" has killed its process.                  *)
LEMMA KillKills ==
  ASSUME IndInv, NEW r \in Requests, OtherRequestStep(r), pc[r] = "kill"
  PROVE  life'[ptr[r]] = "dead"
  BY DEF IndInv, Owners, TypeInv, TypeOK, Pointers, Holding, OtherRequestStep, RequestStep, Kill,
         Lookup, Check, Lock, RecheckReuse, RecheckCreate, RecheckStale, Drop, WriteCode, WriteFails,
         PrepareFails, Spawn, Ready, WaitTimeout, VerifyOK, VerifyFails, Discard, Check2, Send, Answer,
         ExecFails,
         RestartKill, RestartRemoveDir, RestartUnmap

-----------------------------------------------------------------------------
(* The invariant of the executions.                                        *)

(* The end of a child ends what was under way in it.                       *)
LEMMA ClearedWork ==
  ASSUME WorkTypeOK, LateInv, UNCHANGED <<clientFirst, runs>>, EndWithChild
  PROVE  /\ WorkTypeOK' /\ LateInv'
         /\ \A p \in Procs, r \in Requests : work'[p][r] # "none" => work'[p][r] = work[p][r]
         /\ \A p \in Procs, r \in Requests : life'[p] = "dead" => work'[p][r] = "none"
  BY DEF WorkTypeOK, LateInv, EndWithChild

(* A step of a request that sends and reads nothing keeps the invariant.   *)
LEMMA OtherRequestInv ==
  ASSUME IndInv, ExecInv, NEW r \in Requests, OtherRequestStep(r), EndWithChild,
         UNCHANGED <<clientFirst, runs>>
  PROVE  ExecInv'
  <1> USE BoundsAssumption, HashesAssumption
      DEF ExecInv, InRestart, Before, RequestPCs
  <1>1. WorkTypeOK' /\ LateInv'
    BY ClearedWork
  <1>2. attempt[r] \in 0..MaxRetries /\ runs[r] \in Nat /\ back[r] \in {"lock", "retry"}
    BY DEF IndInv, Owners, TypeInv, TypeOK, WorkTypeOK
  <1>3. CallsInv'
    <2> SUFFICES ASSUME NEW s \in Requests
                 PROVE  /\ outcome'[s] \in Hashes => runs[s] > 0
                        /\ runs[s] <= IF pc'[s] = "idle" THEN MaxRetries + 1 ELSE attempt'[s] + 1
                        /\ \/ pc'[s] \notin InRestart \cup {"idle", "exec"}
                           \/ pc'[s] \in InRestart /\ back'[s] = "lock"
                           => runs[s] <= attempt'[s]
      BY DEF CallsInv
    <2>1. CASE s = r
      <3>1. outcome'[r] \in Hashes => runs[r] > 0
        BY RequestGoesOn DEF CallsInv
      <3>2. CASE pc[r] \in Before
        BY <1>2, <2>1, <3>1, <3>2, RequestGoesOn DEF CallsInv
      <3>3. CASE pc[r] \in InRestart \cup {"exec"}
        BY <1>2, <2>1, <3>1, <3>3, RequestGoesOn DEF CallsInv
      <3> QED
        BY <3>2, <3>3, RequestGoesOn
    <2>2. CASE s # r
      BY <2>2, RequestGoesOn DEF CallsInv
    <2> QED
      BY <2>1, <2>2
  <1>4. WorkInv'
    <2> SUFFICES ASSUME NEW p \in Procs, NEW s \in Requests, work'[p][s] # "none"
                 PROVE  /\ ptr'[s] = p
                        /\ pc'[s] = "exec" \/ (pc'[s] = "kill" /\ back'[s] = "retry")
                        /\ IF work'[p][s] = "queued" THEN runs[s] <= attempt'[s] ELSE runs[s] > 0
      BY DEF WorkInv
    <2>1. work'[p][s] = work[p][s] /\ life'[p] # "dead"
      BY ClearedWork
    <2>2. /\ ptr[s] = p
          /\ pc[s] = "exec" \/ (pc[s] = "kill" /\ back[s] = "retry")
          /\ IF work[p][s] = "queued" THEN runs[s] <= attempt[s] ELSE runs[s] > 0
      BY <2>1 DEF WorkInv
    <2>3. CASE s = r
      BY <2>1, <2>2, <2>3, RequestGoesOn, KillKills
    <2>4. CASE s # r
      BY <2>1, <2>2, <2>4, RequestGoesOn
    <2> QED
      BY <2>3, <2>4
  <1> QED
    BY <1>1, <1>3, <1>4

(* So does a step of anybody else.                                         *)
LEMMA OtherInv ==
  ASSUME IndInv, ExecInv, OtherStep
  PROVE  ExecInv'
  <1>1. CASE \E r \in Requests : OtherRequestStep(r)
    BY <1>1, OtherRequestInv DEF OtherStep
  <1>2. CASE GcTick \/ GcRound \/ \E p \in Procs : Boot(p) \/ Crash(p) \/ Hang(p) \/ Recover(p)
    <2>1. UNCHANGED <<pc, ptr, back, attempt, outcome>>
      BY <1>2 DEF GcTick, GcRound, GcLock, GcVisit, GcCollect, GcSkip, GcDone, GcUnlock,
                  Boot, Crash, Hang, Recover, callVars
    <2>2. /\ WorkTypeOK' /\ LateInv' /\ UNCHANGED runs
          /\ \A p \in Procs, r \in Requests : work'[p][r] # "none" => work'[p][r] = work[p][r]
      BY ClearedWork DEF OtherStep, ExecInv
    <2> QED
      BY <2>1, <2>2 DEF ExecInv, CallsInv, WorkInv
  <1> QED
    BY <1>1, <1>2 DEF OtherStep

(* So does a request that is sent.                                         *)
LEMMA SendInv ==
  ASSUME IndInv, OwnPorts, ExecInv, NEW r \in Requests, SendQueued(r)
  PROVE  ExecInv'
  <1> USE DEF ExecInv, SendQueued, Send, Goto, callVars, IndInv, Owners, TypeInv, TypeOK
  <1>1. /\ pc[r] = "plock" /\ pc' = [pc EXCEPT ![r] = "exec"]
        /\ UNCHANGED <<ptr, back, attempt, outcome, runs, clientFirst, late>>
    OBVIOUS
  <1>2. \A p \in Procs : work[p] \in [Requests -> {"none", "queued", "running", "settled"}]
    BY DEF WorkTypeOK
  <1>3. WorkTypeOK' /\ LateInv'
    BY <1>1, <1>2 DEF WorkTypeOK, LateInv
  <1>4. CallsInv'
    BY <1>1 DEF CallsInv, InRestart
  <1>5. \A p \in Procs, s \in Requests :
          work'[p][s] # "none" => work'[p][s] = work[p][s] \/ (s = r /\ ptr[r] = p /\ work'[p][s] = "queued")
    BY <1>2 DEF OwnPorts, Pointers, Holding
  <1>6. WorkInv'
    BY <1>1, <1>5 DEF WorkInv, CallsInv, InRestart
  <1> QED
    BY <1>3, <1>4, <1>6

(* So does an answer that is read.                                         *)
LEMMA AnswerInv ==
  ASSUME IndInv, OwnPorts, ExecInv, NEW r \in Requests, AnswerSettled(r)
  PROVE  ExecInv'
  <1> USE DEF ExecInv, IndInv, Owners, TypeInv, TypeOK
  <1>1. ptr[r] \in Procs /\ pc[r] = "exec"
    BY DEF AnswerSettled, Answer, Pointers, Holding
  <1>2. /\ work[ptr[r]][r] = IF loaded[ptr[r]] THEN "settled" ELSE "queued"
        /\ Set(ptr[r], r, "none")
    BY <1>1 DEF AnswerSettled, Answers, OwnPorts
  <1>3. PICK a : Return(r, a) /\ (a \in Hashes => loaded[ptr[r]])
    BY <1>1, HashesAssumption DEF AnswerSettled, Answer, Answers, OwnPorts
  <1>4. /\ pc' = [pc EXCEPT ![r] = "idle"]
        /\ ptr' = [ptr EXCEPT ![r] = Nil]
        /\ attempt' = [attempt EXCEPT ![r] = 0]
        /\ outcome' = [outcome EXCEPT ![r] = a]
        /\ UNCHANGED <<back, runs, clientFirst, late>>
    BY <1>3 DEF AnswerSettled, Answer, Return, Goto, Hold
  <1>5. a \in Hashes => runs[r] > 0
    BY <1>1, <1>2, <1>3 DEF WorkInv
  <1>6. WorkTypeOK' /\ LateInv'
    BY <1>2, <1>4 DEF WorkTypeOK, LateInv, Set
  <1>7. CallsInv'
    BY <1>1, <1>4, <1>5, BoundsAssumption DEF CallsInv, WorkTypeOK, InRestart
  <1>8. \A p \in Procs, s \in Requests : work'[p][s] # "none" => s # r /\ work'[p][s] = work[p][s]
    BY <1>1, <1>2 DEF WorkTypeOK, WorkInv, Set
  <1>9. WorkInv'
    BY <1>4, <1>8 DEF WorkInv
  <1> QED
    BY <1>6, <1>7, <1>9

(* So does a call.                                                         *)
LEMMA CallInv ==
  ASSUME IndInv, ExecInv, NEW r \in Requests, NEW h \in Hashes, CallCounted(r, h)
  PROVE  ExecInv'
  <1> USE DEF ExecInv, IndInv, Owners, TypeInv, TypeOK
  <1>1. /\ pc[r] = "idle" /\ pc' = [pc EXCEPT ![r] = "lookup"]
        /\ outcome' = [outcome EXCEPT ![r] = "none"] /\ runs' = [runs EXCEPT ![r] = 0]
        /\ UNCHANGED <<ptr, back, attempt, work, clientFirst, late>>
    BY DEF CallCounted, Call, Goto
  <1>2. WorkTypeOK' /\ LateInv'
    BY <1>1 DEF WorkTypeOK, LateInv
  <1>3. CallsInv'
    BY <1>1, HashesAssumption, BoundsAssumption DEF CallsInv, InRestart, WorkTypeOK
  <1>4. WorkInv'
    BY <1>1 DEF WorkInv, WorkTypeOK
  <1> QED
    BY <1>2, <1>3, <1>4

(* So does a step of an executor.                                          *)
LEMMA ExecutorInv ==
  ASSUME IndInv, ExecInv, NEW p \in Procs, NEW r \in Requests, ExecutorStep(p, r)
  PROVE  ExecInv'
  <1> USE DEF ExecInv, IndInv, Owners, TypeInv, TypeOK
  <1>1. UNCHANGED <<pc, ptr, back, attempt, outcome, clientFirst>>
    BY DEF ExecutorStep, Start, Settle, TimeOut, EndLate, Import, vars, callVars
  <1>2. CASE Start(p, r)
    <2>1. /\ work[p][r] = "queued" /\ work' = [work EXCEPT ![p][r] = "running"]
          /\ runs' = [runs EXCEPT ![r] = @ + 1] /\ UNCHANGED late
      BY <1>2 DEF Start, Set
    <2>2. /\ runs[r] <= attempt[r] /\ runs[r] \in Nat /\ attempt[r] \in Nat
          /\ pc[r] = "exec" \/ (pc[r] = "kill" /\ back[r] = "retry")
      BY <2>1, BoundsAssumption DEF WorkInv, WorkTypeOK
    <2>3. WorkTypeOK' /\ LateInv'
      BY <1>1, <2>1 DEF WorkTypeOK, LateInv
    <2>4. CallsInv'
      BY <1>1, <2>1, <2>2 DEF CallsInv, InRestart, WorkTypeOK
    <2>5. \A q \in Procs : q # p => work[q][r] = "none"
      BY <2>1 DEF WorkInv
    <2>6. WorkInv'
      BY <1>1, <2>1, <2>2, <2>5 DEF WorkInv, WorkTypeOK
    <2> QED
      BY <2>3, <2>4, <2>6
  <1>3. CASE Settle(p, r)
    BY <1>1, <1>3 DEF Settle, Set, WorkTypeOK, CallsInv, WorkInv, LateInv
  <1>4. CASE TimeOut(p, r)
    BY <1>1, <1>4 DEF TimeOut, Set, WorkTypeOK, CallsInv, WorkInv, LateInv
  <1>5. CASE EndLate(p, r)
    BY <1>1, <1>5 DEF EndLate, WorkTypeOK, CallsInv, WorkInv, LateInv
  <1> QED
    BY <1>2, <1>3, <1>4, <1>5 DEF ExecutorStep

(* So it is in every run.                                                  *)
LEMMA ExecInvariant == ASSUME ~PortReuse PROVE SpecExecutions => [](IndInv /\ ExecInv)
  <1>1. InitExecutions => ExecInv
    BY BoundsAssumption, HashesAssumption
    DEF InitExecutions, Init, ExecInv, WorkTypeOK, CallsInv, WorkInv, LateInv
  <1>2. IndInv /\ OwnPorts /\ ExecInv /\ [NextExecutions]_allVars => ExecInv'
    <2> SUFFICES ASSUME IndInv, OwnPorts, ExecInv, [NextExecutions]_allVars
                 PROVE  ExecInv'
      OBVIOUS
    <2>1. CASE NextExecutions
      BY <2>1, SendInv, AnswerInv, CallInv, ExecutorInv, OtherInv DEF NextExecutions
    <2>2. CASE UNCHANGED allVars
      BY <2>2 DEF allVars, execVars, vars, callVars, ExecInv, WorkTypeOK, CallsInv, WorkInv, LateInv
    <2> QED
      BY <2>1, <2>2
  <1> QED
    BY ManagerInvariant, <1>1, <1>2, PTL DEF SpecExecutions

(* Attempts of one call are never under way at once, and none survives its *)
(* call.                                                                   *)
THEOREM AttemptsStayApart == ASSUME ~PortReuse PROVE SpecExecutions => []AttemptsApart
  <1>1. ExecInv => AttemptsApart
    BY DEF ExecInv, WorkInv, AttemptsApart
  <1> QED
    BY ExecInvariant, <1>1, PTL

(* A function runs at least once for an answer and at most MaxRetries + 1  *)
(* times for a call.                                                       *)
THEOREM RunsAreBounded == ASSUME ~PortReuse PROVE SpecExecutions => []RunsCounted
  <1>1. ExecInv => RunsCounted
    BY DEF ExecInv, CallsInv, RunsCounted, InRestart
  <1> QED
    BY ExecInvariant, <1>1, PTL

(* With the client's timeout the shorter one, functions of two calls       *)
(* overlap only in a child that is about to be killed.                     *)
THEOREM OnlyDoomedOverlap == ASSUME ~PortReuse PROVE SpecExecutions => []OverlapIsDoomed
  <1>1. IndInv /\ ExecInv => OverlapIsDoomed
    BY DEF IndInv, Owners, Locks, ExecInv, WorkInv, LateInv, WorkTypeOK, Executes, OverlapIsDoomed
  <1> QED
    BY ExecInvariant, <1>1, PTL
=============================================================================
