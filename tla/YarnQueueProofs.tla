--------------------------- MODULE YarnQueueProofs ---------------------------
(* Safety of the yarn install queue for every finite set of jobs and every *)
(* positive capacity.                                                      *)
EXTENDS YarnQueue, FiniteSetTheorems, TLAPS

(* Moving one job between acquire and release changes the number of slot   *)
(* holders by one.                                                         *)
LEMMA SlotTaken ==
  ASSUME IsFiniteSet(Jobs), NEW j \in Jobs, j \notin SlotHolders,
         SlotHolders' = SlotHolders \cup {j}
  PROVE  Cardinality(SlotHolders') = Cardinality(SlotHolders) + 1
<1>1. IsFiniteSet(SlotHolders)
  BY FS_Subset DEF SlotHolders
<1>2. QED
  BY <1>1, FS_AddElement

(* A slot that is returned was one of those held.                          *)
LEMMA SlotReturned ==
  ASSUME IsFiniteSet(Jobs), NEW j \in Jobs, j \in SlotHolders,
         SlotHolders' = SlotHolders \ {j}
  PROVE  /\ Cardinality(SlotHolders) \in Nat \ {0}
         /\ Cardinality(SlotHolders') = Cardinality(SlotHolders) - 1
<1>1. IsFiniteSet(SlotHolders)
  BY FS_Subset DEF SlotHolders
<1>2. Cardinality(SlotHolders) \in Nat /\ Cardinality(SlotHolders) # 0
  BY <1>1, FS_CardinalityType, FS_EmptySet
<1>3. Cardinality(SlotHolders') = Cardinality(SlotHolders) - 1
  BY <1>1, FS_RemoveElement
<1>4. QED
  BY <1>2, <1>3

(* No job holds a slot before the first one is submitted.                  *)
LEMMA InitInv == Init => IndInv
<1>1. SUFFICES ASSUME Init PROVE IndInv
  OBVIOUS
<1>2. SlotHolders = {}
  BY <1>1 DEF Init, SlotHolders
<1>3. SlotsCounted
  BY <1>1, <1>2, FS_EmptySet DEF Init, SlotsCounted
<1>4. TypeOK
  BY <1>1, MaxConcurrentAssumption DEF Init, TypeOK, CallerStates, WorkerStates, Results
<1>5. QED
  BY <1>1, <1>3, <1>4
  DEF Init, IndInv, ResultIsLast, NoInstallBehindCaller, OnlyAbandonedInTheWay

(* Each step of the queue keeps the inductive invariant.                   *)
LEMMA NextInv == IndInv /\ [Next]_vars => IndInv'
<1> SUFFICES ASSUME IndInv, [Next]_vars PROVE IndInv'
  OBVIOUS
<1> USE DEF IndInv, TypeOK, CallerStates, WorkerStates, Results
<1> DEFINE Rest == ResultIsLast /\ NoInstallBehindCaller /\ OnlyAbandonedInTheWay
<1>1. ASSUME NEW j \in Jobs, InstallDependencies(j) PROVE IndInv'
  <2>1. SlotHolders' = SlotHolders
    BY <1>1 DEF InstallDependencies, Goto, SlotHolders
  <2>2. SlotsCounted'
    BY <1>1, <2>1 DEF InstallDependencies, SlotsCounted
  <2>3. TypeOK'
    BY <1>1 DEF InstallDependencies, Goto
  <2>4. Rest'
    BY <1>1
    DEF InstallDependencies, Goto, ResultIsLast, NoInstallBehindCaller, OnlyAbandonedInTheWay
  <2>5. QED
    BY <2>2, <2>3, <2>4
<1>2. ASSUME NEW j \in Jobs, CallerStep(j) \/ Cancel(j) PROVE IndInv'
  <2>1. SlotHolders' = SlotHolders /\ SlotsCounted'
    BY <1>2 DEF CallerStep, ReceiveResult, GiveUp, Cancel, SlotHolders, SlotsCounted
  <2>2. TypeOK'
    BY <1>2 DEF CallerStep, ReceiveResult, GiveUp, Cancel
  <2>3. Rest'
    BY <1>2
    DEF CallerStep, ReceiveResult, GiveUp, Cancel,
        ResultIsLast, NoInstallBehindCaller, OnlyAbandonedInTheWay
  <2>4. QED
    BY <2>1, <2>2, <2>3
<1>3. ASSUME NEW j \in Jobs, Acquire(j) PROVE IndInv'
  <2>1. j \notin SlotHolders /\ SlotHolders' = SlotHolders \cup {j}
    BY <1>3 DEF Acquire, Goto, SlotHolders
  <2>2. Cardinality(SlotHolders') = Cardinality(SlotHolders) + 1
    BY <2>1, JobsAssumption, SlotTaken
  <2>3. SlotsCounted'
    BY <1>3, <2>2 DEF Acquire, SlotsCounted
  <2>4. TypeOK'
    BY <1>3, MaxConcurrentAssumption DEF Acquire, Goto
  <2>5. Rest'
    BY <1>3 DEF Acquire, Goto, ResultIsLast, NoInstallBehindCaller, OnlyAbandonedInTheWay
  <2>6. QED
    BY <2>3, <2>4, <2>5
<1>4. ASSUME NEW j \in Jobs, Release(j) PROVE IndInv'
  <2>1. j \in SlotHolders /\ SlotHolders' = SlotHolders \ {j}
    BY <1>4 DEF Release, Goto, SlotHolders
  <2>2. /\ Cardinality(SlotHolders) \in Nat \ {0}
        /\ Cardinality(SlotHolders') = Cardinality(SlotHolders) - 1
    BY <2>1, JobsAssumption, SlotReturned
  <2>3. SlotsCounted'
    BY <1>4, <2>2 DEF Release, SlotsCounted
  <2>4. TypeOK'
    BY <1>4, <2>2, MaxConcurrentAssumption DEF Release, Goto, SlotsCounted
  <2>5. Rest'
    BY <1>4 DEF Release, Goto, ResultIsLast, NoInstallBehindCaller, OnlyAbandonedInTheWay
  <2>6. QED
    BY <2>3, <2>4, <2>5
<1>5. ASSUME NEW j \in Jobs, GiveUpSlot(j) \/ SendResult(j) \/ SendCtxErr(j) \/ YarnEnds(j)
      PROVE  IndInv'
  <2>1. SlotHolders' = SlotHolders
    BY <1>5 DEF GiveUpSlot, SendResult, SendCtxErr, YarnEnds, Goto, SlotHolders
  <2>2. SlotsCounted'
    BY <1>5, <2>1 DEF GiveUpSlot, SendResult, SendCtxErr, YarnEnds, SlotsCounted
  <2>3. TypeOK'
    BY <1>5 DEF GiveUpSlot, SendResult, SendCtxErr, YarnEnds, Goto
  <2>4. Rest'
    BY <1>5
    DEF GiveUpSlot, SendResult, SendCtxErr, YarnEnds, Goto,
        ResultIsLast, NoInstallBehindCaller, OnlyAbandonedInTheWay
  <2>5. QED
    BY <2>2, <2>3, <2>4
<1>6. ASSUME UNCHANGED vars PROVE IndInv'
  BY <1>6
  DEF vars, SlotsCounted, SlotHolders, ResultIsLast, NoInstallBehindCaller, OnlyAbandonedInTheWay
<1>7. QED
  BY <1>1, <1>2, <1>3, <1>4, <1>5, <1>6 DEF Next, WorkerStep

(* The inductive invariant, the accounting of slots among its parts, holds *)
(* in every reachable state.                                               *)
THEOREM Inductive == Spec => []IndInv
<1>1. QED
  BY InitInv, NextInv, PTL DEF Spec

(* "manages concurrent yarn install operations" (yarn.go): never more      *)
(* installs than the semaphore has slots.                                  *)
THEOREM InstallsWithinLimit == Spec => []InstallsBounded
<1>1. IndInv => InstallsBounded
  <2> SUFFICES ASSUME IndInv PROVE InstallsBounded
    OBVIOUS
  <2> DEFINE Running == {j \in Jobs : worker[j] = "running"}
  <2>1. IsFiniteSet(SlotHolders) /\ Running \subseteq SlotHolders
    BY JobsAssumption, FS_Subset DEF SlotHolders
  <2>2. /\ Cardinality(Running) \in Nat
        /\ Cardinality(SlotHolders) \in Nat
        /\ Cardinality(Running) <= Cardinality(SlotHolders)
    BY <2>1, FS_Subset, FS_CardinalityType
  <2>3. Cardinality(SlotHolders) <= MaxConcurrent
    BY MaxConcurrentAssumption DEF IndInv, TypeOK, SlotsCounted
  <2>4. QED
    BY <2>2, <2>3, MaxConcurrentAssumption DEF InstallsBounded
<1>2. QED
  BY Inductive, <1>1, PTL

(* Only a cancelled call leaves yarn at work in the directory it returns   *)
(* from (InstallDependencies, yarn.go).                                    *)
THEOREM CallerWaitsForInstall == Spec => []NoInstallBehindCaller
<1>1. QED
  BY Inductive, PTL DEF IndInv

(* A job competes for slots with abandoned installs only, because          *)
(* getOrCreateProcess installs under pm.lock.                              *)
THEOREM OthersAreAbandoned == Spec => []OnlyAbandonedInTheWay
<1>1. QED
  BY Inductive, PTL DEF IndInv
=============================================================================
