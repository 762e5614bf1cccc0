-------------------------- MODULE ProvisioningProofs --------------------------
(***************************************************************************)
(* Proofs about Provisioning, for every set of requests, pods and          *)
(* executors and every number of attempts: its types; the inductive        *)
(* invariant IInv when reconcile commands run one at a time, and the       *)
(* properties that follow from it; the implementation of Acquisition.      *)
(***************************************************************************)
EXTENDS ProvisioningOneReconciler, TLAPS

-----------------------------------------------------------------------------
(* Types.                                                                  *)

(* The states of an attempt and of its request stay states. *)
LEMMA SetStateTypes ==
  ASSUME TypeOK, NEW r, NEW n, NEW s \in AttemptStates, SetState(r, n, s)
  PROVE  /\ requestState' \in [Requests -> AttemptStates]
         /\ attemptState' \in [Requests -> [Numbers -> AttemptStates]]
BY DEF TypeOK, SetState

(* Beginning an attempt keeps the types. *)
LEMMA BeginProvisioningTypes ==
  ASSUME TypeOK, NEW e \in Executors, NEW r \in Requests, NEW n \in Numbers, BeginProvisioning(e, r, n)
  PROVE  TypeOK'
<1>1. /\ requestState' \in [Requests -> AttemptStates]
      /\ attemptState' \in [Requests -> [Numbers -> AttemptStates]]
  BY SetStateTypes DEF BeginProvisioning, AttemptStates
<1>2. executor' \in [Executors -> Process(ExecutorSteps)]
BY ConstantsAssumption DEF TypeOK, BeginProvisioning, Process, ExecutorSteps, Numbers
<1> QED  BY <1>1, <1>2 DEF TypeOK, BeginProvisioning, ledger, provider, Numbers

(* Sending the create call keeps the types. *)
LEMMA SendCreateTypes ==
  ASSUME TypeOK, NEW e \in Executors, SendCreate(e)
  PROVE  TypeOK'
<1>1. executor' \in [Executors -> Process(ExecutorSteps)]
  BY ConstantsAssumption DEF TypeOK, SendCreate, Idle, Process, ExecutorSteps, Numbers
<1> QED  BY <1>1 DEF TypeOK, SendCreate, ledger, provider, Numbers

(* An answer with a pod keeps the types. *)
LEMMA AnswerPodTypes ==
  ASSUME TypeOK, NEW e \in Executors, AnswerPod(e)
  PROVE  TypeOK'
<1>1. PICK p \in Pods :
        /\ StoreAllocation(executor[e].request, executor[e].number, p)
        /\ executor' = [executor EXCEPT ![e] = WithPod(@, "register", p)]
  BY DEF AnswerPod
<1>2. executor[e] \in Process(ExecutorSteps)
  BY DEF TypeOK
<1>3. executor' \in [Executors -> Process(ExecutorSteps)]
  BY <1>1, <1>2 DEF TypeOK, WithPod, Process, ExecutorSteps
<1>4. /\ attemptPod' \in [Requests -> [Numbers -> Pods \cup {NoPod}]]
      /\ allocation' \in [Requests -> [number : Nat, pod : Pods \cup {NoPod}]]
  BY <1>1, <1>2 DEF TypeOK, StoreAllocation, Process
<1>5. /\ requestState' \in [Requests -> AttemptStates]
      /\ attemptState' \in [Requests -> [Numbers -> AttemptStates]]
  BY <1>1, SetStateTypes DEF StoreAllocation, AttemptStates
<1> QED  BY <1>3, <1>4, <1>5 DEF TypeOK, AnswerPod, provider

(* A refused create call keeps the types. *)
LEMMA AnswerRejectedTypes ==
  ASSUME TypeOK, NEW e \in Executors, AnswerRejected(e)
  PROVE  TypeOK'
<1>1. /\ requestState' \in [Requests -> AttemptStates]
      /\ attemptState' \in [Requests -> [Numbers -> AttemptStates]]
  BY SetStateTypes DEF AnswerRejected, AttemptStates
<1>2. executor' \in [Executors -> Process(ExecutorSteps)]
BY ConstantsAssumption DEF TypeOK, AnswerRejected, Idle, Process, ExecutorSteps
<1> QED  BY <1>1, <1>2 DEF TypeOK, AnswerRejected, ledger, provider

(* A lost create call keeps the types. *)
LEMMA AnswerUncertainTypes ==
  ASSUME TypeOK, NEW e \in Executors, AnswerUncertain(e)
  PROVE  TypeOK'
<1>1. /\ requestState' \in [Requests -> AttemptStates]
      /\ attemptState' \in [Requests -> [Numbers -> AttemptStates]]
  BY SetStateTypes DEF AnswerUncertain, AttemptStates
<1>2. executor' \in [Executors -> Process(ExecutorSteps)]
BY ConstantsAssumption DEF TypeOK, AnswerUncertain, Idle, Process, ExecutorSteps
<1> QED  BY <1>1, <1>2 DEF TypeOK, AnswerUncertain, ledger, provider

(* Registering a launched machine keeps the types. *)
LEMMA RegisterLaunchTypes ==
  ASSUME TypeOK, NEW e \in Executors, RegisterLaunch(e)
  PROVE  TypeOK'
<1>1. executor' \in [Executors -> Process(ExecutorSteps)]
BY ConstantsAssumption DEF TypeOK, RegisterLaunch, Idle, Process, ExecutorSteps
<1>2. registry' \in [Pods -> Requests \cup {Nobody}]
  BY DEF TypeOK, RegisterLaunch, Process
<1> QED  BY <1>1, <1>2 DEF TypeOK, RegisterLaunch, ledger, provider

(* The death of an executor keeps the types. *)
LEMMA ExecutorDiesTypes ==
  ASSUME TypeOK, NEW e \in Executors, ExecutorDies(e)
  PROVE  TypeOK'
<1>1. executor' \in [Executors -> Process(ExecutorSteps)]
BY ConstantsAssumption DEF TypeOK, ExecutorDies, Idle, Process, ExecutorSteps
<1> QED  BY <1>1 DEF TypeOK, ExecutorDies, ledger, provider

(* The creation of a pod keeps the types. *)
LEMMA CreatePodTypes ==
  ASSUME TypeOK, NEW r \in Requests, NEW n \in Numbers, NEW p \in Pods, CreatePod(r, n, p)
  PROVE  TypeOK'
<1> QED  BY ConstantsAssumption DEF TypeOK, CreatePod, ledger, Numbers

(* The provider's refusal keeps the types. *)
LEMMA RejectCreateTypes ==
  ASSUME TypeOK, NEW r \in Requests, NEW n \in Numbers, RejectCreate(r, n)
  PROVE  TypeOK'
<1> QED  BY ConstantsAssumption DEF TypeOK, RejectCreate, ledger

(* The end of a pod keeps the types. *)
LEMMA PodEndsTypes ==
  ASSUME TypeOK, NEW p \in Pods, PodEnds(p)
  PROVE  TypeOK'
<1> QED  BY ConstantsAssumption DEF TypeOK, PodEnds, ledger

(* Reading an attempt to reconcile keeps the types. *)
LEMMA ReadAttemptTypes ==
  ASSUME TypeOK, NEW k \in Reconcilers, NEW r \in Requests, NEW n \in Numbers, ReadAttempt(k, r, n)
  PROVE  TypeOK'
<1>1. reconciler' \in [Reconcilers -> Process(ReconcilerSteps)]
BY ConstantsAssumption DEF TypeOK, ReadAttempt, Process, ReconcilerSteps, Numbers
<1> QED  BY <1>1 DEF TypeOK, ReadAttempt, ledger, provider

(* A list without a match keeps the types. *)
LEMMA ListNoneTypes ==
  ASSUME TypeOK, NEW k \in Reconcilers, ListNone(k)
  PROVE  TypeOK'
<1>1. PICK x \in Process(ReconcilerSteps) : reconciler' = [reconciler EXCEPT ![k] = x]
  <2>1. CASE reconciler' = [reconciler EXCEPT ![k].pc = "absent"]
    <3>1. [reconciler[k] EXCEPT !.pc = "absent"] \in Process(ReconcilerSteps)
      BY DEF TypeOK, Process, ReconcilerSteps
    <3> QED  BY <2>1, <3>1
  <2>2. CASE reconciler' = [reconciler EXCEPT ![k] = Idle]
    BY <2>2 DEF Idle, Process, ReconcilerSteps
  <2> QED  BY <2>1, <2>2 DEF ListNone
<1>2. reconciler' \in [Reconcilers -> Process(ReconcilerSteps)]
  BY <1>1 DEF TypeOK
<1> QED  BY <1>2 DEF TypeOK, ListNone, ledger, provider

(* A list with one match keeps the types. *)
LEMMA ListOneTypes ==
  ASSUME TypeOK, NEW k \in Reconcilers, ListOne(k)
  PROVE  TypeOK'
<1>1. reconciler[k] \in Process(ReconcilerSteps)
  BY DEF TypeOK
<1>2. reconciler' \in [Reconcilers -> Process(ReconcilerSteps)]
  BY <1>1 DEF TypeOK, ListOne, WithPod, Process, ReconcilerSteps
<1> QED  BY <1>1, <1>2 DEF TypeOK, ListOne, ledger, provider

(* A list with several matches keeps the types. *)
LEMMA ListManyTypes ==
  ASSUME TypeOK, NEW k \in Reconcilers, ListMany(k)
  PROVE  TypeOK'
<1>1. reconciler' \in [Reconcilers -> Process(ReconcilerSteps)]
BY ConstantsAssumption DEF TypeOK, ListMany, Idle, Process, ReconcilerSteps
<1> QED  BY <1>1 DEF TypeOK, ListMany, ledger, provider

(* The check before a failure keeps the types. *)
LEMMA CheckAbsentTypes ==
  ASSUME TypeOK, NEW k \in Reconcilers, CheckAbsent(k)
  PROVE  TypeOK'
<1>1. reconciler' \in [Reconcilers -> Process(ReconcilerSteps)]
  BY ConstantsAssumption DEF TypeOK, CheckAbsent, Idle, Process, ReconcilerSteps, Numbers
<1> QED  BY <1>1 DEF TypeOK, CheckAbsent, ledger, provider

(* The write of a failure keeps the types. *)
LEMMA WriteFailedTypes ==
  ASSUME TypeOK, NEW k \in Reconcilers, WriteFailed(k)
  PROVE  TypeOK'
<1>1. /\ requestState' \in [Requests -> AttemptStates]
      /\ attemptState' \in [Requests -> [Numbers -> AttemptStates]]
  BY SetStateTypes DEF WriteFailed, AttemptStates
<1>2. reconciler' \in [Reconcilers -> Process(ReconcilerSteps)]
BY ConstantsAssumption DEF TypeOK, WriteFailed, Idle, Process, ReconcilerSteps
<1>3. confirmed' \subseteq [request : Requests \cup {Nobody}, number : Nat]
  BY DEF TypeOK, WriteFailed, Process
<1> QED  BY <1>1, <1>2, <1>3 DEF TypeOK, WriteFailed, ledger, provider, Numbers

(* The check before a recovery keeps the types. *)
LEMMA CheckRecoverTypes ==
  ASSUME TypeOK, NEW k \in Reconcilers, CheckRecover(k)
  PROVE  TypeOK'
<1>1. PICK pc \in {"write_allocation", "register"} :
        reconciler' = [reconciler EXCEPT ![k].pc = pc]
  BY DEF CheckRecover
<1>2. reconciler' \in [Reconcilers -> Process(ReconcilerSteps)]
  BY <1>1 DEF TypeOK, Process, ReconcilerSteps
<1> QED  BY <1>2 DEF TypeOK, CheckRecover, ledger, provider

(* The write of a recovery keeps the types. *)
LEMMA WriteAllocationTypes ==
  ASSUME TypeOK, NEW k \in Reconcilers, WriteAllocation(k)
  PROVE  TypeOK'
<1>1. StoreAllocation(reconciler[k].request, reconciler[k].number, reconciler[k].pod)
  BY DEF WriteAllocation
<1>2. reconciler[k] \in Process(ReconcilerSteps)
  BY DEF TypeOK
<1>3. reconciler' \in [Reconcilers -> Process(ReconcilerSteps)]
  BY DEF TypeOK, WriteAllocation, Process, ReconcilerSteps
<1>4. /\ attemptPod' \in [Requests -> [Numbers -> Pods \cup {NoPod}]]
      /\ allocation' \in [Requests -> [number : Nat, pod : Pods \cup {NoPod}]]
  BY <1>1, <1>2 DEF TypeOK, StoreAllocation, Process
<1>5. /\ requestState' \in [Requests -> AttemptStates]
      /\ attemptState' \in [Requests -> [Numbers -> AttemptStates]]
  BY <1>1, SetStateTypes DEF StoreAllocation, AttemptStates
<1> QED  BY <1>3, <1>4, <1>5 DEF TypeOK, WriteAllocation, provider

(* Registering a recovered machine keeps the types. *)
LEMMA RegisterRecoveryTypes ==
  ASSUME TypeOK, NEW k \in Reconcilers, RegisterRecovery(k)
  PROVE  TypeOK'
<1>1. reconciler' \in [Reconcilers -> Process(ReconcilerSteps)]
BY ConstantsAssumption DEF TypeOK, RegisterRecovery, Idle, Process, ReconcilerSteps
<1>2. registry' \in [Pods -> Requests \cup {Nobody}]
  BY DEF TypeOK, RegisterRecovery, Process
<1> QED  BY <1>1, <1>2 DEF TypeOK, RegisterRecovery, ledger, provider

(* The death of a reconciler keeps the types. *)
LEMMA ReconcilerDiesTypes ==
  ASSUME TypeOK, NEW k \in Reconcilers, ReconcilerDies(k)
  PROVE  TypeOK'
<1>1. reconciler' \in [Reconcilers -> Process(ReconcilerSteps)]
BY ConstantsAssumption DEF TypeOK, ReconcilerDies, Idle, Process, ReconcilerSteps
<1> QED  BY <1>1 DEF TypeOK, ReconcilerDies, ledger, provider

(* Every step keeps the types, however many reconcilers there are. *)
LEMMA NextTypes ==
  ASSUME TypeOK, [Next]_vars
  PROVE  TypeOK'
<1>1. CASE UNCHANGED vars
  BY <1>1 DEF TypeOK, vars, ledger, provider
<1>2. ASSUME NEW e \in Executors, NEW r \in Requests, NEW n \in Numbers, BeginProvisioning(e, r, n)
      PROVE  TypeOK'
  BY <1>2, BeginProvisioningTypes
<1>3. ASSUME NEW e \in Executors, ExecutorStep(e) \/ ExecutorDies(e)
      PROVE  TypeOK'
  BY <1>3, SendCreateTypes, AnswerPodTypes, AnswerRejectedTypes, AnswerUncertainTypes,
     RegisterLaunchTypes, ExecutorDiesTypes DEF ExecutorStep
<1>4. ASSUME NEW k \in Reconcilers, NEW r \in Requests, NEW n \in Numbers, ReadAttempt(k, r, n)
      PROVE  TypeOK'
  BY <1>4, ReadAttemptTypes
<1>5. ASSUME NEW k \in Reconcilers, ReconcilerStep(k) \/ ReconcilerDies(k)
      PROVE  TypeOK'
  BY <1>5, ListNoneTypes, ListOneTypes, ListManyTypes, CheckAbsentTypes, WriteFailedTypes,
     CheckRecoverTypes, WriteAllocationTypes, RegisterRecoveryTypes, ReconcilerDiesTypes
     DEF ReconcilerStep
<1>6. ASSUME NEW r \in Requests, NEW n \in Numbers, NEW p \in Pods, CreatePod(r, n, p)
      PROVE  TypeOK'
  BY <1>6, CreatePodTypes
<1>7. ASSUME NEW r \in Requests, NEW n \in Numbers, RejectCreate(r, n)
      PROVE  TypeOK'
  BY <1>7, RejectCreateTypes
<1>8. ASSUME NEW p \in Pods, PodEnds(p)
      PROVE  TypeOK'
  BY <1>8, PodEndsTypes
<1> QED  BY <1>1, <1>2, <1>3, <1>4, <1>5, <1>6, <1>7, <1>8 DEF Next

(* Every variable keeps its type, however many reconcilers there are. *)
THEOREM TypeCorrect == Spec => []TypeOK
<1>1. Init => TypeOK
BY ConstantsAssumption DEF Init, TypeOK, AttemptStates, NoAttempt, NoAllocation, Idle, Process,
     ExecutorSteps, ReconcilerSteps
<1>2. TypeOK /\ [Next]_vars => TypeOK'
  BY NextTypes
<1> QED  BY <1>1, <1>2, PTL DEF Spec

-----------------------------------------------------------------------------
(* What settling an attempt does to the attempts of its request.           *)

(* What SetState writes, row by row. *)
LEMMA SetStateRows ==
  ASSUME TypeOK, NEW r \in Requests, NEW n \in Numbers, NEW s, SetState(r, n, s)
  PROVE  /\ \A m \in Numbers : attemptState'[r][m] = IF m = n THEN s ELSE attemptState[r][m]
         /\ \A q \in Requests : q # r => attemptState'[q] = attemptState[q]
         /\ \A q \in Requests : requestState'[q] = IF q = r THEN s ELSE requestState[q]
BY DEF SetState, TypeOK

(* An attempt that may begin has no row, no later one, and only failures   *)
(* before it. *)
LEMMA BegunIsLatest ==
  ASSUME OneOpenAttempt, NEW r \in Requests, NEW n \in Numbers, MayBegin(r, n)
  PROVE  /\ \A m \in Numbers : m > n => attemptState[r][m] = "absent"
         /\ \A m \in Numbers : m < n => attemptState[r][m] = "failed"
         /\ attemptState[r][n] = "absent"
<1> USE ConstantsAssumption DEF Numbers
<1>1. CASE n = 1
  BY <1>1 DEF MayBegin, IsLatest
<1>2. CASE n > 1
  <2>1. n - 1 \in Numbers /\ IsLatest(r, n - 1) /\ attemptState[r][n - 1] = "failed"
    BY <1>2 DEF MayBegin
  <2>2. \A m \in Numbers : m < n - 1 => attemptState[r][m] = "failed"
    BY <2>1 DEF OneOpenAttempt
  <2> QED  BY <2>1, <2>2 DEF IsLatest
<1> QED  BY <1>1, <1>2

(* Beginning an attempt keeps it the latest of its request. *)
LEMMA BeginningKeepsAttempts ==
  ASSUME TypeOK, OneOpenAttempt, RequestMirrorsLatest, UntriedIsAbsent,
         NEW r \in Requests, NEW n \in Numbers,
         MayBegin(r, n), SetState(r, n, "pending")
  PROVE  OneOpenAttempt' /\ RequestMirrorsLatest' /\ UntriedIsAbsent'
<1>1. OneOpenAttempt'
  BY SetStateRows, BegunIsLatest DEF OneOpenAttempt, Numbers
<1>2. RequestMirrorsLatest'
  BY SetStateRows, BegunIsLatest DEF RequestMirrorsLatest, IsLatest, Numbers
<1>3. UntriedIsAbsent'
  BY SetStateRows DEF UntriedIsAbsent
<1> QED  BY <1>1, <1>2, <1>3

(* The attempt that is settled is the latest. *)
LEMMA SettlingKeepsAttempts ==
  ASSUME TypeOK, OneOpenAttempt, RequestMirrorsLatest, UntriedIsAbsent,
         NEW r \in Requests, NEW n \in Numbers, NEW s \in {"uncertain", "failed", "succeeded"},
         attemptState[r][n] \in {"pending", "uncertain"}, SetState(r, n, s)
  PROVE  OneOpenAttempt' /\ RequestMirrorsLatest' /\ UntriedIsAbsent'
<1>1. \A m \in Numbers : m > n => attemptState[r][m] = "absent"
  BY DEF OneOpenAttempt, Numbers
<1>2. OneOpenAttempt'
  BY <1>1, SetStateRows DEF OneOpenAttempt, Numbers
<1>3. RequestMirrorsLatest'
  BY <1>1, SetStateRows DEF RequestMirrorsLatest, IsLatest, Numbers
<1>4. UntriedIsAbsent'
  BY SetStateRows DEF UntriedIsAbsent
<1> QED  BY <1>2, <1>3, <1>4

(* A request without an allocation has no succeeded attempt, so settling  *)
(* its attempt otherwise leaves it without one. *)
LEMMA SettlingKeepsAllocations ==
  ASSUME TypeOK, AllocationMatchesAttempt,
         NEW r \in Requests, NEW n \in Numbers, NEW s \in {"pending", "uncertain", "failed"},
         attemptState[r][n] # "succeeded", SetState(r, n, s), UNCHANGED <<attemptPod, allocation>>
  PROVE  AllocationMatchesAttempt'
BY SetStateRows DEF AllocationMatchesAttempt, NoAllocation

(* The allocation that is stored names its attempt, and the same pod. *)
LEMMA StoringKeepsAllocations ==
  ASSUME TypeOK, AllocationMatchesAttempt, AllocationHasPod,
         NEW r \in Requests, NEW n \in Numbers, NEW p \in Pods,
         allocation[r] = NoAllocation, StoreAllocation(r, n, p)
  PROVE  AllocationMatchesAttempt' /\ AllocationHasPod'
<1>1. /\ \A m \in Numbers : attemptState'[r][m] = IF m = n THEN "succeeded" ELSE attemptState[r][m]
      /\ \A q \in Requests : q # r => attemptState'[q] = attemptState[q]
      /\ attemptPod'[r][n] = p
      /\ \A q \in Requests : q # r => attemptPod'[q] = attemptPod[q]
      /\ allocation'[r] = [number |-> n, pod |-> p]
      /\ \A q \in Requests : q # r => allocation'[q] = allocation[q]
  BY DEF StoreAllocation, SetState, TypeOK
<1>2. \A m \in Numbers : attemptState[r][m] # "succeeded"
BY ConstantsAssumption DEF AllocationMatchesAttempt, NoAllocation, Numbers
<1>3. AllocationMatchesAttempt'
  BY <1>1, <1>2 DEF AllocationMatchesAttempt
<1>4. AllocationHasPod'
  BY <1>1 DEF AllocationHasPod
<1> QED  BY <1>3, <1>4
-----------------------------------------------------------------------------
(* Each action keeps the inductive invariant.                              *)

(* Beginning an attempt keeps the inductive invariant. *)
LEMMA BeginProvisioningInductive ==
  ASSUME IInv, NEW e \in Executors, NEW r \in Requests, NEW n \in Numbers, BeginProvisioning(e, r, n)
  PROVE  IInv'
<1>1. TypeOK'
  BY BeginProvisioningTypes DEF IInv
<1>2. attemptState[r][n] = "absent" /\ create[r][n] = "unsent"
  BY BegunIsLatest DEF IInv, BeginProvisioning, ProviderFollowsLedger
<1>3. OneOpenAttempt' /\ RequestMirrorsLatest' /\ UntriedIsAbsent'
  BY BeginningKeepsAttempts DEF IInv, BeginProvisioning
<1>4. AllocationMatchesAttempt'
  BY <1>2, SettlingKeepsAllocations DEF IInv, BeginProvisioning
<1>5. AllocationHasPod' /\ RegisteredIsAllocated' /\ AllocatedUnderItsName'
  BY DEF IInv, AllocationHasPod, RegisteredIsAllocated, AllocatedUnderItsName,
     BeginProvisioning, provider, Namesakes
<1>6. ExecutorOwnsAttempt'
  <2>1. executor'[e] = [pc |-> "send", request |-> r, number |-> n, pod |-> NoPod]
    BY DEF IInv, TypeOK, BeginProvisioning
  <2>2. \A f \in Executors : f # e => executor'[f] = executor[f]
    BY DEF IInv, TypeOK, BeginProvisioning
  <2>3. /\ \A q \in Requests : \A m \in Numbers :
             attemptState[q][m] # "absent" => attemptState'[q][m] = attemptState[q][m]
        /\ attemptState'[r][n] = "pending"
    BY <1>2, SetStateRows DEF IInv, BeginProvisioning
  <2>4. create' = create /\ allocation' = allocation
    BY DEF BeginProvisioning, provider
  <2> QED  BY <1>2, <2>1, <2>2, <2>3, <2>4 DEF IInv, ExecutorOwnsAttempt
<1>7. ProviderFollowsLedger'
  BY SetStateRows DEF IInv, ProviderFollowsLedger, BeginProvisioning, provider
<1>8. FailureIsCertain'
  BY SetStateRows DEF IInv, FailureIsCertain, BeginProvisioning, provider
<1>9. VerdictStillApplies'
  <2>1. \A q \in Requests : \A m \in Numbers :
            attemptState[q][m] # "absent" => attemptState'[q][m] = attemptState[q][m]
    BY <1>2, SetStateRows DEF IInv, BeginProvisioning
  <2> QED  BY <2>1 DEF IInv, VerdictStillApplies, BeginProvisioning, provider, Namesakes
<1> QED  BY <1>1, <1>3, <1>4, <1>5, <1>6, <1>7, <1>8, <1>9 DEF IInv

(* Sending the create call keeps the inductive invariant. *)
LEMMA SendCreateInductive ==
  ASSUME IInv, NEW e \in Executors, SendCreate(e)
  PROVE  IInv'
<1>1. TypeOK'
  BY SendCreateTypes DEF IInv
<1>2. /\ executor[e].request \in Requests
      /\ executor[e].number \in Numbers
      /\ attemptState[executor[e].request][executor[e].number] = "pending"
      /\ create[executor[e].request][executor[e].number] = "unsent"
  BY DEF IInv, ExecutorOwnsAttempt, SendCreate
<1>3. /\ create'[executor[e].request][executor[e].number] = "sent"
      /\ \A q \in Requests : \A m \in Numbers :
            q # executor[e].request \/ m # executor[e].number => create'[q][m] = create[q][m]
  BY <1>2 DEF IInv, TypeOK, SendCreate
<1>4. /\ OneOpenAttempt' /\ RequestMirrorsLatest' /\ UntriedIsAbsent'
      /\ AllocationMatchesAttempt' /\ AllocationHasPod'
      /\ VerdictStillApplies' /\ RegisteredIsAllocated' /\ AllocatedUnderItsName'
  BY DEF IInv, OneOpenAttempt, RequestMirrorsLatest, IsLatest, UntriedIsAbsent,
     AllocationMatchesAttempt, AllocationHasPod, VerdictStillApplies, RegisteredIsAllocated,
     AllocatedUnderItsName, SendCreate, ledger, Namesakes
<1>5. ExecutorOwnsAttempt'
  <2>1. /\ executor'[e].pc = "wait"
        /\ executor'[e].request = executor[e].request
        /\ executor'[e].number = executor[e].number
        /\ \A f \in Executors : f # e => executor'[f] = executor[f]
    BY DEF IInv, TypeOK, Process, SendCreate
  <2> QED  BY <1>2, <1>3, <2>1 DEF IInv, ExecutorOwnsAttempt, SendCreate, ledger
<1>6. ProviderFollowsLedger'
  BY <1>2, <1>3 DEF IInv, ProviderFollowsLedger, SendCreate, ledger
<1>7. FailureIsCertain'
  BY <1>2, <1>3 DEF IInv, FailureIsCertain, SendCreate, ledger
<1> QED  BY <1>1, <1>4, <1>5, <1>6, <1>7 DEF IInv

(* An answer with a pod keeps the inductive invariant. *)
LEMMA AnswerPodInductive ==
  ASSUME IInv, NEW e \in Executors, AnswerPod(e)
  PROVE  IInv'
<1> DEFINE r == executor[e].request
           n == executor[e].number
<1>1. TypeOK'
  BY AnswerPodTypes DEF IInv
<1>2. /\ r \in Requests
      /\ n \in Numbers
      /\ attemptState[r][n] = "pending"
      /\ allocation[r] = NoAllocation
  BY DEF IInv, ExecutorOwnsAttempt, AnswerPod
<1>3. PICK p \in Pods :
        /\ podFor[p] = [request |-> r, number |-> n]
        /\ StoreAllocation(r, n, p)
        /\ executor' = [executor EXCEPT ![e] = WithPod(@, "register", p)]
  BY DEF AnswerPod
<1> HIDE DEF r, n
<1>4. OneOpenAttempt' /\ RequestMirrorsLatest' /\ UntriedIsAbsent'
  BY <1>2, <1>3, SettlingKeepsAttempts DEF IInv, StoreAllocation
<1>5. AllocationMatchesAttempt' /\ AllocationHasPod'
  BY <1>2, <1>3, StoringKeepsAllocations DEF IInv
<1>6. /\ \A q \in Requests : \A m \in Numbers :
            attemptState'[q][m] = IF q = r /\ m = n THEN "succeeded" ELSE attemptState[q][m]
      /\ allocation'[r].pod = p
      /\ \A q \in Requests : q # r => allocation'[q] = allocation[q]
  BY <1>2, <1>3, SetStateRows DEF IInv, TypeOK, StoreAllocation
<1>7. ExecutorOwnsAttempt'
  <2>1. executor'[e] = [pc |-> "register", request |-> r, number |-> n, pod |-> p]
    BY <1>3 DEF IInv, TypeOK, WithPod, r, n
  <2>2. \A f \in Executors : f # e => executor'[f] = executor[f]
    BY <1>3 DEF IInv, TypeOK
  <2>3. \A f \in Executors \ {e} : executor[f].pc \in {"send", "wait"}
            => executor[f].request # r \/ executor[f].number # n
    BY DEF IInv, ExecutorOwnsAttempt, AnswerPod, r, n
  <2>4. \A f \in Executors : executor[f].pc = "register" => executor[f].request # r
    <3>1. allocation[r].pod \notin Pods
BY <1>2, ConstantsAssumption DEF NoAllocation
    <3> QED  BY <3>1 DEF IInv, ExecutorOwnsAttempt
  <2>5. create' = create
    BY DEF AnswerPod, provider
  <2> QED  BY <1>2, <1>3, <1>6, <2>1, <2>2, <2>3, <2>4, <2>5 DEF IInv, ExecutorOwnsAttempt
<1>8. ProviderFollowsLedger' /\ FailureIsCertain'
  BY <1>6 DEF IInv, ProviderFollowsLedger, FailureIsCertain, AnswerPod, provider
<1>9. VerdictStillApplies'
BY <1>2, <1>6, ConstantsAssumption DEF IInv, VerdictStillApplies, AnswerPod, provider,
     NoAllocation, Namesakes
<1>10. RegisteredIsAllocated'
  <2>1. allocation[r].pod \notin Pods
BY <1>2, ConstantsAssumption DEF NoAllocation
  <2>2. \A q \in Pods : registry[q] # r
BY <2>1, <1>2, ConstantsAssumption DEF IInv, RegisteredIsAllocated
  <2>3. \A q \in Pods : registry[q] \in Requests \cup {Nobody}
    BY DEF IInv, TypeOK
  <2> QED  BY <1>2, <1>6, <2>2, <2>3 DEF IInv, RegisteredIsAllocated, AnswerPod
<1>11. AllocatedUnderItsName'
  BY <1>2, <1>3, <1>6 DEF IInv, AllocatedUnderItsName, AnswerPod, provider, Namesakes
<1> QED  BY <1>1, <1>4, <1>5, <1>7, <1>8, <1>9, <1>10, <1>11 DEF IInv

(* A refused create call keeps the inductive invariant. *)
LEMMA AnswerRejectedInductive ==
  ASSUME IInv, NEW e \in Executors, AnswerRejected(e)
  PROVE  IInv'
<1>1. TypeOK'
  BY AnswerRejectedTypes DEF IInv
<1>2. /\ AllocationHasPod'
      /\ RegisteredIsAllocated'
      /\ AllocatedUnderItsName'
  BY DEF IInv, AllocationHasPod, RegisteredIsAllocated, AllocatedUnderItsName, AnswerRejected,
     ledger, provider, Namesakes
<1>3. OneOpenAttempt' /\ RequestMirrorsLatest' /\ UntriedIsAbsent'
  BY SettlingKeepsAttempts DEF IInv, TypeOK, ExecutorOwnsAttempt, AnswerRejected
<1>4. AllocationMatchesAttempt'
BY OneReconciler DEF IInv, AllocationMatchesAttempt, AnswerRejected, SetState
<1>5. ExecutorOwnsAttempt'
BY OneReconciler DEF IInv, TypeOK, ExecutorOwnsAttempt, AnswerRejected, SetState, provider, Idle
<1>6. ProviderFollowsLedger'
BY OneReconciler DEF IInv, ProviderFollowsLedger, AnswerRejected, SetState, provider
<1>7. FailureIsCertain'
BY OneReconciler DEF IInv, FailureIsCertain, AnswerRejected, SetState, provider
<1>8. VerdictStillApplies'
BY OneReconciler DEF IInv, VerdictStillApplies, AnswerRejected, SetState, provider, Namesakes
<1> QED  BY <1>1, <1>2, <1>3, <1>4, <1>5, <1>6, <1>7, <1>8 DEF IInv

(* A lost create call keeps the inductive invariant. *)
LEMMA AnswerUncertainInductive ==
  ASSUME IInv, NEW e \in Executors, AnswerUncertain(e)
  PROVE  IInv'
<1>1. TypeOK'
  BY AnswerUncertainTypes DEF IInv
<1>2. /\ AllocationHasPod'
      /\ RegisteredIsAllocated'
      /\ AllocatedUnderItsName'
  BY DEF IInv, AllocationHasPod, RegisteredIsAllocated, AllocatedUnderItsName, AnswerUncertain,
     ledger, provider, Namesakes
<1>3. OneOpenAttempt' /\ RequestMirrorsLatest' /\ UntriedIsAbsent'
  BY SettlingKeepsAttempts DEF IInv, TypeOK, ExecutorOwnsAttempt, AnswerUncertain
<1>4. AllocationMatchesAttempt'
BY OneReconciler DEF IInv, AllocationMatchesAttempt, AnswerUncertain, SetState
<1>5. ExecutorOwnsAttempt'
BY OneReconciler DEF IInv, TypeOK, ExecutorOwnsAttempt, AnswerUncertain, SetState, provider,
     Idle
<1>6. ProviderFollowsLedger'
BY OneReconciler DEF IInv, ProviderFollowsLedger, AnswerUncertain, SetState, provider
<1>7. FailureIsCertain'
BY OneReconciler DEF IInv, FailureIsCertain, AnswerUncertain, SetState, provider
<1>8. VerdictStillApplies'
BY OneReconciler DEF IInv, VerdictStillApplies, AnswerUncertain, SetState, provider, Namesakes
<1> QED  BY <1>1, <1>2, <1>3, <1>4, <1>5, <1>6, <1>7, <1>8 DEF IInv

(* Registering a launched machine keeps the inductive invariant. *)
LEMMA RegisterLaunchInductive ==
  ASSUME IInv, NEW e \in Executors, RegisterLaunch(e)
  PROVE  IInv'
<1>1. TypeOK'
  BY RegisterLaunchTypes DEF IInv
<1>2. /\ OneOpenAttempt' /\ RequestMirrorsLatest' /\ UntriedIsAbsent'
      /\ AllocationMatchesAttempt' /\ AllocationHasPod'
      /\ ProviderFollowsLedger' /\ FailureIsCertain'
      /\ VerdictStillApplies' /\ AllocatedUnderItsName'
  BY DEF IInv, OneOpenAttempt, RequestMirrorsLatest, IsLatest, UntriedIsAbsent,
     AllocationMatchesAttempt, AllocationHasPod, ProviderFollowsLedger, FailureIsCertain,
     VerdictStillApplies, AllocatedUnderItsName, RegisterLaunch, ledger, provider, Namesakes
<1>3. ExecutorOwnsAttempt'
  BY DEF IInv, TypeOK, ExecutorOwnsAttempt, RegisterLaunch, Idle, ledger, provider
<1>4. RegisteredIsAllocated'
  <2>1. /\ executor[e].pod \in Pods
        /\ allocation[executor[e].request].pod = executor[e].pod
    BY DEF IInv, ExecutorOwnsAttempt, RegisterLaunch
  <2>2. \A p \in Pods :
          registry'[p] = IF p = executor[e].pod THEN executor[e].request ELSE registry[p]
    BY DEF IInv, TypeOK, RegisterLaunch
  <2> QED  BY <2>1, <2>2 DEF IInv, RegisteredIsAllocated, RegisterLaunch, ledger
<1> QED  BY <1>1, <1>2, <1>3, <1>4 DEF IInv

(* The death of an executor keeps the inductive invariant. *)
LEMMA ExecutorDiesInductive ==
  ASSUME IInv, NEW e \in Executors, ExecutorDies(e)
  PROVE  IInv'
<1>1. TypeOK'
  BY ExecutorDiesTypes DEF IInv
<1>2. /\ OneOpenAttempt'
      /\ RequestMirrorsLatest'
      /\ UntriedIsAbsent'
      /\ AllocationMatchesAttempt'
      /\ AllocationHasPod'
      /\ ProviderFollowsLedger'
      /\ FailureIsCertain'
      /\ VerdictStillApplies'
      /\ RegisteredIsAllocated'
      /\ AllocatedUnderItsName'
  BY DEF IInv, OneOpenAttempt, RequestMirrorsLatest, UntriedIsAbsent, AllocationMatchesAttempt,
     AllocationHasPod, ProviderFollowsLedger, FailureIsCertain, VerdictStillApplies,
     RegisteredIsAllocated, AllocatedUnderItsName, IsLatest, ExecutorDies, ledger, provider, Namesakes
<1>3. ExecutorOwnsAttempt'
BY OneReconciler DEF IInv, ExecutorOwnsAttempt, ExecutorDies, ledger, provider, Idle
<1> QED  BY <1>1, <1>2, <1>3 DEF IInv

(* The creation of a pod keeps the inductive invariant. *)
LEMMA CreatePodInductive ==
  ASSUME IInv, NEW r \in Requests, NEW n \in Numbers, NEW p \in Pods, CreatePod(r, n, p)
  PROVE  IInv'
<1>1. TypeOK'
  BY CreatePodTypes DEF IInv
<1>2. /\ OneOpenAttempt' /\ RequestMirrorsLatest' /\ UntriedIsAbsent'
      /\ AllocationMatchesAttempt' /\ AllocationHasPod' /\ RegisteredIsAllocated'
  BY DEF IInv, OneOpenAttempt, RequestMirrorsLatest, IsLatest, UntriedIsAbsent,
     AllocationMatchesAttempt, AllocationHasPod, RegisteredIsAllocated, CreatePod, ledger
<1>3. podFor[p] = NoAttempt
  BY DEF IInv, ProviderFollowsLedger, CreatePod
<1>4. \A q \in Pods : podFor[q].request \in Requests => podFor'[q] = podFor[q]
BY <1>3, ConstantsAssumption DEF CreatePod, NoAttempt
<1>5. /\ create'[r][n] = "created"
      /\ \A q \in Requests : \A m \in Numbers : q # r \/ m # n => create'[q][m] = create[q][m]
  BY DEF IInv, TypeOK, CreatePod
<1>6. ExecutorOwnsAttempt'
  BY <1>5 DEF IInv, ExecutorOwnsAttempt, CreatePod, ledger
<1>7. ProviderFollowsLedger'
  BY <1>5 DEF IInv, TypeOK, ProviderFollowsLedger, CreatePod, ledger
<1>8. FailureIsCertain'
  BY <1>5 DEF IInv, FailureIsCertain, CreatePod, ledger
<1>9. VerdictStillApplies'
  BY <1>4 DEF IInv, VerdictStillApplies, CreatePod, ledger, Namesakes
<1>10. AllocatedUnderItsName'
  BY <1>4 DEF IInv, TypeOK, AllocatedUnderItsName, CreatePod, ledger, Namesakes
<1> QED  BY <1>1, <1>2, <1>6, <1>7, <1>8, <1>9, <1>10 DEF IInv

(* The provider's refusal keeps the inductive invariant. *)
LEMMA RejectCreateInductive ==
  ASSUME IInv, NEW r \in Requests, NEW n \in Numbers, RejectCreate(r, n)
  PROVE  IInv'
<1>1. TypeOK'
  BY RejectCreateTypes DEF IInv
<1>2. /\ OneOpenAttempt'
      /\ RequestMirrorsLatest'
      /\ UntriedIsAbsent'
      /\ AllocationMatchesAttempt'
      /\ AllocationHasPod'
      /\ VerdictStillApplies'
      /\ RegisteredIsAllocated'
      /\ AllocatedUnderItsName'
  BY DEF IInv, OneOpenAttempt, RequestMirrorsLatest, UntriedIsAbsent, AllocationMatchesAttempt,
     AllocationHasPod, VerdictStillApplies, RegisteredIsAllocated, AllocatedUnderItsName,
     IsLatest, RejectCreate, ledger, provider, Namesakes
<1>3. ExecutorOwnsAttempt'
BY OneReconciler DEF IInv, ExecutorOwnsAttempt, RejectCreate, ledger
<1>4. ProviderFollowsLedger'
BY OneReconciler DEF IInv, ProviderFollowsLedger, RejectCreate, ledger
<1>5. FailureIsCertain'
BY OneReconciler DEF IInv, FailureIsCertain, RejectCreate, ledger
<1> QED  BY <1>1, <1>2, <1>3, <1>4, <1>5 DEF IInv

(* The end of a pod keeps the inductive invariant. *)
LEMMA PodEndsInductive ==
  ASSUME IInv, NEW p \in Pods, PodEnds(p)
  PROVE  IInv'
<1>1. TypeOK'
  BY PodEndsTypes DEF IInv
<1>2. /\ OneOpenAttempt'
      /\ RequestMirrorsLatest'
      /\ UntriedIsAbsent'
      /\ AllocationMatchesAttempt'
      /\ AllocationHasPod'
      /\ ExecutorOwnsAttempt'
      /\ FailureIsCertain'
      /\ VerdictStillApplies'
      /\ RegisteredIsAllocated'
      /\ AllocatedUnderItsName'
  BY DEF IInv, OneOpenAttempt, RequestMirrorsLatest, UntriedIsAbsent, AllocationMatchesAttempt,
     AllocationHasPod, ExecutorOwnsAttempt, FailureIsCertain, VerdictStillApplies,
     RegisteredIsAllocated, AllocatedUnderItsName, IsLatest, PodEnds, ledger, provider, Namesakes
<1>3. ProviderFollowsLedger'
BY OneReconciler DEF IInv, ProviderFollowsLedger, PodEnds, ledger
<1> QED  BY <1>1, <1>2, <1>3 DEF IInv

(* Reading an attempt to reconcile keeps the inductive invariant. *)
LEMMA ReadAttemptInductive ==
  ASSUME IInv, NEW k \in Reconcilers, NEW r \in Requests, NEW n \in Numbers, ReadAttempt(k, r, n)
  PROVE  IInv'
<1>1. TypeOK'
  BY ReadAttemptTypes DEF IInv
<1>2. /\ OneOpenAttempt'
      /\ RequestMirrorsLatest'
      /\ UntriedIsAbsent'
      /\ AllocationMatchesAttempt'
      /\ AllocationHasPod'
      /\ ExecutorOwnsAttempt'
      /\ ProviderFollowsLedger'
      /\ FailureIsCertain'
      /\ RegisteredIsAllocated'
      /\ AllocatedUnderItsName'
  BY DEF IInv, OneOpenAttempt, RequestMirrorsLatest, UntriedIsAbsent, AllocationMatchesAttempt,
     AllocationHasPod, ExecutorOwnsAttempt, ProviderFollowsLedger, FailureIsCertain,
     RegisteredIsAllocated, AllocatedUnderItsName, IsLatest, ReadAttempt, ledger, provider, Namesakes
<1>3. VerdictStillApplies'
  <2>1. plan[r].connector = "runpod"
    BY DEF ReadAttempt, Reconcilable
  <2> QED  BY <2>1, OneReconciler DEF IInv, TypeOK, VerdictStillApplies, ReadAttempt, ledger
<1> QED  BY <1>1, <1>2, <1>3 DEF IInv

(* A list without a match keeps the inductive invariant. *)
LEMMA ListNoneInductive ==
  ASSUME IInv, NEW k \in Reconcilers, ListNone(k)
  PROVE  IInv'
<1>1. TypeOK'
  BY ListNoneTypes DEF IInv
<1>2. /\ OneOpenAttempt' /\ RequestMirrorsLatest' /\ UntriedIsAbsent'
      /\ AllocationMatchesAttempt' /\ AllocationHasPod'
      /\ ExecutorOwnsAttempt' /\ ProviderFollowsLedger' /\ FailureIsCertain'
      /\ RegisteredIsAllocated' /\ AllocatedUnderItsName'
  BY DEF IInv, OneOpenAttempt, RequestMirrorsLatest, IsLatest, UntriedIsAbsent,
     AllocationMatchesAttempt, AllocationHasPod, ExecutorOwnsAttempt, ProviderFollowsLedger,
     FailureIsCertain, RegisteredIsAllocated, AllocatedUnderItsName, ListNone, ledger, provider, Namesakes
<1>3. VerdictStillApplies'
  <2>1. /\ reconciler'[k].pc \in {"absent", "idle"}
        /\ reconciler'[k].pc = "absent" =>
              /\ reconciler'[k].request = reconciler[k].request
              /\ reconciler'[k].number = reconciler[k].number
        /\ \A l \in Reconcilers : l # k => reconciler'[l] = reconciler[l]
    BY DEF IInv, TypeOK, ListNone, Idle, Process
  <2> QED  BY <2>1 DEF IInv, VerdictStillApplies, ListNone, ledger, provider, Namesakes
<1> QED  BY <1>1, <1>2, <1>3 DEF IInv

(* A list with one match keeps the inductive invariant. *)
LEMMA ListOneInductive ==
  ASSUME IInv, NEW k \in Reconcilers, ListOne(k)
  PROVE  IInv'
<1>1. TypeOK'
  BY ListOneTypes DEF IInv
<1>2. /\ OneOpenAttempt' /\ RequestMirrorsLatest' /\ UntriedIsAbsent'
      /\ AllocationMatchesAttempt' /\ AllocationHasPod'
      /\ ExecutorOwnsAttempt' /\ ProviderFollowsLedger' /\ FailureIsCertain'
      /\ RegisteredIsAllocated' /\ AllocatedUnderItsName'
  BY DEF IInv, OneOpenAttempt, RequestMirrorsLatest, IsLatest, UntriedIsAbsent,
     AllocationMatchesAttempt, AllocationHasPod, ExecutorOwnsAttempt, ProviderFollowsLedger,
     FailureIsCertain, RegisteredIsAllocated, AllocatedUnderItsName, ListOne, ledger, provider, Namesakes
<1>3. VerdictStillApplies'
  <2>1. PICK slack \in SUBSET Pods, p \in Pods :
          /\ Matches(reconciler[k].request, reconciler[k].number, slack) = {p}
          /\ reconciler' = [reconciler EXCEPT ![k] = WithPod(@, "recover", p)]
    BY DEF ListOne
  <2>2. /\ podState[p] = "live"
        /\ Namesakes(podFor[p].request, reconciler[k].request)
    <3>1. plan[reconciler[k].request].connector = "runpod"
      BY DEF IInv, VerdictStillApplies, ListOne
    <3> QED  BY <2>1, <3>1 DEF Matches, Namesakes
  <2>3. podFor[p].request \in Requests
    BY <2>2 DEF IInv, ProviderFollowsLedger
  <2>4. /\ reconciler'[k].pc = "recover"
        /\ reconciler'[k].request = reconciler[k].request
        /\ reconciler'[k].number = reconciler[k].number
        /\ reconciler'[k].pod = p
        /\ \A l \in Reconcilers : l # k => reconciler'[l] = reconciler[l]
    BY <2>1 DEF IInv, TypeOK, WithPod
  <2> QED  BY <2>2, <2>3, <2>4 DEF IInv, VerdictStillApplies, ListOne, ledger, provider, Namesakes
<1> QED  BY <1>1, <1>2, <1>3 DEF IInv

(* A list with several matches keeps the inductive invariant. *)
LEMMA ListManyInductive ==
  ASSUME IInv, NEW k \in Reconcilers, ListMany(k)
  PROVE  IInv'
<1>1. TypeOK'
  BY ListManyTypes DEF IInv
<1>2. /\ OneOpenAttempt'
      /\ RequestMirrorsLatest'
      /\ UntriedIsAbsent'
      /\ AllocationMatchesAttempt'
      /\ AllocationHasPod'
      /\ ExecutorOwnsAttempt'
      /\ ProviderFollowsLedger'
      /\ FailureIsCertain'
      /\ RegisteredIsAllocated'
      /\ AllocatedUnderItsName'
  BY DEF IInv, OneOpenAttempt, RequestMirrorsLatest, UntriedIsAbsent, AllocationMatchesAttempt,
     AllocationHasPod, ExecutorOwnsAttempt, ProviderFollowsLedger, FailureIsCertain,
     RegisteredIsAllocated, AllocatedUnderItsName, IsLatest, ListMany, ledger, provider, Namesakes
<1>3. VerdictStillApplies'
  BY OneReconciler DEF IInv, TypeOK, VerdictStillApplies, ListMany, Idle, ledger
<1> QED  BY <1>1, <1>2, <1>3 DEF IInv

(* The check before a failure keeps the inductive invariant. *)
LEMMA CheckAbsentInductive ==
  ASSUME IInv, NEW k \in Reconcilers, CheckAbsent(k)
  PROVE  IInv'
<1>1. TypeOK'
  BY CheckAbsentTypes DEF IInv
<1>2. /\ OneOpenAttempt'
      /\ RequestMirrorsLatest'
      /\ UntriedIsAbsent'
      /\ AllocationMatchesAttempt'
      /\ AllocationHasPod'
      /\ ExecutorOwnsAttempt'
      /\ ProviderFollowsLedger'
      /\ FailureIsCertain'
      /\ RegisteredIsAllocated'
      /\ AllocatedUnderItsName'
  BY DEF IInv, OneOpenAttempt, RequestMirrorsLatest, UntriedIsAbsent, AllocationMatchesAttempt,
     AllocationHasPod, ExecutorOwnsAttempt, ProviderFollowsLedger, FailureIsCertain,
     RegisteredIsAllocated, AllocatedUnderItsName, IsLatest, CheckAbsent, ledger, provider, Namesakes
<1>3. VerdictStillApplies'
BY OneReconciler DEF IInv, VerdictStillApplies, CheckAbsent, ledger, Namesakes
<1> QED  BY <1>1, <1>2, <1>3 DEF IInv

(* The write of a failure keeps the inductive invariant. *)
LEMMA WriteFailedInductive ==
  ASSUME IInv, NEW k \in Reconcilers, WriteFailed(k)
  PROVE  IInv'
<1> DEFINE r == reconciler[k].request
           n == reconciler[k].number
<1>1. TypeOK'
  BY WriteFailedTypes DEF IInv
<1>2. r \in Requests /\ n \in Numbers /\ attemptState[r][n] = "uncertain"
  BY DEF IInv, VerdictStillApplies, WriteFailed, Namesakes
<1>3. SetState(r, n, "failed")
  BY DEF WriteFailed
<1>4. confirmed' = confirmed \cup {[request |-> r, number |-> n]}
  BY DEF WriteFailed
<1> HIDE DEF r, n
<1>5. OneOpenAttempt' /\ RequestMirrorsLatest' /\ UntriedIsAbsent'
  BY <1>2, <1>3, SettlingKeepsAttempts DEF IInv
<1>6. AllocationMatchesAttempt'
  BY <1>2, <1>3, SettlingKeepsAllocations DEF IInv, WriteFailed
<1>7. \A q \in Requests : \A m \in Numbers :
        attemptState'[q][m] = IF q = r /\ m = n THEN "failed" ELSE attemptState[q][m]
  BY <1>2, <1>3, SetStateRows DEF IInv
<1>8. AllocationHasPod' /\ RegisteredIsAllocated' /\ AllocatedUnderItsName'
  BY DEF IInv, AllocationHasPod, RegisteredIsAllocated, AllocatedUnderItsName, WriteFailed,
     provider, Namesakes
<1>9. ExecutorOwnsAttempt'
  BY <1>2, <1>7 DEF IInv, ExecutorOwnsAttempt, WriteFailed, provider
<1>10. ProviderFollowsLedger'
  BY <1>7 DEF IInv, ProviderFollowsLedger, WriteFailed, provider
<1>11. FailureIsCertain'
  BY <1>2, <1>4, <1>7 DEF IInv, FailureIsCertain, WriteFailed, provider
<1>12. VerdictStillApplies'
  <2>1. \A l \in Reconcilers : reconciler'[l].pc = "idle"
    BY OneReconciler DEF IInv, TypeOK, WriteFailed, Idle
  <2> QED  BY <2>1 DEF VerdictStillApplies, Namesakes
<1> QED  BY <1>1, <1>5, <1>6, <1>8, <1>9, <1>10, <1>11, <1>12 DEF IInv

(* The check before a recovery keeps the inductive invariant. *)
LEMMA CheckRecoverInductive ==
  ASSUME IInv, NEW k \in Reconcilers, CheckRecover(k)
  PROVE  IInv'
<1> DEFINE r == reconciler[k].request
           n == reconciler[k].number
<1>1. TypeOK'
  BY CheckRecoverTypes DEF IInv
<1>2. /\ OneOpenAttempt' /\ RequestMirrorsLatest' /\ UntriedIsAbsent'
      /\ AllocationMatchesAttempt' /\ AllocationHasPod'
      /\ ExecutorOwnsAttempt' /\ ProviderFollowsLedger' /\ FailureIsCertain'
      /\ RegisteredIsAllocated' /\ AllocatedUnderItsName'
  BY DEF IInv, OneOpenAttempt, RequestMirrorsLatest, IsLatest, UntriedIsAbsent,
     AllocationMatchesAttempt, AllocationHasPod, ExecutorOwnsAttempt, ProviderFollowsLedger,
     FailureIsCertain, RegisteredIsAllocated, AllocatedUnderItsName, CheckRecover, ledger,
     provider, Namesakes
<1>3. VerdictStillApplies'
  <2>1. /\ r \in Requests
        /\ n \in Numbers
        /\ reconciler[k].pod \in Pods
        /\ podFor[reconciler[k].pod].request \in Requests
        /\ Namesakes(podFor[reconciler[k].pod].request, r)
    BY DEF IInv, VerdictStillApplies, CheckRecover, Namesakes
  <2>2. /\ reconciler'[k].pc =
             IF allocation[r] = NoAllocation THEN "write_allocation" ELSE "register"
        /\ reconciler'[k].request = r
        /\ reconciler'[k].number = n
        /\ reconciler'[k].pod = reconciler[k].pod
        /\ \A l \in Reconcilers : l # k => reconciler'[l] = reconciler[l]
    BY DEF IInv, TypeOK, CheckRecover, Process
  <2>3. CASE allocation[r] = NoAllocation
    <3>1. attemptState[r][n] = "uncertain"
      <4>1. allocation[r].number # n
BY <2>1, <2>3 DEF NoAllocation, Numbers
      <4> QED  BY <2>1, <4>1 DEF IInv, AllocationMatchesAttempt, CheckRecover
    <3> QED  BY <2>1, <2>2, <2>3, <3>1 DEF IInv, VerdictStillApplies, CheckRecover, ledger,
                provider, Namesakes
  <2>4. CASE allocation[r] # NoAllocation
    <3>1. allocation[r].pod = reconciler[k].pod
BY <2>1, <2>4, ConstantsAssumption DEF IInv, AllocationHasPod, CheckRecover
    <3> QED  BY <2>1, <2>2, <2>4, <3>1 DEF IInv, VerdictStillApplies, CheckRecover, ledger,
                provider, Namesakes
  <2> QED  BY <2>3, <2>4
<1> QED  BY <1>1, <1>2, <1>3 DEF IInv

(* The write of a recovery keeps the inductive invariant. *)
LEMMA WriteAllocationInductive ==
  ASSUME IInv, NEW k \in Reconcilers, WriteAllocation(k)
  PROVE  IInv'
<1> DEFINE r == reconciler[k].request
           n == reconciler[k].number
           p == reconciler[k].pod
<1>1. TypeOK'
  BY WriteAllocationTypes DEF IInv
<1>2. /\ r \in Requests
      /\ n \in Numbers
      /\ p \in Pods
      /\ attemptState[r][n] = "uncertain"
      /\ allocation[r] = NoAllocation
      /\ podFor[p].request \in Requests
      /\ Namesakes(podFor[p].request, r)
  BY DEF IInv, VerdictStillApplies, WriteAllocation, Namesakes
<1>3. StoreAllocation(r, n, p)
  BY DEF WriteAllocation
<1>4. \A l \in Reconcilers :
        /\ reconciler'[l].pc = "register"
        /\ reconciler'[l].request = r
        /\ reconciler'[l].number = n
        /\ reconciler'[l].pod = p
  BY OneReconciler DEF IInv, TypeOK, WriteAllocation, Process
<1> HIDE DEF r, n, p
<1>5. OneOpenAttempt' /\ RequestMirrorsLatest' /\ UntriedIsAbsent'
  BY <1>2, <1>3, SettlingKeepsAttempts DEF IInv, StoreAllocation
<1>6. AllocationMatchesAttempt' /\ AllocationHasPod'
  BY <1>2, <1>3, StoringKeepsAllocations DEF IInv
<1>7. /\ \A q \in Requests : \A m \in Numbers :
            attemptState'[q][m] = IF q = r /\ m = n THEN "succeeded" ELSE attemptState[q][m]
      /\ allocation'[r].pod = p
      /\ \A q \in Requests : q # r => allocation'[q] = allocation[q]
  BY <1>2, <1>3, SetStateRows DEF IInv, TypeOK, StoreAllocation
<1>8. ExecutorOwnsAttempt'
  <2>1. \A f \in Executors : executor[f].pc = "register" => executor[f].request # r
    <3>1. allocation[r].pod \notin Pods
BY <1>2, ConstantsAssumption DEF NoAllocation
    <3> QED  BY <3>1 DEF IInv, ExecutorOwnsAttempt
  <2> QED  BY <1>2, <1>7, <2>1 DEF IInv, ExecutorOwnsAttempt, WriteAllocation, provider
<1>9. ProviderFollowsLedger' /\ FailureIsCertain'
  BY <1>7 DEF IInv, ProviderFollowsLedger, FailureIsCertain, WriteAllocation, provider
<1>10. VerdictStillApplies'
  <2>1. plan'[r].connector = "runpod"
    BY <1>2 DEF Namesakes, WriteAllocation
  <2> QED  BY <1>2, <1>4, <1>7, <2>1 DEF VerdictStillApplies
<1>11. RegisteredIsAllocated'
  <2>1. allocation[r].pod \notin Pods
BY <1>2, ConstantsAssumption DEF NoAllocation
  <2>2. \A q \in Pods : registry[q] # r
BY <2>1, <1>2, ConstantsAssumption DEF IInv, RegisteredIsAllocated
  <2>3. \A q \in Pods : registry[q] \in Requests \cup {Nobody}
    BY DEF IInv, TypeOK
  <2> QED  BY <1>2, <1>7, <2>2, <2>3 DEF IInv, RegisteredIsAllocated, WriteAllocation
<1>12. AllocatedUnderItsName'
  BY <1>2, <1>7 DEF IInv, AllocatedUnderItsName, WriteAllocation, provider, Namesakes
<1> QED  BY <1>1, <1>5, <1>6, <1>8, <1>9, <1>10, <1>11, <1>12 DEF IInv

(* Registering a recovered machine keeps the inductive invariant. *)
LEMMA RegisterRecoveryInductive ==
  ASSUME IInv, NEW k \in Reconcilers, RegisterRecovery(k)
  PROVE  IInv'
<1>1. TypeOK'
  BY RegisterRecoveryTypes DEF IInv
<1>2. /\ OneOpenAttempt' /\ RequestMirrorsLatest' /\ UntriedIsAbsent'
      /\ AllocationMatchesAttempt' /\ AllocationHasPod'
      /\ ExecutorOwnsAttempt' /\ ProviderFollowsLedger' /\ FailureIsCertain'
      /\ AllocatedUnderItsName'
  BY DEF IInv, OneOpenAttempt, RequestMirrorsLatest, IsLatest, UntriedIsAbsent,
     AllocationMatchesAttempt, AllocationHasPod, ExecutorOwnsAttempt, ProviderFollowsLedger,
     FailureIsCertain, AllocatedUnderItsName, RegisterRecovery, ledger, provider, Namesakes
<1>3. VerdictStillApplies'
  BY DEF IInv, TypeOK, VerdictStillApplies, RegisterRecovery, Idle, ledger, provider, Namesakes
<1>4. RegisteredIsAllocated'
  <2>1. /\ reconciler[k].pod \in Pods
        /\ allocation[reconciler[k].request].pod = reconciler[k].pod
    BY DEF IInv, VerdictStillApplies, RegisterRecovery, Namesakes
  <2>2. \A p \in Pods :
          registry'[p] = IF p = reconciler[k].pod THEN reconciler[k].request ELSE registry[p]
    BY DEF IInv, TypeOK, RegisterRecovery
  <2> QED  BY <2>1, <2>2 DEF IInv, RegisteredIsAllocated, RegisterRecovery, ledger
<1> QED  BY <1>1, <1>2, <1>3, <1>4 DEF IInv

(* The death of a reconciler keeps the inductive invariant. *)
LEMMA ReconcilerDiesInductive ==
  ASSUME IInv, NEW k \in Reconcilers, ReconcilerDies(k)
  PROVE  IInv'
<1>1. TypeOK'
  BY ReconcilerDiesTypes DEF IInv
<1>2. /\ OneOpenAttempt'
      /\ RequestMirrorsLatest'
      /\ UntriedIsAbsent'
      /\ AllocationMatchesAttempt'
      /\ AllocationHasPod'
      /\ ExecutorOwnsAttempt'
      /\ ProviderFollowsLedger'
      /\ FailureIsCertain'
      /\ RegisteredIsAllocated'
      /\ AllocatedUnderItsName'
  BY DEF IInv, OneOpenAttempt, RequestMirrorsLatest, UntriedIsAbsent, AllocationMatchesAttempt,
     AllocationHasPod, ExecutorOwnsAttempt, ProviderFollowsLedger, FailureIsCertain,
     RegisteredIsAllocated, AllocatedUnderItsName, IsLatest, ReconcilerDies, ledger, provider, Namesakes
<1>3. VerdictStillApplies'
BY OneReconciler DEF IInv, VerdictStillApplies, ReconcilerDies, ledger, provider, Idle, Namesakes
<1> QED  BY <1>1, <1>2, <1>3 DEF IInv

-----------------------------------------------------------------------------
(* The invariant and what follows from it.                                 *)

(* The invariant holds in the initial state. *)
LEMMA InitInductive == Init => IInv
<1> SUFFICES ASSUME Init  PROVE IInv
  OBVIOUS
<1>1. TypeOK
BY ConstantsAssumption DEF Init, TypeOK, AttemptStates, NoAttempt, NoAllocation, Idle, Process,
     ExecutorSteps, ReconcilerSteps
<1>2. /\ OneOpenAttempt /\ RequestMirrorsLatest /\ UntriedIsAbsent
      /\ AllocationMatchesAttempt /\ AllocationHasPod
  BY DEF Init, OneOpenAttempt, RequestMirrorsLatest, IsLatest, UntriedIsAbsent,
     AllocationMatchesAttempt, AllocationHasPod
<1>3. /\ ExecutorOwnsAttempt /\ ProviderFollowsLedger /\ FailureIsCertain
      /\ VerdictStillApplies /\ RegisteredIsAllocated
  BY DEF Init, Idle, ExecutorOwnsAttempt, ProviderFollowsLedger, FailureIsCertain,
     VerdictStillApplies, RegisteredIsAllocated, Namesakes
<1>4. AllocatedUnderItsName
  BY DEF Init, AllocatedUnderItsName, NoAllocation, Namesakes
<1> QED  BY <1>1, <1>2, <1>3, <1>4 DEF IInv

(* Every step keeps the inductive invariant. *)
LEMMA NextInductive ==
  ASSUME IInv, [Next]_vars
  PROVE  IInv'
<1>1. CASE UNCHANGED vars
  <2>1. TypeOK'
    BY NextTypes DEF IInv
  <2>2. /\ OneOpenAttempt' /\ RequestMirrorsLatest' /\ UntriedIsAbsent'
        /\ AllocationMatchesAttempt' /\ AllocationHasPod'
        /\ ExecutorOwnsAttempt' /\ ProviderFollowsLedger' /\ FailureIsCertain'
        /\ VerdictStillApplies' /\ RegisteredIsAllocated' /\ AllocatedUnderItsName'
    BY <1>1 DEF IInv, vars, ledger, provider, OneOpenAttempt, RequestMirrorsLatest, IsLatest,
       UntriedIsAbsent, AllocationMatchesAttempt, AllocationHasPod, ExecutorOwnsAttempt,
       ProviderFollowsLedger, FailureIsCertain, VerdictStillApplies, RegisteredIsAllocated,
       AllocatedUnderItsName, Namesakes
  <2> QED  BY <2>1, <2>2 DEF IInv
<1>2. ASSUME NEW e \in Executors, NEW r \in Requests, NEW n \in Numbers, BeginProvisioning(e, r, n)
      PROVE  IInv'
  BY <1>2, BeginProvisioningInductive
<1>3. ASSUME NEW e \in Executors, ExecutorStep(e) \/ ExecutorDies(e)
      PROVE  IInv'
  BY <1>3, SendCreateInductive, AnswerPodInductive, AnswerRejectedInductive,
     AnswerUncertainInductive, RegisterLaunchInductive, ExecutorDiesInductive DEF ExecutorStep
<1>4. ASSUME NEW k \in Reconcilers, NEW r \in Requests, NEW n \in Numbers, ReadAttempt(k, r, n)
      PROVE  IInv'
  BY <1>4, ReadAttemptInductive
<1>5. ASSUME NEW k \in Reconcilers, ReconcilerStep(k) \/ ReconcilerDies(k)
      PROVE  IInv'
  BY <1>5, ListNoneInductive, ListOneInductive, ListManyInductive, CheckAbsentInductive,
     WriteFailedInductive, CheckRecoverInductive, WriteAllocationInductive,
     RegisterRecoveryInductive, ReconcilerDiesInductive
     DEF ReconcilerStep
<1>6. ASSUME NEW r \in Requests, NEW n \in Numbers, NEW p \in Pods, CreatePod(r, n, p)
      PROVE  IInv'
  BY <1>6, CreatePodInductive
<1>7. ASSUME NEW r \in Requests, NEW n \in Numbers, RejectCreate(r, n)
      PROVE  IInv'
  BY <1>7, RejectCreateInductive
<1>8. ASSUME NEW p \in Pods, PodEnds(p)
      PROVE  IInv'
  BY <1>8, PodEndsInductive
<1> QED  BY <1>1, <1>2, <1>3, <1>4, <1>5, <1>6, <1>7, <1>8 DEF Next

(* The inductive invariant holds in every reachable state. *)
THEOREM Inductive == Spec => []IInv
<1>1. IInv /\ [Next]_vars => IInv'
  BY NextInductive
<1> QED  BY InitInductive, <1>1, PTL DEF Spec

(* begin_provisioning may look at the latest row alone: every earlier      *)
(* attempt of a request has failed. *)
THEOREM AtMostOneOpen == Spec => []OneOpenAttempt
<1>1. IInv => OneOpenAttempt
  BY DEF IInv
<1> QED  BY Inductive, <1>1, PTL

(* A request's row always carries the state of its latest attempt. *)
THEOREM RowsAgree == Spec => []RequestMirrorsLatest
<1>1. IInv => RequestMirrorsLatest
  BY DEF IInv
<1> QED  BY Inductive, <1>1, PTL

(* An allocation and its successful attempt always name each other. *)
THEOREM AllocationIsTruthful == Spec => []AllocationMatchesAttempt
<1>1. IInv => AllocationMatchesAttempt
  BY DEF IInv
<1> QED  BY Inductive, <1>1, PTL

(* The provider never holds two pods of one request unless an operator     *)
(* confirmed the absence of the first. *)
THEOREM NoUnconfirmedSecondPod == Spec => []SecondPodIsConfirmed
<1>1. IInv => SecondPodIsConfirmed
  <2> SUFFICES ASSUME IInv, NEW p \in Pods, NEW q \in Pods,
                      podFor[p].request # Nobody,
                      podFor[p].request = podFor[q].request,
                      podFor[p].number < podFor[q].number
               PROVE  podFor[p] \in confirmed
    BY DEF SecondPodIsConfirmed
  <2> DEFINE r == podFor[p].request
             m == podFor[p].number
             n == podFor[q].number
  <2>1. /\ r \in Requests
        /\ m \in Numbers
        /\ create[r][m] = "created"
    BY DEF IInv, ProviderFollowsLedger, NoAttempt
  <2>2. n \in Numbers /\ create[r][n] = "created"
    BY DEF IInv, ProviderFollowsLedger, NoAttempt
  <2>3. attemptState[r][n] # "absent"
    BY <2>1, <2>2 DEF IInv, ProviderFollowsLedger
  <2>4. attemptState[r][m] = "failed"
    BY <2>1, <2>2, <2>3 DEF IInv, OneOpenAttempt
  <2>5. [request |-> r, number |-> m] \in confirmed
    BY <2>1, <2>4 DEF IInv, FailureIsCertain
  <2>6. podFor[p] = [request |-> r, number |-> m]
    BY DEF IInv, TypeOK
  <2> QED  BY <2>5, <2>6
<1> QED  BY Inductive, <1>1, PTL

(* Every host of the registry leads to the allocation that pays for it. *)
THEOREM RegistryIsBacked == Spec => []RegisteredIsAllocated
<1>1. IInv => RegisteredIsAllocated
  BY DEF IInv
<1> QED  BY Inductive, <1>1, PTL

(* Whatever names launches repeat, a pod is allocated to two requests only *)
(* when both are RunPod launches of one name, although recovery compares   *)
(* names and times alone. *)
THEOREM OnlyNamesakesGetOnePod == Spec => []OnlyNamesakesShare
<1>1. IInv => OnlyNamesakesShare
  BY DEF IInv, AllocatedUnderItsName, OnlyNamesakesShare, Namesakes
<1> QED  BY Inductive, <1>1, PTL

-----------------------------------------------------------------------------
(* The ledger implements Acquisition.                                      *)

(* The row of a request with an open attempt carries that attempt's state. *)
LEMMA OpenIsMirrored ==
  ASSUME IInv, NEW r \in Requests, NEW n \in Numbers,
         attemptState[r][n] \in {"pending", "uncertain"}
  PROVE  requestState[r] = attemptState[r][n]
<1>1. IsLatest(r, n)
  BY DEF IInv, OneOpenAttempt, IsLatest, Numbers
<1> QED  BY <1>1 DEF IInv, RequestMirrorsLatest

(* A request may be tried when its row is absent or failed. *)
LEMMA BeginIsTry ==
  ASSUME IInv, NEW e \in Executors, NEW r \in Requests, NEW n \in Numbers,
         BeginProvisioning(e, r, n)
  PROVE  Promise!Try(r)
<1>1. requestState[r] \in {"absent", "failed"}
  <2>1. CASE n = 1
    BY <2>1 DEF IInv, UntriedIsAbsent, BeginProvisioning, MayBegin
  <2>2. CASE n > 1
    <3>1. n - 1 \in Numbers /\ IsLatest(r, n - 1) /\ attemptState[r][n - 1] = "failed"
BY <2>2, ConstantsAssumption DEF BeginProvisioning, MayBegin, Numbers
    <3> QED  BY <3>1 DEF IInv, RequestMirrorsLatest
<2> QED  BY <2>1, <2>2 DEF Numbers
<1> QED  BY <1>1 DEF Promise!Try, BeginProvisioning, SetState, Resource

(* Storing the allocation of an open attempt acquires its pod. *)
LEMMA StoreIsAcquire ==
  ASSUME IInv, NEW r \in Requests, NEW n \in Numbers, NEW p \in Pods,
         attemptState[r][n] \in {"pending", "uncertain"}, allocation[r] = NoAllocation,
         StoreAllocation(r, n, p)
  PROVE  Promise!Acquire(r, p)
<1>1. requestState[r] \in {"pending", "uncertain"}
  BY OpenIsMirrored
<1>2. Resource[r] = NoPod
  BY DEF Resource, NoAllocation
<1>3. requestState' = [requestState EXCEPT ![r] = "succeeded"]
  BY DEF StoreAllocation, SetState
<1>4. Resource' = [Resource EXCEPT ![r] = p]
  BY DEF IInv, TypeOK, Resource, StoreAllocation
<1> QED  BY <1>1, <1>2, <1>3, <1>4 DEF Promise!Acquire

(* Every step of the ledger, the providers and the processes is a step of  *)
(* the promise or leaves it unchanged. *)
LEMMA StepIsPromised ==
  ASSUME IInv, [Next]_vars
  PROVE  [Promise!Next]_Promise!vars
<1>1. ASSUME UNCHANGED <<requestState, allocation>>
      PROVE  UNCHANGED Promise!vars
  BY <1>1 DEF Promise!vars, Resource
<1>2. CASE UNCHANGED vars
  BY <1>1, <1>2 DEF vars, ledger
<1>3. ASSUME NEW e \in Executors, NEW r \in Requests, NEW n \in Numbers, BeginProvisioning(e, r, n)
      PROVE  Promise!Next
  BY <1>3, BeginIsTry DEF Promise!Next
<1>4. ASSUME NEW e \in Executors, AnswerPod(e)
      PROVE  Promise!Next
  <2>1. /\ executor[e].request \in Requests
        /\ executor[e].number \in Numbers
    BY <1>4 DEF IInv, ExecutorOwnsAttempt, AnswerPod
  <2>2. PICK p \in Pods : StoreAllocation(executor[e].request, executor[e].number, p)
    BY <1>4 DEF AnswerPod
  <2>3. Promise!Acquire(executor[e].request, p)
    BY <1>4, <2>1, <2>2, StoreIsAcquire DEF AnswerPod
  <2> QED  BY <2>1, <2>3 DEF Promise!Next
<1>5. ASSUME NEW e \in Executors, AnswerRejected(e) \/ AnswerUncertain(e)
      PROVE  Promise!Next
  <2> DEFINE r == executor[e].request
             n == executor[e].number
  <2>1. r \in Requests /\ n \in Numbers /\ attemptState[r][n] = "pending"
    BY <1>5 DEF IInv, ExecutorOwnsAttempt, AnswerRejected, AnswerUncertain
  <2>2. requestState[r] = "pending"
    BY <2>1, OpenIsMirrored
  <2>3. PICK s \in {"failed", "uncertain"} : SetState(r, n, s)
    BY <1>5 DEF AnswerRejected, AnswerUncertain
  <2>4. UNCHANGED Resource
    BY <1>5 DEF Resource, AnswerRejected, AnswerUncertain
  <2>5. Promise!Fail(r) \/ Promise!LoseSight(r)
    BY <2>2, <2>3, <2>4 DEF Promise!Fail, Promise!LoseSight, SetState
  <2> QED  BY <2>1, <2>5 DEF Promise!Next
<1>6. ASSUME NEW k \in Reconcilers, WriteFailed(k)
      PROVE  Promise!Next
  <2> DEFINE r == reconciler[k].request
             n == reconciler[k].number
  <2>1. r \in Requests /\ n \in Numbers /\ attemptState[r][n] = "uncertain"
    BY <1>6 DEF IInv, VerdictStillApplies, WriteFailed, Namesakes
  <2>2. requestState[r] = "uncertain"
    BY <2>1, OpenIsMirrored
  <2>3. UNCHANGED Resource
    BY <1>6 DEF Resource, WriteFailed
  <2>4. Promise!Fail(r)
    BY <1>6, <2>2, <2>3 DEF Promise!Fail, WriteFailed, SetState
  <2> QED  BY <2>1, <2>4 DEF Promise!Next
<1>7. ASSUME NEW k \in Reconcilers, WriteAllocation(k)
      PROVE  Promise!Next
  <2>1. /\ reconciler[k].request \in Requests
        /\ reconciler[k].number \in Numbers
        /\ reconciler[k].pod \in Pods
        /\ attemptState[reconciler[k].request][reconciler[k].number] = "uncertain"
    BY <1>7 DEF IInv, VerdictStillApplies, WriteAllocation, Namesakes
  <2>2. Promise!Acquire(reconciler[k].request, reconciler[k].pod)
    BY <1>7, <2>1, StoreIsAcquire DEF WriteAllocation
  <2> QED  BY <2>1, <2>2 DEF Promise!Next
<1>8. ASSUME NEW e \in Executors, SendCreate(e) \/ RegisterLaunch(e) \/ ExecutorDies(e)
      PROVE  UNCHANGED <<requestState, allocation>>
  BY <1>8 DEF SendCreate, RegisterLaunch, ExecutorDies, ledger
<1>9. ASSUME NEW r \in Requests, NEW n \in Numbers,
             RejectCreate(r, n) \/ \E p \in Pods : CreatePod(r, n, p)
      PROVE  UNCHANGED <<requestState, allocation>>
  BY <1>9 DEF CreatePod, RejectCreate, ledger
<1>10. ASSUME NEW p \in Pods, PodEnds(p)
       PROVE  UNCHANGED <<requestState, allocation>>
  BY <1>10 DEF PodEnds, ledger
<1>11. ASSUME NEW k \in Reconcilers,
              \/ \E r \in Requests, n \in Numbers : ReadAttempt(k, r, n)
              \/ ListNone(k) \/ ListOne(k) \/ ListMany(k) \/ CheckAbsent(k)
              \/ CheckRecover(k) \/ RegisterRecovery(k) \/ ReconcilerDies(k)
       PROVE  UNCHANGED <<requestState, allocation>>
  BY <1>11 DEF ReadAttempt, ListNone, ListOne, ListMany, CheckAbsent, CheckRecover,
     RegisterRecovery, ReconcilerDies, ledger
<1> QED  BY <1>1, <1>2, <1>3, <1>4, <1>5, <1>6, <1>7, <1>8, <1>9, <1>10, <1>11
         DEF Next, ExecutorStep, ReconcilerStep

(* Launching and recovery keep the promise of module Acquisition: a request *)
(* is never tried again while an outcome is open, and an acquired resource  *)
(* is never replaced. *)
THEOREM LedgerImplementsAcquisition == Spec => ImplementsAcquisition
<1>1. Init => Promise!Init
  BY DEF Init, Promise!Init, Resource, NoAllocation
<1>2. IInv /\ [Next]_vars => [Promise!Next]_Promise!vars
  BY StepIsPromised
<1> QED  BY Inductive, <1>1, <1>2, PTL DEF Spec, ImplementsAcquisition, Promise!Spec
=============================================================================
