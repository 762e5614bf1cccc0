---------------------------- MODULE Provisioning ----------------------------
(***************************************************************************)
(* Paid launches and their recovery.                                       *)
(*                                                                         *)
(* An executor process (`launch run`, or the Sesterce launcher) records an *)
(* attempt in the SQLite ledger, asks the provider to create a pod, and    *)
(* records the allocation or the failure.  A reconciler process (`launch   *)
(* reconcile`) later looks an uncertain attempt up at the provider and     *)
(* settles it.  Any process may be killed between two steps; the provider  *)
(* may create the pod although its answer was lost, and late.              *)
(*                                                                         *)
(* A ledger operation that opens its transaction with BEGIN IMMEDIATE is   *)
(* one step.  The others read the attempt in autocommit mode and only      *)
(* their first UPDATE opens a transaction, so a reconciler's check and its *)
(* write are two steps.  An executor's check and write are one step: only  *)
(* the executor that inserted an attempt writes it while it is pending.    *)
(***************************************************************************)
EXTENDS Integers, FiniteSets

CONSTANTS
    Requests,      \* provisioning requests, by request_id
    Pods,          \* resources the providers can create
    NoPod,         \* no resource
    Nobody,        \* no request
    Executors,     \* processes that launch
    Reconcilers,   \* processes that reconcile
    MaxAttempts,   \* bound: attempts per request
    Plans          \* request -> the plans it may be made from: the provider's
                   \* connector and the machine name, which is free to recur

Numbers == 1 .. MaxAttempts

ASSUME ConstantsAssumption ==
    /\ MaxAttempts \in Nat
    /\ NoPod \notin Pods
    /\ Nobody \notin Requests
    /\ \A r \in Requests : \A p \in Plans[r] : p.connector \in {"runpod", "sesterce"}

VARIABLES
    plan,           \* request -> the connector and the name in its row
    requestState,   \* provisioning_requests.state, "absent" when no row
    attemptState,   \* request -> number -> provisioning_attempts.state
    attemptPod,     \* request -> number -> provider_resource_id
    allocation,     \* request -> its row of allocations
    registry,       \* pod -> the request whose allocation hosts.json names
    create,         \* request -> number -> the create call at the provider
    podState,       \* pod -> "free", "live" or "gone"
    podFor,         \* pod -> the attempt whose call created it
    older,          \* request -> number -> pods that existed at its start
    confirmed,      \* attempts an operator declared to have no pod
    executor,       \* executor -> program counter and locals
    reconciler      \* reconciler -> program counter and locals

ledger == <<plan, requestState, attemptState, attemptPod, allocation>>
provider == <<create, podState, podFor>>
vars == <<ledger, registry, provider, older, confirmed, executor, reconciler>>

AttemptStates == {"absent", "pending", "uncertain", "succeeded", "failed"}

NoAttempt == [request |-> Nobody, number |-> 0]
NoAllocation == [number |-> 0, pod |-> NoPod]

ExecutorSteps == {"idle", "send", "wait", "register"}
ReconcilerSteps ==
    {"idle", "list", "absent", "write_failed", "recover", "write_allocation", "register"}

(* A process at one of `steps`, with the attempt and the pod it works on. *)
Process(steps) ==
    [pc : steps, request : Requests \cup {Nobody}, number : Nat, pod : Pods \cup {NoPod}]

TypeOK ==
    /\ \A r \in Requests : plan[r] \in Plans[r]
    /\ requestState \in [Requests -> AttemptStates]
    /\ attemptState \in [Requests -> [Numbers -> AttemptStates]]
    /\ attemptPod \in [Requests -> [Numbers -> Pods \cup {NoPod}]]
    /\ allocation \in [Requests -> [number : Nat, pod : Pods \cup {NoPod}]]
    /\ registry \in [Pods -> Requests \cup {Nobody}]
    /\ create \in [Requests -> [Numbers -> {"unsent", "sent", "created", "rejected"}]]
    /\ podState \in [Pods -> {"free", "live", "gone"}]
    /\ podFor \in [Pods -> [request : Requests \cup {Nobody}, number : Nat]]
    /\ older \in [Requests -> [Numbers -> SUBSET Pods]]
    /\ confirmed \subseteq [request : Requests \cup {Nobody}, number : Nat]
    /\ executor \in [Executors -> Process(ExecutorSteps)]
    /\ reconciler \in [Reconcilers -> Process(ReconcilerSteps)]

(* A process that has learnt its pod goes on to the next step. *)
WithPod(process, step, p) ==
    [pc |-> step, request |-> process.request, number |-> process.number, pod |-> p]

Idle == [pc |-> "idle", request |-> Nobody, number |-> 0, pod |-> NoPod]

Init ==
    /\ plan \in [Requests -> UNION {Plans[r] : r \in Requests}]
    /\ \A r \in Requests : plan[r] \in Plans[r]
    /\ requestState = [r \in Requests |-> "absent"]
    /\ attemptState = [r \in Requests |-> [n \in Numbers |-> "absent"]]
    /\ attemptPod = [r \in Requests |-> [n \in Numbers |-> NoPod]]
    /\ allocation = [r \in Requests |-> NoAllocation]
    /\ registry = [p \in Pods |-> Nobody]
    /\ create = [r \in Requests |-> [n \in Numbers |-> "unsent"]]
    /\ podState = [p \in Pods |-> "free"]
    /\ podFor = [p \in Pods |-> NoAttempt]
    /\ older = [r \in Requests |-> [n \in Numbers |-> {}]]
    /\ confirmed = {}
    /\ executor = [e \in Executors |-> Idle]
    /\ reconciler = [k \in Reconcilers |-> Idle]

-----------------------------------------------------------------------------
(* The ledger.                                                             *)

IsLatest(r, n) ==
    /\ attemptState[r][n] # "absent"
    /\ \A m \in Numbers : m > n => attemptState[r][m] = "absent"

\* Mutant of MayBegin: an uncertain attempt does not block a retry.
MayBeginDespiteUncertain(r, n) ==
    \/ n = 1 /\ \A m \in Numbers : attemptState[r][m] = "absent"
    \/ n > 1 /\ IsLatest(r, n - 1) /\ attemptState[r][n - 1] \in {"failed", "uncertain"}

(* `select ... order by attempt_number desc limit 1` is empty or failed. *)
MayBegin(r, n) ==
    \/ n = 1 /\ \A m \in Numbers : attemptState[r][m] = "absent"
    \/ n > 1 /\ IsLatest(r, n - 1) /\ attemptState[r][n - 1] = "failed"

\* Mutant of SetState: a failure reaches the attempt's row only.
SetStateOfAttemptOnly(r, n, s) ==
    /\ attemptState' = [attemptState EXCEPT ![r][n] = s]
    /\ requestState' = IF s = "failed" THEN requestState
                        ELSE [requestState EXCEPT ![r] = s]

(* Both the attempt's row and its request's row take the new state. *)
SetState(r, n, s) ==
    /\ attemptState' = [attemptState EXCEPT ![r][n] = s]
    /\ requestState' = [requestState EXCEPT ![r] = s]

\* Mutant of StoreAllocation: the attempt does not remember its pod.
StoreAllocationWithoutPod(r, n, p) ==
    /\ SetState(r, n, "succeeded")
    /\ allocation' = [allocation EXCEPT ![r] = [number |-> n, pod |-> p]]
    /\ UNCHANGED attemptPod

(* UPDATE attempt, UPDATE request, INSERT allocation, in one transaction. *)
StoreAllocation(r, n, p) ==
    /\ SetState(r, n, "succeeded")
    /\ attemptPod' = [attemptPod EXCEPT ![r][n] = p]
    /\ allocation' = [allocation EXCEPT ![r] = [number |-> n, pod |-> p]]

-----------------------------------------------------------------------------
(* Executors.                                                              *)

(* begin_provisioning: one BEGIN IMMEDIATE transaction. *)
BeginProvisioning(e, r, n) ==
    /\ executor[e].pc = "idle"
    /\ MayBegin(r, n)
    /\ SetState(r, n, "pending")
    /\ executor' = [executor EXCEPT ![e] =
          [pc |-> "send", request |-> r, number |-> n, pod |-> NoPod]]
    /\ older' = [older EXCEPT ![r][n] = {p \in Pods : podState[p] # "free"}]
    /\ UNCHANGED <<plan, attemptPod, allocation, registry, provider, confirmed, reconciler>>

(* The create command leaves the process. *)
SendCreate(e) ==
    /\ executor[e].pc = "send"
    /\ create' = [create EXCEPT ![executor[e].request][executor[e].number] = "sent"]
    /\ executor' = [executor EXCEPT ![e].pc = "wait"]
    /\ UNCHANGED <<ledger, registry, podState, podFor, older, confirmed, reconciler>>

(* The answer, or the payload of an error, carries the pod's id.  When the *)
(* request already has an allocation complete_allocation raises, which     *)
(* leaves the attempt pending: that is ExecutorDies.                       *)
AnswerPod(e) ==
    LET r == executor[e].request
        n == executor[e].number
    IN  /\ executor[e].pc = "wait"
        /\ attemptState[r][n] = "pending"
        /\ allocation[r] = NoAllocation
        /\ \E p \in Pods :
              /\ podFor[p] = [request |-> r, number |-> n]
              /\ StoreAllocation(r, n, p)
              /\ executor' = [executor EXCEPT ![e] = WithPod(@, "register", p)]
        /\ UNCHANGED <<plan, registry, provider, older, confirmed, reconciler>>

(* The provider refused.  The RunPod executor recognises the refusal; the  *)
(* Sesterce launcher records every exception as uncertain.                 *)
AnswerRejected(e) ==
    LET r == executor[e].request
        n == executor[e].number
    IN  /\ executor[e].pc = "wait"
        /\ attemptState[r][n] = "pending"
        /\ create[r][n] = "rejected"
        /\ SetState(r, n, IF plan[r].connector = "runpod" THEN "failed" ELSE "uncertain")
        /\ executor' = [executor EXCEPT ![e] = Idle]
        /\ UNCHANGED <<plan, attemptPod, allocation, registry, provider, older, confirmed, reconciler>>

\* Mutant of AnswerUncertain: a lost call is recorded as a failure.
AnswerUncertainAsFailed(e) ==
    LET r == executor[e].request
        n == executor[e].number
    IN  /\ executor[e].pc = "wait"
        /\ attemptState[r][n] = "pending"
        /\ SetState(r, n, "failed")
        /\ executor' = [executor EXCEPT ![e] = Idle]
        /\ UNCHANGED <<plan, attemptPod, allocation, registry, provider, older, confirmed, reconciler>>

(* The command fails, or answers without an id, whatever the provider did  *)
(* or is still going to do.  Nothing makes it: runpodctl's create runs     *)
(* without a time limit, so a launch may wait for ever.                    *)
AnswerUncertain(e) ==
    LET r == executor[e].request
        n == executor[e].number
    IN  /\ executor[e].pc = "wait"
        /\ attemptState[r][n] = "pending"
        /\ SetState(r, n, "uncertain")
        /\ executor' = [executor EXCEPT ![e] = Idle]
        /\ UNCHANGED <<plan, attemptPod, allocation, registry, provider, older, confirmed, reconciler>>

\* Mutant of RegisterLaunch: the machine names its attempt, not its allocation.
RegisterLaunchByAttempt(e) ==
    /\ executor[e].pc = "register"
    /\ registry' = [registry EXCEPT ![executor[e].pod] = executor[e].number]
    /\ executor' = [executor EXCEPT ![e] = Idle]
    /\ UNCHANGED <<ledger, provider, older, confirmed, reconciler>>

(* registry.put of the new machine, keyed by its pod. *)
RegisterLaunch(e) ==
    /\ executor[e].pc = "register"
    /\ registry' = [registry EXCEPT ![executor[e].pod] = executor[e].request]
    /\ executor' = [executor EXCEPT ![e] = Idle]
    /\ UNCHANGED <<ledger, provider, older, confirmed, reconciler>>

(* The process is interrupted or killed, or an exception ends it. *)
ExecutorDies(e) ==
    /\ executor[e].pc # "idle"
    /\ executor' = [executor EXCEPT ![e] = Idle]
    /\ UNCHANGED <<ledger, registry, provider, older, confirmed, reconciler>>

-----------------------------------------------------------------------------
(* The providers.                                                          *)

CreatePod(r, n, p) ==
    /\ create[r][n] = "sent"
    /\ podState[p] = "free"
    /\ create' = [create EXCEPT ![r][n] = "created"]
    /\ podState' = [podState EXCEPT ![p] = "live"]
    /\ podFor' = [podFor EXCEPT ![p] = [request |-> r, number |-> n]]
    /\ UNCHANGED <<ledger, registry, older, confirmed, executor, reconciler>>

RejectCreate(r, n) ==
    /\ create[r][n] = "sent"
    /\ create' = [create EXCEPT ![r][n] = "rejected"]
    /\ UNCHANGED <<ledger, registry, podState, podFor, older, confirmed, executor, reconciler>>

(* The termination deadline passes, or somebody deletes the pod. *)
PodEnds(p) ==
    /\ podState[p] = "live"
    /\ podState' = [podState EXCEPT ![p] = "gone"]
    /\ UNCHANGED <<ledger, registry, create, podFor, older, confirmed, executor, reconciler>>

-----------------------------------------------------------------------------
(* Reconcilers.                                                            *)

Reconcilable(r, n) ==
    /\ plan[r].connector = "runpod"
    /\ \/ attemptState[r][n] = "uncertain"
       \/ attemptState[r][n] = "succeeded" /\ allocation[r] = NoAllocation

\* Mutant of Matches: the machine name is not compared.
MatchesAnyName(r, n, slack) ==
    {p \in Pods :
        /\ podState[p] = "live"
        /\ plan[podFor[p].request].connector = "runpod"
        /\ p \in older[r][n] => p \in slack}

(* Live RunPod pods with the request's name, created since the attempt     *)
(* started; `slack` are the ones created up to five minutes before.        *)
Matches(r, n, slack) ==
    {p \in Pods :
        /\ podState[p] = "live"
        /\ plan[podFor[p].request].connector = "runpod"
        /\ plan[podFor[p].request].name = plan[r].name
        /\ p \in older[r][n] => p \in slack}

ReadAttempt(k, r, n) ==
    /\ reconciler[k].pc = "idle"
    /\ Reconcilable(r, n)
    /\ reconciler' = [reconciler EXCEPT ![k] =
          [pc |-> "list", request |-> r, number |-> n, pod |-> NoPod]]
    /\ UNCHANGED <<ledger, registry, provider, older, confirmed, executor>>

(* The list holds no match.  With --confirm-absent the attempt is to be    *)
(* failed, without it the command only reports.                            *)
ListNone(k) ==
    /\ reconciler[k].pc = "list"
    /\ \E slack \in SUBSET Pods :
          Matches(reconciler[k].request, reconciler[k].number, slack) = {}
    /\ \/ reconciler' = [reconciler EXCEPT ![k].pc = "absent"]
       \/ reconciler' = [reconciler EXCEPT ![k] = Idle]
    /\ UNCHANGED <<ledger, registry, provider, older, confirmed, executor>>

(* Exactly one match: it is to be recorded as the attempt's pod. *)
ListOne(k) ==
    /\ reconciler[k].pc = "list"
    /\ \E slack \in SUBSET Pods, p \in Pods :
          /\ Matches(reconciler[k].request, reconciler[k].number, slack) = {p}
          /\ reconciler' = [reconciler EXCEPT ![k] = WithPod(@, "recover", p)]
    /\ UNCHANGED <<ledger, registry, provider, older, confirmed, executor>>

(* Several matches: reported, nothing is changed. *)
ListMany(k) ==
    /\ reconciler[k].pc = "list"
    /\ \E slack \in SUBSET Pods :
          Cardinality(Matches(reconciler[k].request, reconciler[k].number, slack)) > 1
    /\ reconciler' = [reconciler EXCEPT ![k] = Idle]
    /\ UNCHANGED <<ledger, registry, provider, older, confirmed, executor>>

(* reconcile_attempt reads the row again, outside any transaction ... *)
CheckAbsent(k) ==
    /\ reconciler[k].pc = "absent"
    /\ attemptState[reconciler[k].request][reconciler[k].number] = "uncertain"
    /\ reconciler' = [reconciler EXCEPT ![k].pc = "write_failed"]
    /\ UNCHANGED <<ledger, registry, provider, older, confirmed, executor>>

(* ... and then writes it, whatever it has become. *)
WriteFailed(k) ==
    LET r == reconciler[k].request
        n == reconciler[k].number
    IN  /\ reconciler[k].pc = "write_failed"
        /\ SetState(r, n, "failed")
        /\ confirmed' = confirmed \cup {[request |-> r, number |-> n]}
        /\ reconciler' = [reconciler EXCEPT ![k] = Idle]
        /\ UNCHANGED <<plan, attemptPod, allocation, registry, provider, older, executor>>

\* Mutant of CheckRecover: the machine is registered, the allocation forgotten.
CheckRecoverForgetful(k) ==
    /\ reconciler[k].pc = "recover"
    /\ reconciler' = [reconciler EXCEPT ![k].pc = "register"]
    /\ UNCHANGED <<ledger, registry, provider, older, confirmed, executor>>

(* complete_allocation(recover=True) reads the attempt and the request's   *)
(* allocation: the same allocation is left alone, another one refused.     *)
CheckRecover(k) ==
    LET r == reconciler[k].request
        n == reconciler[k].number
        p == reconciler[k].pod
    IN  /\ reconciler[k].pc = "recover"
        /\ attemptState[r][n] \in {"uncertain", "succeeded"}
        /\ attemptPod[r][n] \in {NoPod, p}
        /\ allocation[r].pod \in {NoPod, p}
        /\ reconciler' = [reconciler EXCEPT ![k].pc =
              IF allocation[r] = NoAllocation THEN "write_allocation" ELSE "register"]
        /\ UNCHANGED <<ledger, registry, provider, older, confirmed, executor>>

(* The unique request_id of allocations turns a second one into a rollback. *)
WriteAllocation(k) ==
    LET r == reconciler[k].request
        n == reconciler[k].number
    IN  /\ reconciler[k].pc = "write_allocation"
        /\ allocation[r] = NoAllocation
        /\ StoreAllocation(r, n, reconciler[k].pod)
        /\ reconciler' = [reconciler EXCEPT ![k].pc = "register"]
        /\ UNCHANGED <<plan, registry, provider, older, confirmed, executor>>

RegisterRecovery(k) ==
    /\ reconciler[k].pc = "register"
    /\ registry' = [registry EXCEPT ![reconciler[k].pod] = reconciler[k].request]
    /\ reconciler' = [reconciler EXCEPT ![k] = Idle]
    /\ UNCHANGED <<ledger, provider, older, confirmed, executor>>

(* A check refuses, a transaction rolls back, or the process is killed. *)
ReconcilerDies(k) ==
    /\ reconciler[k].pc # "idle"
    /\ reconciler' = [reconciler EXCEPT ![k] = Idle]
    /\ UNCHANGED <<ledger, registry, provider, older, confirmed, executor>>

-----------------------------------------------------------------------------
ExecutorStep(e) ==
    \/ SendCreate(e)
    \/ AnswerPod(e)
    \/ AnswerRejected(e)
    \/ AnswerUncertain(e)
    \/ RegisterLaunch(e)

ReconcilerStep(k) ==
    \/ ListNone(k)
    \/ ListOne(k)
    \/ ListMany(k)
    \/ CheckAbsent(k)
    \/ WriteFailed(k)
    \/ CheckRecover(k)
    \/ WriteAllocation(k)
    \/ RegisterRecovery(k)

Next ==
    \/ \E e \in Executors :
          \/ \E r \in Requests, n \in Numbers : BeginProvisioning(e, r, n)
          \/ ExecutorStep(e)
          \/ ExecutorDies(e)
    \/ \E k \in Reconcilers :
          \/ \E r \in Requests, n \in Numbers : ReadAttempt(k, r, n)
          \/ ReconcilerStep(k)
          \/ ReconcilerDies(k)
    \/ \E r \in Requests, n \in Numbers :
          \/ \E p \in Pods : CreatePod(r, n, p)
          \/ RejectCreate(r, n)
    \/ \E p \in Pods : PodEnds(p)

Spec == Init /\ [][Next]_vars

-----------------------------------------------------------------------------
(* Properties.                                                             *)

Open(r, n) == attemptState[r][n] \in {"pending", "uncertain", "succeeded"}

(* An executor that is alive still answers for the attempt. *)
Working(r, n) ==
    \E e \in Executors :
        /\ executor[e].pc \in {"send", "wait"}
        /\ executor[e].request = r
        /\ executor[e].number = n

(* A request's attempts before the latest have all failed: looking at the  *)
(* latest row alone, as begin_provisioning does, never overlooks an open   *)
(* or a successful attempt.                                                *)
OneOpenAttempt ==
    \A r \in Requests : \A n \in Numbers :
        attemptState[r][n] # "absent" =>
            \A m \in Numbers : m < n => attemptState[r][m] = "failed"

(* The state in a request's row is the state of its latest attempt, through *)
(* every executor, reconciler and crash.                                    *)
RequestMirrorsLatest ==
    \A r \in Requests : \A n \in Numbers :
        IsLatest(r, n) => requestState[r] = attemptState[r][n]

(* A request has an allocation exactly when one of its attempts succeeded, *)
(* and the two rows name the same pod: no paid pod is recorded in one      *)
(* table and missing from the other.                                       *)
AllocationMatchesAttempt ==
    \A r \in Requests :
        /\ allocation[r] # NoAllocation =>
              /\ allocation[r].number \in Numbers
              /\ attemptState[r][allocation[r].number] = "succeeded"
              /\ attemptPod[r][allocation[r].number] = allocation[r].pod
        /\ \A n \in Numbers :
              attemptState[r][n] = "succeeded" => allocation[r].number = n

(* Two pods are paid for one request only if an operator confirmed that    *)
(* the first one does not exist, however answers are lost or late.         *)
SecondPodIsConfirmed ==
    \A p, q \in Pods :
        /\ podFor[p].request # Nobody
        /\ podFor[p].request = podFor[q].request
        /\ podFor[p].number < podFor[q].number
        => podFor[p] \in confirmed

(* A host in the registry always leads to the allocation that pays for it: *)
(* `fleet terminate` finds the pod to delete through it.                   *)
RegisteredIsAllocated ==
    \A p \in Pods :
        registry[p] # Nobody => allocation[registry[p]].pod = p

(* Two launches of RunPod pods under one name, which nothing forbids. *)
Namesakes(r, s) ==
    /\ plan[r].connector = "runpod"
    /\ plan[s].connector = "runpod"
    /\ plan[r].name = plan[s].name

(* An allocated pod was created for its request or for a namesake of it. *)
AllocatedUnderItsName ==
    \A r \in Requests :
        allocation[r].pod # NoPod =>
            LET s == podFor[allocation[r].pod].request
            IN  s \in Requests /\ (s = r \/ Namesakes(s, r))

(* One pod becomes the resource of two requests only when both launched at *)
(* RunPod under one name: neither a late create, nor an attempt repeated   *)
(* or recovered by the other's pod, mixes up requests that a name tells    *)
(* apart ("Recovered one exact RunPod Pod"). *)
OnlyNamesakesShare ==
    \A r, s \in Requests :
        allocation[r].pod = allocation[s].pod /\ allocation[r].pod # NoPod
            => r = s \/ Namesakes(r, s)

(* An attempt that keeps its request from being retried, and that no       *)
(* process is working on, can be reconciled, as the refusal to retry says  *)
(* ("reconcile it before retrying").                                       *)
BlockedIsReconcilable ==
    \A r \in Requests : \A n \in Numbers :
        attemptState[r][n] \in {"pending", "uncertain"} /\ ~Working(r, n)
            => Reconcilable(r, n)

(* Only an uncertain attempt is turned into a failed one by reconciling. *)
OnlyUncertainIsReconciled ==
    [][\A r \in Requests : \A n \in Numbers :
          attemptState[r][n] = "succeeded" => attemptState'[r][n] = "succeeded"]_vars

Resource == [r \in Requests |-> allocation[r].pod]

(* The ledger implements the promise of module Acquisition. *)
Promise == INSTANCE Acquisition WITH state <- requestState, resource <- Resource

ImplementsAcquisition == Promise!Spec
=============================================================================
