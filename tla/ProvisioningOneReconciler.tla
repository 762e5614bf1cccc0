---------------------- MODULE ProvisioningOneReconciler ----------------------
(***************************************************************************)
(* Provisioning when reconcile commands are run one after the other: the   *)
(* check and the write of a reconciler are not in one transaction, so two  *)
(* of them at a time can settle one attempt twice, in different ways.      *)
(* What then holds in every state, as one inductive invariant.             *)
(***************************************************************************)
EXTENDS Provisioning

ASSUME OneReconciler == \A k, l \in Reconcilers : k = l

(* Requests without attempts have no row. *)
UntriedIsAbsent ==
    \A r \in Requests :
        (\A n \in Numbers : attemptState[r][n] = "absent") => requestState[r] = "absent"

(* An allocation row names a pod. *)
AllocationHasPod ==
    \A r \in Requests :
        \/ allocation[r] = NoAllocation
        \/ allocation[r].pod \in Pods /\ allocation[r].number \in Numbers

(* A launching process owns a pending attempt that no other process has. *)
ExecutorOwnsAttempt ==
    /\ \A e \in Executors :
          /\ executor[e].pc # "idle" =>
                executor[e].request \in Requests /\ executor[e].number \in Numbers
          /\ executor[e].pc \in {"send", "wait"} =>
                attemptState[executor[e].request][executor[e].number] = "pending"
          /\ executor[e].pc = "send" =>
                create[executor[e].request][executor[e].number] = "unsent"
          /\ executor[e].pc = "register" =>
                /\ executor[e].pod \in Pods
                /\ allocation[executor[e].request].pod = executor[e].pod
    /\ \A e, f \in Executors :
          /\ executor[e].pc \in {"send", "wait"}
          /\ executor[f].pc \in {"send", "wait"}
          /\ executor[e].request = executor[f].request
          /\ executor[e].number = executor[f].number
          => e = f

(* What the providers did was asked for by an attempt in the ledger. *)
ProviderFollowsLedger ==
    /\ \A r \in Requests : \A n \in Numbers :
          create[r][n] # "unsent" => attemptState[r][n] # "absent"
    /\ \A p \in Pods :
          \/ podState[p] = "free" /\ podFor[p] = NoAttempt
          \/ /\ podState[p] # "free"
             /\ podFor[p].request \in Requests
             /\ podFor[p].number \in Numbers
             /\ create[podFor[p].request][podFor[p].number] = "created"

(* A failed attempt was refused, or declared absent by an operator. *)
FailureIsCertain ==
    \A r \in Requests : \A n \in Numbers :
        attemptState[r][n] = "failed" =>
            \/ create[r][n] = "rejected"
            \/ [request |-> r, number |-> n] \in confirmed

(* The reconciler's verdict of an earlier step still applies. *)
VerdictStillApplies ==
    \A k \in Reconcilers :
        /\ reconciler[k].pc # "idle" =>
              /\ reconciler[k].request \in Requests /\ reconciler[k].number \in Numbers
              /\ plan[reconciler[k].request].connector = "runpod"
        /\ reconciler[k].pc \in {"write_failed", "write_allocation"} =>
              attemptState[reconciler[k].request][reconciler[k].number] = "uncertain"
        /\ reconciler[k].pc \in {"recover", "write_allocation"} =>
              /\ reconciler[k].pod \in Pods
              /\ podFor[reconciler[k].pod].request \in Requests
              /\ Namesakes(podFor[reconciler[k].pod].request, reconciler[k].request)
        /\ reconciler[k].pc = "register" =>
              /\ reconciler[k].pod \in Pods
              /\ allocation[reconciler[k].request].pod = reconciler[k].pod

(* The inductive invariant. *)
IInv ==
    /\ TypeOK
    /\ OneOpenAttempt
    /\ RequestMirrorsLatest
    /\ UntriedIsAbsent
    /\ AllocationMatchesAttempt
    /\ AllocationHasPod
    /\ ExecutorOwnsAttempt
    /\ ProviderFollowsLedger
    /\ FailureIsCertain
    /\ VerdictStillApplies
    /\ RegisteredIsAllocated
    /\ AllocatedUnderItsName
=============================================================================
