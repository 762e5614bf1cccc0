-------------------------------- MODULE Lease --------------------------------
(***************************************************************************)
(* The publication lease in S3: one JSON object, written with conditional  *)
(* puts, that says who may publish and until when.  There is no renewal,   *)
(* and nothing a holder writes elsewhere carries its token.                *)
(*                                                                         *)
(* An ETag is a digest of the object, and every payload has a fresh token, *)
(* so IfMatch compares the stored object with the one that was read.       *)
(* Publishers' clocks agree.                                               *)
(***************************************************************************)
EXTENDS Integers

CONSTANTS
    Publishers,    \* processes that publish under the lease
    Missing,       \* no object
    TTL,           \* ttl_seconds
    MaxClock,      \* bound: the last instant
    MaxTokens,     \* bound: number of attempts to take the lease
    Outlasting     \* may a transaction outlast its lease?

ASSUME LeaseAssumption ==
    /\ TTL \in Nat \ {0}
    /\ MaxClock \in Nat
    /\ Outlasting \in BOOLEAN
    /\ Missing \notin [token : Nat, state : {"active", "released"}, expires : Nat]

VARIABLES
    clock,     \* the time
    object,    \* the stored lease
    tokens,    \* number of tokens drawn
    phase,     \* publisher -> where it is in exclusive_lease
    lease,     \* publisher -> its own lease payload
    seen       \* publisher -> the object it read

leaseVars == <<clock, object, tokens, phase, lease, seen>>

Payloads == [token : Nat, state : {"active", "released"}, expires : Nat]
Unused == [token |-> 0, state |-> "released", expires |-> 0]

LeaseTypeOK ==
    /\ clock \in 0 .. MaxClock
    /\ object \in Payloads \cup {Missing}
    /\ tokens \in Nat
    /\ phase \in [Publishers -> {"out", "get", "put", "held"}]
    /\ lease \in [Publishers -> Payloads]
    /\ seen \in [Publishers -> Payloads \cup {Missing}]

LeaseInit ==
    /\ clock = 0
    /\ object = Missing
    /\ tokens = 0
    /\ phase = [p \in Publishers |-> "out"]
    /\ lease = [p \in Publishers |-> Unused]
    /\ seen = [p \in Publishers |-> Missing]

(* The lease of p has run out. *)
Overdue(p) == lease[p].expires <= clock

(* A token is drawn and the expiry fixed before the object is read. *)
Start(p) ==
    /\ phase[p] = "out"
    /\ tokens < MaxTokens
    /\ tokens' = tokens + 1
    /\ lease' = [lease EXCEPT ![p] =
          [token |-> tokens + 1, state |-> "active", expires |-> clock + TTL]]
    /\ phase' = [phase EXCEPT ![p] = "get"]
    /\ UNCHANGED <<clock, object, seen>>

(* exclusive_lease is left: its locals are gone. *)
Out(p) ==
    /\ phase' = [phase EXCEPT ![p] = "out"]
    /\ lease' = [lease EXCEPT ![p] = Unused]
    /\ seen' = [seen EXCEPT ![p] = Missing]

\* Mutant of Takeable: any lease may be taken over.
TakeableAlways(p) == TRUE

(* The stored lease had ended when p started, released or not. *)
Takeable(p) == object # Missing => object.expires <= lease[p].expires - TTL

Get(p) ==
    /\ phase[p] = "get"
    /\ Takeable(p)
    /\ seen' = [seen EXCEPT ![p] = object]
    /\ phase' = [phase EXCEPT ![p] = "put"]
    /\ UNCHANGED <<clock, object, tokens, lease>>

(* LeaseBusyError: the stored lease has not run out. *)
GetBusy(p) ==
    /\ phase[p] = "get"
    /\ ~Takeable(p)
    /\ Out(p)
    /\ UNCHANGED <<clock, object, tokens>>

\* Mutant of Stores: an unconditional put.
StoresAnyway(p) == object' = lease[p]

(* IfNoneMatch or IfMatch holds: nobody wrote the object since it was read. *)
Stores(p) ==
    /\ object = seen[p]
    /\ object' = lease[p]

Put(p) ==
    /\ phase[p] = "put"
    /\ Stores(p)
    /\ phase' = [phase EXCEPT ![p] = "held"]
    /\ UNCHANGED <<clock, tokens, lease, seen>>

(* Precondition failed: LeaseBusyError. *)
PutRefused(p) ==
    /\ phase[p] = "put"
    /\ object # seen[p]
    /\ Out(p)
    /\ UNCHANGED <<clock, object, tokens>>

(* The put takes effect but its answer is lost: the error propagates, and  *)
(* the lease stays behind until it expires. *)
PutUnanswered(p) ==
    /\ phase[p] = "put"
    /\ Stores(p)
    /\ Out(p)
    /\ UNCHANGED <<clock, tokens>>

(* The payload of p's release. *)
Released(p) == [token |-> lease[p].token, state |-> "released", expires |-> clock]

\* Mutant of Release: the release is not conditional.
ReleaseAnyway(p) ==
    /\ phase[p] = "held"
    /\ object' = Released(p)
    /\ Out(p)
    /\ UNCHANGED <<clock, tokens>>

(* The `finally` of the transaction; a lease that another has taken over   *)
(* is left alone.  The put may fail, or its answer be lost: then it is     *)
(* Vanish, or this step. *)
Release(p) ==
    /\ phase[p] = "held"
    /\ object' = IF object = lease[p] THEN Released(p) ELSE object
    /\ Out(p)
    /\ UNCHANGED <<clock, tokens>>

(* The process is killed, or a call raises. *)
Vanish(p) ==
    /\ phase[p] # "out"
    /\ Out(p)
    /\ UNCHANGED <<clock, object, tokens>>

(* Time passes.  Unless transactions may outlast their leases, a publisher *)
(* is done, from its start to its release, before its lease runs out. *)
Tick ==
    /\ clock < MaxClock
    /\ \A p \in Publishers : phase[p] # "out" /\ ~Outlasting => clock + 1 < lease[p].expires
    /\ clock' = clock + 1
    /\ UNCHANGED <<object, tokens, phase, lease, seen>>

-----------------------------------------------------------------------------
Holds(p) == phase[p] = "held"

(* Two publishers are in their transactions at once only when one of them  *)
(* has outlasted its lease, however puts and their answers are lost. *)
OverlapOnlyWhenOverdue ==
    \A p, q \in Publishers :
        p # q /\ Holds(p) /\ Holds(q) => Overdue(p) \/ Overdue(q)

(* A lease that has not run out is changed by nobody but its holder: a     *)
(* publisher that was overtaken does not free its successor's lease. *)
LeaseIsItsHolders ==
    [][\A p \in Publishers :
          Holds(p) /\ ~Overdue(p) /\ object' # object
              => object = lease[p] /\ phase'[p] = "out"]_leaseVars
=============================================================================
