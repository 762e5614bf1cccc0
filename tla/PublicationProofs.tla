-------------------------- MODULE PublicationProofs --------------------------
(***************************************************************************)
(* Proofs about Lease and WorkloadPublication, for every set of publishers *)
(* and rows, every TTL and every length of a run; the last one is about    *)
(* the two environments that the model checker runs them in.               *)
(***************************************************************************)
EXTENDS MCPublication, TLAPS

-----------------------------------------------------------------------------
(* The invariants.                                                         *)

(* Every publisher under way has a token of its own, and started earlier. *)
TokensAreFresh ==
    /\ \A p \in Publishers :
          phase[p] # "out" =>
              /\ 0 < lease[p].token /\ lease[p].token <= tokens
              /\ lease[p].expires - TTL <= clock
    /\ \A p, q \in Publishers :
          /\ phase[p] # "out"
          /\ phase[q] # "out"
          /\ lease[p].token = lease[q].token
          => p = q

(* A publisher about to put has read a lease that had run out. *)
SeenHasEnded ==
    \A p \in Publishers :
        phase[p] = "put" /\ seen[p] # Missing => seen[p].expires <= clock

(* Until it runs out, a held lease is the stored one. *)
HeldIsStored ==
    \A p \in Publishers : Holds(p) /\ ~Overdue(p) => object = lease[p]

LeaseInv == LeaseTypeOK /\ TokensAreFresh /\ SeenHasEnded /\ HeldIsStored

(* Transactions are short. *)
NobodyIsOverdue == \A p \in Publishers : phase[p] # "out" => ~Overdue(p)

(* Only a holder is inside the transaction, and what it counts as written  *)
(* is stored. *)
WorkIsHeld ==
    \A p \in Publishers :
        /\ work[p] # "none" => Holds(p)
        /\ work[p] \in {"none", "check"} => part[p] = 0
        /\ \A i \in 1 .. Parts : i <= part[p] => <<captured[p], i>> \in stored

(* The comparison with the published rows still applies when `latest` is   *)
(* written. *)
CheckStillApplies ==
    \A p \in Publishers :
        work[p] = "tables" => latest = Nothing \/ Retains(latest, captured[p])

DataInv == TypeOK /\ WorkIsHeld /\ LatestIsComplete

-----------------------------------------------------------------------------
(* The lease.                                                              *)

LeaseStep ==
    \/ \E p \in Publishers :
          \/ Start(p) \/ Get(p) \/ GetBusy(p) \/ Put(p) \/ PutRefused(p)
          \/ PutUnanswered(p) \/ Release(p) \/ Vanish(p)
    \/ Tick

(* What a publisher that leaves no longer has. *)
LEMMA OutForgets ==
  ASSUME LeaseTypeOK, NEW p \in Publishers, Out(p)
  PROVE  /\ phase' \in [Publishers -> {"out", "get", "put", "held"}]
         /\ lease' \in [Publishers -> Payloads]
         /\ seen' \in [Publishers -> Payloads \cup {Missing}]
         /\ phase'[p] = "out"
         /\ \A q \in Publishers : q # p =>
              phase'[q] = phase[q] /\ lease'[q] = lease[q] /\ seen'[q] = seen[q]
BY DEF LeaseTypeOK, Out, Unused, Payloads

(* Drawing a token keeps the lease's invariant. *)
LEMMA StartKeepsLease ==
  ASSUME LeaseInv, NEW p \in Publishers, Start(p)
  PROVE  LeaseInv'
<1> USE LeaseAssumption
<1> DEFINE new == [token |-> tokens + 1, state |-> "active", expires |-> clock + TTL]
<1>1. new \in Payloads
  BY DEF LeaseInv, LeaseTypeOK, Payloads
<1>2. /\ lease' = [lease EXCEPT ![p] = new]
      /\ phase' = [phase EXCEPT ![p] = "get"]
      /\ tokens' = tokens + 1
      /\ UNCHANGED <<clock, object, seen>>
  BY DEF Start
<1>3. new.token = tokens + 1 /\ new.expires = clock + TTL
  OBVIOUS
<1> HIDE DEF new
<1>4. LeaseTypeOK'
  BY <1>1, <1>2 DEF LeaseInv, LeaseTypeOK
<1>5. /\ lease'[p] = new
      /\ phase'[p] = "get"
      /\ \A q \in Publishers : q # p => lease'[q] = lease[q] /\ phase'[q] = phase[q]
      /\ tokens \in Nat /\ clock \in Nat
      /\ \A q \in Publishers : lease[q].token \in Nat
  BY <1>2 DEF LeaseInv, LeaseTypeOK, Payloads
<1>6. TokensAreFresh'
  BY <1>2, <1>3, <1>5 DEF LeaseInv, TokensAreFresh
<1>7. SeenHasEnded'
  BY <1>2, <1>5 DEF LeaseInv, SeenHasEnded
<1>8. HeldIsStored'
  BY <1>2, <1>5 DEF LeaseInv, HeldIsStored, Holds, Overdue
<1> QED  BY <1>4, <1>6, <1>7, <1>8 DEF LeaseInv

(* Reading a lease that has ended keeps it. *)
LEMMA GetKeepsLease ==
  ASSUME LeaseInv, NEW p \in Publishers, Get(p)
  PROVE  LeaseInv'
<1>1. LeaseTypeOK'
  BY DEF LeaseInv, LeaseTypeOK, Get
<1>2. /\ phase'[p] = "put"
      /\ seen'[p] = object
      /\ \A q \in Publishers : q # p => phase'[q] = phase[q] /\ seen'[q] = seen[q]
      /\ UNCHANGED <<clock, object, tokens, lease>>
  BY DEF LeaseInv, LeaseTypeOK, Get
<1>3. TokensAreFresh'
  BY <1>2 DEF LeaseInv, TokensAreFresh, Get
<1>4. SeenHasEnded'
  <2>1. object # Missing => object.expires <= clock
    <3>1. object # Missing => object.expires \in Nat
      BY DEF LeaseInv, LeaseTypeOK, Payloads, Released
    <3>2. lease[p].expires - TTL <= clock
      BY DEF LeaseInv, TokensAreFresh, Get
    <3>3. lease[p].expires \in Nat /\ TTL \in Nat /\ clock \in Int
      BY LeaseAssumption DEF LeaseInv, LeaseTypeOK, Payloads
    <3> QED  BY <3>1, <3>2, <3>3 DEF Get, Takeable
  <2> QED  BY <1>2, <2>1 DEF LeaseInv, SeenHasEnded
<1>5. HeldIsStored'
  BY <1>2 DEF LeaseInv, HeldIsStored, Holds, Overdue
<1> QED  BY <1>1, <1>3, <1>4, <1>5 DEF LeaseInv

(* Storing the lease of p, whose turn it is, overwrites no lease in force. *)
LEMMA StoresOverEnded ==
  ASSUME LeaseInv, NEW p \in Publishers, phase[p] = "put", Stores(p),
         NEW q \in Publishers, Holds(q)
  PROVE  Overdue(q)
<1> SUFFICES ASSUME ~Overdue(q)  PROVE FALSE
  OBVIOUS
<1>1. object = lease[q]
  BY DEF LeaseInv, HeldIsStored
<1>2. lease[q] \in Payloads
  BY DEF LeaseInv, LeaseTypeOK
<1>3. seen[p] # Missing /\ seen[p].expires = lease[q].expires
  BY <1>1, <1>2, LeaseAssumption DEF Stores, Payloads
<1>4. lease[q].expires <= clock
  BY <1>3 DEF LeaseInv, SeenHasEnded
<1> QED  BY <1>4 DEF Overdue

(* Taking the lease keeps it. *)
LEMMA PutKeepsLease ==
  ASSUME LeaseInv, NEW p \in Publishers, Put(p)
  PROVE  LeaseInv'
<1>1. /\ phase'[p] = "held"
      /\ \A q \in Publishers : q # p => phase'[q] = phase[q]
      /\ object' = lease[p]
      /\ UNCHANGED <<clock, tokens, lease, seen>>
  BY DEF LeaseInv, LeaseTypeOK, Put, Stores
<1>2. LeaseTypeOK'
  BY DEF LeaseInv, LeaseTypeOK, Put, Stores
<1>3. TokensAreFresh'
  BY <1>1 DEF LeaseInv, TokensAreFresh, Put
<1>4. SeenHasEnded'
  BY <1>1 DEF LeaseInv, SeenHasEnded
<1>5. HeldIsStored'
  <2>1. \A q \in Publishers : q # p /\ Holds(q) => Overdue(q)
    BY StoresOverEnded DEF Put
  <2> QED  BY <1>1, <2>1 DEF HeldIsStored, Holds, Overdue
<1> QED  BY <1>2, <1>3, <1>4, <1>5 DEF LeaseInv

(* Taking the lease without learning so keeps it. *)
LEMMA PutUnansweredKeepsLease ==
  ASSUME LeaseInv, NEW p \in Publishers, PutUnanswered(p)
  PROVE  LeaseInv'
<1>1. /\ Out(p)
      /\ object' = lease[p]
      /\ UNCHANGED <<clock, tokens>>
  BY DEF PutUnanswered, Stores
<1>2. LeaseTypeOK'
  BY <1>1, OutForgets DEF LeaseInv, LeaseTypeOK
<1>3. TokensAreFresh'
  BY <1>1, OutForgets DEF LeaseInv, TokensAreFresh
<1>4. SeenHasEnded'
  BY <1>1, OutForgets DEF LeaseInv, SeenHasEnded
<1>5. HeldIsStored'
  <2>1. \A q \in Publishers : Holds(q) => Overdue(q)
    BY StoresOverEnded DEF PutUnanswered
  <2> QED  BY <1>1, <2>1, OutForgets DEF LeaseInv, HeldIsStored, Holds, Overdue
<1> QED  BY <1>2, <1>3, <1>4, <1>5 DEF LeaseInv

(* A conditional release keeps it. *)
LEMMA ReleaseKeepsLease ==
  ASSUME LeaseInv, NEW p \in Publishers, Release(p)
  PROVE  LeaseInv'
<1>1. /\ Out(p)
      /\ object' # object => object = lease[p]
      /\ UNCHANGED <<clock, tokens>>
  BY DEF Release
<1>2. object' \in Payloads \cup {Missing}
  <2>1. Released(p) \in Payloads
    BY DEF LeaseInv, LeaseTypeOK, Payloads, Released
  <2> QED  BY <2>1 DEF LeaseInv, LeaseTypeOK, Release
<1>3. LeaseTypeOK'
  BY <1>1, <1>2, OutForgets DEF LeaseInv, LeaseTypeOK
<1>4. TokensAreFresh'
  BY <1>1, OutForgets DEF LeaseInv, TokensAreFresh
<1>5. SeenHasEnded'
  BY <1>1, OutForgets DEF LeaseInv, SeenHasEnded
<1>6. HeldIsStored'
  <2> SUFFICES ASSUME NEW q \in Publishers, Holds(q)', ~Overdue(q)'
               PROVE  object' = lease'[q]
    BY DEF HeldIsStored
  <2>1. q # p /\ Holds(q) /\ lease'[q] = lease[q] /\ ~Overdue(q)
    BY <1>1, OutForgets DEF LeaseInv, Holds, Overdue
  <2>2. object = lease[q]
    BY <2>1 DEF LeaseInv, HeldIsStored
  <2>3. object # lease[p]
    BY <2>1, <2>2 DEF LeaseInv, TokensAreFresh, Holds, Release
  <2> QED  BY <1>1, <2>1, <2>2, <2>3
<1> QED  BY <1>3, <1>4, <1>5, <1>6 DEF LeaseInv

(* Leaving without a write. *)
LEMMA LeavingKeepsLease ==
  ASSUME LeaseInv, NEW p \in Publishers, Out(p), UNCHANGED <<clock, object, tokens>>
  PROVE  LeaseInv'
<1>1. LeaseTypeOK'
  BY OutForgets DEF LeaseInv, LeaseTypeOK
<1>2. TokensAreFresh' /\ SeenHasEnded'
  BY OutForgets DEF LeaseInv, TokensAreFresh, SeenHasEnded
<1>3. HeldIsStored'
  BY OutForgets DEF LeaseInv, HeldIsStored, Holds, Overdue
<1> QED  BY <1>1, <1>2, <1>3 DEF LeaseInv

(* The passing of time keeps it. *)
LEMMA TickKeepsLease ==
  ASSUME LeaseInv, Tick
  PROVE  LeaseInv'
<1>1. /\ clock \in Nat /\ clock' = clock + 1
      /\ UNCHANGED <<object, tokens, phase, lease, seen>>
      /\ \A p \in Publishers : lease[p] \in Payloads
      /\ \A p \in Publishers : seen[p] # Missing => seen[p] \in Payloads
  BY DEF LeaseInv, LeaseTypeOK, Tick
<1>2. LeaseTypeOK'
  BY <1>1, LeaseAssumption DEF LeaseInv, LeaseTypeOK, Tick
<1>3. TokensAreFresh'
  BY <1>1, LeaseAssumption DEF LeaseInv, TokensAreFresh, Payloads
<1>4. SeenHasEnded'
  BY <1>1 DEF LeaseInv, SeenHasEnded, Payloads
<1>5. HeldIsStored'
  BY <1>1 DEF LeaseInv, HeldIsStored, Holds, Overdue, Payloads
<1> QED  BY <1>2, <1>3, <1>4, <1>5 DEF LeaseInv

(* Every step of the lease keeps its invariant. *)
LEMMA LeaseStepKeepsLease ==
  ASSUME LeaseInv, LeaseStep \/ UNCHANGED leaseVars
  PROVE  LeaseInv'
<1>1. CASE UNCHANGED leaseVars
  BY <1>1 DEF LeaseInv, leaseVars, LeaseTypeOK, TokensAreFresh, SeenHasEnded, HeldIsStored,
     Holds, Overdue
<1>2. CASE Tick
  BY <1>2, TickKeepsLease
<1>3. ASSUME NEW p \in Publishers, GetBusy(p) \/ PutRefused(p) \/ Vanish(p)
      PROVE  LeaseInv'
  BY <1>3, LeavingKeepsLease DEF GetBusy, PutRefused, Vanish
<1>4. ASSUME NEW p \in Publishers,
             Start(p) \/ Get(p) \/ Put(p) \/ PutUnanswered(p) \/ Release(p)
      PROVE  LeaseInv'
  BY <1>4, StartKeepsLease, GetKeepsLease, PutKeepsLease, PutUnansweredKeepsLease,
     ReleaseKeepsLease
<1> QED  BY <1>1, <1>2, <1>3, <1>4 DEF LeaseStep

(* A step of the publication is a step of the lease, or leaves it alone. *)
LEMMA NextIsLeaseStep ==
  ASSUME [Next]_vars
  PROVE  LeaseStep \/ UNCHANGED leaseVars
BY DEF Next, vars, LeaseStep, Refresh, AskForLease, MissLease, Enter, Check, CheckUnread,
   WritePart, WriteLatest, Leave, Crash

(* The lease's invariant holds throughout. *)
LEMMA LeaseInvHolds == Spec => []LeaseInv
<1>1. Init => LeaseInv
  BY LeaseAssumption DEF Init, LeaseInit, LeaseInv, LeaseTypeOK, Payloads, Unused,
     TokensAreFresh, SeenHasEnded, HeldIsStored, Holds
<1>2. LeaseInv /\ [Next]_vars => LeaseInv'
  BY NextIsLeaseStep, LeaseStepKeepsLease
<1> QED  BY <1>1, <1>2, PTL DEF Spec

(* Two publishers overlap only when one of them has outlasted its lease. *)
THEOREM OverlapIsOverdue == Spec => []OverlapOnlyWhenOverdue
<1>1. LeaseInv => OverlapOnlyWhenOverdue
  BY DEF LeaseInv, HeldIsStored, TokensAreFresh, OverlapOnlyWhenOverdue, Holds
<1> QED  BY LeaseInvHolds, <1>1, PTL

(* A lease in force is released by its holder or left alone. *)
THEOREM NobodyFreesAnothersLease == Spec => LeaseIsItsHolders
<1>1. LeaseInv /\ [Next]_vars =>
        [\A p \in Publishers :
            Holds(p) /\ ~Overdue(p) /\ object' # object
                => object = lease[p] /\ phase'[p] = "out"]_leaseVars
  <2> SUFFICES ASSUME LeaseInv, LeaseStep, NEW p \in Publishers,
                      Holds(p), ~Overdue(p), object' # object
               PROVE  object = lease[p] /\ phase'[p] = "out"
    BY NextIsLeaseStep
  <2>1. object = lease[p]
    BY DEF LeaseInv, HeldIsStored
  <2>2. PICK q \in Publishers : Put(q) \/ PutUnanswered(q) \/ Release(q)
    BY DEF LeaseStep, Start, Get, GetBusy, PutRefused, Vanish, Tick
  <2>3. Release(q)
    BY <2>2, StoresOverEnded DEF Put, PutUnanswered
  <2>4. lease[q] = lease[p]
    BY <2>1, <2>3 DEF Release
  <2>5. q = p
    BY <2>3, <2>4 DEF LeaseInv, TokensAreFresh, Release, Holds
  <2> QED  BY <2>1, <2>3, <2>5, OutForgets DEF Release, LeaseInv
<1> QED  BY LeaseInvHolds, <1>1, PTL DEF Spec, LeaseIsItsHolders

-----------------------------------------------------------------------------
(* The publication.                                                        *)

(* What the end of a refresh leaves. *)
LEMMA EndForgets ==
  ASSUME TypeOK, NEW p \in Publishers, End(p)
  PROVE  /\ captured' \in [Publishers -> Contents]
         /\ work' \in [Publishers -> {"none", "check", "tables", "done"}]
         /\ part' \in [Publishers -> 0 .. Parts]
         /\ work'[p] = "none" /\ part'[p] = 0
         /\ \A q \in Publishers : q # p =>
              captured'[q] = captured[q] /\ work'[q] = work[q] /\ part'[q] = part[q]
BY PublicationAssumption DEF TypeOK, End, Proceed, NoRows, Contents

(* A step of the lease changes the phase of one publisher. *)
LEMMA RefreshKeepsData ==
  ASSUME DataInv, LeaseTypeOK', NEW p \in Publishers, NEW rows \in Contents, Refresh(p, rows)
  PROVE  DataInv'
<1>1. TypeOK'
  BY DEF DataInv, TypeOK, Refresh
<1>2. /\ ~Holds(p)
      /\ \A q \in Publishers : q # p => phase'[q] = phase[q] /\ captured'[q] = captured[q]
      /\ UNCHANGED <<work, part, stored, latest>>
  BY DEF DataInv, TypeOK, LeaseTypeOK, Refresh, Start, Holds
<1>3. part[p] = 0 /\ work[p] = "none"
  BY <1>2 DEF DataInv, WorkIsHeld
<1>4. WorkIsHeld'
  BY <1>2, <1>3, PublicationAssumption DEF DataInv, WorkIsHeld, Holds
<1>5. LatestIsComplete'
  BY <1>2 DEF DataInv, LatestIsComplete
<1> QED  BY <1>1, <1>4, <1>5 DEF DataInv

(* Asking for the lease keeps the data's invariant. *)
LEMMA AskForLeaseKeepsData ==
  ASSUME DataInv, LeaseTypeOK', NEW p \in Publishers, AskForLease(p)
  PROVE  DataInv'
<1>1. TypeOK' /\ LatestIsComplete'
  BY DEF DataInv, TypeOK, AskForLease, dataVars, LatestIsComplete
<1>2. /\ ~Holds(p)
      /\ \A q \in Publishers : q # p => phase'[q] = phase[q]
  BY DEF DataInv, TypeOK, LeaseTypeOK, AskForLease, Get, Holds
<1>3. WorkIsHeld'
  BY <1>2 DEF DataInv, WorkIsHeld, Holds, AskForLease, dataVars
<1> QED  BY <1>1, <1>3 DEF DataInv

(* Ending a refresh, however it ends. *)
LEMMA EndingKeepsData ==
  ASSUME DataInv, LeaseTypeOK', NEW p \in Publishers, End(p), UNCHANGED <<stored, latest>>,
         \A q \in Publishers : q # p => phase'[q] = phase[q]
  PROVE  DataInv'
<1>1. TypeOK' /\ LatestIsComplete'
  BY EndForgets DEF DataInv, TypeOK, LatestIsComplete
<1>2. WorkIsHeld'
  BY EndForgets, PublicationAssumption DEF DataInv, WorkIsHeld, Holds
<1> QED  BY <1>1, <1>2 DEF DataInv

(* Entering the transaction keeps it. *)
LEMMA EnterKeepsData ==
  ASSUME DataInv, LeaseTypeOK', NEW p \in Publishers, Enter(p)
  PROVE  DataInv'
<1>1. TypeOK' /\ LatestIsComplete'
  BY DEF DataInv, TypeOK, Enter, Proceed, LatestIsComplete
<1>2. /\ work'[p] = "check" /\ phase'[p] = "held"
      /\ \A q \in Publishers : q # p => phase'[q] = phase[q] /\ work'[q] = work[q]
      /\ UNCHANGED <<captured, part, stored>>
  BY DEF DataInv, TypeOK, LeaseTypeOK, Enter, Proceed, Put
<1>3. work[p] = "none"
  BY DEF DataInv, WorkIsHeld, Holds, Enter, Put
<1>4. WorkIsHeld'
  BY <1>2, <1>3 DEF DataInv, WorkIsHeld, Holds
<1> QED  BY <1>1, <1>4 DEF DataInv

(* The comparison with `latest`, made or skipped. *)
LEMMA CheckKeepsData ==
  ASSUME DataInv, LeaseTypeOK', NEW p \in Publishers, Check(p) \/ CheckUnread(p)
  PROVE  DataInv'
<1>1. PICK step \in {"tables", "done"} : Proceed(p, step)
  BY DEF Check, CheckUnread
<1>2. Holds(p) /\ UNCHANGED <<leaseVars, captured, part, stored, latest>>
  BY DEF Check, CheckUnread
<1>3. TypeOK' /\ LatestIsComplete'
  BY <1>1, <1>2 DEF DataInv, TypeOK, Proceed, LatestIsComplete
<1>4. WorkIsHeld'
  BY <1>1, <1>2 DEF DataInv, TypeOK, Proceed, WorkIsHeld, Holds, leaseVars
<1> QED  BY <1>3, <1>4 DEF DataInv

(* Writing an object of the generation keeps it. *)
LEMMA WritePartKeepsData ==
  ASSUME DataInv, LeaseTypeOK', NEW p \in Publishers, WritePart(p)
  PROVE  DataInv'
<1> USE PublicationAssumption
<1>1. /\ part[p] \in 0 .. Parts /\ part[p] < Parts /\ captured[p] \in Contents
      /\ work[p] = "tables"
      /\ part'[p] = part[p] + 1
      /\ \A q \in Publishers : q # p => part'[q] = part[q]
      /\ stored' = stored \cup {<<captured[p], part[p] + 1>>}
      /\ UNCHANGED <<leaseVars, captured, work, latest>>
  BY DEF DataInv, TypeOK, WritePart
<1>2. part' \in [Publishers -> 0 .. Parts]
  BY DEF DataInv, TypeOK, WritePart
<1>3. TypeOK'
  BY <1>1, <1>2 DEF DataInv, TypeOK
<1>4. WorkIsHeld'
  <2>1. \A i \in 1 .. Parts : i <= part'[p] => <<captured[p], i>> \in stored'
    BY <1>1 DEF DataInv, WorkIsHeld
  <2> QED  BY <1>1, <2>1 DEF DataInv, WorkIsHeld, Holds, leaseVars
<1>5. LatestIsComplete'
  BY <1>1 DEF DataInv, LatestIsComplete
<1> QED  BY <1>3, <1>4, <1>5 DEF DataInv

(* Writing the latest manifest keeps it: all objects are there. *)
LEMMA WriteLatestKeepsData ==
  ASSUME DataInv, LeaseTypeOK', NEW p \in Publishers, WriteLatest(p)
  PROVE  DataInv'
<1>1. TypeOK'
  BY DEF DataInv, TypeOK, WriteLatest, Proceed
<1>2. LatestIsComplete'
  BY DEF DataInv, WorkIsHeld, LatestIsComplete, WriteLatest
<1>3. WorkIsHeld'
  BY DEF DataInv, TypeOK, WorkIsHeld, WriteLatest, Proceed, Holds, leaseVars
<1> QED  BY <1>1, <1>2, <1>3 DEF DataInv

(* Every step keeps the data's invariant. *)
LEMMA NextKeepsData ==
  ASSUME DataInv, LeaseTypeOK', [Next]_vars
  PROVE  DataInv'
<1>1. CASE UNCHANGED dataVars /\ UNCHANGED phase
  BY <1>1 DEF DataInv, TypeOK, WorkIsHeld, LatestIsComplete, dataVars, Holds
<1>2. ASSUME NEW p \in Publishers, MissLease(p) \/ Leave(p) \/ Crash(p)
      PROVE  DataInv'
  <2>1. Out(p) /\ End(p) /\ UNCHANGED <<stored, latest>>
    BY <1>2 DEF MissLease, Leave, Crash, GetBusy, PutRefused, PutUnanswered, Release, Vanish
  <2>2. \A q \in Publishers : q # p => phase'[q] = phase[q]
    BY <2>1, OutForgets DEF DataInv, TypeOK
  <2> QED  BY <2>1, <2>2, EndingKeepsData
<1>3. ASSUME NEW p \in Publishers,
             \/ \E rows \in Contents : Refresh(p, rows)
             \/ AskForLease(p) \/ Enter(p) \/ Check(p) \/ CheckUnread(p)
             \/ WritePart(p) \/ WriteLatest(p)
      PROVE  DataInv'
  BY <1>3, RefreshKeepsData, AskForLeaseKeepsData, EnterKeepsData, CheckKeepsData,
     WritePartKeepsData, WriteLatestKeepsData
<1> QED  BY <1>1, <1>2, <1>3 DEF Next, Tick, vars, leaseVars

(* The data's invariant holds throughout. *)
LEMMA DataInvHolds == Spec => []DataInv
<1>1. Init => DataInv
  BY LeaseAssumption, PublicationAssumption DEF Init, LeaseInit, DataInv, TypeOK, LeaseTypeOK,
     Payloads, Unused, WorkIsHeld, LatestIsComplete, NoRows, Contents
<1>2. DataInv /\ LeaseInv' /\ [Next]_vars => DataInv'
  BY NextKeepsData DEF LeaseInv
<1> QED  BY <1>1, <1>2, LeaseInvHolds, PTL DEF Spec

(* Every variable keeps its type. *)
THEOREM PublicationTypes == Spec => []TypeOK
<1>1. DataInv => TypeOK
  BY DEF DataInv
<1> QED  BY <1>1, DataInvHolds, PTL

(* `latest` never names a generation with a missing object, even when      *)
(* transactions outlast their leases. *)
THEOREM PublishedIsComplete == Spec => []LatestIsComplete
<1>1. DataInv => LatestIsComplete
  BY DEF DataInv
<1> QED  BY <1>1, DataInvHolds, PTL

-----------------------------------------------------------------------------
(* Short transactions.                                                     *)

(* Without overruns every publisher is within its lease. *)
LEMMA NobodyIsOverdueHolds ==
  ASSUME ~Outlasting
  PROVE  Spec => []NobodyIsOverdue
<1>1. Init => NobodyIsOverdue
  BY DEF Init, LeaseInit, NobodyIsOverdue
<1>2. LeaseInv /\ NobodyIsOverdue /\ [Next]_vars => NobodyIsOverdue'
  <2> SUFFICES ASSUME LeaseInv, NobodyIsOverdue, LeaseStep \/ UNCHANGED leaseVars
               PROVE  NobodyIsOverdue'
    BY NextIsLeaseStep
  <2>1. CASE UNCHANGED leaseVars
    BY <2>1 DEF NobodyIsOverdue, Overdue, leaseVars
  <2>2. CASE Tick
    BY <2>2 DEF LeaseInv, LeaseTypeOK, Payloads, NobodyIsOverdue, Overdue, Tick
  <2>3. ASSUME NEW p \in Publishers, Out(p), UNCHANGED clock
        PROVE  NobodyIsOverdue'
    BY <2>3, OutForgets DEF LeaseInv, NobodyIsOverdue, Overdue
  <2>4. ASSUME NEW p \in Publishers, Start(p)
        PROVE  NobodyIsOverdue'
    <3>1. lease'[p].expires = clock + TTL /\ clock' = clock /\ clock \in Nat /\ TTL \in Nat \ {0}
      BY <2>4, LeaseAssumption DEF LeaseInv, LeaseTypeOK, Start
    <3>2. \A q \in Publishers : q # p => lease'[q] = lease[q] /\ phase'[q] = phase[q]
      BY <2>4 DEF LeaseInv, LeaseTypeOK, Start
    <3> QED  BY <3>1, <3>2 DEF NobodyIsOverdue, Overdue
  <2>5. ASSUME NEW p \in Publishers, Get(p) \/ Put(p)
        PROVE  NobodyIsOverdue'
    BY <2>5 DEF LeaseInv, LeaseTypeOK, NobodyIsOverdue, Overdue, Get, Put
  <2> QED  BY <2>1, <2>2, <2>3, <2>4, <2>5
           DEF LeaseStep, GetBusy, PutRefused, PutUnanswered, Release, Vanish
<1> QED  BY <1>1, <1>2, LeaseInvHolds, PTL DEF Spec

(* Publishers within their leases are alone in their transactions. *)
LEMMA ShortMeansAlone ==
  ASSUME LeaseInv, NobodyIsOverdue
  PROVE  OneHolder
BY DEF LeaseInv, TokensAreFresh, HeldIsStored, NobodyIsOverdue, OneHolder, Holds

(* Publishers whose transactions are short are never in them together. *)
THEOREM PublishersAreSerialized ==
  ASSUME ~Outlasting
  PROVE  Spec => []OneHolder
<1>1. LeaseInv /\ NobodyIsOverdue => OneHolder
  BY ShortMeansAlone
<1> QED  BY <1>1, LeaseInvHolds, NobodyIsOverdueHolds, PTL

(* What was compared with `latest` is still to be compared with the same   *)
(* `latest` when the manifest is written. *)
LEMMA NextKeepsCheck ==
  ASSUME ~Unreadable, OneHolder, DataInv, CheckStillApplies, [Next]_vars
  PROVE  CheckStillApplies'
<1>1. CASE UNCHANGED <<captured, work, latest>>
  BY <1>1 DEF CheckStillApplies
<1>2. ASSUME NEW p \in Publishers, NEW rows \in Contents, Refresh(p, rows)
      PROVE  CheckStillApplies'
  <2>1. work[p] # "tables"
    BY <1>2 DEF DataInv, WorkIsHeld, Holds, Refresh, Start
  <2> QED  BY <1>2, <2>1 DEF DataInv, TypeOK, CheckStillApplies, Refresh
<1>3. ASSUME NEW p \in Publishers, End(p), UNCHANGED latest
      PROVE  CheckStillApplies'
  BY <1>3, EndForgets DEF DataInv, CheckStillApplies
<1>4. ASSUME NEW p \in Publishers, Enter(p)
      PROVE  CheckStillApplies'
  BY <1>4 DEF DataInv, TypeOK, CheckStillApplies, Enter, Proceed
<1>5. ASSUME NEW p \in Publishers, Check(p)
      PROVE  CheckStillApplies'
  BY <1>5 DEF DataInv, TypeOK, CheckStillApplies, Check, Proceed
<1>6. ASSUME NEW p \in Publishers, WriteLatest(p)
      PROVE  CheckStillApplies'
  <2>1. \A q \in Publishers : q # p => work[q] # "tables"
    BY <1>6 DEF OneHolder, DataInv, WorkIsHeld, WriteLatest
  <2> QED  BY <1>6, <2>1 DEF DataInv, TypeOK, CheckStillApplies, WriteLatest, Proceed
<1> QED  BY <1>1, <1>2, <1>3, <1>4, <1>5, <1>6
         DEF Next, vars, dataVars, AskForLease, MissLease, CheckUnread, WritePart, Leave, Crash

(* With short transactions and readable manifests, no published row is     *)
(* ever removed or changed, whatever commits are captured. *)
THEOREM RetainedHistory ==
  ASSUME ~Outlasting, ~Unreadable
  PROVE  Spec => HistoryIsRetained
<1>1. Init => CheckStillApplies
  BY DEF Init, CheckStillApplies
<1>2. OneHolder /\ DataInv /\ CheckStillApplies /\ [Next]_vars => CheckStillApplies'
  BY NextKeepsCheck
<1>3. Spec => []CheckStillApplies
  BY <1>1, <1>2, PublishersAreSerialized, DataInvHolds, PTL DEF Spec
<1>4. CheckStillApplies /\ DataInv /\ [Next]_vars =>
        [latest # Nothing => latest' # Nothing /\ Retains(latest, latest')]_vars
  <2> SUFFICES ASSUME CheckStillApplies, DataInv, Next, latest # Nothing
               PROVE  latest' # Nothing /\ Retains(latest, latest')
    OBVIOUS
  <2>1. CASE latest' = latest
    BY <2>1 DEF Retains
  <2>2. ASSUME NEW p \in Publishers, WriteLatest(p)
        PROVE  latest' # Nothing /\ Retains(latest, latest')
    <3>1. latest' = captured[p] /\ captured[p] \in Contents
      BY <2>2 DEF DataInv, TypeOK, WriteLatest
    <3> QED  BY <2>2, <3>1, PublicationAssumption DEF CheckStillApplies, WriteLatest, Contents
  <2> QED  BY <2>1, <2>2 DEF Next, dataVars, Refresh, AskForLease, MissLease, Enter, Check,
           CheckUnread, WritePart, Leave, Crash
<1> QED  BY <1>3, <1>4, DataInvHolds, PTL DEF Spec, HistoryIsRetained

(* A behaviour that is punctual stays so.                                  *)
LEMMA PunctualBehaviour == EitherSpec /\ punctual => Spec /\ []punctual
<1>1. EitherSpec => Init /\ [][EitherNext]_<<vars, punctual>>
  BY PTL DEF EitherSpec, EitherInit
<1>2. punctual /\ [EitherNext]_<<vars, punctual>> => punctual' /\ [Next]_vars
  BY DEF EitherNext
<1> QED
  BY <1>1, <1>2, PTL DEF Spec

(* And one that is not, not.                                               *)
LEMMA LateBehaviour == EitherSpec /\ ~punctual => []~punctual
<1>1. ~punctual /\ [EitherNext]_<<vars, punctual>> => ~punctual'
  BY DEF EitherNext
<1> QED
  BY <1>1, PTL DEF EitherSpec

(* The publishers of a punctual environment never remove or change a       *)
(* published row, whatever the publishers of the other one may do. *)
THEOREM PunctualHistory ==
  ASSUME ~Outlasting, ~Unreadable
  PROVE  EitherSpec => PunctualHistoryIsRetained
<1>1. [latest # Nothing => latest' # Nothing /\ Retains(latest, latest')]_vars
        => [punctual /\ latest # Nothing => latest' # Nothing /\ Retains(latest, latest')]_vars
  OBVIOUS
<1>2. Spec => PunctualHistoryIsRetained
  BY <1>1, RetainedHistory, PTL DEF HistoryIsRetained, PunctualHistoryIsRetained
<1>3. ~punctual
        => [punctual /\ latest # Nothing => latest' # Nothing /\ Retains(latest, latest')]_vars
  OBVIOUS
<1>4. []~punctual => PunctualHistoryIsRetained
  BY <1>3, PTL DEF PunctualHistoryIsRetained
<1> QED
  BY <1>2, <1>4, PunctualBehaviour, LateBehaviour, PTL
=============================================================================
