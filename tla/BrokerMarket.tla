---------------------------- MODULE BrokerMarket ----------------------------
(***************************************************************************)
(* The broker evaluation "Reliability Is Blind": a market of suppliers     *)
(* with hidden reliabilities behind a service, the ledger the service      *)
(* writes once at the end, and the verifier that replays it.               *)
(*                                                                         *)
(* A placement is a set of suppliers; the empty one stands for every       *)
(* malformed selection: too few or too many, a supplier twice, something   *)
(* that is no identifier.  Suppliers are numbered from one.  Stakes are    *)
(* natural numbers here.                                                   *)
(*                                                                         *)
(* The seed and the deal's number fix which suppliers fail in it.  Each    *)
(* deal is placed once, so it is enough that they fix whether it is        *)
(* delivered.                                                              *)
(***************************************************************************)
EXTENDS Naturals, Sequences, FiniteSets

CONSTANTS
    InitialSuppliers, SupplierCap, DealSize, Horizon,
    InitialStake, MinimumStake, SlashAmount, RewardAmount,
    ArrivalInterval,       \* deals between scheduled arrivals; 0 for none
    InvalidActionLimit,
    MaxAgentRequests,      \* requests the service counts before it refuses more
    MaxWriteFailures,      \* bound: snapshots that cannot be written
    NoLedger

(* What MarketConfig accepts.  The threshold of ruin must be reachable, and *)
(* out of reach of the initial stake. *)
ValidConfig ==
    /\ DealSize \in Nat \ {0}
    /\ InitialSuppliers \in Nat /\ InitialSuppliers >= DealSize
    /\ SupplierCap \in Nat /\ SupplierCap >= InitialSuppliers
    /\ Horizon \in Nat \ {0}
    /\ MinimumStake \in Nat \ {0}
    /\ SlashAmount \in Nat /\ SlashAmount >= MinimumStake
    /\ InitialStake \in Nat /\ InitialStake > SlashAmount
    /\ RewardAmount \in Nat \ {0}
    /\ ArrivalInterval \in Nat
    /\ InvalidActionLimit \in Nat \ {0}

ASSUME MarketAssumption ==
    /\ ValidConfig
    /\ MaxAgentRequests \in Nat
    /\ MaxWriteFailures \in Nat

VARIABLES
    seed,          \* deal -> whether it is delivered
    market,        \* the state of the engine
    attempts,      \* the selections the service recorded, in order
    requests,      \* the requests it counted
    finalized,     \* the service takes no more of them
    ledger,        \* the artifact it wrote
    writeFailures

marketVars == <<seed, market, attempts, requests, finalized, ledger, writeFailures>>

-----------------------------------------------------------------------------
(* MarketEngine.  A market m is a record, and every method a function.     *)

Suppliers == [stake : Nat, eligible : BOOLEAN]
Deals == [ids : SUBSET Nat, delivered : BOOLEAN]
Reasons == {"none", "horizon_completed", "invalid_action_limit"}
Markets == [suppliers : Seq(Suppliers), history : Seq(Deals), invalid : Nat, ended : Reasons]

NewSupplier == [stake |-> InitialStake, eligible |-> TRUE]

(* reset *)
Reset ==
    [suppliers |-> [i \in 1 .. InitialSuppliers |-> NewSupplier],
     history |-> <<>>, invalid |-> 0, ended |-> "none"]

Eligible(m) == {i \in DOMAIN m.suppliers : m.suppliers[i].eligible}

(* What a broker may ask for. *)
Placements(m) ==
    {{}} \cup {ids \in SUBSET (1 .. Len(m.suppliers) + 1) : Cardinality(ids) = DealSize}

(* _validate_selection *)
Valid(m, ids) == Cardinality(ids) = DealSize /\ ids \subseteq Eligible(m)

\* Mutant of Reject: one invalid selection too many is allowed.
RejectLate(m) ==
    [m EXCEPT !.invalid = @ + 1,
              !.ended = IF m.invalid >= InvalidActionLimit THEN "invalid_action_limit" ELSE @]

(* _reject *)
Reject(m) ==
    [m EXCEPT !.invalid = @ + 1,
              !.ended = IF m.invalid + 1 >= InvalidActionLimit THEN "invalid_action_limit" ELSE @]

AtMost(limit, n) == IF n > limit THEN limit ELSE n
Slashed(stake) ==
    IF stake > SlashAmount + MinimumStake THEN stake - SlashAmount ELSE MinimumStake

\* Mutant of Settled: a supplier at the threshold is kept.
SettledAtThreshold(supplier, delivered) ==
    IF delivered
    THEN [supplier EXCEPT !.stake = AtMost(InitialStake, @ + RewardAmount)]
    ELSE [stake |-> Slashed(supplier.stake), eligible |-> Slashed(supplier.stake) >= SlashAmount]

(* What a deal does to each of its suppliers: all are rewarded, or all are *)
(* slashed, and those at the ruin threshold are removed. *)
Settled(supplier, delivered) ==
    IF delivered
    THEN [supplier EXCEPT !.stake = AtMost(InitialStake, @ + RewardAmount)]
    ELSE [stake |-> Slashed(supplier.stake), eligible |-> Slashed(supplier.stake) > SlashAmount]

Joined(m, n) == [m EXCEPT !.suppliers = @ \o [i \in 1 .. n |-> NewSupplier]]

\* Mutant of Arrived: the cap is not looked at.
ArrivedOverTheCap(m) ==
    IF ArrivalInterval # 0 /\ Len(m.history) % ArrivalInterval = 0 THEN Joined(m, 1) ELSE m

(* _apply_scheduled_arrival *)
Arrived(m) ==
    IF /\ ArrivalInterval # 0
       /\ Len(m.history) % ArrivalInterval = 0
       /\ Cardinality(Eligible(m)) < SupplierCap
    THEN Joined(m, 1)
    ELSE m

(* _replenish_actionable_pool *)
Replenished(m) ==
    LET eligible == Cardinality(Eligible(m))
    IN IF eligible < DealSize THEN Joined(m, DealSize - eligible) ELSE m

(* The deal itself. *)
Dealt(m, ids, delivered) ==
    [m EXCEPT !.suppliers = [i \in DOMAIN @ |->
                                IF i \in ids THEN Settled(@[i], delivered) ELSE @[i]],
              !.history = Append(@, [ids |-> ids, delivered |-> delivered])]

(* The rest of step: the deal of a valid placement. *)
Placed(m, ids) ==
    LET supplied == Replenished(Arrived(Dealt(m, ids, seed[Len(m.history) + 1])))
    IN IF Len(supplied.history) = Horizon
       THEN [supplied EXCEPT !.ended = "horizon_completed"]
       ELSE supplied

(* step, before the end. *)
Stepped(m, ids) == IF Valid(m, ids) THEN Placed(m, ids) ELSE Reject(m)

(* What the ledger keeps of a step that turned m into n. *)
Event(m, ids, n) ==
    [requested |-> ids, accepted |-> Valid(m, ids),
     deal |-> IF Valid(m, ids) THEN n.history[Len(n.history)].delivered ELSE FALSE,
     completed |-> Len(n.history), invalid |-> n.invalid, ended |-> n.ended]

-----------------------------------------------------------------------------
(* MarketRuntime: every request is processed under its lock.               *)

Artifact == [attempts |-> attempts, market |-> market, requests |-> requests]

MarketTypeOK ==
    /\ seed \in [1 .. Horizon -> BOOLEAN]
    /\ market \in Markets
    /\ requests \in [total : 0 .. MaxAgentRequests, select : Nat]
    /\ finalized \in BOOLEAN
    /\ writeFailures \in 0 .. MaxWriteFailures

MarketInit ==
    /\ seed \in [1 .. Horizon -> BOOLEAN]
    /\ market = Reset
    /\ attempts = <<>>
    /\ requests = [total |-> 0, select |-> 0]
    /\ finalized = FALSE
    /\ ledger = NoLedger
    /\ writeFailures = 0

(* _count *)
Counted(select) ==
    /\ requests.total < MaxAgentRequests
    /\ requests' = [total |-> requests.total + 1, select |-> requests.select + select]

(* status, history, result *)
Read ==
    /\ ~finalized
    /\ Counted(0)
    /\ UNCHANGED <<seed, market, attempts, finalized, ledger, writeFailures>>

\* Mutant of Select: a selection the engine rejects leaves no event.
SelectRecordingDeals(ids) ==
    /\ ~finalized
    /\ market.ended = "none"
    /\ Counted(1)
    /\ market' = Stepped(market, ids)
    /\ attempts' = IF Valid(market, ids)
                   THEN Append(attempts, Event(market, ids, market')) ELSE attempts
    /\ UNCHANGED <<seed, finalized, ledger, writeFailures>>

\* Mutant of Select: selections go on after the snapshot.
SelectForEver(ids) ==
    /\ market.ended = "none"
    /\ Counted(1)
    /\ market' = Stepped(market, ids)
    /\ attempts' = Append(attempts, Event(market, ids, market'))
    /\ UNCHANGED <<seed, finalized, ledger, writeFailures>>

(* A selection after the end is answered, and neither counted nor          *)
(* recorded. *)
Select(ids) ==
    /\ ~finalized
    /\ market.ended = "none"
    /\ Counted(1)
    /\ market' = Stepped(market, ids)
    /\ attempts' = Append(attempts, Event(market, ids, market'))
    /\ UNCHANGED <<seed, finalized, ledger, writeFailures>>

(* The snapshot is written once.  When it cannot be written the service    *)
(* goes on as before. *)
Snapshot ==
    /\ ~finalized
    /\ ledger = NoLedger
    /\ \/ /\ ledger' = Artifact
          /\ finalized' = TRUE
          /\ UNCHANGED writeFailures
       \/ /\ writeFailures < MaxWriteFailures
          /\ writeFailures' = writeFailures + 1
          /\ UNCHANGED <<ledger, finalized>>
    /\ UNCHANGED <<seed, market, attempts, requests>>

MarketNext ==
    \/ Read
    \/ \E ids \in Placements(market) : Select(ids)
    \/ Snapshot

MarketSpec == MarketInit /\ [][MarketNext]_marketVars

-----------------------------------------------------------------------------
(* verify_artifact: a fresh engine with the same seed takes the recorded   *)
(* selections; every event, the final market and the counts must agree.    *)

Replayed(events) ==
    LET after[n \in 0 .. Len(events)] ==
            IF n = 0 THEN Reset ELSE Stepped(after[n - 1], events[n].requested)
    IN after

Accepted(artifact) ==
    LET events == artifact.attempts
        after == Replayed(events)
    IN /\ Len(events) <= Horizon + InvalidActionLimit - 1
       /\ \A n \in DOMAIN events :
             events[n] = Event(after[n - 1], events[n].requested, after[n])
       /\ artifact.market = after[Len(events)]
       /\ artifact.requests.select = Len(events)

-----------------------------------------------------------------------------
(* Properties.                                                             *)

(* The verifier accepts what a snapshot writes, whenever it is taken: also *)
(* after rejected selections, exhausted requests and the end. *)
LedgerVerifies == Accepted(Artifact)

(* The ledger is the whole rollout: nothing is placed after it is written, *)
(* and a snapshot that could not be written ends nothing. *)
LedgerIsFinal ==
    IF finalized THEN ledger = Artifact ELSE ledger = NoLedger

(* A broker can always place a deal, and the market never holds more       *)
(* suppliers than its cap, whoever is ruined and whoever arrives. *)
PoolIsActionable ==
    /\ Cardinality(Eligible(market)) >= DealSize
    /\ Cardinality(Eligible(market)) <= SupplierCap

(* A supplier is removed exactly when its stake is at the threshold, and   *)
(* then its last deal has failed. *)
RuinIsEarned ==
    \A i \in DOMAIN market.suppliers :
        /\ market.suppliers[i].eligible <=> market.suppliers[i].stake > SlashAmount
        /\ ~market.suppliers[i].eligible =>
              \E d \in DOMAIN market.history :
                  /\ i \in market.history[d].ids
                  /\ ~market.history[d].delivered
                  /\ \A later \in d + 1 .. Len(market.history) : i \notin market.history[later].ids

(* A rollout ends for one reason: it placed all of its deals and is scored *)
(* by them, or it used up its invalid selections first. *)
EndsForOneReason ==
    /\ market.ended = "horizon_completed" <=> Len(market.history) = Horizon
    /\ market.ended = "invalid_action_limit" <=> market.invalid = InvalidActionLimit
    /\ market.invalid <= InvalidActionLimit
=============================================================================
