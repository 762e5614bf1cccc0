---------------------------- MODULE MarketProofs ----------------------------
(***************************************************************************)
(* Proofs about BrokerMarket, for every configuration that is accepted.    *)
(* The verifier's replay is a recursive function over the ledger; it is    *)
(* followed one selection at a time, as the ledger grows.                  *)
(***************************************************************************)
EXTENDS BrokerMarket, FiniteSetTheorems, TLAPS

-----------------------------------------------------------------------------
(* What the engine keeps of its suppliers.                                 *)

(* The stake decides who may be chosen. *)
StakesDecide(m) ==
    \A i \in DOMAIN m.suppliers :
        m.suppliers[i].eligible <=> m.suppliers[i].stake > SlashAmount

(* The last deal of supplier i has failed. *)
LastFailed(m, i) ==
    \E d \in DOMAIN m.history :
        /\ i \in m.history[d].ids
        /\ ~m.history[d].delivered
        /\ \A later \in d + 1 .. Len(m.history) : i \notin m.history[later].ids

(* Whoever may not be chosen has failed last. *)
RuinFollows(m) ==
    \A i \in DOMAIN m.suppliers : ~m.suppliers[i].eligible => LastFailed(m, i)

PoolOf(m) == Cardinality(Eligible(m))

Sound(m) == m \in Markets /\ StakesDecide(m) /\ RuinFollows(m)

(* Eligible suppliers are finitely many. *)
LEMMA EligibleIsFinite ==
    ASSUME NEW m \in Markets
    PROVE  /\ IsFiniteSet(Eligible(m))
           /\ PoolOf(m) \in Nat
           /\ Eligible(m) \subseteq 1 .. Len(m.suppliers)
<1>1. m.suppliers \in Seq(Suppliers)
  BY DEF Markets
<1>2. Len(m.suppliers) \in Nat /\ DOMAIN m.suppliers = 1 .. Len(m.suppliers)
  BY <1>1
<1>3. Eligible(m) \subseteq 1 .. Len(m.suppliers)
  BY <1>2 DEF Eligible
<1>4. IsFiniteSet(1 .. Len(m.suppliers))
  BY <1>2, FS_Interval
<1> QED
  BY <1>3, <1>4, FS_Subset, FS_CardinalityType DEF PoolOf

(* Newcomers are added behind the others, and may be chosen. *)
LEMMA JoinedFacts ==
    ASSUME NEW m \in Markets, NEW n \in Nat
    PROVE  /\ Joined(m, n) \in Markets
           /\ Len(Joined(m, n).suppliers) = Len(m.suppliers) + n
           /\ \A i \in 1 .. Len(m.suppliers) : Joined(m, n).suppliers[i] = m.suppliers[i]
           /\ \A i \in Len(m.suppliers) + 1 .. Len(m.suppliers) + n :
                 Joined(m, n).suppliers[i] = NewSupplier
           /\ Joined(m, n).history = m.history
           /\ Joined(m, n).invalid = m.invalid
           /\ Joined(m, n).ended = m.ended
<1> DEFINE new == [i \in 1 .. n |-> NewSupplier]
           all == m.suppliers \o new
<1>1. m.suppliers \in Seq(Suppliers) /\ Len(m.suppliers) \in Nat
  BY DEF Markets
<1>2. NewSupplier \in Suppliers
  BY MarketAssumption DEF NewSupplier, Suppliers, ValidConfig
<1>3. new \in Seq(Suppliers) /\ Len(new) = n
  BY <1>2
<1>4. /\ all \in Seq(Suppliers)
      /\ Len(all) = Len(m.suppliers) + n
      /\ \A i \in 1 .. Len(m.suppliers) : all[i] = m.suppliers[i]
      /\ \A i \in Len(m.suppliers) + 1 .. Len(m.suppliers) + n : all[i] = new[i - Len(m.suppliers)]
  BY <1>1, <1>3
<1>5. \A i \in Len(m.suppliers) + 1 .. Len(m.suppliers) + n : all[i] = NewSupplier
  BY <1>1, <1>4
<1>6. Joined(m, n) = [m EXCEPT !.suppliers = all]
  BY DEF Joined
<1> HIDE DEF all, new
<1> QED
  BY <1>4, <1>5, <1>6 DEF Markets

(* They make the pool larger by their number. *)
LEMMA JoinedPool ==
    ASSUME NEW m \in Markets, NEW n \in Nat
    PROVE  PoolOf(Joined(m, n)) = PoolOf(m) + n
<1> DEFINE new == Len(m.suppliers) + 1 .. Len(m.suppliers) + n
<1>1. Len(m.suppliers) \in Nat /\ DOMAIN m.suppliers = 1 .. Len(m.suppliers)
  BY DEF Markets
<1>2. Joined(m, n).suppliers \in Seq(Suppliers)
  BY JoinedFacts DEF Markets
<1>3. DOMAIN Joined(m, n).suppliers = 1 .. Len(m.suppliers) + n
  BY <1>2, JoinedFacts
<1>4. NewSupplier.eligible
  BY DEF NewSupplier
<1>5. Eligible(Joined(m, n)) = Eligible(m) \cup new
  BY <1>1, <1>3, <1>4, JoinedFacts DEF Eligible
<1>6. Eligible(m) \cap new = {}
  BY <1>1, EligibleIsFinite
<1>7. IsFiniteSet(new) /\ Cardinality(new) = n
  BY <1>1, FS_Interval
<1> HIDE DEF new
<1>8. Cardinality(Eligible(m) \cap new) = 0
  BY <1>6, FS_EmptySet
<1>9. IsFiniteSet(Eligible(m)) /\ Cardinality(Eligible(m)) \in Nat
  BY EligibleIsFinite DEF PoolOf
<1>10. Cardinality(Eligible(m) \cup new)
         = Cardinality(Eligible(m)) + Cardinality(new) - Cardinality(Eligible(m) \cap new)
  BY <1>7, <1>9, FS_Union
<1>11. Cardinality(Eligible(m) \cup new) = Cardinality(Eligible(m)) + n
  BY <1>7, <1>8, <1>9, <1>10
<1> QED
  BY <1>5, <1>11 DEF PoolOf

(* A market with newcomers is as sound as before. *)
LEMMA JoinedIsSound ==
    ASSUME NEW m, Sound(m), NEW n \in Nat
    PROVE  Sound(Joined(m, n))
<1> DEFINE j == Joined(m, n)
<1>1. m \in Markets
  BY DEF Sound
<1>2. /\ Len(m.suppliers) \in Nat
      /\ DOMAIN m.suppliers = 1 .. Len(m.suppliers)
      /\ j \in Markets
      /\ j.suppliers \in Seq(Suppliers)
      /\ j.history = m.history
  BY <1>1, JoinedFacts DEF Markets
<1>3. DOMAIN j.suppliers = 1 .. Len(m.suppliers) + n
  BY <1>1, <1>2, JoinedFacts
<1>4. ASSUME NEW i \in DOMAIN j.suppliers
      PROVE  /\ j.suppliers[i].eligible <=> j.suppliers[i].stake > SlashAmount
             /\ ~j.suppliers[i].eligible => LastFailed(j, i)
  <2>1. CASE i <= Len(m.suppliers)
    <3>1. i \in DOMAIN m.suppliers /\ j.suppliers[i] = m.suppliers[i]
      BY <1>1, <1>2, <1>3, <1>4, <2>1, JoinedFacts
    <3>2. LastFailed(m, i) => LastFailed(j, i)
      BY <1>2 DEF LastFailed
    <3> QED
      BY <3>1, <3>2 DEF Sound, StakesDecide, RuinFollows
  <2>2. CASE ~(i <= Len(m.suppliers))
    <3>1. j.suppliers[i] = NewSupplier
      BY <1>1, <1>2, <1>3, <1>4, <2>2, JoinedFacts
    <3> QED
      BY <3>1, MarketAssumption DEF NewSupplier, ValidConfig
  <2> QED
    BY <2>1, <2>2
<1> QED
  BY <1>2, <1>4 DEF Sound, StakesDecide, RuinFollows

-----------------------------------------------------------------------------
(* A deal.                                                                 *)

(* A stake stays a natural number, and decides as before.                  *)
LEMMA SettledFacts ==
    ASSUME NEW x \in Suppliers, x.eligible, x.stake > SlashAmount, NEW delivered \in BOOLEAN
    PROVE  /\ Settled(x, delivered) \in Suppliers
           /\ Settled(x, delivered).eligible <=> Settled(x, delivered).stake > SlashAmount
           /\ ~Settled(x, delivered).eligible => ~delivered
<1>1. /\ SlashAmount \in Nat /\ MinimumStake \in Nat /\ InitialStake \in Nat
      /\ RewardAmount \in Nat /\ InitialStake > SlashAmount
  BY MarketAssumption DEF ValidConfig
<1>2. x.stake \in Nat
  BY DEF Suppliers
<1>3. CASE delivered
  <2> DEFINE stake == AtMost(InitialStake, x.stake + RewardAmount)
  <2>1. stake \in Nat /\ stake > SlashAmount
    BY <1>1, <1>2 DEF AtMost
  <2>2. Settled(x, delivered) = [x EXCEPT !.stake = stake]
    BY <1>3 DEF Settled
  <2> HIDE DEF stake
  <2> QED
    BY <1>3, <2>1, <2>2 DEF Suppliers
<1>4. CASE ~delivered
  <2>1. Slashed(x.stake) \in Nat
    BY <1>1, <1>2 DEF Slashed
  <2>2. (Slashed(x.stake) > SlashAmount) \in BOOLEAN
    OBVIOUS
  <2>3. Settled(x, delivered) = [stake |-> Slashed(x.stake),
                                 eligible |-> Slashed(x.stake) > SlashAmount]
    BY <1>4 DEF Settled
  <2> QED
    BY <1>4, <2>1, <2>2, <2>3 DEF Suppliers
<1> QED
  BY <1>3, <1>4

(* A deal moves the stakes of its suppliers and is remembered.             *)
LEMMA DealtFacts ==
    ASSUME NEW m, Sound(m), NEW ids, Valid(m, ids), NEW delivered \in BOOLEAN
    PROVE  /\ Sound(Dealt(m, ids, delivered))
           /\ PoolOf(Dealt(m, ids, delivered)) <= PoolOf(m)
           /\ Len(Dealt(m, ids, delivered).history) = Len(m.history) + 1
           /\ Dealt(m, ids, delivered).invalid = m.invalid
           /\ Dealt(m, ids, delivered).ended = m.ended
<1> DEFINE d == Dealt(m, ids, delivered)
           after == [i \in DOMAIN m.suppliers |->
                        IF i \in ids THEN Settled(m.suppliers[i], delivered) ELSE m.suppliers[i]]
           deal == [ids |-> ids, delivered |-> delivered]
<1>1. /\ m \in Markets
      /\ m.suppliers \in Seq(Suppliers) /\ m.history \in Seq(Deals)
      /\ Len(m.suppliers) \in Nat /\ Len(m.history) \in Nat
      /\ DOMAIN m.suppliers = 1 .. Len(m.suppliers)
  BY DEF Sound, Markets
<1>2. ids \subseteq Eligible(m) /\ ids \subseteq 1 .. Len(m.suppliers)
  BY <1>1, EligibleIsFinite DEF Valid
<1>3. deal \in Deals
  BY <1>2 DEF Deals
<1>4. d = [m EXCEPT !.suppliers = after, !.history = Append(m.history, deal)]
  BY DEF Dealt
<1>5. ASSUME NEW i \in DOMAIN m.suppliers, i \in ids
      PROVE  /\ after[i] \in Suppliers
             /\ after[i].eligible <=> after[i].stake > SlashAmount
             /\ ~after[i].eligible => ~delivered
             /\ m.suppliers[i].eligible
  <2>1. m.suppliers[i] \in Suppliers /\ m.suppliers[i].eligible
    BY <1>1, <1>2, <1>5 DEF Eligible
  <2>2. m.suppliers[i].stake > SlashAmount
    BY <2>1 DEF Sound, StakesDecide
  <2>3. after[i] = Settled(m.suppliers[i], delivered)
    BY <1>5
  <2> HIDE DEF after
  <2> QED
    BY <2>1, <2>2, <2>3, SettledFacts
<1>6. \A i \in DOMAIN m.suppliers : i \notin ids => after[i] = m.suppliers[i]
  OBVIOUS
<1>7. DOMAIN after = 1 .. Len(m.suppliers) /\ after = [i \in DOMAIN after |-> after[i]]
  BY <1>1
<1> HIDE DEF after
<1>8. /\ after \in Seq(Suppliers)
      /\ Len(after) = Len(m.suppliers)
      /\ DOMAIN after = DOMAIN m.suppliers
  <2>1. \A i \in DOMAIN m.suppliers : after[i] \in Suppliers
    BY <1>1, <1>5, <1>6
  <2>2. after \in [1 .. Len(m.suppliers) -> Suppliers]
    BY <1>1, <1>7, <2>1
  <2> QED
    BY <1>1, <2>2
<1>9. /\ Append(m.history, deal) \in Seq(Deals)
      /\ Len(Append(m.history, deal)) = Len(m.history) + 1
      /\ Append(m.history, deal)[Len(m.history) + 1] = deal
      /\ \A k \in 1 .. Len(m.history) : Append(m.history, deal)[k] = m.history[k]
  BY <1>1, <1>3
<1>10. /\ d \in Markets
       /\ d.suppliers = after /\ d.history = Append(m.history, deal)
       /\ d.invalid = m.invalid /\ d.ended = m.ended
  BY <1>1, <1>4, <1>8, <1>9 DEF Markets
<1> HIDE DEF d
<1>11. StakesDecide(d)
  BY <1>5, <1>6, <1>8, <1>10 DEF StakesDecide, Sound
<1>12. ASSUME NEW i \in DOMAIN d.suppliers, ~d.suppliers[i].eligible PROVE LastFailed(d, i)
  <2>1. CASE i \in ids
    <3>1. ~delivered
      BY <1>5, <1>8, <1>10, <1>12, <2>1
    <3>2. /\ Len(d.history) = Len(m.history) + 1
          /\ d.history[Len(d.history)] = deal
          /\ Len(d.history) \in DOMAIN d.history
      BY <1>1, <1>9, <1>10
    <3>3. Len(d.history) + 1 .. Len(d.history) = {}
      BY <1>1, <3>2
    <3> QED
      BY <2>1, <3>1, <3>2, <3>3 DEF LastFailed
  <2>2. CASE i \notin ids
    <3>1. i \in DOMAIN m.suppliers /\ ~m.suppliers[i].eligible
      BY <1>6, <1>8, <1>10, <1>12, <2>2
    <3>2. PICK k \in DOMAIN m.history :
             /\ i \in m.history[k].ids
             /\ ~m.history[k].delivered
             /\ \A later \in k + 1 .. Len(m.history) : i \notin m.history[later].ids
      BY <3>1 DEF Sound, RuinFollows, LastFailed
    <3>3. k \in 1 .. Len(m.history) /\ k \in DOMAIN d.history /\ d.history[k] = m.history[k]
      BY <1>1, <1>9, <1>10, <3>2
    <3>4. ASSUME NEW later \in k + 1 .. Len(d.history) PROVE i \notin d.history[later].ids
      <4>1. CASE later = Len(m.history) + 1
        BY <1>9, <1>10, <2>2, <4>1
      <4>2. CASE later # Len(m.history) + 1
        <5>1. later \in k + 1 .. Len(m.history) /\ later \in 1 .. Len(m.history)
          BY <1>1, <1>9, <1>10, <3>3, <3>4, <4>2
        <5> QED
          BY <1>9, <1>10, <3>2, <5>1
      <4> QED
        BY <4>1, <4>2
    <3> QED
      BY <3>2, <3>3, <3>4 DEF LastFailed
  <2> QED
    BY <2>1, <2>2
<1>13. Eligible(d) \subseteq Eligible(m)
  BY <1>5, <1>6, <1>8, <1>10 DEF Eligible
<1>14. PoolOf(d) <= PoolOf(m)
  BY <1>1, <1>13, EligibleIsFinite, FS_Subset DEF PoolOf
<1> QED
  BY <1>9, <1>10, <1>11, <1>12, <1>14 DEF Sound, RuinFollows, d

-----------------------------------------------------------------------------
(* A whole step.                                                           *)

(* Arrivals stay under the cap, and the pool is refilled.                  *)
LEMMA SuppliedFacts ==
    ASSUME NEW m, Sound(m), PoolOf(m) <= SupplierCap
    PROVE  LET supplied == Replenished(Arrived(m))
           IN  /\ Sound(supplied)
               /\ PoolOf(supplied) >= DealSize
               /\ PoolOf(supplied) <= SupplierCap
               /\ supplied.history = m.history
               /\ supplied.invalid = m.invalid
               /\ supplied.ended = m.ended
<1> DEFINE a == Arrived(m)
<1>1. /\ DealSize \in Nat /\ SupplierCap \in Nat /\ DealSize <= SupplierCap
  BY MarketAssumption DEF ValidConfig
<1>2. /\ Sound(a) /\ PoolOf(a) <= SupplierCap
      /\ a.history = m.history /\ a.invalid = m.invalid /\ a.ended = m.ended
  <2>1. m \in Markets /\ PoolOf(m) \in Nat
    BY EligibleIsFinite DEF Sound
  <2>2. CASE a = Joined(m, 1) /\ PoolOf(m) < SupplierCap
    <3>1. PoolOf(a) = PoolOf(m) + 1
      BY <2>1, <2>2, JoinedPool
    <3>2. Sound(a)
      BY <2>2, JoinedIsSound
    <3>3. a.history = m.history /\ a.invalid = m.invalid /\ a.ended = m.ended
      <4>1. 1 \in Nat
        OBVIOUS
      <4>2. /\ Joined(m, 1).history = m.history
            /\ Joined(m, 1).invalid = m.invalid
            /\ Joined(m, 1).ended = m.ended
        BY <2>1, <4>1, JoinedFacts
      <4> HIDE DEF a
      <4> QED
        BY <2>2, <4>2
    <3> HIDE DEF a
    <3> QED
      BY <1>1, <2>1, <2>2, <3>1, <3>2, <3>3
  <2>3. CASE a = m
    BY <2>3
  <2> QED
    BY <2>2, <2>3 DEF Arrived, PoolOf
<1> HIDE DEF a
<1>3. a \in Markets /\ PoolOf(a) \in Nat
  BY <1>2, EligibleIsFinite DEF Sound
<1>4. CASE PoolOf(a) < DealSize
  <2>1. Replenished(a) = Joined(a, DealSize - PoolOf(a)) /\ DealSize - PoolOf(a) \in Nat
    BY <1>1, <1>3, <1>4 DEF Replenished, PoolOf
  <2>2. PoolOf(Replenished(a)) = DealSize
    BY <1>1, <1>3, <2>1, JoinedPool
  <2>3. /\ Sound(Replenished(a))
        /\ Replenished(a).history = a.history
        /\ Replenished(a).invalid = a.invalid
        /\ Replenished(a).ended = a.ended
    BY <1>2, <1>3, <2>1, JoinedFacts, JoinedIsSound
  <2> QED
    BY <1>1, <1>2, <2>2, <2>3 DEF a
<1>5. CASE PoolOf(a) >= DealSize
  <2>1. Replenished(a) = a
    BY <1>1, <1>3, <1>5 DEF Replenished, PoolOf
  <2> QED
    BY <1>2, <1>5, <2>1 DEF a
<1> QED
  BY <1>1, <1>3, <1>4, <1>5

(* How the rollout stands. *)
Standing(m) ==
    /\ Sound(m)
    /\ PoolOf(m) >= DealSize
    /\ PoolOf(m) <= SupplierCap
    /\ Len(m.history) <= Horizon
    /\ m.ended = "horizon_completed" <=> Len(m.history) = Horizon
    /\ m.ended = "invalid_action_limit" <=> m.invalid = InvalidActionLimit
    /\ m.invalid <= InvalidActionLimit

Marked(m, invalid, ended) == [m EXCEPT !.invalid = invalid, !.ended = ended]

(* Only how it ended, and the invalid selections, are changed.             *)
LEMMA OnlyMarked ==
    ASSUME NEW m, Sound(m), NEW ended \in Reasons, NEW invalid \in Nat
    PROVE  /\ Sound(Marked(m, invalid, ended))
           /\ PoolOf(Marked(m, invalid, ended)) = PoolOf(m)
           /\ Marked(m, invalid, ended).history = m.history
           /\ Marked(m, invalid, ended).invalid = invalid
           /\ Marked(m, invalid, ended).ended = ended
<1> DEFINE n == Marked(m, invalid, ended)
<1>1. /\ n \in Markets /\ n.suppliers = m.suppliers /\ n.history = m.history
      /\ n.invalid = invalid /\ n.ended = ended
  BY DEF Sound, Markets, Marked
<1> HIDE DEF n
<1>2. StakesDecide(n) /\ RuinFollows(n)
  BY <1>1 DEF Sound, StakesDecide, RuinFollows, LastFailed
<1>3. Eligible(n) = Eligible(m)
  BY <1>1 DEF Eligible
<1> QED
  BY <1>1, <1>2, <1>3 DEF Sound, PoolOf, n

(* The selections a market has taken. *)
Attempted(m) == Len(m.history) + m.invalid

(* A selection, accepted or not, leaves a market that stands, and is       *)
(* counted once: as a deal or as an invalid action. *)
LEMMA SteppedStands ==
    ASSUME NEW m, Standing(m), m.ended = "none",
           seed \in [1 .. Horizon -> BOOLEAN],
           NEW ids
    PROVE  /\ Standing(Stepped(m, ids))
           /\ Attempted(Stepped(m, ids)) = Attempted(m) + 1
<1>1. /\ Sound(m) /\ m \in Markets
      /\ Len(m.history) \in Nat /\ m.invalid \in Nat
      /\ Len(m.history) < Horizon
      /\ m.invalid < InvalidActionLimit
      /\ Horizon \in Nat \ {0} /\ InvalidActionLimit \in Nat \ {0}
      /\ PoolOf(m) \in Nat
  <2>1. Horizon \in Nat \ {0} /\ InvalidActionLimit \in Nat \ {0}
    BY MarketAssumption DEF ValidConfig
  <2>2. m \in Markets /\ Len(m.history) \in Nat /\ m.invalid \in Nat
    BY DEF Standing, Sound, Markets
  <2> QED
    BY <2>1, <2>2, EligibleIsFinite DEF Standing
<1>2. CASE Valid(m, ids)
  <2> DEFINE delivered == seed[Len(m.history) + 1]
             dealt == Dealt(m, ids, delivered)
             supplied == Replenished(Arrived(dealt))
  <2>1. delivered \in BOOLEAN
    BY <1>1
  <2> HIDE DEF delivered
  <2>2. /\ Sound(dealt)
        /\ PoolOf(dealt) <= PoolOf(m)
        /\ Len(dealt.history) = Len(m.history) + 1
        /\ dealt.invalid = m.invalid
        /\ dealt.ended = m.ended
    BY <1>1, <1>2, <2>1, DealtFacts
  <2> HIDE DEF dealt
  <2>3. PoolOf(dealt) <= SupplierCap
    <3>1. PoolOf(dealt) \in Nat /\ SupplierCap \in Nat
      BY <2>2, EligibleIsFinite, MarketAssumption DEF Sound, ValidConfig
    <3> QED
      BY <1>1, <2>2, <3>1 DEF Standing
  <2>4. /\ Sound(supplied)
        /\ PoolOf(supplied) >= DealSize
        /\ PoolOf(supplied) <= SupplierCap
        /\ supplied.history = dealt.history
        /\ supplied.invalid = dealt.invalid
        /\ supplied.ended = dealt.ended
    BY <2>2, <2>3, SuppliedFacts
  <2>5. Stepped(m, ids) = IF Len(supplied.history) = Horizon
                          THEN [supplied EXCEPT !.ended = "horizon_completed"]
                          ELSE supplied
    BY <1>2 DEF Stepped, Placed, dealt, delivered
  <2> HIDE DEF supplied
  <2>6. CASE Len(supplied.history) = Horizon
    <3> DEFINE n == [supplied EXCEPT !.ended = "horizon_completed"]
    <3>1. n = Marked(supplied, supplied.invalid, "horizon_completed")
      BY <2>4 DEF Sound, Markets, Marked
    <3>2. supplied.invalid \in Nat /\ "horizon_completed" \in Reasons
      BY <1>1, <2>2, <2>4 DEF Reasons
    <3>3. /\ Sound(n) /\ PoolOf(n) = PoolOf(supplied) /\ n.history = supplied.history
          /\ n.invalid = supplied.invalid /\ n.ended = "horizon_completed"
      <4> HIDE DEF n
      <4> QED
        BY <2>4, <3>1, <3>2, OnlyMarked
    <3> HIDE DEF n
    <3> QED
      BY <1>1, <2>2, <2>4, <2>5, <2>6, <3>3 DEF Standing, Attempted, n
  <2>7. CASE Len(supplied.history) # Horizon
    <3>1. Standing(supplied)
      BY <1>1, <2>2, <2>4, <2>7 DEF Standing
    <3>2. Attempted(supplied) = Attempted(m) + 1
      BY <1>1, <2>2, <2>4 DEF Attempted
    <3> QED
      BY <2>5, <2>7, <3>1, <3>2
  <2> QED
    BY <2>6, <2>7
<1>3. CASE ~Valid(m, ids)
  <2> DEFINE invalid == m.invalid + 1
             ended == IF invalid >= InvalidActionLimit THEN "invalid_action_limit" ELSE m.ended
             n == Reject(m)
  <2>1. n = Marked(m, invalid, ended)
    BY DEF Reject, Marked
  <2>2. /\ ended \in Reasons
        /\ invalid \in Nat /\ invalid <= InvalidActionLimit
        /\ ended = "invalid_action_limit" <=> invalid = InvalidActionLimit
        /\ ended # "horizon_completed"
    BY <1>1 DEF Reasons
  <2> HIDE DEF invalid, ended, n
  <2>3. /\ Sound(n) /\ PoolOf(n) = PoolOf(m) /\ n.history = m.history
        /\ n.invalid = invalid /\ n.ended = ended
    <3>1. Sound(m) /\ ended \in Reasons /\ invalid \in Nat
      BY <1>1, <2>2
    <3>2. /\ Sound(Marked(m, invalid, ended))
          /\ PoolOf(Marked(m, invalid, ended)) = PoolOf(m)
          /\ Marked(m, invalid, ended).history = m.history
          /\ Marked(m, invalid, ended).invalid = invalid
          /\ Marked(m, invalid, ended).ended = ended
      BY <3>1, OnlyMarked
    <3> QED
      BY <2>1, <3>2
  <2>4. Standing(n) /\ Attempted(n) = Attempted(m) + 1
    BY <1>1, <2>2, <2>3 DEF Standing, Attempted, invalid
  <2> QED
    BY <1>3, <2>4 DEF Stepped, n
<1> QED
  BY <1>2, <1>3

-----------------------------------------------------------------------------
(* The service.                                                            *)

(* The market stands, and the ledger is the rollout. *)
MarketInv ==
    /\ seed \in [1 .. Horizon -> BOOLEAN]
    /\ Standing(market)
    /\ LedgerIsFinal

(* A new market stands. *)
LEMMA MarketStarts == MarketInit => MarketInv
<1> SUFFICES ASSUME MarketInit PROVE MarketInv
  OBVIOUS
<1> DEFINE first == [i \in 1 .. InitialSuppliers |-> NewSupplier]
<1>1. /\ InitialSuppliers \in Nat /\ DealSize \in Nat /\ SupplierCap \in Nat
      /\ InitialSuppliers >= DealSize /\ SupplierCap >= InitialSuppliers
      /\ Horizon \in Nat \ {0} /\ InvalidActionLimit \in Nat \ {0}
      /\ InitialStake > SlashAmount
  BY MarketAssumption DEF ValidConfig
<1>2. NewSupplier \in Suppliers /\ NewSupplier.eligible /\ NewSupplier.stake = InitialStake
  BY MarketAssumption DEF NewSupplier, Suppliers, ValidConfig
<1>3. /\ first \in Seq(Suppliers)
      /\ Len(first) = InitialSuppliers
      /\ DOMAIN first = 1 .. InitialSuppliers
      /\ \A i \in 1 .. InitialSuppliers : first[i] = NewSupplier
  BY <1>1, <1>2
<1> HIDE DEF first
<1>4. market = [suppliers |-> first, history |-> <<>>, invalid |-> 0, ended |-> "none"]
  BY DEF MarketInit, Reset, first
<1>5. /\ market.suppliers = first /\ market.history = <<>>
      /\ market.invalid = 0 /\ market.ended = "none"
      /\ market \in Markets
  BY <1>3, <1>4 DEF Markets, Reasons
<1>6. Sound(market)
  BY <1>1, <1>2, <1>3, <1>5 DEF Sound, StakesDecide, RuinFollows
<1>7. Eligible(market) = 1 .. InitialSuppliers
  BY <1>2, <1>3, <1>5 DEF Eligible
<1>8. PoolOf(market) = InitialSuppliers
  BY <1>1, <1>7, FS_Interval DEF PoolOf
<1>9. Standing(market)
  BY <1>1, <1>5, <1>6, <1>8 DEF Standing
<1> QED
  BY <1>9 DEF MarketInit, MarketInv, LedgerIsFinal

(* Every request leaves it standing, and none changes a written ledger.    *)
LEMMA MarketStep == MarketInv /\ [MarketNext]_marketVars => MarketInv'
<1> SUFFICES ASSUME MarketInv, [MarketNext]_marketVars PROVE MarketInv'
  OBVIOUS
<1>1. CASE Read
  BY <1>1 DEF Read, MarketInv, LedgerIsFinal
<1>2. ASSUME NEW ids, Select(ids) PROVE MarketInv'
  <2>1. /\ market' = Stepped(market, ids) /\ market.ended = "none"
        /\ ~finalized
        /\ UNCHANGED <<seed, finalized, ledger>>
    BY <1>2 DEF Select
  <2>2. Standing(Stepped(market, ids))
    BY <2>1, SteppedStands DEF MarketInv
  <2>3. Standing(market)' <=> Standing(market')
    BY DEF Standing, Sound, StakesDecide, RuinFollows, LastFailed, PoolOf, Eligible
  <2> QED
    BY <2>1, <2>2, <2>3 DEF MarketInv, LedgerIsFinal
<1>3. CASE Snapshot
  BY <1>3 DEF Snapshot, MarketInv, LedgerIsFinal, Artifact
<1>4. CASE UNCHANGED marketVars
  BY <1>4 DEF marketVars, MarketInv, LedgerIsFinal, Artifact
<1> QED
  BY <1>1, <1>2, <1>3, <1>4 DEF MarketNext

(* The invariant holds always.                                             *)
LEMMA MarketInvariant == MarketSpec => []MarketInv
BY MarketStarts, MarketStep, PTL DEF MarketSpec

(* Whoever is ruined and whoever arrives, a deal can be placed, and the    *)
(* market holds no more suppliers than its cap. *)
THEOREM ABrokerCanAlwaysPlace == MarketSpec => []PoolIsActionable
<1>1. MarketInv => PoolIsActionable
  BY DEF MarketInv, Standing, PoolOf, PoolIsActionable
<1> QED
  BY <1>1, MarketInvariant, PTL

(* Suppliers are removed at the threshold of ruin and not elsewhere, by a  *)
(* failed deal that is their last. *)
THEOREM NobodyIsRuinedForNothing == MarketSpec => []RuinIsEarned
<1>1. MarketInv => RuinIsEarned
  BY DEF MarketInv, Standing, Sound, StakesDecide, RuinFollows, LastFailed, RuinIsEarned
<1> QED
  BY <1>1, MarketInvariant, PTL

(* A rollout ends by its horizon or by its invalid selections, not by      *)
(* both. *)
THEOREM ARolloutEndsOnce == MarketSpec => []EndsForOneReason
<1>1. MarketInv => EndsForOneReason
  BY DEF MarketInv, Standing, EndsForOneReason
<1> QED
  BY <1>1, MarketInvariant, PTL

(* The ledger that is written is the whole rollout.                        *)
THEOREM TheLedgerIsTheRollout == MarketSpec => []LedgerIsFinal
<1>1. MarketInv => LedgerIsFinal
  BY DEF MarketInv
<1> QED
  BY <1>1, MarketInvariant, PTL

-----------------------------------------------------------------------------
(* The replay.                                                             *)

(* f takes a fresh market through the selections of events. *)
Replays(f, events) ==
    f = [n \in 0 .. Len(events) |->
            IF n = 0 THEN Reset ELSE Stepped(f[n - 1], events[n].requested)]

(* Every event says what its selection did in the replay f. *)
Agrees(f, events) ==
    \A n \in DOMAIN events : events[n] = Event(f[n - 1], events[n].requested, f[n])

Events == {Event(m, ids, n) : m \in Markets, ids \in SUBSET Nat, n \in Markets}

(* Every replay of the ledger agrees with it and ends where the market is; *)
(* there is one, and no selection is missing from the counts. *)
ReplayInv ==
    /\ attempts \in Seq(Events)
    /\ Len(attempts) = Attempted(market)
    /\ requests.select = Len(attempts)
    /\ \E f : Replays(f, attempts)
    /\ \A f : Replays(f, attempts) => Agrees(f, attempts) /\ f[Len(attempts)] = market

(* The verifier's function is a replay when there is one. *)
LEMMA ReplayedReplays ==
    ASSUME NEW events, NEW f, Replays(f, events)
    PROVE  Replays(Replayed(events), events)
BY DEF Replays, Replayed

(* A replay is continued by the next selection. *)
LEMMA ReplayGoesOn ==
    ASSUME NEW events \in Seq(Events), NEW e \in Events, NEW f, Replays(f, events)
    PROVE  \E g : Replays(g, Append(events, e))
<1> DEFINE k == Len(events)
           more == Append(events, e)
           g == [n \in 0 .. k + 1 |->
                    IF n <= k THEN f[n] ELSE Stepped(f[k], e.requested)]
<1>1. /\ k \in Nat /\ Len(more) = k + 1 /\ more[k + 1] = e
      /\ \A n \in 1 .. k : more[n] = events[n]
  OBVIOUS
<1>2. f = [n \in 0 .. k |-> IF n = 0 THEN Reset ELSE Stepped(f[n - 1], events[n].requested)]
  BY DEF Replays
<1> HIDE DEF more, k
<1>3. ASSUME NEW n \in 0 .. k + 1
      PROVE  g[n] = IF n = 0 THEN Reset ELSE Stepped(g[n - 1], more[n].requested)
  <2>1. CASE n = 0
    BY <1>1, <1>2, <2>1
  <2>2. CASE n \in 1 .. k
    <3>1. g[n] = f[n] /\ g[n - 1] = f[n - 1] /\ more[n] = events[n]
      BY <1>1, <2>2
    <3> HIDE DEF g
    <3>2. n \in 0 .. k /\ n # 0
      BY <1>1, <2>2
    <3>3. f[n] = Stepped(f[n - 1], events[n].requested)
      BY <1>2, <3>2
    <3> QED
      BY <3>1, <3>2, <3>3
  <2>3. CASE n = k + 1
    <3>1. g[n] = Stepped(f[k], e.requested) /\ g[n - 1] = f[k] /\ more[n] = e
      BY <1>1, <2>3
    <3> HIDE DEF g
    <3> QED
      BY <1>1, <2>3, <3>1
  <2> QED
    BY <1>1, <2>1, <2>2, <2>3
<1>4. g = [n \in 0 .. k + 1 |-> IF n = 0 THEN Reset ELSE Stepped(g[n - 1], more[n].requested)]
  BY <1>3
<1> HIDE DEF g
<1>5. Replays(g, more)
  BY <1>1, <1>4 DEF Replays
<1> QED
  BY <1>5 DEF more

(* And a replay of more selections is one of the first of them. *)
LEMMA ReplayWasOne ==
    ASSUME NEW events \in Seq(Events), NEW e \in Events,
           NEW g, Replays(g, Append(events, e))
    PROVE  \E f : /\ Replays(f, events)
                  /\ \A n \in 0 .. Len(events) : g[n] = f[n]
                  /\ g[Len(events) + 1] = Stepped(f[Len(events)], e.requested)
<1> DEFINE k == Len(events)
           more == Append(events, e)
           f == [n \in 0 .. k |-> g[n]]
<1>1. /\ k \in Nat /\ Len(more) = k + 1 /\ more[k + 1] = e
      /\ \A n \in 1 .. k : more[n] = events[n]
  OBVIOUS
<1>2. g = [n \in 0 .. k + 1 |-> IF n = 0 THEN Reset ELSE Stepped(g[n - 1], more[n].requested)]
  BY <1>1 DEF Replays
<1> HIDE DEF more, k
<1>3. ASSUME NEW n \in 0 .. k
      PROVE  f[n] = IF n = 0 THEN Reset ELSE Stepped(f[n - 1], events[n].requested)
  <2>1. CASE n = 0
    BY <1>1, <1>2, <2>1
  <2>2. CASE n \in 1 .. k
    <3>1. f[n] = g[n] /\ f[n - 1] = g[n - 1] /\ more[n] = events[n]
      BY <1>1, <2>2
    <3>2. g[n] = Stepped(g[n - 1], more[n].requested)
      BY <1>1, <1>2, <2>2
    <3> HIDE DEF f
    <3> QED
      BY <2>2, <3>1, <3>2
  <2> QED
    BY <1>1, <2>1, <2>2
<1>4. f = [n \in 0 .. k |-> IF n = 0 THEN Reset ELSE Stepped(f[n - 1], events[n].requested)]
  BY <1>3
<1>5. (\A n \in 0 .. k : g[n] = f[n]) /\ g[k + 1] = Stepped(f[k], e.requested)
  BY <1>1, <1>2
<1> HIDE DEF f
<1>6. Replays(f, events)
  BY <1>4 DEF Replays, k
<1> QED
  BY <1>5, <1>6 DEF k

LEMMA ReplayStarts == MarketInit => ReplayInv
<1> SUFFICES ASSUME MarketInit PROVE ReplayInv
  OBVIOUS
<1>1. attempts = <<>> /\ market = Reset /\ requests.select = 0
  BY DEF MarketInit
<1>2. attempts \in Seq(Events) /\ Len(attempts) = 0 /\ Len(attempts) = Attempted(market)
  BY <1>1 DEF Attempted, Reset
<1>3. \E f : Replays(f, attempts)
  <2> DEFINE f == [n \in 0 .. 0 |-> Reset]
  <2>1. f = [n \in 0 .. 0 |-> IF n = 0 THEN Reset ELSE Stepped(f[n - 1], attempts[n].requested)]
    OBVIOUS
  <2> QED
    BY <1>2, <2>1 DEF Replays
<1>4. ASSUME NEW f, Replays(f, attempts)
      PROVE  Agrees(f, attempts) /\ f[Len(attempts)] = market
  BY <1>1, <1>2, <1>4 DEF Replays, Agrees
<1> QED
  BY <1>1, <1>2, <1>3, <1>4 DEF ReplayInv

(* A replay depends on the seed, and the seed is drawn once. *)
LEMMA ReplaySeed ==
    ASSUME UNCHANGED seed
    PROVE  \A f : Replays(f, attempts)' <=> Replays(f, attempts')
BY DEF Replays, Stepped, Placed

(* A selection is one more event of the ledger and of its replay. *)
LEMMA SelectReplays ==
    ASSUME MarketInv, ReplayInv, NEW ids \in Placements(market), Select(ids)
    PROVE  ReplayInv'
<1> DEFINE k == Len(attempts)
           e == Event(market, ids, Stepped(market, ids))
<1>1. /\ market' = Stepped(market, ids)
      /\ attempts' = Append(attempts, e)
      /\ requests'.select = requests.select + 1
  BY DEF Select, Counted
<1>2. e \in Events /\ e.requested = ids
  <2>1. Standing(market) /\ Standing(Stepped(market, ids))
    BY SteppedStands DEF MarketInv, Select
  <2>2. market \in Markets /\ Stepped(market, ids) \in Markets
    BY <2>1 DEF Standing, Sound
  <2>3. ids \in SUBSET Nat
    <3>1. Len(market.suppliers) \in Nat
      BY <2>2 DEF Markets
    <3> QED
      BY <3>1 DEF Placements
  <2>4. e \in Events
    BY <2>2, <2>3 DEF Events
  <2>5. e.requested = ids
    BY DEF Event
  <2> QED
    BY <2>4, <2>5
<1>3. Attempted(Stepped(market, ids)) = Attempted(market) + 1
  BY SteppedStands DEF MarketInv, Select
<1> HIDE DEF e
<1>4. /\ attempts \in Seq(Events) /\ k \in Nat
      /\ attempts' \in Seq(Events) /\ Len(attempts') = k + 1
      /\ DOMAIN attempts' = 1 .. k + 1 /\ DOMAIN attempts = 1 .. k
      /\ attempts'[k + 1] = e
      /\ \A n \in 1 .. k : attempts'[n] = attempts[n]
  BY <1>1, <1>2 DEF ReplayInv
<1>5. Len(attempts') = Attempted(market)' /\ requests'.select = Len(attempts')
  BY <1>1, <1>3, <1>4 DEF ReplayInv, Attempted
<1>6. \E f : Replays(f, attempts')
  <2>1. PICK f : Replays(f, attempts)
    BY DEF ReplayInv
  <2> QED
    BY <1>1, <1>2, <1>4, <2>1, ReplayGoesOn
<1>7. ASSUME NEW g, Replays(g, attempts')
      PROVE  Agrees(g, attempts') /\ g[Len(attempts')] = market'
  <2>1. PICK f : /\ Replays(f, attempts)
                 /\ \A n \in 0 .. k : g[n] = f[n]
                 /\ g[k + 1] = Stepped(f[k], e.requested)
    BY <1>1, <1>2, <1>4, <1>7, ReplayWasOne
  <2>2. Agrees(f, attempts) /\ f[k] = market
    BY <2>1 DEF ReplayInv
  <2>3. g[k] = market /\ g[k + 1] = market'
    BY <1>1, <1>2, <1>4, <2>1, <2>2
  <2>4. ASSUME NEW n \in 1 .. k + 1
        PROVE  attempts'[n] = Event(g[n - 1], attempts'[n].requested, g[n])
    <3>1. CASE n = k + 1
      BY <1>1, <1>2, <1>4, <2>3, <3>1 DEF e
    <3>2. CASE n \in 1 .. k
      <4>1. g[n] = f[n] /\ g[n - 1] = f[n - 1] /\ attempts'[n] = attempts[n]
        BY <1>4, <2>1, <3>2
      <4> QED
        BY <1>4, <2>2, <3>2, <4>1 DEF Agrees
    <3> QED
      BY <1>4, <3>1, <3>2
  <2> QED
    BY <1>4, <2>3, <2>4 DEF Agrees
<1>8. \A f : Replays(f, attempts)' <=> Replays(f, attempts')
  BY ReplaySeed DEF Select
<1> QED
  BY <1>4, <1>5, <1>6, <1>7, <1>8 DEF ReplayInv, Agrees

LEMMA ReplayStep == MarketInv /\ ReplayInv /\ [MarketNext]_marketVars => ReplayInv'
<1> SUFFICES ASSUME MarketInv, ReplayInv, [MarketNext]_marketVars PROVE ReplayInv'
  OBVIOUS
<1>1. CASE UNCHANGED <<seed, market, attempts>> /\ requests'.select = requests.select
  <2>1. \A f : Replays(f, attempts)' <=> Replays(f, attempts')
    BY <1>1, ReplaySeed
  <2> QED
    BY <1>1, <2>1 DEF ReplayInv, Attempted, Agrees
<1>2. CASE Read
  <2>1. requests'.select = requests.select + 0 /\ UNCHANGED <<seed, market, attempts>>
    BY <1>2 DEF Read, Counted
  <2>2. requests.select \in Nat
    BY DEF ReplayInv
  <2> QED
    BY <1>1, <2>1, <2>2
<1>3. CASE \E ids \in Placements(market) : Select(ids)
  BY <1>3, SelectReplays
<1> QED
  BY <1>1, <1>2, <1>3 DEF MarketNext, Snapshot, marketVars

(* The verifier accepts the ledger of every rollout, whenever it is        *)
(* written: its replay reaches the market the service holds, by every      *)
(* event the service recorded, and it counts no selection too many.        *)
THEOREM TheVerifierAcceptsTheLedger == MarketSpec => []LedgerVerifies
<1>1. MarketSpec => []ReplayInv
  BY ReplayStarts, ReplayStep, MarketInvariant, PTL DEF MarketSpec
<1>2. MarketInv /\ ReplayInv => LedgerVerifies
  <2> SUFFICES ASSUME MarketInv, ReplayInv PROVE LedgerVerifies
    OBVIOUS
  <2>1. Replays(Replayed(attempts), attempts)
    BY ReplayedReplays DEF ReplayInv
  <2>2. Agrees(Replayed(attempts), attempts) /\ Replayed(attempts)[Len(attempts)] = market
    BY <2>1 DEF ReplayInv
  <2>3. Len(attempts) <= Horizon + InvalidActionLimit - 1
    <3>1. Horizon \in Nat \ {0} /\ InvalidActionLimit \in Nat \ {0}
      BY MarketAssumption DEF ValidConfig
    <3>2. /\ Len(market.history) \in Nat /\ market.invalid \in Nat
      BY DEF MarketInv, Standing, Sound, Markets
    <3> QED
      BY <3>1, <3>2 DEF MarketInv, Standing, ReplayInv, Attempted
  <2> QED
    BY <2>2, <2>3 DEF LedgerVerifies, Accepted, Artifact, Agrees, ReplayInv
<1> QED
  BY <1>1, <1>2, MarketInvariant, PTL
=============================================================================
