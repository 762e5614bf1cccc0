----------------------------- MODULE FeedProofs -----------------------------
(***************************************************************************)
(* Theorems about the hourly market run, for every cohort, any number of   *)
(* runs and starts, and any order in which they overlap and are killed.    *)
(***************************************************************************)
EXTENDS MarketFeed, FiniteSetTheorems, SequenceTheorems, TLAPS

Latest == {"cards", "card", "copy", "latest", "parts", "silver", "index", "record", "announce"}

IsAtOneOf(r, steps) == run[r].step \in steps

(* What runs have read or are about to write is stored, whoever else goes  *)
(* on. *)
Sourced(m) == \A p \in DOMAIN m.sources : <<p, m.sources[p]>> \in offers

SilverIsStored == \A p \in Names : silver[p].rows => <<p, Edition(silver[p])>> \in offers

RunIsStored(r) ==
    /\ IsAt(r, "manifest") /\ run[r].found =>
          <<Asked(r), [run |-> r, day |-> run[r].day]>> \in offers
    /\ ToSet(run[r].base.parts) \subseteq tables
    /\ IsAtOneOf(r, {"tables", "gold"}) => run[r].mine.run = r /\ Sourced(run[r].mine)
    /\ IsAt(r, "gold") =>
          Edition(run[r].mine) \in tables /\ ToSet(run[r].mine.parts) \subseteq tables
    /\ IsAtOneOf(r, {"silver", "index"}) => ToSet(run[r].mine.parts) \subseteq public.parts

Stored == GoldIsBacked /\ SilverIsStored /\ \A r \in RunIds : RunIsStored(r)

(* A run that goes on alone finds what it has written. *)
Fresh(m) ==
    /\ \A p \in DOMAIN m.sources : m.sources[p].run = m.run
    /\ Required \subseteq DOMAIN m.sources
    /\ Cardinality(DOMAIN m.sources) >= MinimumSuccessful

Longer(parts, edition) ==
    \/ parts = gold.parts
    \/ parts = Append(gold.parts, edition) /\ ~Contains(gold.parts, edition)

Observed(r) ==
    /\ IsAtOneOf(r, {"observe", "manifest"}) =>
          run[r].good \subseteq {Providers[i] : i \in {j \in DOMAIN Providers : j < run[r].asks}}
    /\ IsAtOneOf(r, {"observe", "manifest", "base", "sources"}) =>
          \A p \in run[r].good : silver[p].run = r /\ silver[p].rows
    /\ IsAtOneOf(r, {"base", "sources"}) => Viable(r)

Built(r) ==
    /\ IsAtOneOf(r, {"tables", "gold"}) => Fresh(run[r].mine)
    /\ unread = 0 =>
          /\ IsAtOneOf(r, {"sources", "tables"}) => run[r].base = gold
          /\ IsAt(r, "gold") => Longer(run[r].mine.parts, Edition(run[r].mine))
    /\ IsAtOneOf(r, Latest) => gold.run = r

Exported(r) ==
    /\ IsAt(r, "card") => run[r].mine.run = r
    /\ IsAtOneOf(r, Latest \ {"cards", "card"}) => public.cards = r
    /\ IsAtOneOf(r, {"latest", "parts", "silver", "index"}) => run[r].mine.run = r
    /\ IsAtOneOf(r, {"parts", "silver", "index", "record", "announce"}) => public.latest = r
    /\ IsAtOneOf(r, {"index", "record", "announce"}) => public.offers = r
    /\ IsAtOneOf(r, {"record", "announce"}) => public.index.run = r

GoingCounted == Cardinality(Going) <= atOnce

Alone ==
    atOnce <= 1 =>
       /\ GoldIsFresh
       /\ \A r \in RunIds : Observed(r) /\ Built(r) /\ Exported(r)

FeedInv == FeedTypeOK /\ Stored /\ GoingCounted /\ Alone

-----------------------------------------------------------------------------
(* Sequences, manifests and processes.                                     *)

Shapes == Manifests \cup {NoGold}

Processes ==
    [step : Steps, asks : 0 .. Len(Providers) + 1, found : BOOLEAN, day : 0 .. MaxDays,
     good : SUBSET Names, base : Shapes, mine : Shapes]

(* The parts of a manifest are a sequence of editions, and it is one       *)
(* itself. *)
LEMMA ShapeFacts ==
    ASSUME NEW m \in Shapes
    PROVE  /\ m.parts \in Seq(Editions)
           /\ m.run \in RunIds => m \in Manifests /\ Edition(m) \in Editions
<1>1. CASE m \in Manifests
  BY <1>1 DEF Manifests, Edition, Editions
<1>2. CASE m = NoGold
  BY <1>2, FeedAssumption DEF NoGold
<1> QED
  BY <1>1, <1>2 DEF Shapes

(* What a sequence of editions holds with one more, and without.               *)
LEMMA AppendFacts ==
    ASSUME NEW s \in Seq(Editions), NEW r \in Editions
    PROVE  /\ Append(s, r) \in Seq(Editions)
           /\ ToSet(Append(s, r)) = ToSet(s) \cup {r}
<1>1. /\ Append(s, r) \in Seq(Editions)
      /\ Len(Append(s, r)) = Len(s) + 1
      /\ \A i \in 1 .. Len(s) : Append(s, r)[i] = s[i]
      /\ Append(s, r)[Len(s) + 1] = r
  OBVIOUS
<1>2. DOMAIN s = 1 .. Len(s) /\ DOMAIN Append(s, r) = 1 .. Len(s) + 1 /\ Len(s) \in Nat
  BY <1>1
<1>3. 1 .. Len(s) + 1 = (1 .. Len(s)) \cup {Len(s) + 1}
  BY <1>2
<1> QED
  BY <1>1, <1>2, <1>3 DEF ToSet

(* The history a run retains is the base's, with one part at its end *)
(* unless it has it. *)
LEMMA RetainedFacts ==
    ASSUME NEW s \in Seq(Editions), NEW r \in Editions
    PROVE  /\ Retained(s, r) \in Seq(Editions)
           /\ ToSet(Retained(s, r)) \subseteq ToSet(s) \cup {r}
           /\ \/ Retained(s, r) = s
              \/ Retained(s, r) = Append(s, r) /\ ~Contains(s, r)
<1>1. CASE Contains(s, r)
  BY <1>1 DEF Retained
<1>2. CASE ~Contains(s, r)
  BY <1>2, AppendFacts DEF Retained
<1> QED
  BY <1>1, <1>2

(* A process that has ended is a process.                                  *)
LEMMA EndedIsProcess == Ended \in Processes
BY FeedAssumption DEF Ended, Processes, Shapes, Steps

(* What the types say of a run, and what a step of it leaves alone.        *)
LEMMA RunFacts ==
    ASSUME FeedTypeOK, NEW r \in RunIds
    PROVE  /\ run[r] \in Processes
           /\ run \in [RunIds -> Processes]
BY DEF FeedTypeOK, Processes, Shapes

LEMMA BecomesFacts ==
    ASSUME FeedTypeOK, NEW r \in RunIds, NEW process \in Processes, RunBecomes(r, process)
    PROVE  /\ run'[r] = process
           /\ \A q \in RunIds \ {r} : run'[q] = run[q]
           /\ run' \in [RunIds -> Processes]
BY RunFacts DEF RunBecomes

-----------------------------------------------------------------------------
(* Runs that go on alone.                                                  *)

LEMMA GoingIsFinite ==
    /\ IsFiniteSet(Going)
    /\ Cardinality(Going) \in Nat
    /\ Cardinality(RunIds) \in Nat
<1>1. Going \subseteq RunIds
  BY DEF Going
<1> QED
  BY <1>1, FeedAssumption, FS_Subset, FS_CardinalityType

(* Of two runs at most one goes on where atOnce says so.                   *)
LEMMA OneGoes ==
    ASSUME FeedTypeOK, GoingCounted, atOnce <= 1,
           NEW r \in RunIds, ~IsAt(r, "over"), NEW q \in RunIds \ {r}
    PROVE  IsAt(q, "over")
<1> SUFFICES ASSUME ~IsAt(q, "over") PROVE FALSE
  OBVIOUS
<1>1. {r} \cup {q} \subseteq Going
  BY DEF Going
<1>2. IsFiniteSet({r}) /\ Cardinality({r}) = 1
  BY FS_Singleton
<1>3. Cardinality({r} \cup {q}) = 2
  <2>1. q \notin {r}
    OBVIOUS
  <2> QED
    BY <1>2, <2>1, FS_AddElement
<1>4. Cardinality({r} \cup {q}) <= Cardinality(Going)
  BY <1>1, GoingIsFinite, FS_Subset
<1>5. atOnce \in Nat
  BY GoingIsFinite DEF FeedTypeOK
<1> QED
  BY <1>3, <1>4, <1>5, GoingIsFinite DEF GoingCounted

(* A run that is over has nothing to find.                                 *)
LEMMA OverIsAlone ==
    ASSUME NEW r \in RunIds, IsAt(r, "over")
    PROVE  Observed(r) /\ Built(r) /\ Exported(r)
BY DEF Observed, Built, Exported, IsAt, IsAtOneOf, Latest

(* What is to be shown of a step of run r.                                 *)
Keeps(r) ==
    /\ FeedTypeOK'
    /\ GoldIsBacked' /\ SilverIsStored' /\ RunIsStored(r)'
    /\ offers \subseteq offers' /\ tables \subseteq tables' /\ public.parts \subseteq public'.parts
    /\ atOnce <= 1 => GoldIsFresh' /\ Observed(r)' /\ Built(r)' /\ Exported(r)'

LEMMA KeepsIsEnough ==
    ASSUME FeedInv, NEW r \in RunIds, ~IsAt(r, "over"), atOnce' = atOnce,
           NEW process \in Processes, RunBecomes(r, process), Keeps(r)
    PROVE  FeedInv'
<1>1. FeedTypeOK /\ GoingCounted
  BY DEF FeedInv
<1>2. /\ run'[r] = process
      /\ \A q \in RunIds \ {r} : run'[q] = run[q]
  BY <1>1, BecomesFacts
<1>3. GoingCounted'
  <2>1. Going' \subseteq Going
    BY <1>2 DEF Going, IsAt
  <2>2. Cardinality(Going') <= Cardinality(Going) /\ Cardinality(Going') \in Nat
    BY <2>1, GoingIsFinite, FS_Subset, FS_CardinalityType
  <2> QED
    BY <1>1, <2>2, GoingIsFinite, FeedAssumption DEF GoingCounted, FeedTypeOK
<1>4. \A q \in RunIds \ {r} : RunIsStored(q)'
  <2> SUFFICES ASSUME NEW q \in RunIds \ {r} PROVE RunIsStored(q)'
    OBVIOUS
  <2>1. RunIsStored(q) /\ run'[q] = run[q]
    BY <1>2 DEF FeedInv, Stored
  <2>2. offers \subseteq offers' /\ tables \subseteq tables' /\ public.parts \subseteq public'.parts
    BY DEF Keeps
  <2>3. IsAtOneOf(q, {"tables", "gold"})' => run'[q].mine.run = q /\ Sourced(run[q].mine)'
    BY <2>1, <2>2 DEF RunIsStored, IsAtOneOf, Sourced
  <2>4. IsAt(q, "manifest")' /\ run'[q].found => 
           <<Asked(q)', [run |-> q, day |-> run'[q].day]>> \in offers'
    BY <2>1, <2>2 DEF RunIsStored, IsAt, Asked
  <2>5. /\ ToSet(run'[q].base.parts) \subseteq tables'
        /\ IsAt(q, "gold")' =>
              Edition(run'[q].mine) \in tables' /\ ToSet(run'[q].mine.parts) \subseteq tables'
        /\ IsAtOneOf(q, {"silver", "index"})' => ToSet(run'[q].mine.parts) \subseteq public'.parts
    BY <2>1, <2>2 DEF RunIsStored, IsAt, IsAtOneOf
  <2> QED
    BY <2>1, <2>3, <2>4, <2>5 DEF RunIsStored, IsAtOneOf, Sourced
<1>5. Stored'
  BY <1>4 DEF Keeps, Stored
<1>6. Alone'
  <2> SUFFICES ASSUME atOnce <= 1
               PROVE  \A q \in RunIds : Observed(q)' /\ Built(q)' /\ Exported(q)'
    BY DEF Keeps, Alone
  <2>1. \A q \in RunIds \ {r} : IsAt(q, "over")'
    BY <1>1, <1>2, OneGoes DEF IsAt
  <2>2. \A q \in RunIds : IsAt(q, "over")' => Observed(q)' /\ Built(q)' /\ Exported(q)'
    BY DEF Observed, Built, Exported, IsAt, IsAtOneOf, Latest
  <2> QED
    BY <2>1, <2>2 DEF Keeps
<1> QED
  BY <1>3, <1>5, <1>6 DEF Keeps, FeedInv

-----------------------------------------------------------------------------
(* The steps.                                                              *)

(* A run that proceeds is a process.                                       *)
LEMMA ProceedsFacts ==
    ASSUME FeedTypeOK, NEW r \in RunIds, NEW step \in Steps, RunProceeds(r, step)
    PROVE  /\ RunBecomes(r, [run[r] EXCEPT !.step = step])
           /\ [run[r] EXCEPT !.step = step] \in Processes
BY RunFacts DEF RunProceeds, RunBecomes, Processes

(* What a step leaves stored that changes no object but the records.       *)
LEMMA SameObjects ==
    ASSUME FeedInv, UNCHANGED <<today, offers, silver, tables, gold, public, atOnce>>
    PROVE  /\ GoldIsBacked' /\ SilverIsStored'
           /\ offers \subseteq offers' /\ tables \subseteq tables'
           /\ public.parts \subseteq public'.parts
           /\ atOnce <= 1 => GoldIsFresh'
BY DEF FeedInv, Stored, Alone, GoldIsBacked, SilverIsStored, GoldIsFresh

LEMMA InitHolds == FeedInit => FeedInv
<1> SUFFICES ASSUME FeedInit PROVE FeedInv
  OBVIOUS
<1>1. \A r \in RunIds : run[r] = Ended
  BY DEF FeedInit
<1>2. ToSet(<<>>) = {}
  BY DEF ToSet
<1>3. FeedTypeOK
  <2>1. Ended \in Processes
    BY EndedIsProcess
  <2>2. run \in [RunIds -> Processes]
    BY <2>1 DEF FeedInit
  <2>3. public.index \in Shapes /\ gold \in Shapes
    BY DEF FeedInit, PublicInit, Shapes
  <2>4. /\ 0 \in 0 .. MaxStarts /\ 0 \in 0 .. MaxStops /\ 0 \in 0 .. MaxUnread
        /\ 0 \in 0 .. Cardinality(RunIds) /\ 0 \in 0 .. MaxDays /\ 1 \in Days
    BY GoingIsFinite, FeedAssumption DEF Days
  <2>5. silver \in [Names -> [run : RunIds \cup {NoRun}, day : 0 .. MaxDays, rows : BOOLEAN]]
    BY <2>4 DEF FeedInit
  <2>6. public \in [cards : RunIds \cup {NoRun}, index : Shapes, latest : RunIds \cup {NoRun},
                    offers : RunIds \cup {NoRun}, parts : SUBSET Editions,
                    announced : RunIds \cup {NoRun}]
    BY <2>3 DEF FeedInit, PublicInit
  <2> QED
    BY <2>2, <2>3, <2>4, <2>5, <2>6 DEF FeedInit, FeedTypeOK, Processes, Shapes
<1>4. Stored
  BY <1>1, <1>2 DEF FeedInit, Stored, GoldIsBacked, SilverIsStored, RunIsStored, IsAt, IsAtOneOf,
     Ended, PublicInit, NoGold
<1>5. GoingCounted
  <2>1. Going = {}
    BY <1>1 DEF Going, IsAt, Ended
  <2> QED
    BY <2>1, FS_EmptySet DEF GoingCounted, FeedInit
<1>6. Alone
  BY <1>1, OverIsAlone DEF Alone, GoldIsFresh, FeedInit, IsAt, Ended
<1> QED
  BY <1>3, <1>4, <1>5, <1>6 DEF FeedInv

LEMMA StartRunKeeps ==
    ASSUME FeedInv, NEW r \in RunIds, StartRun(r), UNCHANGED today
    PROVE  FeedInv'
<1> DEFINE process == [Ended EXCEPT !.step = "observe", !.asks = 1]
<1>1. /\ FeedTypeOK /\ GoingCounted /\ IsAt(r, "over")
      /\ UNCHANGED <<today, offers, silver, tables, gold, public>>
      /\ RunBecomes(r, process)
      /\ atOnce' = IF Cardinality(Going) >= atOnce THEN Cardinality(Going) + 1 ELSE atOnce
  BY DEF FeedInv, StartRun
<1>2. /\ process \in Processes
      /\ process.step = "observe" /\ process.asks = 1 /\ process.good = {}
      /\ process.base = NoGold /\ process.mine = NoGold
  <2>1. 1 \in 0 .. Len(Providers) + 1
    BY FeedAssumption
  <2>2. "observe" \in Steps /\ Ended \in Processes
    BY EndedIsProcess DEF Steps
  <2>3. /\ Ended.good = {} /\ Ended.base = NoGold /\ Ended.mine = NoGold
    BY DEF Ended
  <2> QED
    BY <2>1, <2>2, <2>3 DEF Processes
<1>3. /\ run'[r] = process
      /\ \A q \in RunIds \ {r} : run'[q] = run[q]
      /\ run' \in [RunIds -> Processes]
  BY <1>1, <1>2, BecomesFacts
<1>4. Going' = Going \cup {r} /\ r \notin Going
  <2>1. run'[r].step = "observe" /\ run[r].step = "over"
    BY <1>1, <1>2, <1>3 DEF IsAt
  <2> QED
    BY <1>3, <2>1 DEF Going, IsAt
<1>5. Cardinality(Going') = Cardinality(Going) + 1
  BY <1>4, GoingIsFinite, FS_AddElement
<1>6. Cardinality(Going') <= Cardinality(RunIds)
  <2>1. Going' \subseteq RunIds
    BY DEF Going
  <2> QED
    BY <2>1, FeedAssumption, FS_Subset
<1>7. atOnce' \in 0 .. Cardinality(RunIds) /\ atOnce' >= atOnce /\ Cardinality(Going') <= atOnce'
  BY <1>1, <1>5, <1>6, GoingIsFinite DEF FeedTypeOK, GoingCounted
<1>8. FeedTypeOK'
  <2>1. /\ starts < MaxStarts /\ starts' = starts + 1
        /\ UNCHANGED <<records, stops, unread>>
    BY DEF StartRun
  <2>2. starts \in 0 .. MaxStarts
    BY <1>1 DEF FeedTypeOK
  <2>3. starts' \in 0 .. MaxStarts
    BY <2>1, <2>2, FeedAssumption
  <2> QED
    BY <1>1, <1>3, <1>7, <2>1, <2>3 DEF FeedTypeOK, Processes, Shapes
<1>9. Stored'
  <2>1. ToSet(<<>>) = {}
    BY DEF ToSet
  <2>2. RunIsStored(r)'
    BY <1>2, <1>3, <2>1 DEF RunIsStored, IsAt, IsAtOneOf, NoGold
  <2>3. \A q \in RunIds \ {r} : RunIsStored(q)'
    BY <1>1, <1>3 DEF FeedInv, Stored, RunIsStored, IsAt, IsAtOneOf, Asked, Sourced
  <2> QED
    BY <1>1, <2>2, <2>3 DEF FeedInv, Stored, GoldIsBacked, SilverIsStored
<1>10. Alone'
  <2> SUFFICES ASSUME atOnce' <= 1
               PROVE  GoldIsFresh' /\ \A q \in RunIds : Observed(q)' /\ Built(q)' /\ Exported(q)'
    BY DEF Alone
  <2>1. atOnce <= 1 /\ Cardinality(Going) = 0
    BY <1>1, <1>5, <1>7, GoingIsFinite DEF FeedTypeOK
  <2>2. Going = {}
    BY <2>1, GoingIsFinite, FS_EmptySet
  <2>3. \A q \in RunIds \ {r} : IsAt(q, "over")'
    BY <1>3, <2>2 DEF Going, IsAt
  <2>4. \A q \in RunIds \ {r} : Observed(q)' /\ Built(q)' /\ Exported(q)'
    BY <2>3 DEF Observed, Built, Exported, IsAt, IsAtOneOf, Latest
  <2>5. Observed(r)' /\ Built(r)' /\ Exported(r)'
    BY <1>2, <1>3 DEF Observed, Built, Exported, IsAt, IsAtOneOf, Latest
  <2>6. GoldIsFresh'
    BY <1>1, <2>1 DEF FeedInv, Alone, GoldIsFresh
  <2> QED
    BY <2>4, <2>5, <2>6
<1> QED
  BY <1>5, <1>7, <1>8, <1>9, <1>10 DEF FeedInv, GoingCounted

LEMMA StopRunKeeps ==
    ASSUME FeedInv, NEW r \in RunIds, StopRun(r), UNCHANGED today
    PROVE  FeedInv'
<1>1. /\ FeedTypeOK /\ ~IsAt(r, "over")
      /\ UNCHANGED <<today, offers, silver, tables, gold, public, records, starts, unread, atOnce>>
      /\ RunBecomes(r, Ended)
  BY DEF FeedInv, StopRun
<1>2. Ended \in Processes
  BY EndedIsProcess
<1>3. /\ run'[r] = Ended
      /\ run' \in [RunIds -> Processes]
  BY <1>1, <1>2, BecomesFacts
<1>4. FeedTypeOK'
  <2>1. stops' \in 0 .. MaxStops
    BY FeedAssumption DEF FeedInv, FeedTypeOK, StopRun
  <2> QED
    BY <1>1, <1>3, <2>1 DEF FeedTypeOK, Processes, Shapes
<1>5. RunIsStored(r)' /\ IsAt(r, "over")'
  BY <1>3 DEF RunIsStored, IsAt, IsAtOneOf, Ended, NoGold, ToSet
<1>6. Observed(r)' /\ Built(r)' /\ Exported(r)'
  BY <1>5 DEF Observed, Built, Exported, IsAt, IsAtOneOf, Latest
<1>7. Keeps(r)
  BY <1>1, <1>4, <1>5, <1>6, SameObjects DEF Keeps
<1> QED
  BY <1>1, <1>2, <1>7, KeepsIsEnough

(* The provider that is asked is one of the cohort, and the next place is  *)
(* one of a process. *)
LEMMA AskedFacts ==
    ASSUME FeedTypeOK, NEW r \in RunIds, run[r].asks \in DOMAIN Providers
    PROVE  /\ Asked(r) \in Names
           /\ run[r].asks + 1 \in 0 .. Len(Providers) + 1
           /\ run[r].asks \in Nat
<1>1. Providers \in Seq(Names)
  BY FeedAssumption DEF Names
<1> QED
  BY <1>1 DEF Asked

LEMMA PersistOffersKeeps ==
    ASSUME FeedInv, NEW r \in RunIds, run[r].asks \in DOMAIN Providers, PersistOffers(r),
           UNCHANGED <<today, tables, gold, public, records, starts, stops, unread, atOnce>>
    PROVE  FeedInv'
<1>1. FeedTypeOK /\ IsAt(r, "observe") /\ UNCHANGED silver
  BY DEF FeedInv, PersistOffers
<1>2. PICK found \in BOOLEAN :
         /\ RunBecomes(r, [run[r] EXCEPT !.step = "manifest", !.found = found, !.day = today])
         /\ offers' = IF found THEN offers \cup {<<Asked(r), [run |-> r, day |-> today]>>}
                      ELSE offers
  BY DEF PersistOffers
<1> DEFINE process == [run[r] EXCEPT !.step = "manifest", !.found = found, !.day = today]
<1>3. /\ process \in Processes
      /\ process.step = "manifest" /\ process.found = found /\ process.asks = run[r].asks
      /\ process.day = today /\ process.good = run[r].good /\ process.base = run[r].base
  <2>1. today \in 0 .. MaxDays
    BY <1>1, FeedAssumption DEF FeedTypeOK, Days
  <2> QED
    BY <1>1, <2>1, RunFacts DEF Processes, Steps
<1>4. run'[r] = process /\ run' \in [RunIds -> Processes]
  BY <1>1, <1>2, <1>3, BecomesFacts
<1> HIDE DEF process
<1>5. FeedTypeOK'
  <2>1. offers' \subseteq Names \X Editions
    <3>1. [run |-> r, day |-> today] \in Editions
      BY <1>1 DEF FeedTypeOK, Editions
    <3> QED
      BY <1>1, <1>2, <3>1, AskedFacts DEF FeedTypeOK
  <2> QED
    BY <1>1, <1>4, <2>1 DEF FeedTypeOK, Processes, Shapes
<1>6. offers \subseteq offers'
  BY <1>2
<1>7. GoldIsBacked' /\ SilverIsStored'
  BY <1>1, <1>6 DEF FeedInv, Stored, GoldIsBacked, SilverIsStored
<1>8. RunIsStored(r)'
  BY <1>2, <1>3, <1>4 DEF FeedInv, Stored, RunIsStored, IsAt, IsAtOneOf, Asked
<1>9. ASSUME atOnce <= 1
      PROVE  GoldIsFresh' /\ Observed(r)' /\ Built(r)' /\ Exported(r)'
  <2>1. GoldIsFresh' /\ Observed(r)
    BY <1>9 DEF FeedInv, Alone, GoldIsFresh
  <2>2. Observed(r)'
    BY <1>1, <1>3, <1>4, <2>1 DEF Observed, IsAt, IsAtOneOf
  <2>3. Built(r)' /\ Exported(r)'
    BY <1>3, <1>4 DEF Built, Exported, IsAt, IsAtOneOf, Latest
  <2> QED
    BY <2>1, <2>2, <2>3
<1>10. Keeps(r)
  BY <1>5, <1>6, <1>7, <1>8, <1>9 DEF Keeps
<1> QED
  BY <1>1, <1>2, <1>3, <1>10, KeepsIsEnough DEF process, IsAt

(* Asking the next provider.                                               *)
LEMMA NextFacts ==
    ASSUME FeedTypeOK, NEW r \in RunIds, run[r].asks \in DOMAIN Providers,
           NEW good \in SUBSET Names, NextProvider(r, good)
    PROVE  /\ \E process \in Processes : RunBecomes(r, process)
           /\ run' \in [RunIds -> Processes]
           /\ run'[r].step = "observe" /\ run'[r].asks = run[r].asks + 1
           /\ run'[r].good = good /\ run'[r].base = run[r].base
<1> DEFINE process ==
       [run[r] EXCEPT !.step = "observe", !.asks = @ + 1, !.found = FALSE, !.day = 0,
                     !.good = good]
<1>1. /\ process \in Processes
      /\ process.step = "observe" /\ process.asks = run[r].asks + 1
      /\ process.good = good /\ process.base = run[r].base
  <2>1. 0 \in 0 .. MaxDays /\ "observe" \in Steps
    BY FeedAssumption DEF Steps
  <2> QED
    BY <2>1, RunFacts, AskedFacts DEF Processes
<1>2. RunBecomes(r, process)
  BY DEF NextProvider
<1>3. run'[r] = process /\ run' \in [RunIds -> Processes]
  BY <1>1, <1>2, BecomesFacts
<1> QED
  BY <1>1, <1>2, <1>3

LEMMA ProviderFailsKeeps ==
    ASSUME FeedInv, NEW r \in RunIds, run[r].asks \in DOMAIN Providers, ProviderFails(r),
           UNCHANGED <<today, tables, gold, public, records, starts, stops, unread, atOnce>>
    PROVE  FeedInv'
<1>1. /\ FeedTypeOK /\ IsAtOneOf(r, {"observe", "manifest"}) /\ NextProvider(r, run[r].good)
      /\ UNCHANGED <<offers, silver>>
  BY DEF FeedInv, ProviderFails, IsAt, IsAtOneOf
<1>2. run[r].good \in SUBSET Names
  BY <1>1, RunFacts DEF Processes
<1>3. /\ \E process \in Processes : RunBecomes(r, process)
      /\ run' \in [RunIds -> Processes]
      /\ run'[r].step = "observe" /\ run'[r].asks = run[r].asks + 1
      /\ run'[r].good = run[r].good /\ run'[r].base = run[r].base
  BY <1>1, <1>2, NextFacts
<1>4. FeedTypeOK'
  BY <1>1, <1>3 DEF FeedTypeOK, Processes, Shapes
<1>5. RunIsStored(r)'
  BY <1>1, <1>3 DEF FeedInv, Stored, RunIsStored, IsAt, IsAtOneOf
<1>6. ASSUME atOnce <= 1 PROVE Observed(r)' /\ Built(r)' /\ Exported(r)'
  <2>1. Observed(r)
    BY <1>6 DEF FeedInv, Alone
  <2>2. run[r].asks \in Nat /\ DOMAIN Providers \subseteq Nat
    BY <1>1, AskedFacts, FeedAssumption
  <2>3. \A j \in DOMAIN Providers : j < run[r].asks => j < run'[r].asks
    BY <1>3, <2>2
  <2>4. run'[r].good \subseteq {Providers[i] : i \in {j \in DOMAIN Providers : j < run'[r].asks}}
    <3>1. run[r].good \subseteq {Providers[i] : i \in {j \in DOMAIN Providers : j < run[r].asks}}
      BY <1>1, <2>1 DEF Observed, IsAtOneOf
    <3> QED
      BY <1>3, <2>3, <3>1
  <2>6. Observed(r)'
    BY <1>1, <1>3, <2>1, <2>4 DEF Observed, IsAt, IsAtOneOf
  <2>5. Built(r)' /\ Exported(r)'
    BY <1>3 DEF Built, Exported, IsAt, IsAtOneOf, Latest
  <2> QED
    BY <2>5, <2>6
<1>7. Keeps(r)
  BY <1>1, <1>4, <1>5, <1>6, SameObjects DEF Keeps
<1>8. ~IsAt(r, "over")
  BY <1>1 DEF IsAt, IsAtOneOf
<1> QED
  BY <1>3, <1>7, <1>8, KeepsIsEnough

LEMMA WriteSilverManifestKeeps ==
    ASSUME FeedInv, NEW r \in RunIds, run[r].asks \in DOMAIN Providers, WriteSilverManifest(r),
           UNCHANGED <<today, tables, gold, public, records, starts, stops, unread, atOnce>>
    PROVE  FeedInv'
<1> DEFINE good == run[r].good \cup IF run[r].found THEN {Asked(r)} ELSE {}
<1>1. /\ FeedTypeOK /\ IsAt(r, "manifest") /\ NextProvider(r, good) /\ UNCHANGED offers
      /\ silver' = [silver EXCEPT ![Asked(r)] = [run |-> r, day |-> run[r].day,
                                                  rows |-> run[r].found]]
  BY DEF FeedInv, WriteSilverManifest
<1>2. /\ good \in SUBSET Names /\ run[r].found \in BOOLEAN /\ Asked(r) \in Names
      /\ run[r].day \in 0 .. MaxDays
  BY <1>1, RunFacts, AskedFacts DEF Processes
<1>3. /\ \E process \in Processes : RunBecomes(r, process)
      /\ run' \in [RunIds -> Processes]
      /\ run'[r].step = "observe" /\ run'[r].asks = run[r].asks + 1
      /\ run'[r].good = good /\ run'[r].base = run[r].base
  BY <1>1, <1>2, NextFacts
<1>4. /\ silver' \in [Names -> [run : RunIds \cup {NoRun}, day : 0 .. MaxDays, rows : BOOLEAN]]
      /\ silver'[Asked(r)] = [run |-> r, day |-> run[r].day, rows |-> run[r].found]
      /\ \A p \in Names \ {Asked(r)} : silver'[p] = silver[p]
  BY <1>1, <1>2 DEF FeedTypeOK
<1>5. FeedTypeOK'
  BY <1>1, <1>3, <1>4 DEF FeedTypeOK, Processes, Shapes
<1>6. GoldIsBacked' /\ RunIsStored(r)'
  BY <1>1, <1>3 DEF FeedInv, Stored, GoldIsBacked, RunIsStored, IsAt, IsAtOneOf
<1>7. SilverIsStored'
  <2>1. run[r].found => <<Asked(r), Edition(silver'[Asked(r)])>> \in offers
    <3>1. Edition(silver'[Asked(r)]) = [run |-> r, day |-> run[r].day]
      BY <1>4 DEF Edition
    <3> QED
      BY <1>1, <3>1 DEF FeedInv, Stored, RunIsStored
  <2> QED
    BY <1>1, <1>4, <2>1 DEF FeedInv, Stored, SilverIsStored
<1>8. ASSUME atOnce <= 1 PROVE GoldIsFresh' /\ Observed(r)' /\ Built(r)' /\ Exported(r)'
  <2>1. Observed(r) /\ GoldIsFresh'
    BY <1>8 DEF FeedInv, Alone, GoldIsFresh
  <2>2. run[r].asks \in Nat /\ DOMAIN Providers \subseteq Nat
    BY <1>1, AskedFacts, FeedAssumption
  <2>3. run[r].good \subseteq {Providers[i] : i \in {j \in DOMAIN Providers : j < run[r].asks}}
    BY <1>1, <2>1 DEF Observed, IsAt, IsAtOneOf
  <2>4. Asked(r) \notin run[r].good
    <3> SUFFICES ASSUME NEW i \in DOMAIN Providers, i < run[r].asks, Providers[i] = Asked(r)
                 PROVE  FALSE
      BY <2>3
    <3> QED
      BY <2>2, FeedAssumption DEF Asked, IsInjective
  <2>5. \A j \in DOMAIN Providers : j <= run[r].asks => j < run'[r].asks
    BY <1>3, <2>2
  <2>6. good \subseteq {Providers[i] : i \in {j \in DOMAIN Providers : j < run'[r].asks}}
    <3> SUFFICES ASSUME NEW p \in good
                 PROVE  \E i \in DOMAIN Providers : i <= run[r].asks /\ p = Providers[i]
      BY <2>5
    <3>1. CASE p \in run[r].good
      BY <3>1, <2>2, <2>3
    <3>2. CASE p = Asked(r)
      BY <3>2, <2>2 DEF Asked
    <3> QED
      BY <3>1, <3>2
  <2>7. \A p \in good : silver'[p].run = r /\ silver'[p].rows
    <3> SUFFICES ASSUME NEW p \in good PROVE silver'[p].run = r /\ silver'[p].rows
      OBVIOUS
    <3>1. CASE p \in run[r].good
      BY <3>1, <1>1, <1>2, <1>4, <2>1, <2>4 DEF Observed, IsAt, IsAtOneOf
    <3>2. CASE p = Asked(r) /\ run[r].found
      BY <3>2, <1>2, <1>4
    <3> QED
      BY <3>1, <3>2
  <2>8. Observed(r)'
    BY <1>3, <2>6, <2>7 DEF Observed, IsAt, IsAtOneOf
  <2>9. Built(r)' /\ Exported(r)'
    BY <1>3 DEF Built, Exported, IsAt, IsAtOneOf, Latest
  <2> QED
    BY <2>1, <2>8, <2>9
<1>9. Keeps(r)
  BY <1>1, <1>5, <1>6, <1>7, <1>8 DEF Keeps
<1>10. ~IsAt(r, "over")
  BY <1>1 DEF IsAt
<1> QED
  BY <1>3, <1>9, <1>10, KeepsIsEnough

-----------------------------------------------------------------------------
(* The gold tables.                                                        *)

LEMMA JudgeKeeps ==
    ASSUME FeedInv, NEW r \in RunIds, Judge(r), UNCHANGED today
    PROVE  FeedInv'
<1>1. /\ FeedTypeOK /\ IsAt(r, "observe")
      /\ UNCHANGED <<today, offers, silver, tables, gold, public, starts, stops, unread, atOnce>>
  BY DEF FeedInv, Judge
<1>2. ~IsAt(r, "over")
  BY <1>1 DEF IsAt
<1>3. CASE Viable(r)
  <2>1. RunProceeds(r, "base") /\ UNCHANGED records /\ "base" \in Steps
    BY <1>3 DEF Judge, Steps
  <2> DEFINE process == [run[r] EXCEPT !.step = "base"]
  <2>2. process \in Processes /\ RunBecomes(r, process)
    BY <1>1, <2>1, ProceedsFacts
  <2>3. /\ run'[r] = process /\ run' \in [RunIds -> Processes]
    BY <1>1, <2>2, BecomesFacts
  <2>4. /\ process.step = "base" /\ process.good = run[r].good /\ process.base = run[r].base
    BY <1>1, RunFacts DEF Processes
  <2> HIDE DEF process
  <2>5. FeedTypeOK'
    BY <1>1, <2>1, <2>3 DEF FeedTypeOK, Processes, Shapes
  <2>6. RunIsStored(r)'
    BY <1>1, <2>3, <2>4 DEF FeedInv, Stored, RunIsStored, IsAt, IsAtOneOf
  <2>7. ASSUME atOnce <= 1 PROVE Observed(r)' /\ Built(r)' /\ Exported(r)'
    <3>1. Observed(r)
      BY <2>7 DEF FeedInv, Alone
    <3>2. Observed(r)'
      BY <1>1, <1>3, <2>3, <2>4, <3>1 DEF Observed, IsAt, IsAtOneOf, Viable
    <3>3. Built(r)' /\ Exported(r)'
      BY <2>3, <2>4 DEF Built, Exported, IsAt, IsAtOneOf, Latest
    <3> QED
      BY <3>2, <3>3
  <2>8. Keeps(r)
    BY <1>1, <2>5, <2>6, <2>7, SameObjects DEF Keeps
  <2> QED
    BY <1>1, <1>2, <2>2, <2>8, KeepsIsEnough
<1>4. CASE ~Viable(r)
  <2>1. RunBecomes(r, Ended) /\ records' = records \cup {r}
    BY <1>4 DEF Judge
  <2>2. Ended \in Processes
    BY EndedIsProcess
  <2>3. run'[r] = Ended /\ run' \in [RunIds -> Processes]
    BY <1>1, <2>1, <2>2, BecomesFacts
  <2>4. FeedTypeOK'
    BY <1>1, <2>1, <2>3 DEF FeedTypeOK, Processes, Shapes
  <2>5. RunIsStored(r)' /\ IsAt(r, "over")'
    BY <2>3 DEF RunIsStored, IsAt, IsAtOneOf, Ended, NoGold, ToSet
  <2>6. Observed(r)' /\ Built(r)' /\ Exported(r)'
    BY <2>5 DEF Observed, Built, Exported, IsAt, IsAtOneOf, Latest
  <2>7. Keeps(r)
    BY <1>1, <2>4, <2>5, <2>6, SameObjects DEF Keeps
  <2> QED
    BY <1>1, <1>2, <2>1, <2>2, <2>7, KeepsIsEnough
<1> QED
  BY <1>3, <1>4

LEMMA ReadGoldKeeps ==
    ASSUME FeedInv, NEW r \in RunIds, ReadGold(r), UNCHANGED <<tables, gold>>,
           UNCHANGED <<today, offers, silver, public, records, starts, stops, atOnce>>
    PROVE  FeedInv'
<1>1. /\ FeedTypeOK /\ IsAt(r, "base") /\ unread' \in 0 .. MaxUnread /\ unread \in 0 .. MaxUnread
  <2>1. FeedTypeOK /\ IsAt(r, "base")
    BY DEF FeedInv, ReadGold
  <2>2. unread \in 0 .. MaxUnread
    BY <2>1 DEF FeedTypeOK
  <2>3. unread' = unread \/ (unread < MaxUnread /\ unread' = unread + 1)
    BY DEF ReadGold
  <2> QED
    BY <2>1, <2>2, <2>3, FeedAssumption
<1>2. PICK base \in {gold, NoGold} :
         /\ RunBecomes(r, [run[r] EXCEPT !.step = "sources", !.base = base])
         /\ unread' = 0 => base = gold /\ unread = 0
  BY <1>1 DEF ReadGold
<1> DEFINE process == [run[r] EXCEPT !.step = "sources", !.base = base]
<1>3. base \in Shapes
  BY <1>1, <1>2 DEF FeedTypeOK, Shapes
<1>4. /\ process \in Processes
      /\ process.step = "sources" /\ process.good = run[r].good /\ process.base = base
  BY <1>1, <1>3, RunFacts DEF Processes, Steps
<1>5. run'[r] = process /\ run' \in [RunIds -> Processes]
  BY <1>1, <1>2, <1>4, BecomesFacts
<1> HIDE DEF process
<1>6. FeedTypeOK'
  BY <1>1, <1>5 DEF FeedTypeOK, Processes, Shapes
<1>7. ToSet(base.parts) \subseteq tables
  <2>1. ToSet(NoGold.parts) = {}
    BY DEF NoGold, ToSet
  <2> QED
    BY <1>2, <2>1 DEF FeedInv, Stored, GoldIsBacked
<1>8. RunIsStored(r)'
  BY <1>4, <1>5, <1>7 DEF RunIsStored, IsAt, IsAtOneOf
<1>9. ASSUME atOnce <= 1 PROVE Observed(r)' /\ Built(r)' /\ Exported(r)'
  <2>1. Observed(r)
    BY <1>9 DEF FeedInv, Alone
  <2>2. Observed(r)'
    BY <1>1, <1>4, <1>5, <2>1 DEF Observed, IsAt, IsAtOneOf, Viable
  <2>3. Built(r)' /\ Exported(r)'
    BY <1>2, <1>4, <1>5 DEF Built, Exported, IsAt, IsAtOneOf, Latest
  <2> QED
    BY <2>2, <2>3
<1>10. Keeps(r)
  BY <1>6, <1>8, <1>9, SameObjects DEF Keeps
<1> QED
  BY <1>1, <1>2, <1>4, <1>10, KeepsIsEnough DEF process, IsAt

LEMMA ReadSourcesKeeps ==
    ASSUME FeedInv, NEW r \in RunIds, ReadSources(r), UNCHANGED <<tables, gold>>,
           UNCHANGED <<today, offers, silver, public, records, starts, stops, atOnce>>
    PROVE  FeedInv'
<1> DEFINE sources == [p \in Scope(r) |-> Edition(silver[p])]
<1>0. PICK day \in {silver[p].day : p \in Scope(r)} :
         RunBecomes(r, [run[r] EXCEPT !.step = "tables",
            !.mine = [run |-> r, day |-> day, sources |-> sources, parts |-> <<>>]])
  BY DEF ReadSources
<1> DEFINE mine == [run |-> r, day |-> day, sources |-> sources, parts |-> <<>>]
           process == [run[r] EXCEPT !.step = "tables", !.mine = mine]
<1>1. /\ FeedTypeOK /\ IsAt(r, "sources") /\ UNCHANGED unread
      /\ \A p \in Scope(r) : silver[p].rows
      /\ RunBecomes(r, process)
  BY <1>0 DEF FeedInv, ReadSources
<1>2. Scope(r) \in SUBSET Names /\ Scope(r) = run[r].good
  BY <1>1, RunFacts DEF Processes, Scope
<1>3. \A p \in Scope(r) : <<p, Edition(silver[p])>> \in offers /\ Edition(silver[p]) \in Editions
  BY <1>1, <1>2 DEF FeedInv, Stored, SilverIsStored, FeedTypeOK
<1>4. /\ sources \in UNION {[scope -> Editions] : scope \in SUBSET Names}
      /\ DOMAIN sources = run[r].good
      /\ \A p \in run[r].good : sources[p] = Edition(silver[p]) /\ <<p, sources[p]>> \in offers
      /\ day \in Days
  <2>1. sources \in [Scope(r) -> Editions]
    BY <1>3
  <2>2. \A p \in Scope(r) : sources[p] = Edition(silver[p])
    OBVIOUS
  <2>3. \A p \in Scope(r) : silver[p].day \in Days
    BY <1>3 DEF Edition, Editions
  <2> QED
    BY <1>2, <1>3, <2>1, <2>2, <2>3
<1> HIDE DEF sources
<1>5. mine \in Shapes /\ mine.run = r /\ mine.sources = sources
  <2>1. <<>> \in Seq(Editions)
    OBVIOUS
  <2> QED
    BY <1>4, <2>1 DEF Shapes, Manifests
<1> HIDE DEF mine
<1>6. /\ process \in Processes
      /\ process.step = "tables" /\ process.base = run[r].base /\ process.mine = mine
  BY <1>1, <1>5, RunFacts DEF Processes, Steps
<1>7. run'[r] = process /\ run' \in [RunIds -> Processes]
  BY <1>1, <1>6, BecomesFacts
<1> HIDE DEF process
<1>8. FeedTypeOK'
  BY <1>1, <1>7 DEF FeedTypeOK, Processes, Shapes
<1>9. run'[r].mine.run = r /\ Sourced(run[r].mine)'
  BY <1>4, <1>5, <1>6, <1>7 DEF Sourced
<1>10. RunIsStored(r)'
  <2>1. ToSet(run'[r].base.parts) \subseteq tables'
    BY <1>6, <1>7 DEF FeedInv, Stored, RunIsStored
  <2> QED
    BY <1>6, <1>7, <1>9, <2>1 DEF RunIsStored, IsAt, IsAtOneOf, Sourced
<1>11. ASSUME atOnce <= 1 PROVE Observed(r)' /\ Built(r)' /\ Exported(r)'
  <2>1. Observed(r) /\ Built(r)
    BY <1>11 DEF FeedInv, Alone
  <2>2. Viable(r) /\ \A p \in run[r].good : silver[p].run = r
    BY <1>1, <2>1 DEF Observed, IsAt, IsAtOneOf
  <2>3. Fresh(mine)
    <3>1. ASSUME NEW p \in run[r].good PROVE sources[p].run = r
      <4>1. Edition(silver[p]).run = silver[p].run
        BY DEF Edition
      <4> QED
        BY <1>4, <2>2, <4>1
    <3> QED
      BY <1>4, <1>5, <2>2, <3>1 DEF Fresh, Viable
  <2>4. Built(r)'
    BY <1>1, <1>6, <1>7, <2>1, <2>3 DEF Built, Fresh, IsAt, IsAtOneOf, Latest
  <2>5. Observed(r)' /\ Exported(r)'
    BY <1>6, <1>7 DEF Observed, Exported, IsAt, IsAtOneOf, Latest
  <2> QED
    BY <2>4, <2>5
<1>12. Keeps(r)
  BY <1>8, <1>10, <1>11, SameObjects DEF Keeps
<1>13. ~IsAt(r, "over")
  BY <1>1 DEF IsAt
<1> QED
  BY <1>1, <1>6, <1>12, <1>13, KeepsIsEnough

LEMMA WriteTablesKeeps ==
    ASSUME FeedInv, NEW r \in RunIds, WriteTables(r), UNCHANGED <<gold, unread>>,
           UNCHANGED <<today, offers, silver, public, records, starts, stops, atOnce>>
    PROVE  FeedInv'
<1> DEFINE base == run[r].base
           sources == run[r].mine.sources
           edition == Edition(run[r].mine)
<1>1. FeedTypeOK /\ IsAt(r, "tables") /\ tables' = tables \cup {edition}
  BY DEF FeedInv, WriteTables
<1>2. PICK parts \in {base.parts, Retained(base.parts, edition)} :
         RunBecomes(r, [Ended EXCEPT !.step = "gold",
                                     !.mine = [run[r].mine EXCEPT !.parts = parts]])
  BY DEF WriteTables
<1> DEFINE mine == [run[r].mine EXCEPT !.parts = parts]
           process == [Ended EXCEPT !.step = "gold", !.mine = mine]
<1>3. /\ base \in Shapes /\ run[r].mine \in Shapes /\ run[r].mine.run = r
      /\ Sourced(run[r].mine) /\ ToSet(base.parts) \subseteq tables
  BY <1>1, RunFacts DEF Processes, FeedInv, Stored, RunIsStored, IsAt, IsAtOneOf
<1>4. base.parts \in Seq(Editions) /\ run[r].mine \in Manifests /\ edition \in Editions
  BY <1>3, ShapeFacts
<1>5. /\ parts \in Seq(Editions) /\ ToSet(parts) \subseteq tables'
      /\ \/ parts = base.parts
         \/ parts = Append(base.parts, edition) /\ ~Contains(base.parts, edition)
  <2>1. CASE parts = base.parts
    BY <1>1, <1>3, <1>4, <2>1
  <2>2. CASE parts = Retained(base.parts, edition)
    <3>1. /\ Retained(base.parts, edition) \in Seq(Editions)
          /\ ToSet(Retained(base.parts, edition)) \subseteq ToSet(base.parts) \cup {edition}
          /\ \/ Retained(base.parts, edition) = base.parts
             \/ /\ Retained(base.parts, edition) = Append(base.parts, edition)
                /\ ~Contains(base.parts, edition)
      BY <1>4, RetainedFacts
    <3> QED
      BY <1>1, <1>3, <2>2, <3>1
  <2> QED
    BY <1>2, <2>1, <2>2
<1>6. /\ mine \in Shapes /\ mine.run = r /\ mine.sources = sources /\ mine.parts = parts
      /\ Edition(mine) = edition
  BY <1>3, <1>4, <1>5 DEF Manifests, Shapes, Edition
<1> HIDE DEF mine
<1>7. /\ process \in Processes
      /\ process.step = "gold" /\ process.base = NoGold /\ process.mine = mine
  <2>1. Ended \in Processes /\ Ended.base = NoGold /\ "gold" \in Steps
    BY EndedIsProcess DEF Ended, Steps
  <2> QED
    BY <1>6, <2>1 DEF Processes
<1>8. RunBecomes(r, process)
  BY <1>2 DEF mine
<1>9. run'[r] = process /\ run' \in [RunIds -> Processes]
  BY <1>1, <1>7, <1>8, BecomesFacts
<1> HIDE DEF process
<1>10. FeedTypeOK'
  <2>1. tables' \subseteq Editions
    BY <1>1, <1>4 DEF FeedTypeOK
  <2> QED
    BY <1>1, <1>9, <2>1 DEF FeedTypeOK, Processes, Shapes
<1>11. GoldIsBacked' /\ SilverIsStored'
  BY <1>1 DEF FeedInv, Stored, GoldIsBacked, SilverIsStored
<1>12. RunIsStored(r)'
  <2>1. ToSet(NoGold.parts) = {}
    BY DEF NoGold, ToSet
  <2>2. run'[r].mine.run = r /\ Sourced(run[r].mine)'
    BY <1>3, <1>6, <1>7, <1>9 DEF Sourced
  <2>3. Edition(run'[r].mine) \in tables' /\ ToSet(run'[r].mine.parts) \subseteq tables'
    BY <1>1, <1>5, <1>6, <1>7, <1>9
  <2> QED
    BY <1>7, <1>9, <2>1, <2>2, <2>3 DEF RunIsStored, IsAt, IsAtOneOf, Sourced
<1>13. ASSUME atOnce <= 1 PROVE GoldIsFresh' /\ Observed(r)' /\ Built(r)' /\ Exported(r)'
  <2>1. Built(r) /\ GoldIsFresh'
    BY <1>13 DEF FeedInv, Alone, GoldIsFresh
  <2>2. Fresh(mine)
    BY <1>1, <1>3, <1>6, <2>1 DEF Built, Fresh, IsAt, IsAtOneOf
  <2>3. unread' = 0 => Longer(mine.parts, Edition(mine))
    BY <1>1, <1>5, <1>6, <2>1 DEF Built, Longer, IsAt, IsAtOneOf
  <2>4. Built(r)'
    BY <1>1, <1>7, <1>9, <2>2, <2>3 DEF Built, Fresh, Longer, IsAt, IsAtOneOf, Latest
  <2>5. Observed(r)' /\ Exported(r)'
    BY <1>7, <1>9 DEF Observed, Exported, IsAt, IsAtOneOf, Latest
  <2> QED
    BY <2>1, <2>4, <2>5
<1>14. Keeps(r)
  BY <1>1, <1>10, <1>11, <1>12, <1>13 DEF Keeps
<1>15. ~IsAt(r, "over")
  BY <1>1 DEF IsAt
<1> QED
  BY <1>7, <1>8, <1>14, <1>15, KeepsIsEnough

(* What a run leaves alone that proceeds.                                  *)
LEMMA ProceedsLeaves ==
    ASSUME FeedTypeOK, NEW r \in RunIds, NEW step \in Steps, RunProceeds(r, step)
    PROVE  /\ \E process \in Processes : RunBecomes(r, process)
           /\ run' \in [RunIds -> Processes]
           /\ run'[r].step = step
           /\ run'[r].base = run[r].base /\ run'[r].mine = run[r].mine
<1> DEFINE process == [run[r] EXCEPT !.step = step]
<1>1. process \in Processes /\ RunBecomes(r, process)
  BY ProceedsFacts
<1>2. /\ process.step = step /\ process.base = run[r].base /\ process.mine = run[r].mine
  BY RunFacts DEF Processes
<1>3. run'[r] = process /\ run' \in [RunIds -> Processes]
  BY <1>1, BecomesFacts
<1> QED
  BY <1>1, <1>2, <1>3

LEMMA WriteGoldKeeps ==
    ASSUME FeedInv, NEW r \in RunIds, WriteGold(r), UNCHANGED <<tables, unread>>,
           UNCHANGED <<today, offers, silver, public, records, starts, stops, atOnce>>
    PROVE  FeedInv'
<1>1. FeedTypeOK /\ IsAt(r, "gold") /\ gold' = run[r].mine /\ RunProceeds(r, "cards")
  BY DEF FeedInv, WriteGold
<1>2. /\ \E process \in Processes : RunBecomes(r, process)
      /\ run' \in [RunIds -> Processes]
      /\ run'[r].step = "cards" /\ run'[r].base = run[r].base
  <2>1. "cards" \in Steps
    BY DEF Steps
  <2> QED
    BY <1>1, <2>1, ProceedsLeaves
<1>3. gold' \in Shapes
  BY <1>1, RunFacts DEF Processes
<1>4. FeedTypeOK'
  BY <1>1, <1>2, <1>3 DEF FeedTypeOK, Processes, Shapes
<1>5. /\ gold'.run = r /\ Edition(gold') \in tables /\ ToSet(gold'.parts) \subseteq tables
      /\ \A p \in DOMAIN gold'.sources : <<p, gold'.sources[p]>> \in offers
  BY <1>1 DEF FeedInv, Stored, RunIsStored, IsAt, IsAtOneOf, Sourced
<1>6. GoldIsBacked' /\ SilverIsStored'
  BY <1>5 DEF FeedInv, Stored, GoldIsBacked, SilverIsStored
<1>7. RunIsStored(r)'
  BY <1>2 DEF FeedInv, Stored, RunIsStored, IsAt, IsAtOneOf
<1>8. ASSUME atOnce <= 1 PROVE GoldIsFresh' /\ Observed(r)' /\ Built(r)' /\ Exported(r)'
  <2>1. Fresh(gold')
    BY <1>1, <1>8 DEF FeedInv, Alone, Built, Fresh, IsAt, IsAtOneOf
  <2>2. GoldIsFresh'
    BY <2>1 DEF GoldIsFresh, Fresh
  <2>3. Observed(r)' /\ Built(r)' /\ Exported(r)'
    BY <1>2, <1>5 DEF Observed, Built, Exported, IsAt, IsAtOneOf, Latest
  <2> QED
    BY <2>2, <2>3
<1>9. Keeps(r)
  BY <1>4, <1>6, <1>7, <1>8 DEF Keeps
<1>10. ~IsAt(r, "over")
  BY <1>1 DEF IsAt
<1> QED
  BY <1>2, <1>9, <1>10, KeepsIsEnough

-----------------------------------------------------------------------------
(* What is served.                                                         *)

(* A step of the export leaves the private lake as it is.                  *)
LEMMA ExportLeaves ==
    ASSUME FeedInv, UNCHANGED <<today, offers, silver, tables, gold, atOnce>>,
           public.parts \subseteq public'.parts,
           ToSet(public'.index.parts) \subseteq public'.parts
    PROVE  /\ GoldIsBacked' /\ SilverIsStored'
           /\ offers \subseteq offers' /\ tables \subseteq tables'
           /\ public.parts \subseteq public'.parts
           /\ atOnce <= 1 => GoldIsFresh'
BY DEF FeedInv, Stored, Alone, GoldIsBacked, SilverIsStored, GoldIsFresh

(* The gold manifest a run reads when it goes on to a step of the export.  *)
LEMMA ReadsGold ==
    ASSUME FeedTypeOK, NEW r \in RunIds, NEW step \in Steps,
           RunBecomes(r, [run[r] EXCEPT !.step = step, !.mine = gold])
    PROVE  /\ \E process \in Processes : RunBecomes(r, process)
           /\ run' \in [RunIds -> Processes]
           /\ run'[r].step = step
           /\ run'[r].base = run[r].base /\ run'[r].mine = gold
<1> DEFINE process == [run[r] EXCEPT !.step = step, !.mine = gold]
<1>1. gold \in Shapes
  BY DEF FeedTypeOK, Shapes
<1>2. /\ process \in Processes
      /\ process.step = step /\ process.base = run[r].base /\ process.mine = gold
  BY <1>1, RunFacts DEF Processes
<1>3. run'[r] = process /\ run' \in [RunIds -> Processes]
  BY <1>2, BecomesFacts
<1> QED
  BY <1>2, <1>3

LEMMA ReadForCardsKeeps ==
    ASSUME FeedInv, NEW r \in RunIds, ReadForCards(r), UNCHANGED records,
           UNCHANGED <<today, offers, silver, tables, gold, starts, stops, unread, atOnce>>
    PROVE  FeedInv'
<1>1. /\ FeedTypeOK /\ IsAt(r, "cards") /\ UNCHANGED public
      /\ RunBecomes(r, [run[r] EXCEPT !.step = "card", !.mine = gold])
  BY DEF FeedInv, ReadForCards
<1>2. /\ \E process \in Processes : RunBecomes(r, process)
      /\ run' \in [RunIds -> Processes]
      /\ run'[r].step = "card" /\ run'[r].base = run[r].base /\ run'[r].mine = gold
  <2>1. "card" \in Steps
    BY DEF Steps
  <2> QED
    BY <1>1, <2>1, ReadsGold
<1>3. FeedTypeOK'
  BY <1>1, <1>2 DEF FeedTypeOK, Processes, Shapes
<1>4. RunIsStored(r)'
  BY <1>2 DEF FeedInv, Stored, RunIsStored, IsAt, IsAtOneOf
<1>5. ASSUME atOnce <= 1 PROVE Observed(r)' /\ Built(r)' /\ Exported(r)'
  <2>1. gold.run = r
    BY <1>1, <1>5 DEF FeedInv, Alone, Built, IsAt, IsAtOneOf, Latest
  <2> QED
    BY <1>2, <2>1 DEF Observed, Built, Exported, IsAt, IsAtOneOf, Latest
<1>6. Keeps(r)
  BY <1>1, <1>3, <1>4, <1>5, SameObjects DEF Keeps
<1>7. ~IsAt(r, "over")
  BY <1>1 DEF IsAt
<1> QED
  BY <1>2, <1>6, <1>7, KeepsIsEnough

LEMMA WriteCardsKeeps ==
    ASSUME FeedInv, NEW r \in RunIds, WriteCards(r), UNCHANGED records,
           UNCHANGED <<today, offers, silver, tables, gold, starts, stops, unread, atOnce>>
    PROVE  FeedInv'
<1>1. /\ FeedTypeOK /\ IsAt(r, "card") /\ RunProceeds(r, "copy")
      /\ public' = [public EXCEPT !.cards = run[r].mine.run]
  BY DEF FeedInv, WriteCards
<1>2. /\ \E process \in Processes : RunBecomes(r, process)
      /\ run' \in [RunIds -> Processes]
      /\ run'[r].step = "copy" /\ run'[r].base = run[r].base
  <2>1. "copy" \in Steps
    BY DEF Steps
  <2> QED
    BY <1>1, <2>1, ProceedsLeaves
<1>3. run[r].mine.run \in RunIds \cup {NoRun}
  BY <1>1, RunFacts DEF Processes, Shapes, Manifests, NoGold
<1>4. /\ public'.cards = run[r].mine.run /\ public'.parts = public.parts
      /\ public'.index = public.index
  BY <1>1 DEF FeedTypeOK
<1>5. FeedTypeOK'
  BY <1>1, <1>2, <1>3 DEF FeedTypeOK, Processes, Shapes
<1>6. RunIsStored(r)'
  BY <1>2 DEF FeedInv, Stored, RunIsStored, IsAt, IsAtOneOf
<1>7. ASSUME atOnce <= 1 PROVE Observed(r)' /\ Built(r)' /\ Exported(r)'
  <2>1. gold.run = r /\ run[r].mine.run = r
    BY <1>1, <1>7 DEF FeedInv, Alone, Built, Exported, IsAt, IsAtOneOf, Latest
  <2> QED
    BY <1>2, <1>4, <2>1 DEF Observed, Built, Exported, IsAt, IsAtOneOf, Latest
<1>8. Keeps(r)
  <2>1. ToSet(public'.index.parts) \subseteq public'.parts
    BY <1>4 DEF FeedInv, Stored, GoldIsBacked
  <2> QED
    BY <1>4, <1>5, <1>6, <1>7, <2>1, ExportLeaves DEF Keeps
<1>9. ~IsAt(r, "over")
  BY <1>1 DEF IsAt
<1> QED
  BY <1>2, <1>8, <1>9, KeepsIsEnough

LEMMA BuildPortableLakeKeeps ==
    ASSUME FeedInv, NEW r \in RunIds, BuildPortableLake(r), UNCHANGED records,
           UNCHANGED <<today, offers, silver, tables, gold, starts, stops, unread, atOnce>>
    PROVE  FeedInv'
<1>1. /\ FeedTypeOK /\ IsAt(r, "copy") /\ UNCHANGED public
      /\ RunBecomes(r, [run[r] EXCEPT !.step = "latest", !.mine = gold])
  BY DEF FeedInv, BuildPortableLake
<1>2. /\ \E process \in Processes : RunBecomes(r, process)
      /\ run' \in [RunIds -> Processes]
      /\ run'[r].step = "latest" /\ run'[r].base = run[r].base /\ run'[r].mine = gold
  <2>1. "latest" \in Steps
    BY DEF Steps
  <2> QED
    BY <1>1, <2>1, ReadsGold
<1>3. FeedTypeOK'
  BY <1>1, <1>2 DEF FeedTypeOK, Processes, Shapes
<1>4. RunIsStored(r)'
  BY <1>2 DEF FeedInv, Stored, RunIsStored, IsAt, IsAtOneOf
<1>5. ASSUME atOnce <= 1 PROVE Observed(r)' /\ Built(r)' /\ Exported(r)'
  <2>1. gold.run = r /\ public.cards = r
    BY <1>1, <1>5 DEF FeedInv, Alone, Built, Exported, IsAt, IsAtOneOf, Latest
  <2> QED
    BY <1>1, <1>2, <2>1 DEF Observed, Built, Exported, IsAt, IsAtOneOf, Latest
<1>6. Keeps(r)
  BY <1>1, <1>3, <1>4, <1>5, SameObjects DEF Keeps
<1>7. ~IsAt(r, "over")
  BY <1>1 DEF IsAt
<1> QED
  BY <1>2, <1>6, <1>7, KeepsIsEnough

LEMMA UploadManifestsKeeps ==
    ASSUME FeedInv, NEW r \in RunIds, UploadManifests(r), UNCHANGED records,
           UNCHANGED <<today, offers, silver, tables, gold, starts, stops, unread, atOnce>>
    PROVE  FeedInv'
<1>1. /\ FeedTypeOK /\ IsAt(r, "latest") /\ RunProceeds(r, "parts")
      /\ public' = [public EXCEPT !.latest = run[r].mine.run]
  BY DEF FeedInv, UploadManifests
<1>2. /\ \E process \in Processes : RunBecomes(r, process)
      /\ run' \in [RunIds -> Processes]
      /\ run'[r].step = "parts" /\ run'[r].base = run[r].base /\ run'[r].mine = run[r].mine
  <2>1. "parts" \in Steps
    BY DEF Steps
  <2> QED
    BY <1>1, <2>1, ProceedsLeaves
<1>3. run[r].mine.run \in RunIds \cup {NoRun}
  BY <1>1, RunFacts DEF Processes, Shapes, Manifests, NoGold
<1>4. /\ public'.latest = run[r].mine.run /\ public'.cards = public.cards
      /\ public'.parts = public.parts /\ public'.index = public.index
  BY <1>1 DEF FeedTypeOK
<1>5. FeedTypeOK'
  BY <1>1, <1>2, <1>3 DEF FeedTypeOK, Processes, Shapes
<1>6. RunIsStored(r)'
  BY <1>2 DEF FeedInv, Stored, RunIsStored, IsAt, IsAtOneOf
<1>7. ASSUME atOnce <= 1 PROVE Observed(r)' /\ Built(r)' /\ Exported(r)'
  <2>1. gold.run = r /\ run[r].mine.run = r /\ public.cards = r
    BY <1>1, <1>7 DEF FeedInv, Alone, Built, Exported, IsAt, IsAtOneOf, Latest
  <2> QED
    BY <1>2, <1>4, <2>1 DEF Observed, Built, Exported, IsAt, IsAtOneOf, Latest
<1>8. Keeps(r)
  <2>1. ToSet(public'.index.parts) \subseteq public'.parts
    BY <1>4 DEF FeedInv, Stored, GoldIsBacked
  <2> QED
    BY <1>4, <1>5, <1>6, <1>7, <2>1, ExportLeaves DEF Keeps
<1>9. ~IsAt(r, "over")
  BY <1>1 DEF IsAt
<1> QED
  BY <1>2, <1>8, <1>9, KeepsIsEnough

LEMMA UploadTablesKeeps ==
    ASSUME FeedInv, NEW r \in RunIds, UploadTables(r), UNCHANGED records,
           UNCHANGED <<today, offers, silver, tables, gold, starts, stops, unread, atOnce>>
    PROVE  FeedInv'
<1>1. /\ FeedTypeOK /\ IsAt(r, "parts") /\ RunProceeds(r, "silver")
      /\ public' = [public EXCEPT !.parts = @ \cup ToSet(run[r].mine.parts)]
  BY DEF FeedInv, UploadTables
<1>2. /\ \E process \in Processes : RunBecomes(r, process)
      /\ run' \in [RunIds -> Processes]
      /\ run'[r].step = "silver" /\ run'[r].base = run[r].base /\ run'[r].mine = run[r].mine
  <2>1. "silver" \in Steps
    BY DEF Steps
  <2> QED
    BY <1>1, <2>1, ProceedsLeaves
<1>3. ToSet(run[r].mine.parts) \subseteq Editions
  <2>1. run[r].mine.parts \in Seq(Editions)
    BY <1>1, RunFacts, ShapeFacts DEF Processes
  <2> QED
    BY <2>1 DEF ToSet
<1>4. /\ public'.parts = public.parts \cup ToSet(run[r].mine.parts)
      /\ public'.cards = public.cards /\ public'.latest = public.latest
      /\ public'.index = public.index
  BY <1>1 DEF FeedTypeOK
<1>5. FeedTypeOK'
  BY <1>1, <1>2, <1>3 DEF FeedTypeOK, Processes, Shapes
<1>6. RunIsStored(r)'
  BY <1>2, <1>4 DEF FeedInv, Stored, RunIsStored, IsAt, IsAtOneOf
<1>7. ASSUME atOnce <= 1 PROVE Observed(r)' /\ Built(r)' /\ Exported(r)'
  <2>1. gold.run = r /\ run[r].mine.run = r /\ public.cards = r /\ public.latest = r
    BY <1>1, <1>7 DEF FeedInv, Alone, Built, Exported, IsAt, IsAtOneOf, Latest
  <2> QED
    BY <1>2, <1>4, <2>1 DEF Observed, Built, Exported, IsAt, IsAtOneOf, Latest
<1>8. Keeps(r)
  <2>1. public.parts \subseteq public'.parts /\ ToSet(public'.index.parts) \subseteq public'.parts
    BY <1>4 DEF FeedInv, Stored, GoldIsBacked
  <2> QED
    BY <1>4, <1>5, <1>6, <1>7, <2>1, ExportLeaves DEF Keeps
<1>9. ~IsAt(r, "over")
  BY <1>1 DEF IsAt
<1> QED
  BY <1>2, <1>8, <1>9, KeepsIsEnough

LEMMA UploadSilverKeeps ==
    ASSUME FeedInv, NEW r \in RunIds, UploadSilver(r), UNCHANGED records,
           UNCHANGED <<today, offers, silver, tables, gold, starts, stops, unread, atOnce>>
    PROVE  FeedInv'
<1>1. /\ FeedTypeOK /\ IsAt(r, "silver") /\ RunProceeds(r, "index")
      /\ public' = [public EXCEPT !.offers = run[r].mine.run]
  BY DEF FeedInv, UploadSilver
<1>2. /\ \E process \in Processes : RunBecomes(r, process)
      /\ run' \in [RunIds -> Processes]
      /\ run'[r].step = "index" /\ run'[r].base = run[r].base /\ run'[r].mine = run[r].mine
  <2>1. "index" \in Steps
    BY DEF Steps
  <2> QED
    BY <1>1, <2>1, ProceedsLeaves
<1>3. run[r].mine.run \in RunIds \cup {NoRun}
  BY <1>1, RunFacts DEF Processes, Shapes, Manifests, NoGold
<1>4. /\ public'.offers = run[r].mine.run /\ public'.cards = public.cards
      /\ public'.latest = public.latest /\ public'.parts = public.parts
      /\ public'.index = public.index
  BY <1>1 DEF FeedTypeOK
<1>5. FeedTypeOK'
  BY <1>1, <1>2, <1>3 DEF FeedTypeOK, Processes, Shapes
<1>6. RunIsStored(r)'
  BY <1>1, <1>2, <1>4 DEF FeedInv, Stored, RunIsStored, IsAt, IsAtOneOf
<1>7. ASSUME atOnce <= 1 PROVE Observed(r)' /\ Built(r)' /\ Exported(r)'
  <2>1. gold.run = r /\ run[r].mine.run = r /\ public.cards = r /\ public.latest = r
    BY <1>1, <1>7 DEF FeedInv, Alone, Built, Exported, IsAt, IsAtOneOf, Latest
  <2> QED
    BY <1>2, <1>4, <2>1 DEF Observed, Built, Exported, IsAt, IsAtOneOf, Latest
<1>8. Keeps(r)
  <2>1. ToSet(public'.index.parts) \subseteq public'.parts
    BY <1>4 DEF FeedInv, Stored, GoldIsBacked
  <2> QED
    BY <1>4, <1>5, <1>6, <1>7, <2>1, ExportLeaves DEF Keeps
<1>9. ~IsAt(r, "over")
  BY <1>1 DEF IsAt
<1> QED
  BY <1>2, <1>8, <1>9, KeepsIsEnough

LEMMA UploadLakeIndexKeeps ==
    ASSUME FeedInv, NEW r \in RunIds, UploadLakeIndex(r), UNCHANGED records,
           UNCHANGED <<today, offers, silver, tables, gold, starts, stops, unread, atOnce>>
    PROVE  FeedInv'
<1>1. /\ FeedTypeOK /\ IsAt(r, "index") /\ RunProceeds(r, "record")
      /\ public' = [public EXCEPT !.index = run[r].mine]
  BY DEF FeedInv, UploadLakeIndex
<1>2. /\ \E process \in Processes : RunBecomes(r, process)
      /\ run' \in [RunIds -> Processes]
      /\ run'[r].step = "record" /\ run'[r].base = run[r].base
  <2>1. "record" \in Steps
    BY DEF Steps
  <2> QED
    BY <1>1, <2>1, ProceedsLeaves
<1>3. run[r].mine \in Shapes /\ ToSet(run[r].mine.parts) \subseteq public.parts
  BY <1>1, RunFacts DEF Processes, FeedInv, Stored, RunIsStored, IsAt, IsAtOneOf
<1>4. /\ public'.index = run[r].mine /\ public'.cards = public.cards
      /\ public'.latest = public.latest /\ public'.parts = public.parts
      /\ public'.offers = public.offers
  BY <1>1 DEF FeedTypeOK
<1>5. FeedTypeOK'
  BY <1>1, <1>2, <1>3 DEF FeedTypeOK, Processes, Shapes
<1>6. RunIsStored(r)'
  BY <1>2 DEF FeedInv, Stored, RunIsStored, IsAt, IsAtOneOf
<1>7. ASSUME atOnce <= 1 PROVE Observed(r)' /\ Built(r)' /\ Exported(r)'
  <2>1. /\ gold.run = r /\ run[r].mine.run = r /\ public.cards = r /\ public.latest = r
        /\ public.offers = r
    BY <1>1, <1>7 DEF FeedInv, Alone, Built, Exported, IsAt, IsAtOneOf, Latest
  <2> QED
    BY <1>2, <1>4, <2>1 DEF Observed, Built, Exported, IsAt, IsAtOneOf, Latest
<1>8. Keeps(r)
  <2>1. ToSet(public'.index.parts) \subseteq public'.parts
    BY <1>3, <1>4
  <2> QED
    BY <1>4, <1>5, <1>6, <1>7, <2>1, ExportLeaves DEF Keeps
<1>9. ~IsAt(r, "over")
  BY <1>1 DEF IsAt
<1> QED
  BY <1>2, <1>8, <1>9, KeepsIsEnough

LEMMA WriteRecordKeeps ==
    ASSUME FeedInv, NEW r \in RunIds, WriteRecord(r),
           UNCHANGED <<today, offers, silver, tables, gold, starts, stops, unread, atOnce>>
    PROVE  FeedInv'
<1>1. /\ FeedTypeOK /\ IsAt(r, "record") /\ RunProceeds(r, "announce") /\ UNCHANGED public
      /\ records' = records \cup {r}
  BY DEF FeedInv, WriteRecord
<1>2. /\ \E process \in Processes : RunBecomes(r, process)
      /\ run' \in [RunIds -> Processes]
      /\ run'[r].step = "announce" /\ run'[r].base = run[r].base
  <2>1. "announce" \in Steps
    BY DEF Steps
  <2> QED
    BY <1>1, <2>1, ProceedsLeaves
<1>3. FeedTypeOK'
  BY <1>1, <1>2 DEF FeedTypeOK, Processes, Shapes
<1>4. RunIsStored(r)'
  BY <1>2 DEF FeedInv, Stored, RunIsStored, IsAt, IsAtOneOf
<1>5. ASSUME atOnce <= 1 PROVE Observed(r)' /\ Built(r)' /\ Exported(r)'
  <2>1. /\ gold.run = r /\ public.cards = r /\ public.latest = r /\ public.offers = r
        /\ public.index.run = r
    BY <1>1, <1>5 DEF FeedInv, Alone, Built, Exported, IsAt, IsAtOneOf, Latest
  <2> QED
    BY <1>1, <1>2, <2>1 DEF Observed, Built, Exported, IsAt, IsAtOneOf, Latest
<1>6. Keeps(r)
  BY <1>1, <1>3, <1>4, <1>5, SameObjects DEF Keeps
<1>7. ~IsAt(r, "over")
  BY <1>1 DEF IsAt
<1> QED
  BY <1>2, <1>6, <1>7, KeepsIsEnough

(* A run that is announced is the one all of the public objects are of. *)
LEMMA AnnounceKeeps ==
    ASSUME FeedInv, NEW r \in RunIds, Announce(r), UNCHANGED records,
           UNCHANGED <<today, offers, silver, tables, gold, starts, stops, unread, atOnce>>
    PROVE  /\ FeedInv'
           /\ atOnce <= 1 =>
                 /\ public'.announced = r /\ public'.cards = r /\ public'.latest = r
                 /\ public'.offers = r /\ public'.index.run = r
<1>1. /\ FeedTypeOK /\ IsAt(r, "announce") /\ RunBecomes(r, Ended)
      /\ public' = [public EXCEPT !.announced = r]
  BY DEF FeedInv, Announce
<1>2. Ended \in Processes
  BY EndedIsProcess
<1>3. run'[r] = Ended /\ run' \in [RunIds -> Processes]
  BY <1>1, <1>2, BecomesFacts
<1>4. /\ public'.index = public.index /\ public'.cards = public.cards
      /\ public'.latest = public.latest /\ public'.parts = public.parts
      /\ public'.offers = public.offers /\ public'.announced = r
  BY <1>1 DEF FeedTypeOK
<1>5. FeedTypeOK'
  BY <1>1, <1>3 DEF FeedTypeOK, Processes, Shapes
<1>6. RunIsStored(r)' /\ IsAt(r, "over")'
  BY <1>3 DEF RunIsStored, IsAt, IsAtOneOf, Ended, NoGold, ToSet
<1>7. Observed(r)' /\ Built(r)' /\ Exported(r)'
  BY <1>6 DEF Observed, Built, Exported, IsAt, IsAtOneOf, Latest
<1>8. Keeps(r)
  <2>1. ToSet(public'.index.parts) \subseteq public'.parts
    BY <1>4 DEF FeedInv, Stored, GoldIsBacked
  <2> QED
    BY <1>4, <1>5, <1>6, <1>7, <2>1, ExportLeaves DEF Keeps
<1>9. ~IsAt(r, "over")
  BY <1>1 DEF IsAt
<1>10. FeedInv'
  BY <1>1, <1>2, <1>8, <1>9, KeepsIsEnough
<1>11. atOnce <= 1 => /\ public.cards = r /\ public.latest = r
                      /\ public.offers = r /\ public.index.run = r
  BY <1>1 DEF FeedInv, Alone, Exported, IsAt, IsAtOneOf, Latest
<1> QED
  BY <1>4, <1>10, <1>11

-----------------------------------------------------------------------------
(* The invariant, and what follows from it.                                *)

LEMMA MidnightKeeps ==
    ASSUME FeedInv, Midnight
    PROVE  FeedInv'
<1>1. /\ UNCHANGED <<offers, silver, tables, gold, public, records, run, starts, stops, unread, atOnce>>
      /\ today' \in Days
  BY FeedAssumption DEF Midnight, FeedInv, FeedTypeOK, Days
<1>2. FeedTypeOK'
  BY <1>1 DEF FeedInv, FeedTypeOK
<1>3. Stored'
  BY <1>1 DEF FeedInv, Stored, GoldIsBacked, SilverIsStored, RunIsStored, Sourced, Asked,
               IsAt, IsAtOneOf
<1>4. Going' = Going
  BY <1>1 DEF Going, IsAt
<1>5. GoldIsFresh' <=> GoldIsFresh
  BY <1>1 DEF GoldIsFresh
<1>6. \A r \in RunIds : Observed(r)' <=> Observed(r)
  BY <1>1 DEF Observed, Viable, IsAt, IsAtOneOf
<1>7. \A r \in RunIds : (Built(r)' <=> Built(r)) /\ (Exported(r)' <=> Exported(r))
  BY <1>1 DEF Built, Exported, Fresh, Longer, IsAt, IsAtOneOf
<1> QED
  BY <1>1, <1>2, <1>3, <1>4, <1>5, <1>6, <1>7 DEF FeedInv, GoingCounted, Alone

LEMMA FeedStep == FeedInv /\ [FeedNext]_feedVars => FeedInv'
<1> SUFFICES ASSUME FeedInv, [FeedNext]_feedVars PROVE FeedInv'
  OBVIOUS
<1>1. CASE UNCHANGED feedVars
  <2>1. FeedTypeOK' /\ GoingCounted'
    BY <1>1 DEF feedVars, FeedInv, FeedTypeOK, GoingCounted, Going, IsAt
  <2>2. Stored'
    BY <1>1 DEF feedVars, FeedInv, Stored, GoldIsBacked, SilverIsStored, RunIsStored, Sourced,
       Asked, IsAt, IsAtOneOf
  <2>3. Alone'
    BY <1>1 DEF feedVars, FeedInv, Alone, GoldIsFresh, Observed, Built, Exported, Fresh, Longer,
       Viable, IsAt, IsAtOneOf
  <2> QED
    BY <2>1, <2>2, <2>3 DEF FeedInv
<1>2. ASSUME NEW r \in RunIds, Observe(r), UNCHANGED today PROVE FeedInv'
  BY <1>2, PersistOffersKeeps, WriteSilverManifestKeeps, ProviderFailsKeeps DEF Observe
<1>3. ASSUME NEW r \in RunIds, BuildGold(r), UNCHANGED today PROVE FeedInv'
  BY <1>3, ReadGoldKeeps, ReadSourcesKeeps, WriteTablesKeeps, WriteGoldKeeps DEF BuildGold
<1>4. ASSUME NEW r \in RunIds, Export(r), UNCHANGED today PROVE FeedInv'
  BY <1>4, ReadForCardsKeeps, WriteCardsKeeps, BuildPortableLakeKeeps, UploadManifestsKeeps,
     UploadTablesKeeps, UploadSilverKeeps, UploadLakeIndexKeeps, WriteRecordKeeps, AnnounceKeeps
  DEF Export
<1> QED
  BY <1>1, <1>2, <1>3, <1>4, StartRunKeeps, StopRunKeeps, JudgeKeeps, MidnightKeeps
  DEF FeedNext, RunStep

LEMMA FeedInvariant == FeedSpec => []FeedInv
BY InitHolds, FeedStep, PTL DEF FeedSpec

(* Whatever runs overlap, are killed or repeated, for every cohort: the    *)
(* tables and offers the latest gold manifest names are stored, and so is  *)
(* what the portable lake's index lists. *)
THEOREM ReadersFindWhatTheyAreToldOf == FeedSpec => []GoldIsBacked
<1>1. FeedInv => GoldIsBacked
  BY DEF FeedInv, Stored
<1> QED
  BY <1>1, FeedInvariant, PTL

(* As long as one run goes on at a time, the tables are made of what their *)
(* own run has observed, and of enough of it. *)
THEOREM TablesAreOfTheirRun == FeedSpec => []GoldIsFresh
<1>1. FeedInv => GoldIsFresh
  <2> SUFFICES ASSUME FeedInv, atOnce <= 1 PROVE GoldIsFresh
    BY DEF GoldIsFresh
  <2> QED
    BY DEF FeedInv, Alone
<1> QED
  BY <1>1, FeedInvariant, PTL

(* As long as one run goes on at a time and the gold manifest can be read, *)
(* the price history keeps what it has, and gains the part of a run and a  *)
(* day it does not have. *)
THEOREM ALoneRunKeepsTheHistory == FeedSpec => LoneHistoryIsRetained
<1> DEFINE Retains ==
       \/ gold'.parts = gold.parts
       \/ gold'.parts = Append(gold.parts, Edition(gold')) /\ ~Contains(gold.parts, Edition(gold'))
<1>1. ASSUME FeedInv, NEW r \in RunIds, WriteGold(r), atOnce <= 1, unread = 0 PROVE Retains
  <2>1. IsAt(r, "gold") /\ gold' = run[r].mine
    BY <1>1 DEF WriteGold
  <2>2. Longer(run[r].mine.parts, Edition(run[r].mine))
    BY <1>1, <2>1 DEF FeedInv, Alone, Built
  <2> QED
    BY <2>1, <2>2 DEF Longer
<1>2. ASSUME FeedInv, FeedNext, atOnce <= 1, unread = 0 PROVE Retains
  <2>1. CASE Midnight
    BY <2>1 DEF Midnight
  <2>2. ASSUME NEW r \in RunIds, RunStep(r) PROVE Retains
    <3>1. WriteGold(r) \/ UNCHANGED gold
      BY <2>2 DEF RunStep, StartRun, StopRun, Observe, Judge, BuildGold, Export, WriteTables
    <3> QED
      BY <1>1, <1>2, <3>1
  <2> QED
    BY <1>2, <2>1, <2>2 DEF FeedNext
<1>3. FeedInv /\ [FeedNext]_feedVars => [(atOnce <= 1 /\ unread = 0) => Retains]_feedVars
  BY <1>2
<1> QED
  BY <1>3, FeedInvariant, PTL DEF FeedSpec, LoneHistoryIsRetained

(* As long as one run goes on at a time, a run is announced when all that  *)
(* is served is its own. *)
THEOREM AnAnnouncedRunIsServed == FeedSpec => AnnouncedIsPublished
<1> DEFINE Served ==
       /\ public'.cards = public'.announced
       /\ public'.latest = public'.announced
       /\ public'.offers = public'.announced
       /\ public'.index.run = public'.announced
<1>1. ASSUME FeedInv, NEW r \in RunIds, Export(r), UNCHANGED today, atOnce <= 1,
             public'.announced # public.announced
      PROVE  Served
  <2>1. ASSUME Announce(r) PROVE Served
    BY <1>1, <2>1, AnnounceKeeps DEF Export, WriteRecord
  <2>2. FeedTypeOK
    BY <1>1 DEF FeedInv
  <2>3. Announce(r)
    BY <1>1, <2>2 DEF Export, FeedTypeOK, WriteRecord, ReadForCards, WriteCards, BuildPortableLake,
       UploadManifests, UploadTables, UploadSilver, UploadLakeIndex
  <2> QED
    BY <2>1, <2>3
<1>2. ASSUME FeedInv, FeedNext, atOnce <= 1, public'.announced # public.announced PROVE Served
  <2>1. PICK r \in RunIds : RunStep(r)
    BY <1>2 DEF FeedNext, Midnight
  <2>2. Export(r) /\ UNCHANGED today
    BY <1>2, <2>1 DEF RunStep, StartRun, StopRun, Observe, Judge, BuildGold
  <2> QED
    BY <1>1, <1>2, <2>2
<1>3. FeedInv /\ [FeedNext]_feedVars =>
         [(atOnce <= 1 /\ public'.announced # public.announced) => Served]_feedVars
  BY <1>2
<1> QED
  BY <1>3, FeedInvariant, PTL DEF FeedSpec, AnnouncedIsPublished
=============================================================================
