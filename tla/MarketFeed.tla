----------------------------- MODULE MarketFeed -----------------------------
(***************************************************************************)
(* The hourly market run: it observes every provider, builds the gold      *)
(* tables, and publishes the cards, the portable lake and its own record.  *)
(*                                                                         *)
(* Nothing serialises runs: a schedule starts them, and operators do.  One *)
(* that was killed may be started again under its id.  Every object is     *)
(* replaced as a whole by one put, so an action is what lies between two   *)
(* of them that others can tell apart.                                     *)
(*                                                                         *)
(* Offers, tables and the parts of the price history are named by the run  *)
(* and the UTC day it observed on: together an edition.  The portable lake *)
(* has immutable objects, named like the private ones, and some that each  *)
(* publication replaces.                                                   *)
(***************************************************************************)
EXTENDS Naturals, Sequences, FiniteSets, SequencesExt

CONSTANTS
    Providers,           \* provider_scope, in the order they are asked
    Required,            \* required_providers
    MinimumSuccessful,   \* minimum_successful_providers
    RunIds,              \* market_run_ids
    NoRun,               \* what is absent
    MaxDays,             \* bound: UTC days
    MaxStarts,           \* bound: runs started in all
    MaxStops,            \* bound: runs that are killed
    MaxUnread            \* bound: reads of the gold manifest that fail

ASSUME FeedAssumption ==
    /\ Providers \in Seq(ToSet(Providers)) /\ IsInjective(Providers)
    /\ Required \subseteq ToSet(Providers)
    /\ MinimumSuccessful \in 1 .. Len(Providers)
    /\ IsFiniteSet(RunIds) /\ NoRun \notin RunIds
    /\ MaxDays \in Nat \ {0}
    /\ MaxStarts \in Nat
    /\ MaxStops \in Nat
    /\ MaxUnread \in Nat

VARIABLES
    today,         \* the UTC day
    offers,        \* the normalized offers stored: provider and edition
    silver,        \* provider -> its latest manifest
    tables,        \* the editions whose gold tables are stored
    gold,          \* the latest gold manifest
    public,        \* what is served
    records,       \* the runs that have a manifest of their own
    run,           \* run id -> what its process is doing
    starts, stops, unread,
    atOnce         \* history: the most runs that have gone on at the same time

feedVars == <<today, offers, silver, tables, gold, public, records, run, starts, stops, unread, atOnce>>

Names == ToSet(Providers)

Days == 1 .. MaxDays
Editions == [run : RunIds, day : Days]
Edition(m) == [run |-> m.run, day |-> m.day]      \* of what a run has stored

Manifests ==
    [run : RunIds, day : Days, sources : UNION {[scope -> Editions] : scope \in SUBSET Names},
     parts : Seq(Editions)]
NoGold == [run |-> NoRun, day |-> 0, sources |-> <<>>, parts |-> <<>>]

(* cards: the run of manifest.json and of the cards; index: the manifest   *)
(* the portable lake's index was made of; latest, offers: the run of the   *)
(* objects each publication replaces; parts: the immutable ones;           *)
(* announced: market-run.json. *)
PublicInit ==
    [cards |-> NoRun, index |-> NoGold, latest |-> NoRun, offers |-> NoRun, parts |-> {},
     announced |-> NoRun]

Steps == {"over", "observe", "manifest", "base", "sources", "tables", "gold", "cards", "card",
          "copy", "latest", "parts", "silver", "index", "record", "announce"}

(* asks: the place of the provider it asks, found: whether that one has    *)
(* offers, and day: when it was asked; good: those that had; base: the     *)
(* gold manifest that was read; mine: the one that is being made, or       *)
(* exported. *)
Ended == [step |-> "over", asks |-> 0, found |-> FALSE, day |-> 0, good |-> {},
          base |-> NoGold, mine |-> NoGold]

FeedInit ==
    /\ today = 1
    /\ offers = {}
    /\ silver = [p \in Names |-> [run |-> NoRun, day |-> 0, rows |-> FALSE]]
    /\ tables = {}
    /\ gold = NoGold
    /\ public = PublicInit
    /\ records = {}
    /\ run = [r \in RunIds |-> Ended]
    /\ starts = 0
    /\ stops = 0
    /\ unread = 0
    /\ atOnce = 0

IsAt(r, step) == run[r].step = step
Going == {r \in RunIds : ~IsAt(r, "over")}

RunBecomes(r, process) == run' = [run EXCEPT ![r] = process]
RunProceeds(r, step) == run' = [run EXCEPT ![r].step = step]

-----------------------------------------------------------------------------
StartRun(r) ==
    /\ IsAt(r, "over")
    /\ starts < MaxStarts
    /\ starts' = starts + 1
    /\ RunBecomes(r, [Ended EXCEPT !.step = "observe", !.asks = 1])
    /\ atOnce' = IF Cardinality(Going) >= atOnce THEN Cardinality(Going) + 1 ELSE atOnce
    /\ UNCHANGED <<offers, silver, tables, gold, public, records, stops, unread>>

(* The process is killed, or something it does not catch is raised.        *)
StopRun(r) ==
    /\ ~IsAt(r, "over")
    /\ stops < MaxStops
    /\ stops' = stops + 1
    /\ RunBecomes(r, Ended)
    /\ UNCHANGED <<offers, silver, tables, gold, public, records, starts, unread, atOnce>>

-----------------------------------------------------------------------------
(* _ingest_market_provider.                                                *)

Asked(r) == Providers[run[r].asks]

NextProvider(r, good) ==
    RunBecomes(r, [run[r] EXCEPT !.step = "observe", !.asks = @ + 1, !.found = FALSE, !.day = 0,
                               !.good = good])

(* The offers of a provider are stored, if it has any. *)
PersistOffers(r) ==
    /\ IsAt(r, "observe")
    /\ \E found \in BOOLEAN :
          /\ RunBecomes(r, [run[r] EXCEPT !.step = "manifest", !.found = found, !.day = today])
          /\ offers' = IF found THEN offers \cup {<<Asked(r), [run |-> r, day |-> today]>>}
                       ELSE offers
    /\ UNCHANGED silver

(* Its manifest becomes the latest, also without offers. *)
WriteSilverManifest(r) ==
    /\ IsAt(r, "manifest")
    /\ silver' = [silver EXCEPT ![Asked(r)] = [run |-> r, day |-> run[r].day,
                                               rows |-> run[r].found]]
    /\ NextProvider(r, run[r].good \cup IF run[r].found THEN {Asked(r)} ELSE {})
    /\ UNCHANGED offers

(* A provider that raises fails alone: before its offers are stored, or    *)
(* after, when an event cannot be sent. *)
ProviderFails(r) ==
    /\ IsAt(r, "observe") \/ IsAt(r, "manifest")
    /\ NextProvider(r, run[r].good)
    /\ UNCHANGED <<offers, silver>>

Observe(r) ==
    /\ run[r].asks \in DOMAIN Providers
    /\ PersistOffers(r) \/ WriteSilverManifest(r) \/ ProviderFails(r)
    /\ UNCHANGED <<tables, gold, public, records, starts, stops, unread, atOnce>>

(* The cohort's publication policy. *)
Viable(r) == Cardinality(run[r].good) >= MinimumSuccessful /\ Required \subseteq run[r].good

(* A cohort that fails it ends the run, with a record of its own. *)
Judge(r) ==
    /\ IsAt(r, "observe")
    /\ run[r].asks \notin DOMAIN Providers
    /\ IF Viable(r)
       THEN RunProceeds(r, "base") /\ UNCHANGED records
       ELSE RunBecomes(r, Ended) /\ records' = records \cup {r}
    /\ UNCHANGED <<offers, silver, tables, gold, public, starts, stops, unread, atOnce>>

-----------------------------------------------------------------------------
(* build_gold_market_tables.                                               *)

(* The latest gold manifest is read; a failure to read it is taken for its *)
(* absence. *)
ReadGold(r) ==
    /\ IsAt(r, "base")
    /\ \/ RunBecomes(r, [run[r] EXCEPT !.step = "sources", !.base = gold]) /\ UNCHANGED unread
       \/ /\ unread < MaxUnread
          /\ unread' = unread + 1
          /\ RunBecomes(r, [run[r] EXCEPT !.step = "sources", !.base = NoGold])

\* Mutant of Scope: every provider of the cohort that has offers.
ScopeOfAll(r) == {p \in Names : silver[p].rows}

(* The providers a run makes its tables of. *)
Scope(r) == run[r].good

(* Their latest manifests are read: another run may have replaced them.    *)
(* The day of the run's tables is the last of theirs. *)
ReadSources(r) ==
    /\ IsAt(r, "sources")
    /\ \A p \in Scope(r) : silver[p].rows
    /\ \E day \in {silver[p].day : p \in Scope(r)} :
          /\ \A p \in Scope(r) : silver[p].day <= day
          /\ RunBecomes(r, [run[r] EXCEPT !.step = "tables",
                !.mine = [run |-> r, day |-> day,
                          sources |-> [p \in Scope(r) |-> Edition(silver[p])], parts |-> <<>>]])
    /\ UNCHANGED unread

\* Mutant of Retained: a run that is repeated is appended again.
RetainedAgain(parts, part) == Append(parts, part)

(* retained_history_refs: a part the history has is not added again. *)
Retained(parts, part) == IF Contains(parts, part) THEN parts ELSE Append(parts, part)

(* The history is what the base has, and the part of this run and day      *)
(* unless it priced nothing.                                               *)
WriteTables(r) ==
    /\ IsAt(r, "tables")
    /\ tables' = tables \cup {Edition(run[r].mine)}
    /\ \E parts \in {run[r].base.parts, Retained(run[r].base.parts, Edition(run[r].mine))} :
          RunBecomes(r, [Ended EXCEPT !.step = "gold", !.mine = [run[r].mine EXCEPT !.parts = parts]])

WriteGold(r) ==
    /\ IsAt(r, "gold")
    /\ gold' = run[r].mine
    /\ RunProceeds(r, "cards")

BuildGold(r) ==
    /\ \/ ReadGold(r) /\ UNCHANGED <<tables, gold>>
       \/ ReadSources(r) /\ UNCHANGED <<tables, gold>>
       \/ WriteTables(r) /\ UNCHANGED <<gold, unread>>
       \/ WriteGold(r) /\ UNCHANGED <<tables, unread>>
    /\ UNCHANGED <<offers, silver, public, records, starts, stops, atOnce>>

-----------------------------------------------------------------------------
(* What is served.  Cards and portable lake are made of the gold manifest  *)
(* that is the latest then. *)

ReadForCards(r) ==
    /\ IsAt(r, "cards")
    /\ RunBecomes(r, [run[r] EXCEPT !.step = "card", !.mine = gold])
    /\ UNCHANGED public

WriteCards(r) ==
    /\ IsAt(r, "card")
    /\ public' = [public EXCEPT !.cards = run[r].mine.run]
    /\ RunProceeds(r, "copy")

\* Mutant of BuildPortableLake: a lake that cannot be built is left out.
BuildPortableLakeOrGoOn(r) ==
    /\ IsAt(r, "copy")
    /\ RunBecomes(r, [run[r] EXCEPT !.step = IF gold.parts = <<>> THEN "record" ELSE "latest",
                                    !.mine = gold])
    /\ UNCHANGED public

(* build_portable_lake, in a directory of its own; a lake without history  *)
(* cannot be built. *)
BuildPortableLake(r) ==
    /\ IsAt(r, "copy")
    /\ gold.parts # <<>>
    /\ RunBecomes(r, [run[r] EXCEPT !.step = "latest", !.mine = gold])
    /\ UNCHANGED public

\* Mutant of UploadManifests: what each publication replaces is uploaded, and then the index.
UploadManifestsAndIndex(r) ==
    /\ IsAt(r, "latest")
    /\ public' = [public EXCEPT !.latest = run[r].mine.run, !.index = run[r].mine]
    /\ RunProceeds(r, "parts")

(* publish_portable_lake uploads in the order of the names: the manifests, *)
UploadManifests(r) ==
    /\ IsAt(r, "latest")
    /\ public' = [public EXCEPT !.latest = run[r].mine.run]
    /\ RunProceeds(r, "parts")

(* the gold tables with all of the history,                                *)
UploadTables(r) ==
    /\ IsAt(r, "parts")
    /\ public' = [public EXCEPT !.parts = @ \cup ToSet(run[r].mine.parts)]
    /\ RunProceeds(r, "silver")

(* the offers, under names without a run,                                  *)
UploadSilver(r) ==
    /\ IsAt(r, "silver")
    /\ public' = [public EXCEPT !.offers = run[r].mine.run]
    /\ RunProceeds(r, "index")

(* and the index at the end.                                               *)
UploadLakeIndex(r) ==
    /\ IsAt(r, "index")
    /\ public' = [public EXCEPT !.index = run[r].mine]
    /\ RunProceeds(r, "record")

WriteRecord(r) ==
    /\ IsAt(r, "record")
    /\ records' = records \cup {r}
    /\ RunProceeds(r, "announce")
    /\ UNCHANGED public

(* write_public_market_run_snapshots *)
Announce(r) ==
    /\ IsAt(r, "announce")
    /\ public' = [public EXCEPT !.announced = r]
    /\ RunBecomes(r, Ended)

Export(r) ==
    /\ \/ WriteRecord(r)
       \/ /\ \/ ReadForCards(r) \/ WriteCards(r)
             \/ BuildPortableLake(r) \/ UploadManifests(r) \/ UploadTables(r) \/ UploadSilver(r)
             \/ UploadLakeIndex(r)
             \/ Announce(r)
          /\ UNCHANGED records
    /\ UNCHANGED <<offers, silver, tables, gold, starts, stops, unread, atOnce>>

Midnight ==
    /\ today < MaxDays
    /\ today' = today + 1
    /\ UNCHANGED <<offers, silver, tables, gold, public, records, run, starts, stops, unread, atOnce>>

RunStep(r) ==
    /\ \/ StartRun(r) \/ StopRun(r)
       \/ Observe(r) \/ Judge(r)
       \/ BuildGold(r)
       \/ Export(r)
    /\ UNCHANGED today

FeedNext == Midnight \/ \E r \in RunIds : RunStep(r)

FeedSpec == FeedInit /\ [][FeedNext]_feedVars

-----------------------------------------------------------------------------
(* Properties.                                                             *)

(* The feed keeps its types. *)
FeedTypeOK ==
    /\ today \in Days
    /\ offers \subseteq Names \X Editions
    /\ silver \in [Names -> [run : RunIds \cup {NoRun}, day : 0 .. MaxDays, rows : BOOLEAN]]
    /\ tables \subseteq Editions
    /\ gold \in Manifests \cup {NoGold}
    /\ public \in [cards : RunIds \cup {NoRun}, index : Manifests \cup {NoGold},
                   latest : RunIds \cup {NoRun}, offers : RunIds \cup {NoRun},
                   parts : SUBSET Editions, announced : RunIds \cup {NoRun}]
    /\ records \subseteq RunIds
    /\ run \in [RunIds -> [step : Steps, asks : 0 .. Len(Providers) + 1, found : BOOLEAN,
                          day : 0 .. MaxDays, good : SUBSET Names, base : Manifests \cup {NoGold},
                          mine : Manifests \cup {NoGold}]]
    /\ starts \in 0 .. MaxStarts
    /\ stops \in 0 .. MaxStops
    /\ unread \in 0 .. MaxUnread
    /\ atOnce \in 0 .. Cardinality(RunIds)

(* Whatever runs overlap or are killed, what a reader is pointed to is     *)
(* there: the tables and the offers the latest gold manifest names, and    *)
(* the history the index of the portable lake lists. *)
GoldIsBacked ==
    /\ gold # NoGold =>
          /\ Edition(gold) \in tables
          /\ ToSet(gold.parts) \subseteq tables
          /\ \A p \in DOMAIN gold.sources : <<p, gold.sources[p]>> \in offers
    /\ ToSet(public.index.parts) \subseteq public.parts

(* As long as one run goes on at a time, and none takes a failed read for  *)
(* a market without history, the price history only grows, and has no part *)
(* twice: a run adds one part for a day it observes on at most, also when  *)
(* it was killed and is repeated.  (Repeated on another day it adds        *)
(* another part.) *)
LoneHistoryIsRetained ==
    [][(atOnce <= 1 /\ unread = 0) =>
          \/ gold'.parts = gold.parts
          \/ /\ gold'.parts = Append(gold.parts, Edition(gold'))
             /\ ~Contains(gold.parts, Edition(gold'))]_feedVars

(* As long as one run goes on at a time, the tables are made of what their *)
(* own run has observed, and of enough of it. *)
GoldIsFresh ==
    (atOnce <= 1 /\ gold # NoGold) =>
       /\ \A p \in DOMAIN gold.sources : gold.sources[p].run = gold.run
       /\ Required \subseteq DOMAIN gold.sources
       /\ Cardinality(DOMAIN gold.sources) >= MinimumSuccessful

(* As long as one run goes on at a time, a run is announced when the       *)
(* cards, the portable lake's manifest, its offers and its index are its   *)
(* own. *)
AnnouncedIsPublished ==
    [][(atOnce <= 1 /\ public'.announced # public.announced) =>
          /\ public'.cards = public'.announced
          /\ public'.latest = public'.announced
          /\ public'.offers = public'.announced
          /\ public'.index.run = public'.announced]_feedVars
=============================================================================
