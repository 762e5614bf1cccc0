------------------------------- MODULE MCParts -------------------------------
(***************************************************************************)
(* An instance of five parts that share no state: the launch mailbox of    *)
(* the terminal, the public lake, the broker market, the hourly market run *)
(* and the market snapshot lake.  One run explores the behaviours of each, *)
(* one part at a time.                                                     *)
(***************************************************************************)
EXTENDS LaunchMailbox, LakeCache, BrokerMarket, MarketFeed, MarketSnapshots

FeedProviders == <<"vast", "prime">>
FeedRequired == {"vast"}

VARIABLE part

partVars == <<mailboxVars, lakeVars, marketVars, feedVars, snapshotVars, part>>

Init ==
    /\ MailboxInit /\ LakeInit /\ MarketInit /\ FeedInit /\ SnapshotInit
    /\ part \in {"mailbox", "lake", "market", "feed", "snapshots"}
    /\ part # "market" => \A d \in DOMAIN seed : seed[d]

(* Bounds of the instance.  A page is opened on /data while no other is    *)
(* there.  Market runs overlap, fail to read the gold manifest or are      *)
(* started three times only where all of them are of one day; a third run  *)
(* starts only if the first two did not overlap, and so does a third       *)
(* ingest. *)
Next ==
    /\ \/ /\ part = "mailbox" /\ MailboxNext
          /\ \A p \in Pages : ~Open(p) /\ page'[p].at = "data" => \A q \in Pages : page[q].at # "data"
          /\ UNCHANGED <<lakeVars, marketVars, feedVars, snapshotVars>>
       \/ /\ part = "lake" /\ LakeNext
          /\ UNCHANGED <<mailboxVars, marketVars, feedVars, snapshotVars>>
       \/ /\ part = "market" /\ MarketNext
          /\ UNCHANGED <<mailboxVars, lakeVars, feedVars, snapshotVars>>
       \/ /\ part = "feed" /\ FeedNext
          /\ starts' > 2 => atOnce' = 1
          /\ today' > 1 => atOnce' <= 1 /\ unread' = 0 /\ starts' <= 2
          /\ UNCHANGED <<mailboxVars, lakeVars, marketVars, snapshotVars>>
       \/ /\ part = "snapshots" /\ SnapshotNext
          /\ Cardinality({r \in Ingests : ingest'[r].step # "new"}) > 2 => overlap' = 1
          /\ UNCHANGED <<mailboxVars, lakeVars, marketVars, feedVars>>
    /\ UNCHANGED part

Spec == Init /\ [][Next]_partVars /\ MailboxFairness
=============================================================================
