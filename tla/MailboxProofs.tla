---------------------------- MODULE MailboxProofs ----------------------------
(***************************************************************************)
(* Proofs about LaunchMailbox, for every number of pages, of launches kept *)
(* and of launches published.  How many launches are kept plays no part.   *)
(***************************************************************************)
EXTENDS LaunchMailbox, TLAPS

-----------------------------------------------------------------------------
(* Where a launch may be.                                                  *)

(* A page has three places for a launch: the one its pollTerminalOpen has  *)
(* in hand, the one stored in its tab, and the one its initialize took. *)
Places == {"hand", "stored", "taken"}

(* Launch l waits in a place of page p for its action to run,              *)
Waits(p, w, l) ==
    \/ w = "hand" /\ page[p].step \in {"execute", "opening"} /\ page[p].hand = l
    \/ w = "stored" /\ page[p].stored = l
    \/ w = "taken" /\ page[p].start = "opening" /\ page[p].taken = l

(* or has run and is to be reported from there. *)
Reports(p, w, l) ==
    \/ w = "hand" /\ page[p].step = "report" /\ page[p].hand = l
    \/ w = "taken" /\ page[p].start = "report" /\ page[p].taken = l

Has(p, w, l) == Waits(p, w, l) \/ Reports(p, w, l)

(* Page p is about to call launch l failed; of these a launch may have     *)
(* many. *)
Complains(p, l) ==
    \/ page[p].step = "complain" /\ page[p].hand = l
    \/ page[p].start = "complain" /\ page[p].taken = l

MailboxTypes ==
    /\ launch \in Seq(LaunchRecords)
    /\ Len(launch) <= MaxLaunches
    /\ page \in [Pages -> PageRecords]
    /\ \A p \in Pages : page[p].step # "idle" => page[p].hand \in DOMAIN launch
    /\ \A p \in Pages : page[p].stored # None => page[p].stored \in DOMAIN launch
    /\ \A p \in Pages : page[p].start \in {"opening", "report", "complain"} =>
                           page[p].taken \in DOMAIN launch

(* What a page has was claimed, and is in one place. *)
HeldOnce ==
    \A l \in DOMAIN launch : \A p \in Pages : \A w \in Places :
        Has(p, w, l) =>
            /\ launch[l].state # "pending"
            /\ \A q \in Pages : \A v \in Places : Has(q, v, l) => q = p /\ v = w

(* Its action runs when it leaves the places where it waits. *)
RunsLater ==
    \A l \in DOMAIN launch : \A p \in Pages : \A w \in Places :
        /\ Waits(p, w, l) => launch[l].opened = 0 /\ launch[l].outcome = "none"
        /\ Reports(p, w, l) => launch[l].outcome = "opened"

(* A launch may be called failed when its action raised, or when a request *)
(* about it failed, *)
Excused(r) == r.outcome = "error" \/ r.lost

ComplaintsExcused ==
    \A l \in DOMAIN launch : \A p \in Pages : Complains(p, l) => Excused(launch[l])

(* and what a launch says of itself agrees. *)
Consistent(r) ==
    /\ r.opened <= 1
    /\ r.state = "pending" => r.opened = 0 /\ r.outcome = "none"
    /\ r.kind = "data" => /\ r.state = "complete" => r.outcome = "opened"
                          /\ r.state = "failed" => Excused(r)

LaunchesConsistent == \A l \in DOMAIN launch : Consistent(launch[l])

MailboxInv ==
    MailboxTypes /\ HeldOnce /\ RunsLater /\ LaunchesConsistent /\ ComplaintsExcused

-----------------------------------------------------------------------------
(* What the steps change.                                                  *)

(* A page that becomes another.                                            *)
LEMMA BecomesFacts ==
    ASSUME MailboxTypes, NEW p \in Pages, NEW r \in PageRecords, Becomes(p, r)
    PROVE  /\ page' \in [Pages -> PageRecords]
           /\ page'[p] = r
           /\ \A q \in Pages : q # p => page'[q] = page[q]
BY DEF MailboxTypes, Becomes

(* A page that has just been loaded.                                       *)
LEMMA FreshFacts ==
    ASSUME NEW where \in {"closed", "other", "data"}, NEW native \in BOOLEAN,
           NEW stored \in Launches \cup {None}
    PROVE  /\ Fresh(where, native, stored) \in PageRecords
           /\ Fresh(where, native, stored).step = "idle"
           /\ Fresh(where, native, stored).start \in {"loading", "over"}
           /\ Fresh(where, native, stored).stored = stored
BY DEF Fresh, PageRecords

(* One launch is changed.                                                  *)
Changes(l, r) ==
    /\ launch' \in Seq(LaunchRecords)
    /\ Len(launch') = Len(launch) /\ DOMAIN launch' = DOMAIN launch
    /\ launch'[l] = r
    /\ \A k \in DOMAIN launch : k # l => launch'[k] = launch[k]

(* One launch is replaced in the sequence.                                 *)
LEMMA LaunchReplaced ==
    ASSUME MailboxTypes, NEW l \in DOMAIN launch, NEW r \in LaunchRecords,
           launch' = [launch EXCEPT ![l] = r]
    PROVE  Changes(l, r)
BY DEF MailboxTypes, Changes

(* A request changes the state of one launch, and may be lost.             *)
Requested(l) ==
    /\ launch' \in Seq(LaunchRecords)
    /\ Len(launch') = Len(launch) /\ DOMAIN launch' = DOMAIN launch
    /\ \A k \in DOMAIN launch : k # l => launch'[k] = launch[k]
    /\ launch'[l].kind = launch[l].kind
    /\ launch'[l].opened = launch[l].opened /\ launch'[l].outcome = launch[l].outcome
    /\ launch[l].lost => launch'[l].lost

States == {"pending", "processing"} \cup Answers

(* A request that is answered,                                            *)
LEMMA AnsweredFacts ==
    ASSUME MailboxTypes, NEW l \in DOMAIN launch, NEW s \in States, Answered(l, s)
    PROVE  Requested(l) /\ launch'[l].state = s /\ launch'[l].lost = launch[l].lost
<1>1. launch[l] \in LaunchRecords
  BY DEF MailboxTypes
<1> DEFINE x == [launch[l] EXCEPT !.state = s]
<1>2. /\ x \in LaunchRecords
      /\ x.state = s /\ x.kind = launch[l].kind /\ x.opened = launch[l].opened
      /\ x.outcome = launch[l].outcome /\ x.lost = launch[l].lost
  BY <1>1 DEF LaunchRecords, States
<1>3. launch' = [launch EXCEPT ![l] = x]
  BY DEF Answered
<1> HIDE DEF x
<1>4. Changes(l, x)
  BY <1>2, <1>3, LaunchReplaced
<1> QED
  BY <1>2, <1>4 DEF Changes, Requested

(* or fails.                                                               *)
LEMMA FailsFacts ==
    ASSUME MailboxTypes, NEW l \in DOMAIN launch, NEW s \in States, Fails(l, s)
    PROVE  Requested(l) /\ launch'[l].state \in {launch[l].state, s} /\ launch'[l].lost
<1>1. launch[l] \in LaunchRecords
  BY DEF MailboxTypes
<1>2. PICK state \in {launch[l].state, s} :
         launch' = [launch EXCEPT ![l].state = state, ![l].lost = TRUE]
  BY DEF Fails
<1> DEFINE x == [launch[l] EXCEPT !.state = state, !.lost = TRUE]
<1>3. /\ x \in LaunchRecords
      /\ x.state = state /\ x.kind = launch[l].kind /\ x.opened = launch[l].opened
      /\ x.outcome = launch[l].outcome /\ x.lost
  BY <1>1, <1>2 DEF LaunchRecords, States
<1>4. launch' = [launch EXCEPT ![l] = x]
  BY <1>1, <1>2 DEF MailboxTypes
<1> HIDE DEF x
<1>5. Changes(l, x)
  BY <1>3, <1>4, LaunchReplaced
<1> QED
  BY <1>2, <1>3, <1>5 DEF Changes, Requested

(* The state after a completion.                                           *)
LEMMA CompletedFacts ==
    ASSUME MailboxTypes, NEW l \in DOMAIN launch, NEW verdict \in Answers
    PROVE  /\ Completed(l, verdict) \in States
           /\ Completed(l, verdict) \in {launch[l].state, verdict}
<1>1. launch[l].state \in States
  <2>1. launch[l] \in LaunchRecords
    BY DEF MailboxTypes
  <2> QED
    BY <2>1 DEF LaunchRecords, States
<1> QED
  BY <1>1 DEF Completed, States

(* The action has run.                                                     *)
LEMMA RanChanges ==
    ASSUME MailboxTypes, NEW l \in DOMAIN launch, NEW result \in {"opened", "error"},
           Ran(l, result)
    PROVE  Changes(l, [launch[l] EXCEPT !.outcome = result, !.opened = launch[l].opened + 1])
<1>1. launch' = [launch EXCEPT ![l] = [launch[l] EXCEPT !.outcome = result,
                                                        !.opened = launch[l].opened + 1]]
  BY DEF Ran
<1>2. launch[l] \in LaunchRecords
  BY DEF MailboxTypes
<1>3. [launch[l] EXCEPT !.outcome = result, !.opened = launch[l].opened + 1] \in LaunchRecords
  <2>1. launch[l].opened + 1 \in Nat
    BY <1>2 DEF LaunchRecords
  <2> QED
    BY <1>2, <2>1 DEF LaunchRecords
<1> QED
  BY <1>1, <1>3, LaunchReplaced

-----------------------------------------------------------------------------
(* What keeps the invariant.                                               *)

(* The page knows its launches. *)
Knows(r) ==
    /\ r.step # "idle" => r.hand \in DOMAIN launch
    /\ r.stored # None => r.stored \in DOMAIN launch
    /\ r.start \in {"opening", "report", "complain"} => r.taken \in DOMAIN launch

(* The launches are what they were, but for documents that were unloaded.  *)
SameLaunches ==
    /\ launch' \in Seq(LaunchRecords)
    /\ Len(launch') = Len(launch) /\ DOMAIN launch' = DOMAIN launch
    /\ \A l \in DOMAIN launch :
          /\ launch'[l].state = launch[l].state /\ launch'[l].kind = launch[l].kind
          /\ launch'[l].opened = launch[l].opened /\ launch'[l].outcome = launch[l].outcome
          /\ launch'[l].lost = launch[l].lost

(* The types, when one page changes.                                       *)
LEMMA TypesKept ==
    ASSUME MailboxTypes, NEW p \in Pages, NEW r \in PageRecords, Becomes(p, r), Knows(r),
           launch' \in Seq(LaunchRecords), Len(launch') = Len(launch),
           DOMAIN launch' = DOMAIN launch
    PROVE  MailboxTypes'
<1>1. /\ page' \in [Pages -> PageRecords]
      /\ page'[p] = r
      /\ \A q \in Pages : q # p => page'[q] = page[q]
  BY BecomesFacts
<1> QED
  BY <1>1 DEF MailboxTypes, Knows

(* What is known of a page before its step.                                *)
LEMMA PageFacts ==
    ASSUME MailboxInv, NEW p \in Pages
    PROVE  /\ page[p] \in PageRecords
           /\ Knows(page[p])
           /\ DOMAIN launch = 1 .. Len(launch) /\ Len(launch) \in Nat
           /\ Len(launch) <= MaxLaunches
           /\ DOMAIN launch \subseteq Launches
           /\ None \notin DOMAIN launch
           /\ None \notin Launches
           /\ MaxLaunches \in Nat
BY MailboxAssumption DEF MailboxInv, MailboxTypes, Knows, None, Launches

(* A page may move what it has between its places, or drop it.             *)
LEMMA MovesKeep ==
    ASSUME MailboxInv, NEW p \in Pages, NEW r \in PageRecords, Becomes(p, r), Knows(r),
           SameLaunches,
           \A l \in DOMAIN launch : \A w \in Places :
               /\ Waits(p, w, l)' => \E v \in Places : Waits(p, v, l)
               /\ Reports(p, w, l)' => \E v \in Places : Reports(p, v, l)
               /\ Complains(p, l)' => Complains(p, l),
           \A l \in DOMAIN launch : \A w \in Places : \A v \in Places :
               Has(p, w, l)' /\ Has(p, v, l)' => w = v
    PROVE  MailboxInv'
<1>1. /\ page'[p] = r
      /\ \A q \in Pages : q # p => page'[q] = page[q]
  BY BecomesFacts DEF MailboxInv
<1>2. MailboxTypes'
  BY TypesKept DEF MailboxInv, SameLaunches
<1>3. \A l \in DOMAIN launch : \A q \in Pages : \A w \in Places :
          q # p => (Waits(q, w, l)' <=> Waits(q, w, l)) /\ (Reports(q, w, l)' <=> Reports(q, w, l))
  BY <1>1 DEF Waits, Reports
<1>4. \A l \in DOMAIN launch : \A q \in Pages : \A w \in Places :
          Has(q, w, l)' => \E v \in Places : Has(q, v, l)
  BY <1>3 DEF Has
<1>5. DOMAIN launch' = DOMAIN launch
  BY DEF SameLaunches
<1>6. HeldOnce'
  <2> SUFFICES ASSUME NEW l \in DOMAIN launch, NEW q \in Pages, NEW w \in Places, Has(q, w, l)'
               PROVE  /\ launch'[l].state # "pending"
                      /\ \A o \in Pages : \A v \in Places : Has(o, v, l)' => o = q /\ v = w
    BY <1>5 DEF HeldOnce
  <2>1. PICK u \in Places : Has(q, u, l)
    BY <1>4
  <2>2. launch'[l].state # "pending"
    BY <2>1 DEF MailboxInv, HeldOnce, SameLaunches
  <2>3. ASSUME NEW o \in Pages, NEW v \in Places, Has(o, v, l)' PROVE o = q /\ v = w
    <3>1. PICK x \in Places : Has(o, x, l)
      BY <1>4, <2>3
    <3>2. o = q
      BY <2>1, <3>1 DEF MailboxInv, HeldOnce
    <3>3. CASE q = p
      BY <2>3, <3>2, <3>3
    <3>4. CASE q # p
      BY <1>3, <2>3, <3>2, <3>4 DEF MailboxInv, HeldOnce, Has
    <3> QED
      BY <3>2, <3>3, <3>4
  <2> QED
    BY <2>2, <2>3
<1>7. RunsLater'
  <2>1. ASSUME NEW l \in DOMAIN launch, NEW q \in Pages, NEW w \in Places
        PROVE  /\ Waits(q, w, l)' => \E v \in Places : Waits(q, v, l)
               /\ Reports(q, w, l)' => \E v \in Places : Reports(q, v, l)
    BY <1>3
  <2> QED
    BY <1>5, <2>1 DEF MailboxInv, RunsLater, SameLaunches
<1>8. LaunchesConsistent'
  BY <1>5 DEF MailboxInv, LaunchesConsistent, Consistent, Excused, SameLaunches
<1>9. ComplaintsExcused'
  <2> SUFFICES ASSUME NEW l \in DOMAIN launch, NEW q \in Pages, Complains(q, l)'
               PROVE  Excused(launch'[l])
    BY <1>5 DEF ComplaintsExcused
  <2>1. Complains(q, l)
    <3>1. CASE q = p
      BY <3>1 DEF Places
    <3>2. CASE q # p
      BY <1>1, <3>2 DEF Complains
    <3> QED
      BY <3>1, <3>2
  <2> QED
    BY <2>1 DEF MailboxInv, ComplaintsExcused, Excused, SameLaunches
<1> QED
  BY <1>2, <1>6, <1>7, <1>8, <1>9 DEF MailboxInv

(* Page p has no launch it did not have, and complains of those in ls at   *)
(* most. *)
Shrinks(p, ls) ==
    /\ \A k \in DOMAIN launch : \A v \in Places :
          /\ Waits(p, v, k)' => Waits(p, v, k)
          /\ Reports(p, v, k)' => Reports(p, v, k)
    /\ \A k \in DOMAIN launch : Complains(p, k)' => Complains(p, k) \/ k \in ls

(* A request about a launch.                                               *)
LEMMA RequestKeeps ==
    ASSUME MailboxInv, NEW p \in Pages, NEW r \in PageRecords, Becomes(p, r), Knows(r),
           NEW l \in DOMAIN launch, Requested(l), Consistent(launch'[l]),
           launch[l].state # "pending" => launch'[l].state # "pending",
           NEW ls, Shrinks(p, ls), \A k \in ls : k = l /\ Excused(launch'[l])
    PROVE  MailboxInv'
<1>1. /\ page'[p] = r
      /\ \A q \in Pages : q # p => page'[q] = page[q]
  BY BecomesFacts DEF MailboxInv
<1>2. MailboxTypes'
  BY TypesKept DEF MailboxInv, Requested
<1>3. \A k \in DOMAIN launch : \A q \in Pages : \A v \in Places :
          /\ Waits(q, v, k)' => Waits(q, v, k)
          /\ Reports(q, v, k)' => Reports(q, v, k)
  BY <1>1 DEF Shrinks, Waits, Reports
<1>4. /\ DOMAIN launch' = DOMAIN launch
      /\ \A k \in DOMAIN launch : k # l => launch'[k] = launch[k]
  BY DEF Requested
<1>5. \A k \in DOMAIN launch :
          /\ launch[k].state # "pending" => launch'[k].state # "pending"
          /\ launch'[k].opened = launch[k].opened /\ launch'[k].outcome = launch[k].outcome
          /\ Excused(launch[k]) => Excused(launch'[k])
  BY <1>4 DEF Requested, Excused
<1>6. HeldOnce'
  <2> SUFFICES ASSUME NEW k \in DOMAIN launch, NEW q \in Pages, NEW v \in Places, Has(q, v, k)'
               PROVE  /\ launch'[k].state # "pending"
                      /\ \A o \in Pages : \A u \in Places : Has(o, u, k)' => o = q /\ u = v
    BY <1>4 DEF HeldOnce
  <2>1. Has(q, v, k) /\ \A o \in Pages : \A u \in Places : Has(o, u, k)' => Has(o, u, k)
    BY <1>3 DEF Has
  <2> QED
    BY <1>5, <2>1 DEF MailboxInv, HeldOnce
<1>7. RunsLater'
  BY <1>3, <1>4, <1>5 DEF MailboxInv, RunsLater
<1>8. LaunchesConsistent'
  BY <1>4 DEF MailboxInv, LaunchesConsistent
<1>9. ComplaintsExcused'
  <2> SUFFICES ASSUME NEW k \in DOMAIN launch, NEW q \in Pages, Complains(q, k)'
               PROVE  Excused(launch'[k])
    BY <1>4 DEF ComplaintsExcused
  <2>1. CASE Complains(q, k)
    BY <1>5, <2>1 DEF MailboxInv, ComplaintsExcused
  <2>2. CASE ~Complains(q, k)
    <3>1. q = p
      BY <1>1, <2>2 DEF Complains
    <3> QED
      BY <2>2, <3>1 DEF Shrinks
  <2> QED
    BY <2>1, <2>2
<1> QED
  BY <1>2, <1>6, <1>7, <1>8, <1>9 DEF MailboxInv

(* What a request may make of a launch.                                    *)
LEMMA RequestIsConsistent ==
    ASSUME NEW l \in DOMAIN launch, Consistent(launch[l]), Requested(l),
           \/ launch'[l].state \in {launch[l].state, "processing"}
           \/ /\ launch'[l].state = "complete"
              /\ launch[l].outcome = "opened" \/ launch[l].kind = "navigate"
           \/ launch'[l].state = "failed" /\ Excused(launch'[l])
    PROVE  /\ Consistent(launch'[l])
           /\ launch[l].state # "pending" => launch'[l].state # "pending"
BY DEF Consistent, Requested, Excused

(* pollTerminalOpen ends, or goes on to complain. *)
LEMMA PollsShrinks ==
    ASSUME MailboxInv, NEW p \in Pages, NEW l \in DOMAIN launch, page[p].hand = l
    PROVE  /\ Polls(p, "idle", None) =>
                 \E r \in PageRecords : Becomes(p, r) /\ Knows(r) /\ Shrinks(p, {})
           /\ Polls(p, "complain", l) =>
                 \E r \in PageRecords : Becomes(p, r) /\ Knows(r) /\ Shrinks(p, {l})
<1>1. /\ page[p] \in PageRecords /\ Knows(page[p]) /\ None \notin DOMAIN launch
      /\ l \in Launches
  BY PageFacts
<1>2. ASSUME NEW step \in {"idle", "complain"}, NEW h \in {None, l}, Polls(p, step, h),
             step = "complain" => h = l
      PROVE  \E r \in PageRecords :
                /\ Becomes(p, r) /\ Knows(r)
                /\ Shrinks(p, IF step = "complain" THEN {l} ELSE {})
  <2> DEFINE r == [page[p] EXCEPT !.step = step, !.hand = h]
  <2>1. /\ r \in PageRecords /\ r.step = step /\ r.hand = h /\ r.stored = page[p].stored
        /\ r.start = page[p].start /\ r.taken = page[p].taken
    BY <1>1 DEF PageRecords
  <2>2. Becomes(p, r)
    BY <1>2 DEF Polls
  <2> HIDE DEF r
  <2>3. page'[p] = r
    BY <2>1, <2>2, BecomesFacts DEF MailboxInv
  <2>4. Knows(r)
    BY <1>1, <1>2, <2>1 DEF Knows
  <2>5. \A k \in DOMAIN launch : \A v \in Places :
            /\ Waits(p, v, k)' => Waits(p, v, k)
            /\ Reports(p, v, k)' => Reports(p, v, k)
    BY <2>1, <2>3 DEF Waits, Reports
  <2>6. \A k \in DOMAIN launch :
            Complains(p, k)' => Complains(p, k) \/ k \in IF step = "complain" THEN {l} ELSE {}
    BY <1>2, <2>1, <2>3 DEF Complains
  <2> QED
    BY <2>1, <2>2, <2>4, <2>5, <2>6 DEF Shrinks
<1> QED
  BY <1>2

(* initialize ends, or goes on to complain. *)
LEMMA StartsShrinks ==
    ASSUME MailboxInv, NEW p \in Pages, NEW l \in DOMAIN launch, page[p].taken = l
    PROVE  /\ Starts(p, "over", None) =>
                 \E r \in PageRecords : Becomes(p, r) /\ Knows(r) /\ Shrinks(p, {})
           /\ Starts(p, "complain", l) =>
                 \E r \in PageRecords : Becomes(p, r) /\ Knows(r) /\ Shrinks(p, {l})
<1>1. /\ page[p] \in PageRecords /\ Knows(page[p]) /\ None \notin DOMAIN launch
      /\ l \in Launches
  BY PageFacts
<1>2. ASSUME NEW start \in {"over", "complain"}, NEW t \in {None, l}, Starts(p, start, t),
             start = "complain" => t = l
      PROVE  \E r \in PageRecords :
                /\ Becomes(p, r) /\ Knows(r)
                /\ Shrinks(p, IF start = "complain" THEN {l} ELSE {})
  <2> DEFINE r == [page[p] EXCEPT !.start = start, !.taken = t]
  <2>1. /\ r \in PageRecords /\ r.start = start /\ r.taken = t /\ r.stored = page[p].stored
        /\ r.step = page[p].step /\ r.hand = page[p].hand
    BY <1>1 DEF PageRecords
  <2>2. Becomes(p, r)
    BY <1>2 DEF Starts
  <2> HIDE DEF r
  <2>3. page'[p] = r
    BY <2>1, <2>2, BecomesFacts DEF MailboxInv
  <2>4. Knows(r)
    BY <1>1, <1>2, <2>1 DEF Knows
  <2>5. \A k \in DOMAIN launch : \A v \in Places :
            /\ Waits(p, v, k)' => Waits(p, v, k)
            /\ Reports(p, v, k)' => Reports(p, v, k)
    BY <2>1, <2>3 DEF Waits, Reports
  <2>6. \A k \in DOMAIN launch :
            Complains(p, k)' => Complains(p, k) \/ k \in IF start = "complain" THEN {l} ELSE {}
    BY <1>2, <2>1, <2>3 DEF Complains
  <2> QED
    BY <2>1, <2>2, <2>4, <2>5, <2>6 DEF Shrinks
<1> QED
  BY <1>2

(* A launch whose action runs is then reported from the same place, or     *)
(* complained of. *)
LEMMA RunningKeeps ==
    ASSUME MailboxInv, NEW p \in Pages, NEW r \in PageRecords, Becomes(p, r), Knows(r),
           NEW l \in DOMAIN launch, NEW w \in Places, Waits(p, w, l),
           NEW result \in {"opened", "error"}, Ran(l, result),
           \/ result = "opened" /\ \A k \in DOMAIN launch : Complains(p, k)' => Complains(p, k)
           \/ result = "error" /\ ~Reports(p, w, l)',
           \A k \in DOMAIN launch : Complains(p, k)' => Complains(p, k) \/ k = l,
           \A v \in Places : ~Waits(p, v, l)',
           \A k \in DOMAIN launch : \A v \in Places :
               k # l => /\ Waits(p, v, k)' => Waits(p, v, k)
                        /\ Reports(p, v, k)' => Reports(p, v, k),
           \A v \in Places : v # w => ~Has(p, v, l)'
    PROVE  MailboxInv'
<1>1. /\ page'[p] = r
      /\ \A q \in Pages : q # p => page'[q] = page[q]
  BY BecomesFacts DEF MailboxInv
<1>2. Changes(l, [launch[l] EXCEPT !.outcome = result, !.opened = launch[l].opened + 1])
  BY RanChanges DEF MailboxInv
<1>3. MailboxTypes'
  BY <1>2, TypesKept DEF MailboxInv, Changes
<1>4. /\ launch[l] \in LaunchRecords
      /\ launch[l].opened = 0 /\ launch[l].outcome = "none" /\ launch[l].state # "pending"
  BY DEF MailboxInv, MailboxTypes, RunsLater, HeldOnce, Has
<1>5. /\ DOMAIN launch' = DOMAIN launch
      /\ \A k \in DOMAIN launch : k # l => launch'[k] = launch[k]
      /\ launch'[l].outcome = result /\ launch'[l].opened = 1
      /\ launch'[l].state = launch[l].state
      /\ launch'[l].kind = launch[l].kind /\ launch'[l].lost = launch[l].lost
  BY <1>2, <1>4 DEF Changes, LaunchRecords
<1>6. \A k \in DOMAIN launch : \A q \in Pages : \A v \in Places :
          k # l => /\ Waits(q, v, k)' => Waits(q, v, k)
                   /\ Reports(q, v, k)' => Reports(q, v, k)
  BY <1>1 DEF Waits, Reports
<1>7. \A q \in Pages : \A v \in Places : Has(q, v, l)' => q = p /\ v = w
  <2> SUFFICES ASSUME NEW q \in Pages, NEW v \in Places, Has(q, v, l)', q # p PROVE FALSE
    OBVIOUS
  <2>1. Has(q, v, l)
    BY <1>1 DEF Has, Waits, Reports
  <2> QED
    BY <2>1 DEF MailboxInv, HeldOnce, Has
<1>8. HeldOnce'
  <2> SUFFICES ASSUME NEW k \in DOMAIN launch, NEW q \in Pages, NEW v \in Places, Has(q, v, k)'
               PROVE  /\ launch'[k].state # "pending"
                      /\ \A o \in Pages : \A u \in Places : Has(o, u, k)' => o = q /\ u = v
    BY <1>5 DEF HeldOnce
  <2>1. CASE k = l
    BY <1>4, <1>5, <1>7, <2>1
  <2>2. CASE k # l
    <3>1. Has(q, v, k) /\ \A o \in Pages : \A u \in Places : Has(o, u, k)' => Has(o, u, k)
      BY <1>6, <2>2 DEF Has
    <3> QED
      BY <1>5, <2>2, <3>1 DEF MailboxInv, HeldOnce
  <2> QED
    BY <2>1, <2>2
<1>9. RunsLater'
  <2>1. \A q \in Pages : \A v \in Places :
            ~Waits(q, v, l)' /\ (Reports(q, v, l)' => result = "opened")
    BY <1>7 DEF Has
  <2> QED
    BY <1>5, <1>6, <2>1 DEF MailboxInv, RunsLater
<1>10. Consistent(launch'[l])
  <2>1. Consistent(launch[l])
    BY DEF MailboxInv, LaunchesConsistent
  <2> QED
    BY <1>4, <1>5, <2>1 DEF Consistent, Excused
<1>11. LaunchesConsistent'
  BY <1>5, <1>10 DEF MailboxInv, LaunchesConsistent
<1>12. ComplaintsExcused'
  <2> SUFFICES ASSUME NEW k \in DOMAIN launch, NEW q \in Pages, Complains(q, k)'
               PROVE  Excused(launch'[k])
    BY <1>5 DEF ComplaintsExcused
  <2>1. CASE Complains(q, k)
    <3>1. Excused(launch[k])
      BY <2>1 DEF MailboxInv, ComplaintsExcused
    <3> QED
      BY <1>4, <1>5, <3>1 DEF Excused
  <2>2. CASE ~Complains(q, k)
    <3>1. q = p
      BY <1>1, <2>2 DEF Complains
    <3>2. k = l /\ result = "error"
      BY <2>2, <3>1
    <3> QED
      BY <1>5, <3>2 DEF Excused
  <2> QED
    BY <2>1, <2>2
<1> QED
  BY <1>3, <1>8, <1>9, <1>11, <1>12 DEF MailboxInv

-----------------------------------------------------------------------------
(* The steps.                                                              *)

(* The mailbox starts empty, with every page closed.                       *)
LEMMA MailboxStarts == MailboxInit => MailboxInv
<1> SUFFICES ASSUME MailboxInit PROVE MailboxInv
  OBVIOUS
<1>1. launch = <<>> /\ DOMAIN launch = {} /\ Len(launch) = 0 /\ launch \in Seq(LaunchRecords)
  BY DEF MailboxInit
<1>2. \A p \in Pages : page[p] = Fresh("closed", FALSE, None)
  BY DEF MailboxInit
<1>3. page \in [Pages -> PageRecords]
  BY FreshFacts DEF MailboxInit
<1>4. \A p \in Pages : /\ page[p].step = "idle" /\ page[p].stored = None
                       /\ page[p].start \in {"loading", "over"}
  <2>1. LET r == Fresh("closed", FALSE, None)
        IN  r.step = "idle" /\ r.stored = None /\ r.start \in {"loading", "over"}
    BY DEF Fresh
  <2> QED
    BY <1>2, <2>1
<1>5. MailboxTypes
  BY <1>1, <1>3, <1>4, MailboxAssumption DEF MailboxTypes
<1> QED
  BY <1>1, <1>5 DEF MailboxInv, HeldOnce, RunsLater, LaunchesConsistent,
     ComplaintsExcused

(* Nothing changed is nothing changed.                                     *)
LEMMA UnchangedLaunches ==
    ASSUME MailboxInv, launch' = launch
    PROVE  SameLaunches
BY DEF MailboxInv, MailboxTypes, SameLaunches

(* Nothing changes but what page p has. *)
LEMMA ShrinkingKeeps ==
    ASSUME MailboxInv, NEW p \in Pages, NEW r \in PageRecords, Becomes(p, r), Knows(r),
           SameLaunches, Shrinks(p, {})
    PROVE  MailboxInv'
<1>1. \A k \in DOMAIN launch : \A w \in Places :
          /\ Waits(p, w, k)' => \E v \in Places : Waits(p, v, k)
          /\ Reports(p, w, k)' => \E v \in Places : Reports(p, v, k)
          /\ Complains(p, k)' => Complains(p, k)
  BY DEF Shrinks
<1>2. \A k \in DOMAIN launch : \A w \in Places : \A v \in Places :
          Has(p, w, k)' /\ Has(p, v, k)' => w = v
  BY DEF MailboxInv, HeldOnce, Has, Shrinks
<1> QED
  BY <1>1, <1>2, MovesKeep

(* A new launch is in no place.                                            *)
LEMMA PublishKeeps ==
    ASSUME MailboxInv, NEW kind \in {"data", "navigate"}, Publish(kind)
    PROVE  MailboxInv'
<1> DEFINE new == [kind |-> kind, state |-> "pending", opened |-> 0,
                   outcome |-> "none", left |-> FALSE, lost |-> FALSE]
           n == Len(launch)
<1>1. /\ launch \in Seq(LaunchRecords) /\ n \in Nat /\ DOMAIN launch = 1 .. n
      /\ MaxLaunches \in Nat
  BY MailboxAssumption DEF MailboxInv, MailboxTypes
<1>2. launch' = Append(launch, new) /\ page' = page /\ n < MaxLaunches
  BY DEF Publish, Latest
<1>3. new \in LaunchRecords
  BY DEF LaunchRecords
<1>4. Consistent(new)
  BY DEF Consistent, Excused
<1> HIDE DEF new
<1>5. /\ launch' \in Seq(LaunchRecords)
      /\ Len(launch') = n + 1 /\ DOMAIN launch' = 1 .. n + 1
      /\ launch'[n + 1] = new
      /\ \A l \in 1 .. n : launch'[l] = launch[l]
  BY <1>1, <1>2, <1>3
<1> HIDE DEF n
<1>6. \A l \in DOMAIN launch' : l \in DOMAIN launch \/ l = n + 1
  BY <1>1, <1>5
<1>7. MailboxTypes'
  BY <1>1, <1>2, <1>5 DEF MailboxInv, MailboxTypes
<1>8. \A p \in Pages : ~Complains(p, n + 1) /\ \A w \in Places : ~Has(p, w, n + 1)
  <2>1. n + 1 \notin DOMAIN launch /\ n + 1 # None
    BY <1>1 DEF None
  <2> QED
    BY <2>1 DEF MailboxInv, MailboxTypes, Has, Waits, Reports, Complains
<1>9. \A l \in DOMAIN launch' : \A p \in Pages : \A w \in Places :
          /\ Waits(p, w, l)' <=> Waits(p, w, l)
          /\ Reports(p, w, l)' <=> Reports(p, w, l)
          /\ Has(p, w, l)' <=> Has(p, w, l)
          /\ Complains(p, l)' <=> Complains(p, l)
  BY <1>2 DEF Has, Waits, Reports, Complains
<1>10. HeldOnce'
  BY <1>1, <1>5, <1>6, <1>8, <1>9 DEF MailboxInv, HeldOnce
<1>11. RunsLater'
  BY <1>1, <1>5, <1>6, <1>8, <1>9 DEF MailboxInv, RunsLater, Has
<1>12. LaunchesConsistent'
  BY <1>1, <1>4, <1>5, <1>6 DEF MailboxInv, LaunchesConsistent
<1>13. ComplaintsExcused'
  <2>1. \A l \in DOMAIN launch' : \A p \in Pages : Complains(p, l)' <=> Complains(p, l)
    BY <1>2 DEF Complains
  <2> QED
    BY <1>1, <1>5, <1>6, <1>8, <2>1 DEF MailboxInv, ComplaintsExcused
<1> QED
  BY <1>7, <1>10, <1>11, <1>12, <1>13 DEF MailboxInv

(* Who claims a pending launch is the only one that has it.                *)
LEMMA ClaimKeeps ==
    ASSUME MailboxInv, NEW p \in Pages, Claim(p)
    PROVE  MailboxInv'
<1>1. /\ page[p] \in PageRecords /\ Knows(page[p])
      /\ page[p].step = "claim" /\ page[p].hand \in DOMAIN launch
      /\ None \notin DOMAIN launch
      /\ \A k \in DOMAIN launch : k \in Launches \cup {None}
  BY PageFacts DEF Claim, Polling, Knows
<1> PICK l \in DOMAIN launch : l = page[p].hand
  BY <1>1
<1>2. CASE Polls(p, "idle", None) /\ launch' = launch
  <2>1. PICK r \in PageRecords : Becomes(p, r) /\ Knows(r) /\ Shrinks(p, {})
    BY <1>1, <1>2, PollsShrinks
  <2> QED
    BY <1>2, <2>1, ShrinkingKeeps, UnchangedLaunches
<1>3. CASE /\ launch[l].state = "pending"
           /\ Answered(l, "processing")
           /\ Polls(p, "execute", l)
  <2> DEFINE r == [page[p] EXCEPT !.step = "execute", !.hand = l]
  <2>1. /\ r \in PageRecords /\ r.step = "execute" /\ r.hand = l /\ r.stored = page[p].stored
        /\ r.start = page[p].start /\ r.taken = page[p].taken
    BY <1>1 DEF PageRecords
  <2>2. Becomes(p, r)
    BY <1>3 DEF Polls
  <2> HIDE DEF r
  <2>3. /\ page'[p] = r
        /\ \A q \in Pages : q # p => page'[q] = page[q]
    BY <2>1, <2>2, BecomesFacts DEF MailboxInv
  <2>4. Knows(r)
    BY <1>1, <2>1 DEF Knows
  <2>5. Requested(l) /\ launch'[l].state = "processing" /\ launch'[l].lost = launch[l].lost
    <3>1. "processing" \in States
      BY DEF States
    <3> QED
      BY <1>3, <3>1, AnsweredFacts DEF MailboxInv
  <2>6. /\ DOMAIN launch' = DOMAIN launch /\ Len(launch') = Len(launch)
        /\ launch' \in Seq(LaunchRecords)
        /\ \A k \in DOMAIN launch : k # l => launch'[k] = launch[k]
        /\ launch'[l].state = "processing"
        /\ launch'[l].kind = launch[l].kind /\ launch'[l].lost = launch[l].lost
        /\ launch'[l].opened = launch[l].opened /\ launch'[l].outcome = launch[l].outcome
    BY <2>5 DEF Requested
  <2>7. /\ launch[l].opened = 0 /\ launch[l].outcome = "none"
        /\ \A q \in Pages : \A w \in Places : ~Has(q, w, l)
    <3>1. Consistent(launch[l])
      BY <1>1 DEF MailboxInv, LaunchesConsistent
    <3> QED
      BY <1>1, <1>3, <3>1 DEF MailboxInv, HeldOnce, Consistent
  <2>8. MailboxTypes'
    BY <2>1, <2>2, <2>4, <2>6, TypesKept DEF MailboxInv
  <2>9. ASSUME NEW q \in Pages, NEW w \in Places
        PROVE  /\ \A k \in DOMAIN launch :
                     k # l => /\ Waits(q, w, k)' => Waits(q, w, k)
                              /\ Reports(q, w, k)' => Reports(q, w, k)
               /\ Has(q, w, l)' => q = p /\ w = "hand"
               /\ ~Reports(q, w, l)'
    <3>1. CASE q # p
      BY <2>3, <2>7, <3>1 DEF Has, Waits, Reports
    <3>2. CASE q = p
      <4>1. ~Has(p, "stored", l) /\ ~Has(p, "taken", l)
        BY <2>7 DEF Places
      <4> QED
        BY <2>1, <2>3, <3>2, <4>1 DEF Has, Waits, Reports, Places
    <3> QED
      BY <3>1, <3>2
  <2>10. HeldOnce'
    <3> SUFFICES ASSUME NEW k \in DOMAIN launch, NEW q \in Pages, NEW v \in Places, Has(q, v, k)'
                 PROVE  /\ launch'[k].state # "pending"
                        /\ \A o \in Pages : \A u \in Places : Has(o, u, k)' => o = q /\ u = v
      BY <2>6 DEF HeldOnce
    <3>1. CASE k = l
      BY <2>6, <2>9, <3>1
    <3>2. CASE k # l
      <4>1. Has(q, v, k) /\ \A o \in Pages : \A u \in Places : Has(o, u, k)' => Has(o, u, k)
        BY <2>9, <3>2 DEF Has
      <4> QED
        BY <2>6, <3>2, <4>1 DEF MailboxInv, HeldOnce
    <3> QED
      BY <3>1, <3>2
  <2>11. RunsLater'
    BY <2>6, <2>7, <2>9 DEF MailboxInv, RunsLater
  <2>12. Consistent(launch'[l])
    BY <2>6, <2>7 DEF Consistent
  <2>13. LaunchesConsistent'
    BY <2>6, <2>12 DEF MailboxInv, LaunchesConsistent
  <2>14. ComplaintsExcused'
    <3>1. \A q \in Pages : \A k \in DOMAIN launch : Complains(q, k)' => Complains(q, k)
      BY <2>1, <2>3 DEF Complains
    <3>2. \A k \in DOMAIN launch : Excused(launch[k]) => Excused(launch'[k])
      BY <2>6 DEF Excused
    <3> QED
      BY <2>6, <3>1, <3>2 DEF MailboxInv, ComplaintsExcused
  <2> QED
    BY <2>8, <2>10, <2>11, <2>13, <2>14 DEF MailboxInv
<1>4. ASSUME NEW s \in {launch[l].state, "processing"}, Fails(l, s), Polls(p, "complain", l)
      PROVE  MailboxInv'
  <2>1. PICK r \in PageRecords : Becomes(p, r) /\ Knows(r) /\ Shrinks(p, {l})
    BY <1>1, <1>4, PollsShrinks
  <2>2. s \in States
    <3>1. launch[l] \in LaunchRecords
      BY DEF MailboxInv, MailboxTypes
    <3> QED
      BY <3>1 DEF LaunchRecords, States
  <2>3. Requested(l) /\ launch'[l].state \in {launch[l].state, s} /\ launch'[l].lost
    BY <1>4, <2>2, FailsFacts DEF MailboxInv
  <2>4. Excused(launch'[l])
    BY <2>3 DEF Excused
  <2>5. /\ Consistent(launch'[l])
        /\ launch[l].state # "pending" => launch'[l].state # "pending"
    BY <1>4, <2>3, RequestIsConsistent DEF MailboxInv, LaunchesConsistent
  <2> QED
    BY <2>1, <2>3, <2>4, <2>5, RequestKeeps
<1> QED
  BY <1>2, <1>3, <1>4 DEF Claim, Claimable

(* The launch stays in hand. *)
LEMMA HandleKeeps ==
    ASSUME MailboxInv, NEW p \in Pages, Handle(p)
    PROVE  MailboxInv'
<1> DEFINE r == [page[p] EXCEPT !.step = "opening", !.hand = page[p].hand]
<1>1. /\ page[p] \in PageRecords /\ Knows(page[p]) /\ None \notin DOMAIN launch
      /\ page[p].step = "execute"
  BY PageFacts DEF Handle, Polling, Starting, Knows
<1>2. /\ r \in PageRecords
      /\ r.step = "opening" /\ r.hand = page[p].hand /\ r.stored = page[p].stored
      /\ r.start = page[p].start /\ r.taken = page[p].taken
  BY <1>1 DEF PageRecords
<1>3. Becomes(p, r) /\ launch' = launch
  BY DEF Handle, Polls
<1> HIDE DEF r
<1>4. page'[p] = r
  BY <1>2, <1>3, BecomesFacts DEF MailboxInv
<1>5. Knows(r)
  BY <1>1, <1>2 DEF Knows
<1>6. \A l \in DOMAIN launch : \A w \in Places :
          /\ Waits(p, w, l)' => \E v \in Places : Waits(p, v, l)
          /\ Reports(p, w, l)' => \E v \in Places : Reports(p, v, l)
          /\ Complains(p, l)' => Complains(p, l)
  BY <1>1, <1>2, <1>4 DEF Waits, Reports, Complains, Places
<1>7. \A l \in DOMAIN launch : \A w \in Places : \A v \in Places :
          Has(p, w, l)' /\ Has(p, v, l)' => w = v
  BY <1>1, <1>2, <1>4 DEF MailboxInv, HeldOnce, Has, Waits, Reports, Places
<1> QED
  BY <1>2, <1>3, <1>5, <1>6, <1>7, MovesKeep, UnchangedLaunches

(* From the hand into the tab. *)
LEMMA DeferKeeps ==
    ASSUME MailboxInv, NEW p \in Pages, Defer(p)
    PROVE  MailboxInv'
<1> DEFINE r == [page[p] EXCEPT !.step = "idle", !.hand = None, !.stored = page[p].hand,
                            !.going = "data"]
<1>1. /\ page[p] \in PageRecords /\ Knows(page[p]) /\ None \notin DOMAIN launch
      /\ page[p].step = "execute" /\ page[p].hand \in DOMAIN launch
  BY PageFacts DEF Defer, Polling, Starting, Knows
<1>2. /\ r \in PageRecords
      /\ r.step = "idle" /\ r.stored = page[p].hand
      /\ r.start = page[p].start /\ r.taken = page[p].taken
  BY <1>1 DEF PageRecords
<1>3. Becomes(p, r) /\ launch' = launch
  BY DEF Defer, Schedules
<1> HIDE DEF r
<1>4. page'[p] = r
  BY <1>2, <1>3, BecomesFacts DEF MailboxInv
<1>5. Knows(r)
  BY <1>1, <1>2 DEF Knows
<1>6. \A l \in DOMAIN launch : \A w \in Places :
          /\ Waits(p, w, l)' => \E v \in Places : Waits(p, v, l)
          /\ Reports(p, w, l)' => \E v \in Places : Reports(p, v, l)
          /\ Complains(p, l)' => Complains(p, l)
  BY <1>1, <1>2, <1>4 DEF Waits, Reports, Complains, Places
<1>7. \A l \in DOMAIN launch : \A w \in Places : \A v \in Places :
          Has(p, w, l)' /\ Has(p, v, l)' => w = v
  BY <1>1, <1>2, <1>4 DEF MailboxInv, HeldOnce, Has, Waits, Reports, Places
<1> QED
  BY <1>2, <1>3, <1>5, <1>6, <1>7, MovesKeep, UnchangedLaunches

(* The stored launch stays. *)
LEMMA StartFailsKeeps ==
    ASSUME MailboxInv, NEW p \in Pages, StartFails(p)
    PROVE  MailboxInv'
<1> DEFINE r == [page[p] EXCEPT !.start = "over", !.taken = None]
<1>1. /\ page[p] \in PageRecords /\ Knows(page[p]) /\ None \notin DOMAIN launch
  BY PageFacts DEF StartFails, Polling, Starting, Knows
<1>2. /\ r \in PageRecords
      /\ r.step = page[p].step /\ r.hand = page[p].hand /\ r.stored = page[p].stored
      /\ r.start = "over"
  BY <1>1 DEF PageRecords
<1>3. Becomes(p, r) /\ launch' = launch
  BY DEF StartFails, Starts
<1> HIDE DEF r
<1>4. page'[p] = r
  BY <1>2, <1>3, BecomesFacts DEF MailboxInv
<1>5. Knows(r)
  BY <1>1, <1>2 DEF Knows
<1>6. \A l \in DOMAIN launch : \A w \in Places :
          /\ Waits(p, w, l)' => \E v \in Places : Waits(p, v, l)
          /\ Reports(p, w, l)' => \E v \in Places : Reports(p, v, l)
          /\ Complains(p, l)' => Complains(p, l)
  BY <1>1, <1>2, <1>4 DEF Waits, Reports, Complains, Places
<1>7. \A l \in DOMAIN launch : \A w \in Places : \A v \in Places :
          Has(p, w, l)' /\ Has(p, v, l)' => w = v
  BY <1>1, <1>2, <1>4 DEF MailboxInv, HeldOnce, Has, Waits, Reports, Places
<1> QED
  BY <1>2, <1>3, <1>5, <1>6, <1>7, MovesKeep, UnchangedLaunches

(* The latest launch is looked at, and not yet had.                        *)
LEMMA PollKeeps ==
    ASSUME MailboxInv, NEW p \in Pages, Poll(p)
    PROVE  MailboxInv'
<1> PICK l : l = Len(launch)
  OBVIOUS
<1> DEFINE r == [page[p] EXCEPT !.step = "claim", !.hand = l]
<1>1. /\ page[p] \in PageRecords /\ Knows(page[p]) /\ None \notin DOMAIN launch
      /\ page[p].step = "idle" /\ l \in DOMAIN launch /\ l \in Launches
  BY PageFacts DEF Poll, Polling, Latest, None
<1>2. /\ r \in PageRecords
      /\ r.step = "claim" /\ r.hand = l /\ r.stored = page[p].stored
      /\ r.start = page[p].start /\ r.taken = page[p].taken
  BY <1>1 DEF PageRecords
<1>3. Becomes(p, r) /\ launch' = launch
  BY DEF Poll, Polls, Latest
<1> HIDE DEF r
<1>4. page'[p] = r
  BY <1>2, <1>3, BecomesFacts DEF MailboxInv
<1>5. Knows(r)
  BY <1>1, <1>2 DEF Knows
<1>6. \A k \in DOMAIN launch : \A w \in Places :
          /\ Waits(p, w, k)' => \E v \in Places : Waits(p, v, k)
          /\ Reports(p, w, k)' => \E v \in Places : Reports(p, v, k)
          /\ Complains(p, k)' => Complains(p, k)
  BY <1>1, <1>2, <1>4 DEF Waits, Reports, Complains, Places
<1>7. \A k \in DOMAIN launch : \A w \in Places : \A v \in Places :
          Has(p, w, k)' /\ Has(p, v, k)' => w = v
  BY <1>1, <1>2, <1>4 DEF MailboxInv, HeldOnce, Has, Waits, Reports, Places
<1> QED
  BY <1>2, <1>3, <1>5, <1>6, <1>7, MovesKeep, UnchangedLaunches

(* The session is read.                                                    *)
LEMMA LoadKeeps ==
    ASSUME MailboxInv, NEW p \in Pages, Load(p)
    PROVE  MailboxInv'
<1> PICK r : r \in {[page[p] EXCEPT !.start = "ready", !.session = TRUE],
                    [page[p] EXCEPT !.start = "over"]} /\ Becomes(p, r)
  BY DEF Load
<1>1. /\ page[p] \in PageRecords /\ Knows(page[p]) /\ None \notin DOMAIN launch
  BY PageFacts
<1>2. /\ r \in PageRecords
      /\ r.step = page[p].step /\ r.hand = page[p].hand /\ r.stored = page[p].stored
      /\ r.start \in {"ready", "over"}
  BY <1>1 DEF PageRecords
<1>3. Becomes(p, r) /\ launch' = launch
  BY DEF Load
<1>4. page'[p] = r
  BY <1>2, <1>3, BecomesFacts DEF MailboxInv
<1>5. Knows(r)
  BY <1>1, <1>2 DEF Knows
<1>6. \A l \in DOMAIN launch : \A w \in Places :
          /\ Waits(p, w, l)' => \E v \in Places : Waits(p, v, l)
          /\ Reports(p, w, l)' => \E v \in Places : Reports(p, v, l)
          /\ Complains(p, l)' => Complains(p, l)
  BY <1>1, <1>2, <1>4 DEF Waits, Reports, Complains, Places
<1>7. \A l \in DOMAIN launch : \A w \in Places : \A v \in Places :
          Has(p, w, l)' /\ Has(p, v, l)' => w = v
  BY <1>1, <1>2, <1>4 DEF MailboxInv, HeldOnce, Has, Waits, Reports, Places
<1> QED
  BY <1>2, <1>3, <1>5, <1>6, <1>7, MovesKeep, UnchangedLaunches

(* The stored launch is taken, or there is none.                           *)
LEMMA TakeKeeps ==
    ASSUME MailboxInv, NEW p \in Pages, Take(p)
    PROVE  MailboxInv'
<1> DEFINE r == IF page[p].stored = None
                THEN [page[p] EXCEPT !.start = "over", !.taken = None]
                ELSE [page[p] EXCEPT !.start = "opening", !.taken = page[p].stored,
                                     !.stored = None]
<1>1. /\ page[p] \in PageRecords /\ Knows(page[p]) /\ None \notin DOMAIN launch
      /\ page[p].start = "ready"
  BY PageFacts DEF Take, Starting
<1>2. /\ r \in PageRecords
      /\ r.step = page[p].step /\ r.hand = page[p].hand /\ r.stored = None
      /\ IF page[p].stored = None THEN r.start = "over"
         ELSE r.start = "opening" /\ r.taken = page[p].stored
  BY <1>1 DEF PageRecords
<1>3. Becomes(p, r) /\ launch' = launch
  BY DEF Take, Starts
<1> HIDE DEF r
<1>4. page'[p] = r
  BY <1>2, <1>3, BecomesFacts DEF MailboxInv
<1>5. Knows(r)
  BY <1>1, <1>2 DEF Knows
<1>6. \A l \in DOMAIN launch : \A w \in Places :
          /\ Waits(p, w, l)' => \E v \in Places : Waits(p, v, l)
          /\ Reports(p, w, l)' => \E v \in Places : Reports(p, v, l)
          /\ Complains(p, l)' => Complains(p, l)
  BY <1>1, <1>2, <1>4 DEF Waits, Reports, Complains, Places
<1>7. \A l \in DOMAIN launch : \A w \in Places : \A v \in Places :
          Has(p, w, l)' /\ Has(p, v, l)' => w = v
  BY <1>1, <1>2, <1>4 DEF MailboxInv, HeldOnce, Has, Waits, Reports, Places
<1> QED
  BY <1>2, <1>3, <1>5, <1>6, <1>7, MovesKeep, UnchangedLaunches

(* A page that is opened has nothing. *)
LEMMA OpenPageKeeps ==
    ASSUME MailboxInv, NEW p \in Pages, OpenPage(p)
    PROVE  MailboxInv'
<1> PICK where \in {"data", "other"}, native \in BOOLEAN : Becomes(p, Fresh(where, native, None))
  BY DEF OpenPage
<1> DEFINE r == Fresh(where, native, None)
<1>1. None \notin DOMAIN launch
  BY PageFacts
<1>2. /\ r \in PageRecords
      /\ r.step = "idle" /\ r.stored = None /\ r.start \in {"loading", "over"}
  BY FreshFacts
<1>3. Becomes(p, r) /\ launch' = launch
  BY DEF OpenPage
<1> HIDE DEF r
<1>4. page'[p] = r
  BY <1>2, <1>3, BecomesFacts DEF MailboxInv
<1>5. Knows(r)
  BY <1>1, <1>2 DEF Knows
<1>6. \A l \in DOMAIN launch : \A w \in Places :
          /\ Waits(p, w, l)' => \E v \in Places : Waits(p, v, l)
          /\ Reports(p, w, l)' => \E v \in Places : Reports(p, v, l)
          /\ Complains(p, l)' => Complains(p, l)
  BY <1>1, <1>2, <1>4 DEF Waits, Reports, Complains, Places
<1>7. \A l \in DOMAIN launch : \A w \in Places : \A v \in Places :
          Has(p, w, l)' /\ Has(p, v, l)' => w = v
  BY <1>1, <1>2, <1>4 DEF MailboxInv, HeldOnce, Has, Waits, Reports, Places
<1> QED
  BY <1>2, <1>3, <1>5, <1>6, <1>7, MovesKeep, UnchangedLaunches

(* A document that is unloaded marks what it had.                          *)
LEMMA LeftChanges ==
    ASSUME MailboxInv, NEW p \in Pages, NEW alsoStored \in BOOLEAN, Left(p, alsoStored)
    PROVE  SameLaunches
<1> PICK had : launch' = [l \in DOMAIN launch |->
                    IF l \in had THEN [launch[l] EXCEPT !.left = TRUE] ELSE launch[l]]
  BY DEF Left
<1>1. launch \in Seq(LaunchRecords) /\ Len(launch) \in Nat /\ DOMAIN launch = 1 .. Len(launch)
  BY DEF MailboxInv, MailboxTypes
<1>2. DOMAIN launch' = DOMAIN launch
  OBVIOUS
<1>3. ASSUME NEW l \in DOMAIN launch
      PROVE  /\ launch'[l] \in LaunchRecords
             /\ launch'[l].state = launch[l].state /\ launch'[l].kind = launch[l].kind
             /\ launch'[l].opened = launch[l].opened /\ launch'[l].outcome = launch[l].outcome
             /\ launch'[l].lost = launch[l].lost
  <2>1. launch[l] \in LaunchRecords
    BY <1>1
  <2>2. launch'[l] = launch[l] \/ launch'[l] = [launch[l] EXCEPT !.left = TRUE]
    OBVIOUS
  <2> QED
    BY <2>1, <2>2 DEF LaunchRecords
<1>4. launch' = [l \in 1 .. Len(launch) |-> launch'[l]]
  BY <1>1
<1>5. launch' \in [1 .. Len(launch) -> LaunchRecords]
  BY <1>1, <1>3, <1>4
<1>6. launch' \in Seq(LaunchRecords) /\ Len(launch') = Len(launch)
  BY <1>1, <1>5
<1> QED
  BY <1>2, <1>3, <1>6 DEF SameLaunches

(* What the tab has stored survives a navigation.                          *)
LEMMA UnloadKeeps ==
    ASSUME MailboxInv, NEW p \in Pages, Unload(p)
    PROVE  MailboxInv'
<1> DEFINE r == Fresh(page[p].going, page[p].native, page[p].stored)
<1>1. /\ page[p] \in PageRecords /\ Knows(page[p]) /\ None \notin DOMAIN launch
      /\ page[p].stored \in Launches \cup {None} /\ page[p].native \in BOOLEAN
      /\ page[p].going \in {"closed", "other", "data"}
  BY PageFacts DEF PageRecords, Unload
<1>2. /\ r \in PageRecords
      /\ r.step = "idle" /\ r.stored = page[p].stored /\ r.start \in {"loading", "over"}
  BY <1>1, FreshFacts
<1>3. Becomes(p, r) /\ SameLaunches
  BY LeftChanges DEF Unload
<1> HIDE DEF r
<1>4. page'[p] = r
  BY <1>2, <1>3, BecomesFacts DEF MailboxInv
<1>5. Knows(r)
  BY <1>1, <1>2 DEF Knows
<1>6. \A l \in DOMAIN launch : \A w \in Places :
          /\ Waits(p, w, l)' => \E v \in Places : Waits(p, v, l)
          /\ Reports(p, w, l)' => \E v \in Places : Reports(p, v, l)
          /\ Complains(p, l)' => Complains(p, l)
  BY <1>1, <1>2, <1>4 DEF Waits, Reports, Complains, Places
<1>7. \A l \in DOMAIN launch : \A w \in Places : \A v \in Places :
          Has(p, w, l)' /\ Has(p, v, l)' => w = v
  BY <1>1, <1>2, <1>4 DEF MailboxInv, HeldOnce, Has, Waits, Reports, Places
<1> QED
  BY <1>2, <1>3, <1>5, <1>6, <1>7, MovesKeep

(* A navigation that is scheduled changes nothing yet.                     *)
LEMMA LeaveKeeps ==
    ASSUME MailboxInv, NEW p \in Pages, Leave(p)
    PROVE  MailboxInv'
<1> PICK where \in {"data", "other"} : Becomes(p, [page[p] EXCEPT !.going = where])
  BY DEF Leave
<1> DEFINE r == [page[p] EXCEPT !.going = where]
<1>1. page[p] \in PageRecords /\ Knows(page[p])
  BY PageFacts
<1>2. /\ r \in PageRecords
      /\ r.step = page[p].step /\ r.hand = page[p].hand /\ r.stored = page[p].stored
      /\ r.start = page[p].start /\ r.taken = page[p].taken
  BY <1>1 DEF PageRecords
<1>3. Becomes(p, r) /\ launch' = launch
  BY DEF Leave
<1> HIDE DEF r
<1>4. page'[p] = r
  BY <1>2, <1>3, BecomesFacts DEF MailboxInv
<1>5. Knows(r)
  BY <1>1, <1>2 DEF Knows
<1>6. Shrinks(p, {})
  BY <1>2, <1>4 DEF Shrinks, Waits, Reports, Complains
<1> QED
  BY <1>2, <1>3, <1>5, <1>6, ShrinkingKeeps, UnchangedLaunches

(* A closed page has nothing.                                              *)
LEMMA ClosePageKeeps ==
    ASSUME MailboxInv, NEW p \in Pages, ClosePage(p)
    PROVE  MailboxInv'
<1> DEFINE r == Fresh("closed", FALSE, None)
<1>1. None \notin DOMAIN launch
  BY PageFacts
<1>2. /\ r \in PageRecords
      /\ r.step = "idle" /\ r.stored = None /\ r.start \in {"loading", "over"}
  BY FreshFacts
<1>3. Becomes(p, r) /\ SameLaunches
  BY LeftChanges DEF ClosePage
<1> HIDE DEF r
<1>4. page'[p] = r
  BY <1>2, <1>3, BecomesFacts DEF MailboxInv
<1>5. Knows(r)
  BY <1>1, <1>2 DEF Knows
<1>6. \A l \in DOMAIN launch : \A w \in Places :
          /\ Waits(p, w, l)' => \E v \in Places : Waits(p, v, l)
          /\ Reports(p, w, l)' => \E v \in Places : Reports(p, v, l)
          /\ Complains(p, l)' => Complains(p, l)
  BY <1>1, <1>2, <1>4 DEF Waits, Reports, Complains, Places
<1>7. \A l \in DOMAIN launch : \A w \in Places : \A v \in Places :
          Has(p, w, l)' /\ Has(p, v, l)' => w = v
  BY <1>1, <1>2, <1>4 DEF MailboxInv, HeldOnce, Has, Waits, Reports, Places
<1> QED
  BY <1>2, <1>3, <1>5, <1>6, <1>7, MovesKeep

(* An action that ran is reported complete, or complained of.              *)
LEMMA ReportingKeeps ==
    ASSUME MailboxInv, NEW p \in Pages, NEW l \in DOMAIN launch,
           launch[l].outcome = "opened" \/ launch[l].kind = "navigate",
           \/ /\ Answered(l, Completed(l, "complete"))
              /\ \E r \in PageRecords : Becomes(p, r) /\ Knows(r) /\ Shrinks(p, {})
           \/ /\ Fails(l, Completed(l, "complete"))
              /\ \E r \in PageRecords : Becomes(p, r) /\ Knows(r) /\ Shrinks(p, {l})
    PROVE  MailboxInv'
<1>1. /\ Completed(l, "complete") \in States
      /\ Completed(l, "complete") \in {launch[l].state, "complete"}
  BY CompletedFacts DEF MailboxInv, Answers
<1>2. Consistent(launch[l])
  BY DEF MailboxInv, LaunchesConsistent
<1>3. CASE /\ Answered(l, Completed(l, "complete"))
           /\ \E r \in PageRecords : Becomes(p, r) /\ Knows(r) /\ Shrinks(p, {})
  <2>1. Requested(l) /\ launch'[l].state = Completed(l, "complete")
    BY <1>1, <1>3, AnsweredFacts DEF MailboxInv
  <2>2. /\ Consistent(launch'[l])
        /\ launch[l].state # "pending" => launch'[l].state # "pending"
    BY <1>1, <1>2, <2>1, RequestIsConsistent
  <2> QED
    BY <1>3, <2>1, <2>2, RequestKeeps
<1>4. CASE /\ Fails(l, Completed(l, "complete"))
           /\ \E r \in PageRecords : Becomes(p, r) /\ Knows(r) /\ Shrinks(p, {l})
  <2>1. /\ Requested(l) /\ launch'[l].state \in {launch[l].state, Completed(l, "complete")}
        /\ launch'[l].lost
    BY <1>1, <1>4, FailsFacts DEF MailboxInv
  <2>2. Excused(launch'[l])
    BY <2>1 DEF Excused
  <2>3. /\ Consistent(launch'[l])
        /\ launch[l].state # "pending" => launch'[l].state # "pending"
    BY <1>1, <1>2, <2>1, RequestIsConsistent
  <2> QED
    BY <1>4, <2>1, <2>2, <2>3, RequestKeeps
<1> QED
  BY <1>3, <1>4

(* A launch that may be called failed is called so.                        *)
LEMMA ComplainingKeeps ==
    ASSUME MailboxInv, NEW p \in Pages, NEW l \in DOMAIN launch, Complains(p, l),
           Answered(l, Completed(l, "failed")) \/ Fails(l, Completed(l, "failed")),
           NEW r \in PageRecords, Becomes(p, r), Knows(r), Shrinks(p, {})
    PROVE  MailboxInv'
<1>1. /\ Completed(l, "failed") \in States
      /\ Completed(l, "failed") \in {launch[l].state, "failed"}
  BY CompletedFacts DEF MailboxInv, Answers
<1>2. Consistent(launch[l]) /\ Excused(launch[l])
  BY DEF MailboxInv, LaunchesConsistent, ComplaintsExcused
<1>3. Requested(l) /\ launch'[l].state \in {launch[l].state, "failed"}
  <2>1. CASE Answered(l, Completed(l, "failed"))
    BY <1>1, <2>1, AnsweredFacts DEF MailboxInv
  <2>2. CASE Fails(l, Completed(l, "failed"))
    BY <1>1, <2>2, FailsFacts DEF MailboxInv
  <2> QED
    BY <2>1, <2>2
<1>4. Excused(launch'[l])
  BY <1>2, <1>3 DEF Excused, Requested
<1>5. /\ Consistent(launch'[l])
      /\ launch[l].state # "pending" => launch'[l].state # "pending"
  BY <1>2, <1>3, <1>4, RequestIsConsistent
<1> QED
  BY <1>3, <1>5, RequestKeeps

(* What is reported from the hand leaves it. *)
LEMMA ReportKeeps ==
    ASSUME MailboxInv, NEW p \in Pages, Report(p)
    PROVE  MailboxInv'
<1>1. Knows(page[p]) /\ page[p].step = "report" /\ page[p].hand \in DOMAIN launch
  BY PageFacts DEF Report, Polling, Knows
<1> PICK l \in DOMAIN launch : l = page[p].hand
  BY <1>1
<1>2. launch[l].outcome = "opened"
  <2>1. Reports(p, "hand", l) /\ "hand" \in Places
    BY <1>1 DEF Reports, Places
  <2> QED
    BY <2>1 DEF MailboxInv, RunsLater
<1>3. \/ Answered(l, Completed(l, "complete")) /\ Polls(p, "idle", None)
      \/ Fails(l, Completed(l, "complete")) /\ Polls(p, "complain", l)
  BY DEF Report
<1> QED
  BY <1>2, <1>3, PollsShrinks, ReportingKeeps

(* So does what initialize took. *)
LEMMA ReportTakenKeeps ==
    ASSUME MailboxInv, NEW p \in Pages, ReportTaken(p)
    PROVE  MailboxInv'
<1>1. Knows(page[p]) /\ page[p].start = "report" /\ page[p].taken \in DOMAIN launch
  BY PageFacts DEF ReportTaken, Starting, Knows
<1> PICK l \in DOMAIN launch : l = page[p].taken
  BY <1>1
<1>2. launch[l].outcome = "opened"
  <2>1. Reports(p, "taken", l) /\ "taken" \in Places
    BY <1>1 DEF Reports, Places
  <2> QED
    BY <2>1 DEF MailboxInv, RunsLater
<1>3. \/ Answered(l, Completed(l, "complete")) /\ Starts(p, "over", None)
      \/ Fails(l, Completed(l, "complete")) /\ Starts(p, "complain", l)
  BY DEF ReportTaken
<1> QED
  BY <1>2, <1>3, StartsShrinks, ReportingKeeps

(* What is complained of is dropped. *)
LEMMA ComplainKeeps ==
    ASSUME MailboxInv, NEW p \in Pages, Complain(p)
    PROVE  MailboxInv'
<1>1. Knows(page[p]) /\ page[p].step = "complain" /\ page[p].hand \in DOMAIN launch
  BY PageFacts DEF Complain, Polling, Knows
<1> PICK l \in DOMAIN launch : l = page[p].hand
  BY <1>1
<1>2. PICK r \in PageRecords : Becomes(p, r) /\ Knows(r) /\ Shrinks(p, {})
  BY PollsShrinks DEF Complain
<1>3. /\ Complains(p, l)
      /\ Answered(l, Completed(l, "failed")) \/ Fails(l, Completed(l, "failed"))
  BY <1>1 DEF Complain, Complains
<1> QED
  BY <1>2, <1>3, ComplainingKeeps

(* The same of what initialize took.                                       *)
LEMMA ComplainTakenKeeps ==
    ASSUME MailboxInv, NEW p \in Pages, ComplainTaken(p)
    PROVE  MailboxInv'
<1>1. Knows(page[p]) /\ page[p].start = "complain" /\ page[p].taken \in DOMAIN launch
  BY PageFacts DEF ComplainTaken, Starting, Knows
<1> PICK l \in DOMAIN launch : l = page[p].taken
  BY <1>1
<1>2. PICK r \in PageRecords : Becomes(p, r) /\ Knows(r) /\ Shrinks(p, {})
  BY StartsShrinks DEF ComplainTaken
<1>3. /\ Complains(p, l)
      /\ Answered(l, Completed(l, "failed")) \/ Fails(l, Completed(l, "failed"))
  BY <1>1 DEF ComplainTaken, Complains
<1> QED
  BY <1>2, <1>3, ComplainingKeeps

(* A navigation is reported before the page is left.                       *)
LEMMA NavigateKeeps ==
    ASSUME MailboxInv, NEW p \in Pages, Navigate(p)
    PROVE  MailboxInv'
<1>1. /\ page[p] \in PageRecords /\ Knows(page[p]) /\ None \notin DOMAIN launch
      /\ page[p].step = "execute" /\ page[p].hand \in DOMAIN launch
  BY PageFacts DEF Navigate, Polling, Knows
<1> PICK l \in DOMAIN launch : l = page[p].hand
  BY <1>1
<1>2. launch[l].kind = "navigate"
  BY DEF Navigate
<1>3. ASSUME NEW where \in {"data", "other"}, Schedules(p, where, page[p].stored)
      PROVE  \E r \in PageRecords : Becomes(p, r) /\ Knows(r) /\ Shrinks(p, {})
  <2> DEFINE r == [page[p] EXCEPT !.step = "idle", !.hand = None, !.stored = page[p].stored,
                                  !.going = where]
  <2>1. /\ r \in PageRecords /\ r.step = "idle" /\ r.stored = page[p].stored
        /\ r.start = page[p].start /\ r.taken = page[p].taken
    BY <1>1 DEF PageRecords
  <2>2. Becomes(p, r)
    BY <1>3 DEF Schedules
  <2> HIDE DEF r
  <2>3. page'[p] = r
    BY <2>1, <2>2, BecomesFacts DEF MailboxInv
  <2>4. Knows(r)
    BY <1>1, <2>1 DEF Knows
  <2>5. Shrinks(p, {})
    BY <2>1, <2>3 DEF Shrinks, Waits, Reports, Complains
  <2> QED
    BY <2>1, <2>2, <2>4, <2>5
<1>4. \/ /\ Answered(l, Completed(l, "complete"))
         /\ \E where \in {"data", "other"} : Schedules(p, where, page[p].stored)
      \/ Fails(l, Completed(l, "complete")) /\ Polls(p, "complain", l)
      \/ Polls(p, "idle", None) /\ launch' = launch
  BY DEF Navigate
<1>5. CASE Polls(p, "idle", None) /\ launch' = launch
  BY <1>5, PollsShrinks, ShrinkingKeeps, UnchangedLaunches
<1> QED
  BY <1>2, <1>3, <1>4, <1>5, PollsShrinks, ReportingKeeps

(* The action of the launch in hand has run. *)
LEMMA FinishHandledKeeps ==
    ASSUME MailboxInv, NEW p \in Pages, FinishHandled(p)
    PROVE  MailboxInv'
<1>1. /\ page[p] \in PageRecords /\ Knows(page[p]) /\ None \notin DOMAIN launch
      /\ page[p].step = "opening" /\ page[p].hand \in DOMAIN launch
  BY PageFacts DEF FinishHandled, Polling, Starting, Knows
<1> PICK l \in DOMAIN launch : l = page[p].hand
  BY <1>1
<1>0. PICK result \in {"opened", "error"} :
         Ran(l, result) /\ Polls(p, Then(result), l)
  BY DEF FinishHandled
<1> DEFINE r == [page[p] EXCEPT !.step = Then(result), !.hand = l]
<1>2. /\ r \in PageRecords
      /\ r.step = Then(result) /\ r.hand = l /\ r.stored = page[p].stored
      /\ r.start = page[p].start /\ r.taken = page[p].taken
  <2>1. Then(result) \in {"report", "complain"} /\ l \in Launches
    BY <1>1, PageFacts DEF Then
  <2> QED
    BY <1>1, <2>1 DEF PageRecords
<1>3. Becomes(p, r)
  BY <1>0 DEF Polls
<1> HIDE DEF r
<1>4. page'[p] = r
  BY <1>2, <1>3, BecomesFacts DEF MailboxInv
<1>5. Knows(r)
  BY <1>1, <1>2 DEF Knows
<1>6. Waits(p, "hand", l) /\ Has(p, "hand", l) /\ "hand" \in Places
  BY <1>1 DEF Has, Waits, Reports, Places
<1>7. /\ result = "opened" => r.step = "report"
      /\ result = "error" => r.step = "complain"
      /\ r.step \in {"report", "complain"}
  BY <1>2 DEF Then
<1>8. \A k \in DOMAIN launch : \A v \in Places :
          k # l => /\ Waits(p, v, k)' => Waits(p, v, k)
                   /\ Reports(p, v, k)' => Reports(p, v, k)
  BY <1>1, <1>2, <1>4 DEF Waits, Reports
<1>9. /\ \A k \in DOMAIN launch : Complains(p, k)' => Complains(p, k) \/ k = l
      /\ \/ result = "opened" /\ \A k \in DOMAIN launch : Complains(p, k)' => Complains(p, k)
         \/ result = "error" /\ ~Reports(p, "hand", l)'
  BY <1>2, <1>4, <1>7 DEF Reports, Complains
<1>10. \A v \in Places : ~Waits(p, v, l)' /\ (v # "hand" => ~Has(p, v, l)')
  <2>1. \A v \in Places : v # "hand" => ~Has(p, v, l)
    BY <1>6 DEF MailboxInv, HeldOnce
  <2> QED
    BY <1>1, <1>2, <1>4, <1>7, <2>1 DEF Has, Waits, Reports, Places
<1> QED
  BY <1>0, <1>2, <1>3, <1>5, <1>6, <1>8, <1>9, <1>10, RunningKeeps

(* The action of the launch that was taken has run. *)
LEMMA FinishTakenKeeps ==
    ASSUME MailboxInv, NEW p \in Pages, FinishTaken(p)
    PROVE  MailboxInv'
<1>1. /\ page[p] \in PageRecords /\ Knows(page[p]) /\ None \notin DOMAIN launch
      /\ page[p].start = "opening" /\ page[p].taken \in DOMAIN launch
  BY PageFacts DEF FinishTaken, Polling, Starting, Knows
<1> PICK l \in DOMAIN launch : l = page[p].taken
  BY <1>1
<1>0. PICK result \in {"opened", "error"} :
         Ran(l, result) /\ Starts(p, Then(result), l)
  BY DEF FinishTaken
<1> DEFINE r == [page[p] EXCEPT !.start = Then(result), !.taken = l]
<1>2. /\ r \in PageRecords
      /\ r.start = Then(result) /\ r.taken = l /\ r.stored = page[p].stored
      /\ r.step = page[p].step /\ r.hand = page[p].hand
  <2>1. Then(result) \in {"report", "complain"} /\ l \in Launches
    BY <1>1, PageFacts DEF Then
  <2> QED
    BY <1>1, <2>1 DEF PageRecords
<1>3. Becomes(p, r)
  BY <1>0 DEF Starts
<1> HIDE DEF r
<1>4. page'[p] = r
  BY <1>2, <1>3, BecomesFacts DEF MailboxInv
<1>5. Knows(r)
  BY <1>1, <1>2 DEF Knows
<1>6. Waits(p, "taken", l) /\ Has(p, "taken", l) /\ "taken" \in Places
  BY <1>1 DEF Has, Waits, Reports, Places
<1>7. /\ result = "opened" => r.start = "report"
      /\ result = "error" => r.start = "complain"
      /\ r.start \in {"report", "complain"}
  BY <1>2 DEF Then
<1>8. \A k \in DOMAIN launch : \A v \in Places :
          k # l => /\ Waits(p, v, k)' => Waits(p, v, k)
                   /\ Reports(p, v, k)' => Reports(p, v, k)
  BY <1>1, <1>2, <1>4 DEF Waits, Reports
<1>9. /\ \A k \in DOMAIN launch : Complains(p, k)' => Complains(p, k) \/ k = l
      /\ \/ result = "opened" /\ \A k \in DOMAIN launch : Complains(p, k)' => Complains(p, k)
         \/ result = "error" /\ ~Reports(p, "taken", l)'
  BY <1>2, <1>4, <1>7 DEF Reports, Complains
<1>10. \A v \in Places : ~Waits(p, v, l)' /\ (v # "taken" => ~Has(p, v, l)')
  <2>1. \A v \in Places : v # "taken" => ~Has(p, v, l)
    BY <1>6 DEF MailboxInv, HeldOnce
  <2> QED
    BY <1>1, <1>2, <1>4, <1>7, <2>1 DEF Has, Waits, Reports, Places
<1> QED
  BY <1>0, <1>2, <1>3, <1>5, <1>6, <1>8, <1>9, <1>10, RunningKeeps

(* Every step keeps the invariant.                                         *)
LEMMA MailboxStep == MailboxInv /\ [MailboxNext]_mailboxVars => MailboxInv'
<1> SUFFICES ASSUME MailboxInv, [MailboxNext]_mailboxVars PROVE MailboxInv'
  OBVIOUS
<1>1. CASE UNCHANGED mailboxVars
  BY <1>1 DEF mailboxVars, MailboxInv, MailboxTypes, HeldOnce, RunsLater, LaunchesConsistent,
     ComplaintsExcused, Has, Waits, Reports, Complains
<1>2. ASSUME NEW kind \in {"data", "navigate"}, Publish(kind) PROVE MailboxInv'
  BY <1>2, PublishKeeps
<1>3. ASSUME NEW p \in Pages, PageStep(p) PROVE MailboxInv'
  BY <1>3, PollKeeps, ClaimKeeps, NavigateKeeps, HandleKeeps, DeferKeeps, FinishHandledKeeps,
     ReportKeeps, ComplainKeeps DEF PageStep
<1>4. ASSUME NEW p \in Pages, StartStep(p) PROVE MailboxInv'
  BY <1>4, LoadKeeps, TakeKeeps, StartFailsKeeps, FinishTakenKeeps, ReportTakenKeeps,
     ComplainTakenKeeps DEF StartStep
<1>5. ASSUME NEW p \in Pages, Unload(p) \/ OpenPage(p) \/ Leave(p) \/ ClosePage(p)
      PROVE  MailboxInv'
  BY <1>5, UnloadKeeps, OpenPageKeeps, LeaveKeeps, ClosePageKeeps
<1> QED
  BY <1>1, <1>2, <1>3, <1>4, <1>5 DEF MailboxNext

(* The invariant holds always, with or without fairness.                   *)
LEMMA MailboxInvariant == MailboxSpec => []MailboxInv
BY MailboxStarts, MailboxStep, PTL DEF MailboxSpec

(* However many pages see a launch, its action runs at most once.          *)
THEOREM ALaunchRunsAtMostOnce == MailboxSpec => []RunsAtMostOnce
<1>1. MailboxInv => RunsAtMostOnce
  BY DEF MailboxInv, LaunchesConsistent, Consistent, RunsAtMostOnce
<1> QED
  BY <1>1, MailboxInvariant, PTL

(* Whatever requests fail, the command is told that its action opened only *)
(* when it did, and that it failed only when it raised an error or a       *)
(* request about it failed. *)
THEOREM TheCommandIsToldTheTruth == MailboxSpec => []AnswerIsTrue
<1>1. ASSUME MailboxInv PROVE AnswerIsTrue
  <2>1. \A l \in DOMAIN launch :
            /\ Consistent(launch[l])
            /\ Told(l) \in Answers => Told(l) = launch[l].state
    BY <1>1 DEF MailboxInv, LaunchesConsistent, Told, Answers
  <2> QED
    BY <2>1 DEF AnswerIsTrue, Consistent, Excused, Answers
<1> QED
  BY <1>1, MailboxInvariant, PTL
=============================================================================
