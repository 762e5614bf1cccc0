---------------------------- MODULE LaunchMailbox ----------------------------
(***************************************************************************)
(* How `bazaar` commands hand an action to a terminal that is already      *)
(* open: the command publishes a launch in the server's mailbox and asks   *)
(* for its state; every open page asks for the latest launch twice a       *)
(* second, and the one that claims it carries it out.                      *)
(*                                                                         *)
(* An action on data needs the session of the /data page.  Another page    *)
(* stores the launch in its tab's sessionStorage and goes to /data, which  *)
(* takes it once it has loaded.  A navigation is only scheduled by the     *)
(* page: its old document goes on until it is unloaded.                    *)
(*                                                                         *)
(* Any request of a page may fail, before or after the server has handled  *)
(* it; the page cannot tell, and reports an error.                         *)
(*                                                                         *)
(* Launches are numbered in the order they are published.                  *)
(***************************************************************************)
EXTENDS Naturals, Sequences

CONSTANTS
    Pages,             \* browser tabs
    MaxKept,           \* launches the mailbox keeps (twenty in the code)
    MaxLaunches,       \* bound: launches published in all
    MaxInterruptions   \* bound: pages closed or reloaded by their user, and requests that fail

ASSUME MailboxAssumption ==
    /\ MaxKept \in Nat \ {0}
    /\ MaxLaunches \in Nat
    /\ MaxInterruptions \in Nat

VARIABLES
    kept,          \* the launches the mailbox holds, oldest first
    launch,        \* everything about each published launch
    page,          \* page -> where it is and what it is doing
    interruptions

mailboxVars == <<kept, launch, page, interruptions>>

None == 0                         \* no launch
Launches == 1 .. MaxLaunches
Answers == {"complete", "failed"}

(* opened counts how often the action ran, and outcome is how it ended;    *)
(* left says that the document that had it was unloaded, lost that a       *)
(* request about it failed. *)
LaunchRecords ==
    [kind : {"data", "navigate"},
     state : {"pending", "processing"} \cup Answers,
     opened : Nat,
     outcome : {"none", "opened", "error"},
     left : BOOLEAN,
     lost : BOOLEAN]

(* at: the page, or none; native: it has the cookie of the native session; *)
(* session and start: the session of /data and the progress of its         *)
(* initialize, with the launch it took; step and hand: the progress of     *)
(* pollTerminalOpen and its launch; stored: sessionStorage; going: where a *)
(* scheduled navigation leads. *)
PageRecords ==
    [at : {"closed", "other", "data"}, native : BOOLEAN, session : BOOLEAN,
     start : {"loading", "ready", "opening", "report", "complain", "over"},
     taken : Launches \cup {None},
     step : {"idle", "claim", "execute", "opening", "report", "complain"},
     hand : Launches \cup {None},
     stored : Launches \cup {None}, going : {"nowhere", "other", "data"}]

MailboxTypeOK ==
    /\ kept \in Seq(Launches)
    /\ launch \in Seq(LaunchRecords)
    /\ page \in [Pages -> PageRecords]
    /\ interruptions \in 0 .. MaxInterruptions

Latest == Len(launch)
Kept(l) == \E i \in DOMAIN kept : kept[i] = l

(* A page at `where` that has just been loaded, in a tab with a stored     *)
(* launch. *)
Fresh(where, native, stored) ==
    [at |-> where, native |-> native, session |-> FALSE,
     start |-> IF where = "data" THEN "loading" ELSE "over", taken |-> None,
     step |-> "idle", hand |-> None, stored |-> stored, going |-> "nowhere"]

MailboxInit ==
    /\ kept = <<>>
    /\ launch = <<>>
    /\ page = [p \in Pages |-> Fresh("closed", FALSE, None)]
    /\ interruptions = 0

Open(p) == page[p].at # "closed"
Polling(p, step) == Open(p) /\ page[p].step = step
Starting(p, start) == page[p].at = "data" /\ page[p].start = start

(* Page p becomes r. *)
Becomes(p, r) == page' = [page EXCEPT ![p] = r]

(* Its pollTerminalOpen goes on to `step` with launch l. *)
Polls(p, step, l) == Becomes(p, [page[p] EXCEPT !.step = step, !.hand = l])

(* Its initialize goes on to `start` with launch l. *)
Starts(p, start, l) == Becomes(p, [page[p] EXCEPT !.start = start, !.taken = l])

(* The state of launch l once the server has completed it with a verdict;  *)
(* a launch that is not kept any more is not found. *)
Completed(l, verdict) ==
    IF Kept(l) /\ launch[l].state \in {"pending", "processing"} THEN verdict ELSE launch[l].state

(* A request that takes launch l to state s is answered, *)
Answered(l, s) ==
    /\ launch' = [launch EXCEPT ![l].state = s]
    /\ UNCHANGED interruptions

Interrupted ==
    /\ interruptions < MaxInterruptions
    /\ interruptions' = interruptions + 1

(* or fails, and the server may or may not have handled it. *)
Fails(l, s) ==
    /\ \E state \in {launch[l].state, s} :
          launch' = [launch EXCEPT ![l].state = state, ![l].lost = TRUE]
    /\ Interrupted

-----------------------------------------------------------------------------
(* Commands.                                                               *)

(* publish: the mailbox forgets its oldest launch. *)
Publish(kind) ==
    /\ Latest < MaxLaunches
    /\ launch' = Append(launch, [kind |-> kind, state |-> "pending", opened |-> 0,
                                 outcome |-> "none", left |-> FALSE, lost |-> FALSE])
    /\ kept' = IF Len(kept) < MaxKept THEN Append(kept, Latest + 1)
               ELSE Append(Tail(kept), Latest + 1)
    /\ UNCHANGED <<page, interruptions>>

(* The command asks for the state of its launch again and again, until it  *)
(* is told how it ended, for sixty seconds, or until the launch is not     *)
(* found any more. *)
Told(l) == IF Kept(l) /\ launch[l].state \in Answers THEN launch[l].state ELSE "nothing"

-----------------------------------------------------------------------------
(* pollTerminalOpen.                                                       *)

(* The latest launch, when it is pending. *)
Poll(p) ==
    /\ Polling(p, "idle")
    /\ Latest # None
    /\ launch[Latest].state = "pending"
    /\ Polls(p, "claim", Latest)
    /\ UNCHANGED <<kept, launch, interruptions>>

\* Mutant of Claimable: the state is not looked at.
ClaimableKept(l) == Kept(l)

(* What claim requires. *)
Claimable(l) == Kept(l) /\ launch[l].state = "pending"

(* 403 without the native session; 409 when another page, or forgetting,   *)
(* came first. *)
Claim(p) ==
    LET l == page[p].hand
    IN /\ Polling(p, "claim")
       /\ \/ /\ page[p].native /\ Claimable(l)
             /\ Answered(l, "processing")
             /\ Polls(p, "execute", l)
          \/ /\ ~(page[p].native /\ Claimable(l))
             /\ Polls(p, "idle", None)
             /\ UNCHANGED <<launch, interruptions>>
          \/ /\ Fails(l, IF page[p].native /\ Claimable(l) THEN "processing" ELSE launch[l].state)
             /\ Polls(p, "complain", l)
       /\ UNCHANGED kept

(* The page schedules a navigation, over one scheduled before, and stores  *)
(* launch s in its tab; pollTerminalOpen is over. *)
Schedules(p, where, s) ==
    Becomes(p, [page[p] EXCEPT !.step = "idle", !.hand = None, !.stored = s, !.going = where])

(* A navigation is reported before the page is left; when it cannot be     *)
(* reported the page stays. *)
Navigate(p) ==
    LET l == page[p].hand
    IN /\ Polling(p, "execute")
       /\ launch[l].kind = "navigate"
       /\ \/ /\ Kept(l)
             /\ Answered(l, Completed(l, "complete"))
             /\ \E where \in {"data", "other"} : Schedules(p, where, page[p].stored)
          \/ /\ ~Kept(l)
             /\ Polls(p, "idle", None)
             /\ UNCHANGED <<launch, interruptions>>
          \/ /\ Fails(l, Completed(l, "complete"))
             /\ Polls(p, "complain", l)
       /\ UNCHANGED kept

(* The /data session takes the action. *)
Handle(p) ==
    /\ Polling(p, "execute")
    /\ launch[page[p].hand].kind = "data"
    /\ page[p].session
    /\ Polls(p, "opening", page[p].hand)
    /\ UNCHANGED <<kept, launch, interruptions>>

\* Mutant of Defer: the page goes to /data without the launch.
DeferNothing(p) ==
    /\ Polling(p, "execute")
    /\ launch[page[p].hand].kind = "data"
    /\ ~page[p].session
    /\ Schedules(p, "data", None)
    /\ UNCHANGED <<kept, launch, interruptions>>

(* No session: the launch is stored for /data, over one stored before. *)
Defer(p) ==
    /\ Polling(p, "execute")
    /\ launch[page[p].hand].kind = "data"
    /\ ~page[p].session
    /\ Schedules(p, "data", page[p].hand)
    /\ UNCHANGED <<kept, launch, interruptions>>

(* The action of launch l has run in a page, and what is left to do there. *)
Ran(l, result) == launch' = [launch EXCEPT ![l].outcome = result, ![l].opened = @ + 1]
Then(result) == IF result = "opened" THEN "report" ELSE "complain"

FinishHandled(p) ==
    /\ Polling(p, "opening")
    /\ \E result \in {"opened", "error"} :
          Ran(page[p].hand, result) /\ Polls(p, Then(result), page[p].hand)
    /\ UNCHANGED <<kept, interruptions>>

(* completeTerminalOpen with the message.  A launch that is not kept is    *)
(* not found, and the error that makes of it finds none either. *)
Report(p) ==
    LET l == page[p].hand
    IN /\ Polling(p, "report")
       /\ \/ Answered(l, Completed(l, "complete")) /\ Polls(p, "idle", None)
          \/ Fails(l, Completed(l, "complete")) /\ Polls(p, "complain", l)
       /\ UNCHANGED kept

\* Mutant of Complain: the error is reported without its text.
ComplainOfNothing(p) ==
    LET l == page[p].hand
    IN /\ Polling(p, "complain")
       /\ Answered(l, Completed(l, "complete")) \/ Fails(l, Completed(l, "complete"))
       /\ Polls(p, "idle", None)
       /\ UNCHANGED kept

(* The catch: of an action that raised, and of any request that failed. *)
Complain(p) ==
    LET l == page[p].hand
    IN /\ Polling(p, "complain")
       /\ Answered(l, Completed(l, "failed")) \/ Fails(l, Completed(l, "failed"))
       /\ Polls(p, "idle", None)
       /\ UNCHANGED kept

-----------------------------------------------------------------------------
(* initialize, on /data.                                                   *)

(* The session is read, or cannot be. *)
Load(p) ==
    /\ Starting(p, "loading")
    /\ \/ Becomes(p, [page[p] EXCEPT !.start = "ready", !.session = TRUE])
       \/ Becomes(p, [page[p] EXCEPT !.start = "over"])
    /\ UNCHANGED <<kept, launch, interruptions>>

(* takePendingAction. *)
Take(p) ==
    /\ Starting(p, "ready")
    /\ IF page[p].stored = None THEN Starts(p, "over", None)
       ELSE Becomes(p, [page[p] EXCEPT !.start = "opening", !.taken = page[p].stored,
                                       !.stored = None])
    /\ UNCHANGED <<kept, launch, interruptions>>

(* Something between the session and takePendingAction raises: the stored  *)
(* launch stays. *)
StartFails(p) ==
    /\ Starting(p, "ready")
    /\ Starts(p, "over", None)
    /\ UNCHANGED <<kept, launch, interruptions>>

FinishTaken(p) ==
    /\ Starting(p, "opening")
    /\ \E result \in {"opened", "error"} :
          Ran(page[p].taken, result) /\ Starts(p, Then(result), page[p].taken)
    /\ UNCHANGED <<kept, interruptions>>

ReportTaken(p) ==
    LET l == page[p].taken
    IN /\ Starting(p, "report")
       /\ \/ Answered(l, Completed(l, "complete")) /\ Starts(p, "over", None)
          \/ Fails(l, Completed(l, "complete")) /\ Starts(p, "complain", l)
       /\ UNCHANGED kept

ComplainTaken(p) ==
    LET l == page[p].taken
    IN /\ Starting(p, "complain")
       /\ Answered(l, Completed(l, "failed")) \/ Fails(l, Completed(l, "failed"))
       /\ Starts(p, "over", None)
       /\ UNCHANGED kept

-----------------------------------------------------------------------------
(* Documents and users.                                                    *)

OpenPage(p) ==
    /\ ~Open(p)
    /\ \E where \in {"data", "other"}, native \in BOOLEAN : Becomes(p, Fresh(where, native, None))
    /\ UNCHANGED <<kept, launch, interruptions>>

(* Nothing goes on with the launches l that page p had. *)
Left(p, alsoStored) ==
    LET had == {page[p].hand, page[p].taken} \cup (IF alsoStored THEN {page[p].stored} ELSE {})
    IN launch' = [l \in DOMAIN launch |->
           IF l \in had THEN [launch[l] EXCEPT !.left = TRUE] ELSE launch[l]]

(* The new document replaces the old one; its sessionStorage survives. *)
Unload(p) ==
    /\ Open(p)
    /\ page[p].going # "nowhere"
    /\ Becomes(p, Fresh(page[p].going, page[p].native, page[p].stored))
    /\ Left(p, FALSE)
    /\ UNCHANGED <<kept, interruptions>>

(* The page is reloaded, or its user goes elsewhere in the terminal. *)
Leave(p) ==
    /\ Open(p)
    /\ Interrupted
    /\ \E where \in {"data", "other"} : Becomes(p, [page[p] EXCEPT !.going = where])
    /\ UNCHANGED <<kept, launch>>

ClosePage(p) ==
    /\ Open(p)
    /\ Interrupted
    /\ Becomes(p, Fresh("closed", FALSE, None))
    /\ Left(p, TRUE)
    /\ UNCHANGED kept

-----------------------------------------------------------------------------
(* What a page does by itself. *)
PageStep(p) ==
    \/ Poll(p)
    \/ Claim(p)
    \/ Navigate(p)
    \/ Handle(p)
    \/ Defer(p)
    \/ FinishHandled(p)
    \/ Report(p)
    \/ Complain(p)

StartStep(p) ==
    \/ Load(p)
    \/ Take(p)
    \/ StartFails(p)
    \/ FinishTaken(p)
    \/ ReportTaken(p)
    \/ ComplainTaken(p)

MailboxNext ==
    \/ \E kind \in {"data", "navigate"} : Publish(kind)
    \/ \E p \in Pages :
          \/ PageStep(p) \/ StartStep(p) \/ Unload(p)
          \/ OpenPage(p) \/ Leave(p) \/ ClosePage(p)

(* Timers and requests of an open page go on, and a scheduled navigation   *)
(* is carried out; commands and users need not. *)
MailboxFairness ==
    \A p \in Pages :
        /\ WF_mailboxVars(PageStep(p))
        /\ WF_mailboxVars(StartStep(p))
        /\ WF_mailboxVars(Unload(p))

MailboxSpec == MailboxInit /\ [][MailboxNext]_mailboxVars /\ MailboxFairness

-----------------------------------------------------------------------------
(* Properties.                                                             *)

(* However many pages see a launch, its action runs at most once, in one   *)
(* page, through the detour over sessionStorage too. *)
RunsAtMostOnce == \A l \in DOMAIN launch : launch[l].opened <= 1

(* What the command is told, whenever it asks, is what happened: "opened"  *)
(* only when the action ran without an error; a failure only when it       *)
(* raised one, or when a request about the launch failed, of which the     *)
(* page cannot know whether it counted (then an action that ran may be     *)
(* called failed). *)
AnswerIsTrue ==
    \A l \in DOMAIN launch :
        launch[l].kind = "data" =>
            /\ Told(l) = "complete" => launch[l].outcome = "opened"
            /\ Told(l) = "failed" => launch[l].outcome = "error" \/ launch[l].lost

(* Launch l waits in a tab whose page does not take it, and stays. *)
Stranded(l) ==
    \E p \in Pages :
        /\ page[p].stored = l
        /\ page[p].going = "nowhere"
        /\ page[p].at # "data" \/ page[p].start = "over"

(* The last launch published is answered, while a page of the native       *)
(* session is open, unless a request about it fails, its document is       *)
(* unloaded with it in hand, by its user or by a navigation under way, or  *)
(* the /data page it is stored for cannot start. *)
LatestIsAnswered ==
    Latest # None ~>
        \/ \E l \in DOMAIN launch :
              /\ l = Latest
              /\ \/ launch[l].state \in Answers
                 \/ launch[l].left \/ launch[l].lost
                 \/ Stranded(l)
        \/ \A p \in Pages : ~(Open(p) /\ page[p].native)
=============================================================================
