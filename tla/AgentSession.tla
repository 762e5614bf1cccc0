---------------------------- MODULE AgentSession ----------------------------
(***************************************************************************)
(* The agent of the terminal: one session, one response at a time, and the *)
(* pages that show it.                                                     *)
(*                                                                         *)
(* Everything on the server runs in one event loop; an action is what runs *)
(* between two awaits.  A page has a queue of messages on the server, a    *)
(* task that sends them, and a task that receives what the page asks for.  *)
(*                                                                         *)
(* An event is its number, and its text is cut into the parts it came in.  *)
(* The message that announces an event holds the session's own dictionary: *)
(* its text is read when the message is sent.                              *)
(***************************************************************************)
EXTENDS Naturals, Sequences, SequencesExt

CONSTANTS
    Views,       \* pages
    Watched,     \* those whose queue and display are followed; the others only ask,
                 \* and need not do so
    QueueSize,   \* maxsize of a listener's queue
    MaxEvents,   \* MAX_EVENTS, and MAX_AGENT_EVENTS of the page
    MaxHeap,     \* bound: events emitted in all
    MaxParts     \* bound: parts of one event

ASSUME SessionAssumption ==
    /\ Watched \subseteq Views
    /\ QueueSize \in Nat \ {0}
    /\ MaxEvents \in Nat \ {0}
    /\ MaxHeap \in Nat
    /\ MaxParts \in Nat

VARIABLES
    heap,        \* the events ever emitted: their kind and parts
    session,     \* the AgentSession
    view         \* view -> its server tasks and its page

agentVars == <<heap, session, view>>

Kinds == {"user", "text", "tool", "note"}
States == {"idle", "starting", "working", "stopping", "error"}
BusyStates == {"starting", "working", "stopping"}

(* task is where _run is: "mode" is set-mode and the start of the prompt's *)
(* process, "renew" the new session after a stale queue. *)
Tasks == {"none", "created", "ensure", "mode", "prompt", "renew"}

(* No page. *)
Away == [on |-> FALSE, loop |-> "open", queue |-> <<>>,
         state |-> "idle", submitting |-> FALSE, rows |-> <<>>]

AgentInit ==
    /\ heap = <<>>
    /\ session = [state |-> "idle", events |-> <<>>, ensured |-> FALSE,
                  task |-> "none", retried |-> FALSE, tool |-> 0]
    /\ view = [v \in Views |-> [Away EXCEPT !.on = v \notin Watched]]

(* The row of event e, with its parts as they are in h. *)
Row(h, e) ==
    [id |-> e,
     parts |-> IF h[e].kind = "tool" THEN <<h[e].parts>> ELSE [i \in 1 .. h[e].parts |-> i]]

(* The events kept. *)
Trimmed(s) == IF Len(s) > MaxEvents THEN SubSeq(s, Len(s) - MaxEvents + 1, Len(s)) ELSE s

-----------------------------------------------------------------------------
(* What a handler does between two awaits is a sequence of changes to a    *)
(* draft: the session's record s, its events h, and the pages w.           *)
Draft == [s |-> session, h |-> heap, w |-> view]

Snapshot(s, h) ==
    [type |-> "snapshot", state |-> s.state,
     rows |-> [i \in DOMAIN s.events |-> Row(h, s.events[i])]]

\* Mutant of Queued: a message that does not fit is dropped.
QueuedOrDropped(queue, message, snapshot) ==
    IF Len(queue) = QueueSize THEN queue ELSE Append(queue, message)

(* A full queue is emptied, and gets one snapshot. *)
Queued(queue, message, snapshot) ==
    IF Len(queue) = QueueSize THEN <<snapshot>> ELSE Append(queue, message)

(* Every page that listens gets the message in its queue. *)
Broadcast(d, message) ==
    LET heard(w) == [w EXCEPT !.queue = Queued(@, message, Snapshot(d.s, d.h))]
    IN [d EXCEPT !.w = [v \in Views |->
           IF v \in Watched /\ d.w[v].on THEN heard(d.w[v]) ELSE d.w[v]]]

SetState(d, state) ==
    Broadcast([d EXCEPT !.s.state = state], [type |-> "state", state |-> state])

Emit(d, kind) ==
    LET e == Len(d.h) + 1
    IN Broadcast([d EXCEPT !.h = Append(@, [kind |-> kind, parts |-> 1]),
                           !.s.events = Trimmed(Append(@, e))],
                 [type |-> "event", id |-> e])

Task(d, task) == [d EXCEPT !.s.task = task]

Commit(d) ==
    /\ session' = d.s
    /\ heap' = d.h
    /\ view' = d.w

Room == Len(heap) + 1 < MaxHeap      \* for one event, and an error

-----------------------------------------------------------------------------
(* _run.                                                                   *)

RunBegins ==
    LET d == SetState(Emit(Draft, "user"), "starting")
    IN /\ session.task = "created"
       /\ Commit(IF session.ensured THEN Task(SetState(d, "working"), "mode")
                 ELSE Task(d, "ensure"))

(* Any error but a stale queue on the first attempt ends the response. *)
RunFails ==
    /\ session.task \in {"ensure", "mode", "prompt", "renew"}
    /\ Commit(Task(SetState(Emit(Draft, "note"), "error"), "none"))

RunEnsured ==
    /\ session.task = "ensure"
    /\ Commit(Task(SetState([Draft EXCEPT !.s.ensured = TRUE], "working"), "mode"))

PromptStarts ==
    /\ session.task = "mode"
    /\ Commit(Task(Draft, "prompt"))

(* _append_assistant: a part of a message is added to the last event, when *)
(* that is a message of the agent, or emitted. *)
Text ==
    LET last == IF session.events = <<>> THEN 0 ELSE Last(session.events)
        more == [Draft EXCEPT !.h[last].parts = @ + 1]
    IN /\ session.task = "prompt"
       /\ IF last # 0 /\ heap[last].kind = "text"
          THEN /\ heap[last].parts < MaxParts
               /\ Commit(Broadcast(more, [type |-> "append", id |-> last,
                                          part |-> heap[last].parts + 1]))
          ELSE Room /\ Commit(Emit(Draft, "text"))

\* Mutant of Tool: the row is looked up, but a new one always remembered.
ToolAlwaysEmitted ==
    /\ session.task = "prompt"
    /\ Room
    /\ Commit([Emit(Draft, "tool") EXCEPT !.s.tool = Len(heap) + 1])

(* _upsert_tool, for the calls of one tool: its row is replaced while the  *)
(* session still has it. *)
Tool ==
    LET e == session.tool
        more == [Draft EXCEPT !.h[e].parts = @ + 1]
    IN /\ session.task = "prompt"
       /\ IF Contains(session.events, e)
          THEN /\ heap[e].parts < MaxParts
               /\ Commit(Broadcast(more, [type |-> "replace", row |-> Row(more.h, e)]))
          ELSE /\ Room
               /\ Commit([Emit(Draft, "tool") EXCEPT !.s.tool = Len(heap) + 1])

(* A permission request, or an error the agent goes on after. *)
Note ==
    /\ session.task = "prompt"
    /\ Room
    /\ Commit(Emit(Draft, "note"))

PromptEnds ==
    /\ session.task = "prompt"
    /\ Commit(Task(SetState(Draft, "idle"), "none"))

StaleQueue ==
    /\ session.task = "prompt"
    /\ ~session.retried
    /\ Commit(Task([Draft EXCEPT !.s.retried = TRUE], "renew"))

Renewed ==
    /\ session.task = "renew"
    /\ Commit(Task([Draft EXCEPT !.s.ensured = TRUE], "mode"))

-----------------------------------------------------------------------------
(* Pages, and what the server receives from them.                          *)

Connect(v) ==
    /\ ~view[v].on
    /\ v \in Watched
    /\ view' = [view EXCEPT ![v] =
          [@ EXCEPT !.on = TRUE, !.state = session.state, !.rows = Snapshot(session, heap).rows]]
    /\ UNCHANGED <<heap, session>>

(* Its two tasks are cancelled, wherever they wait. *)
Disconnect(v) ==
    /\ view[v].on
    /\ v \in Watched
    /\ view' = [view EXCEPT ![v] = Away]
    /\ UNCHANGED <<heap, session>>

(* What the page of v sends is what it lets its user do; a page that is    *)
(* not watched may be behind, and send anything. *)
Busy(v) == v \in Watched /\ (view[v].submitting \/ view[v].state \in BusyStates)

Receiving(v) == view[v].on /\ view[v].loop = "open"

(* A refusal is sent to the page at once, ahead of what is queued for it:  *)
(* a snapshot, and an error the page shows in a row without a number. *)
Refused(v) ==
    view' = [view EXCEPT ![v] = IF v \notin Watched THEN [@ EXCEPT !.loop = "open"] ELSE
        [@ EXCEPT !.loop = "open", !.state = session.state, !.submitting = FALSE,
                  !.rows = Trimmed(Append(Snapshot(session, heap).rows,
                                          [id |-> 0, parts |-> <<>>]))]]

(* start. *)
Prompt(v) ==
    /\ Receiving(v)
    /\ ~Busy(v)
    /\ IF session.task # "none"
       THEN Refused(v) /\ UNCHANGED <<heap, session>>
       ELSE /\ Room
            /\ session' = [session EXCEPT !.task = "created", !.retried = FALSE]
            /\ view' = [view EXCEPT ![v].submitting = v \in Watched]
            /\ UNCHANGED heap

(* cancel, up to its first await; without a response it does nothing. *)
Cancel(v) ==
    /\ Receiving(v)
    /\ session.task # "none"
    /\ Commit(SetState([Draft EXCEPT !.w[v].loop = "control"], "stopping"))

(* acpx was told, or could not be. *)
CancelSent(v) ==
    /\ view[v].loop = "control"
    /\ view' = [view EXCEPT ![v].loop = "wait"]
    /\ UNCHANGED <<heap, session>>

(* The response has ended, or is terminated after five seconds: what ends  *)
(* it then is RunFails, or PromptEnds. *)
CancelEnds(v) ==
    /\ view[v].loop = "wait"
    /\ view' = [view EXCEPT ![v].loop = "open"]
    /\ UNCHANGED <<heap, session>>

(* reset, up to its await. *)
New(v) ==
    /\ Receiving(v)
    /\ ~Busy(v)
    /\ IF session.task # "none" THEN Refused(v)
       ELSE view' = [view EXCEPT ![v].loop = "renew"]
    /\ UNCHANGED <<heap, session>>

(* acpx has the new session.  A response that another page started in the  *)
(* meantime goes on. *)
ResetEnds(v) ==
    /\ view[v].loop = "renew"
    /\ Commit(SetState(Broadcast([Draft EXCEPT !.s.ensured = TRUE, !.s.tool = 0, !.s.events = <<>>,
                                               !.w[v].loop = "open"],
                                 [type |-> "reset"]),
                       "idle"))

ResetFails(v) ==
    /\ view[v].loop = "renew"
    /\ Refused(v)
    /\ UNCHANGED <<heap, session>>

-----------------------------------------------------------------------------
(* The first row of event e on a page, or 0. *)
At(rows, e) == SelectInSeq(rows, LAMBDA r : r.id = e)

(* What the page shows after a message (applyAgentMessage). *)
RowsAfter(rows, m) ==
    CASE m.type = "snapshot" -> m.rows
      [] m.type = "reset" -> <<>>
      [] m.type = "event" -> Trimmed(Append(rows, Row(heap, m.id)))
      [] m.type = "replace" ->
            IF At(rows, m.row.id) = 0 THEN Trimmed(Append(rows, m.row))
            ELSE [rows EXCEPT ![At(rows, m.row.id)] = m.row]
      [] m.type = "append" ->
            IF At(rows, m.id) = 0 THEN rows
            ELSE [rows EXCEPT ![At(rows, m.id)].parts = Append(@, m.part)]
      [] m.type = "state" -> rows

(* The page after the message, the first of its queue. *)
PageAfter(page, m) ==
    [page EXCEPT !.queue = Tail(@),
                 !.rows = RowsAfter(@, m),
                 !.state = IF m.type \in {"snapshot", "state"} THEN m.state ELSE @,
                 !.submitting = @ /\ m.type # "state"]

(* The next message is sent, and shown by the page. *)
Show(v) ==
    /\ view[v].queue # <<>>
    /\ view' = [view EXCEPT ![v] = PageAfter(@, Head(@.queue))]
    /\ UNCHANGED <<heap, session>>

AgentNext ==
    \/ RunBegins
    \/ RunFails
    \/ RunEnsured
    \/ PromptStarts
    \/ Text
    \/ Tool
    \/ Note
    \/ PromptEnds
    \/ StaleQueue
    \/ Renewed
    \/ \E v \in Views :
          \/ Connect(v)
          \/ Disconnect(v)
          \/ Prompt(v)
          \/ Cancel(v)
          \/ CancelSent(v)
          \/ CancelEnds(v)
          \/ New(v)
          \/ ResetEnds(v)
          \/ ResetFails(v)
          \/ Show(v)

AgentSpec == AgentInit /\ [][AgentNext]_agentVars

-----------------------------------------------------------------------------
(* Properties.                                                             *)

AgentTypeOK ==
    /\ heap \in Seq([kind : Kinds, parts : Nat \ {0}])
    /\ session.state \in States
    /\ session.task \in Tasks
    /\ session.events \in Seq(DOMAIN heap)
    /\ session.tool \in 0 .. Len(heap)
    /\ \A v \in Views :
          /\ Len(view[v].queue) <= QueueSize
          /\ Len(view[v].rows) <= MaxEvents
          /\ view[v].loop \in {"open", "control", "wait", "renew"}

(* Everything was shown to v. *)
UpToDate(v) == v \in Watched /\ view[v].on /\ view[v].queue = <<>>

(* The page shows an error that is not the session's. *)
HasOwnError(v) == \E j \in DOMAIN view[v].rows : view[v].rows[j].id = 0

(* A page that has been sent everything shows the session's state and all  *)
(* of its text: no event is missing, and no part of one, however slow the  *)
(* page was and whatever was refused, cleared or started in between.  (A   *)
(* full page may miss old rows, pushed out by an error of its own.) *)
ViewKeepsUp ==
    \A v \in Views : UpToDate(v) =>
        /\ view[v].state = session.state
        /\ \A i \in DOMAIN session.events :
              \/ /\ Len(view[v].rows) = MaxEvents
                 /\ i < Len(session.events) \/ HasOwnError(v)
              \/ \E j \in DOMAIN view[v].rows :
                    /\ view[v].rows[j].id = session.events[i]
                    /\ ToSet(Row(heap, session.events[i]).parts)
                          \subseteq ToSet(view[v].rows[j].parts)

(* The calls of one tool have one row in the session, whatever was trimmed *)
(* or reset between them. *)
ToolHasOneRow ==
    \A i, j \in DOMAIN session.events :
        heap[session.events[i]].kind = "tool" /\ heap[session.events[j]].kind = "tool" => i = j

(* A page that has been sent everything shows the transcript of the        *)
(* session, but for errors of its own ("Stream one named acpx session to   *)
(* any connected Terminal views"). *)
ViewIsTheTranscript ==
    \A v \in Views : UpToDate(v) /\ ~HasOwnError(v) =>
        view[v].rows = Snapshot(session, heap).rows
=============================================================================
