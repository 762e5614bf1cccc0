--------------------------- MODULE TerminalProofs ---------------------------
(***************************************************************************)
(* Theorems about the terminal: its agent's session and the pages that     *)
(* show it, for every number of pages, length of a queue and number of     *)
(* events, and whatever a page asks for; and its shell, for every size of  *)
(* the transcript.                                                         *)
(*                                                                         *)
(* The agent's part goes from data to steps: sequences; a page with a      *)
(* queue of messages (Faithful), one of which is queued or shown; a page   *)
(* with its whole queue, which may hold a snapshot (RowsArrive); drafts of *)
(* the session; pages; the steps.                                          *)
(***************************************************************************)
EXTENDS AgentSession, TerminalShell, SequenceTheorems, WellFoundedInduction, TLAPS

-----------------------------------------------------------------------------
(* Sequences.                                                              *)

Below == {p \in Nat \X Nat : p[1] < p[2]}

(* A nonempty set of numbers has a least one.                              *)
LEMMA Least ==
    ASSUME NEW T \in SUBSET Nat, T # {}
    PROVE  \E n \in T : \A m \in T : n <= m
<1>1. OpToRel(<, Nat) = {p \in Nat \X Nat : p[1] < p[2]}
  BY DEF OpToRel
<1>2. IsWellFoundedOn(Below, Nat)
  BY <1>1, NatLessThanWellFounded DEF Below
<1>3. PICK x \in T : \A y \in T : ~ (<<y, x>> \in Below)
  BY <1>2, WFMin
<1>4. \A m \in T : x <= m
  <2> SUFFICES ASSUME NEW m \in T, m < x PROVE FALSE
    OBVIOUS
  <2>1. <<m, x>> \in Below
    BY DEF Below
  <2> QED
    BY <1>3, <2>1
<1> QED
  BY <1>4

(* Row j is the first of event e.                                          *)
First(rows, j, e) ==
    /\ j \in DOMAIN rows
    /\ rows[j].id = e
    /\ \A i \in 1 .. j - 1 : rows[i].id # e

Shows(rows, e) == \E j \in DOMAIN rows : rows[j].id = e

Rows == [id : Nat, parts : Seq(Nat)]

(* What SelectInSeq finds.                                                 *)
LEMMA FirstRow ==
    ASSUME NEW rows \in Seq(Rows), NEW e
    PROVE  IF Shows(rows, e) THEN First(rows, At(rows, e), e) /\ At(rows, e) # 0 ELSE At(rows, e) = 0
<1> DEFINE I == {i \in 1 .. Len(rows) : rows[i].id = e}
           at == At(rows, e)
<1>1. DOMAIN rows = 1 .. Len(rows) /\ Len(rows) \in Nat
  OBVIOUS
<1>2. at = IF I # {} THEN Min(I) ELSE 0
  BY DEF At, SelectInSeq
<1> HIDE DEF at
<1>3. CASE Shows(rows, e)
  <2>1. I # {} /\ I \in SUBSET Nat
    BY <1>1, <1>3 DEF Shows
  <2>2. \E n \in I : \A m \in I : n <= m
    BY <2>1, Least
  <2>3. at \in I /\ \A m \in I : at <= m
    BY <1>2, <2>1, <2>2 DEF Min
  <2>4. at \in 1 .. Len(rows) /\ rows[at].id = e
    BY <2>3
  <2>5. ASSUME NEW i \in 1 .. at - 1 PROVE rows[i].id # e
    <3>1. i \in 1 .. Len(rows) /\ ~(at <= i)
      BY <1>1, <2>4
    <3> QED
      BY <2>3, <3>1
  <2> QED
    BY <1>1, <1>3, <2>4, <2>5 DEF First, at
<1>4. CASE ~Shows(rows, e)
  <2>1. I = {}
    BY <1>1, <1>4 DEF Shows
  <2> QED
    BY <1>2, <1>4, <2>1 DEF at
<1> QED
  BY <1>3, <1>4

(* A row that is pushed is the last one, and pushes the first one out when *)
(* there is no room. *)
Out(s) == IF Len(s) = MaxEvents THEN 1 ELSE 0

LEMMA PushIsSeq ==
    ASSUME NEW S, NEW s \in Seq(S), NEW x \in S
    PROVE  Trimmed(Append(s, x)) \in Seq(S)
<1>1. MaxEvents \in Nat \ {0}
  BY SessionAssumption
<1> QED
  BY <1>1 DEF Trimmed

LEMMA PushFacts ==
    ASSUME NEW S, NEW s \in Seq(S), NEW x \in S, Len(s) <= MaxEvents,
           NEW t \in Seq(S), t = Trimmed(Append(s, x))
    PROVE  /\ Len(s) \in Nat /\ DOMAIN s = 1 .. Len(s)
           /\ Out(s) \in {0, 1} /\ (Out(s) = 1 <=> Len(s) = MaxEvents)
           /\ Len(t) = Len(s) + 1 - Out(s) /\ Len(t) \in Nat \ {0} /\ Len(t) <= MaxEvents
           /\ DOMAIN t = 1 .. Len(t)
           /\ t[Len(t)] = x
           /\ \A j \in 1 .. Len(t) - 1 : j + Out(s) \in 1 .. Len(s) /\ t[j] = s[j + Out(s)]
<1> DEFINE more == Append(s, x)
           N == Len(s)
<1>1. /\ MaxEvents \in Nat \ {0} /\ N \in Nat
      /\ more \in Seq(S) /\ Len(more) = N + 1 /\ more[N + 1] = x
      /\ \A j \in 1 .. N : more[j] = s[j]
  BY SessionAssumption
<1> HIDE DEF more
<1>2. CASE N = MaxEvents
  <2>1. t = SubSeq(more, 2, N + 1)
    BY <1>1, <1>2 DEF Trimmed, more
  <2>2. /\ t \in Seq(S) /\ Len(t) = N
        /\ \A j \in 1 .. N : t[j] = more[j + 1]
    BY <1>1, <1>2, <2>1
  <2>3. Out(s) = 1
    BY <1>2 DEF Out
  <2>4. t[N] = x
    BY <1>1, <1>2, <2>2
  <2>5. \A j \in 1 .. N - 1 : j + 1 \in 1 .. N /\ t[j] = s[j + 1]
    BY <1>1, <2>2
  <2> QED
    BY <1>1, <1>2, <2>2, <2>3, <2>4, <2>5
<1>3. CASE N # MaxEvents
  <2>1. t = more /\ Out(s) = 0
    BY <1>1, <1>3 DEF Trimmed, Out, more
  <2>2. \A j \in 1 .. N : j + 0 \in 1 .. N /\ t[j] = s[j + 0]
    BY <1>1, <2>1
  <2> QED
    BY <1>1, <1>3, <2>1, <2>2
<1> QED
  BY <1>2, <1>3

-----------------------------------------------------------------------------
(* What a page shows, and what is queued for it.                           *)

Events == [kind : Kinds, parts : Nat]

Messages ==
    [type : {"event"}, id : Nat]
        \cup [type : {"append"}, id : Nat, part : Nat]
        \cup [type : {"replace"}, row : Rows]
        \cup [type : {"state"}, state : States]
        \cup [type : {"reset"}]
        \cup [type : {"snapshot"}, state : States, rows : Seq(Rows)]

Clears == {"snapshot", "reset"}

Announces(m, e) == m.type = "event" /\ m.id = e
Adds(m, e, x) == m.type = "append" /\ m.id = e /\ m.part = x
Replaces(m, e) == m.type = "replace" /\ m.row.id = e

Announced(p, e) == \E k \in DOMAIN p : Announces(p[k], e)

(* The messages p of a session that keeps the last K of the events h, and  *)
(* remembers row t of its tool: events come in order, to the last one; a   *)
(* replacement comes after its event, and is current or will be replaced;  *)
(* that of a row the session has dropped is followed by an event. *)
EventInOrder(p, k, h) ==
    /\ p[k].id \in 1 .. Len(h)
    /\ \A l \in k + 1 .. Len(p) : p[l].type = "event" => p[k].id < p[l].id
    /\ \E l \in k .. Len(p) : Announces(p[l], Len(h))

ReplaceInOrder(p, k, K, t, h) ==
    LET e == p[k].row.id
    IN /\ e \in 1 .. Len(h)
       /\ h[e].kind = "tool"
       /\ \/ p[k].row.parts = Row(h, e).parts
          \/ \E l \in k + 1 .. Len(p) : Replaces(p[l], e)
       /\ \A l \in k + 1 .. Len(p) : ~Announces(p[l], e)
       /\ \/ e = t /\ e > Len(h) - K
          \/ \E l \in k + 1 .. Len(p) : p[l].type = "event"

InOrder(p, K, t, h) ==
    \A k \in DOMAIN p :
        /\ p[k].type \notin Clears
        /\ p[k].type = "event" => EventInOrder(p, k, h)
        /\ p[k].type = "replace" => ReplaceInOrder(p, k, K, t, h)

(* A row has every part of its event that p does not bring. *)
Complete(row, p, h) ==
    \A x \in ToSet(Row(h, row.id).parts) :
        \/ x \in ToSet(row.parts)
        \/ \E k \in DOMAIN p : Adds(p[k], row.id, x) \/ Replaces(p[k], row.id)

Whole(rows, p, h, e) ==
    \E j \in DOMAIN rows : First(rows, j, e) /\ Complete(rows[j], p, h)

(* The last event is on the page, where nothing pushes it out before an    *)
(* error of the page's own; or it will be; or such an error pushed it out. *)
LastIsSafe(rows, p, t, h) ==
    \E j \in DOMAIN rows :
        /\ First(rows, j, Len(h))
        /\ Complete(rows[j], p, h)
        /\ \/ j < Len(rows) /\ rows[j + 1].id = 0
           \/ /\ ~Announced(p, Len(h))
              /\ \A l \in j + 1 .. Len(rows) : rows[l].id = t

LastIsComing(rows, p, h) == ~Shows(rows, Len(h)) /\ Announced(p, Len(h))

LastIsOut(rows, p, K, t, h) ==
    /\ ~Announced(p, Len(h))
    /\ Shows(rows, 0)
    /\ t > Len(h) - K /\ t # Len(h) => Shows(rows, t)

NoneIsLost(rows, p, K, h) ==
    \A e \in Len(h) - K + 1 .. Len(h) :
        \/ Len(rows) = MaxEvents
        \/ ~Shows(rows, e) /\ Announced(p, e)
        \/ Whole(rows, p, h, e)

Once(rows, e) == \A i, j \in DOMAIN rows : rows[i].id = e /\ rows[j].id = e => i = j

LastIsOnce(rows, p, h) == Announced(p, Len(h)) => Once(rows, Len(h))

(* A page with these rows will show the session once p is sent. *)
Faithful(rows, p, K, t, h) ==
    /\ Len(rows) <= MaxEvents
    /\ \A j \in DOMAIN rows : rows[j].id \in 0 .. Len(h)
    /\ NoneIsLost(rows, p, K, h)
    /\ K > 0 => \/ LastIsSafe(rows, p, t, h)
                \/ LastIsComing(rows, p, h)
                \/ LastIsOut(rows, p, K, t, h)
    /\ LastIsOnce(rows, p, h)

Sizes(K, t, h) ==
    /\ h \in Seq(Events)
    /\ K \in Nat /\ K <= Len(h) /\ K <= MaxEvents
    /\ t \in 0 .. Len(h)

(* What the fields of a message are.                                       *)
LEMMA MessageFacts ==
    ASSUME NEW m \in Messages
    PROVE  /\ m.type \in {"event", "append", "replace", "state", "reset", "snapshot"}
           /\ m.type = "event" => m.id \in Nat
           /\ m.type = "append" => m.id \in Nat /\ m.part \in Nat
           /\ m.type = "replace" => m.row \in Rows
           /\ m.type = "snapshot" => m.rows \in Seq(Rows)
BY DEF Messages

(* The row of an event.                                                    *)
LEMMA RowFacts ==
    ASSUME NEW h \in Seq(Events), NEW e \in 1 .. Len(h)
    PROVE  Row(h, e) \in Rows /\ Row(h, e).id = e
<1>1. e \in Nat /\ h[e] \in Events
  OBVIOUS
<1>2. h[e].parts \in Nat
  BY <1>1 DEF Events
<1>3. <<h[e].parts>> \in Seq(Nat) /\ [i \in 1 .. h[e].parts |-> i] \in Seq(Nat)
  BY <1>2
<1> QED
  BY <1>1, <1>3 DEF Row, Rows

(* A message that changes no number of a row, and brings what it takes     *)
(* from the queue, keeps a page faithful. *)
LEMMA InPlaceFaithful ==
    ASSUME NEW K, NEW t, NEW h, Sizes(K, t, h), NEW g, Sizes(K, t, g), Len(g) = Len(h),
           NEW rows \in Seq(Rows), NEW shown \in Seq(Rows),
           Len(shown) = Len(rows),
           \A j \in DOMAIN rows : shown[j].id = rows[j].id,
           NEW p, NEW q,
           \A e : Announced(p, e) <=> Announced(q, e),
           \A j \in DOMAIN rows, e \in 1 .. Len(h) :
              First(rows, j, e) /\ Complete(rows[j], p, h) => Complete(shown[j], q, g),
           Faithful(rows, p, K, t, h)
    PROVE  Faithful(shown, q, K, t, g)
<1>1. /\ Len(h) \in Nat /\ K \in Nat /\ K <= Len(h)
      /\ Len(rows) \in Nat
      /\ DOMAIN rows = 1 .. Len(rows) /\ DOMAIN shown = 1 .. Len(rows)
  BY DEF Sizes
<1>2. \A j, e : First(rows, j, e) <=> First(shown, j, e)
  <2> SUFFICES ASSUME NEW j, NEW e PROVE First(rows, j, e) <=> First(shown, j, e)
    OBVIOUS
  <2>1. CASE j \in DOMAIN rows
    <3>1. 1 .. j - 1 \subseteq DOMAIN rows
      BY <1>1, <2>1
    <3> QED
      BY <1>1, <2>1, <3>1 DEF First
  <2>2. CASE j \notin DOMAIN rows
    BY <1>1, <2>2 DEF First
  <2> QED
    BY <2>1, <2>2
<1>3. \A e : Shows(rows, e) <=> Shows(shown, e)
  BY <1>1 DEF Shows
<1>4. NoneIsLost(shown, q, K, g)
  <2> SUFFICES ASSUME NEW e \in Len(h) - K + 1 .. Len(h), Len(rows) # MaxEvents
               PROVE  (~Shows(shown, e) /\ Announced(q, e)) \/ Whole(shown, q, g, e)
    BY DEF NoneIsLost
  <2>1. e \in 1 .. Len(h)
    BY <1>1
  <2>2. (~Shows(rows, e) /\ Announced(p, e)) \/ Whole(rows, p, h, e)
    BY DEF Faithful, NoneIsLost
  <2> QED
    BY <1>1, <1>2, <1>3, <2>1, <2>2 DEF Whole
<1>5. ASSUME K > 0
      PROVE  \/ LastIsSafe(shown, q, t, g)
             \/ LastIsComing(shown, q, g)
             \/ LastIsOut(shown, q, K, t, g)
  <2>1. Len(h) \in 1 .. Len(h)
    BY <1>1, <1>5
  <2>2. Announced(p, Len(h)) <=> Announced(q, Len(g))
    BY <2>1
  <2>3. CASE LastIsSafe(rows, p, t, h)
    <3>1. PICK j \in DOMAIN rows :
             /\ First(rows, j, Len(h))
             /\ Complete(rows[j], p, h)
             /\ \/ j < Len(rows) /\ rows[j + 1].id = 0
                \/ /\ ~Announced(p, Len(h))
                   /\ \A l \in j + 1 .. Len(rows) : rows[l].id = t
      BY <2>3 DEF LastIsSafe
    <3>2. First(shown, j, Len(g)) /\ Complete(shown[j], q, g)
      BY <1>2, <2>1, <3>1
    <3>3. \/ j < Len(shown) /\ shown[j + 1].id = 0
          \/ ~Announced(q, Len(g)) /\ \A l \in j + 1 .. Len(shown) : shown[l].id = t
      BY <1>1, <2>2, <3>1
    <3> QED
      BY <1>1, <3>2, <3>3 DEF LastIsSafe
  <2>4. CASE LastIsComing(rows, p, h)
    BY <1>3, <2>2, <2>4 DEF LastIsComing
  <2>5. CASE LastIsOut(rows, p, K, t, h)
    BY <1>3, <2>2, <2>5 DEF LastIsOut
  <2> QED
    BY <1>5, <2>3, <2>4, <2>5 DEF Faithful
<1>6. LastIsOnce(shown, q, g)
  <2>1. LastIsOnce(rows, p, h)
    BY DEF Faithful
  <2> QED
    BY <1>1, <2>1 DEF LastIsOnce, Once
<1> QED
  BY <1>1, <1>4, <1>5, <1>6 DEF Faithful

(* What is left in order when the first message is sent.                   *)
LEMMA TailFacts ==
    ASSUME NEW p \in Seq(Messages), p # <<>>
    PROVE  /\ Tail(p) \in Seq(Messages)
           /\ Len(p) \in Nat \ {0} /\ Len(Tail(p)) = Len(p) - 1
           /\ DOMAIN p = 1 .. Len(p) /\ DOMAIN Tail(p) = 1 .. Len(p) - 1
           /\ \A k \in 1 .. Len(p) - 1 : Tail(p)[k] = p[k + 1]
           /\ Head(p) = p[1] /\ p[1] \in Messages
OBVIOUS

LEMMA TailInOrder ==
    ASSUME NEW p \in Seq(Messages), p # <<>>, NEW K, NEW t, NEW h, InOrder(p, K, t, h)
    PROVE  InOrder(Tail(p), K, t, h)
<1> DEFINE q == Tail(p)
           N == Len(p) - 1
<1>1. /\ N \in Nat /\ Len(p) = N + 1 /\ Len(q) = N
      /\ DOMAIN p = 1 .. N + 1 /\ DOMAIN q = 1 .. N
      /\ \A k \in 1 .. N : k + 1 \in DOMAIN p /\ q[k] = p[k + 1]
  BY TailFacts
<1> HIDE DEF q, N
<1>2. ASSUME NEW k \in 1 .. N
      PROVE  /\ \A l \in k + 1 .. N : l + 1 \in (k + 1) + 1 .. Len(p) /\ q[l] = p[l + 1]
             /\ \A l \in (k + 1) + 1 .. Len(p) : l - 1 \in k + 1 .. N /\ q[l - 1] = p[l]
             /\ \A l \in k + 1 .. Len(p) : l - 1 \in k .. N /\ q[l - 1] = p[l]
  BY <1>1
<1>3. ASSUME NEW k \in DOMAIN q, q[k].type = "event" PROVE EventInOrder(q, k, h)
  <2>1. EventInOrder(p, k + 1, h) /\ q[k] = p[k + 1] /\ k \in 1 .. N
    BY <1>1, <1>3 DEF InOrder
  <2>2. ASSUME NEW l \in k + 1 .. Len(q), q[l].type = "event" PROVE q[k].id < q[l].id
    <3>1. l + 1 \in (k + 1) + 1 .. Len(p) /\ q[l] = p[l + 1]
      BY <1>1, <1>2, <2>1
    <3> QED
      BY <2>1, <2>2, <3>1 DEF EventInOrder
  <2>3. \E l \in k .. Len(q) : Announces(q[l], Len(h))
    BY <1>1, <1>2, <2>1 DEF EventInOrder
  <2> QED
    BY <2>1, <2>2, <2>3 DEF EventInOrder
<1>4. ASSUME NEW k \in DOMAIN q, q[k].type = "replace" PROVE ReplaceInOrder(q, k, K, t, h)
  <2>1. ReplaceInOrder(p, k + 1, K, t, h) /\ q[k] = p[k + 1] /\ k \in 1 .. N
    BY <1>1, <1>4 DEF InOrder
  <2> DEFINE e == q[k].row.id
  <2>2. \/ q[k].row.parts = Row(h, e).parts
        \/ \E l \in k + 1 .. Len(q) : Replaces(q[l], e)
    BY <1>1, <1>2, <2>1 DEF ReplaceInOrder
  <2>3. \A l \in k + 1 .. Len(q) : ~Announces(q[l], e)
    BY <1>1, <1>2, <2>1 DEF ReplaceInOrder
  <2>4. \/ e = t /\ e > Len(h) - K
        \/ \E l \in k + 1 .. Len(q) : q[l].type = "event"
    <3>1. ASSUME NEW l \in (k + 1) + 1 .. Len(p), p[l].type = "event"
          PROVE  \E i \in k + 1 .. Len(q) : q[i].type = "event"
      <4>1. l - 1 \in k + 1 .. Len(q) /\ q[l - 1] = p[l]
        BY <1>1, <1>2, <2>1
      <4> QED
        BY <3>1, <4>1
    <3> QED
      BY <2>1, <3>1 DEF ReplaceInOrder
  <2>5. e \in 1 .. Len(h) /\ h[e].kind = "tool"
    BY <2>1 DEF ReplaceInOrder
  <2> QED
    BY <2>2, <2>3, <2>4, <2>5 DEF ReplaceInOrder
<1> QED
  BY <1>1, <1>3, <1>4 DEF InOrder, q

(* What was announced is so until it is sent, and then no more.            *)
LEMMA TailAnnounced ==
    ASSUME NEW p \in Seq(Messages), p # <<>>, NEW e
    PROVE  Announced(p, e) <=> Announces(p[1], e) \/ Announced(Tail(p), e)
<1> DEFINE q == Tail(p)
           N == Len(p) - 1
<1>1. /\ N \in Nat /\ Len(p) = N + 1 /\ Len(q) = N
      /\ DOMAIN p = 1 .. N + 1 /\ DOMAIN q = 1 .. N
      /\ \A k \in 1 .. N : k + 1 \in DOMAIN p /\ q[k] = p[k + 1]
  BY TailFacts
<1> HIDE DEF q, N
<1>2. ASSUME NEW k \in DOMAIN p, k # 1
      PROVE  k - 1 \in DOMAIN q /\ q[k - 1] = p[k]
  <2>1. k - 1 \in 1 .. N /\ (k - 1) + 1 = k
    BY <1>1, <1>2
  <2> QED
    BY <1>1, <2>1
<1>3. 1 \in DOMAIN p
  BY <1>1
<1> QED
  BY <1>1, <1>2, <1>3 DEF Announced, q

(* A part or a replacement that is not the first message is still to come. *)
LEMMA TailComplete ==
    ASSUME NEW p \in Seq(Messages), p # <<>>, NEW h, NEW row, Complete(row, p, h)
    PROVE  \A x \in ToSet(Row(h, row.id).parts) :
              \/ x \in ToSet(row.parts)
              \/ Adds(p[1], row.id, x) \/ Replaces(p[1], row.id)
              \/ \E k \in DOMAIN Tail(p) : Adds(Tail(p)[k], row.id, x) \/ Replaces(Tail(p)[k], row.id)
<1> DEFINE q == Tail(p)
           N == Len(p) - 1
<1>1. /\ N \in Nat /\ Len(p) = N + 1 /\ Len(q) = N
      /\ DOMAIN p = 1 .. N + 1 /\ DOMAIN q = 1 .. N
      /\ \A k \in 1 .. N : k + 1 \in DOMAIN p /\ q[k] = p[k + 1]
  BY TailFacts
<1> HIDE DEF q, N
<1>2. ASSUME NEW k \in DOMAIN p, k # 1
      PROVE  k - 1 \in DOMAIN q /\ q[k - 1] = p[k]
  <2>1. k - 1 \in 1 .. N /\ (k - 1) + 1 = k
    BY <1>1, <1>2
  <2> QED
    BY <1>1, <2>1
<1>3. 1 \in DOMAIN p
  BY <1>1
<1> QED
  BY <1>2, <1>3 DEF Complete, q

(* A push, of a row that is not e's and of one that is.                    *)
LEMMA PushOther ==
    ASSUME NEW rows \in Seq(Rows), NEW row \in Rows, Len(rows) <= MaxEvents,
           NEW t \in Seq(Rows), t = Trimmed(Append(rows, row)),
           NEW e
    PROVE  /\ row.id # e /\ ~Shows(rows, e) => ~Shows(t, e)
           /\ \A j \in DOMAIN rows : First(rows, j, e) /\ j > Out(rows) =>
                 /\ j - Out(rows) \in DOMAIN t
                 /\ First(t, j - Out(rows), e)
                 /\ t[j - Out(rows)] = rows[j]
<1> DEFINE N == Len(rows)
           o == Out(rows)
<1>1. /\ N \in Nat /\ o \in {0, 1} /\ Len(t) = N + 1 - o /\ Len(t) \in Nat \ {0}
      /\ DOMAIN rows = 1 .. N /\ DOMAIN t = 1 .. Len(t)
  BY PushFacts
<1>2. /\ t[Len(t)] = row
      /\ \A j \in 1 .. Len(t) - 1 : j + o \in 1 .. N /\ t[j] = rows[j + o]
  BY PushFacts
<1> HIDE DEF N, o
<1>3. row.id # e /\ ~Shows(rows, e) => ~Shows(t, e)
  <2> SUFFICES ASSUME row.id # e, ~Shows(rows, e), NEW j \in DOMAIN t PROVE t[j].id # e
    BY DEF Shows
  <2>1. CASE j = Len(t)
    BY <1>1, <1>2, <2>1
  <2>2. CASE j # Len(t)
    <3>1. j \in 1 .. Len(t) - 1
      BY <1>1, <1>2, <2>2
    <3> QED
      BY <1>1, <1>2, <3>1 DEF Shows
  <2> QED
    BY <2>1, <2>2
<1>4. ASSUME NEW j \in DOMAIN rows, First(rows, j, e), j > o
      PROVE  j - o \in DOMAIN t /\ First(t, j - o, e) /\ t[j - o] = rows[j]
  <2>1. j - o \in 1 .. Len(t) - 1 /\ (j - o) + o = j
    BY <1>1, <1>2, <1>4
  <2>2. t[j - o] = rows[j]
    BY <1>1, <1>2, <2>1
  <2>3. ASSUME NEW i \in 1 .. (j - o) - 1 PROVE t[i].id # e
    <3>1. i \in 1 .. Len(t) - 1 /\ i + o \in 1 .. j - 1
      BY <1>1, <1>2, <1>4, <2>1
    <3> QED
      BY <1>1, <1>2, <1>4, <3>1 DEF First
  <2> QED
    BY <1>1, <1>2, <1>4, <2>1, <2>2, <2>3 DEF First
<1> QED
  BY <1>3, <1>4 DEF o

LEMMA PushNew ==
    ASSUME NEW rows \in Seq(Rows), NEW row \in Rows, Len(rows) <= MaxEvents,
           NEW t \in Seq(Rows), t = Trimmed(Append(rows, row)),
           \A j \in DOMAIN rows : j > Out(rows) => rows[j].id # row.id
    PROVE  Len(t) \in DOMAIN t /\ First(t, Len(t), row.id) /\ t[Len(t)] = row
<1> DEFINE N == Len(rows)
           o == Out(rows)
<1>1. /\ N \in Nat /\ o \in {0, 1} /\ Len(t) = N + 1 - o /\ Len(t) \in Nat \ {0}
      /\ DOMAIN rows = 1 .. N /\ DOMAIN t = 1 .. Len(t)
      /\ t[Len(t)] = row
      /\ \A j \in 1 .. Len(t) - 1 : j + o \in 1 .. N /\ t[j] = rows[j + o]
  BY PushFacts
<1>2. \A j \in 1 .. N : j > o => rows[j].id # row.id
  BY <1>1
<1> HIDE DEF N, o
<1>3. \A j \in 1 .. Len(t) - 1 : t[j].id # row.id
  <2> SUFFICES ASSUME NEW j \in 1 .. Len(t) - 1 PROVE t[j].id # row.id
    OBVIOUS
  <2>1. j + o \in 1 .. N /\ j + o > o
    BY <1>1
  <2> QED
    BY <1>1, <1>2, <2>1
<1> QED
  BY <1>1, <1>3 DEF First

(* A push keeps the other rows whole.                                      *)
LEMMA PushLosesNone ==
    ASSUME NEW K, NEW t, NEW h, Sizes(K, t, h),
           NEW rows \in Seq(Rows), Len(rows) <= MaxEvents,
           NEW row \in Rows,
           NEW pushed \in Seq(Rows), pushed = Trimmed(Append(rows, row)),
           NEW p, NEW q,
           \A e \in 1 .. Len(h) : e # row.id /\ Announced(p, e) => Announced(q, e),
           \A j \in DOMAIN rows : Complete(rows[j], p, h) => Complete(rows[j], q, h),
           row.id # 0 => Complete(row, q, h),
           NoneIsLost(rows, p, K, h)
    PROVE  NoneIsLost(pushed, q, K, h)
<1>1. Len(h) \in Nat /\ K \in Nat /\ K <= Len(h)
  BY DEF Sizes
<1>2. /\ Out(rows) \in {0, 1} /\ (Out(rows) = 1 <=> Len(rows) = MaxEvents)
      /\ Len(rows) \in Nat /\ DOMAIN rows = 1 .. Len(rows)
      /\ Len(pushed) = Len(rows) + 1 - Out(rows)
  BY PushFacts
<1> SUFFICES ASSUME NEW e \in Len(h) - K + 1 .. Len(h), Len(pushed) # MaxEvents
             PROVE  (~Shows(pushed, e) /\ Announced(q, e)) \/ Whole(pushed, q, h, e)
  BY DEF NoneIsLost
<1>3. Out(rows) = 0 /\ Len(rows) # MaxEvents /\ e \in 1 .. Len(h)
  BY <1>1, <1>2
<1>4. CASE Whole(rows, p, h, e)
  <2>1. PICK j \in DOMAIN rows : First(rows, j, e) /\ Complete(rows[j], p, h)
    BY <1>4 DEF Whole
  <2>2. j > Out(rows) /\ j - Out(rows) = j
    BY <1>2, <1>3
  <2>3. /\ j - Out(rows) \in DOMAIN pushed /\ First(pushed, j - Out(rows), e)
        /\ pushed[j - Out(rows)] = rows[j]
    BY <2>1, <2>2, PushOther
  <2> QED
    BY <2>1, <2>2, <2>3 DEF Whole
<1>5. CASE ~Shows(rows, e) /\ Announced(p, e)
  <2>1. CASE row.id = e
    <3>1. \A j \in DOMAIN rows : rows[j].id # row.id
      BY <1>5, <2>1 DEF Shows
    <3>2. Len(pushed) \in DOMAIN pushed /\ First(pushed, Len(pushed), e) /\ pushed[Len(pushed)] = row
      BY <2>1, <3>1, PushNew
    <3>3. Complete(row, q, h)
      BY <1>3, <2>1
    <3> QED
      BY <3>2, <3>3 DEF Whole
  <2>2. CASE row.id # e
    BY <1>3, <1>5, <2>2, PushOther
  <2> QED
    BY <2>1, <2>2
<1> QED
  BY <1>3, <1>4, <1>5 DEF NoneIsLost

(* A push of another row, while the last event is still to come.           *)
LEMMA PushStillComing ==
    ASSUME NEW t, NEW h \in Seq(Events),
           NEW rows \in Seq(Rows), Len(rows) <= MaxEvents,
           NEW row \in Rows, row.id # Len(h),
           NEW pushed \in Seq(Rows), pushed = Trimmed(Append(rows, row)),
           NEW p, NEW q, Announced(p, Len(h)), Announced(q, Len(h)),
           \A j \in DOMAIN rows : Complete(rows[j], p, h) => Complete(rows[j], q, h),
           LastIsOnce(rows, p, h),
           LastIsSafe(rows, p, t, h) \/ LastIsComing(rows, p, h)
    PROVE  LastIsSafe(pushed, q, t, h) \/ LastIsComing(pushed, q, h)
<1> DEFINE n == Len(h)
<1>1. /\ Out(rows) \in {0, 1}
      /\ Len(rows) \in Nat /\ DOMAIN rows = 1 .. Len(rows)
      /\ Len(pushed) = Len(rows) + 1 - Out(rows) /\ DOMAIN pushed = 1 .. Len(pushed)
  BY PushFacts
<1>2. /\ pushed[Len(pushed)] = row
      /\ \A j \in 1 .. Len(pushed) - 1 :
            j + Out(rows) \in 1 .. Len(rows) /\ pushed[j] = rows[j + Out(rows)]
  BY PushFacts
<1>3. CASE LastIsComing(rows, p, h)
  BY <1>3, PushOther DEF LastIsComing
<1>4. CASE LastIsSafe(rows, p, t, h)
  <2>1. PICK j \in DOMAIN rows :
           First(rows, j, n) /\ Complete(rows[j], p, h) /\ j < Len(rows) /\ rows[j + 1].id = 0
    BY <1>4 DEF LastIsSafe
  <2>2. CASE j > Out(rows)
    <3>1. /\ j - Out(rows) \in DOMAIN pushed /\ First(pushed, j - Out(rows), n)
          /\ pushed[j - Out(rows)] = rows[j]
      BY <2>1, <2>2, PushOther
    <3>2. j - Out(rows) + 1 \in 1 .. Len(pushed) - 1 /\ j - Out(rows) + 1 + Out(rows) = j + 1
      BY <1>1, <2>1, <2>2
    <3>3. j - Out(rows) < Len(pushed) /\ pushed[j - Out(rows) + 1].id = 0
      BY <1>1, <1>2, <2>1, <3>2
    <3> QED
      BY <2>1, <3>1, <3>3 DEF LastIsSafe
  <2>3. CASE ~(j > Out(rows))
    <3>1. j = 1 /\ Out(rows) = 1
      BY <1>1, <2>1, <2>3
    <3>2. ~Shows(pushed, n)
      <4> SUFFICES ASSUME NEW i \in DOMAIN pushed, pushed[i].id = n PROVE FALSE
        BY DEF Shows
      <4>1. i # Len(pushed)
        BY <1>2
      <4>2. i \in 1 .. Len(pushed) - 1
        BY <1>1, <4>1
      <4>3. i + 1 \in DOMAIN rows /\ rows[i + 1].id = n /\ i + 1 # j
        BY <1>1, <1>2, <3>1, <4>2
      <4> QED
        BY <2>1, <4>3 DEF First, LastIsOnce, Once
    <3> QED
      BY <3>2 DEF LastIsComing
  <2> QED
    BY <2>2, <2>3
<1> QED
  BY <1>3, <1>4

(* The numbers of the rows after a push, and the length.                   *)
LEMMA PushNumbers ==
    ASSUME NEW n \in Nat, NEW rows \in Seq(Rows), Len(rows) <= MaxEvents,
           \A j \in DOMAIN rows : rows[j].id \in 0 .. n,
           NEW row \in Rows, row.id \in 0 .. n,
           NEW pushed \in Seq(Rows), pushed = Trimmed(Append(rows, row))
    PROVE  Len(pushed) <= MaxEvents /\ \A j \in DOMAIN pushed : pushed[j].id \in 0 .. n
<1>1. /\ Len(pushed) \in Nat /\ DOMAIN pushed = 1 .. Len(pushed)
      /\ Len(pushed) <= MaxEvents
  BY PushFacts
<1>2. /\ pushed[Len(pushed)] = row
      /\ \A j \in 1 .. Len(pushed) - 1 :
            j + Out(rows) \in 1 .. Len(rows) /\ pushed[j] = rows[j + Out(rows)]
  BY PushFacts
<1>3. ASSUME NEW j \in DOMAIN pushed PROVE pushed[j].id \in 0 .. n
  <2>1. j = Len(pushed) \/ j \in 1 .. Len(pushed) - 1
    BY <1>1
  <2> QED
    BY <1>2, <2>1
<1> QED
  BY <1>1, <1>3

LEMMA PushOnce ==
    ASSUME NEW rows \in Seq(Rows), Len(rows) <= MaxEvents,
           NEW row \in Rows,
           NEW pushed \in Seq(Rows), pushed = Trimmed(Append(rows, row)),
           NEW m \in Nat, m # row.id,
           Once(rows, m)
    PROVE  Once(pushed, m)
<1>1. /\ Out(rows) \in {0, 1}
      /\ Len(pushed) \in Nat /\ DOMAIN pushed = 1 .. Len(pushed)
      /\ Len(rows) \in Nat /\ DOMAIN rows = 1 .. Len(rows)
  BY PushFacts
<1>2. /\ pushed[Len(pushed)] = row
      /\ \A j \in 1 .. Len(pushed) - 1 :
            j + Out(rows) \in 1 .. Len(rows) /\ pushed[j] = rows[j + Out(rows)]
  BY PushFacts
<1> SUFFICES ASSUME NEW i \in DOMAIN pushed, NEW j \in DOMAIN pushed,
                    pushed[i].id = m, pushed[j].id = m
             PROVE  i = j
  BY DEF Once
<1>3. i \in 1 .. Len(pushed) - 1 /\ j \in 1 .. Len(pushed) - 1
  BY <1>1, <1>2
<1>4. /\ i + Out(rows) \in DOMAIN rows /\ pushed[i] = rows[i + Out(rows)]
      /\ j + Out(rows) \in DOMAIN rows /\ pushed[j] = rows[j + Out(rows)]
  BY <1>1, <1>2, <1>3
<1>5. i + Out(rows) = j + Out(rows)
  BY <1>4 DEF Once
<1> QED
  BY <1>1, <1>3, <1>5

(* An event is shown.                                                      *)
LEMMA ShowEvent ==
    ASSUME NEW K, NEW t, NEW h, Sizes(K, t, h),
           NEW rows \in Seq(Rows),
           NEW p \in Seq(Messages), p # <<>>, InOrder(p, K, t, h),
           p[1].type = "event",
           NEW pushed, pushed = Trimmed(Append(rows, Row(h, p[1].id))),
           Faithful(rows, p, K, t, h)
    PROVE  pushed \in Seq(Rows) /\ Faithful(pushed, Tail(p), K, t, h)
<1> DEFINE n == Len(h)
           e == p[1].id
           row == Row(h, e)
           q == Tail(p)
<1>1. /\ h \in Seq(Events) /\ n \in Nat /\ K \in Nat /\ K <= n
      /\ DOMAIN p = 1 .. Len(p) /\ Len(p) \in Nat \ {0} /\ 1 \in DOMAIN p
  BY TailFacts DEF Sizes
<1>2. EventInOrder(p, 1, h)
  BY <1>1 DEF InOrder
<1>3. e \in 1 .. n
  BY <1>2 DEF EventInOrder
<1>4. row \in Rows /\ row.id = e
  BY <1>1, <1>3, RowFacts
<1>5. pushed \in Seq(Rows)
  BY <1>4, PushIsSeq
<1>6. Announced(p, n)
  BY <1>1, <1>2 DEF EventInOrder, Announced
<1>7. \A x : Announced(p, x) <=> x = e \/ Announced(q, x)
  BY TailAnnounced DEF Announces
<1>8. ~Announced(q, e)
  <2> SUFFICES ASSUME NEW k \in DOMAIN q, Announces(q[k], e) PROVE FALSE
    BY DEF Announced
  <2>1. k + 1 \in 1 + 1 .. Len(p) /\ q[k] = p[k + 1]
    BY TailFacts
  <2>2. p[k + 1].type = "event" /\ p[k + 1].id = e
    BY <2>1 DEF Announces
  <2> QED
    BY <1>2, <1>3, <2>1, <2>2 DEF EventInOrder
<1>9. ASSUME NEW r, Complete(r, p, h) PROVE Complete(r, q, h)
  <2>1. \A x : ~Adds(p[1], r.id, x) /\ ~Replaces(p[1], r.id)
    BY DEF Adds, Replaces
  <2> QED
    BY <1>9, <2>1, TailComplete DEF Complete
<1>10. Complete(row, q, h)
  BY <1>4 DEF Complete
<1> HIDE DEF q, row, e
<1>11. /\ Len(rows) <= MaxEvents /\ \A j \in DOMAIN rows : rows[j].id \in 0 .. n
       /\ LastIsOnce(rows, p, h) /\ NoneIsLost(rows, p, K, h)
  BY DEF Faithful
<1>12. pushed = Trimmed(Append(rows, row))
  BY DEF row, e
<1>13. NoneIsLost(pushed, q, K, h)
  BY <1>4, <1>5, <1>7, <1>9, <1>10, <1>11, <1>12, PushLosesNone
<1>14. Len(pushed) <= MaxEvents /\ \A j \in DOMAIN pushed : pushed[j].id \in 0 .. n
  <2>1. row.id \in 0 .. n
    BY <1>1, <1>3, <1>4
  <2> QED
    BY <1>1, <1>4, <1>5, <1>11, <1>12, <2>1, PushNumbers
<1>15. CASE e # n
  <2>1. Announced(q, n)
    BY <1>6, <1>7, <1>15
  <2>2. K > 0 => LastIsSafe(pushed, q, t, h) \/ LastIsComing(pushed, q, h)
    <3> SUFFICES ASSUME K > 0 PROVE LastIsSafe(pushed, q, t, h) \/ LastIsComing(pushed, q, h)
      OBVIOUS
    <3>1. LastIsSafe(rows, p, t, h) \/ LastIsComing(rows, p, h)
      BY <1>6 DEF Faithful, LastIsOut
    <3> QED
      BY <1>1, <1>4, <1>5, <1>6, <1>9, <1>11, <1>12, <1>15, <2>1, <3>1, PushStillComing
  <2>3. LastIsOnce(pushed, q, h)
    <3>1. Once(rows, n)
      BY <1>6, <1>11 DEF LastIsOnce
    <3>2. Once(pushed, n)
      BY <1>1, <1>4, <1>5, <1>11, <1>12, <1>15, <3>1, PushOnce
    <3> QED
      BY <3>2 DEF LastIsOnce, Once
  <2> QED
    BY <1>5, <1>13, <1>14, <2>2, <2>3 DEF Faithful, q
<1>16. CASE e = n
  <2>1. ~Announced(q, n)
    BY <1>8, <1>16
  <2>2. LastIsOnce(pushed, q, h)
    BY <2>1 DEF LastIsOnce, Once
  <2>3. ASSUME \A j \in DOMAIN rows : j > Out(rows) => rows[j].id # n
        PROVE  LastIsSafe(pushed, q, t, h)
    <3>1. /\ Len(pushed) \in DOMAIN pushed /\ First(pushed, Len(pushed), n)
          /\ pushed[Len(pushed)] = row
      BY <1>4, <1>5, <1>11, <1>12, <1>16, <2>3, PushNew
    <3>2. Len(pushed) + 1 .. Len(pushed) = {}
      BY <1>5
    <3> QED
      BY <1>10, <2>1, <3>1, <3>2 DEF LastIsSafe
  <2>4. ASSUME K > 0 PROVE LastIsSafe(pushed, q, t, h)
    <3>1. CASE LastIsComing(rows, p, h)
      BY <2>3, <3>1 DEF LastIsComing, Shows
    <3>2. CASE LastIsSafe(rows, p, t, h)
      <4>1. PICK j \in DOMAIN rows :
               First(rows, j, n) /\ Complete(rows[j], p, h) /\ j < Len(rows) /\ rows[j + 1].id = 0
        BY <1>6, <3>2 DEF LastIsSafe
      <4>2. /\ Out(rows) \in {0, 1}
            /\ Len(rows) \in Nat /\ DOMAIN rows = 1 .. Len(rows)
            /\ Len(pushed) = Len(rows) + 1 - Out(rows)
        BY <1>4, <1>5, <1>11, <1>12, PushFacts
      <4>3. CASE j > Out(rows)
        <5>1. /\ j - Out(rows) \in DOMAIN pushed /\ First(pushed, j - Out(rows), n)
              /\ pushed[j - Out(rows)] = rows[j]
          BY <1>4, <1>5, <1>11, <1>12, <4>1, <4>3, PushOther
        <5>2. j - Out(rows) + 1 \in 1 .. Len(pushed) - 1 /\ j - Out(rows) + 1 + Out(rows) = j + 1
          BY <4>1, <4>2, <4>3
        <5>3. \A i \in 1 .. Len(pushed) - 1 : pushed[i] = rows[i + Out(rows)]
          BY <1>4, <1>5, <1>11, <1>12, PushFacts
        <5>4. j - Out(rows) < Len(pushed) /\ pushed[j - Out(rows) + 1].id = 0
          BY <4>1, <4>2, <5>2, <5>3
        <5> QED
          BY <1>9, <4>1, <5>1, <5>4 DEF LastIsSafe
      <4>4. CASE ~(j > Out(rows))
        <5>1. j = 1 /\ Out(rows) = 1 /\ rows[j].id = n
          BY <4>1, <4>2, <4>4 DEF First
        <5>2. \A i \in DOMAIN rows : i > Out(rows) => rows[i].id # n
          BY <1>6, <1>11, <4>1, <4>2, <5>1 DEF LastIsOnce, Once
        <5> QED
          BY <2>3, <5>2
      <4> QED
        BY <4>3, <4>4
    <3> QED
      BY <1>6, <2>4, <3>1, <3>2 DEF Faithful, LastIsOut
  <2> QED
    BY <1>5, <1>13, <1>14, <2>2, <2>4 DEF Faithful, q
<1> QED
  BY <1>15, <1>16

(* A replacement is shown by a page that has not its row.                  *)
LEMMA ShowReplaceNew ==
    ASSUME NEW K, NEW t, NEW h, Sizes(K, t, h),
           NEW rows \in Seq(Rows),
           NEW p \in Seq(Messages), p # <<>>, InOrder(p, K, t, h),
           p[1].type = "replace", ~Shows(rows, p[1].row.id),
           NEW pushed, pushed = Trimmed(Append(rows, p[1].row)),
           Faithful(rows, p, K, t, h)
    PROVE  pushed \in Seq(Rows) /\ Faithful(pushed, Tail(p), K, t, h)
<1> DEFINE n == Len(h)
           row == p[1].row
           e == row.id
           q == Tail(p)
<1>1. /\ h \in Seq(Events) /\ n \in Nat /\ K \in Nat /\ K <= n /\ K <= MaxEvents
      /\ DOMAIN p = 1 .. Len(p) /\ Len(p) \in Nat \ {0} /\ 1 \in DOMAIN p
      /\ t \in 0 .. n
  BY TailFacts DEF Sizes
<1>2. ReplaceInOrder(p, 1, K, t, h)
  BY <1>1 DEF InOrder
<1>3. e \in 1 .. n
  BY <1>2 DEF ReplaceInOrder
<1>4. row \in Rows
  BY TailFacts, MessageFacts
<1>5. pushed \in Seq(Rows)
  BY <1>4, PushIsSeq
<1>6. \A x : Announced(p, x) <=> Announced(q, x)
  BY TailAnnounced DEF Announces
<1>7. ASSUME NEW r, r.id # e, Complete(r, p, h) PROVE Complete(r, q, h)
  <2>1. \A x : ~Adds(p[1], r.id, x) /\ ~Replaces(p[1], r.id)
    BY <1>7 DEF Adds, Replaces
  <2> QED
    BY <1>7, <2>1, TailComplete DEF Complete
<1>8. \A j \in DOMAIN rows : rows[j].id # e
  BY DEF Shows
<1>9. Complete(row, q, h)
  <2>1. CASE row.parts = Row(h, e).parts
    BY <2>1 DEF Complete
  <2>2. CASE \E l \in 1 + 1 .. Len(p) : Replaces(p[l], e)
    <3>1. PICK l \in 1 + 1 .. Len(p) : Replaces(p[l], e)
      BY <2>2
    <3>2. l - 1 \in DOMAIN q /\ q[l - 1] = p[l]
      <4>1. l - 1 \in 1 .. Len(p) - 1 /\ l - 1 + 1 = l
        BY <1>1
      <4> QED
        BY <4>1, TailFacts
    <3> QED
      BY <3>1, <3>2 DEF Complete
  <2> QED
    BY <1>2, <2>1, <2>2 DEF ReplaceInOrder
<1> HIDE DEF q, e
<1>10. /\ Len(rows) <= MaxEvents /\ \A j \in DOMAIN rows : rows[j].id \in 0 .. n
       /\ LastIsOnce(rows, p, h) /\ NoneIsLost(rows, p, K, h)
  BY DEF Faithful
<1>11. NoneIsLost(pushed, q, K, h)
  BY <1>4, <1>5, <1>6, <1>7, <1>8, <1>9, <1>10, PushLosesNone
<1>12. Len(pushed) <= MaxEvents /\ \A j \in DOMAIN pushed : pushed[j].id \in 0 .. n
  <2>1. row.id \in 0 .. n
    BY <1>1, <1>3 DEF e
  <2> QED
    BY <1>1, <1>4, <1>5, <1>10, <2>1, PushNumbers
<1>13. CASE Announced(p, n)
  <2>1. e # n
    <3> SUFFICES ASSUME e = n PROVE FALSE
      OBVIOUS
    <3>1. PICK k \in DOMAIN p : Announces(p[k], n)
      BY <1>13 DEF Announced
    <3>2. k # 1
      BY <3>1 DEF Announces
    <3>3. k \in 1 + 1 .. Len(p)
      BY <1>1, <3>2
    <3> QED
      BY <1>2, <3>1, <3>3 DEF ReplaceInOrder, e
  <2>2. Announced(q, n)
    BY <1>6, <1>13
  <2>3. K > 0 => LastIsSafe(pushed, q, t, h) \/ LastIsComing(pushed, q, h)
    <3> SUFFICES ASSUME K > 0 PROVE LastIsSafe(pushed, q, t, h) \/ LastIsComing(pushed, q, h)
      OBVIOUS
    <3>1. LastIsSafe(rows, p, t, h) \/ LastIsComing(rows, p, h)
      BY <1>13 DEF Faithful, LastIsOut
    <3>2. row.id # Len(h)
      BY <2>1 DEF e
    <3>3. \A j \in DOMAIN rows : Complete(rows[j], p, h) => Complete(rows[j], q, h)
      BY <1>7, <1>8
    <3>4. h \in Seq(Events) /\ Len(rows) <= MaxEvents /\ row \in Rows /\ pushed \in Seq(Rows)
      BY <1>1, <1>4, <1>5, <1>10
    <3>5. Announced(p, Len(h)) /\ Announced(q, Len(h)) /\ LastIsOnce(rows, p, h)
      BY <1>10, <1>13, <2>2
    <3>6. pushed = Trimmed(Append(rows, row))
      OBVIOUS
    <3> HIDE DEF row, n
    <3> QED
      BY <3>1, <3>2, <3>3, <3>4, <3>5, <3>6, PushStillComing
  <2>4. LastIsOnce(pushed, q, h)
    <3>1. Once(rows, n)
      BY <1>10, <1>13 DEF LastIsOnce
    <3>2. Once(pushed, n)
      BY <1>1, <1>4, <1>5, <1>10, <2>1, <3>1, PushOnce DEF e
    <3> QED
      BY <3>2 DEF LastIsOnce
  <2> QED
    BY <1>5, <1>11, <1>12, <2>3, <2>4 DEF Faithful, q
<1>14. CASE ~Announced(p, n)
  <2>1. ~Announced(q, n)
    BY <1>6, <1>14
  <2>2. LastIsOnce(pushed, q, h)
    BY <2>1 DEF LastIsOnce
  <2>3. e = t /\ t > n - K
    <3>1. \A k \in DOMAIN p : p[k].type # "event"
      <4> SUFFICES ASSUME NEW k \in DOMAIN p, p[k].type = "event" PROVE FALSE
        OBVIOUS
      <4>1. PICK l \in k .. Len(p) : Announces(p[l], n)
        BY DEF InOrder, EventInOrder
      <4>2. l \in DOMAIN p
        BY <1>1
      <4> QED
        BY <1>14, <4>1, <4>2 DEF Announced
    <3>2. \A k \in 1 + 1 .. Len(p) : k \in DOMAIN p
      BY <1>1
    <3> QED
      BY <1>2, <3>1, <3>2 DEF ReplaceInOrder, e
  <2>4. /\ Out(rows) \in {0, 1} /\ (Out(rows) = 1 <=> Len(rows) = MaxEvents)
        /\ Len(rows) \in Nat /\ DOMAIN rows = 1 .. Len(rows)
        /\ Len(pushed) \in Nat \ {0}
        /\ Len(pushed) = Len(rows) + 1 - Out(rows) /\ DOMAIN pushed = 1 .. Len(pushed)
    BY <1>4, <1>5, <1>10, PushFacts
  <2>5. /\ pushed[Len(pushed)] = row
        /\ \A i \in 1 .. Len(pushed) - 1 :
              i + Out(rows) \in 1 .. Len(rows) /\ pushed[i] = rows[i + Out(rows)]
    BY <1>4, <1>5, <1>10, PushFacts
  <2>6. ASSUME K > 0, LastIsOut(rows, p, K, t, h)
        PROVE  LastIsSafe(pushed, q, t, h)
    <3>1. t = n
      BY <1>8, <2>3, <2>6 DEF LastIsOut, Shows
    <3>2. \A j \in DOMAIN rows : j > Out(rows) => rows[j].id # row.id
      BY <1>8 DEF e
    <3>3. Len(pushed) \in DOMAIN pushed /\ First(pushed, Len(pushed), row.id)
      BY <1>4, <1>5, <1>10, <3>2, PushNew
    <3>4. Len(pushed) + 1 .. Len(pushed) = {}
      BY <2>4
    <3>5. row.id = n
      BY <2>3, <3>1 DEF e
    <3> QED
      BY <1>9, <2>1, <2>5, <3>3, <3>4, <3>5 DEF LastIsSafe
  <2>7. ASSUME K > 0, LastIsSafe(rows, p, t, h)
        PROVE  LastIsSafe(pushed, q, t, h) \/ LastIsOut(pushed, q, K, t, h)
    <3>1. PICK j \in DOMAIN rows :
             /\ First(rows, j, n)
             /\ Complete(rows[j], p, h)
             /\ \/ j < Len(rows) /\ rows[j + 1].id = 0
                \/ \A l \in j + 1 .. Len(rows) : rows[l].id = t
      BY <2>7 DEF LastIsSafe
    <3>2. rows[j].id = n /\ rows[j].id # e /\ Complete(rows[j], q, h)
      BY <1>7, <1>8, <3>1 DEF First
    <3>3. CASE j < Len(rows) /\ rows[j + 1].id = 0 /\ ~(j > Out(rows))
      <4>1. j = 1 /\ Out(rows) = 1
        BY <2>4, <3>3
      <4>2. pushed[1] = rows[2] /\ 1 \in DOMAIN pushed /\ Len(pushed) \in DOMAIN pushed
        <5>1. 1 \in 1 .. Len(pushed) - 1 /\ 1 + Out(rows) = 2
          BY <2>4, <3>3, <4>1
        <5> QED
          BY <2>4, <2>5, <5>1
      <4>3. Shows(pushed, 0) /\ Shows(pushed, t)
        BY <2>3, <2>5, <3>3, <4>1, <4>2 DEF Shows, e
      <4> QED
        BY <2>1, <4>3 DEF LastIsOut
    <3>4. CASE j > Out(rows)
      <4>1. /\ j - Out(rows) \in DOMAIN pushed /\ First(pushed, j - Out(rows), n)
            /\ pushed[j - Out(rows)] = rows[j]
        BY <1>4, <1>5, <1>10, <3>1, <3>4, PushOther
      <4>2. ASSUME j < Len(rows), rows[j + 1].id = 0
            PROVE  j - Out(rows) < Len(pushed) /\ pushed[j - Out(rows) + 1].id = 0
        <5>1. /\ j - Out(rows) + 1 \in 1 .. Len(pushed) - 1 /\ j - Out(rows) + 1 + Out(rows) = j + 1
              /\ j - Out(rows) < Len(pushed)
          BY <2>4, <3>4, <4>2
        <5>2. pushed[j - Out(rows) + 1] = rows[j + 1]
          BY <2>5, <5>1
        <5> QED
          BY <4>2, <5>1, <5>2
      <4>3. ASSUME \A l \in j + 1 .. Len(rows) : rows[l].id = t
            PROVE  \A l \in j - Out(rows) + 1 .. Len(pushed) : pushed[l].id = t
        <5> SUFFICES ASSUME NEW l \in j - Out(rows) + 1 .. Len(pushed) PROVE pushed[l].id = t
          OBVIOUS
        <5>1. CASE l = Len(pushed)
          BY <2>3, <2>5, <5>1 DEF e
        <5>2. CASE l # Len(pushed)
          <6>1. l \in 1 .. Len(pushed) - 1 /\ l + Out(rows) \in j + 1 .. Len(rows)
            BY <2>4, <3>4, <5>2
          <6> QED
            BY <2>5, <4>3, <6>1
        <5> QED
          BY <5>1, <5>2
      <4> QED
        BY <2>1, <3>1, <3>2, <4>1, <4>2, <4>3 DEF LastIsSafe
    <3>5. CASE ~(j > Out(rows)) /\ \A l \in j + 1 .. Len(rows) : rows[l].id = t
      <4>1. j = 1 /\ Out(rows) = 1
        BY <2>4, <3>5
      <4>2. Len(rows) = 1
        <5> SUFFICES ASSUME Len(rows) # 1 PROVE FALSE
          OBVIOUS
        <5>1. 2 \in j + 1 .. Len(rows) /\ 2 \in DOMAIN rows
          BY <2>4, <4>1
        <5> QED
          BY <1>8, <2>3, <3>5, <5>1
      <4>3. K = 1 /\ t = n
        BY <1>1, <2>3, <2>4, <2>7, <4>1, <4>2
      <4> QED
        BY <2>3, <3>2, <4>3
    <3> QED
      BY <3>1, <3>3, <3>4, <3>5
  <2>8. ~LastIsComing(rows, p, h)
    BY <1>14 DEF LastIsComing
  <2> QED
    BY <1>5, <1>11, <1>12, <2>2, <2>6, <2>7, <2>8 DEF Faithful, q
<1> QED
  BY <1>13, <1>14

(* The first message of p is shown.                                        *)
LEMMA ShowFaithful ==
    ASSUME NEW K, NEW t, Sizes(K, t, heap),
           NEW rows \in Seq(Rows),
           NEW p \in Seq(Messages), p # <<>>, InOrder(p, K, t, heap),
           Faithful(rows, p, K, t, heap)
    PROVE  /\ RowsAfter(rows, p[1]) \in Seq(Rows)
           /\ Faithful(RowsAfter(rows, p[1]), Tail(p), K, t, heap)
<1> DEFINE m == p[1]
           q == Tail(p)
           e == IF m.type = "replace" THEN m.row.id ELSE m.id
           at == At(rows, e)
<1>1. /\ m \in Messages /\ m.type \notin Clears
      /\ m.type \in {"event", "append", "replace", "state", "reset", "snapshot"}
      /\ m.type = "append" => m.part \in Nat
      /\ m.type = "replace" => m.row \in Rows
      /\ q \in Seq(Messages)
  <2>1. 1 \in DOMAIN p
    BY TailFacts
  <2> QED
    BY <2>1, TailFacts, MessageFacts DEF InOrder
<1>2. CASE m.type = "event"
  BY <1>2, ShowEvent DEF RowsAfter
<1>3. m.type # "event" => \A x : Announced(p, x) <=> Announced(q, x)
  BY TailAnnounced DEF Announces
<1>4. ASSUME NEW r, Complete(r, p, heap), m.type # "event", m.type = "state" \/ r.id # e
      PROVE  Complete(r, q, heap)
  <2>1. \A x : ~Adds(m, r.id, x) /\ ~Replaces(m, r.id)
    BY <1>4 DEF Adds, Replaces
  <2> QED
    BY <1>4, <2>1, TailComplete DEF Complete
<1>5. CASE m.type = "state"
  <2>1. RowsAfter(rows, m) = rows
    BY <1>5 DEF RowsAfter
  <2>2. Faithful(rows, q, K, t, heap)
    BY <1>3, <1>4, <1>5, InPlaceFaithful
  <2> QED
    BY <2>1, <2>2
<1>6. CASE m.type = "replace" /\ ~Shows(rows, e)
  <2>1. RowsAfter(rows, m) = Trimmed(Append(rows, m.row))
    BY <1>6, FirstRow DEF RowsAfter
  <2> QED
    BY <1>6, <2>1, ShowReplaceNew
<1>7. CASE m.type = "append" /\ ~Shows(rows, e)
  <2>1. RowsAfter(rows, m) = rows
    BY <1>7, FirstRow DEF RowsAfter
  <2>2. \A j \in DOMAIN rows : rows[j].id # e
    BY <1>7 DEF Shows
  <2>3. Faithful(rows, q, K, t, heap)
    BY <1>3, <1>4, <1>7, <2>2, InPlaceFaithful
  <2> QED
    BY <2>1, <2>3
<1>8. CASE m.type \in {"append", "replace"} /\ Shows(rows, e)
  <2>1. First(rows, at, e) /\ at # 0 /\ at \in DOMAIN rows /\ rows[at].id = e
    BY <1>8, FirstRow DEF First
  <2>2. PICK row : row = IF m.type = "replace" THEN m.row
                         ELSE [rows[at] EXCEPT !.parts = Append(@, m.part)]
    OBVIOUS
  <2> DEFINE shown == [rows EXCEPT ![at] = row]
  <2>3. RowsAfter(rows, m) = shown
    BY <1>8, <2>1, <2>2 DEF RowsAfter
  <2>4. rows[at] \in Rows
    BY <2>1
  <2>5. row \in Rows /\ row.id = e
    <3>1. CASE m.type = "replace"
      BY <1>1, <2>2, <3>1
    <3>2. CASE m.type = "append"
      <4>1. row = [rows[at] EXCEPT !.parts = Append(@, m.part)]
        BY <2>2, <3>2
      <4>2. Append(rows[at].parts, m.part) \in Seq(Nat)
        BY <1>1, <2>4, <3>2 DEF Rows
      <4> QED
        BY <2>1, <2>4, <4>1, <4>2 DEF Rows
    <3> QED
      BY <1>8, <3>1, <3>2
  <2>6. /\ shown \in Seq(Rows) /\ Len(shown) = Len(rows) /\ shown[at] = row
        /\ \A j \in DOMAIN rows : j # at => shown[j] = rows[j]
    BY <2>1, <2>5
  <2> HIDE DEF shown
  <2>7. ASSUME Complete(rows[at], p, heap) PROVE Complete(row, q, heap)
    <3>1. CASE m.type = "append"
      <4>1. row.parts = Append(rows[at].parts, m.part) /\ rows[at].parts \in Seq(Nat)
        BY <2>2, <2>4, <3>1 DEF Rows
      <4>2. \A x : x \in ToSet(rows[at].parts) \/ x = m.part => x \in ToSet(row.parts)
        <5>1. /\ Len(rows[at].parts) \in Nat
              /\ DOMAIN row.parts = 1 .. Len(rows[at].parts) + 1
              /\ DOMAIN rows[at].parts = 1 .. Len(rows[at].parts)
              /\ row.parts[Len(rows[at].parts) + 1] = m.part
              /\ \A i \in 1 .. Len(rows[at].parts) : row.parts[i] = rows[at].parts[i]
          BY <1>1, <3>1, <4>1
        <5>2. m.part \in ToSet(row.parts)
          <6>1. Len(rows[at].parts) + 1 \in DOMAIN row.parts
            BY <5>1
          <6> QED
            BY <5>1, <6>1 DEF ToSet
        <5>3. ASSUME NEW x \in ToSet(rows[at].parts) PROVE x \in ToSet(row.parts)
          <6>1. PICK i \in DOMAIN rows[at].parts : rows[at].parts[i] = x
            BY DEF ToSet
          <6>2. i \in DOMAIN row.parts /\ row.parts[i] = x
            BY <5>1, <6>1
          <6> QED
            BY <6>2 DEF ToSet
        <5> QED
          BY <5>2, <5>3
      <4>3. \A x : Adds(m, rows[at].id, x) => x = m.part
        BY DEF Adds
      <4>4. \A x : ~Replaces(m, x)
        BY <3>1 DEF Replaces
      <4> QED
        BY <2>1, <2>5, <2>7, <4>2, <4>3, <4>4, TailComplete DEF Complete
    <3>2. CASE m.type = "replace"
      <4>1. ReplaceInOrder(p, 1, K, t, heap) /\ 1 \in DOMAIN p
        BY <3>2, TailFacts DEF InOrder
      <4>2. CASE row.parts = Row(heap, e).parts
        BY <2>5, <4>2 DEF Complete
      <4>3. CASE \E l \in 1 + 1 .. Len(p) : Replaces(p[l], e)
        <5>1. PICK l \in 1 + 1 .. Len(p) : Replaces(p[l], e)
          BY <4>3
        <5>2. l - 1 \in DOMAIN q /\ q[l - 1] = p[l]
          <6>1. Len(p) \in Nat /\ l - 1 \in 1 .. Len(p) - 1 /\ l - 1 + 1 = l
            BY TailFacts
          <6> QED
            BY <6>1, TailFacts
        <5> QED
          BY <2>5, <5>1, <5>2 DEF Complete
      <4> QED
        BY <2>2, <3>2, <4>1, <4>2, <4>3 DEF ReplaceInOrder
    <3> QED
      BY <1>8, <3>1, <3>2
  <2>8. ASSUME NEW j \in DOMAIN rows, NEW x, First(rows, j, x), Complete(rows[j], p, heap)
        PROVE  Complete(shown[j], q, heap)
    <3>1. CASE j = at
      BY <2>6, <2>7, <2>8, <3>1
    <3>2. CASE j # at
      <4>1. rows[j].id # e
        <5> SUFFICES ASSUME rows[j].id = e PROVE FALSE
          OBVIOUS
        <5>1. j \in Nat /\ at \in Nat /\ j # 0 /\ x = e
          BY <2>1, <2>8 DEF First
        <5>2. j \in 1 .. at - 1 \/ at \in 1 .. j - 1
          BY <2>1, <3>2, <5>1
        <5> QED
          BY <2>1, <2>8, <5>1, <5>2 DEF First
      <4> QED
        BY <1>4, <1>8, <2>6, <2>8, <3>2, <4>1
    <3> QED
      BY <3>1, <3>2
  <2>9. \A j \in DOMAIN rows : shown[j].id = rows[j].id
    BY <2>1, <2>5, <2>6
  <2>10. Faithful(shown, q, K, t, heap)
    BY <1>3, <1>8, <2>6, <2>8, <2>9, InPlaceFaithful
  <2> QED
    BY <2>3, <2>6, <2>10
<1> QED
  BY <1>1, <1>2, <1>5, <1>6, <1>7, <1>8 DEF Clears

-----------------------------------------------------------------------------
(* A message that is queued.                                               *)

(* Message m tells of all that the session, which kept the last K of h and *)
(* remembered t, changed in becoming L, u and g. *)
Tells(m, K, t, h, L, u, g) ==
    /\ m.type \notin Clears
    /\ IF m.type = "event"
       THEN m.id = Len(g) /\ Len(g) = Len(h) + 1 /\ L <= K + 1
       ELSE Len(g) = Len(h) /\ L = K /\ u = t
    /\ \A e \in 1 .. Len(h) :
          /\ h[e].kind = "tool" =>
                g[e].kind = "tool" /\ (Row(g, e).parts = Row(h, e).parts \/ Replaces(m, e))
          /\ \A x \in ToSet(Row(g, e).parts) :
                x \in ToSet(Row(h, e).parts) \/ Adds(m, e, x) \/ Replaces(m, e)
    /\ m.type = "replace" =>
          u \in 1 .. Len(g) /\ u > Len(g) - L /\ g[u].kind = "tool" /\ m.row = Row(g, u)

LEMMA MoreFacts ==
    ASSUME NEW p \in Seq(Messages), NEW m \in Messages
    PROVE  /\ Append(p, m) \in Seq(Messages)
           /\ Len(p) \in Nat /\ Len(Append(p, m)) = Len(p) + 1
           /\ DOMAIN p = 1 .. Len(p) /\ DOMAIN Append(p, m) = 1 .. Len(p) + 1
           /\ Append(p, m)[Len(p) + 1] = m
           /\ \A k \in 1 .. Len(p) : Append(p, m)[k] = p[k]
OBVIOUS

LEMMA MoreInOrder ==
    ASSUME NEW K, NEW t, NEW h, Sizes(K, t, h), NEW L, NEW u, NEW g, Sizes(L, u, g),
           NEW p \in Seq(Messages), InOrder(p, K, t, h),
           NEW m \in Messages, Tells(m, K, t, h, L, u, g)
    PROVE  InOrder(Append(p, m), L, u, g)
<1> DEFINE q == Append(p, m)
           N == Len(p)
<1>1. /\ N \in Nat /\ Len(q) = N + 1
      /\ DOMAIN p = 1 .. N /\ DOMAIN q = 1 .. N + 1
      /\ q[N + 1] = m
      /\ \A k \in 1 .. N : q[k] = p[k]
  BY MoreFacts
<1>2. h \in Seq(Events) /\ g \in Seq(Events) /\ Len(h) \in Nat /\ Len(g) \in Nat
  BY DEF Sizes
<1> HIDE DEF q, N
<1>3. m.type \notin Clears
  BY DEF Tells
<1>4. m.type = "event" => m.id = Len(g) /\ Len(g) = Len(h) + 1
  BY DEF Tells
<1>5. m.type # "event" => Len(g) = Len(h) /\ L = K /\ u = t
  BY DEF Tells
<1>6. ASSUME NEW k \in 1 .. N, p[k].type = "event" PROVE EventInOrder(q, k, g)
  <2>1. EventInOrder(p, k, h) /\ q[k] = p[k]
    BY <1>1, <1>6 DEF InOrder
  <2>2. q[k].id \in 1 .. Len(h)
    BY <2>1 DEF EventInOrder
  <2>3. ASSUME NEW l \in k + 1 .. Len(q), q[l].type = "event" PROVE q[k].id < q[l].id
    <3>1. CASE l = N + 1
      BY <1>1, <1>2, <1>4, <2>2, <2>3, <3>1
    <3>2. CASE l # N + 1
      <4>1. l \in k + 1 .. N /\ l \in 1 .. N
        BY <1>1, <3>2
      <4> QED
        BY <1>1, <2>1, <2>3, <4>1 DEF EventInOrder, N
    <3> QED
      BY <3>1, <3>2
  <2>4. \E l \in k .. Len(q) : Announces(q[l], Len(g))
    <3>1. CASE m.type = "event"
      <4>1. N + 1 \in k .. Len(q)
        BY <1>1
      <4> QED
        BY <1>1, <1>4, <3>1, <4>1 DEF Announces
    <3>2. CASE m.type # "event"
      <4>1. PICK l \in k .. N : Announces(p[l], Len(h))
        BY <2>1 DEF EventInOrder, N
      <4>2. l \in 1 .. N /\ l \in k .. Len(q)
        BY <1>1
      <4> QED
        BY <1>1, <1>5, <3>2, <4>1, <4>2
    <3> QED
      BY <3>1, <3>2
  <2>5. q[k].id \in 1 .. Len(g)
    BY <1>2, <1>4, <1>5, <2>2
  <2> QED
    BY <2>3, <2>4, <2>5 DEF EventInOrder
<1>7. ASSUME NEW k \in 1 .. N, p[k].type = "replace" PROVE ReplaceInOrder(q, k, L, u, g)
  <2> DEFINE e == p[k].row.id
  <2>1. ReplaceInOrder(p, k, K, t, h) /\ q[k] = p[k]
    BY <1>1, <1>7 DEF InOrder
  <2>2. e \in 1 .. Len(h) /\ h[e].kind = "tool"
    BY <2>1 DEF ReplaceInOrder
  <2>3. g[e].kind = "tool" /\ (Row(g, e).parts = Row(h, e).parts \/ Replaces(m, e))
    BY <2>2 DEF Tells
  <2>4. e \in 1 .. Len(g)
    BY <1>2, <1>4, <1>5, <2>2
  <2>5. /\ p[k].row.parts = Row(h, e).parts \/ \E l \in k + 1 .. N : Replaces(p[l], e)
        /\ \A l \in k + 1 .. N : ~Announces(p[l], e)
        /\ (e = t /\ e > Len(h) - K) \/ \E l \in k + 1 .. N : p[l].type = "event"
    BY <2>1 DEF ReplaceInOrder, N
  <2> HIDE DEF e
  <2>6. /\ N + 1 \in k + 1 .. Len(q)
        /\ \A l \in k + 1 .. N : l \in k + 1 .. Len(q) /\ q[l] = p[l]
        /\ \A l \in k + 1 .. Len(q) : l # N + 1 => l \in k + 1 .. N
    BY <1>1
  <2>7. p[k].row.parts = Row(g, e).parts \/ \E l \in k + 1 .. Len(q) : Replaces(q[l], e)
    BY <1>1, <2>3, <2>5, <2>6
  <2>8. \A l \in k + 1 .. Len(q) : ~Announces(q[l], e)
    <3> SUFFICES ASSUME NEW l \in k + 1 .. Len(q) PROVE ~Announces(q[l], e)
      OBVIOUS
    <3>1. CASE l = N + 1
      BY <1>1, <1>2, <1>4, <2>2, <3>1 DEF Announces
    <3>2. CASE l # N + 1
      BY <2>5, <2>6, <3>2
    <3> QED
      BY <3>1, <3>2
  <2>9. (e = u /\ e > Len(g) - L) \/ \E l \in k + 1 .. Len(q) : q[l].type = "event"
    <3>1. CASE m.type = "event"
      BY <1>1, <2>6, <3>1
    <3>2. CASE m.type # "event"
      BY <1>5, <2>5, <2>6, <3>2
    <3> QED
      BY <3>1, <3>2
  <2> QED
    BY <2>1, <2>3, <2>4, <2>7, <2>8, <2>9 DEF ReplaceInOrder, e
<1>8. ASSUME m.type = "event" PROVE EventInOrder(q, N + 1, g)
  <2>1. /\ N + 1 + 1 .. Len(q) = {} /\ N + 1 \in N + 1 .. Len(q)
        /\ m.id \in 1 .. Len(g) /\ Announces(m, Len(g))
    BY <1>1, <1>2, <1>4, <1>8 DEF Announces
  <2> QED
    BY <1>1, <2>1 DEF EventInOrder
<1>9. ASSUME m.type = "replace" PROVE ReplaceInOrder(q, N + 1, L, u, g)
  <2>1. u \in 1 .. Len(g) /\ u > Len(g) - L /\ g[u].kind = "tool" /\ m.row = Row(g, u)
    BY <1>9 DEF Tells
  <2>2. m.row.id = u
    BY <1>2, <2>1, RowFacts
  <2>3. N + 1 + 1 .. Len(q) = {}
    BY <1>1
  <2> QED
    BY <1>1, <2>1, <2>2, <2>3 DEF ReplaceInOrder
<1>10. \A k \in 1 .. N : p[k].type \notin Clears
  BY <1>1 DEF InOrder
<1>11. SUFFICES ASSUME NEW k \in DOMAIN q
                PROVE  /\ q[k].type \notin Clears
                       /\ q[k].type = "event" => EventInOrder(q, k, g)
                       /\ q[k].type = "replace" => ReplaceInOrder(q, k, L, u, g)
  BY DEF InOrder, q
<1>12. CASE k = N + 1
  BY <1>1, <1>3, <1>8, <1>9, <1>12
<1>13. CASE k # N + 1
  <2>1. k \in 1 .. N
    BY <1>1, <1>13
  <2>2. q[k] = p[k]
    BY <1>1, <2>1
  <2> QED
    BY <1>6, <1>7, <1>10, <2>1, <2>2
<1> QED
  BY <1>12, <1>13

LEMMA MoreAnnounced ==
    ASSUME NEW p \in Seq(Messages), NEW m \in Messages, NEW e
    PROVE  Announced(Append(p, m), e) <=> Announced(p, e) \/ Announces(m, e)
<1> DEFINE q == Append(p, m)
           N == Len(p)
<1>1. /\ N \in Nat
      /\ DOMAIN p = 1 .. N /\ DOMAIN q = 1 .. N + 1
      /\ q[N + 1] = m
      /\ \A k \in 1 .. N : q[k] = p[k]
  BY MoreFacts
<1> HIDE DEF q, N
<1>2. \A k \in DOMAIN q : k \in 1 .. N \/ k = N + 1
  BY <1>1
<1>3. N + 1 \in DOMAIN q /\ \A k \in 1 .. N : k \in DOMAIN q
  BY <1>1
<1> QED
  BY <1>1, <1>2, <1>3 DEF Announced, q

(* What p brought of a row, it brings with m; and m brings the rest.       *)
LEMMA MoreComplete ==
    ASSUME NEW K, NEW t, NEW h, NEW L, NEW u, NEW g,
           NEW p \in Seq(Messages),
           NEW m \in Messages, Tells(m, K, t, h, L, u, g),
           NEW row, row.id \in 1 .. Len(h), Complete(row, p, h)
    PROVE  Complete(row, Append(p, m), g)
<1> DEFINE q == Append(p, m)
<1>1. /\ Len(p) \in Nat
      /\ DOMAIN p = 1 .. Len(p) /\ DOMAIN q = 1 .. Len(p) + 1
      /\ q[Len(p) + 1] = m
      /\ \A k \in 1 .. Len(p) : q[k] = p[k]
  BY MoreFacts
<1> HIDE DEF q
<1>2. Len(p) + 1 \in DOMAIN q /\ \A k \in DOMAIN p : k \in DOMAIN q /\ q[k] = p[k]
  BY <1>1
<1> SUFFICES ASSUME NEW x \in ToSet(Row(g, row.id).parts)
             PROVE  \/ x \in ToSet(row.parts)
                    \/ \E k \in DOMAIN q : Adds(q[k], row.id, x) \/ Replaces(q[k], row.id)
  BY DEF Complete, q
<1>3. x \in ToSet(Row(h, row.id).parts) \/ Adds(m, row.id, x) \/ Replaces(m, row.id)
  BY DEF Tells
<1>4. CASE Adds(m, row.id, x) \/ Replaces(m, row.id)
  BY <1>1, <1>2, <1>4
<1>5. CASE x \in ToSet(Row(h, row.id).parts)
  BY <1>2, <1>5 DEF Complete
<1> QED
  BY <1>3, <1>4, <1>5

LEMMA MoreFaithful ==
    ASSUME NEW K, NEW t, NEW h, Sizes(K, t, h), NEW L, NEW u, NEW g, Sizes(L, u, g),
           NEW rows \in Seq(Rows), NEW p \in Seq(Messages), Faithful(rows, p, K, t, h),
           NEW m \in Messages, Tells(m, K, t, h, L, u, g)
    PROVE  Faithful(rows, Append(p, m), L, u, g)
<1> DEFINE q == Append(p, m)
           n == Len(h)
<1>1. /\ n \in Nat /\ K \in Nat /\ L \in Nat /\ K <= n /\ Len(g) \in Nat
      /\ Len(rows) \in Nat /\ DOMAIN rows = 1 .. Len(rows)
  BY DEF Sizes
<1>2. \A e : Announced(q, e) <=> Announced(p, e) \/ Announces(m, e)
  BY MoreAnnounced
<1>3. ASSUME NEW j \in DOMAIN rows, NEW e \in 1 .. n,
             First(rows, j, e), Complete(rows[j], p, h)
      PROVE  Complete(rows[j], q, g)
  <2>1. rows[j].id \in 1 .. Len(h)
    BY <1>3 DEF First
  <2> QED
    BY <1>3, <2>1, MoreComplete
<1>4. CASE m.type # "event"
  <2>1. Len(g) = n /\ L = K /\ u = t
    BY <1>4 DEF Tells
  <2>2. \A e : Announced(p, e) <=> Announced(q, e)
    BY <1>2, <1>4 DEF Announces
  <2>3. Sizes(K, t, g)
    BY <2>1
  <2> HIDE DEF q
  <2>4. Faithful(rows, q, K, t, g)
    BY <1>3, <2>1, <2>2, <2>3, InPlaceFaithful
  <2> QED
    BY <2>1, <2>4 DEF q
<1>5. CASE m.type = "event"
  <2>1. m.id = Len(g) /\ Len(g) = n + 1 /\ L <= K + 1
    BY <1>5 DEF Tells
  <2>2. Announced(q, Len(g))
    BY <1>2, <1>5, <2>1 DEF Announces
  <2>3. /\ Len(rows) <= MaxEvents
        /\ \A j \in DOMAIN rows : rows[j].id \in 0 .. n
        /\ NoneIsLost(rows, p, K, h)
    BY DEF Faithful
  <2> HIDE DEF q, n
  <2>4. ~Shows(rows, Len(g))
    BY <1>1, <2>1, <2>3 DEF Shows
  <2>5. LastIsComing(rows, q, g)
    BY <2>2, <2>4 DEF LastIsComing
  <2>6. LastIsOnce(rows, q, g)
    BY <2>4 DEF LastIsOnce, Once, Shows
  <2>7. NoneIsLost(rows, q, L, g)
    <3> SUFFICES ASSUME NEW e \in Len(g) - L + 1 .. Len(g), Len(rows) # MaxEvents
                 PROVE  (~Shows(rows, e) /\ Announced(q, e)) \/ Whole(rows, q, g, e)
      BY DEF NoneIsLost
    <3>1. CASE e = Len(g)
      BY <2>2, <2>4, <3>1
    <3>2. CASE e # Len(g)
      <4>1. e \in n - K + 1 .. n /\ e \in 1 .. n
        BY <1>1, <2>1, <3>2
      <4>2. (~Shows(rows, e) /\ Announced(p, e)) \/ Whole(rows, p, h, e)
        BY <2>3, <4>1 DEF NoneIsLost, n
      <4> QED
        BY <1>2, <1>3, <4>1, <4>2 DEF Whole
    <3> QED
      BY <3>1, <3>2
  <2>8. \A j \in DOMAIN rows : rows[j].id \in 0 .. Len(g)
    BY <1>1, <2>1, <2>3
  <2> QED
    BY <2>3, <2>5, <2>6, <2>7, <2>8 DEF Faithful, q
<1> QED
  BY <1>4, <1>5

(* A page that is sent all the session has.                                *)
LEMMA SnapshotFaithful ==
    ASSUME NEW K, NEW t, NEW h, Sizes(K, t, h),
           NEW rows \in Seq(Rows), Len(rows) = K,
           \A i \in 1 .. K : rows[i] = Row(h, Len(h) - K + i)
    PROVE  /\ Faithful(rows, <<>>, K, t, h)
           /\ \A i \in 1 .. K : First(rows, i, Len(h) - K + i) /\ Complete(rows[i], <<>>, h)
           /\ \A i \in 1 .. K : rows[i].id = Len(h) - K + i
<1> DEFINE n == Len(h)
           o == Len(h) - K
<1>1. /\ n \in Nat /\ K \in Nat /\ K <= n /\ K <= MaxEvents /\ h \in Seq(Events)
      /\ o \in Nat /\ n = o + K
      /\ DOMAIN rows = 1 .. K
  BY DEF Sizes
<1>2. ASSUME NEW i \in 1 .. K PROVE rows[i].id = o + i /\ o + i \in 1 .. n
  <2>1. o + i \in 1 .. Len(h)
    BY <1>1
  <2> QED
    BY <1>1, <2>1, RowFacts
<1> HIDE DEF n, o
<1>3. ASSUME NEW i \in 1 .. K PROVE First(rows, i, o + i)
  <2>1. ASSUME NEW k \in 1 .. i - 1 PROVE rows[k].id # o + i
    <3>1. k \in 1 .. K /\ k < i /\ o + k # o + i
      BY <1>1
    <3> QED
      BY <1>2, <3>1
  <2> QED
    BY <1>1, <1>2, <2>1 DEF First
<1>4. ASSUME NEW i \in 1 .. K PROVE Complete(rows[i], <<>>, h)
  <2>1. rows[i] = Row(h, rows[i].id)
    BY <1>2 DEF o
  <2> QED
    BY <2>1 DEF Complete
<1>5. \A e : ~Announced(<<>>, e)
  BY DEF Announced
<1>6. NoneIsLost(rows, <<>>, K, h)
  <2> SUFFICES ASSUME NEW e \in n - K + 1 .. n PROVE Whole(rows, <<>>, h, e)
    BY DEF NoneIsLost, n
  <2>1. e - o \in 1 .. K /\ o + (e - o) = e
    BY <1>1
  <2> QED
    BY <1>1, <1>3, <1>4, <2>1 DEF Whole
<1>7. ASSUME K > 0 PROVE LastIsSafe(rows, <<>>, t, h)
  <2>1. K \in 1 .. K /\ o + K = n /\ K + 1 .. Len(rows) = {}
    BY <1>1, <1>7
  <2> QED
    BY <1>1, <1>3, <1>4, <1>5, <2>1 DEF LastIsSafe, n
<1>8. \A j \in DOMAIN rows : rows[j].id \in 0 .. n
  BY <1>1, <1>2
<1> QED
  BY <1>1, <1>2, <1>3, <1>4, <1>5, <1>6, <1>7, <1>8 DEF Faithful, LastIsOnce, n, o

(* One that has just been cleared.                                         *)
LEMMA ClearedFaithful ==
    ASSUME NEW h \in Seq(Events)
    PROVE  Faithful(<<>>, <<>>, 0, 0, h) /\ InOrder(<<>>, 0, 0, h)
<1>1. Len(h) \in Nat /\ MaxEvents \in Nat /\ Len(h) - 0 + 1 .. Len(h) = {}
  BY SessionAssumption
<1> QED
  BY <1>1 DEF Faithful, NoneIsLost, LastIsOnce, Announced, InOrder

(* And one that is refused something, and gets a row for the error.        *)
LEMMA RefusedFaithful ==
    ASSUME NEW K, NEW t, NEW h, Sizes(K, t, h),
           NEW rows \in Seq(Rows), Len(rows) = K,
           \A i \in 1 .. K : rows[i] = Row(h, Len(h) - K + i),
           NEW row \in Rows, row.id = 0,
           NEW pushed, pushed = Trimmed(Append(rows, row)),
           NEW p
    PROVE  pushed \in Seq(Rows) /\ Faithful(pushed, p, K, t, h)
<1> DEFINE n == Len(h)
           o == Len(h) - K
<1>1. /\ n \in Nat /\ K \in Nat /\ K <= n /\ K <= MaxEvents /\ h \in Seq(Events)
      /\ o \in Nat /\ n = o + K
      /\ DOMAIN rows = 1 .. K
      /\ t \in 0 .. n
  BY DEF Sizes
<1>2. /\ Faithful(rows, <<>>, K, t, h)
      /\ \A i \in 1 .. K : First(rows, i, o + i) /\ Complete(rows[i], <<>>, h)
      /\ \A i \in 1 .. K : rows[i].id = o + i
  BY SnapshotFaithful
<1>3. pushed \in Seq(Rows)
  BY PushIsSeq
<1>4. Len(rows) <= MaxEvents
  BY <1>1
<1>5. /\ Out(rows) \in {0, 1} /\ (Out(rows) = 1 <=> K = MaxEvents)
      /\ Len(pushed) = K + 1 - Out(rows) /\ Len(pushed) \in Nat \ {0}
      /\ DOMAIN pushed = 1 .. Len(pushed)
  BY <1>3, <1>4, PushFacts
<1>6. pushed[Len(pushed)] = row
  BY <1>3, <1>4, PushFacts
<1>7. \A r : Complete(r, <<>>, h) => Complete(r, p, h)
  BY DEF Complete
<1>8. \A e : ~Announced(<<>>, e)
  BY DEF Announced
<1> HIDE DEF n, o
<1>9. NoneIsLost(pushed, p, K, h)
  <2>1. NoneIsLost(rows, <<>>, K, h)
    BY <1>2 DEF Faithful
  <2>2. \A e \in 1 .. Len(h) : e # row.id /\ Announced(<<>>, e) => Announced(p, e)
    BY <1>8
  <2>3. \A j \in DOMAIN rows : Complete(rows[j], <<>>, h) => Complete(rows[j], p, h)
    BY <1>7
  <2> QED
    BY <1>3, <1>4, <2>1, <2>2, <2>3, PushLosesNone
<1>10. Len(pushed) <= MaxEvents /\ \A j \in DOMAIN pushed : pushed[j].id \in 0 .. n
  <2>1. \A j \in DOMAIN rows : rows[j].id \in 0 .. n
    BY <1>2 DEF Faithful, n
  <2>2. row.id \in 0 .. n
    BY <1>1
  <2> QED
    BY <1>1, <1>3, <1>4, <2>1, <2>2, PushNumbers
<1>11. LastIsOnce(pushed, p, h)
  <2>1. CASE n = 0
    <3>1. K = 0 /\ DOMAIN pushed = 1 .. 1
      BY <1>1, <1>5, <2>1, SessionAssumption
    <3> QED
      BY <3>1 DEF LastIsOnce, Once
  <2>2. CASE n # 0
    <3>1. Once(rows, n)
      <4> SUFFICES ASSUME NEW i \in DOMAIN rows, NEW j \in DOMAIN rows,
                          rows[i].id = n, rows[j].id = n
                   PROVE  i = j
        BY DEF Once
      <4> QED
        BY <1>1, <1>2
    <3>2. Once(pushed, n)
      BY <1>1, <1>3, <1>4, <2>2, <3>1, PushOnce
    <3> QED
      BY <3>2 DEF LastIsOnce, n
  <2> QED
    BY <2>1, <2>2
<1>12. ASSUME K > Out(rows) PROVE LastIsSafe(pushed, p, t, h)
  <2>1. K \in DOMAIN rows /\ o + K = n
    BY <1>1, <1>12, <1>5
  <2>2. First(rows, K, n) /\ Complete(rows[K], p, h)
    BY <1>1, <1>2, <1>7, <2>1
  <2>3. /\ K - Out(rows) \in DOMAIN pushed /\ First(pushed, K - Out(rows), n)
        /\ pushed[K - Out(rows)] = rows[K]
    BY <1>3, <1>4, <1>12, <2>1, <2>2, PushOther
  <2>4. K - Out(rows) < Len(pushed) /\ K - Out(rows) + 1 = Len(pushed)
    BY <1>1, <1>5
  <2>5. pushed[K - Out(rows) + 1].id = 0
    BY <1>6, <2>4
  <2> QED
    BY <2>2, <2>3, <2>4, <2>5 DEF LastIsSafe, n
<1>13. ASSUME K > 0, ~(K > Out(rows))
       PROVE  LastIsComing(pushed, p, h) \/ LastIsOut(pushed, p, K, t, h)
  <2>1. K = 1 /\ DOMAIN pushed = 1 .. 1 /\ Len(pushed) = 1
    BY <1>1, <1>5, <1>13
  <2>2. pushed[1].id = 0
    BY <1>6, <2>1
  <2>3. Shows(pushed, 0) /\ ~Shows(pushed, n)
    BY <1>1, <2>1, <2>2 DEF Shows
  <2>4. ~(t > n - K /\ t # n)
    BY <1>1, <2>1
  <2> QED
    BY <2>3, <2>4 DEF LastIsComing, LastIsOut, n
<1> QED
  BY <1>3, <1>9, <1>10, <1>11, <1>12, <1>13 DEF Faithful, n

-----------------------------------------------------------------------------
(* A page and its queue.                                                   *)

Bears(m) == m.type \in {"snapshot", "state"}

(* The last state in the queue is the session's, or the page shows that.   *)
StateArrives(queue, shown, state) ==
    \/ shown = state /\ \A l \in DOMAIN queue : ~Bears(queue[l])
    \/ \E k \in DOMAIN queue :
          /\ Bears(queue[k])
          /\ queue[k].state = state
          /\ \A l \in k + 1 .. Len(queue) : ~Bears(queue[l])

Cleared(m) == IF m.type = "snapshot" THEN m.rows ELSE <<>>

(* The last c messages of the queue after the last that clears the page    *)
(* bring what the rows lack that it shows, or will when that one is shown. *)
RowsArrive(queue, shown, K, t, h) ==
    \E c \in Nat, p \in Seq(Messages), rows \in Seq(Rows) :
        /\ Len(queue) = c + Len(p)
        /\ \A k \in 1 .. Len(p) : p[k] = queue[c + k]
        /\ c = 0 => rows = shown
        /\ c > 0 => queue[c].type \in Clears /\ rows = Cleared(queue[c])
        /\ InOrder(p, K, t, h)
        /\ Faithful(rows, p, K, t, h)

(* One more message.                                                       *)
LEMMA StateQueued ==
    ASSUME NEW queue \in Seq(Messages), NEW m \in Messages, NEW shown, NEW state, NEW next,
           StateArrives(queue, shown, state),
           IF Bears(m) THEN m.state = next ELSE next = state
    PROVE  StateArrives(Append(queue, m), shown, next)
<1> DEFINE q == Append(queue, m)
           N == Len(queue)
<1>1. /\ N \in Nat /\ Len(q) = N + 1
      /\ DOMAIN queue = 1 .. N /\ DOMAIN q = 1 .. N + 1
      /\ q[N + 1] = m
      /\ \A k \in 1 .. N : q[k] = queue[k]
  BY MoreFacts
<1> HIDE DEF q, N
<1>2. CASE Bears(m)
  <2>1. N + 1 \in DOMAIN q /\ N + 1 + 1 .. Len(q) = {}
    BY <1>1
  <2> QED
    BY <1>1, <1>2, <2>1 DEF StateArrives, q
<1>3. CASE ~Bears(m)
  <2>1. ASSUME NEW k \in Nat, \A l \in k + 1 .. N : ~Bears(queue[l])
        PROVE  \A l \in k + 1 .. Len(q) : ~Bears(q[l])
    <3> SUFFICES ASSUME NEW l \in k + 1 .. N + 1 PROVE ~Bears(q[l])
      BY <1>1
    <3>1. CASE l = N + 1
      BY <1>1, <1>3, <3>1
    <3>2. CASE l # N + 1
      <4>1. l \in k + 1 .. N /\ l \in 1 .. N
        BY <1>1, <3>2
      <4>2. q[l] = queue[l]
        BY <1>1, <4>1
      <4> QED
        BY <2>1, <4>1, <4>2
    <3> QED
      BY <3>1, <3>2
  <2>2. CASE shown = state /\ \A l \in DOMAIN queue : ~Bears(queue[l])
    <3>1. \A l \in 0 + 1 .. N : ~Bears(queue[l])
      BY <1>1, <2>2
    <3>2. \A l \in 0 + 1 .. Len(q) : ~Bears(q[l])
      BY <2>1, <3>1
    <3>3. \A l \in DOMAIN q : ~Bears(q[l])
      BY <1>1, <3>2
    <3> QED
      BY <1>3, <2>2, <3>3 DEF StateArrives, q
  <2>3. ASSUME NEW k \in DOMAIN queue, Bears(queue[k]), queue[k].state = state,
               \A l \in k + 1 .. N : ~Bears(queue[l])
        PROVE  StateArrives(q, shown, next)
    <3>1. k \in DOMAIN q /\ k \in Nat /\ q[k] = queue[k]
      BY <1>1
    <3>2. \A l \in k + 1 .. Len(q) : ~Bears(q[l])
      BY <2>1, <2>3, <3>1
    <3> QED
      BY <1>3, <2>3, <3>1, <3>2 DEF StateArrives
  <2> QED
    BY <2>2, <2>3 DEF StateArrives, q, N
<1> QED
  BY <1>2, <1>3

LEMMA RowsQueued ==
    ASSUME NEW K, NEW t, NEW h, Sizes(K, t, h), NEW L, NEW u, NEW g, Sizes(L, u, g),
           NEW queue \in Seq(Messages), NEW shown,
           RowsArrive(queue, shown, K, t, h),
           NEW m \in Messages, Tells(m, K, t, h, L, u, g)
    PROVE  RowsArrive(Append(queue, m), shown, L, u, g)
<1>1. PICK c \in Nat, p \in Seq(Messages), rows \in Seq(Rows) :
        /\ Len(queue) = c + Len(p)
        /\ \A k \in 1 .. Len(p) : p[k] = queue[c + k]
        /\ c = 0 => rows = shown
        /\ c > 0 => queue[c].type \in Clears /\ rows = Cleared(queue[c])
        /\ InOrder(p, K, t, h)
        /\ Faithful(rows, p, K, t, h)
  BY DEF RowsArrive
<1> DEFINE q == Append(queue, m)
           r == Append(p, m)
<1>2. /\ Len(queue) \in Nat /\ Len(q) = Len(queue) + 1
      /\ q[Len(queue) + 1] = m
      /\ \A k \in 1 .. Len(queue) : q[k] = queue[k]
  BY MoreFacts
<1>3. /\ r \in Seq(Messages) /\ Len(p) \in Nat /\ Len(r) = Len(p) + 1
      /\ r[Len(p) + 1] = m
      /\ \A k \in 1 .. Len(p) : r[k] = p[k]
  BY MoreFacts
<1>4. InOrder(r, L, u, g) /\ Faithful(rows, r, L, u, g)
  BY <1>1, MoreInOrder, MoreFaithful
<1> HIDE DEF q, r
<1>5. Len(q) = c + Len(r)
  BY <1>1, <1>2, <1>3
<1>6. \A k \in 1 .. Len(r) : r[k] = q[c + k]
  <2> SUFFICES ASSUME NEW k \in 1 .. Len(r) PROVE r[k] = q[c + k]
    OBVIOUS
  <2>1. CASE k = Len(p) + 1
    <3>1. c + k = Len(queue) + 1
      BY <1>1, <1>2, <1>3, <2>1
    <3> QED
      BY <1>2, <1>3, <2>1, <3>1
  <2>2. CASE k # Len(p) + 1
    <3>1. k \in 1 .. Len(p) /\ c + k \in 1 .. Len(queue)
      BY <1>1, <1>2, <1>3, <2>2
    <3>2. r[k] = p[k] /\ q[c + k] = queue[c + k] /\ p[k] = queue[c + k]
      BY <1>1, <1>2, <1>3, <3>1
    <3> QED
      BY <3>2
  <2> QED
    BY <2>1, <2>2
<1>7. c > 0 => q[c] = queue[c]
  <2>1. c > 0 => c \in 1 .. Len(queue)
    BY <1>1, <1>3
  <2> QED
    BY <1>2, <2>1
<1>8. /\ Len(q) = c + Len(r)
      /\ \A k \in 1 .. Len(r) : r[k] = q[c + k]
      /\ c = 0 => rows = shown
      /\ c > 0 => q[c].type \in Clears /\ rows = Cleared(q[c])
      /\ InOrder(r, L, u, g)
      /\ Faithful(rows, r, L, u, g)
  BY <1>1, <1>4, <1>5, <1>6, <1>7
<1>9. RowsArrive(q, shown, L, u, g)
  BY <1>3, <1>8 DEF RowsArrive
<1> QED
  BY <1>9 DEF q

(* A message that clears the page.                                         *)
LEMMA RowsCleared ==
    ASSUME NEW K, NEW t, NEW h,
           NEW queue \in Seq(Messages), NEW shown,
           NEW m \in Messages, m.type \in Clears, Cleared(m) \in Seq(Rows),
           Faithful(Cleared(m), <<>>, K, t, h)
    PROVE  RowsArrive(Append(queue, m), shown, K, t, h)
<1> DEFINE q == Append(queue, m)
           c == Len(queue) + 1
<1>1. /\ Len(queue) \in Nat /\ Len(q) = c /\ q[c] = m
  BY MoreFacts
<1>2. c \in Nat /\ c # 0 /\ <<>> \in Seq(Messages) /\ Len(<<>>) = 0 /\ Len(q) = c + Len(<<>>)
  BY <1>1
<1>3. InOrder(<<>>, K, t, h)
  BY DEF InOrder
<1>4. \A k \in 1 .. Len(<<>>) : <<>>[k] = q[c + k]
  BY <1>2
<1> HIDE DEF q, c
<1>5. RowsArrive(q, shown, K, t, h)
  BY <1>1, <1>2, <1>3, <1>4 DEF RowsArrive
<1> QED
  BY <1>5 DEF q

(* One less.                                                               *)
LEMMA StateShown ==
    ASSUME NEW queue \in Seq(Messages), queue # <<>>, NEW shown, NEW state,
           StateArrives(queue, shown, state)
    PROVE  StateArrives(Tail(queue), IF Bears(queue[1]) THEN queue[1].state ELSE shown, state)
<1> DEFINE q == Tail(queue)
           N == Len(queue) - 1
           now == IF Bears(queue[1]) THEN queue[1].state ELSE shown
<1>1. /\ N \in Nat /\ Len(queue) = N + 1 /\ Len(q) = N
      /\ DOMAIN queue = 1 .. N + 1 /\ DOMAIN q = 1 .. N
      /\ \A k \in 1 .. N : k + 1 \in DOMAIN queue /\ q[k] = queue[k + 1]
  BY TailFacts
<1> HIDE DEF q, N
<1>2. ASSUME NEW k \in 1 .. N + 1, \A l \in k + 1 .. N + 1 : ~Bears(queue[l])
      PROVE  \A l \in k .. N : ~Bears(q[l])
  <2> SUFFICES ASSUME NEW l \in k .. N PROVE ~Bears(q[l])
    OBVIOUS
  <2>1. l + 1 \in k + 1 .. N + 1 /\ l \in 1 .. N
    BY <1>1
  <2> QED
    BY <1>1, <1>2, <2>1
<1>3. CASE shown = state /\ \A l \in DOMAIN queue : ~Bears(queue[l])
  <2>1. ~Bears(queue[1])
    BY <1>1, <1>3
  <2>2. \A l \in DOMAIN q : ~Bears(q[l])
    BY <1>1, <1>3
  <2> QED
    BY <1>3, <2>1, <2>2 DEF StateArrives, q
<1>4. ASSUME NEW k \in DOMAIN queue, Bears(queue[k]), queue[k].state = state,
             \A l \in k + 1 .. Len(queue) : ~Bears(queue[l])
      PROVE  StateArrives(q, now, state)
  <2>1. CASE k = 1
    <3>1. \A l \in DOMAIN q : ~Bears(q[l])
      BY <1>1, <1>2, <1>4, <2>1
    <3> QED
      BY <1>4, <2>1, <3>1 DEF StateArrives
  <2>2. CASE k # 1
    <3>1. k - 1 \in 1 .. N /\ (k - 1) + 1 = k
      BY <1>1, <2>2
    <3>2. q[k - 1] = queue[k] /\ k - 1 \in DOMAIN q
      BY <1>1, <3>1
    <3>3. \A l \in (k - 1) + 1 .. Len(q) : ~Bears(q[l])
      BY <1>1, <1>2, <1>4, <3>1
    <3> QED
      BY <1>4, <3>2, <3>3 DEF StateArrives
  <2> QED
    BY <2>1, <2>2
<1> QED
  BY <1>3, <1>4 DEF StateArrives, q

LEMMA RowsShown ==
    ASSUME NEW K, NEW t, Sizes(K, t, heap),
           NEW queue \in Seq(Messages), queue # <<>>, NEW shown,
           RowsArrive(queue, shown, K, t, heap)
    PROVE  RowsArrive(Tail(queue), RowsAfter(shown, queue[1]), K, t, heap)
<1> DEFINE q == Tail(queue)
           now == RowsAfter(shown, queue[1])
<1>1. PICK c \in Nat, p \in Seq(Messages), rows \in Seq(Rows) :
        /\ Len(queue) = c + Len(p)
        /\ \A k \in 1 .. Len(p) : p[k] = queue[c + k]
        /\ c = 0 => rows = shown
        /\ c > 0 => queue[c].type \in Clears /\ rows = Cleared(queue[c])
        /\ InOrder(p, K, t, heap)
        /\ Faithful(rows, p, K, t, heap)
  BY DEF RowsArrive
<1>2. /\ Len(queue) \in Nat \ {0} /\ Len(q) = Len(queue) - 1
      /\ \A k \in 1 .. Len(queue) - 1 : q[k] = queue[k + 1]
  BY TailFacts
<1>3. Len(p) \in Nat
  OBVIOUS
<1>4. CASE c = 0
  <2> DEFINE r == Tail(p)
  <2>1. p # <<>> /\ Len(p) = Len(queue)
    BY <1>1, <1>2, <1>3, <1>4
  <2>2. /\ r \in Seq(Messages) /\ Len(r) = Len(p) - 1
        /\ \A k \in 1 .. Len(p) - 1 : r[k] = p[k + 1]
    BY <2>1, TailFacts
  <2>3. p[1] = queue[1]
    <3>1. 1 \in 1 .. Len(p) /\ c + 1 = 1
      BY <1>2, <1>4, <2>1
    <3> QED
      BY <1>1, <3>1
  <2>4. now \in Seq(Rows) /\ Faithful(now, r, K, t, heap)
    BY <1>1, <1>4, <2>1, <2>3, ShowFaithful
  <2>5. InOrder(r, K, t, heap)
    BY <1>1, <2>1, TailInOrder
  <2> HIDE DEF q, r, now
  <2>6. Len(q) = 0 + Len(r)
    BY <1>2, <2>1, <2>2
  <2>7. \A k \in 1 .. Len(r) : r[k] = q[0 + k]
    <3> SUFFICES ASSUME NEW k \in 1 .. Len(r) PROVE r[k] = q[0 + k]
      OBVIOUS
    <3>1. k \in 1 .. Len(p) - 1 /\ k + 1 \in 1 .. Len(p) /\ 0 + k = k /\ c + (k + 1) = k + 1
      BY <1>3, <1>4, <2>2
    <3>2. r[k] = p[k + 1] /\ p[k + 1] = queue[k + 1] /\ q[k] = queue[k + 1]
      BY <1>1, <1>2, <2>1, <2>2, <3>1
    <3> QED
      BY <3>1, <3>2
  <2>8. RowsArrive(q, now, K, t, heap)
    BY <2>2, <2>4, <2>5, <2>6, <2>7 DEF RowsArrive
  <2> QED
    BY <2>8 DEF q, now
<1>5. CASE c # 0
  <2>1. c - 1 \in Nat /\ c > 0 /\ Len(q) = (c - 1) + Len(p)
    BY <1>1, <1>2, <1>3, <1>5
  <2>2. \A k \in 1 .. Len(p) : p[k] = q[(c - 1) + k]
    <3> SUFFICES ASSUME NEW k \in 1 .. Len(p) PROVE p[k] = q[(c - 1) + k]
      OBVIOUS
    <3>1. (c - 1) + k \in 1 .. Len(queue) - 1 /\ (c - 1) + k + 1 = c + k
      BY <1>1, <1>2, <1>3, <2>1
    <3> QED
      BY <1>1, <1>2, <3>1
  <2>3. queue[c].type \in Clears /\ rows = Cleared(queue[c])
    BY <1>1, <2>1
  <2>4. c - 1 = 0 => rows = now
    BY <2>1, <2>3 DEF Cleared, Clears, RowsAfter
  <2>5. c - 1 > 0 => q[c - 1] = queue[c]
    <3>1. c - 1 > 0 => c - 1 \in 1 .. Len(queue) - 1 /\ (c - 1) + 1 = c
      BY <1>1, <1>2, <1>3, <2>1
    <3> QED
      BY <1>2, <3>1
  <2> HIDE DEF q, now
  <2>6. RowsArrive(q, now, K, t, heap)
    <3>1. /\ Len(q) = (c - 1) + Len(p)
          /\ \A k \in 1 .. Len(p) : p[k] = q[(c - 1) + k]
          /\ (c - 1) = 0 => rows = now
          /\ (c - 1) > 0 => q[c - 1].type \in Clears /\ rows = Cleared(q[c - 1])
          /\ InOrder(p, K, t, heap)
          /\ Faithful(rows, p, K, t, heap)
      BY <1>1, <2>1, <2>2, <2>3, <2>4, <2>5
    <3> QED
      BY <2>1, <3>1 DEF RowsArrive
  <2> QED
    BY <2>6 DEF q, now
<1> QED
  BY <1>4, <1>5

(* A page that has shown everything.                                       *)
LEMMA NothingArrives ==
    ASSUME NEW K, NEW t, NEW h, NEW shown, RowsArrive(<<>>, shown, K, t, h)
    PROVE  Faithful(shown, <<>>, K, t, h)
<1>1. PICK c \in Nat, p \in Seq(Messages), rows \in Seq(Rows) :
        /\ Len(<<>>) = c + Len(p)
        /\ c = 0 => rows = shown
        /\ Faithful(rows, p, K, t, h)
  BY DEF RowsArrive
<1>2. c = 0 /\ Len(p) = 0
  BY <1>1
<1>3. p = <<>>
  BY <1>2
<1> QED
  BY <1>1, <1>2, <1>3

LEMMA RowsRefused ==
    ASSUME NEW K, NEW t, NEW h, Sizes(K, t, h),
           NEW rows \in Seq(Rows), Len(rows) = K,
           \A i \in 1 .. K : rows[i] = Row(h, Len(h) - K + i),
           NEW row \in Rows, row.id = 0,
           NEW queue, NEW shown, RowsArrive(queue, shown, K, t, h)
    PROVE  RowsArrive(queue, Trimmed(Append(rows, row)), K, t, h)
<1>1. PICK c \in Nat, p \in Seq(Messages), old \in Seq(Rows) :
        /\ Len(queue) = c + Len(p)
        /\ \A k \in 1 .. Len(p) : p[k] = queue[c + k]
        /\ c > 0 => queue[c].type \in Clears /\ old = Cleared(queue[c])
        /\ InOrder(p, K, t, h)
        /\ Faithful(old, p, K, t, h)
  BY DEF RowsArrive
<1>2. PICK pushed : pushed = Trimmed(Append(rows, row))
  OBVIOUS
<1>3. pushed \in Seq(Rows) /\ Faithful(pushed, p, K, t, h)
  BY <1>2, RefusedFaithful
<1>4. PICK now \in Seq(Rows) : now = IF c = 0 THEN pushed ELSE old
  BY <1>3
<1>5. /\ Len(queue) = c + Len(p)
      /\ \A k \in 1 .. Len(p) : p[k] = queue[c + k]
      /\ c = 0 => now = pushed
      /\ c > 0 => queue[c].type \in Clears /\ now = Cleared(queue[c])
      /\ InOrder(p, K, t, h)
      /\ Faithful(now, p, K, t, h)
  BY <1>1, <1>3, <1>4
<1> QED
  BY <1>2, <1>5 DEF RowsArrive

-----------------------------------------------------------------------------
(* The agent's session.                                                    *)

Sessions ==
    [state : States, events : Seq(Nat), ensured : BOOLEAN, task : Tasks, retried : BOOLEAN,
     tool : Nat]

(* A session s keeps the last of the events h.                             *)
KeepsLast(s, h) ==
    /\ s \in Sessions
    /\ h \in Seq(Events)
    /\ Len(s.events) <= MaxEvents
    /\ Len(s.events) <= Len(h)
    /\ \A i \in DOMAIN s.events : s.events[i] = Len(h) - Len(s.events) + i

(* And of these one row of a tool at most, the one it remembers.           *)
SessionTranscript(s, h) ==
    /\ KeepsLast(s, h)
    /\ s.tool \in 0 .. Len(h)
    /\ s.tool # 0 => h[s.tool].kind = "tool"
    /\ \A e \in Len(h) - Len(s.events) + 1 .. Len(h) : h[e].kind = "tool" => e = s.tool

IsPage(page) ==
    /\ page = [on |-> page.on, loop |-> page.loop, queue |-> page.queue,
               state |-> page.state, submitting |-> page.submitting, rows |-> page.rows]
    /\ page.on \in BOOLEAN
    /\ page.queue \in Seq(Messages)

(* A page that is followed and listens will show the session; nothing is   *)
(* queued for another one. *)
Follows(page, isWatched, state, K, t, h) ==
    /\ IsPage(page)
    /\ IF isWatched /\ page.on
       THEN /\ StateArrives(page.queue, page.state, state)
            /\ RowsArrive(page.queue, page.rows, K, t, h)
       ELSE page.queue = <<>>

AllFollow(w, state, K, t, h) ==
    /\ DOMAIN w = Views
    /\ w = [v \in Views |-> w[v]]
    /\ \A v \in Views : Follows(w[v], v \in Watched, state, K, t, h)

LEMMA KeepsFacts ==
    ASSUME NEW s, NEW h, KeepsLast(s, h)
    PROVE  /\ Len(s.events) \in Nat /\ DOMAIN s.events = 1 .. Len(s.events)
           /\ Len(h) \in Nat /\ DOMAIN h = 1 .. Len(h)
           /\ h \in Seq(Events)
           /\ \A t \in 0 .. Len(h) : Sizes(Len(s.events), t, h)
BY DEF KeepsLast, Sessions, Sizes

LEMMA TranscriptFacts ==
    ASSUME NEW s, NEW h, SessionTranscript(s, h)
    PROVE  /\ KeepsLast(s, h)
           /\ Len(s.events) \in Nat /\ Len(h) \in Nat /\ DOMAIN h = 1 .. Len(h)
           /\ h \in Seq(Events)
           /\ Sizes(Len(s.events), s.tool, h)
BY KeepsFacts DEF SessionTranscript

LEMMA SnapshotFacts ==
    ASSUME NEW s, NEW h, KeepsLast(s, h)
    PROVE  /\ Snapshot(s, h) \in Messages
           /\ Snapshot(s, h).type = "snapshot"
           /\ Snapshot(s, h).state = s.state
           /\ Snapshot(s, h).rows \in Seq(Rows)
           /\ Len(Snapshot(s, h).rows) = Len(s.events)
           /\ \A i \in 1 .. Len(s.events) :
                 Snapshot(s, h).rows[i] = Row(h, Len(h) - Len(s.events) + i)
<1> DEFINE K == Len(s.events)
           rows == [i \in DOMAIN s.events |-> Row(h, s.events[i])]
<1>1. K \in Nat /\ DOMAIN s.events = 1 .. K /\ Len(h) \in Nat /\ h \in Seq(Events)
  BY KeepsFacts
<1>2. K <= Len(h) /\ \A i \in 1 .. K : s.events[i] = Len(h) - K + i
  BY <1>1 DEF KeepsLast
<1>3. \A i \in 1 .. K : s.events[i] \in 1 .. Len(h)
  <2>1. \A i \in 1 .. K : Len(h) - K + i \in 1 .. Len(h)
    BY <1>1, <1>2
  <2> QED
    BY <1>2, <2>1
<1>4. \A i \in 1 .. K : Row(h, s.events[i]) \in Rows
  BY <1>1, <1>3, RowFacts
<1>5. rows \in Seq(Rows) /\ Len(rows) = K
  BY <1>1, <1>4
<1>6. \A i \in 1 .. K : rows[i] = Row(h, Len(h) - K + i)
  BY <1>1, <1>2
<1>7. s.state \in States
  BY DEF KeepsLast, Sessions
<1> HIDE DEF rows
<1>8. Snapshot(s, h) = [type |-> "snapshot", state |-> s.state, rows |-> rows]
  BY DEF Snapshot, rows
<1>9. Snapshot(s, h) \in [type : {"snapshot"}, state : States, rows : Seq(Rows)]
  BY <1>5, <1>7, <1>8
<1>10. Snapshot(s, h) \in Messages
  BY <1>9 DEF Messages
<1>11. Snapshot(s, h).type = "snapshot" /\ Snapshot(s, h).state = s.state /\ Snapshot(s, h).rows = rows
  BY <1>8
<1> QED
  BY <1>5, <1>6, <1>10, <1>11

(* What is sent to a page that listens.                                    *)
Hears(page, m, snapshot) == [page EXCEPT !.queue = Queued(@, m, snapshot)]

LEMMA HearsFacts ==
    ASSUME NEW page, IsPage(page), NEW m \in Messages, NEW snapshot \in Messages
    PROVE  /\ IsPage(Hears(page, m, snapshot))
           /\ Hears(page, m, snapshot).on = page.on
           /\ Hears(page, m, snapshot).state = page.state
           /\ Hears(page, m, snapshot).rows = page.rows
           /\ \/ Hears(page, m, snapshot).queue = Append(page.queue, m)
              \/ Hears(page, m, snapshot).queue = Append(<<>>, snapshot)
<1> DEFINE q == Queued(page.queue, m, snapshot)
<1>1. page.queue \in Seq(Messages)
  BY DEF IsPage
<1>2. /\ q = Append(page.queue, m) \/ q = Append(<<>>, snapshot)
      /\ q \in Seq(Messages)
  BY <1>1 DEF Queued
<1>3. Hears(page, m, snapshot) = [page EXCEPT !.queue = q]
  BY DEF Hears
<1> HIDE DEF q
<1>4. PICK on, loop, queue, state, submitting, rows :
         page = [on |-> on, loop |-> loop, queue |-> queue,
                 state |-> state, submitting |-> submitting, rows |-> rows]
  BY DEF IsPage
<1>5. PICK n : n = [page EXCEPT !.queue = q]
  OBVIOUS
<1>6. n = [on |-> on, loop |-> loop, queue |-> q,
           state |-> state, submitting |-> submitting, rows |-> rows]
  BY <1>4, <1>5
<1>7. page.on = on /\ page.state = state /\ page.rows = rows /\ on \in BOOLEAN
  BY <1>4 DEF IsPage
<1>8. IsPage(n) /\ n.on = on /\ n.state = state /\ n.rows = rows /\ n.queue = q
  BY <1>2, <1>6, <1>7 DEF IsPage
<1> QED
  BY <1>2, <1>3, <1>5, <1>7, <1>8

(* All that listen hear of a change.                                       *)
LEMMA AllHear ==
    ASSUME NEW w, NEW state, NEW K, NEW t, NEW h, Sizes(K, t, h), AllFollow(w, state, K, t, h),
           NEW s, NEW g, KeepsLast(s, g), NEW u \in 0 .. Len(g),
           NEW m \in Messages,
           IF Bears(m) THEN m.state = s.state ELSE s.state = state,
           \/ Tells(m, K, t, h, Len(s.events), u, g)
           \/ m.type \in Clears /\ Cleared(m) \in Seq(Rows)
                 /\ Faithful(Cleared(m), <<>>, Len(s.events), u, g),
           NEW n, n = [v \in Views |-> IF v \in Watched /\ w[v].on
                                       THEN Hears(w[v], m, Snapshot(s, g)) ELSE w[v]]
    PROVE  AllFollow(n, s.state, Len(s.events), u, g)
<1> DEFINE L == Len(s.events)
           snapshot == Snapshot(s, g)
<1>1. Sizes(L, u, g)
  BY KeepsFacts
<1>2. /\ snapshot \in Messages /\ snapshot.type = "snapshot" /\ snapshot.state = s.state
      /\ snapshot.rows \in Seq(Rows) /\ Len(snapshot.rows) = L
      /\ \A i \in 1 .. L : snapshot.rows[i] = Row(g, Len(g) - L + i)
  BY SnapshotFacts
<1> HIDE DEF snapshot, L
<1>3. Faithful(snapshot.rows, <<>>, L, u, g)
  BY <1>1, <1>2, SnapshotFaithful
<1>4. SUFFICES ASSUME NEW v \in Views
              PROVE  Follows(n[v], v \in Watched, s.state, L, u, g)
  BY DEF AllFollow, L
<1>5. Follows(w[v], v \in Watched, state, K, t, h) /\ IsPage(w[v])
  BY DEF AllFollow, Follows
<1>6. CASE ~(v \in Watched /\ w[v].on)
  BY <1>5, <1>6 DEF Follows
<1>7. CASE v \in Watched /\ w[v].on
  <2>2. n[v] = Hears(w[v], m, snapshot)
    BY <1>7 DEF snapshot
  <2>3. /\ IsPage(n[v]) /\ n[v].on
        /\ n[v].state = w[v].state /\ n[v].rows = w[v].rows
        /\ n[v].queue = Append(w[v].queue, m) \/ n[v].queue = Append(<<>>, snapshot)
    BY <1>2, <1>5, <1>7, <2>2, HearsFacts
  <2>4. /\ w[v].queue \in Seq(Messages)
        /\ StateArrives(w[v].queue, w[v].state, state)
        /\ RowsArrive(w[v].queue, w[v].rows, K, t, h)
    BY <1>5, <1>7 DEF Follows, IsPage
  <2>5. CASE n[v].queue = Append(w[v].queue, m)
    <3>1. StateArrives(n[v].queue, n[v].state, s.state)
      <4>1. StateArrives(Append(w[v].queue, m), w[v].state, s.state)
        BY <2>4, StateQueued
      <4> QED
        BY <2>3, <2>5, <4>1
    <3>2. RowsArrive(n[v].queue, n[v].rows, L, u, g)
      BY <1>1, <2>3, <2>4, <2>5, RowsQueued, RowsCleared DEF L
    <3> QED
      BY <1>7, <2>3, <3>1, <3>2 DEF Follows
  <2>6. CASE n[v].queue = Append(<<>>, snapshot)
    <3>1. <<>> \in Seq(Messages)
      OBVIOUS
    <3>2. StateArrives(<<>>, w[v].state, w[v].state)
      BY DEF StateArrives
    <3>3. StateArrives(n[v].queue, n[v].state, s.state)
      <4>1. Bears(snapshot) /\ snapshot.state = s.state
        BY <1>2 DEF Bears
      <4> QED
        BY <1>2, <2>3, <2>6, <3>1, <3>2, <4>1, StateQueued
    <3>4. RowsArrive(n[v].queue, n[v].rows, L, u, g)
      BY <1>2, <1>3, <2>6, <3>1, RowsCleared DEF Cleared, Clears
    <3> QED
      BY <1>7, <2>3, <3>3, <3>4 DEF Follows
  <2> QED
    BY <2>3, <2>5, <2>6
<1> QED
  BY <1>6, <1>7

-----------------------------------------------------------------------------
(* Drafts.                                                                 *)

IsDraft(d) == d = [s |-> d.s, h |-> d.h, w |-> d.w]

(* A draft of a good transcript, with pages that will show it.             *)
Good(d) ==
    /\ IsDraft(d)
    /\ SessionTranscript(d.s, d.h)
    /\ AllFollow(d.w, d.s.state, Len(d.s.events), d.s.tool, d.h)

AgentInv ==
    /\ SessionTranscript(session, heap)
    /\ AllFollow(view, session.state, Len(session.events), session.tool, heap)

LEMMA DraftFacts ==
    ASSUME NEW s, NEW h, NEW w, NEW d, d = [s |-> s, h |-> h, w |-> w]
    PROVE  IsDraft(d) /\ d.s = s /\ d.h = h /\ d.w = w
BY DEF IsDraft

(* Broadcasting changes nothing of the draft but its pages.                *)
LEMMA BroadcastFacts ==
    ASSUME NEW d, IsDraft(d), NEW message
    PROVE  /\ IsDraft(Broadcast(d, message))
           /\ Broadcast(d, message).s = d.s
           /\ Broadcast(d, message).h = d.h
           /\ Broadcast(d, message).w =
                 [v \in Views |-> IF v \in Watched /\ d.w[v].on
                                  THEN Hears(d.w[v], message, Snapshot(d.s, d.h)) ELSE d.w[v]]
<1> DEFINE w == [v \in Views |-> IF v \in Watched /\ d.w[v].on
                                 THEN Hears(d.w[v], message, Snapshot(d.s, d.h)) ELSE d.w[v]]
<1>1. Broadcast(d, message) = [d EXCEPT !.w = w]
  BY DEF Broadcast, Hears
<1> HIDE DEF w
<1>2. [d EXCEPT !.w = w] = [s |-> d.s, h |-> d.h, w |-> w]
  BY DEF IsDraft
<1>3. /\ IsDraft(Broadcast(d, message)) /\ Broadcast(d, message).s = d.s
      /\ Broadcast(d, message).h = d.h /\ Broadcast(d, message).w = w
  BY <1>1, <1>2, DraftFacts
<1> QED
  BY <1>3 DEF w

LEMMA BroadcastFollows ==
    ASSUME NEW d, IsDraft(d), NEW m \in Messages,
           NEW state, NEW K, NEW t, NEW h, Sizes(K, t, h), AllFollow(d.w, state, K, t, h),
           KeepsLast(d.s, d.h), NEW u \in 0 .. Len(d.h),
           IF Bears(m) THEN m.state = d.s.state ELSE d.s.state = state,
           \/ Tells(m, K, t, h, Len(d.s.events), u, d.h)
           \/ m.type \in Clears /\ Cleared(m) \in Seq(Rows)
                 /\ Faithful(Cleared(m), <<>>, Len(d.s.events), u, d.h)
    PROVE  /\ IsDraft(Broadcast(d, m)) /\ Broadcast(d, m).s = d.s /\ Broadcast(d, m).h = d.h
           /\ AllFollow(Broadcast(d, m).w, d.s.state, Len(d.s.events), u, d.h)
<1> DEFINE n == [v \in Views |-> IF v \in Watched /\ d.w[v].on
                                 THEN Hears(d.w[v], m, Snapshot(d.s, d.h)) ELSE d.w[v]]
<1>1. AllFollow(n, d.s.state, Len(d.s.events), u, d.h)
  BY AllHear
<1> QED
  BY <1>1, BroadcastFacts

(* A change of the state tells of no event.                                *)
LEMMA NothingToTell ==
    ASSUME NEW m \in Messages, m.type = "state", NEW K, NEW t, NEW h
    PROVE  Tells(m, K, t, h, K, t, h)
BY DEF Tells, Clears

(* A change of the state, or of the task, leaves the transcript.           *)
LEMMA SetStateGood ==
    ASSUME NEW d, Good(d), NEW state \in States
    PROVE  /\ Good(SetState(d, state))
           /\ SetState(d, state).h = d.h
<1> DEFINE s == [d.s EXCEPT !.state = state]
           n == [s |-> s, h |-> d.h, w |-> d.w]
           m == [type |-> "state", state |-> state]
<1>1. KeepsLast(d.s, d.h) /\ d.s \in Sessions
  BY DEF Good, SessionTranscript, KeepsLast
<1>2. s \in Sessions /\ s.events = d.s.events /\ s.tool = d.s.tool /\ s.state = state
  BY <1>1 DEF Sessions
<1> HIDE DEF s
<1>3. SessionTranscript(s, d.h) /\ KeepsLast(s, d.h)
  BY <1>1, <1>2 DEF Good, SessionTranscript, KeepsLast
<1>4. [d EXCEPT !.s.state = state] = n
  <2>1. [d EXCEPT !.s.state = state] = [d EXCEPT !.s = s]
    BY DEF s
  <2>2. d = [s |-> d.s, h |-> d.h, w |-> d.w]
    BY DEF Good, IsDraft
  <2> QED
    BY <2>1, <2>2
<1>5. IsDraft(n) /\ n.s = s /\ n.h = d.h /\ n.w = d.w
  BY DraftFacts
<1> HIDE DEF n
<1>6. m \in Messages /\ m.type = "state" /\ m.state = state /\ Bears(m)
  BY DEF Messages, Bears
<1>7. SetState(d, state) = Broadcast(n, m)
  BY <1>4 DEF SetState
<1> HIDE DEF m
<1>8. Sizes(Len(d.s.events), d.s.tool, d.h)
  BY TranscriptFacts DEF Good
<1>9. d.s.tool \in 0 .. Len(d.h)
  BY DEF Good, SessionTranscript
<1>10. Tells(m, Len(d.s.events), d.s.tool, d.h, Len(d.s.events), d.s.tool, d.h)
  BY <1>6, NothingToTell
<1>11. AllFollow(d.w, d.s.state, Len(d.s.events), d.s.tool, d.h)
  BY DEF Good
<1>12. /\ IsDraft(Broadcast(n, m)) /\ Broadcast(n, m).s = n.s /\ Broadcast(n, m).h = n.h
       /\ AllFollow(Broadcast(n, m).w, n.s.state, Len(n.s.events), d.s.tool, n.h)
  BY <1>2, <1>3, <1>5, <1>6, <1>8, <1>9, <1>10, <1>11, BroadcastFollows
<1> QED
  BY <1>2, <1>3, <1>5, <1>7, <1>12 DEF Good

LEMMA TaskGood ==
    ASSUME NEW d, Good(d), NEW task \in Tasks
    PROVE  Good(Task(d, task))
<1> DEFINE s == [d.s EXCEPT !.task = task]
           n == [s |-> s, h |-> d.h, w |-> d.w]
<1>1. KeepsLast(d.s, d.h) /\ d.s \in Sessions
  BY DEF Good, SessionTranscript, KeepsLast
<1>2. s \in Sessions /\ s.events = d.s.events /\ s.tool = d.s.tool /\ s.state = d.s.state
  BY <1>1 DEF Sessions
<1> HIDE DEF s
<1>3. SessionTranscript(s, d.h)
  BY <1>1, <1>2 DEF Good, SessionTranscript, KeepsLast
<1>4. Task(d, task) = n
  <2>1. Task(d, task) = [d EXCEPT !.s = s]
    BY DEF Task, s
  <2>2. d = [s |-> d.s, h |-> d.h, w |-> d.w]
    BY DEF Good, IsDraft
  <2> QED
    BY <2>1, <2>2
<1>5. IsDraft(n) /\ n.s = s /\ n.h = d.h /\ n.w = d.w
  BY DraftFacts
<1> HIDE DEF n
<1> QED
  BY <1>2, <1>3, <1>4, <1>5 DEF Good

LEMMA EventAppended ==
    ASSUME NEW h \in Seq(Events), NEW kind \in Kinds,
           NEW g, g = Append(h, [kind |-> kind, parts |-> 1])
    PROVE  /\ g \in Seq(Events)
           /\ Len(g) = Len(h) + 1 /\ Len(h) \in Nat
           /\ g[Len(h) + 1].kind = kind
           /\ \A e \in 1 .. Len(h) : g[e] = h[e]
<1>1. PICK event : event = [kind |-> kind, parts |-> 1]
  OBVIOUS
<1>2. event \in Events /\ event.kind = kind
  BY <1>1 DEF Events
<1> QED
  BY <1>1, <1>2

(* A new event is the last one kept.                                       *)
LEMMA EmittedIsLast ==
    ASSUME NEW s, NEW h, KeepsLast(s, h),
           NEW g \in Seq(Events), Len(g) = Len(h) + 1,
           NEW n \in Sessions,
           n.events = Trimmed(Append(s.events, Len(h) + 1))
    PROVE  /\ KeepsLast(n, g)
           /\ Len(n.events) <= Len(s.events) + 1
<1> DEFINE K == Len(s.events)
           o == Out(s.events)
<1>1. /\ s.events \in Seq(Nat) /\ n.events \in Seq(Nat)
      /\ h \in Seq(Events) /\ Len(h) \in Nat
      /\ Len(s.events) <= MaxEvents /\ Len(s.events) <= Len(h)
      /\ Len(h) + 1 \in Nat
  BY DEF KeepsLast, Sessions
<1>3. g \in Seq(Events) /\ Len(g) = Len(h) + 1
  OBVIOUS
<1>4. /\ K \in Nat /\ DOMAIN s.events = 1 .. K
      /\ o \in {0, 1}
      /\ Len(n.events) = K + 1 - o /\ Len(n.events) \in Nat \ {0} /\ Len(n.events) <= MaxEvents
      /\ DOMAIN n.events = 1 .. Len(n.events)
  BY <1>1, PushFacts
<1>5. /\ n.events[Len(n.events)] = Len(h) + 1
      /\ \A j \in 1 .. Len(n.events) - 1 :
            j + o \in 1 .. K /\ n.events[j] = s.events[j + o]
  BY <1>1, PushFacts
<1>6. \A i \in 1 .. K : s.events[i] = Len(h) - K + i
  BY <1>4 DEF KeepsLast
<1> HIDE DEF K, o
<1>7. Len(s.events) = K
  BY DEF K
<1>8. ASSUME NEW i \in DOMAIN n.events PROVE n.events[i] = Len(g) - Len(n.events) + i
  <2>1. CASE i = Len(n.events)
    <3>1. \A a, b \in Nat : a + 1 - b + b = a + 1
      OBVIOUS
    <3>2. Len(h) \in Nat /\ i \in Nat /\ i = Len(n.events) /\ Len(g) = Len(h) + 1
      BY <1>1, <1>4, <2>1
    <3>3. Len(g) - Len(n.events) + i = Len(h) + 1
      BY <3>1, <3>2
    <3> QED
      BY <1>5, <2>1, <3>3
  <2>2. CASE i # Len(n.events)
    <3>1. i \in 1 .. Len(n.events) - 1
      BY <1>4, <2>2
    <3>2. n.events[i] = Len(h) - K + (i + o)
      BY <1>5, <1>6, <3>1
    <3>3. i \in Nat
      BY <1>4
    <3>4. Len(h) - K + (i + o) = (Len(h) + 1) - (K + 1 - o) + i
      BY <1>1, <1>4, <3>3
    <3> QED
      BY <1>3, <1>4, <3>2, <3>4
  <2> QED
    BY <2>1, <2>2
<1>9. Len(n.events) <= Len(g) /\ Len(n.events) <= K + 1
  BY <1>1, <1>3, <1>4, <1>7
<1> QED
  BY <1>3, <1>4, <1>7, <1>8, <1>9 DEF KeepsLast

(* One row of a tool at most is kept, and remembered.                      *)
LEMMA EmittedTranscript ==
    ASSUME NEW s, NEW h, SessionTranscript(s, h), NEW kind \in Kinds,
           NEW g, g = Append(h, [kind |-> kind, parts |-> 1]),
           NEW n \in Sessions,
           n.events = Trimmed(Append(s.events, Len(h) + 1)),
           IF kind = "tool" THEN n.tool = Len(h) + 1 /\ ~Contains(s.events, s.tool)
           ELSE n.tool = s.tool
    PROVE  SessionTranscript(n, g)
<1> DEFINE K == Len(s.events)
           L == Len(n.events)
           N == Len(h)
<1>1. KeepsLast(s, h) /\ s.tool \in 0 .. Len(h)
  BY DEF SessionTranscript
<1>2. /\ KeepsLast(n, g)
      /\ L <= K + 1
      /\ Len(g) = N + 1
      /\ g[N + 1].kind = kind
      /\ \A e \in 1 .. N : g[e] = h[e]
  <2>1. h \in Seq(Events)
    BY <1>1, KeepsFacts
  <2>2. /\ g \in Seq(Events) /\ Len(g) = N + 1
        /\ g[N + 1].kind = kind
        /\ \A e \in 1 .. N : g[e] = h[e]
    BY <2>1, EventAppended
  <2> QED
    BY <1>1, <2>2, EmittedIsLast
<1>3. N \in Nat /\ K \in Nat /\ DOMAIN s.events = 1 .. K /\ L \in Nat
  BY <1>1, <1>2, KeepsFacts
<1>4. K <= N /\ \A i \in 1 .. K : s.events[i] = N - K + i
  BY <1>1, <1>3 DEF KeepsLast
<1> HIDE DEF K, L, N
<1>5. n.tool \in 0 .. Len(g)
  BY <1>1, <1>2, <1>3 DEF N
<1>6. n.tool # 0 => g[n.tool].kind = "tool"
  BY <1>1, <1>2, <1>3 DEF SessionTranscript, N
<1>7. \A e \in N - K + 1 .. N : h[e].kind = "tool" => e = s.tool
  BY DEF SessionTranscript, N, K
<1>8. ASSUME NEW e \in N - K + 1 .. N, e = s.tool PROVE Contains(s.events, s.tool)
  <2>1. e - (N - K) \in 1 .. K /\ N - K + (e - (N - K)) = e
    BY <1>3, <1>4
  <2>2. s.events[e - (N - K)] = s.tool
    BY <1>4, <1>8, <2>1
  <2> QED
    BY <2>1, <2>2 DEF Contains, K
<1>9. ASSUME NEW e \in Len(g) - L + 1 .. Len(g), g[e].kind = "tool" PROVE e = n.tool
  <2>1. CASE e = N + 1
    BY <1>2, <1>9, <2>1 DEF N
  <2>2. CASE e # N + 1
    <3>1. e \in N - K + 1 .. N /\ e \in 1 .. N
      BY <1>2, <1>3, <1>4, <2>2
    <3>2. h[e].kind = "tool"
      BY <1>2, <1>9, <3>1
    <3> QED
      BY <1>7, <1>8, <3>1, <3>2
  <2> QED
    BY <2>1, <2>2
<1> QED
  BY <1>2, <1>5, <1>6, <1>9 DEF SessionTranscript, L

(* Everyone that listens hears of it.                                      *)
LEMMA EmitFacts ==
    ASSUME NEW d, Good(d), NEW kind \in Kinds, NEW r, r = Emit(d, kind)
    PROVE  /\ IsDraft(r)
           /\ r.h = Append(d.h, [kind |-> kind, parts |-> 1])
           /\ r.s \in Sessions
           /\ r.s.events = Trimmed(Append(d.s.events, Len(d.h) + 1))
           /\ r.s.tool = d.s.tool
           /\ \A u \in 0 .. Len(r.h) : AllFollow(r.w, r.s.state, Len(r.s.events), u, r.h)
<1>1. PICK old, o, w : old = d.s /\ o = d.h /\ w = d.w
  OBVIOUS
<1>2. /\ d = [s |-> old, h |-> o, w |-> w]
      /\ SessionTranscript(old, o)
      /\ AllFollow(w, old.state, Len(old.events), old.tool, o)
  BY <1>1 DEF Good, IsDraft
<1>3. /\ KeepsLast(old, o) /\ old \in Sessions /\ o \in Seq(Events) /\ Len(o) \in Nat
      /\ Sizes(Len(old.events), old.tool, o)
  BY <1>2, TranscriptFacts DEF KeepsLast
<1>4. PICK e : e = Len(o) + 1
  OBVIOUS
<1>5. PICK h : h = Append(o, [kind |-> kind, parts |-> 1])
  OBVIOUS
<1>6. PICK s : s = [old EXCEPT !.events = Trimmed(Append(@, e))]
  OBVIOUS
<1>7. Trimmed(Append(old.events, e)) \in Seq(Nat)
  BY <1>3, <1>4, PushIsSeq DEF Sessions
<1>8. /\ s \in Sessions /\ s.events = Trimmed(Append(old.events, e)) /\ s.tool = old.tool
      /\ s.state = old.state
  BY <1>3, <1>6, <1>7 DEF Sessions
<1>9. PICK m : m = [type |-> "event", id |-> e]
  OBVIOUS
<1>10. m \in Messages /\ m.type = "event" /\ m.id = e /\ ~Bears(m)
  BY <1>3, <1>4, <1>9 DEF Messages, Bears
<1>11. /\ KeepsLast(s, h)
       /\ Len(s.events) <= Len(old.events) + 1
       /\ Len(h) = e
       /\ \A i \in 1 .. Len(o) : h[i] = o[i]
  <2>1. /\ h \in Seq(Events) /\ Len(h) = Len(o) + 1
        /\ \A i \in 1 .. Len(o) : h[i] = o[i]
    BY <1>3, <1>5, EventAppended
  <2>2. KeepsLast(s, h) /\ Len(s.events) <= Len(old.events) + 1
    BY <1>3, <1>4, <1>8, <2>1, EmittedIsLast
  <2> QED
    BY <1>4, <2>1, <2>2
<1>12. PICK n : n = [s |-> s, h |-> h, w |-> w]
  OBVIOUS
<1>13. IsDraft(n) /\ n.s = s /\ n.h = h /\ n.w = w
  BY <1>12, DraftFacts
<1>14. [d EXCEPT !.h = Append(@, [kind |-> kind, parts |-> 1]),
                 !.s.events = Trimmed(Append(@, e))] = n
  <2>1. ASSUME NEW x, x = [s |-> old, h |-> o, w |-> w]
        PROVE  [x EXCEPT !.h = Append(@, [kind |-> kind, parts |-> 1]),
                         !.s.events = Trimmed(Append(@, e))] = [x EXCEPT !.h = h, !.s = s]
    BY <1>5, <1>6, <2>1
  <2>2. ASSUME NEW x, x = [s |-> old, h |-> o, w |-> w]
        PROVE  [x EXCEPT !.h = h] = [s |-> old, h |-> h, w |-> w]
    BY <2>2
  <2>3. ASSUME NEW x, x = [s |-> old, h |-> h, w |-> w]
        PROVE  [x EXCEPT !.s = s] = n
    BY <1>12, <2>3
  <2>4. [d EXCEPT !.h = h] = [s |-> old, h |-> h, w |-> w]
    BY <1>2, <2>2
  <2>5. [d EXCEPT !.h = h, !.s = s] = n
    BY <2>3, <2>4
  <2>6. [d EXCEPT !.h = Append(@, [kind |-> kind, parts |-> 1]),
                  !.s.events = Trimmed(Append(@, e))] = [d EXCEPT !.h = h, !.s = s]
    BY <1>2, <2>1
  <2> QED
    BY <2>5, <2>6
<1>15. r = Broadcast(n, m)
  BY <1>1, <1>4, <1>9, <1>14 DEF Emit
<1>16. \A u : Tells(m, Len(old.events), old.tool, o, Len(s.events), u, h)
  <2>1. \A i \in 1 .. Len(o) : Row(h, i) = Row(o, i)
    BY <1>11 DEF Row
  <2> QED
    BY <1>4, <1>10, <1>11, <2>1 DEF Tells, Clears
<1>17. IsDraft(r) /\ r.s = s /\ r.h = h
  <2>1. IsDraft(Broadcast(n, m)) /\ Broadcast(n, m).s = n.s /\ Broadcast(n, m).h = n.h
    BY <1>13, BroadcastFacts
  <2> QED
    BY <1>13, <1>15, <2>1
<1>18. ASSUME NEW u \in 0 .. Len(h) PROVE AllFollow(r.w, s.state, Len(s.events), u, h)
  <2>1. /\ IsDraft(n) /\ u \in 0 .. Len(n.h) /\ KeepsLast(n.s, n.h)
        /\ n.s.state = old.state
        /\ AllFollow(n.w, old.state, Len(old.events), old.tool, o)
        /\ Tells(m, Len(old.events), old.tool, o, Len(n.s.events), u, n.h)
    BY <1>2, <1>8, <1>11, <1>13, <1>16
  <2>2. AllFollow(Broadcast(n, m).w, n.s.state, Len(n.s.events), u, n.h)
    BY <1>3, <1>10, <2>1, BroadcastFollows
  <2> QED
    BY <1>13, <1>15, <2>2
<1> QED
  BY <1>1, <1>4, <1>5, <1>8, <1>17, <1>18

(* Emitting anything but a tool's event.                                   *)
LEMMA EmitGood ==
    ASSUME NEW d, Good(d), NEW kind \in Kinds \ {"tool"}
    PROVE  Good(Emit(d, kind))
<1>1. PICK r : r = Emit(d, kind)
  OBVIOUS
<1>2. PICK s, h, n, g : s = d.s /\ h = d.h /\ n = r.s /\ g = r.h
  OBVIOUS
<1>3. SessionTranscript(s, h)
  BY <1>2 DEF Good
<1>4. /\ IsDraft(r)
      /\ g = Append(h, [kind |-> kind, parts |-> 1])
      /\ n \in Sessions
      /\ n.events = Trimmed(Append(s.events, Len(h) + 1))
      /\ n.tool = s.tool
      /\ \A u \in 0 .. Len(g) : AllFollow(r.w, n.state, Len(n.events), u, g)
  BY <1>1, <1>2, EmitFacts
<1>5. SessionTranscript(n, g)
  BY <1>3, <1>4, EmittedTranscript
<1>6. AllFollow(r.w, n.state, Len(n.events), n.tool, g)
  BY <1>4, <1>5 DEF SessionTranscript
<1> QED
  BY <1>1, <1>2, <1>4, <1>5, <1>6 DEF Good

(* The first event of a tool, or one after its row was dropped.            *)
LEMMA NewToolGood ==
    ASSUME NEW d, Good(d), ~Contains(d.s.events, d.s.tool)
    PROVE  Good([Emit(d, "tool") EXCEPT !.s.tool = Len(d.h) + 1])
<1>1. PICK r : r = Emit(d, "tool")
  OBVIOUS
<1>2. PICK s, h, m, g : s = d.s /\ h = d.h /\ m = r.s /\ g = r.h
  OBVIOUS
<1>3. SessionTranscript(s, h) /\ Len(h) \in Nat /\ ~Contains(s.events, s.tool)
  BY <1>2, TranscriptFacts DEF Good
<1>4. "tool" \in Kinds
  BY DEF Kinds
<1>5. /\ IsDraft(r)
      /\ g = Append(h, [kind |-> "tool", parts |-> 1])
      /\ m \in Sessions
      /\ m.events = Trimmed(Append(s.events, Len(h) + 1))
      /\ \A u \in 0 .. Len(g) : AllFollow(r.w, m.state, Len(m.events), u, g)
  BY <1>1, <1>2, <1>4, EmitFacts
<1>6. PICK n : n = [m EXCEPT !.tool = Len(h) + 1]
  OBVIOUS
<1>7. n \in Sessions /\ n.events = m.events /\ n.tool = Len(h) + 1 /\ n.state = m.state
  BY <1>3, <1>5, <1>6 DEF Sessions
<1>8. SessionTranscript(n, g)
  BY <1>3, <1>4, <1>5, <1>7, EmittedTranscript
<1>9. AllFollow(r.w, n.state, Len(n.events), n.tool, g)
  <2>1. n.tool \in 0 .. Len(g)
    BY <1>8 DEF SessionTranscript
  <2> QED
    BY <1>5, <1>7, <2>1
<1>10. PICK x : x = [s |-> n, h |-> g, w |-> r.w]
  OBVIOUS
<1>11. IsDraft(x) /\ x.s = n /\ x.h = g /\ x.w = r.w
  BY <1>10, DraftFacts
<1>12. [r EXCEPT !.s.tool = Len(d.h) + 1] = x
  <2>1. r = [s |-> m, h |-> g, w |-> r.w]
    BY <1>2, <1>5 DEF IsDraft
  <2>2. ASSUME NEW y, y = [s |-> m, h |-> g, w |-> r.w]
        PROVE  [y EXCEPT !.s.tool = Len(h) + 1] = x
    BY <1>6, <1>10, <2>2
  <2> QED
    BY <1>2, <2>1, <2>2
<1> QED
  BY <1>1, <1>8, <1>9, <1>11, <1>12 DEF Good

LEMMA LastOnes ==
    ASSUME NEW n \in Nat, NEW K \in Nat, K <= n
    PROVE  /\ \A i \in n - K + 1 .. n : i \in 1 .. n
           /\ \A i \in 1 .. K : n - K + i \in n - K + 1 .. n /\ n - K + i \in 1 .. n
OBVIOUS

(* An event that grows, and a message that tells of it.                    *)
Grown(h, e) == [h EXCEPT ![e].parts = @ + 1]

LEMMA GrownFacts ==
    ASSUME NEW h \in Seq(Events), NEW e \in 1 .. Len(h),
           NEW g, g = Grown(h, e)
    PROVE  /\ g \in Seq(Events) /\ Len(g) = Len(h)
           /\ h[e].parts \in Nat
           /\ g[e].kind = h[e].kind /\ g[e].parts = h[e].parts + 1
           /\ \A i \in 1 .. Len(h) : g[i].kind = h[i].kind
           /\ \A i \in 1 .. Len(h) : i # e => Row(g, i) = Row(h, i)
<1>1. h[e] \in Events /\ h[e].parts \in Nat
  <2>1. h[e] \in Events
    OBVIOUS
  <2> QED
    BY <2>1 DEF Events
<1>2. PICK event : event = [h[e] EXCEPT !.parts = @ + 1]
  OBVIOUS
<1>3. event \in Events /\ event.kind = h[e].kind /\ event.parts = h[e].parts + 1
  <2>1. h[e].parts + 1 \in Nat
    BY <1>1
  <2> QED
    BY <1>1, <1>2, <2>1 DEF Events
<1>4. g = [h EXCEPT ![e] = event]
  BY <1>2 DEF Grown
<1>5. /\ g \in Seq(Events) /\ Len(g) = Len(h)
      /\ g[e] = event /\ \A i \in 1 .. Len(h) : i # e => g[i] = h[i]
  BY <1>3, <1>4
<1>6. \A i \in 1 .. Len(h) : g[i].kind = h[i].kind
  BY <1>3, <1>5
<1>7. \A i \in 1 .. Len(h) : i # e => Row(g, i) = Row(h, i)
  BY <1>5 DEF Row
<1> QED
  BY <1>1, <1>3, <1>5, <1>6, <1>7

LEMMA GrownGood ==
    ASSUME NEW d, Good(d), NEW e \in 1 .. Len(d.h),
           NEW g, g = Grown(d.h, e),
           NEW m \in Messages, ~Bears(m),
           Tells(m, Len(d.s.events), d.s.tool, d.h, Len(d.s.events), d.s.tool, g)
    PROVE  Good(Broadcast([d EXCEPT !.h[e].parts = @ + 1], m))
<1>1. PICK s, h, w : s = d.s /\ h = d.h /\ w = d.w
  OBVIOUS
<1>2. /\ d = [s |-> s, h |-> h, w |-> w]
      /\ SessionTranscript(s, h)
      /\ AllFollow(w, s.state, Len(s.events), s.tool, h)
  BY <1>1 DEF Good, IsDraft
<1>3. /\ KeepsLast(s, h) /\ h \in Seq(Events) /\ Len(h) \in Nat
      /\ Sizes(Len(s.events), s.tool, h)
      /\ s.tool \in 0 .. Len(h)
      /\ Len(s.events) \in Nat /\ Len(s.events) <= Len(h)
  BY <1>2, TranscriptFacts DEF KeepsLast, SessionTranscript
<1>4. /\ g \in Seq(Events) /\ Len(g) = Len(h)
      /\ \A i \in 1 .. Len(h) : g[i].kind = h[i].kind
  <2>1. e \in 1 .. Len(h) /\ g = Grown(h, e)
    BY <1>1
  <2> QED
    BY <1>3, <2>1, GrownFacts
<1>5. PICK n : n = [s |-> s, h |-> g, w |-> w]
  OBVIOUS
<1>6. IsDraft(n) /\ n.s = s /\ n.h = g /\ n.w = w
  BY <1>5, DraftFacts
<1>7. [d EXCEPT !.h[e].parts = @ + 1] = n
  <2>1. ASSUME NEW x, x = [s |-> s, h |-> h, w |-> w]
        PROVE  [x EXCEPT !.h[e].parts = @ + 1] = n
    <3>1. [x EXCEPT !.h[e].parts = @ + 1] = [x EXCEPT !.h = g]
      BY <1>1, <2>1 DEF Grown
    <3>2. [x EXCEPT !.h = g] = n
      BY <1>5, <2>1
    <3> QED
      BY <3>1, <3>2
  <2> QED
    BY <1>2, <2>1
<1>8. KeepsLast(s, g)
  BY <1>3, <1>4 DEF KeepsLast
<1>9. SessionTranscript(s, g)
  <2>1. s.tool # 0 => s.tool \in 1 .. Len(h)
    BY <1>3
  <2>2. \A i \in Len(h) - Len(s.events) + 1 .. Len(h) : i \in 1 .. Len(h)
    BY <1>3, LastOnes
  <2> QED
    BY <1>2, <1>3, <1>4, <1>8, <2>1, <2>2 DEF SessionTranscript
<1>10. /\ s.tool \in 0 .. Len(n.h) /\ KeepsLast(n.s, n.h) /\ n.s.state = s.state
       /\ AllFollow(n.w, s.state, Len(s.events), s.tool, h)
       /\ Tells(m, Len(s.events), s.tool, h, Len(n.s.events), s.tool, n.h)
  BY <1>1, <1>2, <1>3, <1>4, <1>6, <1>8
<1>11. /\ IsDraft(Broadcast(n, m)) /\ Broadcast(n, m).s = n.s /\ Broadcast(n, m).h = n.h
       /\ AllFollow(Broadcast(n, m).w, n.s.state, Len(n.s.events), s.tool, n.h)
  BY <1>3, <1>6, <1>10, BroadcastFollows
<1> QED
  BY <1>6, <1>7, <1>9, <1>11 DEF Good

(* A part of a message.                                                    *)
LEMMA AppendGood ==
    ASSUME NEW d, Good(d), NEW e \in 1 .. Len(d.h), d.h[e].kind = "text"
    PROVE  Good(Broadcast([d EXCEPT !.h[e].parts = @ + 1],
                          [type |-> "append", id |-> e, part |-> d.h[e].parts + 1]))
<1>1. PICK h, g : h = d.h /\ g = Grown(d.h, e)
  OBVIOUS
<1>2. h \in Seq(Events)
  BY <1>1, TranscriptFacts DEF Good
<1>3. /\ Len(g) = Len(h) /\ h[e].parts \in Nat
      /\ g[e].kind = h[e].kind /\ g[e].parts = h[e].parts + 1
      /\ \A i \in 1 .. Len(h) : g[i].kind = h[i].kind
      /\ \A i \in 1 .. Len(h) : i # e => Row(g, i) = Row(h, i)
  <2>1. e \in 1 .. Len(h) /\ g = Grown(h, e)
    BY <1>1
  <2> QED
    BY <1>2, <2>1, GrownFacts
<1>4. PICK m : m = [type |-> "append", id |-> e, part |-> h[e].parts + 1]
  OBVIOUS
<1>5. /\ m.type = "append" /\ m.id = e /\ m.part = h[e].parts + 1 /\ ~Bears(m)
      /\ m \in Messages
  <2>1. h[e].parts + 1 \in Nat /\ e \in Nat
    BY <1>3
  <2>2. m \in [type : {"append"}, id : Nat, part : Nat]
    BY <1>4, <2>1
  <2> QED
    BY <1>4, <2>2 DEF Messages, Bears
<1>6. ASSUME NEW x \in ToSet(Row(g, e).parts) PROVE x \in ToSet(Row(h, e).parts) \/ Adds(m, e, x)
  <2>1. /\ Row(g, e).parts = [i \in 1 .. h[e].parts + 1 |-> i]
        /\ Row(h, e).parts = [i \in 1 .. h[e].parts |-> i]
    BY <1>1, <1>3 DEF Row
  <2>2. x \in 1 .. h[e].parts + 1
    BY <2>1 DEF ToSet
  <2>3. CASE x = h[e].parts + 1
    BY <1>5, <2>3 DEF Adds
  <2>4. CASE x # h[e].parts + 1
    <3>1. x \in 1 .. h[e].parts
      BY <1>3, <2>2, <2>4
    <3> QED
      BY <2>1, <3>1 DEF ToSet
  <2> QED
    BY <2>3, <2>4
<1>7. h[e].kind # "tool"
  BY <1>1
<1>8. Tells(m, Len(d.s.events), d.s.tool, h, Len(d.s.events), d.s.tool, g)
  BY <1>3, <1>5, <1>6, <1>7 DEF Tells, Clears
<1> QED
  BY <1>1, <1>4, <1>5, <1>8, GrownGood

(* A change of the row of a tool, which the session still has.             *)
LEMMA ReplaceGood ==
    ASSUME NEW d, Good(d), Contains(d.s.events, d.s.tool),
           NEW r, r = [d EXCEPT !.h[d.s.tool].parts = @ + 1]
    PROVE  Good(Broadcast(r, [type |-> "replace", row |-> Row(r.h, d.s.tool)]))
<1>1. PICK s, h, e, g : /\ s = d.s /\ h = d.h /\ e = d.s.tool
                        /\ g = Grown(d.h, e)
  OBVIOUS
<1>2. /\ SessionTranscript(s, h) /\ KeepsLast(s, h) /\ h \in Seq(Events)
      /\ Len(h) \in Nat /\ Len(s.events) \in Nat /\ DOMAIN s.events = 1 .. Len(s.events)
  BY <1>1, TranscriptFacts, KeepsFacts DEF Good
<1>3. e \in 1 .. Len(h) /\ e > Len(h) - Len(s.events) /\ h[e].kind = "tool"
  <2>1. PICK i \in 1 .. Len(s.events) : s.events[i] = e
    BY <1>1 DEF Contains
  <2>2. e = Len(h) - Len(s.events) + i /\ Len(s.events) <= Len(h)
    BY <1>2, <2>1 DEF KeepsLast
  <2>3. e \in Len(h) - Len(s.events) + 1 .. Len(h) /\ e \in 1 .. Len(h)
    BY <1>2, <2>2, LastOnes
  <2>4. e > Len(h) - Len(s.events)
    <3>1. \A n, K \in Nat : \A j \in 1 .. K : n - K + j > n - K
      OBVIOUS
    <3> QED
      BY <1>2, <2>2, <3>1
  <2>5. e # 0 /\ e = s.tool
    BY <1>1, <2>3
  <2> QED
    BY <1>2, <2>3, <2>4, <2>5 DEF SessionTranscript
<1>4. /\ g \in Seq(Events) /\ Len(g) = Len(h)
      /\ g[e].kind = h[e].kind
      /\ \A i \in 1 .. Len(h) : g[i].kind = h[i].kind
      /\ \A i \in 1 .. Len(h) : i # e => Row(g, i) = Row(h, i)
  <2>1. g = Grown(h, e)
    BY <1>1
  <2> QED
    BY <1>2, <1>3, <2>1, GrownFacts
<1>5. Row(g, e) \in Rows /\ Row(g, e).id = e
  BY <1>3, <1>4, RowFacts
<1>6. PICK m : m = [type |-> "replace", row |-> Row(g, e)]
  OBVIOUS
<1>7. m \in Messages /\ m.type = "replace" /\ m.row = Row(g, e) /\ ~Bears(m) /\ Replaces(m, e)
  BY <1>5, <1>6 DEF Messages, Bears, Replaces
<1>8. Tells(m, Len(s.events), e, h, Len(s.events), e, g)
  BY <1>2, <1>3, <1>4, <1>7 DEF Tells, Clears
<1>9. r.h = g
  <2>1. ASSUME NEW x, x = [s |-> d.s, h |-> d.h, w |-> d.w]
        PROVE  [x EXCEPT !.h[d.s.tool].parts = @ + 1].h = g
    BY <1>1, <2>1 DEF Grown
  <2> QED
    BY <2>1 DEF Good, IsDraft
<1>10. Good(Broadcast([d EXCEPT !.h[e].parts = @ + 1], m))
  BY <1>1, <1>3, <1>7, <1>8, GrownGood
<1> QED
  BY <1>1, <1>6, <1>9, <1>10

-----------------------------------------------------------------------------
(* Pages.                                                                  *)

(* One field of a page is set.                                             *)
LEMMA PageSet ==
    ASSUME NEW on, NEW loop, NEW queue, NEW state, NEW submitting, NEW rows,
           NEW x, x = [on |-> on, loop |-> loop, queue |-> queue,
                       state |-> state, submitting |-> submitting, rows |-> rows],
           NEW y
    PROVE  /\ [x EXCEPT !.on = y] = [on |-> y, loop |-> loop, queue |-> queue,
                       state |-> state, submitting |-> submitting, rows |-> rows]
           /\ [x EXCEPT !.loop = y] = [on |-> on, loop |-> y, queue |-> queue,
                       state |-> state, submitting |-> submitting, rows |-> rows]
           /\ [x EXCEPT !.queue = y] = [on |-> on, loop |-> loop, queue |-> y,
                       state |-> state, submitting |-> submitting, rows |-> rows]
           /\ [x EXCEPT !.state = y] = [on |-> on, loop |-> loop, queue |-> queue,
                       state |-> y, submitting |-> submitting, rows |-> rows]
           /\ [x EXCEPT !.submitting = y] = [on |-> on, loop |-> loop, queue |-> queue,
                       state |-> state, submitting |-> y, rows |-> rows]
           /\ [x EXCEPT !.rows = y] = [on |-> on, loop |-> loop, queue |-> queue,
                       state |-> state, submitting |-> submitting, rows |-> y]
OBVIOUS

(* Several fields of a page are set.                                       *)
LEMMA ConnectedPage ==
    ASSUME NEW loop, NEW queue, NEW shown, NEW submitting, NEW rows,
           NEW x, x = [on |-> FALSE, loop |-> loop, queue |-> queue,
                       state |-> shown, submitting |-> submitting, rows |-> rows],
           NEW state, NEW sent,
           NEW page, page = [x EXCEPT !.on = TRUE, !.state = state, !.rows = sent]
    PROVE  page = [on |-> TRUE, loop |-> loop, queue |-> queue,
                 state |-> state, submitting |-> submitting, rows |-> sent]
<1>1. PICK a, b : a = [x EXCEPT !.on = TRUE] /\ b = [a EXCEPT !.state = state]
  OBVIOUS
<1>2. a = [on |-> TRUE, loop |-> loop, queue |-> queue,
           state |-> shown, submitting |-> submitting, rows |-> rows]
  BY <1>1, PageSet
<1>3. b = [on |-> TRUE, loop |-> loop, queue |-> queue,
           state |-> state, submitting |-> submitting, rows |-> rows]
  BY <1>1, <1>2, PageSet
<1>4. page = [b EXCEPT !.rows = sent]
  BY <1>1
<1> QED
  BY <1>3, <1>4, PageSet

LEMMA RefusedPage ==
    ASSUME NEW on, NEW loop, NEW queue, NEW shown, NEW submitting, NEW rows,
           NEW x, x = [on |-> on, loop |-> loop, queue |-> queue,
                       state |-> shown, submitting |-> submitting, rows |-> rows],
           NEW state, NEW now, NEW page,
           page = [x EXCEPT !.loop = "open", !.state = state, !.submitting = FALSE, !.rows = now]
    PROVE  page = [on |-> on, loop |-> "open", queue |-> queue,
                 state |-> state, submitting |-> FALSE, rows |-> now]
<1>1. PICK a, b, c : /\ a = [x EXCEPT !.loop = "open"]
                     /\ b = [a EXCEPT !.state = state]
                     /\ c = [b EXCEPT !.submitting = FALSE]
  OBVIOUS
<1>2. a = [on |-> on, loop |-> "open", queue |-> queue,
           state |-> shown, submitting |-> submitting, rows |-> rows]
  BY <1>1, PageSet
<1>3. b = [on |-> on, loop |-> "open", queue |-> queue,
           state |-> state, submitting |-> submitting, rows |-> rows]
  BY <1>1, <1>2, PageSet
<1>4. c = [on |-> on, loop |-> "open", queue |-> queue,
           state |-> state, submitting |-> FALSE, rows |-> rows]
  BY <1>1, <1>3, PageSet
<1>5. page = [c EXCEPT !.rows = now]
  BY <1>1
<1> QED
  BY <1>4, <1>5, PageSet

LEMMA ShownPage ==
    ASSUME NEW x, IsPage(x), x.queue # <<>>, NEW m
    PROVE  /\ IsPage(PageAfter(x, m))
           /\ PageAfter(x, m).on = x.on
           /\ PageAfter(x, m).queue = Tail(x.queue)
           /\ PageAfter(x, m).rows = RowsAfter(x.rows, m)
           /\ Bears(m) => PageAfter(x, m).state = m.state
           /\ ~Bears(m) => PageAfter(x, m).state = x.state
<1> PICK on, loop, queue, shown, submitting, rows :
       /\ x = [on |-> on, loop |-> loop, queue |-> queue,
               state |-> shown, submitting |-> submitting, rows |-> rows]
       /\ on \in BOOLEAN /\ queue \in Seq(Messages)
  BY DEF IsPage
<1> PICK rest, now, next :
       /\ rest = Tail(queue)
       /\ now = RowsAfter(rows, m)
       /\ next = IF m.type \in {"snapshot", "state"} THEN m.state ELSE shown
  OBVIOUS
<1>1. PICK page, still : page = PageAfter(x, m) /\ still = (submitting /\ m.type # "state")
  OBVIOUS
<1>2. PICK a : a = [x EXCEPT !.queue = Tail(@)]
  OBVIOUS
<1>3. PICK b : b = [a EXCEPT !.rows = RowsAfter(@, m)]
  OBVIOUS
<1>4. PICK c : c = [b EXCEPT !.state = IF m.type \in {"snapshot", "state"} THEN m.state ELSE @]
  OBVIOUS
<1>5. page = [c EXCEPT !.submitting = @ /\ m.type # "state"]
  BY <1>1, <1>2, <1>3, <1>4 DEF PageAfter
<1>6. a = [on |-> on, loop |-> loop, queue |-> rest,
           state |-> shown, submitting |-> submitting, rows |-> rows]
  <2>1. x.queue = queue
    OBVIOUS
  <2>2. a = [x EXCEPT !.queue = rest]
    BY <1>2, <2>1
  <2> QED
    BY <2>2, PageSet
<1>7. b = [on |-> on, loop |-> loop, queue |-> rest,
           state |-> shown, submitting |-> submitting, rows |-> now]
  <2>1. a.rows = rows
    BY <1>6
  <2>2. b = [a EXCEPT !.rows = now]
    BY <1>3, <2>1
  <2> QED
    BY <1>6, <2>2, PageSet
<1>8. c = [on |-> on, loop |-> loop, queue |-> rest,
           state |-> next, submitting |-> submitting, rows |-> now]
  <2>1. b.state = shown
    BY <1>7
  <2>2. c = [b EXCEPT !.state = next]
    BY <1>4, <2>1 DEF Bears
  <2> QED
    BY <1>7, <2>2, PageSet
<1>9. page = [on |-> on, loop |-> loop, queue |-> rest,
              state |-> next, submitting |-> still, rows |-> now]
  <2>1. c.submitting = submitting
    BY <1>8
  <2>2. page = [c EXCEPT !.submitting = still]
    BY <1>1, <1>5, <2>1
  <2> QED
    BY <1>8, <2>2, PageSet
<1>10. x.on = on /\ x.queue = queue /\ x.rows = rows /\ x.state = shown
  OBVIOUS
<1>11. /\ page.on = on /\ page.queue = rest /\ page.rows = now /\ page.state = next
       /\ page = [on |-> page.on, loop |-> page.loop, queue |-> page.queue,
                  state |-> page.state, submitting |-> page.submitting, rows |-> page.rows]
  BY <1>9
<1>12. rest \in Seq(Messages)
  BY <1>10, TailFacts
<1>13. IsPage(page)
  BY <1>11, <1>12 DEF IsPage
<1>14. /\ Bears(m) => next = m.state
       /\ ~Bears(m) => next = shown
  BY DEF Bears
<1> QED
  BY <1>1, <1>10, <1>11, <1>13, <1>14

(* One page changes.                                                       *)
LEMMA PageChanged ==
    ASSUME NEW w, NEW state, NEW K, NEW t, NEW h, AllFollow(w, state, K, t, h),
           NEW v \in Views, NEW page, Follows(page, v \in Watched, state, K, t, h),
           NEW n, n = [w EXCEPT ![v] = page]
    PROVE  AllFollow(n, state, K, t, h)
BY DEF AllFollow

LEMMA SameShown ==
    ASSUME NEW page, NEW isWatched, NEW state, NEW K, NEW t, NEW h,
           Follows(page, isWatched, state, K, t, h),
           NEW x, NEW n, n = [page EXCEPT !.loop = x] \/ n = [page EXCEPT !.submitting = x]
    PROVE  Follows(n, isWatched, state, K, t, h)
<1>1. PICK on, loop, queue, shown, submitting, rows :
         /\ page = [on |-> on, loop |-> loop, queue |-> queue,
                    state |-> shown, submitting |-> submitting, rows |-> rows]
         /\ on \in BOOLEAN /\ queue \in Seq(Messages)
  <2>1. IsPage(page)
    BY DEF Follows
  <2> QED
    BY <2>1 DEF IsPage
<1>2. page.on = on /\ page.queue = queue /\ page.state = shown /\ page.rows = rows
  BY <1>1
<1>3. \/ n = [on |-> on, loop |-> x, queue |-> queue,
              state |-> shown, submitting |-> submitting, rows |-> rows]
      \/ n = [on |-> on, loop |-> loop, queue |-> queue,
              state |-> shown, submitting |-> x, rows |-> rows]
  BY <1>1
<1>4. IsPage(n) /\ n.on = on /\ n.queue = queue /\ n.state = shown /\ n.rows = rows
  BY <1>1, <1>3 DEF IsPage
<1>5. n.on = page.on /\ n.queue = page.queue /\ n.state = page.state /\ n.rows = page.rows
  BY <1>2, <1>4
<1> QED
  BY <1>4, <1>5 DEF Follows

(* A page that connects is sent everything.                                *)
LEMMA ConnectFollows ==
    ASSUME AgentInv, NEW v \in Views, Connect(v)
    PROVE  AllFollow(view', session.state, Len(session.events), session.tool, heap)
<1> DEFINE K == Len(session.events)
           t == session.tool
           sent == Snapshot(session, heap).rows
<1>1. /\ AllFollow(view, session.state, K, t, heap)
      /\ KeepsLast(session, heap) /\ Sizes(K, t, heap)
  BY TranscriptFacts DEF AgentInv
<1>2. /\ sent \in Seq(Rows) /\ Len(sent) = K
      /\ \A i \in 1 .. K : sent[i] = Row(heap, Len(heap) - K + i)
  BY <1>1, SnapshotFacts
<1> HIDE DEF K, t, sent
<1>3. Faithful(sent, <<>>, K, t, heap)
  BY <1>1, <1>2, SnapshotFaithful
<1>4. RowsArrive(<<>>, sent, K, t, heap)
  <2>1. PICK c, p : c = 0 /\ p = <<>>
    OBVIOUS
  <2>5. c \in Nat /\ p \in Seq(Messages)
    BY <2>1
  <2>2. InOrder(p, K, t, heap)
    BY <2>1 DEF InOrder
  <2>3. /\ Len(<<>>) = c + Len(p)
        /\ \A k \in 1 .. Len(p) : p[k] = <<>>[c + k]
        /\ ~(c > 0)
    BY <2>1
  <2>4. Faithful(sent, p, K, t, heap)
    BY <1>3, <2>1
  <2> QED
    BY <1>2, <2>2, <2>3, <2>4, <2>5 DEF RowsArrive
<1>5. StateArrives(<<>>, session.state, session.state)
  BY DEF StateArrives
<1>6. Follows(view[v], v \in Watched, session.state, K, t, heap) /\ ~view[v].on
  BY <1>1 DEF AllFollow, Connect
<1>7. PICK loop, shown, submitting, rows :
         view[v] = [on |-> FALSE, loop |-> loop, queue |-> <<>>,
                    state |-> shown, submitting |-> submitting, rows |-> rows]
  BY <1>6 DEF Follows, IsPage
<1>8. PICK page, old, state :
         /\ old = view[v] /\ state = session.state
         /\ page = [old EXCEPT !.on = TRUE, !.state = state, !.rows = sent]
  OBVIOUS
<1>9. page = [on |-> TRUE, loop |-> loop, queue |-> <<>>,
              state |-> state, submitting |-> submitting, rows |-> sent]
  <2>1. old = [on |-> FALSE, loop |-> loop, queue |-> <<>>,
               state |-> shown, submitting |-> submitting, rows |-> rows]
    BY <1>7, <1>8
  <2> QED
    <3>1. PICK x : x = sent
      OBVIOUS
    <3>2. page = [old EXCEPT !.on = TRUE, !.state = state, !.rows = x]
      BY <1>8, <3>1
    <3>3. page = [on |-> TRUE, loop |-> loop, queue |-> <<>>,
              state |-> state, submitting |-> submitting, rows |-> x]
      BY <2>1, <3>2, ConnectedPage
    <3> QED
      BY <3>1, <3>3
<1>10. /\ IsPage(page) /\ page.on /\ page.queue = <<>> /\ page.state = session.state
       /\ page.rows = sent
  <2>1. <<>> \in Seq(Messages) /\ TRUE \in BOOLEAN
    OBVIOUS
  <2>2. /\ page.on /\ page.queue = <<>> /\ page.state = state /\ page.rows = sent
        /\ page.loop = loop /\ page.submitting = submitting
    BY <1>9
  <2>3. page = [on |-> page.on, loop |-> page.loop, queue |-> page.queue,
                state |-> page.state, submitting |-> page.submitting, rows |-> page.rows]
    BY <1>9
  <2>4. IsPage(page)
    BY <1>9, <2>1, <2>3 DEF IsPage
  <2> QED
    BY <1>8, <2>2, <2>4
<1>11. Follows(page, v \in Watched, session.state, K, t, heap)
  BY <1>4, <1>5, <1>10 DEF Follows
<1>12. view' = [view EXCEPT ![v] = page]
  BY <1>8 DEF Connect, sent
<1>13. AllFollow(view', session.state, K, t, heap)
  BY <1>1, <1>11, <1>12, PageChanged
<1> QED
  BY <1>13 DEF K, t

LEMMA DisconnectFollows ==
    ASSUME NEW w, NEW state, NEW K, NEW t, NEW h, AllFollow(w, state, K, t, h),
           NEW v \in Views, NEW n, n = [w EXCEPT ![v] = Away]
    PROVE  AllFollow(n, state, K, t, h)
<1>1. IsPage(Away) /\ ~Away.on /\ Away.queue = <<>>
  BY DEF IsPage, Away
<1>2. Follows(Away, v \in Watched, state, K, t, h)
  BY <1>1 DEF Follows
<1> QED
  BY <1>2, PageChanged

(* A refusal does not wait for what is queued.                             *)
LEMMA RefusedFollows ==
    ASSUME AgentInv, NEW v \in Views, Refused(v)
    PROVE  AllFollow(view', session.state, Len(session.events), session.tool, heap)
<1> DEFINE K == Len(session.events)
           t == session.tool
           sent == Snapshot(session, heap).rows
           error == [id |-> 0, parts |-> <<>>]
           now == Trimmed(Append(sent, error))
<1>1. /\ AllFollow(view, session.state, K, t, heap)
      /\ KeepsLast(session, heap) /\ Sizes(K, t, heap)
  BY TranscriptFacts DEF AgentInv
<1>2. /\ sent \in Seq(Rows) /\ Len(sent) = K
      /\ \A i \in 1 .. K : sent[i] = Row(heap, Len(heap) - K + i)
  BY <1>1, SnapshotFacts
<1>3. error \in Rows /\ error.id = 0
  BY DEF Rows
<1>4. Follows(view[v], v \in Watched, session.state, K, t, heap)
  BY <1>1 DEF AllFollow
<1> HIDE DEF K, t, sent, error, now
<1>5. CASE v \notin Watched
  <2>1. view' = [view EXCEPT ![v] = [view[v] EXCEPT !.loop = "open"]]
    BY <1>5 DEF Refused
  <2>2. Follows([view[v] EXCEPT !.loop = "open"], v \in Watched, session.state, K, t, heap)
    BY <1>4, SameShown
  <2>3. AllFollow(view', session.state, K, t, heap)
    BY <1>1, <2>1, <2>2, PageChanged
  <2> QED
    BY <2>3 DEF K, t
<1>6. CASE v \in Watched
  <2>1. PICK page, old, state :
           /\ old = view[v] /\ state = session.state
           /\ page = [old EXCEPT !.loop = "open", !.state = state,
                                 !.submitting = FALSE, !.rows = now]
    OBVIOUS
  <2>2. PICK on, loop, queue, shown, submitting, rows :
           /\ view[v] = [on |-> on, loop |-> loop, queue |-> queue,
                         state |-> shown, submitting |-> submitting, rows |-> rows]
           /\ on \in BOOLEAN /\ queue \in Seq(Messages)
    BY <1>4 DEF Follows, IsPage
  <2>3. page = [on |-> on, loop |-> "open", queue |-> queue,
                state |-> state, submitting |-> FALSE, rows |-> now]
    <3>1. old = [on |-> on, loop |-> loop, queue |-> queue,
                 state |-> shown, submitting |-> submitting, rows |-> rows]
      BY <2>1, <2>2
    <3> QED
      <4>1. PICK x : x = now
        OBVIOUS
      <4>2. page = [old EXCEPT !.loop = "open", !.state = state,
                                 !.submitting = FALSE, !.rows = x]
        BY <2>1, <4>1
      <4>3. page = [on |-> on, loop |-> "open", queue |-> queue,
                state |-> state, submitting |-> FALSE, rows |-> x]
        BY <3>1, <4>2, RefusedPage
      <4> QED
        BY <4>1, <4>3
  <2>4. /\ IsPage(page) /\ page.on = on /\ page.queue = queue /\ page.state = session.state
        /\ page.rows = now
    <3>1. page.on = on /\ page.queue = queue /\ page.state = state /\ page.rows = now
      BY <2>3
    <3>2. page = [on |-> page.on, loop |-> page.loop, queue |-> page.queue,
                  state |-> page.state, submitting |-> page.submitting, rows |-> page.rows]
      BY <2>3
    <3>3. IsPage(page)
      BY <2>2, <3>1, <3>2 DEF IsPage
    <3> QED
      BY <2>1, <3>1, <3>3
  <2>5. view[v].on = on /\ view[v].queue = queue /\ view[v].state = shown /\ view[v].rows = rows
    BY <2>2
  <2>11. page.on = view[v].on /\ page.queue = view[v].queue
    BY <2>4, <2>5
  <2>6. ASSUME view[v].on PROVE Follows(page, v \in Watched, session.state, K, t, heap)
    <3>1. StateArrives(queue, shown, session.state) /\ RowsArrive(queue, rows, K, t, heap)
      BY <1>4, <1>6, <2>5, <2>6 DEF Follows
    <3>2. StateArrives(queue, session.state, session.state)
      BY <3>1 DEF StateArrives
    <3>3. RowsArrive(queue, now, K, t, heap)
      BY <1>1, <1>2, <1>3, <3>1, RowsRefused DEF now
    <3> QED
      BY <1>6, <2>4, <2>6, <2>11, <3>2, <3>3 DEF Follows
  <2>7. ASSUME ~view[v].on PROVE Follows(page, v \in Watched, session.state, K, t, heap)
    BY <1>4, <2>4, <2>7, <2>11 DEF Follows
  <2>8. Follows(page, v \in Watched, session.state, K, t, heap)
    BY <2>6, <2>7
  <2>9. view' = [view EXCEPT ![v] = page]
    BY <1>6, <2>1 DEF Refused, sent, error, now
  <2>10. AllFollow(view', session.state, K, t, heap)
    BY <1>1, <2>8, <2>9, PageChanged
  <2> QED
    BY <2>10 DEF K, t
<1> QED
  BY <1>5, <1>6

(* The next message is shown.                                              *)
LEMMA ShowFollows ==
    ASSUME AgentInv, NEW v \in Views, Show(v)
    PROVE  AllFollow(view', session.state, Len(session.events), session.tool, heap)
<1> DEFINE K == Len(session.events)
           t == session.tool
<1>1. AllFollow(view, session.state, K, t, heap) /\ Sizes(K, t, heap)
  BY TranscriptFacts DEF AgentInv
<1>2. Follows(view[v], v \in Watched, session.state, K, t, heap)
  BY <1>1 DEF AllFollow
<1>3. view[v].queue # <<>>
  BY DEF Show
<1> HIDE DEF K, t
<1>4. v \in Watched /\ view[v].on
  BY <1>2, <1>3 DEF Follows
<1>5. PICK loop, queue, shown, submitting, rows :
         /\ view[v] = [on |-> TRUE, loop |-> loop, queue |-> queue,
                       state |-> shown, submitting |-> submitting, rows |-> rows]
         /\ queue \in Seq(Messages)
  BY <1>2, <1>4 DEF Follows, IsPage
<1>6. /\ queue # <<>>
      /\ StateArrives(queue, shown, session.state)
      /\ RowsArrive(queue, rows, K, t, heap)
  BY <1>2, <1>3, <1>4, <1>5 DEF Follows
<1>7. PICK m : m = queue[1] /\ m = Head(queue)
  OBVIOUS
<1>8. PICK now, next : /\ now = RowsAfter(rows, m)
                       /\ next = IF Bears(m) THEN m.state ELSE shown
  OBVIOUS
<1>9. Tail(queue) \in Seq(Messages)
  BY <1>5, <1>6, TailFacts
<1>10. StateArrives(Tail(queue), next, session.state)
  BY <1>5, <1>6, <1>7, <1>8, StateShown
<1>11. RowsArrive(Tail(queue), now, K, t, heap)
  BY <1>1, <1>5, <1>6, <1>7, <1>8, RowsShown
<1>12. PICK page : page = PageAfter(view[v], m)
  OBVIOUS
<1>13. IsPage(view[v]) /\ view[v].queue # <<>>
  BY <1>2, <1>3 DEF Follows
<1>14. /\ IsPage(page) /\ page.on /\ page.queue = Tail(queue) /\ page.state = next
       /\ page.rows = now
  <2>1. /\ IsPage(page)
        /\ page.on = view[v].on
        /\ page.queue = Tail(view[v].queue)
        /\ page.rows = RowsAfter(view[v].rows, m)
        /\ Bears(m) => page.state = m.state
        /\ ~Bears(m) => page.state = view[v].state
    BY <1>12, <1>13, ShownPage
  <2>2. /\ view[v].queue = queue /\ view[v].rows = rows /\ view[v].state = shown
    BY <1>5
  <2> QED
    BY <1>4, <1>8, <2>1, <2>2
<1>15. Follows(page, v \in Watched, session.state, K, t, heap)
  BY <1>4, <1>10, <1>11, <1>14 DEF Follows
<1>16. view' = [view EXCEPT ![v] = page]
  <2>1. view[v].queue = queue
    BY <1>5
  <2>2. Head(view[v].queue) = m
    BY <1>7, <2>1
  <2> QED
    BY <1>12, <2>2 DEF Show
<1>17. AllFollow(view', session.state, K, t, heap)
  BY <1>1, <1>15, <1>16, PageChanged
<1> QED
  BY <1>17 DEF K, t


-----------------------------------------------------------------------------
(* The steps of the session.                                               *)

(* What no page shows of the session changes.                              *)
LEMMA SessionGood ==
    ASSUME NEW d, Good(d), NEW n, n = [d EXCEPT !.s.ensured = TRUE] \/ n = [d EXCEPT !.s.retried = TRUE]
    PROVE  Good(n)
<1>1. PICK old, h, w : old = d.s /\ h = d.h /\ w = d.w
  OBVIOUS
<1>2. /\ d = [s |-> old, h |-> h, w |-> w]
      /\ SessionTranscript(old, h) /\ KeepsLast(old, h) /\ old \in Sessions
      /\ AllFollow(w, old.state, Len(old.events), old.tool, h)
  BY <1>1 DEF Good, IsDraft, SessionTranscript, KeepsLast
<1>3. PICK s : /\ s = [old EXCEPT !.ensured = TRUE] \/ s = [old EXCEPT !.retried = TRUE]
               /\ n = [d EXCEPT !.s = s]
  BY <1>1
<1>4. s \in Sessions /\ s.events = old.events /\ s.tool = old.tool /\ s.state = old.state
  BY <1>2, <1>3 DEF Sessions
<1>5. SessionTranscript(s, h)
  BY <1>2, <1>4 DEF SessionTranscript, KeepsLast
<1>6. n = [s |-> s, h |-> h, w |-> w]
  BY <1>2, <1>3
<1>7. IsDraft(n) /\ n.s = s /\ n.h = h /\ n.w = w
  BY <1>6, DraftFacts
<1> QED
  BY <1>2, <1>4, <1>5, <1>7 DEF Good

(* A task of a page waits for something else.                              *)
LEMMA LoopFollows ==
    ASSUME NEW w, NEW state, NEW K, NEW t, NEW h, AllFollow(w, state, K, t, h),
           NEW v \in Views, NEW x, NEW n, n = [w EXCEPT ![v].loop = x] \/ n = [w EXCEPT ![v].submitting = x]
    PROVE  AllFollow(n, state, K, t, h)
<1>1. PICK page : /\ page = [w[v] EXCEPT !.loop = x] \/ page = [w[v] EXCEPT !.submitting = x]
                  /\ n = [w EXCEPT ![v] = page]
  OBVIOUS
<1>2. Follows(w[v], v \in Watched, state, K, t, h)
  BY DEF AllFollow
<1>3. Follows(page, v \in Watched, state, K, t, h)
  BY <1>1, <1>2, SameShown
<1> QED
  BY <1>1, <1>3, PageChanged

LEMMA LoopGood ==
    ASSUME NEW d, Good(d), NEW v \in Views, NEW x
    PROVE  Good([d EXCEPT !.w[v].loop = x])
<1>1. PICK s, h, old : s = d.s /\ h = d.h /\ old = d.w
  OBVIOUS
<1>2. /\ d = [s |-> s, h |-> h, w |-> old]
      /\ SessionTranscript(s, h)
      /\ AllFollow(old, s.state, Len(s.events), s.tool, h)
  BY <1>1 DEF Good, IsDraft
<1>3. PICK w : w = [old EXCEPT ![v].loop = x]
  OBVIOUS
<1>4. AllFollow(w, s.state, Len(s.events), s.tool, h)
  BY <1>2, <1>3, LoopFollows
<1>5. PICK n : n = [s |-> s, h |-> h, w |-> w]
  OBVIOUS
<1>6. [d EXCEPT !.w[v].loop = x] = n
  <2>1. ASSUME NEW y, y = [s |-> s, h |-> h, w |-> old]
        PROVE  [y EXCEPT !.w[v].loop = x] = n
    BY <1>3, <1>5, <2>1
  <2> QED
    BY <1>2, <2>1
<1>7. IsDraft(n) /\ n.s = s /\ n.h = h /\ n.w = w
  BY <1>5, DraftFacts
<1> QED
  BY <1>2, <1>4, <1>6, <1>7 DEF Good

(* A cleared session, which every page is told of.                         *)
LEMMA ResetGood ==
    ASSUME NEW d, Good(d), NEW v \in Views
    PROVE  Good(Broadcast([d EXCEPT !.s.ensured = TRUE, !.s.tool = 0, !.s.events = <<>>,
                                    !.w[v].loop = "open"],
                          [type |-> "reset"]))
<1>1. PICK x : x = [d EXCEPT !.w[v].loop = "open"]
  OBVIOUS
<1>2. PICK old, h, w : old = x.s /\ h = x.h /\ w = x.w
  OBVIOUS
<1>3. /\ x = [s |-> old, h |-> h, w |-> w]
      /\ SessionTranscript(old, h) /\ KeepsLast(old, h) /\ old \in Sessions
      /\ AllFollow(w, old.state, Len(old.events), old.tool, h)
      /\ h \in Seq(Events) /\ Len(h) \in Nat
      /\ Sizes(Len(old.events), old.tool, h)
  <2>1. Good(x)
    BY <1>1, LoopGood
  <2> QED
    BY <1>2, <2>1, TranscriptFacts DEF Good, IsDraft, SessionTranscript, KeepsLast
<1>4. PICK s : s = [old EXCEPT !.ensured = TRUE, !.tool = 0, !.events = <<>>]
  OBVIOUS
<1>5. s \in Sessions /\ s.events = <<>> /\ s.tool = 0 /\ s.state = old.state
  <2>1. <<>> \in Seq(Nat) /\ 0 \in Nat /\ TRUE \in BOOLEAN
    OBVIOUS
  <2> QED
    BY <1>3, <1>4, <2>1 DEF Sessions
<1>6. Len(s.events) = 0 /\ DOMAIN s.events = {}
  BY <1>5
<1>7. KeepsLast(s, h)
  BY <1>3, <1>5, <1>6, SessionAssumption DEF KeepsLast
<1>8. SessionTranscript(s, h)
  <2>1. \A e \in Len(h) - 0 + 1 .. Len(h) : FALSE
    BY <1>3
  <2> QED
    BY <1>3, <1>5, <1>6, <1>7, <2>1 DEF SessionTranscript
<1>9. PICK n : n = [s |-> s, h |-> h, w |-> w]
  OBVIOUS
<1>10. IsDraft(n) /\ n.s = s /\ n.h = h /\ n.w = w
  BY <1>9, DraftFacts
<1>11. [d EXCEPT !.s.ensured = TRUE, !.s.tool = 0, !.s.events = <<>>, !.w[v].loop = "open"] = n
  <2>1. PICK a, b, g : a = d.s /\ b = d.w /\ g = d.h /\ d = [s |-> a, h |-> g, w |-> b]
    BY DEF Good, IsDraft
  <2>2. x = [s |-> a, h |-> g, w |-> [b EXCEPT ![v].loop = "open"]]
    BY <1>1, <2>1
  <2>3. old = a /\ h = g /\ w = [b EXCEPT ![v].loop = "open"]
    BY <1>2, <2>2
  <2>4. ASSUME NEW y, y = [s |-> a, h |-> g, w |-> b]
        PROVE  [y EXCEPT !.s.ensured = TRUE, !.s.tool = 0, !.s.events = <<>>, !.w[v].loop = "open"] = n
    <3>1. [y EXCEPT !.s.ensured = TRUE, !.s.tool = 0, !.s.events = <<>>, !.w[v].loop = "open"]
             = [y EXCEPT !.s = s, !.w = w]
      BY <1>4, <2>3, <2>4
    <3>2. PICK z : z = [y EXCEPT !.s = s]
      OBVIOUS
    <3>3. z = [s |-> s, h |-> g, w |-> b]
      BY <2>4, <3>2
    <3>4. [z EXCEPT !.w = w] = [s |-> s, h |-> g, w |-> w]
      BY <3>3
    <3> QED
      BY <1>9, <2>3, <3>1, <3>2, <3>4
  <2> QED
    BY <2>1, <2>4
<1>12. PICK m : m = [type |-> "reset"]
  OBVIOUS
<1>13. /\ m \in Messages /\ m.type = "reset" /\ ~Bears(m) /\ m.type \in Clears
       /\ Cleared(m) = <<>>
  BY <1>12 DEF Messages, Bears, Clears, Cleared
<1>14. Cleared(m) \in Seq(Rows) /\ Faithful(Cleared(m), <<>>, 0, 0, h)
  <2>1. <<>> \in Seq(Rows)
    OBVIOUS
  <2> QED
    BY <1>3, <1>13, <2>1, ClearedFaithful
<1>15. /\ 0 \in 0 .. Len(n.h) /\ KeepsLast(n.s, n.h) /\ n.s.state = old.state
       /\ AllFollow(n.w, old.state, Len(old.events), old.tool, h)
       /\ Faithful(Cleared(m), <<>>, Len(n.s.events), 0, n.h)
  BY <1>3, <1>5, <1>6, <1>7, <1>10, <1>14
<1>16. /\ IsDraft(Broadcast(n, m)) /\ Broadcast(n, m).s = n.s /\ Broadcast(n, m).h = n.h
       /\ AllFollow(Broadcast(n, m).w, n.s.state, Len(n.s.events), 0, n.h)
  BY <1>3, <1>10, <1>13, <1>14, <1>15, BroadcastFollows
<1>17. Good(Broadcast(n, m))
  BY <1>5, <1>8, <1>10, <1>16 DEF Good
<1> QED
  BY <1>11, <1>12, <1>17

LEMMA DraftGood ==
    ASSUME AgentInv
    PROVE  Good(Draft) /\ Draft.s = session /\ Draft.h = heap /\ Draft.w = view
<1>1. IsDraft(Draft) /\ Draft.s = session /\ Draft.h = heap /\ Draft.w = view
  BY DraftFacts DEF Draft
<1> QED
  BY <1>1 DEF Good, AgentInv

LEMMA CommitKeeps ==
    ASSUME NEW d, Good(d), Commit(d)
    PROVE  AgentInv'
BY DEF Good, Commit, AgentInv


LEMMA AgentStarts == AgentInit => AgentInv
<1> SUFFICES ASSUME AgentInit PROVE AgentInv
  OBVIOUS
<1>1. /\ heap = <<>>
      /\ session = [state |-> "idle", events |-> <<>>, ensured |-> FALSE,
                    task |-> "none", retried |-> FALSE, tool |-> 0]
      /\ view = [v \in Views |-> [Away EXCEPT !.on = v \notin Watched]]
  BY DEF AgentInit
<1>2. session \in Sessions /\ session.events = <<>> /\ session.tool = 0
  <2>1. "idle" \in States /\ "none" \in Tasks /\ <<>> \in Seq(Nat) /\ 0 \in Nat /\ FALSE \in BOOLEAN
    BY DEF States, Tasks
  <2> QED
    BY <1>1, <2>1 DEF Sessions
<1>3. heap \in Seq(Events) /\ Len(heap) = 0
  BY <1>1
<1>4. Len(session.events) = 0 /\ DOMAIN session.events = {}
  BY <1>2
<1>5. SessionTranscript(session, heap)
  <2>1. 0 - 0 + 1 .. 0 = {}
    OBVIOUS
  <2> QED
    BY <1>2, <1>3, <1>4, <2>1, SessionAssumption DEF SessionTranscript, KeepsLast
<1>6. ASSUME NEW v \in Views
      PROVE  Follows(view[v], v \in Watched, session.state, Len(session.events), session.tool, heap)
  <2>1. PICK page, on : page = view[v] /\ on = (v \notin Watched)
    OBVIOUS
  <2>2. page = [on |-> on, loop |-> "open", queue |-> <<>>,
                state |-> "idle", submitting |-> FALSE, rows |-> <<>>]
    BY <1>1, <2>1 DEF Away
  <2>3. on \in BOOLEAN /\ <<>> \in Seq(Messages)
    BY <2>1
  <2>4. page.on = on /\ page.queue = <<>>
    BY <2>2
  <2>5. IsPage(page)
    BY <2>2, <2>3, <2>4 DEF IsPage
  <2>6. ~(v \in Watched /\ page.on)
    BY <2>1, <2>4
  <2> QED
    BY <2>1, <2>4, <2>5, <2>6 DEF Follows
<1> QED
  BY <1>1, <1>5, <1>6 DEF AgentInv, AllFollow

(* The session's response.                                                 *)
LEMMA RunKeeps ==
    ASSUME AgentInv, RunBegins \/ RunFails \/ RunEnsured \/ PromptStarts \/ PromptEnds
                        \/ StaleQueue \/ Renewed
    PROVE  AgentInv'
<1>1. Good(Draft)
  BY DraftGood
<1>2. /\ \A k \in {"user", "note"} : k \in Kinds \ {"tool"}
      /\ \A s \in {"starting", "working", "error", "idle"} : s \in States
      /\ \A t \in {"none", "ensure", "mode", "prompt", "renew"} : t \in Tasks
  BY DEF Kinds, States, Tasks
<1>3. CASE RunBegins
  <2>1. PICK d : d = SetState(Emit(Draft, "user"), "starting")
    OBVIOUS
  <2>2. Good(d)
    BY <1>1, <1>2, <2>1, EmitGood, SetStateGood
  <2>3. Good(Task(SetState(d, "working"), "mode")) /\ Good(Task(d, "ensure"))
    BY <1>2, <2>2, SetStateGood, TaskGood
  <2>4. Commit(Task(SetState(d, "working"), "mode")) \/ Commit(Task(d, "ensure"))
    BY <1>3, <2>1 DEF RunBegins
  <2> QED
    BY <2>3, <2>4, CommitKeeps
<1>4. CASE RunFails
  <2>1. Good(Task(SetState(Emit(Draft, "note"), "error"), "none"))
    BY <1>1, <1>2, EmitGood, SetStateGood, TaskGood
  <2> QED
    BY <1>4, <2>1, CommitKeeps DEF RunFails
<1>5. CASE RunEnsured
  <2>1. PICK d : d = [Draft EXCEPT !.s.ensured = TRUE]
    OBVIOUS
  <2>2. Good(d)
    BY <1>1, <2>1, SessionGood
  <2>3. Good(Task(SetState(d, "working"), "mode"))
    BY <1>2, <2>2, SetStateGood, TaskGood
  <2>4. Commit(Task(SetState(d, "working"), "mode"))
    BY <1>5, <2>1 DEF RunEnsured
  <2> QED
    BY <2>3, <2>4, CommitKeeps
<1>6. CASE PromptStarts
  <2>1. Good(Task(Draft, "prompt"))
    BY <1>1, <1>2, TaskGood
  <2> QED
    BY <1>6, <2>1, CommitKeeps DEF PromptStarts
<1>7. CASE PromptEnds
  <2>1. Good(Task(SetState(Draft, "idle"), "none"))
    BY <1>1, <1>2, SetStateGood, TaskGood
  <2> QED
    BY <1>7, <2>1, CommitKeeps DEF PromptEnds
<1>8. CASE StaleQueue
  <2>1. PICK d : d = [Draft EXCEPT !.s.retried = TRUE]
    OBVIOUS
  <2>2. Good(Task(d, "renew"))
    BY <1>1, <1>2, <2>1, SessionGood, TaskGood
  <2>3. Commit(Task(d, "renew"))
    BY <1>8, <2>1 DEF StaleQueue
  <2> QED
    BY <2>2, <2>3, CommitKeeps
<1>9. CASE Renewed
  <2>1. PICK d : d = [Draft EXCEPT !.s.ensured = TRUE]
    OBVIOUS
  <2>2. Good(Task(d, "mode"))
    BY <1>1, <1>2, <2>1, SessionGood, TaskGood
  <2>3. Commit(Task(d, "mode"))
    BY <1>9, <2>1 DEF Renewed
  <2> QED
    BY <2>2, <2>3, CommitKeeps
<1> QED
  BY <1>3, <1>4, <1>5, <1>6, <1>7, <1>8, <1>9

(* What the agent says.                                                    *)
LEMMA TextKeeps ==
    ASSUME AgentInv, Text
    PROVE  AgentInv'
<1> DEFINE last == IF session.events = <<>> THEN 0 ELSE Last(session.events)
<1>1. Good(Draft) /\ Draft.s = session /\ Draft.h = heap
  BY DraftGood
<1>2. CASE last # 0 /\ heap[last].kind = "text"
  <2>1. last \in 1 .. Len(heap)
    <3>1. /\ session.events \in Seq(Nat) /\ session.events # <<>>
          /\ Len(session.events) <= Len(heap) /\ Len(heap) \in Nat
          /\ \A i \in DOMAIN session.events : session.events[i] = Len(heap) - Len(session.events) + i
      BY <1>2, TranscriptFacts DEF AgentInv, SessionTranscript, KeepsLast, Sessions
    <3>2. Len(session.events) \in DOMAIN session.events /\ Len(session.events) \in Nat \ {0}
      BY <3>1
    <3>3. last = session.events[Len(session.events)]
      BY <3>1 DEF Last
    <3>4. last = Len(heap) - Len(session.events) + Len(session.events)
      BY <3>1, <3>2, <3>3
    <3>5. \A n, K \in Nat : n - K + K = n
      OBVIOUS
    <3>6. last = Len(heap) /\ Len(heap) # 0
      BY <3>1, <3>2, <3>4, <3>5
    <3> QED
      BY <3>1, <3>6
  <2> HIDE DEF last
  <2>2. Good(Broadcast([Draft EXCEPT !.h[last].parts = @ + 1],
                       [type |-> "append", id |-> last, part |-> heap[last].parts + 1]))
    BY <1>1, <1>2, <2>1, AppendGood
  <2>3. Commit(Broadcast([Draft EXCEPT !.h[last].parts = @ + 1],
                         [type |-> "append", id |-> last, part |-> heap[last].parts + 1]))
    BY <1>2 DEF Text, last
  <2> QED
    BY <2>2, <2>3, CommitKeeps
<1>3. CASE ~(last # 0 /\ heap[last].kind = "text")
  <2>1. "text" \in Kinds \ {"tool"}
    BY DEF Kinds
  <2>2. Good(Emit(Draft, "text"))
    BY <1>1, <2>1, EmitGood
  <2>3. Commit(Emit(Draft, "text"))
    BY <1>3 DEF Text
  <2> QED
    BY <2>2, <2>3, CommitKeeps
<1> QED
  BY <1>2, <1>3

LEMMA ToolKeeps ==
    ASSUME AgentInv, Tool \/ Note
    PROVE  AgentInv'
<1>1. Good(Draft) /\ Draft.s = session /\ Draft.h = heap
  BY DraftGood
<1>2. CASE Tool /\ Contains(session.events, session.tool)
  <2>1. PICK e, r : e = session.tool /\ r = [Draft EXCEPT !.h[e].parts = @ + 1]
    OBVIOUS
  <2>2. r = [Draft EXCEPT !.h[Draft.s.tool].parts = @ + 1] /\ Contains(Draft.s.events, Draft.s.tool)
    BY <1>1, <1>2, <2>1
  <2>3. Good(Broadcast(r, [type |-> "replace", row |-> Row(r.h, Draft.s.tool)]))
    BY <1>1, <2>2, ReplaceGood
  <2>4. Commit(Broadcast(r, [type |-> "replace", row |-> Row(r.h, e)]))
    BY <1>2, <2>1 DEF Tool
  <2>5. e = Draft.s.tool
    BY <1>1, <2>1
  <2> QED
    BY <2>3, <2>4, <2>5, CommitKeeps
<1>3. CASE Tool /\ ~Contains(session.events, session.tool)
  <2>1. Good([Emit(Draft, "tool") EXCEPT !.s.tool = Len(heap) + 1])
    BY <1>1, <1>3, NewToolGood
  <2>2. Commit([Emit(Draft, "tool") EXCEPT !.s.tool = Len(heap) + 1])
    BY <1>3 DEF Tool
  <2> QED
    BY <2>1, <2>2, CommitKeeps
<1>4. CASE Note
  <2>1. "note" \in Kinds \ {"tool"}
    BY DEF Kinds
  <2>2. Good(Emit(Draft, "note"))
    BY <1>1, <2>1, EmitGood
  <2> QED
    BY <1>4, <2>2, CommitKeeps DEF Note
<1> QED
  BY <1>2, <1>3, <1>4


(* What the pages do, and ask for.                                         *)
LEMMA PagesKeep ==
    ASSUME AgentInv, NEW v \in Views,
           \/ Connect(v) \/ Disconnect(v) \/ Prompt(v) \/ Cancel(v) \/ CancelSent(v)
           \/ CancelEnds(v) \/ New(v) \/ ResetEnds(v) \/ ResetFails(v) \/ Show(v)
    PROVE  AgentInv'
<1>1. /\ SessionTranscript(session, heap)
      /\ AllFollow(view, session.state, Len(session.events), session.tool, heap)
  BY DEF AgentInv
<1>2. ASSUME UNCHANGED <<heap, session>>,
             AllFollow(view', session.state, Len(session.events), session.tool, heap)
      PROVE  AgentInv'
  BY <1>1, <1>2 DEF AgentInv
<1>3. ASSUME UNCHANGED <<heap, session>>, NEW x,
             view' = [view EXCEPT ![v].loop = x] \/ view' = [view EXCEPT ![v].submitting = x]
      PROVE  AgentInv'
  <2>1. AllFollow(view', session.state, Len(session.events), session.tool, heap)
    BY <1>1, <1>3, LoopFollows
  <2> QED
    BY <1>2, <1>3, <2>1
<1>4. ASSUME Refused(v), UNCHANGED <<heap, session>>
      PROVE  AgentInv'
  BY <1>2, <1>4, RefusedFollows
<1>5. Good(Draft) /\ "stopping" \in States /\ "idle" \in States
  BY DraftGood DEF States
<1>6. CASE Connect(v)
  BY <1>2, <1>6, ConnectFollows DEF Connect
<1>7. CASE Disconnect(v)
  <2>1. AllFollow(view', session.state, Len(session.events), session.tool, heap)
    BY <1>1, <1>7, DisconnectFollows DEF Disconnect
  <2> QED
    BY <1>2, <1>7, <2>1 DEF Disconnect
<1>8. CASE Prompt(v) /\ session.task # "none"
  BY <1>4, <1>8 DEF Prompt
<1>9. CASE Prompt(v) /\ session.task = "none"
  <2>1. /\ session' = [session EXCEPT !.task = "created", !.retried = FALSE]
        /\ view' = [view EXCEPT ![v].submitting = v \in Watched]
        /\ heap' = heap
    BY <1>9 DEF Prompt
  <2>2. /\ session'.events = session.events /\ session'.tool = session.tool
        /\ session'.state = session.state /\ session' \in Sessions
    <3>1. session \in Sessions /\ "created" \in Tasks /\ FALSE \in BOOLEAN
      BY <1>1 DEF SessionTranscript, KeepsLast, Tasks
    <3> QED
      BY <2>1, <3>1 DEF Sessions
  <2>3. SessionTranscript(session', heap)
    BY <1>1, <2>2 DEF SessionTranscript, KeepsLast
  <2>4. AllFollow(view', session.state, Len(session.events), session.tool, heap)
    <3>1. PICK x : x = (v \in Watched)
      OBVIOUS
    <3>2. view' = [view EXCEPT ![v].submitting = x]
      BY <2>1, <3>1
    <3> QED
      BY <1>1, <3>2, LoopFollows
  <2> QED
    BY <2>1, <2>2, <2>3, <2>4 DEF AgentInv
<1>10. CASE Cancel(v)
  <2>1. PICK d : d = [Draft EXCEPT !.w[v].loop = "control"]
    OBVIOUS
  <2>2. Good(SetState(d, "stopping"))
    BY <1>5, <2>1, LoopGood, SetStateGood
  <2>3. Commit(SetState(d, "stopping"))
    BY <1>10, <2>1 DEF Cancel
  <2> QED
    BY <2>2, <2>3, CommitKeeps
<1>11. CASE CancelSent(v)
  BY <1>3, <1>11 DEF CancelSent
<1>12. CASE CancelEnds(v)
  BY <1>3, <1>12 DEF CancelEnds
<1>13. CASE New(v)
  <2>1. CASE session.task # "none"
    BY <1>4, <1>13, <2>1 DEF New
  <2>2. CASE session.task = "none"
    BY <1>3, <1>13, <2>2 DEF New
  <2> QED
    BY <2>1, <2>2
<1>14. CASE ResetEnds(v)
  <2>1. PICK d : d = Broadcast([Draft EXCEPT !.s.ensured = TRUE, !.s.tool = 0, !.s.events = <<>>,
                                             !.w[v].loop = "open"],
                               [type |-> "reset"])
    OBVIOUS
  <2>2. Good(SetState(d, "idle"))
    BY <1>5, <2>1, ResetGood, SetStateGood
  <2>3. Commit(SetState(d, "idle"))
    BY <1>14, <2>1 DEF ResetEnds
  <2> QED
    BY <2>2, <2>3, CommitKeeps
<1>15. CASE ResetFails(v)
  BY <1>4, <1>15 DEF ResetFails
<1>16. CASE Show(v)
  BY <1>2, <1>16, ShowFollows DEF Show
<1> QED
  BY <1>6, <1>7, <1>8, <1>9, <1>10, <1>11, <1>12, <1>13, <1>14, <1>15, <1>16

(* The agent's invariant is kept by every step of the session.             *)
LEMMA AgentStep == AgentInv /\ [AgentNext]_agentVars => AgentInv'
<1> SUFFICES ASSUME AgentInv, [AgentNext]_agentVars PROVE AgentInv'
  OBVIOUS
<1>1. CASE UNCHANGED agentVars
  BY <1>1 DEF agentVars, AgentInv
<1>2. CASE RunBegins \/ RunFails \/ RunEnsured \/ PromptStarts \/ PromptEnds \/ StaleQueue \/ Renewed
  BY <1>2, RunKeeps
<1>3. CASE Text
  BY <1>3, TextKeeps
<1>4. CASE Tool \/ Note
  BY <1>4, ToolKeeps
<1>5. CASE \E v \in Views :
              \/ Connect(v) \/ Disconnect(v) \/ Prompt(v) \/ Cancel(v) \/ CancelSent(v)
              \/ CancelEnds(v) \/ New(v) \/ ResetEnds(v) \/ ResetFails(v) \/ Show(v)
  BY <1>5, PagesKeep
<1> QED
  BY <1>1, <1>2, <1>3, <1>4, <1>5 DEF AgentNext

LEMMA AgentIsInv == AgentSpec => []AgentInv
<1> QED
  BY AgentStarts, AgentStep, PTL DEF AgentSpec

-----------------------------------------------------------------------------
(* The theorems about the agent.                                           *)

(* _upsert_tool: a session keeps one row at most for the calls of one      *)
(* tool, whatever was trimmed or reset between two of them. *)
THEOREM AToolHasOneRow == AgentSpec => []ToolHasOneRow
<1>1. AgentInv => ToolHasOneRow
  <2> SUFFICES ASSUME AgentInv,
                      NEW i \in DOMAIN session.events, NEW j \in DOMAIN session.events,
                      heap[session.events[i]].kind = "tool", heap[session.events[j]].kind = "tool"
               PROVE  i = j
    BY DEF ToolHasOneRow
  <2>1. PICK n, K : n = Len(heap) /\ K = Len(session.events)
    OBVIOUS
  <2>2. /\ SessionTranscript(session, heap)
        /\ n \in Nat /\ K \in Nat /\ K <= n /\ i \in 1 .. K /\ j \in 1 .. K
        /\ session.events[i] = n - K + i /\ session.events[j] = n - K + j
    BY <2>1, KeepsFacts DEF AgentInv, SessionTranscript, KeepsLast
  <2>3. n - K + i \in n - K + 1 .. n /\ n - K + j \in n - K + 1 .. n
    BY <2>2, LastOnes
  <2>4. n - K + i = session.tool /\ n - K + j = session.tool
    BY <2>1, <2>2, <2>3 DEF SessionTranscript
  <2>5. \A a, b, c, d \in Nat : a - b + c = a - b + d => c = d
    OBVIOUS
  <2> QED
    BY <2>2, <2>4, <2>5
<1> QED
  BY <1>1, AgentIsInv, PTL

(* subscribe, broadcast and applyAgentMessage: a page that has been sent   *)
(* everything shows the state of the session and all of its text, however  *)
(* slow it was, and whatever was refused, cleared or started in between.   *)
THEOREM AViewKeepsUp == AgentSpec => []ViewKeepsUp
<1>1. AgentInv => ViewKeepsUp
  <2> SUFFICES ASSUME AgentInv, NEW v \in Views, UpToDate(v)
               PROVE  /\ view[v].state = session.state
                      /\ \A i \in DOMAIN session.events :
                            \/ /\ Len(view[v].rows) = MaxEvents
                               /\ i < Len(session.events) \/ HasOwnError(v)
                            \/ \E j \in DOMAIN view[v].rows :
                                  /\ view[v].rows[j].id = session.events[i]
                                  /\ ToSet(Row(heap, session.events[i]).parts)
                                        \subseteq ToSet(view[v].rows[j].parts)
    BY DEF ViewKeepsUp
  <2>1. PICK rows, K, n, t : /\ rows = view[v].rows /\ K = Len(session.events)
                             /\ n = Len(heap) /\ t = session.tool
    OBVIOUS
  <2>2. /\ SessionTranscript(session, heap)
        /\ n \in Nat /\ K \in Nat /\ K <= n /\ DOMAIN session.events = 1 .. K
        /\ \A i \in 1 .. K : session.events[i] = n - K + i
    BY <2>1, KeepsFacts DEF AgentInv, SessionTranscript, KeepsLast
  <2>3. /\ StateArrives(<<>>, view[v].state, session.state)
        /\ RowsArrive(<<>>, rows, K, t, heap)
    <3>1. Follows(view[v], v \in Watched, session.state, K, t, heap)
      BY <2>1 DEF AgentInv, AllFollow
    <3>2. v \in Watched /\ view[v].on /\ view[v].queue = <<>>
      BY DEF UpToDate
    <3> QED
      BY <2>1, <3>1, <3>2 DEF Follows
  <2>4. view[v].state = session.state
    BY <2>3 DEF StateArrives
  <2>5. Faithful(rows, <<>>, K, t, heap)
    BY <2>3, NothingArrives
  <2>6. \A e : ~Announced(<<>>, e)
    BY DEF Announced
  <2>7. ASSUME NEW e, Whole(rows, <<>>, heap, e)
        PROVE  \E j \in DOMAIN rows :
                  rows[j].id = e /\ ToSet(Row(heap, e).parts) \subseteq ToSet(rows[j].parts)
    <3>1. PICK j \in DOMAIN rows : rows[j].id = e /\ Complete(rows[j], <<>>, heap)
      BY <2>7 DEF Whole, First
    <3> QED
      BY <3>1 DEF Complete
  <2>8. ASSUME NEW i \in 1 .. K
        PROVE  \/ Len(rows) = MaxEvents /\ (i < K \/ HasOwnError(v))
               \/ Whole(rows, <<>>, heap, n - K + i)
    <3>1. n - K + i \in n - K + 1 .. n
      BY <2>2, LastOnes
    <3>2. Len(rows) = MaxEvents \/ Whole(rows, <<>>, heap, n - K + i)
      BY <2>1, <2>5, <2>6, <3>1 DEF Faithful, NoneIsLost
    <3>3. CASE i < K
      BY <3>2, <3>3
    <3>4. CASE i = K
      <4>1. K > 0
        BY <2>2, <3>4
      <4>2. n - K + i = n
        <5>1. \A a, b \in Nat : a - b + b = a
          OBVIOUS
        <5> QED
          BY <2>2, <3>4, <5>1
      <4>3. LastIsSafe(rows, <<>>, t, heap) \/ LastIsOut(rows, <<>>, K, t, heap)
        BY <2>5, <2>6, <4>1 DEF Faithful, LastIsComing
      <4>4. LastIsSafe(rows, <<>>, t, heap) => Whole(rows, <<>>, heap, n)
        BY <2>1 DEF LastIsSafe, Whole
      <4>5. LastIsOut(rows, <<>>, K, t, heap) => HasOwnError(v)
        BY <2>1 DEF LastIsOut, Shows, HasOwnError
      <4> QED
        BY <3>2, <4>2, <4>3, <4>4, <4>5
    <3> QED
      BY <2>2, <3>3, <3>4
  <2>9. ASSUME NEW i \in DOMAIN session.events
        PROVE  \/ /\ Len(view[v].rows) = MaxEvents
                  /\ i < Len(session.events) \/ HasOwnError(v)
               \/ \E j \in DOMAIN view[v].rows :
                     /\ view[v].rows[j].id = session.events[i]
                     /\ ToSet(Row(heap, session.events[i]).parts)
                           \subseteq ToSet(view[v].rows[j].parts)
    <3>1. i \in 1 .. K /\ session.events[i] = n - K + i
      BY <2>2
    <3>2. CASE Whole(rows, <<>>, heap, n - K + i)
      <4>1. \E j \in DOMAIN rows :
               /\ rows[j].id = n - K + i
               /\ ToSet(Row(heap, n - K + i).parts) \subseteq ToSet(rows[j].parts)
        BY <2>7, <3>2
      <4> QED
        BY <2>1, <3>1, <4>1
    <3>3. CASE Len(rows) = MaxEvents /\ (i < K \/ HasOwnError(v))
      BY <2>1, <3>3
    <3> QED
      BY <2>8, <3>1, <3>2, <3>3
  <2> QED
    BY <2>4, <2>9
<1> QED
  BY <1>1, AgentIsInv, PTL

-----------------------------------------------------------------------------
(* The shell.                                                              *)


(* What the numbers have to agree on: the transcript is the last           *)
(* characters written, and no cursor is ahead of them. *)
TranscriptIsTail ==
    /\ base + Len(output) = written
    /\ \A i \in 1 .. Len(output) : output[i] = base + i

CursorsAreBehind == \A v \in ShellViews : cursor[v] # NoCursor => cursor[v] <= written

(* A page's screen, by its own numbers. *)
Consecutive(s) == \A i \in 1 .. Len(s) : i < Len(s) => s[i + 1] = s[i] + 1

EndsAt(s, c) == Len(s) > 0 => s[Len(s)] = c

ScreensAreConsecutive ==
    \A v \in ShellViews :
        /\ Consecutive(screen[v])
        /\ cursor[v] # NoCursor => EndsAt(screen[v], cursor[v])

ShellInv ==
    /\ ShellTypeOK
    /\ TranscriptIsTail
    /\ CursorsAreBehind
    /\ ScreensAreConsecutive
    /\ RunningShellIsCurrent

(* The end of a sequence is a sequence, and its elements are the last ones. *)
LEMMA TailOfSequence ==
    ASSUME NEW S, NEW s \in Seq(S), NEW k \in Nat, k <= Len(s)
    PROVE  /\ SubSeq(s, k + 1, Len(s)) \in Seq(S)
           /\ Len(SubSeq(s, k + 1, Len(s))) = Len(s) - k
           /\ \A i \in 1 .. Len(s) - k : SubSeq(s, k + 1, Len(s))[i] = s[k + i]
  OBVIOUS

(* The characters a thread appends go on where the transcript ends. *)
LEMMA AppendedIsTail ==
    ASSUME NEW n \in Nat, ShellTypeOK, TranscriptIsTail
    PROVE  LET text == output \o [i \in 1 .. n |-> written + i]
           IN /\ text \in Seq(Nat)
              /\ Len(text) = Len(output) + n
              /\ \A i \in 1 .. Len(text) : text[i] = base + i
<1> DEFINE more == [i \in 1 .. n |-> written + i]
<1>0. Len(output) \in Nat /\ base \in Nat
  BY LenProperties DEF ShellTypeOK
<1>1. more \in Seq(Nat) /\ Len(more) = n
  BY DEF ShellTypeOK
<1>2. \A i \in 1 .. n : more[i] = base + Len(output) + i
  BY DEF TranscriptIsTail
<1> HIDE DEF more
<1>3. /\ output \o more \in Seq(Nat)
      /\ Len(output \o more) = Len(output) + n
  BY <1>1, ConcatProperties DEF ShellTypeOK
<1>4. ASSUME NEW i \in 1 .. Len(output) + n
      PROVE  (output \o more)[i] = base + i
  <2>1. CASE i <= Len(output)
    <3>1. (output \o more)[i] = output[i]
      BY <1>1, <2>1, ConcatProperties DEF ShellTypeOK
    <3> QED
      BY <2>1, <3>1 DEF TranscriptIsTail, ShellTypeOK
  <2>2. CASE i > Len(output)
    <3>1. (output \o more)[i] = more[i - Len(output)]
      BY <1>1, <2>2, ConcatProperties DEF ShellTypeOK
    <3>2. i - Len(output) \in 1 .. n
      BY <2>2 DEF ShellTypeOK
    <3> QED
      BY <1>2, <3>1, <3>2 DEF ShellTypeOK
  <2>3. i <= Len(output) \/ i > Len(output)
    BY <1>0
  <2> QED
    BY <2>1, <2>2, <2>3
<1> QED
  BY <1>3, <1>4 DEF more

(* What is read in one go is consecutive. *)
LEMMA TailIsConsecutive ==
    ASSUME NEW k \in Nat, k <= Len(output), ShellTypeOK, TranscriptIsTail
    PROVE  LET t == SubSeq(output, k + 1, Len(output))
           IN /\ t \in Seq(Nat)
              /\ Len(t) = Len(output) - k
              /\ Consecutive(t)
              /\ EndsAt(t, written)
              /\ Len(t) > 0 => t[1] = base + k + 1
<1> DEFINE t == SubSeq(output, k + 1, Len(output))
<1>1. /\ t \in Seq(Nat)
      /\ Len(t) = Len(output) - k
      /\ \A i \in 1 .. Len(output) - k : t[i] = output[k + i]
  BY TailOfSequence DEF ShellTypeOK
<1>2. Len(output) \in Nat /\ base \in Nat
  BY LenProperties DEF ShellTypeOK
<1> HIDE DEF t
<1>3. \A i \in 1 .. Len(t) : t[i] = base + k + i
  BY <1>1, <1>2 DEF TranscriptIsTail
<1>4. Consecutive(t)
  <2>1. ASSUME NEW i \in 1 .. Len(t), i < Len(t) PROVE t[i + 1] = t[i] + 1
    <3>1. i + 1 \in 1 .. Len(t)
      BY <1>1, <1>2, <2>1
    <3> QED
      BY <1>2, <1>3, <3>1
  <2> QED
    BY <2>1 DEF Consecutive
<1>5. EndsAt(t, written)
  <2>1. ASSUME Len(t) > 0 PROVE t[Len(t)] = written
    <3>1. Len(t) \in 1 .. Len(t)
      BY <1>1, <1>2, <2>1
    <3>2. t[Len(t)] = base + k + Len(t)
      BY <1>3, <3>1
    <3> QED
      BY <1>1, <1>2, <3>2 DEF TranscriptIsTail
  <2> QED
    BY <2>1 DEF EndsAt
<1>6. Len(t) > 0 => t[1] = base + k + 1
  BY <1>1, <1>2, <1>3
<1> QED
  BY <1>1, <1>4, <1>5, <1>6 DEF t

(* A screen that is consecutive stays so when the next characters are put  *)
(* behind it. *)
LEMMA JoinIsConsecutive ==
    ASSUME NEW s \in Seq(Nat), NEW t \in Seq(Nat), NEW c \in Nat, NEW d \in Nat,
           Consecutive(s), EndsAt(s, c), Consecutive(t), EndsAt(t, d),
           Len(t) > 0 => t[1] = c + 1,
           Len(t) = 0 => d = c
    PROVE  /\ s \o t \in Seq(Nat)
           /\ Consecutive(s \o t)
           /\ EndsAt(s \o t, d)
<1>1. /\ s \o t \in Seq(Nat)
      /\ Len(s \o t) = Len(s) + Len(t)
      /\ \A i \in 1 .. Len(s) + Len(t) :
            (s \o t)[i] = IF i <= Len(s) THEN s[i] ELSE t[i - Len(s)]
  BY ConcatProperties
<1> DEFINE j == s \o t
<1>2. j \in Seq(Nat) /\ Len(j) = Len(s) + Len(t)
  BY <1>1
<1>3. \A i \in 1 .. Len(s) + Len(t) : j[i] = IF i <= Len(s) THEN s[i] ELSE t[i - Len(s)]
  BY <1>1
<1> HIDE DEF j
<1>9. Len(s) \in Nat /\ Len(t) \in Nat
  BY LenProperties
<1>4. ASSUME NEW i \in 1 .. Len(j), i < Len(j)
      PROVE  j[i + 1] = j[i] + 1
  <2>0. i \in 1 .. Len(s) + Len(t) /\ i + 1 \in 1 .. Len(s) + Len(t)
    BY <1>2, <1>4, <1>9
  <2>1. CASE i < Len(s)
    <3>1. j[i] = s[i] /\ j[i + 1] = s[i + 1]
      BY <1>3, <1>9, <2>0, <2>1
    <3> QED
      BY <1>9, <2>0, <2>1, <3>1 DEF Consecutive
  <2>2. CASE i = Len(s)
    <3>0. (i + 1) - Len(s) = 1
      BY <1>9, <2>2
    <3>1. Len(t) > 0 /\ Len(s) > 0 /\ ~(i + 1 <= Len(s))
      BY <1>9, <2>0, <2>2
    <3>2. j[i] = s[i]
      BY <1>3, <1>9, <2>0, <2>2
    <3>3. j[i + 1] = t[(i + 1) - Len(s)]
      BY <1>3, <2>0, <3>1
    <3> QED
      BY <2>2, <3>0, <3>1, <3>2, <3>3 DEF EndsAt
  <2>3. CASE i > Len(s)
    <3>1. i - Len(s) \in 1 .. Len(t) /\ i - Len(s) < Len(t)
      BY <1>9, <2>0, <2>3
    <3>2. t[(i - Len(s)) + 1] = t[i - Len(s)] + 1
      BY <3>1 DEF Consecutive
    <3>3. (i + 1) - Len(s) = (i - Len(s)) + 1
      BY <1>9, <2>0
    <3>4. j[i] = t[i - Len(s)] /\ j[i + 1] = t[(i - Len(s)) + 1]
      BY <1>3, <1>9, <2>0, <2>3, <3>3
    <3> QED
      BY <3>2, <3>4
  <2> QED
    BY <1>9, <2>0, <2>1, <2>2, <2>3
<1>5. EndsAt(j, d)
  <2>1. CASE Len(t) > 0
    <3>1. /\ Len(j) \in 1 .. Len(s) + Len(t)
          /\ Len(j) > Len(s)
          /\ Len(j) - Len(s) = Len(t)
      BY <1>2, <1>9, <2>1
    <3>2. j[Len(j)] = t[Len(t)]
      BY <1>3, <1>9, <3>1
    <3> QED
      BY <2>1, <3>2 DEF EndsAt
  <2>2. CASE Len(t) = 0
    <3>1. Len(j) = Len(s) /\ (Len(j) > 0 => j[Len(j)] = s[Len(s)])
      BY <1>2, <1>3, <1>9, <2>2
    <3> QED
      BY <2>2, <3>1 DEF EndsAt
  <2> QED
    BY <1>9, <2>1, <2>2
<1> QED
  BY <1>2, <1>4, <1>5 DEF j, Consecutive

(* The invariant holds before the first view opens. *)
LEMMA ShellInvInitial == ShellInit => ShellInv
  BY ShellAssumption
  DEF ShellInit, ShellInv, ShellTypeOK, TranscriptIsTail, CursorsAreBehind,
      ScreensAreConsecutive, RunningShellIsCurrent, Consecutive, EndsAt

(* A snapshot leaves the page of v with consecutive characters that end at *)
(* its new cursor. *)
LEMMA SnapshotIsConsecutive ==
    ASSUME NEW v \in ShellViews, ShellInv
    PROVE  /\ Shown(v) \in Seq(Nat)
           /\ Consecutive(Shown(v))
           /\ EndsAt(Shown(v), written)
           /\ EndCursor = written
<1> USE DEF ShellInv
<1>1. EndCursor = written
  BY DEF EndCursor, TranscriptIsTail
<1>2. CASE Resets(cursor[v])
  <2>1. Seen(cursor[v]) = 0
    BY <1>2 DEF Seen
  <2>2. Shown(v) = SubSeq(output, 0 + 1, Len(output))
    BY <1>2, <2>1 DEF Shown, Unread
  <2>3. 0 \in Nat /\ 0 <= Len(output)
    BY LenProperties DEF ShellTypeOK
  <2> QED
    BY <1>1, <2>2, <2>3, TailIsConsecutive
<1>3. CASE ~Resets(cursor[v])
  <2> DEFINE k == cursor[v] - base
             t == SubSeq(output, k + 1, Len(output))
  <2>1. /\ k \in Nat /\ k <= Len(output)
        /\ cursor[v] \in Nat /\ cursor[v] # NoCursor
        /\ cursor[v] = base + k
    BY <1>3 DEF Resets, EndCursor, ShellTypeOK
  <2>2. Shown(v) = screen[v] \o t
    BY <1>3 DEF Shown, Unread, Seen
  <2>3. /\ t \in Seq(Nat) /\ Len(t) = Len(output) - k
        /\ Consecutive(t) /\ EndsAt(t, written)
        /\ Len(t) > 0 => t[1] = base + k + 1
    BY <2>1, TailIsConsecutive
  <2> HIDE DEF t, k
  <2>4. Len(t) = 0 => written = cursor[v]
    BY <2>1, <2>3 DEF TranscriptIsTail, ShellTypeOK
  <2>5. /\ screen[v] \in Seq(Nat) /\ written \in Nat
        /\ Consecutive(screen[v]) /\ EndsAt(screen[v], cursor[v])
    BY <2>1 DEF ShellTypeOK, ScreensAreConsecutive
  <2> QED
    BY <1>1, <2>1, <2>2, <2>3, <2>4, <2>5, JoinIsConsecutive
<1> QED
  BY <1>2, <1>3

(* Every step keeps the invariant. *)
LEMMA ShellInvInductive == ShellInv /\ [ShellNext]_shellVars => ShellInv'
<1> SUFFICES ASSUME ShellInv, [ShellNext]_shellVars PROVE ShellInv'
  OBVIOUS
<1> USE ShellAssumption
<1>1. CASE OpenShell
  <2>1. ShellTypeOK'
    BY <1>1 DEF OpenShell, StartLocked, ShellInv, ShellTypeOK, ShellRecords
  <2>2. RunningShellIsCurrent'
    <3>1. /\ shells \in Seq(ShellRecords)
          /\ shells' = Append(shells, [alive |-> TRUE, reader |-> "reading"])
          /\ current' = Len(shells) + 1
      BY <1>1 DEF OpenShell, StartLocked, ShellInv, ShellTypeOK
    <3>2. \A s \in DOMAIN shells : ~shells[s].alive
      BY <1>1, <3>1 DEF OpenShell, StartLocked, Active, ShellInv, RunningShellIsCurrent
    <3> QED
      BY <3>1, <3>2 DEF RunningShellIsCurrent, ShellRecords
  <2> QED
    BY <1>1, <2>1, <2>2
    DEF OpenShell, ShellInv, TranscriptIsTail, CursorsAreBehind, ScreensAreConsecutive
<1>2. ASSUME NEW s \in DOMAIN shells, ShellEnds(s) PROVE ShellInv'
  <2> DEFINE r == [alive |-> FALSE, reader |-> shells[s].reader]
  <2>1. /\ r \in ShellRecords /\ ~r.alive
        /\ shells' = [shells EXCEPT ![s] = r]
    <3>1. shells[s] \in ShellRecords
      BY DEF ShellInv, ShellTypeOK
    <3> QED
      BY <1>2, <3>1 DEF ShellEnds, ShellRecords
  <2> HIDE DEF r
  <2>2. /\ shells' \in Seq(ShellRecords)
        /\ DOMAIN shells' = DOMAIN shells /\ Len(shells') = Len(shells)
        /\ \A t \in DOMAIN shells : shells'[t] = IF t = s THEN r ELSE shells[t]
    BY <2>1 DEF ShellInv, ShellTypeOK
  <2>3. ShellTypeOK'
    BY <1>2, <2>2 DEF ShellEnds, ShellInv, ShellTypeOK
  <2>4. RunningShellIsCurrent'
    BY <1>2, <2>1, <2>2 DEF ShellEnds, ShellInv, RunningShellIsCurrent
  <2> QED
    BY <1>2, <2>3, <2>4
    DEF ShellEnds, ShellInv, TranscriptIsTail, CursorsAreBehind, ScreensAreConsecutive
<1>3. ASSUME NEW s \in DOMAIN shells, NEW n \in 1 .. 2, ReadOutput(s, n) PROVE ShellInv'
  <2> DEFINE text == output \o [i \in 1 .. n |-> written + i]
             over == Overflow(text)
  <2>1. /\ text \in Seq(Nat)
        /\ \A i \in 1 .. Len(text) : text[i] = base + i
        /\ Len(text) = Len(output) + n
    <3>1. n \in Nat
      OBVIOUS
    <3> QED
      BY <3>1, AppendedIsTail DEF ShellInv
  <2>2. /\ output' = SubSeq(text, over + 1, Len(text))
        /\ base' = base + over
        /\ written' = written + n
    BY <1>3 DEF ReadOutput, Transcript
  <2>3. over \in Nat /\ over <= Len(text) /\ Len(text) - over <= MaxOutput
    <3> HIDE DEF text
    <3> QED
      BY <2>1 DEF Overflow
  <2> HIDE DEF text, over
  <2>4. /\ output' \in Seq(Nat)
        /\ Len(output') = Len(text) - over
        /\ \A i \in 1 .. Len(text) - over : output'[i] = text[over + i]
    BY <2>1, <2>2, <2>3, TailOfSequence
  <2>5. ShellTypeOK'
    BY <1>3, <2>2, <2>3, <2>4 DEF ReadOutput, ShellInv, ShellTypeOK
  <2>6. TranscriptIsTail'
    <3>0. Len(output) \in Nat /\ base \in Nat
      BY LenProperties DEF ShellInv, ShellTypeOK
    <3>9. base + Len(output) = written
      BY DEF ShellInv, TranscriptIsTail
    <3>8. Len(text) = Len(output) + n /\ Len(output') = Len(text) - over
      BY <2>1, <2>4
    <3>7. base' = base + over /\ written' = written + n /\ over \in Nat
      BY <2>2, <2>3
    <3>1. base' + Len(output') = written'
      BY <3>0, <3>7, <3>8, <3>9
    <3>2. ASSUME NEW i \in 1 .. Len(output') PROVE output'[i] = base' + i
      BY <2>1, <2>2, <2>3, <2>4 DEF ShellInv, ShellTypeOK
    <3> QED
      BY <3>1, <3>2 DEF TranscriptIsTail
  <2>7. CursorsAreBehind'
    BY <1>3, <2>2 DEF ReadOutput, ShellInv, ShellTypeOK, CursorsAreBehind
  <2> QED
    BY <1>3, <2>5, <2>6, <2>7
    DEF ReadOutput, ShellInv, ScreensAreConsecutive, RunningShellIsCurrent
<1>4. ASSUME NEW s \in DOMAIN shells, PtyCloses(s) PROVE ShellInv'
  <2> DEFINE r == [alive |-> shells[s].alive, reader |-> "waiting"]
  <2>1. /\ r \in ShellRecords /\ r.alive = shells[s].alive
        /\ shells' = [shells EXCEPT ![s] = r]
    <3>1. shells[s] \in ShellRecords
      BY DEF ShellInv, ShellTypeOK
    <3> QED
      BY <1>4, <3>1 DEF PtyCloses, ShellRecords
  <2> HIDE DEF r
  <2>2. /\ shells' \in Seq(ShellRecords)
        /\ DOMAIN shells' = DOMAIN shells /\ Len(shells') = Len(shells)
        /\ \A t \in DOMAIN shells : shells'[t] = IF t = s THEN r ELSE shells[t]
    BY <2>1 DEF ShellInv, ShellTypeOK
  <2>3. ShellTypeOK'
    BY <1>4, <2>2 DEF PtyCloses, ShellInv, ShellTypeOK
  <2>4. RunningShellIsCurrent'
    BY <1>4, <2>1, <2>2 DEF PtyCloses, ShellInv, RunningShellIsCurrent
  <2> QED
    BY <1>4, <2>3, <2>4
    DEF PtyCloses, ShellInv, TranscriptIsTail, CursorsAreBehind, ScreensAreConsecutive
<1>5. ASSUME NEW s \in DOMAIN shells, ReaderEnds(s) PROVE ShellInv'
  <2> DEFINE r == [alive |-> FALSE, reader |-> "ended"]
  <2>1. /\ r \in ShellRecords /\ ~r.alive
        /\ shells' = [shells EXCEPT ![s] = r]
    BY <1>5 DEF ReaderEnds, ShellInv, ShellTypeOK, ShellRecords
  <2> HIDE DEF r
  <2>2. /\ shells' \in Seq(ShellRecords)
        /\ DOMAIN shells' = DOMAIN shells /\ Len(shells') = Len(shells)
        /\ \A t \in DOMAIN shells : shells'[t] = IF t = s THEN r ELSE shells[t]
    BY <2>1 DEF ShellInv, ShellTypeOK
  <2>3. ShellTypeOK'
    BY <1>5, <2>2 DEF ReaderEnds, Forgotten, ShellInv, ShellTypeOK
  <2>4. RunningShellIsCurrent'
    BY <1>5, <2>1, <2>2 DEF ReaderEnds, Forgotten, ShellInv, RunningShellIsCurrent
  <2> QED
    BY <1>5, <2>3, <2>4
    DEF ReaderEnds, ShellInv, TranscriptIsTail, CursorsAreBehind, ScreensAreConsecutive
<1>6. CASE ServerClears
  <2>1. ShellTypeOK'
    BY <1>6 DEF ServerClears, EndCursor, ShellInv, ShellTypeOK
  <2>2. TranscriptIsTail'
    BY <1>6 DEF ServerClears, EndCursor, ShellInv, ShellTypeOK, TranscriptIsTail
  <2> QED
    BY <1>6, <2>1, <2>2
    DEF ServerClears, ShellInv, CursorsAreBehind, ScreensAreConsecutive, RunningShellIsCurrent
<1>7. ASSUME NEW v \in ShellViews, PageClears(v) PROVE ShellInv'
  <2>1. ShellTypeOK'
    BY <1>7 DEF PageClears, ShellInv, ShellTypeOK
  <2>2. ScreensAreConsecutive'
    BY <1>7 DEF PageClears, ShellInv, ShellTypeOK, ScreensAreConsecutive, Consecutive, EndsAt
  <2> QED
    BY <1>7, <2>1, <2>2
    DEF PageClears, ShellInv, TranscriptIsTail, CursorsAreBehind, RunningShellIsCurrent
<1>8. ASSUME NEW v \in ShellViews, SendSnapshot(v) PROVE ShellInv'
  <2>1. /\ Shown(v) \in Seq(Nat)
        /\ Consecutive(Shown(v))
        /\ EndsAt(Shown(v), written)
        /\ EndCursor = written
    BY SnapshotIsConsecutive
  <2>2. /\ screen' = [screen EXCEPT ![v] = Shown(v)]
        /\ cursor' = [cursor EXCEPT ![v] = written]
        /\ UNCHANGED <<output, base, written, current, shells>>
    BY <1>8, <2>1 DEF SendSnapshot
  <2>3. ShellTypeOK'
    BY <2>1, <2>2 DEF ShellInv, ShellTypeOK
  <2>4. CursorsAreBehind'
    BY <2>2 DEF ShellInv, ShellTypeOK, CursorsAreBehind
  <2>5. ScreensAreConsecutive'
    BY <2>1, <2>2 DEF ShellInv, ShellTypeOK, ScreensAreConsecutive
  <2> QED
    BY <2>2, <2>3, <2>4, <2>5 DEF ShellInv, TranscriptIsTail, RunningShellIsCurrent
<1>9. ASSUME NEW v \in ShellViews, Reconnect(v) PROVE ShellInv'
  <2>1. ShellTypeOK' /\ CursorsAreBehind'
    BY <1>9 DEF Reconnect, ShellInv, ShellTypeOK, CursorsAreBehind
  <2>2. ScreensAreConsecutive'
    BY <1>9 DEF Reconnect, ShellInv, ShellTypeOK, ScreensAreConsecutive
  <2> QED
    BY <1>9, <2>1, <2>2 DEF Reconnect, ShellInv, TranscriptIsTail, RunningShellIsCurrent
<1>10. CASE UNCHANGED shellVars
  BY <1>10
  DEF shellVars, ShellInv, ShellTypeOK, TranscriptIsTail, CursorsAreBehind,
      ScreensAreConsecutive, RunningShellIsCurrent
<1> QED
  BY <1>1, <1>2, <1>3, <1>4, <1>5, <1>6, <1>7, <1>8, <1>9, <1>10 DEF ShellNext

(* Whatever is read, cleared, started and reconnected, the invariant holds.*)
LEMMA ShellInvHolds == ShellSpec => []ShellInv
  BY ShellInvInitial, ShellInvInductive, PTL DEF ShellSpec

(* No page of the terminal shows a gap or a repetition in the output of    *)
(* the shell, for any number of pages and any size of the transcript       *)
(* (TerminalShell.snapshot and _send_shell_output). *)
THEOREM ShellScreensAreContiguous == ShellSpec => []ScreenIsContiguous
<1>1. ASSUME ShellInv PROVE ScreenIsContiguous
  <2>1. ASSUME NEW v \in ShellViews, NEW i \in DOMAIN screen[v]
        PROVE  /\ i < Len(screen[v]) => screen[v][i + 1] = screen[v][i] + 1
               /\ i = Len(screen[v]) /\ cursor[v] # NoCursor => screen[v][i] = cursor[v]
    <3>1. DOMAIN screen[v] = 1 .. Len(screen[v]) /\ Len(screen[v]) \in Nat
      BY <1>1, LenProperties DEF ShellInv, ShellTypeOK
    <3> QED
      BY <1>1, <3>1 DEF ShellInv, ScreensAreConsecutive, Consecutive, EndsAt
  <2> QED
    BY <2>1 DEF ScreenIsContiguous
<1> QED
  BY <1>1, ShellInvHolds, PTL

(* A shell that runs is never forgotten by the thread of an earlier one,   *)
(* and never has a second one beside it (TerminalShell._read_output). *)
THEOREM ShellIsNotForgotten == ShellSpec => []RunningShellIsCurrent
<1>1. ShellInv => RunningShellIsCurrent
  BY DEF ShellInv
<1> QED
  BY <1>1, ShellInvHolds, PTL
=============================================================================
