---------------------------- MODULE TerminalShell ----------------------------
(***************************************************************************)
(* The terminal's one interactive shell and the views attached to it.      *)
(*                                                                         *)
(* The shell is started when a view needs one and none is running.  A      *)
(* thread per started shell reads its PTY, and appends to one transcript   *)
(* that keeps the last MaxOutput characters.  A view remembers how far it  *)
(* has read as a cursor into everything that was ever written.             *)
(*                                                                         *)
(* A character is its place in that stream.  A program the shell has left  *)
(* behind may write after the shell itself has ended, so the thread of an  *)
(* old shell may run beside the thread of the next one.                    *)
(***************************************************************************)
EXTENDS Naturals, Sequences

CONSTANTS
    ShellViews,  \* web sockets of open terminal pages
    NoCursor,    \* a connection that has not been sent anything
    MaxOutput,   \* MAX_OUTPUT_CHARS
    MaxWritten,  \* bound: characters written in all
    MaxShells    \* bound: shells started in all

ASSUME ShellAssumption ==
    /\ MaxOutput \in Nat \ {0}
    /\ MaxWritten \in Nat
    /\ MaxShells \in Nat
    /\ NoCursor \notin Nat

VARIABLES
    output,      \* the characters kept
    base,        \* _base_cursor
    written,     \* how many characters were ever written
    current,     \* _process: the number of a started shell, or 0
    shells,      \* for each started shell, whether it lives, and its thread
    cursor,      \* view -> its cursor
    screen       \* view -> the characters its page shows

shellVars == <<output, base, written, current, shells, cursor, screen>>

ShellRecords == [alive : BOOLEAN, reader : {"reading", "waiting", "ended"}]

ShellTypeOK ==
    /\ output \in Seq(Nat)
    /\ Len(output) <= MaxOutput
    /\ base \in Nat
    /\ written \in Nat
    /\ shells \in Seq(ShellRecords)
    /\ current \in 0 .. Len(shells)
    /\ cursor \in [ShellViews -> Nat \cup {NoCursor}]
    /\ screen \in [ShellViews -> Seq(Nat)]

ShellInit ==
    /\ output = <<>>
    /\ base = 0
    /\ written = 0
    /\ current = 0
    /\ shells = <<>>
    /\ cursor = [v \in ShellViews |-> NoCursor]
    /\ screen = [v \in ShellViews |-> <<>>]

(* The cursor of a reader that has read everything. *)
EndCursor == base + Len(output)

(* _active_locked. *)
Active == current # 0 /\ shells[current].alive

(* The process, its PTY and the thread that reads it. *)
StartLocked ==
    /\ ~Active
    /\ Len(shells) < MaxShells
    /\ shells' = Append(shells, [alive |-> TRUE, reader |-> "reading"])
    /\ current' = Len(shells) + 1

(* A view opens the shell panel, or runs a command in it: a shell that is  *)
(* not running is started.  What the shell does with its input is its      *)
(* output. *)
OpenShell ==
    /\ StartLocked
    /\ UNCHANGED <<output, base, written, cursor, screen>>

(* It exits by itself, or from the SIGHUP of close. *)
ShellEnds(s) ==
    /\ shells[s].alive
    /\ shells' = [shells EXCEPT ![s] = [alive |-> FALSE, reader |-> @.reader]]
    /\ UNCHANGED <<output, base, written, current, cursor, screen>>

(* How much of a text is dropped from its front. *)
Overflow(text) == IF Len(text) > MaxOutput THEN Len(text) - MaxOutput ELSE 0

\* Mutant of Transcript: the characters dropped are not counted.
TranscriptUncounted(text) ==
    /\ output' = SubSeq(text, Overflow(text) + 1, Len(text))
    /\ UNCHANGED base

(* The transcript becomes the last MaxOutput characters of a text. *)
Transcript(text) ==
    /\ output' = SubSeq(text, Overflow(text) + 1, Len(text))
    /\ base' = base + Overflow(text)

(* The thread of shell s has read n characters, and appends them. *)
ReadOutput(s, n) ==
    /\ shells[s].reader = "reading"
    /\ written + n <= MaxWritten
    /\ Transcript(output \o [i \in 1 .. n |-> written + i])
    /\ written' = written + n
    /\ UNCHANGED <<current, shells, cursor, screen>>

(* Nothing holds the PTY open any more: the thread waits for the process.  *)
PtyCloses(s) ==
    /\ shells[s].reader = "reading"
    /\ shells' = [shells EXCEPT ![s] = [alive |-> @.alive, reader |-> "waiting"]]
    /\ UNCHANGED <<output, base, written, current, cursor, screen>>

\* Mutant of Forgotten: whichever shell is the current one is forgotten.
ForgottenAlways(s) == 0

(* The current shell once the thread of s has ended: only its own process  *)
(* is forgotten. *)
Forgotten(s) == IF current = s THEN 0 ELSE current

(* process.wait has returned. *)
ReaderEnds(s) ==
    /\ shells[s].reader = "waiting"
    /\ ~shells[s].alive
    /\ shells' = [shells EXCEPT ![s] = [alive |-> FALSE, reader |-> "ended"]]
    /\ current' = Forgotten(s)
    /\ UNCHANGED <<output, base, written, cursor, screen>>

(* The Clear button of view v: the page clears its screen and asks for a   *)
(* clear. *)
PageClears(v) ==
    /\ cursor[v] # NoCursor
    /\ screen' = [screen EXCEPT ![v] = <<>>]
    /\ UNCHANGED <<output, base, written, current, shells, cursor>>

(* clear, on the server. *)
ServerClears ==
    /\ output # <<>>
    /\ output' = <<>>
    /\ base' = EndCursor
    /\ UNCHANGED <<written, current, shells, cursor, screen>>

(* A snapshot for cursor c starts over. *)
Resets(c) == c = NoCursor \/ c < base \/ c > EndCursor

(* What a snapshot for cursor c leaves out of the transcript. *)
Seen(c) == IF Resets(c) THEN 0 ELSE c - base

(* The output of that snapshot. *)
Unread(c) == SubSeq(output, Seen(c) + 1, Len(output))

(* What the page of v shows after a snapshot. *)
Shown(v) ==
    IF Resets(cursor[v]) THEN Unread(cursor[v]) ELSE screen[v] \o Unread(cursor[v])

(* _send_shell_output takes a snapshot, sends it and remembers the cursor. *)
(* It waits for a change, or half a second.  Taking and showing a snapshot *)
(* is one step: nothing the page sends depends on what it shows. *)
SendSnapshot(v) ==
    /\ screen' = [screen EXCEPT ![v] = Shown(v)]
    /\ cursor' = [cursor EXCEPT ![v] = EndCursor]
    /\ UNCHANGED <<output, base, written, current, shells>>

(* The socket closes and the page connects again; its screen is kept. *)
Reconnect(v) ==
    /\ cursor[v] # NoCursor
    /\ cursor' = [cursor EXCEPT ![v] = NoCursor]
    /\ UNCHANGED <<output, base, written, current, shells, screen>>

ShellNext ==
    \/ OpenShell
    \/ \E s \in DOMAIN shells :
          \/ ShellEnds(s)
          \/ \E n \in 1 .. 2 : ReadOutput(s, n)
          \/ PtyCloses(s)
          \/ ReaderEnds(s)
    \/ ServerClears
    \/ \E v \in ShellViews : PageClears(v) \/ SendSnapshot(v) \/ Reconnect(v)

ShellSpec == ShellInit /\ [][ShellNext]_shellVars

-----------------------------------------------------------------------------
(* Properties.                                                             *)

(* A page shows consecutive characters up to its cursor: none is missing   *)
(* in the middle and none is there twice, through trims, clears by any     *)
(* page, new shells and reconnections. *)
ScreenIsContiguous ==
    \A v \in ShellViews : \A i \in DOMAIN screen[v] :
        /\ i < Len(screen[v]) => screen[v][i + 1] = screen[v][i] + 1
        /\ i = Len(screen[v]) /\ cursor[v] # NoCursor => screen[v][i] = cursor[v]

(* A shell that runs is the one that input, interrupt and close go to: no  *)
(* thread of an earlier shell makes the terminal forget it, and no second  *)
(* one is started beside it. *)
RunningShellIsCurrent == \A s \in DOMAIN shells : shells[s].alive => current = s
=============================================================================
