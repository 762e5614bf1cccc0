----------------------------- MODULE MCTerminal -----------------------------
(***************************************************************************)
(* Instances of AgentSession and TerminalShell for TLC.                    *)
(*                                                                         *)
(* The agent and the shell of a terminal share no state, so one behaviour  *)
(* of this module follows one of them.                                     *)
(***************************************************************************)
EXTENDS AgentSession, TerminalShell

VARIABLE part

terminalVars == <<agentVars, shellVars, part>>

Init ==
    /\ AgentInit
    /\ ShellInit
    /\ part \in {"agent", "shell"}

Next ==
    \/ part = "agent" /\ AgentNext /\ UNCHANGED <<shellVars, part>>
    \/ part = "shell" /\ ShellNext /\ UNCHANGED <<agentVars, part>>

Spec == Init /\ [][Next]_terminalVars

(* The state of both is well formed. *)
TypeOK == AgentTypeOK /\ ShellTypeOK
=============================================================================
