--------------------------- MODULE FleetWorkloads ---------------------------
(***************************************************************************)
(* Commands run on rented machines: a remote process started over SSH, the *)
(* exit code it leaves in a file there, and a row of the ledger that says  *)
(* how it is.  The CLI and the terminal's monitor thread read a row, ask   *)
(* the machine, and write the whole row back.                              *)
(***************************************************************************)
EXTENDS FleetHosts

CONSTANTS
    Works,      \* workloads, by workload_id
    Workers,    \* what starts, inspects or stops workloads
    MonitorOf,  \* machine -> the worker that polls it for the terminal
    NoWork,     \* no workload
    HostOf      \* workload -> the machine it is started on

ASSUME WorksAssumption ==
    /\ NoWork \notin Works
    /\ MonitorOf \in [Hosts -> Workers]
    /\ \A g, h \in Hosts : MonitorOf[g] = MonitorOf[h] => g = h
    /\ HostOf \in [Works -> Hosts]

VARIABLES
    process,    \* workload -> its process on the machine
    row,        \* workload -> workload_runs.state, "absent" when no row
    worker,     \* worker -> program counter and locals
    polling,    \* the monitor's thread is alive
    due,        \* machines the poll under way has still to take up
    rest        \* machine -> workloads refresh_host has still to inspect

pollVars == <<polling, due, rest>>
workVars == <<process, row, worker, pollVars>>
vars == <<hostVars, workVars>>

Final == {"succeeded", "failed", "stopped"}
RowStates == {"absent", "running", "unknown"} \cup Final

(* exit0, exit1: the exit_code file says so; vanished: killed before it    *)
(* could write the file. *)
ProcessStates == {"none", "running", "exit0", "exit1", "vanished"}

WorkerSteps == {"idle", "launch", "insert", "observe", "probe", "kill", "update", "logs"}

TypeOK ==
    /\ HostsTypeOK
    /\ process \in [Works -> ProcessStates]
    /\ row \in [Works -> RowStates]
    /\ worker \in [Workers -> [pc : WorkerSteps, work : Works \cup {NoWork}, verdict : RowStates]]
    /\ polling \in BOOLEAN
    /\ due \in SUBSET Hosts
    /\ rest \in [Hosts -> SUBSET Works]

Free == [pc |-> "idle", work |-> NoWork, verdict |-> "absent"]

Init ==
    /\ HostsInit
    /\ process = [w \in Works |-> "none"]
    /\ row = [w \in Works |-> "absent"]
    /\ worker = [k \in Workers |-> Free]
    /\ polling = TRUE
    /\ due = {}
    /\ rest = [h \in Hosts |-> {}]

Monitors == {MonitorOf[h] : h \in Hosts}

Does(k, step) == worker[k].pc = step

(* Worker k takes up `step` for workload w, with verdict v to write. *)
Turn(k, step, w, v) ==
    worker' = [worker EXCEPT ![k] = [pc |-> step, work |-> w, verdict |-> v]]

Finish(k) == worker' = [worker EXCEPT ![k] = Free]

(* SSH to the machine of w gets through: hosts.json knows its endpoint. *)
Reachable(w) ==
    /\ file[HostOf[w]] \in {"running", "unknown"}
    /\ instance[HostOf[w]] = "active"

-----------------------------------------------------------------------------
(* start.                                                                  *)

(* _running_machine; the workload_id is fresh. *)
Start(k, w) ==
    /\ Does(k, "idle")
    /\ k \notin Monitors
    /\ file[HostOf[w]] = "running"
    /\ process[w] = "none"
    /\ \A j \in Workers : worker[j].work # w
    /\ Turn(k, "launch", w, "running")
    /\ UNCHANGED <<hostVars, process, row, pollVars>>

(* The remote shell puts the process in the background.  When the answer   *)
(* is lost start raises, and the process has no row: that is WorkerDies. *)
LaunchProcess(k) ==
    /\ Does(k, "launch")
    /\ instance[HostOf[worker[k].work]] = "active"
    /\ process' = [process EXCEPT ![worker[k].work] = "running"]
    /\ Turn(k, "insert", worker[k].work, "running")
    /\ UNCHANGED <<hostVars, row, pollVars>>

RecordWorkload(k) ==
    /\ Does(k, "insert")
    /\ row' = [row EXCEPT ![worker[k].work] = "running"]
    /\ Finish(k)
    /\ UNCHANGED <<hostVars, process, pollVars>>

-----------------------------------------------------------------------------
(* inspect.                                                                *)

\* Mutant of InFlight: a row that became unknown is left alone.
InFlightKnown(w) == row[w] = "running"

InFlight(w) == row[w] \in {"running", "unknown"}

(* fleet workload show; a final row is returned as it is. *)
Inspect(k, w) ==
    /\ Does(k, "idle")
    /\ k \notin Monitors
    /\ InFlight(w)
    /\ Turn(k, "observe", w, "absent")
    /\ UNCHANGED <<hostVars, process, row, pollVars>>

Verdict(p) == IF p = "exit0" THEN "succeeded" ELSE "failed"

(* _status_script looks for the exit_code file ... *)
Observe(k) ==
    LET w == worker[k].work
    IN  /\ Does(k, "observe")
        /\ Reachable(w)
        /\ IF process[w] \in {"exit0", "exit1"}
           THEN Turn(k, "update", w, Verdict(process[w]))
           ELSE Turn(k, "probe", w, "absent")
        /\ UNCHANGED <<hostVars, process, row, pollVars>>

(* ... and then for the process, which may have ended in between. *)
Probe(k) ==
    LET w == worker[k].work
    IN  /\ Does(k, "probe")
        /\ instance[HostOf[w]] = "active"
        /\ Turn(k, "update", w, IF process[w] = "running" THEN "running" ELSE "unknown")
        /\ UNCHANGED <<hostVars, process, row, pollVars>>

(* update_workload replaces the row, whatever it has become. *)
UpdateWorkload(k) ==
    LET w == worker[k].work
        v == worker[k].verdict
    IN  /\ Does(k, "update")
        /\ row' = [row EXCEPT ![w] = v]
        /\ IF v \in Final THEN Turn(k, "logs", w, v) ELSE Finish(k)
        /\ UNCHANGED <<hostVars, process, pollVars>>

SyncLogs(k) ==
    /\ Does(k, "logs")
    /\ Finish(k)
    /\ UNCHANGED <<hostVars, process, row, pollVars>>

(* The logs cannot be fetched: the row is replaced a second time. *)
LogSyncFails(k) ==
    /\ Does(k, "logs")
    /\ row' = [row EXCEPT ![worker[k].work] = worker[k].verdict]
    /\ Finish(k)
    /\ UNCHANGED <<hostVars, process, pollVars>>

-----------------------------------------------------------------------------
(* stop, and the end of a workload.                                        *)

Stop(k, w) ==
    /\ Does(k, "idle")
    /\ k \notin Monitors
    /\ InFlight(w)
    /\ Turn(k, "kill", w, "stopped")
    /\ UNCHANGED <<hostVars, process, row, pollVars>>

\* Mutant of Kill: the process group is asked to end, and not waited for.
KillWithoutWaiting(k) ==
    /\ Does(k, "kill")
    /\ Reachable(worker[k].work)
    /\ \E p \in {process[worker[k].work], "exit1"} :
          process' = [process EXCEPT ![worker[k].work] = IF @ = "running" THEN p ELSE @]
    /\ Turn(k, "update", worker[k].work, "stopped")
    /\ UNCHANGED <<hostVars, row, pollVars>>

(* SIGTERM, whose trap exits with 143, and after five seconds SIGKILL. *)
Kill(k) ==
    LET w == worker[k].work
    IN  /\ Does(k, "kill")
        /\ Reachable(w)
        /\ \E p \in {"exit1", "vanished"} :
              process' = [process EXCEPT ![w] = IF @ = "running" THEN p ELSE @]
        /\ Turn(k, "update", w, "stopped")
        /\ UNCHANGED <<hostVars, row, pollVars>>

(* SSH fails or times out, the command is killed, or a call raises; what   *)
(* the monitor skips then is the last part of its poll. *)
WorkerDies(k) ==
    /\ k \notin Monitors
    /\ ~Does(k, "idle")
    /\ Finish(k)
    /\ UNCHANGED <<hostVars, process, row, pollVars>>

(* The command ends, or the machine's kernel kills it. *)
Exit(w) ==
    /\ process[w] = "running"
    /\ instance[HostOf[w]] = "active"
    /\ \E p \in {"exit0", "exit1", "vanished"} : process' = [process EXCEPT ![w] = p]
    /\ UNCHANGED <<hostVars, row, worker, pollVars>>

(* The last step of a termination. *)
StopHostWorkloads(c) ==
    /\ StopRows(c)
    /\ row' = [w \in Works |->
          IF HostOf[w] = command[c].host /\ InFlight(w) THEN "stopped" ELSE row[w]]
    /\ UNCHANGED <<process, worker, pollVars>>

-----------------------------------------------------------------------------
(* The monitor: poll_once, a thread per host, and refresh_host in it.      *)

Polled(h) == h \notin due /\ rest[h] = {} /\ Does(MonitorOf[h], "idle")

(* Every five seconds, once all hosts are through: the running machines    *)
(* that hosts.json lists. *)
Poll ==
    /\ polling
    /\ \A h \in Hosts : Polled(h)
    /\ due' = {h \in Hosts : file[h] = "running"}
    /\ UNCHANGED <<hostVars, process, row, worker, polling, rest>>

(* hosts.json cannot be read, so that poll_once raises and the thread      *)
(* ends; or the terminal is closed. *)
PollRaises ==
    /\ polling
    /\ \A h \in Hosts : Polled(h)
    /\ polling' = FALSE
    /\ UNCHANGED <<hostVars, process, row, worker, due, rest>>

(* service.monitor has inspected the machine; its workloads come next. *)
PollHost(h) ==
    /\ h \in due
    /\ instance[h] = "active"
    /\ due' = due \ {h}
    /\ rest' = [rest EXCEPT ![h] = {w \in Works : HostOf[w] = h /\ InFlight(w)}]
    /\ UNCHANGED <<hostVars, process, row, worker, polling>>

(* It raised: the workloads are not looked at in this poll. *)
SkipHost(h) ==
    /\ h \in due
    /\ due' = due \ {h}
    /\ UNCHANGED <<hostVars, process, row, worker, polling, rest>>

(* inspect for the next of them, unless its row is final by now. *)
InspectNext(h, w) ==
    /\ w \in rest[h]
    /\ Does(MonitorOf[h], "idle")
    /\ rest' = [rest EXCEPT ![h] = @ \ {w}]
    /\ IF InFlight(w)
       THEN Turn(MonitorOf[h], "observe", w, "absent")
       ELSE UNCHANGED worker
    /\ UNCHANGED <<hostVars, process, row, polling, due>>

(* SSH or the ledger fails: refresh_host goes on after an error, and a     *)
(* time-out ends it for this poll, with the workloads it has not reached. *)
InspectFails(h) ==
    /\ ~Does(MonitorOf[h], "idle")
    /\ Finish(MonitorOf[h])
    /\ rest' = rest \/ rest' = [rest EXCEPT ![h] = {}]
    /\ UNCHANGED <<hostVars, process, row, polling, due>>

-----------------------------------------------------------------------------
WorkerStep(k) ==
    \/ LaunchProcess(k)
    \/ RecordWorkload(k)
    \/ Observe(k)
    \/ Probe(k)
    \/ UpdateWorkload(k)
    \/ SyncLogs(k)
    \/ LogSyncFails(k)
    \/ Kill(k)

HostPoll(h) == PollHost(h) \/ SkipHost(h) \/ \E w \in rest[h] : InspectNext(h, w)

PollNext == Poll \/ PollRaises \/ \E h \in Hosts : HostPoll(h) \/ InspectFails(h)

WorkNext ==
    \/ \E k \in Workers :
          \/ \E w \in Works : Start(k, w) \/ Inspect(k, w) \/ Stop(k, w)
          \/ WorkerStep(k)
          \/ WorkerDies(k)
    \/ \E w \in Works : Exit(w)
    \/ PollNext

NextOfAll ==
    \/ HostsNext /\ UNCHANGED workVars
    \/ WorkNext
    \/ \E c \in Commands : StopHostWorkloads(c)

FleetSpec == Init /\ [][NextOfAll]_vars

(* The monitor's loop goes on while its thread lives, for each of its      *)
(* calls ends or times out.  Of the machine and the ledger it is assumed   *)
(* that they do not fail for ever: what is asked again and again of a      *)
(* machine that is up is answered again and again. *)
FairFleet ==
    /\ FleetSpec
    /\ WF_vars(Poll)
    /\ \A h \in Hosts :
          /\ WF_vars(HostPoll(h) \/ WorkerStep(MonitorOf[h]) \/ InspectFails(h))
          /\ SF_vars(PollHost(h))
    /\ \A w \in Works :
          LET k == MonitorOf[HostOf[w]]
              Of(A(_)) == worker[k].work = w /\ A(k)
          IN  SF_vars(Of(Observe)) /\ SF_vars(Of(Probe)) /\ SF_vars(Of(UpdateWorkload))

-----------------------------------------------------------------------------
(* Properties.                                                             *)

(* A row's verdict is what became of the process, however old the answer   *)
(* it was written from: a success exited with 0, a failure with another    *)
(* code, and what was stopped does not run on at the provider's price. *)
VerdictIsTrue ==
    \A w \in Works :
        /\ row[w] = "succeeded" => process[w] = "exit0"
        /\ row[w] = "failed" => process[w] = "exit1"
        /\ row[w] = "stopped" =>
              process[w] \in {"exit0", "exit1", "vanished"} \/ instance[HostOf[w]] = "deleted"

(* A recorded workload that left its exit code gets its verdict, as long   *)
(* as its machine is up and listed as running and the monitor's thread     *)
(* lives, whoever else is writing the row, and although a poll may skip    *)
(* the machine, or the workloads after one whose inspection timed out. *)
ExitIsRecorded ==
    \A w \in Works :
        row[w] # "absent" /\ process[w] \in {"exit0", "exit1"}
            ~> \/ row[w] \in Final
               \/ file[HostOf[w]] # "running"
               \/ instance[HostOf[w]] # "active"
               \/ ~polling
=============================================================================
