----------------------------- MODULE FleetHosts -----------------------------
(***************************************************************************)
(* Rented machines as Fleet knows them: the instance at the provider, the  *)
(* state in the ledger's allocation, and the state in hosts.json.          *)
(*                                                                         *)
(* Every command is a process of its own.  A put into hosts.json reads the *)
(* whole file and replaces the whole file, with no lock between the two;   *)
(* the ledger updates one row.  A command may be killed between two steps. *)
(*                                                                         *)
(* "running" is a machine that runs and whose SSH endpoint is known;       *)
(* "unknown" stands for one that runs without it, and for the states       *)
(* "stopped" and "unknown" of the code.                                    *)
(***************************************************************************)
EXTENDS Naturals

CONSTANTS
    Hosts,       \* rented machines, by host_id
    Commands,    \* processes: launch run, fleet refresh, fleet terminate
    Nowhere,     \* no machine
    Connector    \* host -> "runpod" or "sesterce"

ASSUME HostsAssumption ==
    /\ Nowhere \notin Hosts
    /\ Connector \in [Hosts -> {"runpod", "sesterce"}]

VARIABLES
    instance,    \* host -> its instance at the provider
    allocated,   \* host -> allocations.state, "absent" when no row
    file,        \* host -> its state in hosts.json, "absent" when not listed
    command      \* command -> program counter and locals

hostVars == <<instance, allocated, file, command>>

MachineStates == {"absent", "provisioning", "running", "unknown", "terminated"}
CommandSteps == {"idle", "wait", "look", "delete", "read", "replace", "record", "stop_rows"}
Operations == {"none", "launch", "wait", "refresh", "terminate"}

(* What a command remembers: the state its machine was found in, the state *)
(* to write, and the file as it was read. *)
CommandRecords ==
    [op : Operations, pc : CommandSteps, host : Hosts \cup {Nowhere},
     found : MachineStates, state : MachineStates, seen : [Hosts -> MachineStates]]

HostsTypeOK ==
    /\ instance \in [Hosts -> {"absent", "pending", "active", "deleted"}]
    /\ allocated \in [Hosts -> MachineStates]
    /\ file \in [Hosts -> MachineStates]
    /\ command \in [Commands -> CommandRecords]

NoHosts == [h \in Hosts |-> "absent"]
Ended ==
    [op |-> "none", pc |-> "idle", host |-> Nowhere,
     found |-> "absent", state |-> "absent", seen |-> NoHosts]

HostsInit ==
    /\ instance = NoHosts
    /\ allocated = NoHosts
    /\ file = NoHosts
    /\ command = [c \in Commands |-> Ended]

At(c, step) == command[c].pc = step

(* Command c goes on to `step`, with machine state s to write and the      *)
(* file's contents f as read. *)
Goto(c, step, s, f) ==
    command' = [command EXCEPT ![c] =
        [op |-> @.op, pc |-> step, host |-> @.host, found |-> @.found, state |-> s, seen |-> f]]

End(c) == command' = [command EXCEPT ![c] = Ended]

\* Mutant of Described: "deleted" and "deleting" are not recognised.
DescribedWithoutDeleted(status) ==
    CASE status = "pending" -> {"provisioning", "unknown"}
      [] status = "active" -> {"running", "unknown"}
      [] OTHER -> {"unknown"}

(* The machine states a provider's description is taken for. *)
Described(status) ==
    CASE status = "pending" -> {"provisioning", "unknown"}
      [] status = "active" -> {"running", "unknown"}
      [] status = "deleted" -> {"terminated"}
      [] OTHER -> {}

(* refresh takes any description; resolve_ssh fails on a machine that has  *)
(* no endpoint. *)
Answers(h) ==
    IF Connector[h] = "sesterce" THEN Described(instance[h])
    ELSE {"running"} \cap Described(instance[h])

(* The provider has created the instance, and complete_allocation has      *)
(* stored its allocation; what leads to it is module Provisioning. *)
Launch(c, h) ==
    /\ At(c, "idle")
    /\ instance[h] = "absent"
    /\ \E status \in {"pending", "active"} : \E s \in Described(status) :
          /\ instance' = [instance EXCEPT ![h] = status]
          /\ allocated' = [allocated EXCEPT ![h] = s]
          /\ command' = [command EXCEPT ![c] =
                [op |-> "launch", pc |-> "read", host |-> h,
                 found |-> "absent", state |-> s, seen |-> NoHosts]]
    /\ UNCHANGED file

(* fleet refresh and fleet terminate find the machine in hosts.json. *)
Find(c, h, op, step) ==
    /\ At(c, "idle")
    /\ file[h] # "absent"
    /\ command' = [command EXCEPT ![c] =
          [op |-> op, pc |-> step, host |-> h,
           found |-> file[h], state |-> file[h], seen |-> NoHosts]]
    /\ UNCHANGED <<instance, allocated, file>>

Refresh(c, h) == Find(c, h, "refresh", "look")

\* Mutant of Terminate: the machine is marked and the delete left for later.
TerminateUnasked(c, h) ==
    /\ At(c, "idle")
    /\ file[h] # "absent"
    /\ command' = [command EXCEPT ![c] =
          [op |-> "terminate", pc |-> "read", host |-> h,
           found |-> file[h], state |-> "terminated", seen |-> NoHosts]]
    /\ UNCHANGED <<instance, allocated, file>>

Terminate(c, h) == Find(c, h, "terminate", "delete")

(* A Sesterce launch asks again while its machine is provisioning, the     *)
(* RunPod executor resolves the endpoint once. *)
AsksAgain(c) ==
    /\ At(c, "wait")
    /\ IF Connector[command[c].host] = "sesterce"
       THEN command[c].state = "provisioning"
       ELSE command[c].op = "launch"

(* The provider is asked for the instance. *)
Look(c) ==
    /\ At(c, "look") \/ AsksAgain(c)
    /\ \E s \in Answers(command[c].host) :
          command' = [command EXCEPT ![c] =
             [op |-> IF At(c, "wait") THEN "wait" ELSE @.op,
              pc |-> "read", host |-> @.host,
              found |-> @.found, state |-> s, seen |-> NoHosts]]
    /\ UNCHANGED <<instance, allocated, file>>

(* The launch ends: it asks no more, or the deadline has passed. *)
EndWait(c) ==
    /\ At(c, "wait")
    /\ End(c)
    /\ UNCHANGED <<instance, allocated, file>>

Delete(c) ==
    /\ At(c, "delete")
    /\ instance' = [instance EXCEPT ![command[c].host] = "deleted"]
    /\ Goto(c, "read", "terminated", NoHosts)
    /\ UNCHANGED <<allocated, file>>

(* FleetRegistry.put, first half: all machines are read. *)
ReadFile(c) ==
    /\ At(c, "read")
    /\ Goto(c, "replace", command[c].state, file)
    /\ UNCHANGED <<instance, allocated, file>>

\* Mutant of Put: the other machines are not written back.
PutAlone(c) == [NoHosts EXCEPT ![command[c].host] = command[c].state]

(* The file a put writes: what it read, with its own machine replaced. *)
Put(c) == [command[c].seen EXCEPT ![command[c].host] = command[c].state]

(* Second half: the whole file is replaced. *)
ReplaceFile(c) ==
    /\ At(c, "replace")
    /\ file' = Put(c)
    /\ Goto(c, IF command[c].op = "launch" THEN "wait" ELSE "record", command[c].state, NoHosts)
    /\ UNCHANGED <<instance, allocated>>

RecordMachineState(c) ==
    /\ At(c, "record")
    /\ allocated' = [allocated EXCEPT ![command[c].host] = command[c].state]
    /\ CASE command[c].op = "wait" -> Goto(c, "wait", command[c].state, NoHosts)
         [] command[c].op = "terminate" -> Goto(c, "stop_rows", command[c].state, NoHosts)
         [] OTHER -> End(c)
    /\ UNCHANGED <<instance, file>>

(* stop_host_workloads; the rows are in module FleetWorkloads. *)
StopRows(c) ==
    /\ At(c, "stop_rows")
    /\ End(c)
    /\ UNCHANGED <<instance, allocated, file>>

(* The command is killed, or a call raises. *)
CommandDies(c) ==
    /\ ~At(c, "idle")
    /\ End(c)
    /\ UNCHANGED <<instance, allocated, file>>

Boot(h) ==
    /\ instance[h] = "pending"
    /\ instance' = [instance EXCEPT ![h] = "active"]
    /\ UNCHANGED <<allocated, file, command>>

(* The termination deadline passes, or the console deletes the instance. *)
Expire(h) ==
    /\ instance[h] \in {"pending", "active"}
    /\ instance' = [instance EXCEPT ![h] = "deleted"]
    /\ UNCHANGED <<allocated, file, command>>

(* A started command but for the stop_host_workloads of a termination. *)
CommandStep(c) ==
    \/ Look(c)
    \/ EndWait(c)
    \/ Delete(c)
    \/ ReadFile(c)
    \/ ReplaceFile(c)
    \/ RecordMachineState(c)

HostsNext ==
    \/ \E c \in Commands :
          \/ \E h \in Hosts : Launch(c, h) \/ Refresh(c, h) \/ Terminate(c, h)
          \/ CommandStep(c)
          \/ CommandDies(c)
    \/ \E h \in Hosts : Boot(h) \/ Expire(h)

Next == HostsNext \/ \E c \in Commands : StopRows(c)

Spec == HostsInit /\ [][Next]_hostVars

-----------------------------------------------------------------------------
(* Properties.                                                             *)

(* A machine that hosts.json or the ledger calls terminated is not running *)
(* at the provider any more, whatever other commands write and wherever    *)
(* this one died: nothing that is still paid for is written off. *)
TerminatedIsGone ==
    \A h \in Hosts :
        file[h] = "terminated" \/ allocated[h] = "terminated" => instance[h] = "deleted"

(* A machine never disappears from hosts.json, once put there ("wait       *)
(* timeout still registers the paid pod"). *)
HostStaysRegistered ==
    [][\A h \in Hosts : file[h] # "absent" => file'[h] # "absent"]_hostVars

(* A machine is lost from hosts.json only to an overlap: a command that    *)
(* replaces the file after another has changed what it had read.  One      *)
(* command at a time, killed anywhere, loses none. *)
LostOnlyToAnOverlap ==
    [][\A h \in Hosts :
          file[h] # "absent" /\ file'[h] = "absent" =>
             \E c \in Commands :
                At(c, "replace") /\ command'[c].pc # "replace" /\ command[c].seen # file]_hostVars

(* A machine that was marked terminated ("Delete one provider instance and *)
(* mark it terminated locally") is brought back by an overlap only: by the *)
(* put of a command that found it before the termination, as the wait of a *)
(* launch or a refresh under way does, or of one that read the file before *)
(* it.  A command that comes later never does. *)
RevivedOnlyByAnOverlap ==
    [][\A h \in Hosts :
          file[h] = "terminated" /\ file'[h] # "terminated" =>
             \E c \in Commands :
                /\ At(c, "replace") /\ command'[c].pc # "replace"
                /\ IF command[c].host = h
                   THEN command[c].found # "terminated"
                   ELSE command[c].seen[h] # "terminated"]_hostVars
=============================================================================
