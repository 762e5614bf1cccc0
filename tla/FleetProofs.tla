----------------------------- MODULE FleetProofs -----------------------------
(***************************************************************************)
(* Proofs about FleetHosts and FleetWorkloads, for every set of machines,  *)
(* commands, workloads and workers.                                        *)
(***************************************************************************)
EXTENDS FleetWorkloads, TLAPS

-----------------------------------------------------------------------------
(* The invariants.                                                         *)

(* A command under way has a machine. *)
CommandsHaveHosts ==
    \A c \in Commands :
        ~At(c, "idle") =>
            /\ command[c].host \in Hosts
            /\ command[c].state # "absent"

(* Nothing a command still has to write terminates a machine that is there. *)
CommandsTellTheTruth ==
    \A c \in Commands :
        command[c].state = "terminated" =>
            command[c].host \in Hosts /\ instance[command[c].host] = "deleted"

(* The same of the file as a command has read it. *)
ReadFilesTellTheTruth ==
    \A c \in Commands, h \in Hosts :
        command[c].seen[h] = "terminated" => instance[h] = "deleted"

(* A command that found its machine terminated writes nothing else: the    *)
(* provider has deleted the machine, and does not take that back. *)
FoundIsKept ==
    \A c \in Commands :
        command[c].found = "terminated" =>
            /\ command[c].host \in Hosts
            /\ instance[command[c].host] = "deleted"
            /\ At(c, "read") \/ At(c, "replace") => command[c].state = "terminated"

(* The rows of a machine are stopped after it was deleted. *)
TerminationsDelete ==
    \A c \in Commands :
        At(c, "stop_rows") \/ (command[c].op = "terminate" /\ ~At(c, "delete"))
            => command[c].state = "terminated"

HostsInv ==
    /\ HostsTypeOK
    /\ TerminatedIsGone
    /\ CommandsHaveHosts
    /\ CommandsTellTheTruth
    /\ ReadFilesTellTheTruth
    /\ FoundIsKept
    /\ TerminationsDelete

(* One operator at a time. *)
OneCommand == \A c, d \in Commands : c = d

(* What the only command has read is still the file. *)
FileIsHeld == \A c \in Commands : At(c, "replace") => command[c].seen = file

(* A fresh workload_id is nobody else's, and a row has had its process. *)
WorkIsOwned ==
    /\ \A k \in Workers :
          /\ ~Does(k, "idle") => worker[k].work \in Works
          /\ Does(k, "launch") =>
                /\ process[worker[k].work] = "none"
                /\ \A j \in Workers : j # k => worker[j].work # worker[k].work
          /\ ~Does(k, "idle") /\ ~Does(k, "launch") => process[worker[k].work] # "none"
    /\ \A w \in Works : row[w] # "absent" => process[w] # "none"

(* v is what became of the process of w. *)
Fits(v, w) ==
    /\ v = "succeeded" => process[w] = "exit0"
    /\ v = "failed" => process[w] = "exit1"
    /\ v = "stopped" =>
          process[w] \in {"exit0", "exit1", "vanished"} \/ instance[HostOf[w]] = "deleted"

(* A verdict that is still to be written is true when it is written, and a *)
(* worker's verdict is never "stopped" but after a kill. *)
PendingVerdictIsTrue ==
    \A k \in Workers :
        Does(k, "update") \/ Does(k, "logs") => Fits(worker[k].verdict, worker[k].work)

WorksInv == HostsInv /\ TypeOK /\ WorkIsOwned /\ VerdictIsTrue /\ PendingVerdictIsTrue

(* A launch keeps the hosts' invariant. *)
LEMMA LaunchHosts ==
  ASSUME HostsInv, NEW c \in Commands, NEW h \in Hosts, Launch(c, h)
  PROVE  HostsInv'
<1>1. HostsTypeOK'
  BY DEF Launch, Described, HostsInv, HostsTypeOK, NoHosts, CommandRecords, MachineStates,
     CommandSteps, Operations
<1>2. TerminatedIsGone'
  BY DEF Launch, Described, HostsInv, TerminatedIsGone
<1>3. FoundIsKept'
  BY DEF Launch, HostsInv, FoundIsKept, At
<1>4. CommandsHaveHosts'
  BY DEF Launch, Described, HostsInv, HostsTypeOK, CommandsHaveHosts, At
<1>5. CommandsTellTheTruth'
  BY DEF Launch, Described, HostsInv, CommandsTellTheTruth
<1>6. ReadFilesTellTheTruth'
  BY DEF Launch, Described, HostsInv, ReadFilesTellTheTruth, NoHosts
<1>7. TerminationsDelete'
  BY DEF Launch, HostsInv, TerminationsDelete, At
<1> QED BY <1>1, <1>2, <1>3, <1>4, <1>5, <1>6, <1>7 DEF HostsInv

(* Starting a refresh keeps it. *)
LEMMA RefreshHosts ==
  ASSUME HostsInv, NEW c \in Commands, NEW h \in Hosts, Refresh(c, h)
  PROVE  HostsInv'
<1>1. HostsTypeOK'
  BY DEF Refresh, Find, HostsInv, HostsTypeOK, NoHosts, CommandRecords, MachineStates,
     CommandSteps, Operations
<1>2. TerminatedIsGone'
  BY DEF Refresh, Find, HostsInv, TerminatedIsGone
<1>3. FoundIsKept'
  BY DEF Refresh, Find, HostsInv, TerminatedIsGone, FoundIsKept, At
<1>4. CommandsHaveHosts'
  BY DEF Refresh, Find, HostsInv, CommandsHaveHosts, At
<1>5. CommandsTellTheTruth'
  BY DEF Refresh, Find, HostsInv, TerminatedIsGone, CommandsTellTheTruth
<1>6. ReadFilesTellTheTruth'
  BY DEF Refresh, Find, HostsInv, ReadFilesTellTheTruth, NoHosts
<1>7. TerminationsDelete'
  BY DEF Refresh, Find, HostsInv, TerminationsDelete, At
<1> QED BY <1>1, <1>2, <1>3, <1>4, <1>5, <1>6, <1>7 DEF HostsInv

(* Starting a termination keeps it. *)
LEMMA TerminateHosts ==
  ASSUME HostsInv, NEW c \in Commands, NEW h \in Hosts, Terminate(c, h)
  PROVE  HostsInv'
<1>1. HostsTypeOK'
  BY DEF Terminate, Find, HostsInv, HostsTypeOK, NoHosts, CommandRecords, MachineStates,
     CommandSteps, Operations
<1>2. TerminatedIsGone'
  BY DEF Terminate, Find, HostsInv, TerminatedIsGone
<1>3. FoundIsKept'
  BY DEF Terminate, Find, HostsInv, TerminatedIsGone, FoundIsKept, At
<1>4. CommandsHaveHosts'
  BY DEF Terminate, Find, HostsInv, CommandsHaveHosts, At
<1>5. CommandsTellTheTruth'
  BY DEF Terminate, Find, HostsInv, TerminatedIsGone, CommandsTellTheTruth
<1>6. ReadFilesTellTheTruth'
  BY DEF Terminate, Find, HostsInv, ReadFilesTellTheTruth, NoHosts
<1>7. TerminationsDelete'
  BY DEF Terminate, Find, HostsInv, TerminationsDelete, At
<1> QED BY <1>1, <1>2, <1>3, <1>4, <1>5, <1>6, <1>7 DEF HostsInv

(* Asking the provider keeps it. *)
LEMMA LookHosts ==
  ASSUME HostsInv, NEW c \in Commands, Look(c)
  PROVE  HostsInv'
<1>1. HostsTypeOK'
  BY DEF Look, Answers, Described, HostsInv, HostsTypeOK, NoHosts, CommandRecords,
     MachineStates, CommandSteps, Operations
<1>2. TerminatedIsGone'
  BY DEF Look, HostsInv, TerminatedIsGone
<1>3. FoundIsKept'
  BY DEF Look, AsksAgain, Answers, Described, HostsInv, FoundIsKept, At
<1>4. CommandsHaveHosts'
  BY DEF Look, AsksAgain, Answers, Described, HostsInv, CommandsHaveHosts, At
<1>5. CommandsTellTheTruth'
  BY DEF Look, AsksAgain, Answers, Described, HostsInv, CommandsHaveHosts,
     CommandsTellTheTruth, At
<1>6. ReadFilesTellTheTruth'
  BY DEF Look, HostsInv, ReadFilesTellTheTruth, NoHosts
<1>7. TerminationsDelete'
  BY DEF Look, AsksAgain, Answers, Described, HostsInv, CommandsTellTheTruth,
     TerminationsDelete, At
<1> QED BY <1>1, <1>2, <1>3, <1>4, <1>5, <1>6, <1>7 DEF HostsInv

(* The end of a launch keeps it. *)
LEMMA EndWaitHosts ==
  ASSUME HostsInv, NEW c \in Commands, EndWait(c)
  PROVE  HostsInv'
<1>1. HostsTypeOK'
  BY DEF EndWait, HostsInv, HostsTypeOK, End, Ended, NoHosts, CommandRecords, MachineStates,
     CommandSteps, Operations
<1>2. TerminatedIsGone'
  BY DEF EndWait, HostsInv, TerminatedIsGone
<1>3. FoundIsKept'
  BY DEF EndWait, HostsInv, FoundIsKept, At, End, Ended
<1>4. CommandsHaveHosts'
  BY DEF EndWait, HostsInv, CommandsHaveHosts, At, End, Ended
<1>5. CommandsTellTheTruth'
  BY DEF EndWait, HostsInv, CommandsTellTheTruth, End, Ended
<1>6. ReadFilesTellTheTruth'
  BY DEF EndWait, HostsInv, ReadFilesTellTheTruth, End, Ended, NoHosts
<1>7. TerminationsDelete'
  BY DEF EndWait, HostsInv, TerminationsDelete, At, End, Ended
<1> QED BY <1>1, <1>2, <1>3, <1>4, <1>5, <1>6, <1>7 DEF HostsInv

(* Deleting the instance keeps it. *)
LEMMA DeleteHosts ==
  ASSUME HostsInv, NEW c \in Commands, Delete(c)
  PROVE  HostsInv'
<1>1. HostsTypeOK'
  BY DEF Delete, HostsInv, HostsTypeOK, CommandsHaveHosts, At, Goto, NoHosts, CommandRecords,
     MachineStates, CommandSteps
<1>2. TerminatedIsGone'
  BY DEF Delete, HostsInv, TerminatedIsGone
<1>3. FoundIsKept'
  BY DEF Delete, HostsInv, HostsTypeOK, CommandsHaveHosts, FoundIsKept, At, Goto
<1>4. CommandsHaveHosts'
  BY DEF Delete, HostsInv, CommandsHaveHosts, At, Goto
<1>5. CommandsTellTheTruth'
  BY DEF Delete, HostsInv, HostsTypeOK, CommandsHaveHosts, CommandsTellTheTruth, At, Goto
<1>6. ReadFilesTellTheTruth'
  BY DEF Delete, HostsInv, ReadFilesTellTheTruth, Goto, NoHosts
<1>7. TerminationsDelete'
  BY DEF Delete, HostsInv, TerminationsDelete, At, Goto
<1> QED BY <1>1, <1>2, <1>3, <1>4, <1>5, <1>6, <1>7 DEF HostsInv

(* Reading hosts.json keeps it. *)
LEMMA ReadFileHosts ==
  ASSUME HostsInv, NEW c \in Commands, ReadFile(c)
  PROVE  HostsInv'
<1>1. HostsTypeOK'
  BY DEF ReadFile, HostsInv, HostsTypeOK, Goto, CommandRecords, CommandSteps
<1>2. TerminatedIsGone'
  BY DEF ReadFile, HostsInv, TerminatedIsGone
<1>3. FoundIsKept'
  BY DEF ReadFile, HostsInv, FoundIsKept, At, Goto
<1>4. CommandsHaveHosts'
  BY DEF ReadFile, HostsInv, CommandsHaveHosts, At, Goto
<1>5. CommandsTellTheTruth'
  BY DEF ReadFile, HostsInv, CommandsTellTheTruth, Goto
<1>6. ReadFilesTellTheTruth'
  BY DEF ReadFile, HostsInv, TerminatedIsGone, ReadFilesTellTheTruth, Goto
<1>7. TerminationsDelete'
  BY DEF ReadFile, HostsInv, TerminationsDelete, At, Goto
<1> QED BY <1>1, <1>2, <1>3, <1>4, <1>5, <1>6, <1>7 DEF HostsInv

(* Replacing hosts.json keeps it, however old what was read. *)
LEMMA ReplaceFileHosts ==
  ASSUME HostsInv, NEW c \in Commands, ReplaceFile(c)
  PROVE  HostsInv'
<1>1. HostsTypeOK'
  BY DEF ReplaceFile, Put, HostsInv, HostsTypeOK, CommandsHaveHosts, At, Goto, NoHosts,
     CommandRecords, MachineStates, CommandSteps
<1>2. TerminatedIsGone'
  BY DEF ReplaceFile, Put, HostsInv, TerminatedIsGone, CommandsTellTheTruth,
     ReadFilesTellTheTruth
<1>3. FoundIsKept'
  BY DEF ReplaceFile, HostsInv, FoundIsKept, At, Goto
<1>4. CommandsHaveHosts'
  BY DEF ReplaceFile, HostsInv, CommandsHaveHosts, At, Goto
<1>5. CommandsTellTheTruth'
  BY DEF ReplaceFile, HostsInv, CommandsTellTheTruth, Goto
<1>6. ReadFilesTellTheTruth'
  BY DEF ReplaceFile, HostsInv, ReadFilesTellTheTruth, Goto, NoHosts
<1>7. TerminationsDelete'
  BY DEF ReplaceFile, HostsInv, TerminationsDelete, At, Goto
<1> QED BY <1>1, <1>2, <1>3, <1>4, <1>5, <1>6, <1>7 DEF HostsInv

(* The end of a termination keeps it. *)
LEMMA StopRowsHosts ==
  ASSUME HostsInv, NEW c \in Commands, StopRows(c)
  PROVE  HostsInv'
<1>1. HostsTypeOK'
  BY DEF StopRows, HostsInv, HostsTypeOK, End, Ended, NoHosts, CommandRecords, MachineStates,
     CommandSteps, Operations
<1>2. TerminatedIsGone'
  BY DEF StopRows, HostsInv, TerminatedIsGone
<1>3. FoundIsKept'
  BY DEF StopRows, HostsInv, FoundIsKept, At, End, Ended
<1>4. CommandsHaveHosts'
  BY DEF StopRows, HostsInv, CommandsHaveHosts, At, End, Ended
<1>5. CommandsTellTheTruth'
  BY DEF StopRows, HostsInv, CommandsTellTheTruth, End, Ended
<1>6. ReadFilesTellTheTruth'
  BY DEF StopRows, HostsInv, ReadFilesTellTheTruth, End, Ended, NoHosts
<1>7. TerminationsDelete'
  BY DEF StopRows, HostsInv, TerminationsDelete, At, End, Ended
<1> QED BY <1>1, <1>2, <1>3, <1>4, <1>5, <1>6, <1>7 DEF HostsInv

(* The death of a command keeps it. *)
LEMMA CommandDiesHosts ==
  ASSUME HostsInv, NEW c \in Commands, CommandDies(c)
  PROVE  HostsInv'
<1>1. HostsTypeOK'
  BY DEF CommandDies, HostsInv, HostsTypeOK, End, Ended, NoHosts, CommandRecords,
     MachineStates, CommandSteps, Operations
<1>2. TerminatedIsGone'
  BY DEF CommandDies, HostsInv, TerminatedIsGone
<1>3. FoundIsKept'
  BY DEF CommandDies, HostsInv, FoundIsKept, At, End, Ended
<1>4. CommandsHaveHosts'
  BY DEF CommandDies, HostsInv, CommandsHaveHosts, At, End, Ended
<1>5. CommandsTellTheTruth'
  BY DEF CommandDies, HostsInv, CommandsTellTheTruth, End, Ended
<1>6. ReadFilesTellTheTruth'
  BY DEF CommandDies, HostsInv, ReadFilesTellTheTruth, End, Ended, NoHosts
<1>7. TerminationsDelete'
  BY DEF CommandDies, HostsInv, TerminationsDelete, At, End, Ended
<1> QED BY <1>1, <1>2, <1>3, <1>4, <1>5, <1>6, <1>7 DEF HostsInv

(* An instance that becomes active keeps it. *)
LEMMA BootHosts ==
  ASSUME HostsInv, NEW h \in Hosts, Boot(h)
  PROVE  HostsInv'
<1>1. HostsTypeOK'
  BY DEF Boot, HostsInv, HostsTypeOK
<1>2. TerminatedIsGone'
  BY DEF Boot, HostsInv, TerminatedIsGone
<1>3. FoundIsKept'
  BY DEF Boot, HostsInv, HostsTypeOK, FoundIsKept, At
<1>4. CommandsHaveHosts'
  BY DEF Boot, HostsInv, CommandsHaveHosts, At
<1>5. CommandsTellTheTruth'
  BY DEF Boot, HostsInv, CommandsTellTheTruth
<1>6. ReadFilesTellTheTruth'
  BY DEF Boot, HostsInv, ReadFilesTellTheTruth
<1>7. TerminationsDelete'
  BY DEF Boot, HostsInv, TerminationsDelete, At
<1> QED BY <1>1, <1>2, <1>3, <1>4, <1>5, <1>6, <1>7 DEF HostsInv

(* An instance that ends keeps it. *)
LEMMA ExpireHosts ==
  ASSUME HostsInv, NEW h \in Hosts, Expire(h)
  PROVE  HostsInv'
<1>1. HostsTypeOK'
  BY DEF Expire, HostsInv, HostsTypeOK
<1>2. TerminatedIsGone'
  BY DEF Expire, HostsInv, TerminatedIsGone
<1>3. FoundIsKept'
  BY DEF Expire, HostsInv, HostsTypeOK, FoundIsKept, At
<1>4. CommandsHaveHosts'
  BY DEF Expire, HostsInv, CommandsHaveHosts, At
<1>5. CommandsTellTheTruth'
  BY DEF Expire, HostsInv, CommandsTellTheTruth
<1>6. ReadFilesTellTheTruth'
  BY DEF Expire, HostsInv, ReadFilesTellTheTruth
<1>7. TerminationsDelete'
  BY DEF Expire, HostsInv, TerminationsDelete, At
<1> QED BY <1>1, <1>2, <1>3, <1>4, <1>5, <1>6, <1>7 DEF HostsInv

(* The ledger takes the state the file already has. *)
LEMMA RecordMachineStateHosts ==
  ASSUME HostsInv, NEW c \in Commands, RecordMachineState(c)
  PROVE  HostsInv'
<1>1. /\ command[c].host \in Hosts
      /\ command[c].state \in MachineStates \ {"absent"}
      /\ allocated' = [allocated EXCEPT ![command[c].host] = command[c].state]
      /\ UNCHANGED <<instance, file>>
  BY DEF RecordMachineState, HostsInv, HostsTypeOK, CommandsHaveHosts, At, CommandRecords
<1>2. /\ command' \in [Commands -> CommandRecords]
      /\ \A d \in Commands : d # c => command'[d] = command[d]
      /\ command'[c].seen = NoHosts
      /\ command'[c].pc = "idle" => command'[c].state = "absent" /\ command'[c].op = "none"
      /\ command'[c].pc # "idle" =>
            command'[c].state = command[c].state /\ command'[c].host = command[c].host
      /\ command'[c].found = "terminated" =>
            command[c].found = "terminated" /\ command'[c].host = command[c].host
      /\ command'[c].pc \in {"idle", "wait", "stop_rows"}
      /\ command'[c].op \in {"none", command[c].op}
      /\ command'[c].pc = "stop_rows" => command[c].op = "terminate"
  <2>0. /\ command \in [Commands -> CommandRecords]
        /\ \A step \in {"wait", "stop_rows"} :
              LET r == [op |-> command[c].op, pc |-> step, host |-> command[c].host,
                        found |-> command[c].found, state |-> command[c].state, seen |-> NoHosts]
              IN  /\ r \in CommandRecords
                  /\ Goto(c, step, command[c].state, NoHosts) => command' = [command EXCEPT ![c] = r]
    <3>1. command \in [Commands -> CommandRecords]
      BY DEF HostsInv, HostsTypeOK
    <3>2. NoHosts \in [Hosts -> MachineStates]
      BY DEF NoHosts, MachineStates
    <3> QED
      BY <3>1, <3>2 DEF Goto, CommandRecords, CommandSteps
  <2>1. CASE command[c].op = "wait"
    <3>1. Goto(c, "wait", command[c].state, NoHosts)
      BY <2>1 DEF RecordMachineState
    <3> QED
      BY <2>0, <2>1, <3>1
  <2>2. CASE command[c].op = "terminate"
    <3>1. Goto(c, "stop_rows", command[c].state, NoHosts)
      BY <2>2 DEF RecordMachineState
    <3> QED
      BY <2>0, <2>2, <3>1
  <2>3. CASE command[c].op \notin {"wait", "terminate"}
    <3>1. End(c)
      BY <2>3 DEF RecordMachineState
    <3>2. Ended \in CommandRecords
      BY DEF Ended, NoHosts, CommandRecords, MachineStates, CommandSteps, Operations
    <3> QED BY <3>1, <3>2 DEF End, Ended, NoHosts, HostsInv, HostsTypeOK
  <2> QED BY <2>1, <2>2, <2>3
<1>3. At(c, "record")
  BY DEF RecordMachineState
<1>4. HostsTypeOK' /\ TerminatedIsGone'
  BY <1>1, <1>2 DEF HostsInv, HostsTypeOK, TerminatedIsGone, CommandsTellTheTruth
<1>9. FoundIsKept'
  BY <1>1, <1>2 DEF HostsInv, FoundIsKept, At
<1>5. CommandsHaveHosts'
  BY <1>1, <1>2, <1>3 DEF HostsInv, HostsTypeOK, CommandsHaveHosts, At
<1>6. CommandsTellTheTruth'
  BY <1>1, <1>2 DEF HostsInv, CommandsTellTheTruth
<1>7. ReadFilesTellTheTruth'
  BY <1>1, <1>2 DEF HostsInv, HostsTypeOK, ReadFilesTellTheTruth, NoHosts
<1>8. TerminationsDelete'
  BY <1>1, <1>2, <1>3 DEF HostsInv, TerminationsDelete, At
<1> QED BY <1>4, <1>5, <1>6, <1>7, <1>8, <1>9 DEF HostsInv

(* The hosts' invariant holds in the initial state. *)
LEMMA HostsInitially == Init => HostsInv
BY DEF Init, HostsInit, HostsInv, HostsTypeOK, TerminatedIsGone,
   CommandsHaveHosts, CommandsTellTheTruth, ReadFilesTellTheTruth, FoundIsKept, TerminationsDelete,
   At, Ended, NoHosts, CommandRecords, MachineStates, CommandSteps, Operations

(* Every step of the hosts keeps their invariant. *)
LEMMA HostsStep ==
  ASSUME HostsInv, HostsNext \/ \E c \in Commands : StopRows(c)
  PROVE  HostsInv'
<1>1. ASSUME NEW c \in Commands, NEW h \in Hosts, Launch(c, h) \/ Refresh(c, h) \/ Terminate(c, h)
      PROVE  HostsInv'
  BY <1>1, LaunchHosts, RefreshHosts, TerminateHosts
<1>2. ASSUME NEW c \in Commands, CommandStep(c)
      PROVE  HostsInv'
  BY <1>2, LookHosts, EndWaitHosts, DeleteHosts, ReadFileHosts, ReplaceFileHosts,
     RecordMachineStateHosts DEF CommandStep
<1>3. ASSUME NEW c \in Commands, CommandDies(c) \/ StopRows(c)
      PROVE  HostsInv'
  BY <1>3, CommandDiesHosts, StopRowsHosts
<1>4. ASSUME NEW h \in Hosts, Boot(h) \/ Expire(h)
      PROVE  HostsInv'
  BY <1>4, BootHosts, ExpireHosts
<1> QED BY <1>1, <1>2, <1>3, <1>4 DEF HostsNext

(* A step of others keeps it. *)
LEMMA HostsStutter ==
  ASSUME HostsInv, UNCHANGED hostVars
  PROVE  HostsInv'
<1>1. HostsTypeOK'
  BY DEF hostVars, HostsInv, HostsTypeOK
<1>2. TerminatedIsGone'
  BY DEF hostVars, HostsInv, TerminatedIsGone
<1>3. FoundIsKept'
  BY DEF hostVars, HostsInv, FoundIsKept, At
<1>4. CommandsHaveHosts'
  BY DEF hostVars, HostsInv, CommandsHaveHosts, At
<1>5. CommandsTellTheTruth'
  BY DEF hostVars, HostsInv, CommandsTellTheTruth
<1>6. ReadFilesTellTheTruth'
  BY DEF hostVars, HostsInv, ReadFilesTellTheTruth
<1>7. TerminationsDelete'
  BY DEF hostVars, HostsInv, TerminationsDelete, At
<1> QED BY <1>1, <1>2, <1>3, <1>4, <1>5, <1>6, <1>7 DEF HostsInv

(* The hosts alone keep their invariant ... *)
THEOREM HostsInductive == Spec => []HostsInv
<1>1. HostsInit => HostsInv
  BY DEF HostsInit, HostsInv, HostsTypeOK, TerminatedIsGone,
     CommandsHaveHosts, CommandsTellTheTruth, ReadFilesTellTheTruth, FoundIsKept, TerminationsDelete,
     At, Ended, NoHosts, CommandRecords, MachineStates, CommandSteps, Operations
<1>2. HostsInv /\ [Next]_hostVars => HostsInv'
  BY HostsStep, HostsStutter DEF Next
<1> QED BY <1>1, <1>2, PTL DEF Spec

(* HostsTypeOK: the types of the hosts' state. *)
THEOREM HostTypes == Spec => []HostsTypeOK
<1>1. HostsInv => HostsTypeOK
  BY DEF HostsInv
<1> QED BY <1>1, HostsInductive, PTL

(* TerminatedIsGone: whatever hosts.json or the ledger call terminated has *)
(* been deleted at the provider, whichever commands overlap or die. *)
THEOREM NothingPaidIsWrittenOff == Spec => []TerminatedIsGone
<1>1. HostsInv => TerminatedIsGone
  BY DEF HostsInv
<1> QED BY <1>1, HostsInductive, PTL

(* The composition refines the hosts: workloads never disturb them, so     *)
(* every property of theirs holds of the composition as well. *)
THEOREM FleetRefinesHosts == FleetSpec => Spec
<1>1. Init => HostsInit
  BY DEF Init
<1>2. [NextOfAll]_vars => [Next]_hostVars
  <2>1. ASSUME HostsNext
        PROVE  Next
    BY <2>1 DEF Next
  <2>2. ASSUME NEW c \in Commands, StopHostWorkloads(c)
        PROVE  Next
    BY <2>2 DEF Next, StopHostWorkloads
  <2>3. ASSUME WorkNext
        PROVE  UNCHANGED hostVars
    <3>1. ASSUME NEW k \in Workers, NEW w \in Works, Start(k, w) \/ Inspect(k, w) \/ Stop(k, w)
          PROVE  UNCHANGED hostVars
      BY <3>1 DEF Start, Inspect, Stop
    <3>2. ASSUME NEW k \in Workers, WorkerStep(k) \/ WorkerDies(k)
          PROVE  UNCHANGED hostVars
      BY <3>2 DEF WorkerStep, LaunchProcess, RecordWorkload, Observe, Probe, UpdateWorkload,
         SyncLogs, LogSyncFails, Kill, WorkerDies
    <3>3. ASSUME NEW w \in Works, Exit(w)
          PROVE  UNCHANGED hostVars
      BY <3>3 DEF Exit
    <3>4. ASSUME PollNext
          PROVE  UNCHANGED hostVars
      BY <3>4 DEF PollNext, HostPoll, Poll, PollRaises, PollHost, SkipHost, InspectNext,
         InspectFails
    <3> QED BY <2>3, <3>1, <3>2, <3>3, <3>4 DEF WorkNext
  <2> QED BY <2>1, <2>2, <2>3 DEF NextOfAll, vars
<1> QED BY <1>1, <1>2, PTL DEF FleetSpec, Spec

-----------------------------------------------------------------------------
(* One operator at a time.                                                 *)

(* With one command, no other put comes between its read and its write. *)
LEMMA FileIsHeldInductive ==
  ASSUME OneCommand, HostsInv, FileIsHeld, [Next]_hostVars
  PROVE  FileIsHeld'
<1> SUFFICES ASSUME NEW c \in Commands
             PROVE  At(c, "replace")' => command'[c].seen = file'
  BY DEF FileIsHeld
<1>1. ASSUME NEW h \in Hosts, Launch(c, h)
      PROVE  FileIsHeld'
  BY <1>1 DEF FileIsHeld, Launch, HostsInv, TerminatedIsGone, At
<1>2. ASSUME NEW h \in Hosts, Refresh(c, h) \/ Terminate(c, h)
      PROVE  FileIsHeld'
  BY <1>2 DEF FileIsHeld, Refresh, Terminate, Find, HostsInv, HostsTypeOK, At
<1>3. ASSUME Look(c)
      PROVE  FileIsHeld'
  BY <1>3 DEF FileIsHeld, Look, Answers, AsksAgain, Described, HostsInv, TerminatedIsGone,
     CommandsHaveHosts, At
<1>4. ASSUME EndWait(c) \/ StopRows(c) \/ CommandDies(c)
      PROVE  FileIsHeld'
  BY <1>4 DEF FileIsHeld, EndWait, StopRows, CommandDies, HostsInv, HostsTypeOK, At, End, Ended
<1>5. ASSUME Delete(c)
      PROVE  FileIsHeld'
  BY <1>5 DEF FileIsHeld, Delete, At, Goto
<1>6. ASSUME ReadFile(c)
      PROVE  FileIsHeld'
  BY <1>6 DEF FileIsHeld, ReadFile, At, Goto
<1>7. ASSUME ReplaceFile(c)
      PROVE  FileIsHeld'
  BY <1>7 DEF OneCommand, FileIsHeld, ReplaceFile, HostsInv, HostsTypeOK, At, Goto
<1>8. ASSUME RecordMachineState(c)
      PROVE  FileIsHeld'
  BY <1>8 DEF FileIsHeld, RecordMachineState, HostsInv, HostsTypeOK, At, Goto, End, Ended
<1>9. ASSUME NEW h \in Hosts, Boot(h) \/ Expire(h)
      PROVE  FileIsHeld'
  BY <1>9 DEF FileIsHeld, Boot, Expire, At
<1>10. ASSUME UNCHANGED hostVars
       PROVE  FileIsHeld'
  BY <1>10 DEF FileIsHeld, hostVars, At
<1>11. FileIsHeld'
  BY <1>1, <1>2, <1>3, <1>4, <1>5, <1>6, <1>7, <1>8, <1>9, <1>10 DEF OneCommand, Next,
     HostsNext, CommandStep
<1> QED BY <1>11 DEF FileIsHeld

(* A put of the only command keeps the machines. *)
LEMMA PutKeepsFile ==
  ASSUME OneCommand, HostsInv, FileIsHeld, [Next]_hostVars, NEW h \in Hosts
  PROVE  file[h] # "absent" => file'[h] # "absent"
<1>1. ASSUME NEW c \in Commands, ReplaceFile(c)
      PROVE  file[h] # "absent" => file'[h] # "absent"
  BY <1>1 DEF FileIsHeld, ReplaceFile, Put, HostsInv, CommandsHaveHosts, At
<1>2. (\E c \in Commands : ReplaceFile(c)) \/ UNCHANGED file
  BY DEF Next, HostsNext, CommandStep, Launch, Refresh, Terminate, Find, Look, EndWait, Delete,
     ReadFile, RecordMachineState, StopRows, CommandDies, Boot, Expire, hostVars
<1> QED BY <1>1, <1>2

(* The command that drops a machine has read a file that is gone.          *)
LEMMA DropNeedsAnOldFile ==
  ASSUME HostsInv, NEW c \in Commands, ReplaceFile(c),
         NEW h \in Hosts, file[h] # "absent", file'[h] = "absent"
  PROVE  At(c, "replace") /\ command'[c].pc # "replace" /\ command[c].seen # file
<1>1. At(c, "replace")
  BY DEF ReplaceFile
<1>2. command'[c].pc # "replace"
  BY DEF ReplaceFile, Goto, HostsInv, HostsTypeOK
<1>3. command[c].seen # file
  <2>1. SUFFICES ASSUME command[c].seen = file
                 PROVE  FALSE
    OBVIOUS
  <2>2. CASE h = command[c].host
    BY <1>1, <2>1, <2>2 DEF ReplaceFile, Put, HostsInv, HostsTypeOK, CommandsHaveHosts, At
  <2>3. CASE h # command[c].host
    BY <1>1, <2>1, <2>3 DEF ReplaceFile, Put, HostsInv, HostsTypeOK, At
  <2> QED BY <2>2, <2>3
<1> QED BY <1>1, <1>2, <1>3

(* A machine is lost only to a command that overlapped with another one,   *)
(* for every number of commands. *)
THEOREM LossNeedsAnOverlap == Spec => LostOnlyToAnOverlap
<1>1. ASSUME HostsInv, [Next]_hostVars, NEW h \in Hosts, file[h] # "absent", file'[h] = "absent"
      PROVE  \E c \in Commands :
                At(c, "replace") /\ command'[c].pc # "replace" /\ command[c].seen # file
  <2>1. (\E c \in Commands : ReplaceFile(c)) \/ UNCHANGED file
    BY <1>1 DEF Next, HostsNext, CommandStep, Launch, Refresh, Terminate, Find, Look, EndWait,
       Delete, ReadFile, RecordMachineState, StopRows, CommandDies, Boot, Expire, hostVars
  <2>2. PICK c \in Commands : ReplaceFile(c)
    BY <1>1, <2>1
  <2> QED BY <1>1, <2>2, DropNeedsAnOldFile
<1>2. HostsInv /\ [Next]_hostVars
        => [\A h \in Hosts : file[h] # "absent" /\ file'[h] = "absent" =>
              \E c \in Commands :
                 At(c, "replace") /\ command'[c].pc # "replace" /\ command[c].seen # file]_hostVars
  BY <1>1
<1> QED BY <1>2, HostsInductive, PTL DEF Spec, LostOnlyToAnOverlap

(* With one operator at a time hosts.json loses no machine: what is lost   *)
(* otherwise is lost to the unlocked put of another command. *)
THEOREM OneOperatorLosesNoHost == ASSUME OneCommand PROVE Spec => HostStaysRegistered
<1>1. HostsInit => FileIsHeld
  BY DEF HostsInit, FileIsHeld, At, Ended
<1>2. HostsInv /\ FileIsHeld /\ [Next]_hostVars => FileIsHeld'
  BY OneCommand, FileIsHeldInductive
<1>3. HostsInv /\ FileIsHeld /\ [Next]_hostVars
        => [\A h \in Hosts : file[h] # "absent" => file'[h] # "absent"]_hostVars
  BY OneCommand, PutKeepsFile
<1> QED BY <1>1, <1>2, <1>3, HostsInductive, PTL DEF Spec, HostStaysRegistered

(* The put that brings machine h back is of a command that found it        *)
(* before the termination, or read the file before it. *)
LEMMA RevivalNeedsAnOldView ==
  ASSUME HostsInv, NEW c \in Commands, ReplaceFile(c),
         NEW h \in Hosts, file[h] = "terminated", file'[h] # "terminated"
  PROVE  /\ At(c, "replace") /\ command'[c].pc # "replace"
         /\ IF command[c].host = h
            THEN command[c].found # "terminated"
            ELSE command[c].seen[h] # "terminated"
<1>1. At(c, "replace")
  BY DEF ReplaceFile
<1>2. command'[c].pc # "replace"
  BY DEF ReplaceFile, Goto, HostsInv, HostsTypeOK
<1>3. CASE h = command[c].host
  <2>1. command[c].state # "terminated"
    BY <1>3 DEF ReplaceFile, Put, HostsInv, HostsTypeOK, CommandRecords
  <2> QED BY <1>1, <1>2, <1>3, <2>1 DEF HostsInv, FoundIsKept
<1>4. CASE h # command[c].host
  <2>1. command[c].seen[h] # "terminated"
    BY <1>4 DEF ReplaceFile, Put, HostsInv, HostsTypeOK, CommandRecords
  <2> QED BY <1>1, <1>2, <1>4, <2>1
<1> QED BY <1>3, <1>4

(* RevivedOnlyByAnOverlap: however many commands there are, a machine that *)
(* was marked terminated is brought back by one only that looked before    *)
(* the termination; a later refresh finds it deleted at the provider. *)
THEOREM RevivalNeedsAnOverlap == Spec => RevivedOnlyByAnOverlap
<1>1. ASSUME HostsInv, [Next]_hostVars, NEW h \in Hosts,
             file[h] = "terminated", file'[h] # "terminated"
      PROVE  \E c \in Commands :
                /\ At(c, "replace") /\ command'[c].pc # "replace"
                /\ IF command[c].host = h
                   THEN command[c].found # "terminated"
                   ELSE command[c].seen[h] # "terminated"
  <2>1. (\E c \in Commands : ReplaceFile(c)) \/ UNCHANGED file
    BY <1>1 DEF Next, HostsNext, CommandStep, Launch, Refresh, Terminate, Find, Look, EndWait,
       Delete, ReadFile, RecordMachineState, StopRows, CommandDies, Boot, Expire, hostVars
  <2>2. PICK c \in Commands : ReplaceFile(c)
    BY <1>1, <2>1
  <2> QED BY <1>1, <2>2, RevivalNeedsAnOldView
<1>2. HostsInv /\ [Next]_hostVars
        => [\A h \in Hosts :
              file[h] = "terminated" /\ file'[h] # "terminated" =>
                 \E c \in Commands :
                    /\ At(c, "replace") /\ command'[c].pc # "replace"
                    /\ IF command[c].host = h
                       THEN command[c].found # "terminated"
                       ELSE command[c].seen[h] # "terminated"]_hostVars
  BY <1>1
<1> QED BY <1>2, HostsInductive, PTL DEF Spec, RevivedOnlyByAnOverlap

-----------------------------------------------------------------------------
(* Workloads.                                                              *)

(* The provider never takes a deletion back. *)
LEMMA DeletedForGood ==
  ASSUME HostsInv, HostsNext \/ \E c \in Commands : StopRows(c)
  PROVE  \A h \in Hosts : instance[h] = "deleted" => instance'[h] = "deleted"
BY DEF HostsInv, HostsTypeOK, HostsNext, Launch, Refresh, Terminate, Find, CommandStep, Look,
   EndWait, Delete, ReadFile, ReplaceFile, RecordMachineState, StopRows, CommandDies, Boot,
   Expire

(* What the steps of one worker leave alone. *)
LEMMA HostsNextWorks ==
  ASSUME WorksInv, HostsNext, UNCHANGED workVars
  PROVE  WorksInv'
<1>1. HostsInv'
  BY HostsStep DEF WorksInv
<1>2. \A h \in Hosts : instance[h] = "deleted" => instance'[h] = "deleted"
  BY DeletedForGood DEF WorksInv
<1>3. TypeOK'
  BY <1>1 DEF WorksInv, HostsInv, TypeOK, workVars, pollVars
<1>4. WorkIsOwned'
  BY DEF WorksInv, WorkIsOwned, Does, workVars
<1>5. VerdictIsTrue'
  BY <1>2, WorksAssumption DEF WorksInv, VerdictIsTrue, workVars
<1>6. PendingVerdictIsTrue'
  BY <1>2, WorksAssumption DEF WorksInv, WorkIsOwned, PendingVerdictIsTrue, Fits, Does, workVars
<1> QED BY <1>1, <1>3, <1>4, <1>5, <1>6 DEF WorksInv

(* Stopping the rows of a deleted machine keeps the workloads' invariant. *)
LEMMA StopHostWorkloadsWorks ==
  ASSUME WorksInv, NEW c \in Commands, StopHostWorkloads(c)
  PROVE  WorksInv'
<1>1. HostsInv'
  BY HostsStep DEF WorksInv, StopHostWorkloads
<1>2. instance' = instance /\ instance[command[c].host] = "deleted"
  BY DEF WorksInv, HostsInv, CommandsTellTheTruth, TerminationsDelete, StopHostWorkloads,
     StopRows
<1>3. TypeOK'
  BY <1>1 DEF pollVars, WorksInv, HostsInv, TypeOK, RowStates, Final, StopHostWorkloads
<1>4. WorkIsOwned'
  BY DEF WorksInv, WorkIsOwned, Does, StopHostWorkloads, InFlight
<1>5. VerdictIsTrue'
  BY <1>2 DEF WorksInv, VerdictIsTrue, StopHostWorkloads
<1>6. PendingVerdictIsTrue'
  BY <1>2 DEF WorksInv, PendingVerdictIsTrue, Fits, Does, StopHostWorkloads
<1> QED BY <1>1, <1>3, <1>4, <1>5, <1>6 DEF WorksInv

(* Starting a workload keeps it. *)
LEMMA StartWorks ==
  ASSUME WorksInv, NEW k \in Workers, NEW w \in Works, Start(k, w)
  PROVE  WorksInv'
<1>1. UNCHANGED hostVars
  BY DEF Start
<1>2. HostsInv'
  BY <1>1, HostsStutter DEF WorksInv
<1>3. TypeOK'
  BY <1>2 DEF pollVars, Start, Turn, WorksInv, HostsInv, TypeOK, RowStates, WorkerSteps
<1>4. WorkIsOwned'
  BY DEF Start, Turn, WorksInv, WorkIsOwned, Does
<1>5. VerdictIsTrue'
  BY DEF Start, hostVars, WorksInv, VerdictIsTrue
<1>6. PendingVerdictIsTrue'
  BY DEF Start, Turn, hostVars, WorksInv, PendingVerdictIsTrue, Fits, Does
<1> QED BY <1>2, <1>3, <1>4, <1>5, <1>6 DEF WorksInv

(* Taking up an inspection keeps it. *)
LEMMA InspectWorks ==
  ASSUME WorksInv, NEW k \in Workers, NEW w \in Works, Inspect(k, w)
  PROVE  WorksInv'
<1>1. UNCHANGED hostVars
  BY DEF Inspect
<1>2. HostsInv'
  BY <1>1, HostsStutter DEF WorksInv
<1>3. TypeOK'
  BY <1>2 DEF pollVars, Inspect, Turn, WorksInv, HostsInv, TypeOK, RowStates, WorkerSteps
<1>4. WorkIsOwned'
  BY DEF Inspect, Turn, InFlight, WorksInv, WorkIsOwned, Does
<1>5. VerdictIsTrue'
  BY DEF Inspect, hostVars, WorksInv, VerdictIsTrue
<1>6. PendingVerdictIsTrue'
  BY DEF Inspect, Turn, hostVars, WorksInv, PendingVerdictIsTrue, Fits, Does
<1> QED BY <1>2, <1>3, <1>4, <1>5, <1>6 DEF WorksInv

(* Taking up a stop keeps it. *)
LEMMA StopWorks ==
  ASSUME WorksInv, NEW k \in Workers, NEW w \in Works, Stop(k, w)
  PROVE  WorksInv'
<1>1. UNCHANGED hostVars
  BY DEF Stop
<1>2. HostsInv'
  BY <1>1, HostsStutter DEF WorksInv
<1>3. TypeOK'
  BY <1>2 DEF pollVars, Stop, Turn, WorksInv, HostsInv, TypeOK, RowStates, Final, WorkerSteps
<1>4. WorkIsOwned'
  BY DEF Stop, Turn, InFlight, WorksInv, WorkIsOwned, Does
<1>5. VerdictIsTrue'
  BY DEF Stop, hostVars, WorksInv, VerdictIsTrue
<1>6. PendingVerdictIsTrue'
  BY DEF Stop, Turn, hostVars, WorksInv, PendingVerdictIsTrue, Fits, Does
<1> QED BY <1>2, <1>3, <1>4, <1>5, <1>6 DEF WorksInv

(* The remote process keeps it. *)
LEMMA LaunchProcessWorks ==
  ASSUME WorksInv, NEW k \in Workers, LaunchProcess(k)
  PROVE  WorksInv'
<1>1. UNCHANGED hostVars
  BY DEF LaunchProcess
<1>2. HostsInv'
  BY <1>1, HostsStutter DEF WorksInv
<1>3. TypeOK'
  BY <1>2 DEF pollVars, LaunchProcess, Turn, WorksInv, HostsInv, TypeOK, WorkIsOwned, Does, RowStates,
     ProcessStates, WorkerSteps
<1>4. WorkIsOwned'
  BY DEF LaunchProcess, Turn, WorksInv, TypeOK, WorkIsOwned, Does
<1>5. VerdictIsTrue'
  BY DEF LaunchProcess, hostVars, WorksInv, WorkIsOwned, VerdictIsTrue
<1>6. PendingVerdictIsTrue'
  BY DEF LaunchProcess, Turn, hostVars, WorksInv, WorkIsOwned, PendingVerdictIsTrue, Fits, Does
<1> QED BY <1>2, <1>3, <1>4, <1>5, <1>6 DEF WorksInv

(* The insertion of the row keeps it. *)
LEMMA RecordWorkloadWorks ==
  ASSUME WorksInv, NEW k \in Workers, RecordWorkload(k)
  PROVE  WorksInv'
<1>1. UNCHANGED hostVars
  BY DEF RecordWorkload
<1>2. HostsInv'
  BY <1>1, HostsStutter DEF WorksInv
<1>3. TypeOK'
  BY <1>2 DEF pollVars, RecordWorkload, Finish, Free, WorksInv, HostsInv, TypeOK, WorkIsOwned, Does,
     RowStates, WorkerSteps
<1>4. WorkIsOwned'
  BY WorksAssumption DEF RecordWorkload, Finish, Free, WorksInv, WorkIsOwned, Does
<1>5. VerdictIsTrue'
  BY DEF RecordWorkload, hostVars, WorksInv, VerdictIsTrue
<1>6. PendingVerdictIsTrue'
  BY DEF RecordWorkload, Finish, Free, hostVars, WorksInv, PendingVerdictIsTrue, Fits, Does
<1> QED BY <1>2, <1>3, <1>4, <1>5, <1>6 DEF WorksInv

(* Looking for the exit file keeps it. *)
LEMMA ObserveWorks ==
  ASSUME WorksInv, NEW k \in Workers, Observe(k)
  PROVE  WorksInv'
<1>1. UNCHANGED hostVars
  BY DEF Observe
<1>2. HostsInv'
  BY <1>1, HostsStutter DEF WorksInv
<1>3. TypeOK'
  BY <1>2 DEF pollVars, Observe, Turn, Verdict, WorksInv, HostsInv, TypeOK, RowStates, Final, WorkerSteps
<1>4. WorkIsOwned'
  BY DEF Observe, Turn, WorksInv, TypeOK, WorkIsOwned, Does
<1>5. VerdictIsTrue'
  BY DEF Observe, hostVars, WorksInv, VerdictIsTrue
<1>6. PendingVerdictIsTrue'
  BY DEF Observe, Turn, Verdict, hostVars, WorksInv, TypeOK, PendingVerdictIsTrue, Fits, Does
<1> QED BY <1>2, <1>3, <1>4, <1>5, <1>6 DEF WorksInv

(* Looking for the process keeps it. *)
LEMMA ProbeWorks ==
  ASSUME WorksInv, NEW k \in Workers, Probe(k)
  PROVE  WorksInv'
<1>1. UNCHANGED hostVars
  BY DEF Probe
<1>2. HostsInv'
  BY <1>1, HostsStutter DEF WorksInv
<1>3. TypeOK'
  BY <1>2 DEF pollVars, Probe, Turn, WorksInv, HostsInv, TypeOK, RowStates, WorkerSteps
<1>4. WorkIsOwned'
  BY DEF Probe, Turn, WorksInv, WorkIsOwned, Does
<1>5. VerdictIsTrue'
  BY DEF Probe, hostVars, WorksInv, VerdictIsTrue
<1>6. PendingVerdictIsTrue'
  BY DEF Probe, Turn, hostVars, WorksInv, PendingVerdictIsTrue, Fits, Does
<1> QED BY <1>2, <1>3, <1>4, <1>5, <1>6 DEF WorksInv

(* Writing the verdict keeps it. *)
LEMMA UpdateWorkloadWorks ==
  ASSUME WorksInv, NEW k \in Workers, UpdateWorkload(k)
  PROVE  WorksInv'
<1>1. UNCHANGED hostVars
  BY DEF UpdateWorkload
<1>2. HostsInv'
  BY <1>1, HostsStutter DEF WorksInv
<1>3. TypeOK'
  <2>1. /\ row' \in [Works -> RowStates]
        /\ UNCHANGED <<process, polling, due, rest>>
    BY DEF pollVars, UpdateWorkload, WorksInv, TypeOK
  <2>2. worker' \in [Workers -> [pc : WorkerSteps, work : Works \cup {NoWork}, verdict : RowStates]]
    BY DEF UpdateWorkload, Turn, Finish, Free, WorksInv, TypeOK, WorkIsOwned, Does, RowStates,
       WorkerSteps
  <2> QED BY <1>2, <2>1, <2>2 DEF WorksInv, HostsInv, TypeOK
<1>4. WorkIsOwned'
  <2>1. /\ Does(k, "update") /\ worker[k].work \in Works /\ process[worker[k].work] # "none"
        /\ WorkIsOwned /\ UNCHANGED process
    BY DEF UpdateWorkload, WorksInv, WorkIsOwned, Does
  <2>2. /\ \A j \in Workers \ {k} : worker'[j] = worker[j]
        /\ \/ worker'[k].pc = "idle"
           \/ worker'[k].pc = "logs" /\ worker'[k].work = worker[k].work
    <3>1. worker = [j \in Workers |-> worker[j]]
      BY DEF WorksInv, TypeOK
    <3>2. CASE Turn(k, "logs", worker[k].work, worker[k].verdict)
      BY <3>1, <3>2 DEF Turn
    <3>3. CASE Finish(k)
      <4>1. worker' = [worker EXCEPT ![k] = Free]
        BY <3>3 DEF Finish
      <4>2. worker'[k] = Free /\ \A j \in Workers \ {k} : worker'[j] = worker[j]
        BY <3>1, <4>1
      <4>3. Free.pc = "idle"
        BY DEF Free
      <4> QED BY <4>2, <4>3
    <3> QED BY <3>2, <3>3 DEF UpdateWorkload
  <2>3. \A w \in Works : w # worker[k].work => row'[w] = row[w]
    BY DEF UpdateWorkload, WorksInv, TypeOK
  <2>4. \A j \in Workers :
           /\ ~Does(j, "idle")' => worker'[j].work \in Works
           /\ Does(j, "launch")' =>
                 /\ process'[worker'[j].work] = "none"
                 /\ \A i \in Workers : i # j => worker'[i].work # worker'[j].work
           /\ ~Does(j, "idle")' /\ ~Does(j, "launch")' => process'[worker'[j].work] # "none"
    <3>1. CASE worker'[k].pc = "idle"
      <4>1. worker'[k].work = NoWork
        BY <3>1 DEF UpdateWorkload, Turn, Finish, Free, WorksInv, TypeOK
      <4> QED BY <2>1, <2>2, <3>1, <4>1, WorksAssumption DEF WorkIsOwned, Does
    <3>2. CASE worker'[k].pc = "logs" /\ worker'[k].work = worker[k].work
      BY <2>1, <2>2, <3>2 DEF WorkIsOwned, Does
    <3> QED BY <2>2, <3>1, <3>2
  <2> QED BY <2>1, <2>3, <2>4 DEF WorkIsOwned
<1>5. VerdictIsTrue'
  BY DEF UpdateWorkload, hostVars, WorksInv, VerdictIsTrue, PendingVerdictIsTrue, Fits
<1>6. PendingVerdictIsTrue'
  BY DEF UpdateWorkload, Turn, Finish, Free, hostVars, WorksInv, TypeOK, PendingVerdictIsTrue,
     Fits, Does
<1> QED BY <1>2, <1>3, <1>4, <1>5, <1>6 DEF WorksInv

(* Copying the logs keeps it. *)
LEMMA SyncLogsWorks ==
  ASSUME WorksInv, NEW k \in Workers, SyncLogs(k)
  PROVE  WorksInv'
<1>1. UNCHANGED hostVars
  BY DEF SyncLogs
<1>2. HostsInv'
  BY <1>1, HostsStutter DEF WorksInv
<1>3. TypeOK'
  BY <1>2 DEF pollVars, SyncLogs, Finish, Free, WorksInv, HostsInv, TypeOK, RowStates, WorkerSteps
<1>4. WorkIsOwned'
  BY WorksAssumption DEF SyncLogs, Finish, Free, WorksInv, WorkIsOwned, Does
<1>5. VerdictIsTrue'
  BY DEF SyncLogs, hostVars, WorksInv, VerdictIsTrue
<1>6. PendingVerdictIsTrue'
  BY DEF SyncLogs, Finish, Free, hostVars, WorksInv, PendingVerdictIsTrue, Fits, Does
<1> QED BY <1>2, <1>3, <1>4, <1>5, <1>6 DEF WorksInv

(* Writing the row again keeps it. *)
LEMMA LogSyncFailsWorks ==
  ASSUME WorksInv, NEW k \in Workers, LogSyncFails(k)
  PROVE  WorksInv'
<1>1. UNCHANGED hostVars
  BY DEF LogSyncFails
<1>2. HostsInv'
  BY <1>1, HostsStutter DEF WorksInv
<1>3. TypeOK'
  BY <1>2 DEF pollVars, LogSyncFails, Finish, Free, WorksInv, HostsInv, TypeOK, WorkIsOwned, Does,
     RowStates, WorkerSteps
<1>4. WorkIsOwned'
  BY WorksAssumption DEF LogSyncFails, Finish, Free, WorksInv, WorkIsOwned, Does
<1>5. VerdictIsTrue'
  BY DEF LogSyncFails, hostVars, WorksInv, VerdictIsTrue, PendingVerdictIsTrue, Fits
<1>6. PendingVerdictIsTrue'
  BY DEF LogSyncFails, Finish, Free, hostVars, WorksInv, PendingVerdictIsTrue, Fits, Does
<1> QED BY <1>2, <1>3, <1>4, <1>5, <1>6 DEF WorksInv

(* Killing the process keeps it. *)
LEMMA KillWorks ==
  ASSUME WorksInv, NEW k \in Workers, Kill(k)
  PROVE  WorksInv'
<1>1. UNCHANGED hostVars
  BY DEF Kill
<1>2. HostsInv'
  BY <1>1, HostsStutter DEF WorksInv
<1>3. TypeOK'
  BY <1>2 DEF pollVars, Kill, Turn, WorksInv, HostsInv, TypeOK, WorkIsOwned, Does, RowStates, Final,
     ProcessStates, WorkerSteps
<1>4. WorkIsOwned'
  BY DEF Kill, Turn, WorksInv, WorkIsOwned, Does
<1>5. VerdictIsTrue'
  BY DEF Kill, hostVars, WorksInv, VerdictIsTrue
<1>6. PendingVerdictIsTrue'
  BY DEF Kill, Turn, hostVars, WorksInv, TypeOK, WorkIsOwned, PendingVerdictIsTrue, Fits, Does,
     ProcessStates
<1> QED BY <1>2, <1>3, <1>4, <1>5, <1>6 DEF WorksInv

(* The death of a worker keeps it. *)
LEMMA WorkerDiesWorks ==
  ASSUME WorksInv, NEW k \in Workers, WorkerDies(k)
  PROVE  WorksInv'
<1>1. UNCHANGED hostVars
  BY DEF WorkerDies
<1>2. HostsInv'
  BY <1>1, HostsStutter DEF WorksInv
<1>3. TypeOK'
  BY <1>2 DEF pollVars, WorkerDies, Finish, Free, WorksInv, HostsInv, TypeOK, RowStates, WorkerSteps
<1>4. WorkIsOwned'
  BY WorksAssumption DEF WorkerDies, Finish, Free, WorksInv, WorkIsOwned, Does
<1>5. VerdictIsTrue'
  BY DEF WorkerDies, hostVars, WorksInv, VerdictIsTrue
<1>6. PendingVerdictIsTrue'
  BY DEF WorkerDies, Finish, Free, hostVars, WorksInv, PendingVerdictIsTrue, Fits, Does
<1> QED BY <1>2, <1>3, <1>4, <1>5, <1>6 DEF WorksInv

(* The start of a poll keeps it. *)
LEMMA PollWorks ==
  ASSUME WorksInv, Poll
  PROVE  WorksInv'
<1>1. UNCHANGED hostVars
  BY DEF Poll
<1>2. HostsInv'
  BY <1>1, HostsStutter DEF WorksInv
<1>3. TypeOK'
  BY <1>2 DEF Poll, WorksInv, HostsInv, TypeOK
<1>4. WorkIsOwned'
  BY DEF Poll, WorksInv, WorkIsOwned, Does
<1>5. VerdictIsTrue'
  BY DEF Poll, hostVars, WorksInv, VerdictIsTrue
<1>6. PendingVerdictIsTrue'
  BY DEF Poll, hostVars, WorksInv, PendingVerdictIsTrue, Fits, Does
<1> QED BY <1>2, <1>3, <1>4, <1>5, <1>6 DEF WorksInv

(* The end of the monitor's thread keeps it. *)
LEMMA PollRaisesWorks ==
  ASSUME WorksInv, PollRaises
  PROVE  WorksInv'
<1>1. UNCHANGED hostVars
  BY DEF PollRaises
<1>2. HostsInv'
  BY <1>1, HostsStutter DEF WorksInv
<1>3. TypeOK'
  BY <1>2 DEF PollRaises, WorksInv, HostsInv, TypeOK
<1>4. WorkIsOwned'
  BY DEF PollRaises, WorksInv, WorkIsOwned, Does
<1>5. VerdictIsTrue'
  BY DEF PollRaises, hostVars, WorksInv, VerdictIsTrue
<1>6. PendingVerdictIsTrue'
  BY DEF PollRaises, hostVars, WorksInv, PendingVerdictIsTrue, Fits, Does
<1> QED BY <1>2, <1>3, <1>4, <1>5, <1>6 DEF WorksInv

(* The inspection of a machine keeps it. *)
LEMMA PollHostWorks ==
  ASSUME WorksInv, NEW h \in Hosts, PollHost(h)
  PROVE  WorksInv'
<1>1. UNCHANGED hostVars
  BY DEF PollHost
<1>2. HostsInv'
  BY <1>1, HostsStutter DEF WorksInv
<1>3. TypeOK'
  BY <1>2 DEF PollHost, WorksInv, HostsInv, TypeOK
<1>4. WorkIsOwned'
  BY DEF PollHost, WorksInv, WorkIsOwned, Does
<1>5. VerdictIsTrue'
  BY DEF PollHost, hostVars, WorksInv, VerdictIsTrue
<1>6. PendingVerdictIsTrue'
  BY DEF PollHost, hostVars, WorksInv, PendingVerdictIsTrue, Fits, Does
<1> QED BY <1>2, <1>3, <1>4, <1>5, <1>6 DEF WorksInv

(* An inspection that fails keeps it. *)
LEMMA SkipHostWorks ==
  ASSUME WorksInv, NEW h \in Hosts, SkipHost(h)
  PROVE  WorksInv'
<1>1. UNCHANGED hostVars
  BY DEF SkipHost
<1>2. HostsInv'
  BY <1>1, HostsStutter DEF WorksInv
<1>3. TypeOK'
  BY <1>2 DEF SkipHost, WorksInv, HostsInv, TypeOK
<1>4. WorkIsOwned'
  BY DEF SkipHost, WorksInv, WorkIsOwned, Does
<1>5. VerdictIsTrue'
  BY DEF SkipHost, hostVars, WorksInv, VerdictIsTrue
<1>6. PendingVerdictIsTrue'
  BY DEF SkipHost, hostVars, WorksInv, PendingVerdictIsTrue, Fits, Does
<1> QED BY <1>2, <1>3, <1>4, <1>5, <1>6 DEF WorksInv

(* The monitor's next inspection keeps it. *)
LEMMA InspectNextWorks ==
  ASSUME WorksInv, NEW h \in Hosts, NEW w \in rest[h], InspectNext(h, w)
  PROVE  WorksInv'
<1>1. UNCHANGED hostVars
  BY DEF InspectNext
<1>2. HostsInv'
  BY <1>1, HostsStutter DEF WorksInv
<1>3. PICK k \in Workers : k = MonitorOf[h]
  BY WorksAssumption
<1>4. w \in Works
  BY DEF WorksInv, TypeOK
<1>5. TypeOK'
  <2>1. /\ rest' \in [Hosts -> SUBSET Works]
        /\ UNCHANGED <<process, row, polling, due>>
    BY DEF InspectNext, WorksInv, TypeOK
  <2>2. worker' \in [Workers -> [pc : WorkerSteps, work : Works \cup {NoWork}, verdict : RowStates]]
    BY <1>3, <1>4 DEF InspectNext, Turn, WorksInv, TypeOK, RowStates, WorkerSteps
  <2> QED BY <1>2, <2>1, <2>2 DEF WorksInv, HostsInv, TypeOK
<1>6. WorkIsOwned'
  <2>1. /\ WorkIsOwned /\ UNCHANGED <<process, row>> /\ Does(k, "idle")
    BY <1>3 DEF InspectNext, WorksInv
  <2>2. \A j \in Workers \ {k} : worker'[j] = worker[j]
    BY <1>3 DEF InspectNext, Turn, WorksInv, TypeOK
  <2>3. \/ worker' = worker
        \/ worker'[k].pc = "observe" /\ worker'[k].work = w /\ process[w] # "none"
    <3>1. CASE ~InFlight(w)
      BY <3>1 DEF InspectNext
    <3>2. CASE InFlight(w)
      <4>1. process[w] # "none"
        BY <1>4, <2>1, <3>2 DEF InFlight, WorkIsOwned
      <4>2. worker'[k].pc = "observe" /\ worker'[k].work = w
        BY <1>3, <3>2 DEF InspectNext, Turn, WorksInv, TypeOK
      <4> QED BY <4>1, <4>2
    <3> QED BY <3>1, <3>2
  <2> QED BY <1>4, <2>1, <2>2, <2>3 DEF WorkIsOwned, Does
<1>7. VerdictIsTrue'
  BY DEF InspectNext, hostVars, WorksInv, VerdictIsTrue
<1>8. PendingVerdictIsTrue'
  <2>1. PendingVerdictIsTrue /\ UNCHANGED <<instance, process>>
    BY DEF InspectNext, hostVars, WorksInv
  <2>2. /\ \A j \in Workers \ {k} : worker'[j] = worker[j]
        /\ worker'[k] = worker[k] \/ worker'[k].pc = "observe"
    BY <1>3 DEF InspectNext, Turn, WorksInv, TypeOK
  <2> QED BY <1>3, <2>1, <2>2 DEF PendingVerdictIsTrue, Fits, Does
<1> QED BY <1>2, <1>5, <1>6, <1>7, <1>8 DEF WorksInv

(* An inspection of the monitor's that fails keeps it. *)
LEMMA InspectFailsWorks ==
  ASSUME WorksInv, NEW h \in Hosts, InspectFails(h)
  PROVE  WorksInv'
<1>1. UNCHANGED hostVars
  BY DEF InspectFails
<1>2. HostsInv'
  BY <1>1, HostsStutter DEF WorksInv
<1>3. PICK k \in Workers : k = MonitorOf[h]
  BY WorksAssumption
<1>4. TypeOK'
  <2>1. rest' \in [Hosts -> SUBSET Works]
    BY DEF InspectFails, WorksInv, TypeOK
  <2>2. worker' \in [Workers -> [pc : WorkerSteps, work : Works \cup {NoWork}, verdict : RowStates]]
    BY <1>3 DEF InspectFails, Finish, Free, WorksInv, TypeOK, RowStates, WorkerSteps
  <2> QED BY <1>2, <2>1, <2>2 DEF InspectFails, WorksInv, HostsInv, TypeOK
<1>5. WorkIsOwned'
  BY <1>3, WorksAssumption DEF InspectFails, Finish, Free, WorksInv, WorkIsOwned, Does
<1>6. VerdictIsTrue'
  BY DEF InspectFails, hostVars, WorksInv, VerdictIsTrue
<1>7. PendingVerdictIsTrue'
  BY <1>3 DEF InspectFails, Finish, Free, hostVars, WorksInv, PendingVerdictIsTrue, Fits, Does
<1> QED BY <1>2, <1>4, <1>5, <1>6, <1>7 DEF WorksInv

(* The end of the process keeps it. *)
LEMMA ExitWorks ==
  ASSUME WorksInv, NEW w \in Works, Exit(w)
  PROVE  WorksInv'
<1>1. UNCHANGED hostVars
  BY DEF Exit
<1>2. HostsInv'
  BY <1>1, HostsStutter DEF WorksInv
<1>3. TypeOK'
  BY <1>2 DEF pollVars, Exit, WorksInv, HostsInv, TypeOK, ProcessStates
<1>4. WorkIsOwned'
  BY DEF Exit, WorksInv, WorkIsOwned, Does
<1>5. VerdictIsTrue'
  BY DEF Exit, hostVars, WorksInv, VerdictIsTrue
<1>6. PendingVerdictIsTrue'
  BY DEF Exit, hostVars, WorksInv, PendingVerdictIsTrue, Fits, Does
<1> QED BY <1>2, <1>3, <1>4, <1>5, <1>6 DEF WorksInv


(* The workloads' invariant is inductive, for every number of workers. *)
THEOREM WorksInductive == FleetSpec => []WorksInv
<1>1. Init => WorksInv
  BY HostsInitially DEF Init, Free, WorksInv, HostsInv, TypeOK, WorkIsOwned, VerdictIsTrue,
     PendingVerdictIsTrue, Does, RowStates, ProcessStates, WorkerSteps
<1>2. WorksInv /\ [NextOfAll]_vars => WorksInv'
  <2> SUFFICES ASSUME WorksInv, [NextOfAll]_vars
               PROVE  WorksInv'
    OBVIOUS
  <2>1. ASSUME NEW k \in Workers, NEW w \in Works, Start(k, w) \/ Inspect(k, w) \/ Stop(k, w)
        PROVE  WorksInv'
    BY <2>1, StartWorks, InspectWorks, StopWorks
  <2>2. ASSUME NEW k \in Workers, WorkerStep(k) \/ WorkerDies(k)
        PROVE  WorksInv'
    BY <2>2, LaunchProcessWorks, RecordWorkloadWorks, ObserveWorks, ProbeWorks,
       UpdateWorkloadWorks, SyncLogsWorks, LogSyncFailsWorks, KillWorks, WorkerDiesWorks DEF
       WorkerStep
  <2>3. ASSUME NEW w \in Works, Exit(w)
        PROVE  WorksInv'
    BY <2>3, ExitWorks
  <2>5. ASSUME PollNext
        PROVE  WorksInv'
    BY <2>5, PollWorks, PollRaisesWorks, PollHostWorks, SkipHostWorks, InspectNextWorks,
       InspectFailsWorks DEF PollNext, HostPoll
  <2>4. CASE UNCHANGED vars
    <3>1. HostsInv'
      BY <2>4, HostsStutter DEF vars, WorksInv
     <3> QED BY <2>4, <3>1 DEF vars, workVars, pollVars, hostVars, WorksInv, HostsInv, TypeOK,
               WorkIsOwned, VerdictIsTrue, PendingVerdictIsTrue, Fits, Does
   <2> QED BY <2>1, <2>2, <2>3, <2>4, <2>5, HostsNextWorks, StopHostWorkloadsWorks DEF NextOfAll,
             WorkNext
<1> QED BY <1>1, <1>2, PTL DEF FleetSpec

(* TypeOK: the types of the composition's state. *)
THEOREM FleetTypes == FleetSpec => []TypeOK
<1>1. WorksInv => TypeOK
  BY DEF WorksInv
<1> QED BY <1>1, WorksInductive, PTL

(* VerdictIsTrue: a row says what became of its process, however many      *)
(* workers and terminations write it, and however old their answers are. *)
THEOREM VerdictsAreTrue == FleetSpec => []VerdictIsTrue
<1>1. WorksInv => VerdictIsTrue
  BY DEF WorksInv
<1> QED BY <1>1, WorksInductive, PTL

=============================================================================
