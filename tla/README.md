# The Compute Bazaar: TLA+ models, checks and proofs

The Compute Bazaar collects prices of rented GPUs and sandboxes, publishes them as
immutable generations of tables, and lets one operator rent machines, watch them and
run workloads on them from a command line and a local terminal server. This directory
models the parts of it where an error costs money or loses published data (the
launches and their recovery, the rented machines and their workloads, the publication
under a lease, the hourly market run, the release and the local copy of the market's
lake), the terminal's shared sessions, and the market that a benchmark rollout plays
against. Paths below are relative to
`src/src/the_compute_bazaar/` unless they start with another directory of the
repository.

## 1. Inventory

### Components, their state and how they interact

| component | code | state | operations |
|---|---|---|---|
| Provisioning ledger | `operations.py` | SQLite tables `provisioning_requests`, `provisioning_attempts`, `allocations` (also offers, telemetry, workload rows) | `begin_provisioning`, `complete_provisioning_attempt`, `complete_allocation`, `reconcile_attempt`, `record_machine_state` |
| Launch executors | `provider_execution.py`, `market/launch.py` | a process per command | RunPod `launch run`, the Sesterce launcher, `wait` |
| Reconciliation | `provider_execution.py` | a process per command | `launch reconcile [--confirm-absent]` |
| Providers (external) | RunPod CLI, Sesterce REST | pods and instances | create, list, describe, delete; deadlines |
| Fleet registry | `fleet/registry.py` | `hosts.json` | `load`, `put` (read the whole file, replace the whole file) |
| Fleet commands | `market/launch.py`, `provider_execution.py` | a process per command | refresh, terminate |
| Fleet workloads | `fleet/workloads.py` | `workload_runs` rows; the remote process and its `exit_code` file | `start`, `inspect`, `logs`, `stop`, `stop_host_workloads` |
| Fleet monitor | `fleet/monitor.py`, `terminal/fleet_workspace.py` | a thread of the terminal | polls every running host every five seconds |
| Fleet inspection, health, SSH | `fleet/service.py`, `fleet/inspect.py`, `fleet/ssh.py` | telemetry rows | inspect, attach |
| Launch planning | `provisioning.py`, `offers.py` | none | plans, quotes |
| Publication lease | `prices/leases.py` | one S3 object, one ETag | `exclusive_lease`, `_s3_exclusive_lease`; for a local path an `flock` |
| Workload benchmark publication | `sandbox_cost/refresh_operational.py` | generation objects, `latest.json` | capture, check, publish |
| Sandbox cost build | `sandbox_cost/*` | silver and gold tables | staged build under the same lease |
| Market snapshot lake | `market/*` | a local directory: the objects of each run, `latest.json`, `portable.json`, `index.json` | `market ingest`; the recording before a Sesterce launch |
| Hourly market run | `prices/market_run*.py` | run records, `market-run.json` | ask every provider, judge the cohort, build, export, announce |
| Prices | `prices/ingestion.py`, `manifest.py`, `gold*.py`, `public_exports.py` and others | per provider: offers and a latest manifest; gold tables with a history in parts, a latest gold manifest; cards | parse, normalise, SQL, export |
| Portable lake | `portable_lake.py` | the public copy: objects, latest manifest, `index.json` | build in a temporary directory, upload |
| Public synchronisation | `data_sync.py` | the cached lake and `.previous` | download, verify, swap |
| Releases | `data_release.py` | a release of archives and one index | pack, upload with `--clobber` |
| Catalog, analyses | `data_catalog.py`, `analysis_store.py` | files | query |
| Terminal server, mailbox | `terminal/server.py`, `terminal/commands.py` | launch mailbox of twenty | publish, claim, complete |
| Terminal agents | `terminal/agents.py` | sessions, event lists, subscriber queues | start, cancel, reset, close, subscribe |
| Terminal shell | `terminal/shell.py` | PTY, bounded output buffer with absolute cursors | read, write, clear, close |
| Terminal lifecycle and pages, command line | `terminal/*`, `cli.py` | pid file, none | start, stop, render |
| Broker market | `src/compute-bazaar-bench/evals/reliability-is-blind/harbor/environment/market-sidecar/` | a market of suppliers, counters, attempts, one ledger file | reset, read, select, snapshot; `tests/verify.py` replays the ledger |
| Evaluation tooling and viewer, deployment, desktop window | the rest of `src/compute-bazaar-bench`, `src/infra`, `src/terminal/src-tauri` | none of the program's | - |

The interactions that matter:

* `launch run` writes the ledger, calls the provider, writes the ledger again and then
  `hosts.json`: four stores, no transaction across them. `launch reconcile` repairs
  the first two after the fact.
* Every fleet command and the terminal's monitor are separate processes or threads
  that share `hosts.json` (whole file, no lock), the ledger (row updates) and the
  machines (SSH). `fleet terminate` writes the provider, the file, the allocation and
  the workload rows, in this order.
* Scheduled publishers run as separate jobs and share S3; the lease object is the only
  thing that serialises them, and what they write does not carry its token.
* The hourly market run writes per-provider manifests, the gold manifest, the cards, the
  portable lake and its announcement, in this order and with nothing around it: no lease
  keeps two runs apart. `data publish` packs the portable lake into a release, and
  `data sync` replaces the local copy by it, which the terminal reads.
* A command hands a launch to the terminal's mailbox; every open page polls it, one
  claims it and reports what became of it, and the command waits for that.
* Every page of the terminal has queues of messages on the server, which is one event
  loop; the shell has one thread that reads its PTY.
* An agent under evaluation reads and places deals through the broker market's service,
  which answers under one lock and writes one ledger, that the verifier judges.

### Hard behaviours, and what makes each part correct

* **Provisioning.** Lost and late answers of a create call, processes killed between
  any two of the stores, retries, overlapping reconcile commands, pods matched by name
  and time. Correct when a request is never tried again while an outcome is open, two
  pods are paid for one request only if an operator vouched for the first one's absence,
  the three tables agree, and a machine that is listed can be traced to its allocation.
* **Fleet.** Overlapping read-modify-write of `hosts.json`; answers of a provider used
  after a later termination. Correct when nothing that is still paid for is called
  terminated, and no rented machine is lost from sight.
* **Workloads.** A row written as a whole from an old answer by several processes;
  the process ends between the two tests of the status script; a poll of the monitor that
  skips a machine or some of its workloads after an error. Correct when a final row says
  what became of the process and every finished workload gets its verdict.
* **Publication.** Conditional puts whose answers are lost, leases outlasted, crashes
  between objects. Correct when publishers are serialised, `latest` only names a whole
  generation, and no published row is removed or changed.
* **Hourly market run.** Providers fail alone and leave their older manifests behind; a
  run is killed between any two outputs and repeated under its id, perhaps on another UTC
  day; two runs overlap. Correct when what a reader is pointed to exists, tables price what their own run has
  observed, the history only grows, and what is announced is what is served.
* **Snapshot lake.** Writers of one object share its temporary name, so one can empty or
  rename what another is writing; a killed ingest leaves a temporary file and three objects
  of which some are new. Correct when what a reader opens is whole, a generation that can
  be read has all of its objects, and the index lists what is there.
* **Release, synchronisation.** Objects that are deleted and then uploaded; two renames
  that only together replace the cache; a backup with one name for all syncs; Ctrl-C,
  which no handler sees. Correct when the served index names an archive that can be had,
  the terminal never reads half of a lake, and a lake that was downloaded is not lost.
* **Mailbox.** Eviction at a limit; many pages that see one launch; a claim carried over
  a navigation; an old document that goes on until it is unloaded; requests that fail
  although the server has handled them. Correct when an action runs at most once, its
  command is told the truth as far as the page knows it, and the newest launch is answered.
* **Agent and shell.** A stream rebuilt from a snapshot when a queue is full, and refusals
  that overtake it; dictionaries shared with the queues; cursors into a trimmed buffer;
  programs that outlive their shell. Correct when a page that was sent everything shows
  the session, the calls of a tool have one row, a page's screen has no hole in it, and a
  running shell is the current one.
* **Broker market.** Several limits that meet; ruin, arrivals and replenishment in one
  step; a snapshot whose write fails. Correct when the ledger is the whole rollout and
  passes its verifier, there are always suppliers to choose from, nobody is ruined
  without cause, and a rollout ends for one reason.

`PROJECT.json` lists every hazard at its line, with the properties that cover it.

## 2. The modules

| module | extends | what it models |
|---|---|---|
| `Acquisition` | - | what paid launching promises, abstractly |
| `Provisioning` | - | ledger, launch executors, reconcilers, providers |
| `ProvisioningOneReconciler` | `Provisioning` | the inductive invariant, under one reconcile command at a time |
| `ProvisioningProofs` | the above, TLAPS | its theorems |
| `Lease` | - | the S3 lease, without what is done under it |
| `WorkloadPublication` | `Lease` | the transaction of the workload benchmark publication |
| `PublicationProofs` | `MCPublication`, TLAPS | theorems of both, and of its two environments |
| `FleetHosts` | - | instances, allocations' states, `hosts.json`, the commands |
| `FleetWorkloads` | `FleetHosts` | remote processes, workload rows, CLI workers and the monitor |
| `FleetProofs` | the above, TLAPS | theorems of both |
| `MarketFeed` | - | the hourly market run: providers, gold tables, cards, portable lake |
| `FeedProofs` | `MarketFeed`, TLAPS | its theorems |
| `LakeCache` | - | the release of the lake and the local copy that `data sync` replaces |
| `MarketSnapshots` | - | the market snapshot lake: ingests, temporary files, the three shared objects |
| `LakeProofs` | `LakeCache`, `MarketSnapshots`, TLAPS | theorems of both |
| `LaunchMailbox` | - | the mailbox, the pages that poll it, the commands that wait |
| `MailboxProofs` | `LaunchMailbox`, TLAPS | its theorems |
| `AgentSession` | - | the agent's session, its queues and the pages that show it |
| `TerminalShell` | - | the shell, its bounded transcript, its readers and screens |
| `TerminalProofs` | `AgentSession`, `TerminalShell`, TLAPS | theorems of both |
| `BrokerMarket` | - | the market, its service with the ledger, and the verifier |
| `MarketProofs` | `BrokerMarket`, TLAPS | its theorems |
| `MCProvisioning`, `MCProvisioningRace`, `MCPublication`, `MCFleetHosts`, `MCFleetWorkloads` | one each | instances for TLC |
| `MCTerminal` | `AgentSession`, `TerminalShell` | an instance of both, one at a time |
| `MCParts` | `LaunchMailbox`, `LakeCache`, `BrokerMarket`, `MarketFeed`, `MarketSnapshots` | an instance of the five, one at a time |

Modules that an `MC` module takes together share no variables; a behaviour follows one of
them while the others stand still.

### Provisioning

State and code:

| variable | code |
|---|---|
| `plan` | what the launch plan of a request fixes: the connector and the machine name, from the instance's `Plans`; names may recur (`--name`, `cli.py:872`) |
| `requestState`, `attemptState`, `attemptPod`, `allocation` | the columns of the three tables that the operations read or write; a succeeded attempt and its allocation row name one `provider_resource_id` |
| `registry` | `hosts.json`, as far as launches write it: pod to allocation |
| `create`, `podState`, `podFor` | the provider: a create call that was sent may still be executed, after the caller gave up |
| `older`, `confirmed` | history: the pods a request's attempt found existing at its start (what the creation time comparison tells apart), and what operators declared with `--confirm-absent` |
| `executor`, `reconciler` | program counters and locals of the processes |

One step is one transaction, one provider call or one file write. `begin_provisioning`
opens its transaction with `BEGIN IMMEDIATE`, so check and insertion are one step.
`reconcile_attempt` and `complete_allocation` read first, and Python's `sqlite3` opens
their transaction at the first `UPDATE`: a reconciler's check (`CheckAbsent`,
`CheckRecover`) and its write (`WriteFailed`, `WriteAllocation`) are two steps. For an
executor they are one step, because only the executor that inserted an attempt writes
it while it is pending. The unique `request_id` of `allocations` is the guard of
`WriteAllocation`. Killing a process, and an exception that ends it, is
`ExecutorDies`/`ReconcilerDies`, possible between any two steps. Nothing makes an executor
go on: RunPod's create runs without a time limit (`provider_execution.py:167`, `515-530`),
so a launch may wait for ever, and no property says that it ends. (Sesterce's calls have
time limits, `market/sources/sesterce.py:61`, `102`.)

Abstracted: ids, names and prices are model values; the two provider paths differ in
what they record for a refusal (RunPod recognises it as a failure, Sesterce records
every exception as uncertain) and in that only RunPod can be reconciled. The branch of
`reconcile` that recovers an attempt that succeeded without an allocation is in the
guards (`Reconcilable`) but not reachable: both rows are written in one transaction.

`Acquisition` is the promise: try, lose sight, fail, acquire, one resource per request
that is then kept. `ImplementsAcquisition` maps a request's row to its state and its
allocation to its resource.

### Publication

`Lease` follows `_s3_exclusive_lease` step by step: the token and the expiry are
fixed (`Start`), the object is read (`Get`, `GetBusy`), put conditionally on what was
read (`Put`, `PutRefused`), the answer may be lost after the effect (`PutUnanswered`),
and the `finally` releases only an object that is still its own (`Release`).
An ETag is a digest of the payload and the payload contains a fresh token, so comparing
ETags is comparing objects. Publishers' clocks are taken to agree. `Outlasting` says
whether a transaction may take longer than the time to live; the code has no renewal.

`WorkloadPublication` adds the transaction of `_publish_operational_benchmark`: read the
published generation and refuse a rewrite of it (`Check`), write the objects of the new
generation one by one (`WritePart`), then `latest` (`WriteLatest`). What is captured is
any set of rows at any time. `Unreadable` says whether the read of `latest.json` may
fail with an `OSError`, which `read_optional_json` takes for its absence (`CheckUnread`).

### Fleet

`FleetHosts` has the provider's instance, the state in the ledger's allocation and the
state in `hosts.json` per machine. A `put` is two steps (`ReadFile` keeps the whole file
in the command's memory, `ReplaceFile` writes it back with its own machine replaced). A
launch's wait, a refresh and a termination are sequences of such steps that end where
their code ends; only Sesterce launches ask more than once. "running" stands for a
machine that runs with a known SSH endpoint, "unknown" for one that runs without it and
for the states `stopped` and `unknown`, which the code treats alike where the properties
look. `Launch` is the end of module `Provisioning`: the allocation is already stored.

A command also remembers in which state it found its machine (`found`), of which only
properties speak.

`FleetWorkloads` composes it with the workloads. A worker is a CLI command, or the
monitor's thread for one machine. `inspect` reads a row, runs the status script (`Observe` tests the exit
file, `Probe` the process, which may have ended in between), writes the whole row
(`UpdateWorkload`) and on a verdict copies the logs, whose failure writes the row a
second time. `stop` kills the process group before it writes. The last step of a
termination stops the machine's rows (`StopHostWorkloads`). Log contents are left out.

A poll of the monitor (`Poll`) takes the running machines of `hosts.json` in `due`. For
each, `service.monitor` succeeds and the workloads in flight come next (`PollHost`, `rest`),
or raises, and then they are not looked at in this poll (`SkipHost`, `monitor.py:88-92`).
`InspectNext` takes up the next workload. An inspection that fails goes on to the one after
it, unless `subprocess.TimeoutExpired` was raised, which `refresh_host` does not catch
(`workloads.py:254-257`): the rest of the machine is dropped (`InspectFails`). An exception
out of `poll_once` itself ends the thread for good (`PollRaises`, `monitor.py:94-97`).

### Hourly market run

`MarketFeed` has the objects of the private lake (`offers`, the latest manifest of each
provider in `silver`, `tables`, the latest manifest in `gold`), the public ones
(`public`), and per run id what its process does (`run`). An object is replaced as a
whole, so an action is what lies between two puts that others can tell apart. A run asks
the providers in their order; one that fails, before its offers are stored or after, is
left out of the cohort, and one that answers with nothing becomes the latest manifest of
its provider all the same. `Judge` is the publication policy. `ReadGold` takes a failed
read for a missing manifest (`gold.py:97`), `ReadSources` reads what is the latest by
then, `WriteTables` appends the part of the run and day to the history unless it is in it. The cards
and the portable lake are each made of the gold manifest that is the latest when they
begin. `publish_portable_lake` uploads in the order of the names, the index at the end;
the objects that have no run in their name (`latest`, `offers`) are replaced in place.

The names of offers, tables and history parts have the UTC date they were observed on
beside the run (`prices/storage.py:278-295`): `Editions`. A run that goes on over midnight
(`Midnight`) dates its tables by the last of its providers (`gold.py:125`), and one that is
repeated on another day writes other objects and adds another part to the history, for
`retained_history_refs` compares whole names (`gold_sources.py:47`).

Left out: the conversion of a history from before it was kept in parts; the latest record
of a run, which only commands read.

### Market snapshot lake

`MarketSnapshots` has the objects that are named by their run (`objects`; each has one
writer, so its write is one step, `StoreObject`) and the three that every ingest replaces
(`Shared`). For these `target` and `temporary` say which file has the object's name and
which has its temporary name, and `bytes` what a file holds: the bytes of one ingest,
nothing, or parts of two. `write_json` is three steps. `OpenTemporary` creates the file or
empties the one that is there, `WriteTemporary` writes to the file that was opened, under
whatever name it goes by now, and `ReplaceTarget` renames what has the temporary name by
then; if another ingest has taken that away, it raises and the ingest ends. Where the file
is no longer empty the bytes of a longer one may remain behind the new ones (`"torn"`).
`TakeInventory` reads the two objects the index is to list in one step.

An ingest whose answer is not complete ends after its manifest, and so does the recording
of a launch (`publishes`). It may be killed at any step (`KillIngest`); its temporary file
stays. Left out: a lake in an object store, which has no temporary names and which
`publish_generation` refuses, and a second ingest with the run id of the first.

### Release and local copy

`LakeCache` numbers the publications. `release` has the index and the archive of each
run; an upload with `--clobber` deletes the object and then stores it (`UploadArchive`,
`DeleteIndex`, `UploadIndex`), and `PublishFails` ends it between any two. The cache, its
backup `.previous` and each sync's staging directory are missing, a whole copy of one
publication, or torn by a removal that has begun (`Clear`/`Cleared`, `Tidy`/`Tidied`).
A sync begins by reading and validating the index (`ReadIndex`); where that fails it ends,
before the `try` that puts a backup back (`data_sync.py:42-43`). A staging directory that
cannot be created ends it in the same way and is not modelled on its own.
`Fail` is the `except` branch and `Restore` its rename; `Interrupt` is a `KeyboardInterrupt`,
which `except Exception` does not see.

### Mailbox

`LaunchMailbox` numbers the launches and keeps for each its state, how often its action
ran (`opened`) and how that ended (`outcome`); `Told` is what its command is told whenever
it asks. `kept` is the mailbox: publishing evicts the oldest launch of a full one, and
completing a launch that is gone is refused.

A page polls (`Poll`), claims (`Claim`; 403 without the cookie of the native session, and
such a page asks again for ever; 409 when another came first), carries the action out
(`Handle`, `FinishHandled`) and reports it (`Report`, `Complain`). Without a session of its
own it stores the launch in `sessionStorage` (`Defer`) and goes to `/data`, whose
`initialize` takes it (`Load`, `Take`, `FinishTaken`, `ReportTaken`, `ComplainTaken`).
`window.location.assign` only schedules: `going` is where the page is to go, the old
document polls and claims on until `Unload`, and what it has in hand then is lost (`left`).

Every request of a page may fail before or after the server has handled it (`Fails`), which
the launch remembers (`lost`). The catch of `pollTerminalOpen` (`command.js:905-907`) and of
`initialize` (`app.js:1375-1382`) then reports an error, also for an action that ran, or for
a launch that another page has; when that request fails as well, nobody does. Pages are
opened, reloaded and closed by their users (`OpenPage`, `Leave`, `ClosePage`). Left out: the
reads of the mailbox by a poll that fail and are repeated half a second later.

### Agent session

The server is one event loop, so a step is what a handler does between two awaits. It is
written as a sequence of changes to a draft of the session (`Draft`, `Emit`, `SetState`,
`Task`) and of the pages that listen: `Broadcast` puts a message into the queue of each,
and a full queue is emptied and gets one snapshot (`Queued`, of the session as it is at
that moment). `Commit` makes the draft the state. `heap` has every
event ever emitted: a message holds a reference to its event, as the code's queues hold
the session's own dictionary, and is read when it is sent (`Show`). `RowsAfter` and
`PageAfter` are `applyAgentMessage` of the page. `RunBegins` to `Renewed` are `_run`; `Prompt`, `Cancel`
and `New` are the page's requests, `CancelSent`, `CancelEnds`, `ResetEnds` and `ResetFails`
what follows their awaits; `Refused` is the snapshot and the error that overtake the
queue. A page that is not `Watched` may be behind and ask for anything.

### Shell

`TerminalShell` has the buffer (`output`, `base`), the started shells with their reader
threads, and the cursor and screen of each page. Characters are numbered as they are
written. `ReadOutput` appends and trims, `ReaderEnds` is the end of a thread and forgets
only its own shell, `SendSnapshot` is a reader's turn with the reset of a cursor that lies
outside the buffer, `PageClears` and `ServerClears` the two halves of a clear.

### Broker market

The engine is a record and functions of it: `Reset`, `Placed` (slash, reward, ruin, then
arrivals, then replenishment, as in `MarketEngine.step`), `Reject`. The service counts
its requests (`Counted`), answers reads, selects and writes the one ledger (`Snapshot`,
whose write may fail and is then taken back). What a deal delivers is any outcome, so the
hidden reliabilities are; arrivals follow `seed`. `Replayed` and `Accepted` are the replay
and the comparisons of `tests/verify.py`.

## 3. The runs

All bounds are in the `.cfg` files. Deadlock is not checked in any run: each system may
come to rest (every request settled and every attempt used, the clock at its bound,
every machine deleted, every bound on output and requests used up), and nothing waits for
anything else; what must happen is a liveness property instead.

| run | result | instance | shows |
|---|---|---|---|
| `provisioning` | pass | 2 requests (the second at RunPod under the name of the first, at RunPod under another, or at Sesterce under the same), 2 pods, 2 executors, 1 reconciler, 2 attempts | ledger, registry and provider agree through lost and late answers and kills; refinement of `Acquisition`; only namesakes get one pod |
| `provisioning_orphan` | violation | the same, both RunPod, distinct names | a blocked request that cannot be reconciled |
| `provisioning_race` | violation | 1 request, 1 executor, 2 reconcilers | a recovered attempt is turned into a failed one |
| `publication` | pass | 2 publishers, TTL 2, clock to 4, 3 tokens, 1 identity with 2 values, 2 objects; punctual, or leases outlasted and reads failing | serialisation and retained history while leases are not outlasted, and what still holds when they are |
| `publication_unread` | violation | reads failing | a failed read drops published history |
| `fleet_hosts` | pass | 2 machines (Sesterce and RunPod), 2 commands | nothing that is paid for is written off, and a machine is lost from the file, or brought back from its termination, by an overlap only |
| `fleet_lost_host` | violation | the same | a launched machine disappears from `hosts.json` |
| `fleet_workloads` | pass | 1 machine, 1 command, 1 workload, monitor and CLI | verdicts are true, and are given while the monitor lives |
| `terminal` | pass | agent: 2 pages (1 watched), queues of 2, 2 events kept of 4, 2 parts each; shell: 2 pages, 2 shells, 5 characters written, 2 kept | pages show what the agent and the shell said |
| `agent_echo` | violation | the agent of `terminal` | a part of a message is shown twice |
| `parts` | pass | mailbox: 2 pages, 2 launches, 1 kept, 1 interruption or failed request; lake: 2 syncs, 2 runs, 2 publications, 1 interruption, 1 failure; market: 3 suppliers, cap 3, deals of 2, horizon 3, 5 requests; feed: 2 providers (1 required), 2 run ids, 2 days, 3 starts, 1 kill, 1 failed read; snapshots: 3 ingests, 1 kill | each of the five parts does what section 1 asks of it |
| `lake_torn` | violation | lake: 2 syncs, 2 interruptions, 1 failure | half of a lake becomes the cache |

Why the bounds are enough to meet the cases: two attempts are what a retry needs, and
the second pod of a request; two pods let a late create meet a retry and let a name
match twice; two requests let one pod be claimed by two, of one name or not; one reconciler against two
executors interleaves a recovery with a retry. For the lease two publishers and three
tokens give one takeover followed by another; TTL 2 and a clock to 4 let a lease expire,
be taken over and expire again. Two values of one identity are a rewrite, no row is a
removal; two objects are the least that can be half-written. Two machines and two
commands are one lost update; one workload, the
monitor and a CLI worker meet every order of two writers of one row. A second workload on
the machine makes the fairness of `FairFleet` too large to check in minutes; that a time-out
drops the workloads after it is in the model and in the proofs, and in the run a poll may
be dropped at every point. A queue of two
overflows at the third message and two kept events trim at the third, so that a tool's row
is trimmed before its next update; four events are what a refusal beside two trims needs.
Five characters into a buffer of two trim twice, with cursors before, in and after it, and
the second shell starts while the first one's reader lives. One kept launch evicts at the
second. Two publications of one run or of two let an archive be replaced under its index;
one interruption beside a second sync is the most under which a lake survives (two lose
it, run `lake_torn`). The broker market reaches ruin (a stake of 5 falls to the minimum of
2 in two slashes), arrivals at the cap, replenishment, the horizon and the limit of
invalid actions; in `parts` arrivals are fixed, the proofs have any. Three starts are a
run, the next one and the repetition of either; `MCParts` allows the third only when the
first two did not overlap, which keeps the run short and loses no case of two runs. Two
days are what a repetition on another day needs; `MCParts` lets the day end only in
behaviours of two starts that do not overlap and whose reads succeed. It opens a page on
`/data` only while no other is there, which leaves two such pages by navigation. The third
ingest of the snapshot lake is limited like the third run: two that overlap are what empties
or renames another's file, and three in a row, one of them killed, find a temporary file
that was left and then a lake that was made with it.
Symmetry is used on publishers and values and on commands, in runs without liveness
properties.

**The properties.** Provisioning: `OneOpenAttempt`, `RequestMirrorsLatest`,
`AllocationMatchesAttempt`, `SecondPodIsConfirmed`, `RegisteredIsAllocated`,
`OnlyNamesakesShare`, `ImplementsAcquisition`. Publication:
`OverlapOnlyWhenOverdue`, `LatestIsComplete`, `LeaseIsItsHolders`,
`PunctualHistoryIsRetained`. Fleet: `TerminatedIsGone`,
`LostOnlyToAnOverlap`, `RevivedOnlyByAnOverlap`, `VerdictIsTrue`, `ExitIsRecorded`. Terminal:
`ViewKeepsUp`, `ToolHasOneRow`, `ScreenIsContiguous`, `RunningShellIsCurrent`. Mailbox:
`RunsAtMostOnce`, `AnswerIsTrue`, `LatestIsAnswered`. Lake: `IndexHasItsArchive`,
`CacheStaysWhole`, `LakeSurvives`, `SyncLeavesACache`. Broker market: `LedgerVerifies`,
`LedgerIsFinal`, `PoolIsActionable`, `RuinIsEarned`, `EndsForOneReason`. Feed:
`GoldIsBacked`, `GoldIsFresh`, `LoneHistoryIsRetained`, `AnnouncedIsPublished`. Snapshot
lake: `SnapshotIsServable`, of three parts. The type invariant of `Provisioning` is checked
in its run; those of the other modules are theorems or parts of the invariants proved. Each property is stated above its
definition; for each, `PROJECT.json` names a mutant of the modelled code, a plausible bug,
that breaks it. `OneHolder`, `HistoryIsRetained` and `HostStaysRegistered` are theorems
without a passing run.

Several hold under a condition that is part of them, because the code does not give more:

* `OnlyNamesakesShare` allows that two RunPod requests of one name get one pod: a pod is
  matched by its name and five minutes of slack (`provider_execution.py:639-653`), nothing
  keeps names apart, and the instance reaches it.
* `HostStaysRegistered` is for one command at a time. With two, a put that read the file
  earlier drops the other's machine (`fleet_lost_host`; and `LostOnlyToAnOverlap`: nothing
  else does). In the same way a refresh, or the wait of a launch, that asked the provider
  before a termination and writes after it lists the machine as running again, and so does
  a put for another machine that read the file before it. `RevivedOnlyByAnOverlap` says that
  nothing else does.
* `ExitIsRecorded` excepts machines that are down or no longer listed as running, and a
  monitor whose thread has ended.
* `AnswerIsTrue` excepts a "failed" about a launch of which a request failed: the page
  cannot know whether the server handled it. A "complete" is always true.
* `CacheStaysWhole` and `LakeSurvives` are for one sync at a time with at most one
  interruption, and for two at a time without any. `SyncLeavesACache` is for syncs that
  have read a valid index; one that cannot leaves the terminal without the lake that an
  interrupted one moved away, until a later sync.
* `GoldIsFresh`, `LoneHistoryIsRetained` and `AnnouncedIsPublished` are for one market run
  at a time, the second also for reads of the gold manifest that do not fail, and its one
  part is one of a run and a UTC day. Runs that
  overlap read the same manifest, and the later writer drops the other's part of the
  history; a failed read starts a new history. `GoldIsBacked` holds in any case.
* `SnapshotIsServable`: two ingests that overlap can leave a reader an empty object while
  they go on, for one renames the file that the other has just opened; once both are at an
  end it is whole again, unless one was killed in between or the files differ in length.
  That the index lists what is there is for single ingests that were not killed: a reader
  between two of the three replacements, or after a kill, sees objects of two generations.
* `LatestIsAnswered` excepts a launch whose document was unloaded with it in hand, about
  which a request failed, or that is stored in a tab whose `/data` page failed before
  `takePendingAction` or that is not on its way there: no code would answer it, and its
  command gives up after sixty seconds. It also needs an open page with the cookie of the
  native session; the others cannot claim.

**Fairness.** Provisioning has none: its create may hang. `FairFleet`: while its thread
lives the monitor polls again (weak fairness of `Poll`) and each machine's poll goes on
(weak fairness of its next step or its failure, since every call of an inspection runs with
a time limit). Strong fairness is about the machine and the ledger, not about the code:
`service.monitor` of a machine that is up does not raise for ever (`PollHost`), and the
steps of the inspection of each workload do not fail for ever (`Observe`, `Probe`,
`UpdateWorkload`). Skipping a machine, a time-out that drops the rest of it, and the end of
the thread stay possible at every point; nothing is assumed of the CLI.
`MailboxFairness`: weak fairness of a page's poll, of its start and of a scheduled
navigation, which timers and the browser carry on while the page is open. The requests go
to a server on the same machine and are taken to be answered or to fail; commands, users and
the server's limits have no fairness.

### Disagreements found

1. `provisioning_orphan`: a process that dies between `begin_provisioning` and the answer
   leaves the attempt pending. `begin_provisioning` refuses a retry with "reconcile it
   before retrying" (`operations.py:304`), `reconcile` refuses it as "already pending"
   (`provider_execution.py:244`); an uncertain Sesterce attempt is refused too (`:248`).
2. `provisioning_race`: "Only an uncertain attempt can be reconciled" (`operations.py:386`),
   but the check precedes the transaction and the update is by `attempt_id` alone.
3. `publication_unread`: "returning an empty mapping only when it is absent"
   (`prices/storage.py:53`), but every `OSError` is taken for absence, which skips the
   check for rewritten history (`refresh_operational.py:181`).
4. `fleet_lost_host`: two puts that overlap lose a machine that a launch "still registers"
   (`src/tests/test_offers.py:386`, the name of the test).
5. `agent_echo`: "Stream one named acpx session to any connected Terminal views"
   (`terminal/agents.py:108`), but the queues hold the session's own dictionary
   (`:406-409`), which the next part of a message extends in place (`:393`) before it is
   broadcast: a page whose queue had not been sent is shown that part twice.
6. `lake_torn`: "replace the cache atomically" (`data_sync.py:37`), but interrupted
   between its two renames a sync leaves only the backup, interrupted in the removal of
   the backup the next one leaves half of it, and a third whose download fails puts that
   half back as the cache (`data_sync.py:84-95`).

One more was met and has no run of its own: `publish_portable_lake` is to "upload
immutable files first" (`portable_lake.py:109`), but in the order of the names the latest
manifest comes before the tables it names. Who starts from the index, as `data sync` does,
is not misled: it comes last (`GoldIsBacked`).

## 4. The proofs

TLAPS proves the following for every value of the constants that satisfies the named
assumptions: any number of requests, pods, executors, attempts, publishers, machines,
commands, workloads, workers, pages, launches, syncs, ingests and suppliers, and any limit.

**Provisioning** (`ProvisioningProofs`; assumptions `ConstantsAssumption`,
`OneReconciler`). `IInv` of `ProvisioningOneReconciler` is inductive. The checked
invariants are not inductive alone: `SecondPodIsConfirmed` needs to know that a failed
attempt was refused or confirmed absent (`FailureIsCertain`) and that pods follow create
calls and these follow attempts (`ProviderFollowsLedger`); `AllocationMatchesAttempt`
needs that a launching process owns its pending attempt alone (`ExecutorOwnsAttempt`) and
that a reconciler's earlier check still applies when it writes (`VerdictStillApplies`),
which is where one reconcile command at a time is needed: with two, run
`provisioning_race` breaks it. From `IInv` follow `TypeCorrect`, `AtMostOneOpen`,
`RowsAgree`, `AllocationIsTruthful`, `NoUnconfirmedSecondPod`, `RegistryIsBacked`,
`OnlyNamesakesGetOnePod` (an allocated pod was created for its request or for a namesake,
`AllocatedUnderItsName`, whichever names launches use) and `LedgerImplementsAcquisition`: the initial states and every step map to the abstract
specification's.

**Publication** (`PublicationProofs`; assumptions `LeaseAssumption`,
`PublicationAssumption`). `LeaseInv`, for every setting of `Outlasting`: tokens are
fresh, and the stored object is a holder's own, or that holder is overdue. It gives
`OverlapIsOverdue` and `NobodyFreesAnothersLease`. `DataInv` (the written objects of a
transaction are stored, a generation is stored before it is latest) gives
`PublishedIsComplete`, with no need of the lease. With `Outlasting` false holders are
never overdue, hence `PublishersAreSerialized`; with `Unreadable` false too the check of
a publisher still applies when it writes (`CheckStillApplies`), hence `RetainedHistory`.
The run checks both kinds of environment in one specification, `EitherSpec` of
`MCPublication`, where `punctual` says which one it is; `PunctualHistory` is its property:
a behaviour is punctual throughout, and then one of `Spec`, or not at all. It holds for
the values of `Outlasting` and `Unreadable` that the run gives, false.

**Fleet** (`FleetProofs`; assumptions `HostsAssumption`, `WorksAssumption`). `HostsInv`:
a command that is going to write "terminated" for a machine, or remembers it from the
file, does so of a machine that is deleted, and one that found its machine terminated has
nothing else to write for it (`FoundIsKept`). It is inductive for any number of overlapping
commands and gives `NothingPaidIsWrittenOff` and `RevivalNeedsAnOverlap`. With one command
(`OneCommand`) the file a command has read is the file it replaces (`FileIsHeld`), hence
`OneOperatorLosesNoHost`; for two commands run `fleet_lost_host` refutes it.
`FleetRefinesHosts` shows that the composition with workloads implements the hosts'
specification, so all of these hold of it.
`WorksInv`: the verdict a worker is about to write is already true of the process, and
stays true because an ended process does not change; it gives `VerdictsAreTrue`.

However many commands overlap, the copy of `hosts.json` that a put has in hand lacks a
listed machine only if it is older than the file, hence `LossNeedsAnOverlap`.

**Mailbox** (`MailboxProofs`; assumption `MailboxAssumption`). `MailboxInv`: a claimed
launch is in the hands of one page, in the storage of one tab or taken by one start of
`/data` (`HeldOnce`), whoever holds it has not run it yet or has just done so (`RunsLater`),
a page that is about to report an error for a launch does so of one that raised or about
which a request failed (`ComplaintsExcused`), and a launch's state, its count, its outcome
and its lost requests fit together (`LaunchesConsistent`). `RunsAtMostOnce` alone is not
inductive: that nobody else holds the launch is what keeps the count, also when the claim's
answer is lost. It gives `ALaunchRunsAtMostOnce` and `TheCommandIsToldTheTruth`.

**Market run** (`FeedProofs`; assumption `FeedAssumption`, among others that no provider
is asked twice). `FeedInv`: what a run has read, or is about to write, is stored
(`RunIsStored`), also the offers of the latest silver manifests (`SilverIsStored`), for any
number of runs that overlap or are killed; it gives `ReadersFindWhatTheyAreToldOf`.
`GoingCounted` bounds the runs that go on by `atOnce`, so that while it is one at most
every other run is over (`Alone`), and the run that goes on finds what it has written
itself: the silver manifests of the providers that answered (`Observed`), the base it read
and the tables it made of it (`Built`), the public objects (`Exported`); a base that has the part of this run and day is
not given it again. It gives
`TablesAreOfTheirRun`, `ALoneRunKeepsTheHistory` and `AnAnnouncedRunIsServed`.

**Lake** (`LakeProofs`; assumption `LakeAssumption`). `ReleaseInv` (after the archive's
upload and before the index's, the archive of the newest publication is there) gives
`IndexNamesItsArchive`. `CacheInv`: staging directories are whole copies
(`StagingIsWhole`), `together` bounds the syncs that go on (`RunnersCounted`), and it says
what cache and backup can be while up to two syncs go on and none was interrupted
(`Undisturbed`), at each step of a sync that is alone (`StepByStep`), also after one
interruption (`InterruptedOnce`), and before the first installation
(`FirstInstallation`). It gives `TerminalReadsAWholeLake`,
`ADownloadedLakeSurvives` and `LoneSyncLeavesACache`.

**Snapshot lake** (`LakeProofs`; assumption `IngestAssumption`). `SnapshotInv`: an ingest
that has begun to share has stored all of its objects (`IngestStored`), and so has whoever
wrote a file (`FilesStored`); no file has the object's and its temporary name at once
(`FilesApart`); a file that is not whole is being written, while nobody was killed
(`SoonWhole`); `overlap` bounds the ingests that go on (`IngestsCounted`), and one that
goes on alone writes and renames its own file (`Unopposed`), after which the index agrees
with the manifests (`Agreement`). It gives `SnapshotsAreServable`.

**Agent** (`TerminalProofs`; assumption `SessionAssumption`). `AgentInv` has two parts.
`SessionTranscript`: the session keeps the last events of the heap, and a row of the tool
can only be the one that is remembered; it gives `AToolHasOneRow`. `AllFollow`: every page
that listens will show the session once its queue is sent. `ViewKeepsUp` speaks of empty
queues only and is not inductive; what has to be said of the others is:

* the last message with a state in the queue has the session's (`StateArrives`);
* the messages after the last snapshot or reset are in order, and the rows of that one (of
  the page, when there is none) lack nothing they do not bring (`RowsArrive`);
* in order (`InOrder`): events come with rising numbers up to the last one; a replacement
  comes after its event, and is current or will be replaced; one of a row that the session
  has dropped since is followed by an event, so that it is pushed off the page as well;
* nothing lacks (`Faithful`): a page with room shows every event that is kept or has it in
  the queue, with all parts or the message that brings them (`NoneIsLost`). A full page may
  have lost old rows to an error of its own. Of the last event more is known: it is on the
  page where only an error of the page's own can push it out (`LastIsSafe`), or will come
  (`LastIsComing`), or such an error did push it out (`LastIsOut`).

The lemmas go up in that order: what one more message does to `Faithful` and `InOrder`
(`MoreFaithful`), what showing one does (`ShowFaithful`), what a snapshot, a reset and a
refusal give; the same for a whole queue, for a page, and for all pages when the session
broadcasts (`BroadcastFollows`); then each change of a draft, each handler, and
`AViewKeepsUp`. The proof is about any number of pages and events, where the run has two
rows; it is needed because the hard case, a replacement that is queued behind the trim of
its own row, moves with the sizes.

**Shell** (`TerminalProofs`; assumption `ShellAssumption`). `ShellInv`: the buffer is the
end of what was written (`TranscriptIsTail`), cursors are not ahead of it
(`CursorsAreBehind`), screens are consecutive up to their cursor
(`ScreensAreConsecutive`). It gives `ShellScreensAreContiguous` and `ShellIsNotForgotten`.

**Broker market** (`MarketProofs`; assumption `MarketAssumption`, the validation of
`MarketConfig`). `MarketInv`: the market stands (`Standing`: every supplier's eligibility
is that of its stake, the eligible ones are between a deal and the cap, the end and its
reason agree) and the ledger is final. Each stage of a placement is a lemma about what it
does to the number of eligible suppliers. It gives `ABrokerCanAlwaysPlace`,
`NobodyIsRuinedForNothing`, `ARolloutEndsOnce` and `TheLedgerIsTheRollout`. The
verifier's replay (`Replayed`) is a recursive function over the ledger, which `ReplayInv`
follows along the behaviour: there is a replay of the ledger so far, and every replay ends
in the market the service holds, by the events the service recorded. A replay is continued
by the next selection (`ReplayGoesOn`), and one of the longer ledger was one of the shorter
(`ReplayWasOne`), so that no induction over the ledger is needed. With the requests counted
it gives `TheVerifierAcceptsTheLedger`.

**Model-checked only.** `ExitIsRecorded` and `LatestIsAnswered`, liveness
under fairness. Every other property of a passing run is the property of a theorem. The
violations are TLC's counterexamples.

## 5. What is not modelled, and the plan

Not modelled, and why:

* Parsing of provider answers, SQL, prices, normalisation, charts, pages, health rules,
  telemetry, command-line arguments, evaluation tooling and its viewer: data
  transformation and presentation, without state that steps of several actors share. They
  are most of the repository's lines.
* The local `flock` lease (released by the kernel with its process), the age check of a
  launch plan, the validation of captured rows before publication, the sandbox cost build.
* `FleetService.attach`, which puts a machine that has no allocation.
* That launches end: RunPod's create has no time limit.
* The monitor's limit of eight machines at a time and its table of states.
* The download of a mirror file by file in `data_sync.py`, which links unchanged files of
  the cache into the staging directory, and `inspect_lake`, which reads only.
* `close` of the agent, at the end of the server; more than one tool; what an action does
  in its page; the terminal's lifecycle and workspaces.
* The market snapshot lake's registry, catalog and queries, which only read.

Next, in this order:

1. The composition of `MarketFeed` and `LakeCache` over the portable lake's index and its
   checksums; the download file by file.
2. `Fleet` with `attach`, and the composition of `Provisioning` with `FleetHosts`, with a
   proof that it implements the latter.
3. An abstract specification of the terminal's pages, a page's rows being a past
   transcript, and the refinement of it by `AgentSession`.
