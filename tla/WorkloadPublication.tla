------------------------- MODULE WorkloadPublication -------------------------
(***************************************************************************)
(* The recurring publication of workload benchmarks: a refresh captures    *)
(* the rows of a commit of the source repository, and under the lease      *)
(* compares them with the published ones, writes the tables of a           *)
(* generation named by its content, and points `latest` at it.             *)
(***************************************************************************)
EXTENDS Lease

CONSTANTS
    Identities,    \* keys of benchmark rows
    Values,        \* what a row measures
    NoRow,         \* no row of that identity
    Nothing,       \* no published generation
    Parts,         \* number of objects of a generation
    Unreadable     \* may reading `latest` fail with an OSError?

ASSUME PublicationAssumption ==
    /\ NoRow \notin Values
    /\ Nothing \notin [Identities -> Values \cup {NoRow}]
    /\ Parts \in Nat \ {0}
    /\ Unreadable \in BOOLEAN

VARIABLES
    captured,   \* publisher -> the rows it is publishing
    work,       \* publisher -> where it is in its transaction
    part,       \* publisher -> objects of its generation it has written
    stored,     \* <<rows, i>>: the i-th object of that generation exists
    latest      \* the generation the latest manifest names

dataVars == <<captured, work, part, stored, latest>>
vars == <<leaseVars, dataVars>>

(* The rows of a generation. *)
Contents == [Identities -> Values \cup {NoRow}]

NoRows == [i \in Identities |-> NoRow]

TypeOK ==
    /\ LeaseTypeOK
    /\ captured \in [Publishers -> Contents]
    /\ work \in [Publishers -> {"none", "check", "tables", "done"}]
    /\ part \in [Publishers -> 0 .. Parts]
    /\ stored \subseteq Contents \X (1 .. Parts)
    /\ latest \in Contents \cup {Nothing}

Init ==
    /\ LeaseInit
    /\ captured = [p \in Publishers |-> NoRows]
    /\ work = [p \in Publishers |-> "none"]
    /\ part = [p \in Publishers |-> 0]
    /\ stored = {}
    /\ latest = Nothing

(* _assert_no_operational_rewrite: no identity is removed or mutated. *)
Retains(old, new) == \A i \in Identities : old[i] # NoRow => new[i] = old[i]

(* The transaction of p moves on. *)
Proceed(p, step) == work' = [work EXCEPT ![p] = step]

(* The refresh is over: its locals are gone. *)
End(p) ==
    /\ Proceed(p, "none")
    /\ captured' = [captured EXCEPT ![p] = NoRows]
    /\ part' = [part EXCEPT ![p] = 0]

(* Any commit may be captured, at any time before the lease. *)
Refresh(p, rows) ==
    /\ Start(p)
    /\ captured' = [captured EXCEPT ![p] = rows]
    /\ UNCHANGED <<work, part, stored, latest>>

AskForLease(p) == Get(p) /\ UNCHANGED dataVars

(* The lease is not obtained: the refresh fails. *)
MissLease(p) ==
    /\ GetBusy(p) \/ PutRefused(p) \/ PutUnanswered(p)
    /\ End(p)
    /\ UNCHANGED <<stored, latest>>

Enter(p) ==
    /\ Put(p)
    /\ Proceed(p, "check")
    /\ UNCHANGED <<captured, part, stored, latest>>

(* The published generation is read, and a rewrite of it is refused. *)
Check(p) ==
    /\ Holds(p)
    /\ work[p] = "check"
    /\ Proceed(p, IF latest = Nothing \/ Retains(latest, captured[p]) THEN "tables" ELSE "done")
    /\ UNCHANGED <<leaseVars, captured, part, stored, latest>>

(* read_optional_json takes an OSError for an absent object. *)
CheckUnread(p) ==
    /\ Unreadable
    /\ Holds(p)
    /\ work[p] = "check"
    /\ Proceed(p, "tables")
    /\ UNCHANGED <<leaseVars, captured, part, stored, latest>>

(* The tables and manifests of the generation, one object at a time. *)
WritePart(p) ==
    /\ Holds(p)
    /\ work[p] = "tables"
    /\ part[p] < Parts
    /\ part' = [part EXCEPT ![p] = @ + 1]
    /\ stored' = stored \cup {<<captured[p], part[p] + 1>>}
    /\ UNCHANGED <<leaseVars, captured, work, latest>>

\* Mutant of WriteLatest: the manifest is written first.
WriteLatestFirst(p) ==
    /\ Holds(p)
    /\ work[p] = "tables"
    /\ latest' = captured[p]
    /\ Proceed(p, "done")
    /\ UNCHANGED <<leaseVars, captured, part, stored>>

WriteLatest(p) ==
    /\ Holds(p)
    /\ work[p] = "tables"
    /\ part[p] = Parts
    /\ latest' = captured[p]
    /\ Proceed(p, "done")
    /\ UNCHANGED <<leaseVars, captured, part, stored>>

(* The transaction ends, or an exception leaves it. *)
Leave(p) ==
    /\ Release(p)
    /\ End(p)
    /\ UNCHANGED <<stored, latest>>

Crash(p) ==
    /\ Vanish(p)
    /\ End(p)
    /\ UNCHANGED <<stored, latest>>

Next ==
    \/ \E p \in Publishers :
          \/ \E rows \in Contents : Refresh(p, rows)
          \/ AskForLease(p)
          \/ MissLease(p)
          \/ Enter(p)
          \/ Check(p)
          \/ CheckUnread(p)
          \/ WritePart(p)
          \/ WriteLatest(p)
          \/ Leave(p)
          \/ Crash(p)
    \/ Tick /\ UNCHANGED dataVars

Spec == Init /\ [][Next]_vars

-----------------------------------------------------------------------------
(* Properties.                                                             *)

(* At most one publisher is in its transaction ("Serialize a short         *)
(* read/merge/publish transaction"). *)
OneHolder == \A p, q \in Publishers : Holds(p) /\ Holds(q) => p = q

(* No published row is removed or changed by a later generation, whatever  *)
(* commits the publishers captured and however they overlap ("Reject a     *)
(* source that removes or mutates an already published identity"). *)
HistoryIsRetained == [][latest # Nothing => latest' # Nothing /\ Retains(latest, latest')]_vars

(* The latest manifest names a generation whose objects are all there,     *)
(* although publishers die between any two writes. *)
LatestIsComplete ==
    latest # Nothing => \A i \in 1 .. Parts : <<latest, i>> \in stored
=============================================================================
