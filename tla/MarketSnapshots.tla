--------------------------- MODULE MarketSnapshots ---------------------------
(***************************************************************************)
(* The market snapshot lake: a local directory in which `market ingest`    *)
(* publishes a generation, and a Sesterce launch records what it has read  *)
(* before it buys.                                                         *)
(*                                                                         *)
(* An object is written under a temporary name and renamed.  That name is  *)
(* made of the object's own, so writers of one object share it.  Most      *)
(* objects are named by their run and have one writer; three are shared.   *)
(* For these a file is what an open creates: it keeps its bytes, and those *)
(* who write to it, whatever name it has by then.                          *)
(***************************************************************************)
EXTENDS Naturals, FiniteSets, Sequences

CONSTANTS
    Ingests,             \* source_run_ids
    NoFile,              \* no file has the name
    MaxKilled            \* bound: ingests that are killed

ASSUME IngestAssumption ==
    /\ IsFiniteSet(Ingests) /\ NoFile \notin Ingests
    /\ "empty" \notin Ingests /\ "torn" \notin Ingests
    /\ MaxKilled \in Nat

VARIABLES
    objects,       \* the objects that are named by their run: kind and run
    target,        \* shared object -> its file, named by the ingest that created it
    temporary,     \* shared object -> the file under its temporary name
    bytes,         \* shared object -> file -> what it holds
    inventory,     \* ingest -> what it listed in its index
    ingest,        \* ingest -> what it is doing
    killed,
    overlap,       \* history: the most ingests that have gone on at the same time
    uneven         \* history: a file was overwritten by a shorter one

snapshotVars == <<objects, target, temporary, bytes, inventory, ingest, killed, overlap, uneven>>

(* Kinds of objects in the order they are stored, and the shared ones in   *)
(* theirs. *)
Kinds == <<"bronze", "silver", "manifest", "generation">>
Shared == <<"latest", "portable", "index">>
SharedObjects == {Shared[i] : i \in DOMAIN Shared}

Files == Ingests \cup {NoFile}
Holds == Ingests \cup {"empty", "torn"}

(* A file holds what one ingest wrote, nothing, or parts of two. *)
HoldsWhole(o, file) == file = NoFile \/ bytes[o][file] \in Ingests

(* What there is to read of an object. *)
Serves(o) == IF target[o] = NoFile THEN "empty" ELSE bytes[o][target[o]]

SnapshotInit ==
    /\ objects = {}
    /\ target = [o \in SharedObjects |-> NoFile]
    /\ temporary = [o \in SharedObjects |-> NoFile]
    /\ bytes = [o \in SharedObjects |-> [f \in Ingests |-> "empty"]]
    /\ inventory = [r \in Ingests |-> [latest |-> "empty", portable |-> "empty"]]
    /\ ingest = [r \in Ingests |-> [step |-> "new", at |-> 1, publishes |-> FALSE, file |-> NoFile]]
    /\ killed = 0
    /\ overlap = 0
    /\ uneven = FALSE

Ingesting == {r \in Ingests : ingest[r].step \notin {"new", "over"}}

IngestIsAt(r, step) == ingest[r].step = step
IngestGoes(r, step, at) == ingest' = [ingest EXCEPT ![r].step = step, ![r].at = at]

-----------------------------------------------------------------------------
(* The source has answered.  An answer that is not complete is recorded    *)
(* and not published, and so is the one a launch asks for. *)
BeginIngest(r) ==
    /\ IngestIsAt(r, "new")
    /\ \E publishes \in BOOLEAN :
          ingest' = [ingest EXCEPT ![r] = [@ EXCEPT !.step = "store", !.publishes = publishes]]
    /\ overlap' = IF Cardinality(Ingesting) >= overlap THEN Cardinality(Ingesting) + 1 ELSE overlap
    /\ UNCHANGED <<objects, target, temporary, bytes, inventory, killed, uneven>>

(* What follows the storing of an object of the run: a generation has its  *)
(* manifest only if it is published. *)
AfterStoring(r) ==
    IF Kinds[ingest[r].at] = "generation" THEN IngestGoes(r, "open", 1)
    ELSE IF Kinds[ingest[r].at] # "manifest" \/ ingest[r].publishes
    THEN IngestGoes(r, "store", ingest[r].at + 1)
    ELSE IngestGoes(r, "over", 1)

(* An object that has one writer appears whole: write_json, write_parquet. *)
StoreObject(r) ==
    /\ IngestIsAt(r, "store")
    /\ objects' = objects \cup {<<Kinds[ingest[r].at], r>>}
    /\ AfterStoring(r)
    /\ UNCHANGED <<target, temporary, bytes, inventory, killed, overlap, uneven>>

(* The rows cannot be normalised, after the answer was stored. *)
NormalizeFails(r) ==
    /\ IngestIsAt(r, "store")
    /\ Kinds[ingest[r].at] = "silver"
    /\ IngestGoes(r, "over", 1)
    /\ UNCHANGED <<objects, target, temporary, bytes, inventory, killed, overlap, uneven>>

-----------------------------------------------------------------------------
(* The shared objects, one after the other.                                *)

Writes(r, o) == Shared[ingest[r].at] = o

\* Mutant of OpenTemporary: the object is opened under its own name.
OpenTarget(r, o) ==
    /\ IngestIsAt(r, "open") /\ Writes(r, o)
    /\ LET file == IF target[o] = NoFile THEN r ELSE target[o]
       IN  /\ target' = [target EXCEPT ![o] = file]
           /\ temporary' = [temporary EXCEPT ![o] = file]
           /\ bytes' = [bytes EXCEPT ![o][file] = "empty"]
           /\ ingest' = [ingest EXCEPT ![r] = [@ EXCEPT !.step = "write", !.file = file]]
    /\ UNCHANGED <<objects, inventory, killed, overlap, uneven>>

(* The temporary file is created, or the one that is there is emptied. *)
OpenTemporary(r, o) ==
    /\ IngestIsAt(r, "open") /\ Writes(r, o)
    /\ LET file == IF temporary[o] = NoFile THEN r ELSE temporary[o]
       IN  /\ temporary' = [temporary EXCEPT ![o] = file]
           /\ bytes' = [bytes EXCEPT ![o][file] = "empty"]
           /\ ingest' = [ingest EXCEPT ![r] = [@ EXCEPT !.step = "write", !.file = file]]
    /\ UNCHANGED <<objects, target, inventory, killed, overlap, uneven>>

(* It is written from its start: what another has written since is kept    *)
(* where it was longer. *)
WriteTemporary(r, o) ==
    /\ IngestIsAt(r, "write") /\ Writes(r, o)
    /\ \E holds \in {r} \cup (IF bytes[o][ingest[r].file] = "empty" THEN {} ELSE {"torn"}) :
          /\ bytes' = [bytes EXCEPT ![o][ingest[r].file] = holds]
          /\ uneven' = (uneven \/ holds = "torn")
    /\ IngestGoes(r, "rename", ingest[r].at)
    /\ UNCHANGED <<objects, target, temporary, inventory, killed, overlap>>

(* After the second one the inventory is taken, after the third it is      *)
(* over. *)
AfterReplacing(r) ==
    CASE Shared[ingest[r].at] = "latest" -> IngestGoes(r, "open", ingest[r].at + 1)
      [] Shared[ingest[r].at] = "portable" -> IngestGoes(r, "list", ingest[r].at + 1)
      [] Shared[ingest[r].at] = "index" -> IngestGoes(r, "over", 1)

(* What is there under the temporary name replaces the object; where       *)
(* another has renamed it before, the ingest fails. *)
ReplaceTarget(r, o) ==
    /\ IngestIsAt(r, "rename") /\ Writes(r, o)
    /\ IF temporary[o] = NoFile
       THEN IngestGoes(r, "over", 1) /\ UNCHANGED <<target, temporary>>
       ELSE /\ target' = [target EXCEPT ![o] = temporary[o]]
            /\ temporary' = [temporary EXCEPT ![o] = NoFile]
            /\ AfterReplacing(r)
    /\ UNCHANGED <<objects, bytes, inventory, killed, overlap, uneven>>

(* _inventory reads the objects it lists. *)
TakeInventory(r) ==
    /\ IngestIsAt(r, "list")
    /\ inventory' = [inventory EXCEPT ![r] = [latest |-> Serves("latest"),
                                              portable |-> Serves("portable")]]
    /\ IngestGoes(r, "open", ingest[r].at)
    /\ UNCHANGED <<objects, target, temporary, bytes, killed, overlap, uneven>>

(* The process is killed; its temporary file stays. *)
KillIngest(r) ==
    /\ r \in Ingesting
    /\ killed < MaxKilled
    /\ killed' = killed + 1
    /\ IngestGoes(r, "over", 1)
    /\ UNCHANGED <<objects, target, temporary, bytes, inventory, overlap, uneven>>

SnapshotNext ==
    \E r \in Ingests :
       \/ BeginIngest(r) \/ StoreObject(r) \/ NormalizeFails(r)
       \/ \E o \in SharedObjects : OpenTemporary(r, o) \/ WriteTemporary(r, o) \/ ReplaceTarget(r, o)
       \/ TakeInventory(r)
       \/ KillIngest(r)

SnapshotSpec == SnapshotInit /\ [][SnapshotNext]_snapshotVars

-----------------------------------------------------------------------------
(* Properties.                                                             *)

Resting == Ingesting = {} /\ killed = 0

(* A shared object is whole, wherever ingests that go on one at a time are *)
(* killed, and where they overlap once they are all at an end and none of  *)
(* them was killed or overwrote a longer file. *)
SharedAreWhole ==
    (overlap <= 1 \/ (Resting /\ ~uneven)) => \A o \in SharedObjects : HoldsWhole(o, target[o])

(* Whatever overlaps, a generation that can be read has all of its         *)
(* objects. *)
ReadableIsStored ==
    \A o \in SharedObjects : Serves(o) \in Ingests =>
       \A kind \in {Kinds[i] : i \in DOMAIN Kinds} : <<kind, Serves(o)>> \in objects

(* The index of a lake that only single ingests have written, none of them *)
(* killed, lists the manifests that are there. *)
IndexListsTheLake ==
    (overlap <= 1 /\ Resting /\ target["index"] # NoFile) =>
       inventory[Serves("index")] = [latest |-> Serves("latest"), portable |-> Serves("portable")]

(* The snapshot lake can be read: the three together. *)
SnapshotIsServable == SharedAreWhole /\ ReadableIsStored /\ IndexListsTheLake
=============================================================================
