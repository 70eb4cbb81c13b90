-------------------------------- MODULE Store --------------------------------
(***************************************************************************)
(* AtomicStateStore: the state file of one namespace, replaced by writing, *)
(* syncing and renaming a temporary sibling.  The process may be killed,   *)
(* a call may fail, and the power may be lost between any two steps.       *)
(* After a power loss a directory entry names what it was last synced to,  *)
(* or anything it was changed to since; a file has the content it was      *)
(* synced with, or a torn one.                                             *)
(***************************************************************************)
EXTENDS Naturals

CONSTANT MaxVersion   \* Bound on the versions saved.

ASSUME VersionAssumption == MaxVersion \in Nat

Torn == MaxVersion + 1     \* Stands for content no reader can decode.

Directories == {"root", "namespace"}

VARIABLES
    pc,        \* The next step of save, "idle", or "down".
    dirs,      \* The directories that exist,
    synced,    \* ... and those whose entry in the parent is durable.
    temps,     \* Temporary files in the namespace.
    data,      \* The temporary being written: "empty", "buffered", "cached", "synced".
    file,      \* The version in state.json; 0 is no file.
    entry,     \* What state.json may be after a power loss.
    acked,     \* The version of the last save that returned.
    inherited  \* Has a process left a directory it made and did not sync?

vars == <<pc, dirs, synced, temps, data, file, entry, acked, inherited>>

Init ==
    /\ pc = "idle"
    /\ dirs = {} /\ synced = {}
    /\ temps = 0 /\ data = "empty"
    /\ file = 0 /\ entry = {0} /\ acked = 0 /\ inherited = FALSE

Step(from, to) == pc = from /\ pc' = to

-----------------------------------------------------------------------------
(* save *)

Begin ==
    /\ Step("idle", "root")
    /\ file < MaxVersion
    /\ UNCHANGED <<dirs, synced, temps, data, file, entry, acked, inherited>>

\* _ensure_directories: a directory that exists is taken to be durable.
Ensure(at, directory, sync, next) ==
    /\ IF directory \in dirs THEN Step(at, next) ELSE Step(at, sync)
    /\ dirs' = dirs \cup {directory}
    /\ UNCHANGED <<synced, temps, data, file, entry, acked, inherited>>

SyncParent(at, directory, next) ==
    /\ Step(at, next)
    /\ synced' = synced \cup {directory}
    /\ UNCHANGED <<dirs, temps, data, file, entry, acked, inherited>>

EnsureDirectories ==
    \/ Ensure("root", "root", "sync home", "namespace")
    \/ SyncParent("sync home", "root", "namespace")
    \/ Ensure("namespace", "namespace", "sync root", "temp")
    \/ SyncParent("sync root", "namespace", "temp")

CreateTemporary ==
    /\ Step("temp", "write")
    /\ temps' = temps + 1 /\ data' = "empty"
    /\ UNCHANGED <<dirs, synced, file, entry, acked, inherited>>

WriteData ==
    /\ Step("write", "flush")
    /\ data' = "buffered"
    /\ UNCHANGED <<dirs, synced, temps, file, entry, acked, inherited>>

FlushFile ==
    /\ Step("flush", "sync file")
    /\ data' = "cached"
    /\ UNCHANGED <<dirs, synced, temps, file, entry, acked, inherited>>

\* Mutant of SyncFile: the data stays in the page cache.
LeaveFileCached ==
    /\ Step("sync file", "rename")
    /\ UNCHANGED <<dirs, synced, temps, data, file, entry, acked, inherited>>

SyncFile ==
    /\ Step("sync file", "rename")
    /\ data' = "synced"
    /\ UNCHANGED <<dirs, synced, temps, file, entry, acked, inherited>>

\* Replacing state.json: readers see the new version from here on; the entry may
\* still name an earlier one, and unsynced data may be torn, after a power loss.
Replace ==
    /\ Step("rename", "sync directory")
    /\ file' = file + 1
    /\ entry' = entry \cup {IF data = "synced" THEN file' ELSE Torn}
    /\ temps' = temps - 1
    /\ UNCHANGED <<dirs, synced, data, acked, inherited>>

\* Mutant of SyncDirectory: save returns right after the rename.
ReturnUnsynced ==
    /\ Step("sync directory", "idle")
    /\ acked' = file
    /\ UNCHANGED <<dirs, synced, temps, data, file, entry, inherited>>

SyncDirectory ==
    /\ Step("sync directory", "idle")
    /\ entry' = {file}
    /\ acked' = file
    /\ UNCHANGED <<dirs, synced, temps, data, file, inherited>>

-----------------------------------------------------------------------------
(* Failures. *)

Inherit == inherited' = (inherited \/ synced # dirs)

\* A call fails: save removes its temporary and raises, and the process ends.
Fail ==
    /\ pc \notin {"idle", "down"}
    /\ pc' = "down"
    /\ temps' = IF pc \in {"write", "flush", "sync file", "rename"} THEN temps - 1 ELSE temps
    /\ Inherit
    /\ UNCHANGED <<dirs, synced, data, file, entry, acked>>

Kill ==
    /\ pc # "down"
    /\ pc' = "down"
    /\ Inherit
    /\ UNCHANGED <<dirs, synced, temps, data, file, entry, acked>>

\* What is kept of the directories is closed under "parent of".
LosePower ==
    /\ pc' = "down"
    /\ \E kept \in SUBSET dirs :
           /\ synced \subseteq kept
           /\ "namespace" \in kept => "root" \in kept
           /\ dirs' = kept
           /\ IF "namespace" \in kept
              THEN \E v \in entry : file' = v /\ entry' = {v}
              ELSE file' = 0 /\ entry' = {0}
           /\ temps' \in IF "namespace" \in kept THEN 0..temps ELSE {0}
    /\ synced' = dirs'
    /\ data' = "empty"
    /\ UNCHANGED <<acked, inherited>>

\* The composition root sweeps orphaned temporaries and loads the state.
Start ==
    /\ Step("down", "idle")
    /\ temps' = 0
    /\ UNCHANGED <<dirs, synced, data, file, entry, acked, inherited>>

Next ==
    \/ Begin
    \/ EnsureDirectories
    \/ CreateTemporary
    \/ WriteData
    \/ FlushFile
    \/ SyncFile
    \/ Replace
    \/ SyncDirectory
    \/ Fail
    \/ Kill
    \/ LosePower
    \/ Start

Spec == Init /\ [][Next]_vars

-----------------------------------------------------------------------------
(* Properties. *)

\* Every variable has its type.
TypeOK ==
    /\ pc \in {"idle", "root", "sync home", "namespace", "sync root", "temp", "write",
               "flush", "sync file", "rename", "sync directory", "down"}
    /\ dirs \subseteq Directories /\ synced \subseteq dirs
    /\ temps \in Nat
    /\ data \in {"empty", "buffered", "cached", "synced"}
    /\ file \in 0..Torn
    /\ entry \subseteq 0..Torn
    /\ acked \in 0..MaxVersion
    /\ inherited \in BOOLEAN

\* No crash at any point leaves a state file that cannot be decoded: neither for a
\* process that returns nor after a power loss.
NeverTorn == file # Torn /\ Torn \notin entry

\* Orphans do not pile up: there is one temporary at most, whenever a save was
\* interrupted and however often.
OneTemporary == temps <= 1

\* The state file as a register of versions, as the controller uses it: each save
\* takes effect in one step, and what has returned is never taken back.
Saved == INSTANCE Register WITH stored <- file, sound <- ~inherited

\* save implements that register, through kills, failing calls and power losses; it
\* is sound until a process dies between making a directory and syncing its entry.
ImplementsRegister == Saved!Spec

\* save: "Durably replace state and return only after directory persistence": what
\* a power loss may leave of a version that was returned is that version, unless a
\* directory was inherited that the returning process took to be durable.
DurableOnReturn ==
    pc = "idle" /\ acked = file /\ acked > 0 /\ ~inherited
        => entry = {file} /\ synced = Directories

=============================================================================
