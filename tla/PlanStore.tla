----------------------------- MODULE PlanStore -----------------------------
(***************************************************************************)
(* One desktop plan in the plan store (AtomicPlanStore of                  *)
(* desktop/plan_codec.py): the planner's thread stages it                  *)
(* (AtomicDesktopPlanningAdapter of desktop/planner.py), the controller    *)
(* revokes and discards it (_run_plan and _discard_plan of                 *)
(* runtime/controller.py), and the preparation worker reads it.            *)
(* Cancelling the planning task does not stop a thread that is staging, so *)
(* a plan may be published after it was revoked, and two threads may       *)
(* discard it at once.                                                     *)
(*                                                                         *)
(* A planning id is requested once; the store is a directory of files in   *)
(* memory that outlives the controller but not a reboot.                   *)
(***************************************************************************)
EXTENDS Naturals, FiniteSets

CONSTANTS
    MaxCrashes,    \* bound on the crashes of the controller
    MaxReads       \* bound on the reads of workers

ASSUME PlanStoreAssumption == MaxCrashes \in Nat /\ MaxReads \in Nat

\* What a published plan consists of.
Files == {"artifact", "plan.json", "plan.sha256"}

\* The threads that open the plan.
Threads == {"publisher", "controller", "worker"}

VARIABLES
    place,         \* where the plan's directory is: its name in the store
    files,         \* the files in it
    version,       \* its metadata: changed by every rename and removal
    marker,        \* the revocation marker: not there, being written, whole
    at,            \* where each thread is
    seen,          \* the metadata each thread saw when it opened the plan
    cancelled,     \* whether the planning task was cancelled
    reported,      \* whether the plan was reported complete
    crashes, reads
Idle == <<"idle", "idle">>
vars == <<place, files, version, marker, at, seen, cancelled, reported,
          crashes, reads>>
directory == <<place, files, version>>
counts == <<crashes, reads>>

\* A position is an activity and how far it got.
At(t, activity, stage) == at[t] = <<activity, stage>>
Goes(t, activity, stage) == at' = [at EXCEPT ![t] = <<activity, stage>>]
Ends(t, how) == Goes(t, "ended", how)
Ended(t) == at[t][1] = "ended"

----------------------------------------------------------------------------
(* Reading a published plan: _read_published_with_identity, on behalf of a *)
(* reader or of a thread about to discard.                                 *)

\* A plan or a file that is not there: nothing to discard, an error to a reader.
Missing(t) == Ends(t, IF at[t][1] = "discard" THEN "absent" ELSE "failed")

OpenPlan(t, activity) ==
    /\ At(t, activity, "open")
    /\ IF place = "published"
       THEN /\ seen' = [seen EXCEPT ![t] = version]
            /\ Goes(t, activity, "plan.json")
       ELSE Missing(t) /\ UNCHANGED seen

ReadFile(t, activity, file, next) ==
    /\ At(t, activity, file)
    /\ IF file \in files THEN Goes(t, activity, next) ELSE Missing(t)
    /\ UNCHANGED seen

\* A file too few or too many is an error.
ListFiles(t, activity) ==
    /\ At(t, activity, "list")
    /\ IF files = Files THEN Goes(t, activity, "plan.sha256") ELSE Ends(t, "failed")
    /\ UNCHANGED seen

Validated(t, activity) ==
    IF activity = "discard" THEN Goes(t, "discard", "source") ELSE Ends(t, "read")

\* Mutant of CompareDetails: files that were all read make a plan.
CompareNothing(t, activity) ==
    /\ At(t, activity, "compare")
    /\ Validated(t, activity)
    /\ UNCHANGED seen

CompareDetails(t, activity) ==
    /\ At(t, activity, "compare")
    /\ IF version = seen[t] THEN Validated(t, activity) ELSE Ends(t, "failed")
    /\ UNCHANGED seen

ReadPublished(t, activity) ==
    /\ \/ OpenPlan(t, activity)
       \/ ReadFile(t, activity, "plan.json", "artifact")
       \/ ReadFile(t, activity, "artifact", "list")
       \/ ListFiles(t, activity)
       \/ ReadFile(t, activity, "plan.sha256", "compare")
       \/ CompareDetails(t, activity)
    /\ UNCHANGED <<directory, marker, cancelled, reported, counts>>

----------------------------------------------------------------------------
(* Discarding: _discard_published.                                         *)

OpenSource(t) ==
    /\ At(t, "discard", "source")
    /\ IF place = "published" /\ version = seen[t]
       THEN Goes(t, "discard", "detach") ELSE Ends(t, "failed")
    /\ UNCHANGED directory

\* The directory leaves its name in one step, before any file does.
Detach(t) ==
    /\ At(t, "discard", "detach")
    /\ IF place = "published"
       THEN /\ place' = "detached"
            /\ version' = version + 1
            /\ Goes(t, "discard", "remove")
       ELSE Ends(t, "failed") /\ UNCHANGED <<place, version>>
    /\ UNCHANGED files

RemoveTree(t) ==
    /\ At(t, "discard", "remove")
    /\ IF files = {}
       THEN place' = "none" /\ Ends(t, "discarded") /\ UNCHANGED <<files, version>>
       ELSE /\ \E f \in files : files' = files \ {f}
            /\ version' = version + 1
            /\ UNCHANGED <<place, at>>

DiscardPublished(t) ==
    \/ ReadPublished(t, "discard")
    \/ /\ OpenSource(t) \/ Detach(t) \/ RemoveTree(t)
       /\ UNCHANGED <<marker, seen, cancelled, reported, counts>>

----------------------------------------------------------------------------
(* The publisher: create_plan and stage.                                   *)

\* The planning request is made once, and before any revocation.
RequestPlan ==
    /\ at["publisher"] = Idle
    /\ at["controller"] = Idle
    /\ marker = "none"
    /\ crashes = 0
    /\ Goes("publisher", "plan", "load")
    /\ UNCHANGED <<directory, marker, seen, cancelled, reported, counts>>

\* Configuration that changed meanwhile, or a plan that cannot be built.
LoadInputs ==
    /\ At("publisher", "plan", "load")
    /\ \/ ~cancelled /\ Goes("publisher", "plan", "begin")
       \/ Ends("publisher", "failed")
    /\ UNCHANGED <<directory, marker, seen, cancelled, reported, counts>>

\* is_revoked: a marker that is still empty is an error.
Unrevoked(next) ==
    IF marker = "none" THEN Goes("publisher", "plan", next)
    ELSE Ends("publisher", "failed")

StageBegin ==
    /\ At("publisher", "plan", "begin")
    /\ Unrevoked("write")
    /\ UNCHANGED <<directory, marker, seen, cancelled, reported, counts>>

\* A temporary directory is filled and synced; a failure removes it.
WriteBundle ==
    /\ At("publisher", "plan", "write")
    /\ \/ place' = "temporary" /\ files' = Files /\ Goes("publisher", "plan", "written")
       \/ Ends("publisher", "failed") /\ UNCHANGED <<place, files>>
    /\ UNCHANGED <<version, marker, seen, cancelled, reported, counts>>

CheckBeforePublication ==
    /\ At("publisher", "plan", "written")
    /\ Unrevoked("rename")
    /\ IF marker = "none" THEN UNCHANGED directory
       ELSE place' = "none" /\ files' = {} /\ UNCHANGED version
    /\ UNCHANGED <<marker, seen, cancelled, reported, counts>>

RenameNoreplace ==
    /\ At("publisher", "plan", "rename")
    /\ place' = "published"
    /\ version' = version + 1
    /\ Goes("publisher", "plan", "published")
    /\ UNCHANGED <<files, marker, seen, cancelled, reported, counts>>

\* What create_plan does after stage: nothing any more when cancelled.
Staged ==
    IF cancelled THEN Ends("publisher", "staged")
    ELSE Goes("publisher", "plan", "verify")

\* Mutant of CheckAfterPublication: a plan published late stays.
NoCheckAfterPublication ==
    /\ At("publisher", "plan", "published")
    /\ Staged
    /\ UNCHANGED <<directory, marker, seen, cancelled, reported, counts>>

\* Mutant of CheckAfterPublication: a marker that is being written revokes already.
AnyMarkerRevokes ==
    /\ At("publisher", "plan", "published")
    /\ IF marker = "none" THEN Staged ELSE Goes("publisher", "discard", "open")
    /\ UNCHANGED <<directory, marker, seen, cancelled, reported, counts>>

\* A plan published after its revocation is taken back by its publisher.
CheckAfterPublication ==
    /\ At("publisher", "plan", "published")
    /\ CASE marker = "none" -> Staged
         [] marker = "partial" -> Ends("publisher", "failed")
         [] marker = "whole" -> Goes("publisher", "discard", "open")
    /\ UNCHANGED <<directory, marker, seen, cancelled, reported, counts>>

BeginRead(t) ==
    IF marker = "none" THEN Goes(t, "read", "open") ELSE Ends(t, "failed")

\* create_plan reads the plan back before it reports it.
VerifyStaged ==
    /\ At("publisher", "plan", "verify")
    /\ BeginRead("publisher")
    /\ UNCHANGED <<directory, marker, seen, cancelled, reported, counts>>

ReportPlan ==
    /\ At("publisher", "ended", "read")
    /\ Ends("publisher", "staged")
    /\ reported' = (reported \/ ~cancelled)
    /\ UNCHANGED <<directory, marker, seen, cancelled, counts>>

\* The planning task gives up; a thread that is staging goes on.
PlanningTimesOut ==
    /\ ~cancelled
    /\ at["publisher"] /= Idle
    /\ ~Ended("publisher")
    /\ cancelled' = TRUE
    /\ UNCHANGED <<directory, marker, at, seen, reported, counts>>

Publisher ==
    \/ LoadInputs \/ StageBegin \/ WriteBundle \/ CheckBeforePublication
    \/ RenameNoreplace \/ CheckAfterPublication \/ VerifyStaged \/ ReportPlan
    \/ DiscardPublished("publisher")
    \/ ReadPublished("publisher", "read")

----------------------------------------------------------------------------
(* The controller: _discard_plan.                                          *)

\* The reducer asks for the discard of a plan it requested.
DiscardRequested ==
    /\ at["controller"] = Idle
    /\ at["publisher"] /= Idle \/ crashes > 0
    /\ Goes("controller", "revoke", "begin")
    /\ UNCHANGED <<directory, marker, seen, cancelled, reported, counts>>

\* The marker is created first and written then; one that is there already
\* must be whole.  A thread the controller no longer waits for goes on.
Waited == At("controller", "revoke", "begin") \/ At("controller", "revoke", "writing")

Revoke ==
    /\ At("controller", "revoke", "begin") \/ At("controller", "unwaited", "begin")
    /\ \/ /\ marker = "none"
          /\ marker' = "partial"
          /\ Goes("controller", at["controller"][1], "writing")
       \/ /\ marker /= "none"
          /\ IF Waited /\ marker = "whole" THEN Goes("controller", "revoke", "revoked")
             ELSE Ends("controller", "unrevoked")
          /\ UNCHANGED marker
    /\ UNCHANGED <<directory, seen, cancelled, reported, counts>>

WriteMarker ==
    /\ \/ At("controller", "revoke", "writing") /\ Goes("controller", "revoke", "revoked")
       \/ At("controller", "unwaited", "writing") /\ Ends("controller", "unrevoked")
    /\ marker' = "whole"
    /\ UNCHANGED <<directory, seen, cancelled, reported, counts>>

\* The controller stops waiting; the thread goes on and nothing is discarded.
RevocationTimesOut ==
    /\ Waited
    /\ Goes("controller", "unwaited", at["controller"][2])
    /\ UNCHANGED <<directory, marker, seen, cancelled, reported, counts>>

\* Cancelling ends the planning task at once, not a thread that is staging.
CancelAndDiscard ==
    /\ At("controller", "revoke", "revoked")
    /\ cancelled' = TRUE
    /\ Goes("controller", "discard", "check")
    /\ UNCHANGED <<directory, marker, seen, reported, counts>>

\* The store makes sure of the revocation itself.
DiscardBegin ==
    /\ At("controller", "discard", "check")
    /\ IF marker = "whole" THEN Goes("controller", "discard", "open")
       ELSE Ends("controller", "failed")
    /\ UNCHANGED <<directory, marker, seen, cancelled, reported, counts>>

Controller ==
    \/ Revoke \/ WriteMarker \/ RevocationTimesOut
    \/ CancelAndDiscard \/ DiscardBegin \/ DiscardPublished("controller")

\* The controller is killed with all its threads.  The one that follows asks
\* for the discard of what its state says was requested.
Crash ==
    /\ crashes < MaxCrashes
    /\ at["publisher"] /= Idle
    /\ crashes' = crashes + 1
    /\ at' = [at EXCEPT !["publisher"] = <<"ended", "killed">>, !["controller"] = Idle]
    /\ UNCHANGED <<directory, marker, seen, cancelled, reported, reads>>

----------------------------------------------------------------------------
(* A worker reads a plan that was reported.                                *)

WorkerReads ==
    /\ reads < MaxReads
    /\ reported
    /\ at["worker"] = Idle \/ Ended("worker")
    /\ BeginRead("worker")
    /\ reads' = reads + 1
    /\ UNCHANGED <<directory, marker, seen, cancelled, reported, crashes>>

Worker == WorkerReads \/ ReadPublished("worker", "read")

Init ==
    /\ place = "none" /\ files = {} /\ version = 0
    /\ marker = "none"
    /\ at = [t \in Threads |-> Idle]
    /\ seen = [t \in Threads |-> 0]
    /\ cancelled = FALSE
    /\ reported = FALSE
    /\ crashes = 0
    /\ reads = 0

Next ==
    \/ RequestPlan \/ PlanningTimesOut \/ Publisher
    \/ DiscardRequested \/ Controller \/ Crash
    \/ Worker

Spec == Init /\ [][Next]_vars

\* Threads and the controller's task run on; nothing obliges the reducer to ask
\* for a discard.
Fairness == WF_vars(Publisher) /\ WF_vars(Controller)

FairSpec == Spec /\ Fairness

----------------------------------------------------------------------------
(* Properties.                                                             *)

Positions ==
    {Idle} \cup
    {"plan"} \X {"load", "begin", "write", "written", "rename", "published",
                "verify"} \cup
    {"read", "discard"} \X {"open", "plan.json", "artifact", "list",
                            "plan.sha256", "compare"} \cup
    {"discard"} \X {"check", "source", "detach", "remove"} \cup
    {"revoke", "unwaited"} \X {"begin", "writing", "revoked"} \cup
    {"ended"} \X {"failed", "absent", "read", "discarded", "staged",
                 "unrevoked", "killed"}

\* Every variable has its type.
TypeOK ==
    /\ place \in {"none", "temporary", "published", "detached"}
    /\ files \subseteq Files
    /\ version \in Nat
    /\ marker \in {"none", "partial", "whole"}
    /\ at \in [Threads -> Positions]
    /\ seen \in [Threads -> Nat]
    /\ cancelled \in BOOLEAN /\ reported \in BOOLEAN
    /\ crashes \in 0..MaxCrashes /\ reads \in 0..MaxReads

\* Whatever stands under a plan's own name is a whole bundle, also while two
\* threads discard it and after a crash in the middle of staging or removal.
PublishedIsWhole == place = "published" => files = Files

\* Once the discard is over and the publisher's thread has ended, a revoked plan
\* is not published, however late the publication was and whichever of the two
\* discards gave up because of the other.
RevokedIsGone ==
    /\ marker = "whole"
    /\ Ended("publisher") /\ Ended("controller")
    /\ ~At("controller", "ended", "unrevoked")
    => place /= "published"

\* A worker is only ever given a plan that is published and whole at the moment
\* the read returns: a discard under way makes the read fail.
ReadIsPublished ==
    [][At("worker", "read", "compare") /\ At("worker", "ended", "read")'
       => place = "published" /\ files = Files]_vars

\* A published plan goes only once its revocation is on disk as a whole ("plan must
\* be durably revoked before discard"): no timeout, late publication or crash, and
\* neither of the two threads that discard, takes it away on a marker that is
\* still being written.
DiscardsOnlyRevoked ==
    [][place = "published" /\ place' /= "published" => marker = "whole"]_vars

\* The controller died, or gave up waiting for its revocation.
Abandoned ==
    \/ crashes > 0
    \/ at["controller"][1] = "unwaited"
    \/ At("controller", "ended", "unrevoked")

\* A revocation that was begun ends with the plan's directory gone for good, as
\* long as the controller lives and waits: neither a late publication nor a planning
\* task that timed out nor two discards meeting leave anything behind.
DiscardIsFinal == marker /= "none" ~> [](place = "none" \/ Abandoned)

=============================================================================
