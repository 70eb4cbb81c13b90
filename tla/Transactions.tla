---------------------------- MODULE Transactions ----------------------------
(***************************************************************************)
(* One transaction: the directory of create-once records under which a     *)
(* single action is requested, submitted to the service manager, run by a  *)
(* worker, stopped and reported.  Four parties take steps: the controller, *)
(* the systemd user manager, the worker process, and the helper that       *)
(* systemd runs when the worker has stopped (ExecStopPost).  They share    *)
(* only the records and the manager's view of the unit.                    *)
(*                                                                         *)
(* A record is created by linking a synced temporary file to its name and  *)
(* unlinking the temporary name.  Between the two it has two links, and    *)
(* every reader rejects it with an error.                                  *)
(***************************************************************************)
EXTENDS Naturals

CONSTANT MaxOffers     \* How often the admission of this action is emitted.

ASSUME OffersAssumption == MaxOffers \in Nat

StopLifecycles == {"CANCELLED", "TIMED_OUT", "UNKNOWN"}
TerminalLifecycles == StopLifecycles \cup {"COMPLETED", "FAILED"}

VARIABLES
    draft,         \* The hidden directory a bundle is assembled in: its parts.
    bundle,        \* The published directory: its parts, {} if there is none.
    rec,           \* Each record: "absent", "linked" (two links) or "installed".
    intent,        \* The lifecycle in the stop intent.
    outcome,       \* The outcome in the result.
    ctl,           \* Where the controller is.
    offers,
    after,         \* Persisted: what a stop is to end in, "none" if not stopping.
    told,          \* The terminal outcome the controller acted on.
    unit,          \* The manager's view of the unit.
    mres,          \* The manager's Result; the first failure stays.
    seen,          \* Does the manager remember that the main process ran?
    starts,
    proc,          \* The worker, or after it the helper.
    exec,          \* The outcome the process is about to report.
    works,         \* How often a worker passed its guards and mutated.
    blind          \* Did a helper end without a report?

disk == <<draft, bundle, rec, intent, outcome>>
controller == <<ctl, offers, after, told>>
manager == <<unit, mres, seen, starts>>
worker == <<proc, exec, works, blind>>
vars == <<disk, controller, manager, worker>>

Records == {"submission", "execution", "stop", "result"}

\* The parts of a bundle in the order they are written.
Complete == {"dir", "request", "prepared", "artifacts"}

NextPart(parts) ==
    IF "request" \notin parts THEN "request"
    ELSE IF "prepared" \notin parts THEN "prepared"
    ELSE "artifacts"

\* ... and in the order discard_unacknowledged removes them.
LastPart(parts) ==
    IF "artifacts" \in parts THEN "artifacts"
    ELSE IF "prepared" \in parts THEN "prepared"
    ELSE IF "request" \in parts THEN "request"
    ELSE "dir"

\* read_request verifies the request against the prepared record.
RequestReadable == {"request", "prepared"} \subseteq bundle
ArtifactsValid == "artifacts" \in bundle

Link(r) == rec' = [rec EXCEPT ![r] = "linked"]
Unlink(r) == rec' = [rec EXCEPT ![r] = "installed"]
Readable(r) == rec[r] = "installed"
Torn(r) == rec[r] = "linked"
Absent(r) == rec[r] = "absent"

\* SystemdUnitState.activity: anything from a queued job to the helper.
Active == unit \in {"queued", "main", "term", "grace", "post"}

\* _validate_terminal_manager_result: a manager that remembers a successful
\* process contradicts a result that says neither COMPLETED nor UNKNOWN.
Contradicted ==
    seen /\ mres = "success" /\ outcome \notin {"COMPLETED", "UNKNOWN"}

\* worker_completion: the result of an inactive unit, if it can be trusted.
Completion == ~Active /\ Readable("result") /\ ~Contradicted

Init ==
    /\ draft = {} /\ bundle = {}
    /\ rec = [r \in Records |-> "absent"]
    /\ intent = "none" /\ outcome = "none"
    /\ ctl = "idle" /\ offers = 0 /\ after = "none" /\ told = "none"
    /\ unit = "never" /\ mres = "success" /\ seen = FALSE /\ starts = 0
    /\ proc = "none" /\ exec = "none" /\ works = 0 /\ blind = FALSE

-----------------------------------------------------------------------------
(* The controller writes the request. *)

Control(place) == ctl' = place /\ UNCHANGED <<offers, after, told>>

\* create_request without a directory: a new hidden one.
CreateRequest ==
    /\ ctl = "idle" /\ offers < MaxOffers
    /\ bundle = {}
    /\ draft' = {"dir"}
    /\ ctl' = "draft" /\ offers' = offers + 1
    /\ UNCHANGED <<bundle, rec, intent, outcome, after, told, manager, worker>>

\* create_request meets the directory of an earlier offer of the same action.
\* Anything but the same complete bundle is an error and the offer is rejected.
MeetRequest ==
    /\ ctl = "idle" /\ offers < MaxOffers
    /\ bundle # {}
    /\ offers' = offers + 1
    /\ \/ RequestReadable /\ ArtifactsValid /\ ctl' = "written"
       \/ ctl' = "over"
    /\ UNCHANGED <<disk, after, told, manager, worker>>

InstallPart ==
    /\ ctl = "draft" /\ draft # Complete
    /\ draft' = draft \cup {NextPart(draft)}
    /\ UNCHANGED <<bundle, rec, intent, outcome, controller, manager, worker>>

\* The publication of a bundle that is complete and synced.
PublishBundle ==
    /\ ctl = "draft" /\ draft = Complete
    /\ bundle' = draft /\ draft' = {}
    /\ Control("written")
    /\ UNCHANGED <<rec, intent, outcome, manager, worker>>

\* An error while assembling removes the hidden directory; the offer is rejected.
AbandonDraft ==
    /\ ctl = "draft"
    /\ draft' = {}
    /\ Control("over")
    /\ UNCHANGED <<bundle, rec, intent, outcome, manager, worker>>

-----------------------------------------------------------------------------
(* SystemdDispatcher.start and SystemdSupervisor.start. *)

NothingRecorded == Absent("result") /\ Absent("submission") /\ Absent("execution")

Preflight ==
    /\ ctl = "written"
    /\ NothingRecorded
    /\ ~Active /\ ~seen
    /\ Control("offered")
    /\ UNCHANGED <<disk, manager, worker>>

\* Every error but a definite refusal is taken for a start that may have happened.
MarkDispatchUncertain ==
    /\ ctl' = "stopping" /\ after' = "UNKNOWN"
    /\ UNCHANGED <<offers, told>>

PreflightFails ==
    /\ ctl = "written"
    /\ MarkDispatchUncertain
    /\ UNCHANGED <<disk, manager, worker>>

FenceRejects ==
    /\ ctl = "offered"
    /\ Control("discarding")
    /\ UNCHANGED <<disk, manager, worker>>

\* discard_unacknowledged, one file at a time; then the action may be offered again.
DiscardPart ==
    /\ ctl = "discarding"
    /\ \A r \in Records : Absent(r)
    /\ bundle' = bundle \ {LastPart(bundle)}
    /\ Control(IF bundle' = {} THEN "idle" ELSE "discarding")
    /\ UNCHANGED <<draft, rec, intent, outcome, manager, worker>>

\* A cleanup that fails is only reported.
DiscardFails ==
    /\ ctl = "discarding"
    /\ Control("idle")
    /\ UNCHANGED <<disk, manager, worker>>

FencePasses ==
    /\ ctl = "offered"
    /\ Link("submission")
    /\ Control("claiming")
    /\ UNCHANGED <<draft, bundle, intent, outcome, manager, worker>>

ClaimSubmission ==
    /\ ctl = "claiming"
    /\ Unlink("submission")
    /\ Control("claimed")
    /\ UNCHANGED <<draft, bundle, intent, outcome, manager, worker>>

StartAccepted ==
    /\ ctl = "claimed"
    /\ unit' = "queued"
    /\ Control("watching")
    /\ UNCHANGED <<disk, mres, seen, starts, worker>>

StartRefused ==
    /\ ctl = "claimed"
    /\ Control("refused")
    /\ UNCHANGED <<disk, manager, worker>>

\* Mutant of StartUnanswered: a lost answer is taken for a refusal.
StartUnansweredRefuses ==
    /\ ctl = "claimed"
    /\ unit' \in {"never", "queued"}
    /\ Control("refused")
    /\ UNCHANGED <<disk, mres, seen, starts, worker>>

\* No answer: the manager may or may not have queued the unit.
StartUnanswered ==
    /\ ctl = "claimed"
    /\ unit' \in {"never", "queued"}
    /\ MarkDispatchUncertain
    /\ UNCHANGED <<disk, mres, seen, starts, worker>>

\* A definite refusal after the claim is recorded as a failed result.
RecordRefusal ==
    /\ ctl = "refused"
    /\ Link("result") /\ outcome' = "FAILED"
    /\ Control("refusing")
    /\ UNCHANGED <<draft, bundle, intent, manager, worker>>

CompleteRefusedStart ==
    /\ ctl = "refusing"
    /\ Unlink("result")
    /\ ctl' = "over" /\ told' = "FAILED"
    /\ UNCHANGED <<draft, bundle, intent, outcome, offers, after, manager, worker>>

-----------------------------------------------------------------------------
(* The controller watches, and stops. *)

Tell ==
    /\ ctl' = "over" /\ told' = outcome /\ after' = "none"
    /\ UNCHANGED offers

BeginStop(lifecycle) ==
    /\ ctl' = "stopping" /\ after' = lifecycle
    /\ UNCHANGED <<offers, told>>

\* _monitor_worker: TIMED_OUT and UNKNOWN results are resolved by a stop.
WatchCompletion ==
    /\ ctl = "watching"
    /\ Completion
    /\ IF outcome \in {"TIMED_OUT", "UNKNOWN"} THEN BeginStop(outcome) ELSE Tell
    /\ UNCHANGED <<disk, manager, worker>>

WatchLost ==
    /\ ctl = "watching"
    /\ ~Active /\ ~Completion
    /\ BeginStop("UNKNOWN")
    /\ UNCHANGED <<disk, manager, worker>>

\* A newer decision, the deadline, or a query that fails.
Supersede ==
    /\ ctl = "watching"
    /\ \E lifecycle \in StopLifecycles : BeginStop(lifecycle)
    /\ UNCHANGED <<disk, manager, worker>>

\* A preparation that succeeded is stopped while it awaits its confirmation: the
\* displays changed.
StopAgain ==
    /\ ctl = "over" /\ told = "COMPLETED"
    /\ BeginStop("CANCELLED")
    /\ UNCHANGED <<disk, manager, worker>>

\* create_stop_intent needs the submission claim; without it every stop fails.
CreateStopIntent ==
    /\ ctl = "stopping"
    /\ Readable("submission") /\ Absent("stop")
    /\ Link("stop") /\ intent' = after
    /\ Control("intending")
    /\ UNCHANGED <<draft, bundle, outcome, manager, worker>>

InstallStopIntent ==
    /\ ctl = "intending"
    /\ Unlink("stop")
    /\ Control("asking")
    /\ UNCHANGED <<draft, bundle, intent, outcome, manager, worker>>

\* Mutant of MeetStopIntent: every repetition is an error.
MeetStopIntentOnce ==
    /\ ctl = "stopping"
    /\ Readable("submission") /\ Readable("stop") /\ intent # after
    /\ Control("asking")
    /\ UNCHANGED <<disk, manager, worker>>

\* A repeated stop meets its own intent.  One of another lifecycle is an error: the
\* action stays STOPPING and the same stop is tried again.
MeetStopIntent ==
    /\ ctl = "stopping"
    /\ Readable("submission") /\ Readable("stop") /\ intent = after
    /\ Control("asking")
    /\ UNCHANGED <<disk, manager, worker>>

StopInactive ==
    /\ ctl = "asking" /\ ~Active
    /\ Control("asked")
    /\ UNCHANGED <<disk, manager, worker>>

\* systemctl stop: a queued start is cancelled, and no ExecStopPost runs for it.
StopActive ==
    /\ ctl = "asking" /\ Active
    /\ unit' = IF unit = "queued" THEN "dead" ELSE IF unit = "main" THEN "term" ELSE unit
    /\ Control("awaiting")
    /\ UNCHANGED <<disk, mres, seen, starts, worker>>

StopReturns ==
    /\ ctl = "awaiting" /\ ~Active
    /\ Control("asked")
    /\ UNCHANGED <<disk, manager, worker>>

StopTimesOut ==
    /\ ctl = "awaiting"
    /\ Control("stopping")
    /\ UNCHANGED <<disk, manager, worker>>

StopAcknowledged ==
    /\ ctl = "asked"
    /\ Completion
    /\ Tell
    /\ UNCHANGED <<disk, manager, worker>>

\* The action stays STOPPING and the stop is repeated.
StopDoubted ==
    /\ ctl = "asked"
    /\ ~Completion
    /\ Control("stopping")
    /\ UNCHANGED <<disk, manager, worker>>

-----------------------------------------------------------------------------
(* The controller dies and returns. *)

Crash ==
    /\ ctl \notin {"down", "over"}
    /\ Control("down")
    /\ UNCHANGED <<disk, manager, worker>>

\* _scan_transaction: what denies the restarted controller its authority.
ScanAmbiguous ==
    /\ bundle # {}
    /\ \/ ~RequestReadable
       \/ \E r \in {"submission", "execution", "result"} : Torn(r)
       \/ Active /\ (Readable("result") \/ Absent("execution"))
       \/ /\ ~Active /\ Absent("result")
          /\ Readable("submission") \/ Readable("execution") \/ seen
       \/ ~Active /\ Readable("result") /\ Contradicted

\* A stop in progress whose action was never submitted has no unit to verify.
RecoverUnsubmitted ==
    /\ ctl = "down" /\ ~ScanAmbiguous
    /\ ~Active /\ Absent("result") /\ after = "none"
    /\ Control("idle")
    /\ UNCHANGED <<disk, manager, worker>>

RecoverActive ==
    /\ ctl = "down" /\ ~ScanAmbiguous
    /\ Active
    /\ Control(IF after = "none" THEN "watching" ELSE "stopping")
    /\ UNCHANGED <<disk, manager, worker>>

RecoverEnded ==
    /\ ctl = "down" /\ ~ScanAmbiguous
    /\ ~Active /\ Readable("result")
    /\ Tell
    /\ UNCHANGED <<disk, manager, worker>>

-----------------------------------------------------------------------------
(* The service manager (external). *)

Fails(result) == IF mres = "success" THEN result ELSE mres

StartMain ==
    /\ unit = "queued"
    /\ unit' = "main" /\ seen' = TRUE /\ mres' = "success" /\ starts' = starts + 1
    /\ proc' = "boot" /\ exec' = "none"
    /\ UNCHANGED <<disk, controller, works, blind>>

DropJob ==
    /\ unit = "queued"
    /\ unit' = "dead"
    /\ UNCHANGED <<disk, controller, mres, seen, starts, worker>>

\* TimeoutStartSec passes: the stop begins without an intent.
Deadline ==
    /\ unit = "main"
    /\ unit' = "term" /\ mres' = Fails("timeout")
    /\ UNCHANGED <<disk, controller, seen, starts, worker>>

MainExits ==
    /\ unit \in {"main", "term", "grace"} /\ proc = "exit"
    /\ unit' = "post" /\ proc' = "help"
    /\ mres' = IF exec = "COMPLETED" THEN mres ELSE Fails("exit-code")
    /\ UNCHANGED <<disk, controller, seen, starts, exec, works, blind>>

\* TimeoutStopSec passes: SIGKILL.
KillAtTimeout ==
    /\ unit \in {"term", "grace"} /\ proc # "exit"
    /\ unit' = "post" /\ proc' = "help" /\ mres' = Fails("timeout")
    /\ UNCHANGED <<disk, controller, seen, starts, exec, works, blind>>

KillFromOutside ==
    /\ unit \in {"main", "term", "grace"}
    /\ unit' = "post" /\ proc' = "help" /\ mres' = Fails("signal")
    /\ UNCHANGED <<disk, controller, seen, starts, exec, works, blind>>

HelperEnds ==
    /\ unit = "post" /\ proc = "gone"
    /\ unit' = "dead" /\ proc' = "none"
    /\ UNCHANGED <<disk, controller, mres, seen, starts, exec, works, blind>>

LoseHelper ==
    /\ unit = "post"
    /\ unit' = "dead" /\ proc' = "none" /\ blind' = TRUE
    /\ UNCHANGED <<disk, controller, mres, seen, starts, exec, works>>

\* CollectMode=inactive-or-failed.
Collect ==
    /\ unit = "dead" /\ seen
    /\ seen' = FALSE /\ mres' = "success"
    /\ UNCHANGED <<disk, controller, unit, starts, worker>>

\* Somebody else starts the unit once more; its job is not kept in the queue.
Reinvoke ==
    /\ unit = "dead" /\ starts = 1
    /\ unit' = "main" /\ seen' = TRUE /\ mres' = "success" /\ starts' = 2
    /\ proc' = "boot" /\ exec' = "none"
    /\ UNCHANGED <<disk, controller, works, blind>>

-----------------------------------------------------------------------------
(* The worker. *)

\* Mutant of ClaimExecution: an existing claim is taken over.
ClaimExecutionAgain ==
    /\ proc = "boot"
    /\ Absent("result") /\ Readable("submission")
    /\ Link("execution")
    /\ proc' = "claiming"
    /\ UNCHANGED <<draft, bundle, intent, outcome, controller, manager, exec, works, blind>>

\* validate_worker_startup: the claim is taken before anything is looked at.
Claimable ==
    RequestReadable /\ Absent("result") /\ Readable("submission") /\ Absent("execution")

ClaimExecution ==
    /\ proc = "boot"
    /\ Claimable
    /\ Link("execution")
    /\ proc' = "claiming"
    /\ UNCHANGED <<draft, bundle, intent, outcome, controller, manager, exec, works, blind>>

RejectInvocation ==
    /\ proc = "boot"
    /\ ~Claimable
    /\ proc' = "exit"
    /\ UNCHANGED <<disk, controller, manager, exec, works, blind>>

ExecutionClaimed ==
    /\ proc = "claiming"
    /\ Unlink("execution")
    /\ proc' = "guard"
    /\ UNCHANGED <<draft, bundle, intent, outcome, controller, manager, exec, works, blind>>

Conclude(lifecycle) ==
    /\ proc' = "report" /\ exec' = lifecycle
    /\ UNCHANGED <<works, blind>>

\* raise_if_cancelled: an intent of two links is a worker exception.
Cancelled ==
    \/ Readable("stop") /\ Conclude(intent)
    \/ Torn("stop") /\ Conclude("FAILED")

\* The topology reader, then validate_topology_guard.
PassGuard ==
    /\ proc = "guard"
    /\ \/ Cancelled
       \/ Absent("stop") /\ Conclude("FAILED")
       \/ Absent("stop") /\ ArtifactsValid /\ proc' = "mutate"
                          /\ works' = works + 1 /\ UNCHANGED <<exec, blind>>
    /\ UNCHANGED <<disk, controller, manager>>

\* The implementation, which looks for the intent at its own boundaries.
FinishWork ==
    /\ proc = "mutate"
    /\ \/ Cancelled
       \/ \E lifecycle \in {"COMPLETED", "FAILED", "TIMED_OUT"} : Conclude(lifecycle)
    /\ UNCHANGED <<disk, controller, manager>>

WriteResult ==
    /\ proc = "report" /\ Absent("result")
    /\ Link("result") /\ outcome' = exec
    /\ proc' = "reporting"
    /\ UNCHANGED <<draft, bundle, intent, controller, manager, exec, works, blind>>

ResultWritten ==
    /\ proc = "reporting"
    /\ Unlink("result")
    /\ proc' = "exit"
    /\ UNCHANGED <<draft, bundle, intent, outcome, controller, manager, exec, works, blind>>

\* SIGTERM before the handler is installed kills the worker; after it, the worker
\* reports the intent.  Without a readable one it dies and leaves the verdict to
\* the helper; once a result is linked, only the temporary name is removed.
InterruptedOutcome == IF Readable("stop") THEN intent ELSE "none"

Sigterm ==
    /\ unit = "term"
    /\ \/ /\ proc \in {"boot", "claiming"}
          /\ proc' = "help" /\ unit' = "post" /\ mres' = Fails("signal")
          /\ UNCHANGED <<disk, exec>>
       \/ /\ proc \in {"guard", "mutate"}
          /\ exec' = InterruptedOutcome
          /\ proc' = IF exec' = "none" THEN "exit" ELSE "report"
          /\ unit' = "grace"
          /\ UNCHANGED <<disk, mres>>
       \/ /\ proc = "report"
          /\ exec' = "none" /\ proc' = "exit" /\ unit' = "grace"
          /\ UNCHANGED <<disk, mres>>
       \/ /\ proc = "reporting"
          /\ Unlink("result")
          /\ exec' = "none" /\ proc' = "exit" /\ unit' = "grace"
          /\ UNCHANGED <<draft, bundle, intent, outcome, mres>>
    /\ UNCHANGED <<controller, seen, starts, works, blind>>

\* A finalization only notes the signal and goes on to its next boundary.
SigtermDeferred ==
    /\ unit = "term" /\ proc = "mutate"
    /\ unit' = "grace"
    /\ UNCHANGED <<disk, controller, mres, seen, starts, worker>>

-----------------------------------------------------------------------------
(* The helper: record_systemd_result. *)

\* Mutant of HelperFinds: a worker that claimed nothing needs no result.
HelperFindsUnclaimed ==
    /\ proc = "help"
    /\ Readable("result") \/ Absent("execution")
    /\ proc' = "gone"
    /\ UNCHANGED <<disk, controller, manager, exec, works, blind>>

HelperFinds ==
    /\ proc = "help"
    /\ Readable("result")
    /\ proc' = "gone"
    /\ UNCHANGED <<disk, controller, manager, exec, works, blind>>

\* A record of two links, be it only for the instant of its creation, ends the
\* helper with an error; nobody runs it again.
HelperGivesUp ==
    /\ proc = "help" /\ ~Readable("result")
    /\ \E r \in Records : Torn(r)
    /\ proc' = "gone" /\ blind' = TRUE
    /\ UNCHANGED <<disk, controller, manager, exec, works>>

Verdict ==
    IF mres = "timeout" THEN "TIMED_OUT"
    ELSE IF Readable("stop") THEN intent
    ELSE IF mres = "success" THEN "UNKNOWN"
    ELSE "FAILED"

\* Mutant of HelperFills: the helper does not look for a result first.
HelperFillsAnyway ==
    /\ proc = "help"
    /\ \A r \in Records : ~Torn(r)
    /\ Link("result") /\ outcome' = Verdict
    /\ proc' = "filling"
    /\ UNCHANGED <<draft, bundle, intent, controller, manager, exec, works, blind>>

HelperFills ==
    /\ proc = "help"
    /\ \A r \in Records : ~Torn(r)
    /\ Readable("submission") /\ Absent("result")
    /\ Link("result") /\ outcome' = Verdict
    /\ proc' = "filling"
    /\ UNCHANGED <<draft, bundle, intent, controller, manager, exec, works, blind>>

HelperFilled ==
    /\ proc = "filling"
    /\ Unlink("result")
    /\ proc' = "gone"
    /\ UNCHANGED <<draft, bundle, intent, outcome, controller, manager, exec, works, blind>>

-----------------------------------------------------------------------------

ControllerStep ==
    \/ CreateRequest \/ MeetRequest \/ InstallPart \/ PublishBundle
    \/ Preflight \/ PreflightFails \/ FenceRejects \/ DiscardPart
    \/ DiscardFails \/ FencePasses \/ ClaimSubmission \/ StartAccepted \/ StartRefused
    \/ StartUnanswered \/ RecordRefusal \/ CompleteRefusedStart
    \/ WatchCompletion \/ WatchLost
    \/ CreateStopIntent \/ InstallStopIntent \/ MeetStopIntent
    \/ StopInactive \/ StopActive \/ StopReturns \/ StopAcknowledged \/ StopDoubted
    \/ RecoverUnsubmitted \/ RecoverActive \/ RecoverEnded

ManagerStep == StartMain \/ MainExits \/ KillAtTimeout \/ HelperEnds

WorkerStep ==
    \/ ClaimExecution \/ RejectInvocation \/ ExecutionClaimed \/ PassGuard
    \/ WriteResult \/ ResultWritten

HelperStep == HelperFinds \/ HelperGivesUp \/ HelperFills \/ HelperFilled

Fault ==
    \/ AbandonDraft \/ Supersede \/ StopAgain \/ StopTimesOut \/ Crash
    \/ DropJob \/ KillFromOutside \/ LoseHelper \/ Collect \/ Reinvoke

Next ==
    \/ ControllerStep
    \/ ManagerStep
    \/ Deadline
    \/ WorkerStep
    \/ FinishWork
    \/ Sigterm
    \/ SigtermDeferred
    \/ HelperStep
    \/ Fault

Spec == Init /\ [][Next]_vars

-----------------------------------------------------------------------------
(* Properties. *)

\* However often the unit is started, by whomever, the desktop is changed once at
\* most: the execution claim is taken before the worker looks at anything.
WorksOnce == works <= 1

\* A controller that has finished with the action, or offers it anew, leaves no
\* process of it behind: not after a fence that rejected, a refused or unanswered
\* start, a stop, a timeout or a restart.
ReleasedIsQuiet ==
    ctl \in {"idle", "over"} => proc \notin {"claiming", "guard", "mutate", "report"}

\* A controller that returns when nothing of the action runs any more can scan it,
\* unless a record was torn, a directory half removed, the unit never ran, or its
\* helper died or met a record in the instant of its creation.
RestartableOtherwise ==
    ScanAmbiguous =>
        \/ Active
        \/ \E r \in Records : Torn(r)
        \/ bundle # {} /\ ~RequestReadable
        \/ starts = 0 /\ Readable("submission")
        \/ blind

\* The transaction implements WorkerUnit: the controller's view of an action id.
SubmittedPhase ==
    IF Active THEN "alive"
    ELSE IF \/ unit = "dead"
            \/ ~Absent("submission")
                    /\ ctl \notin {"claiming", "claimed", "refused", "refusing"}
         THEN "ended"
    ELSE "unsubmitted"

Abstract == INSTANCE WorkerUnit WITH
    Verdicts <- TerminalLifecycles,
    NoVerdict <- "none",
    phase <- SubmittedPhase,
    verdict <- IF SubmittedPhase # "unsubmitted" /\ Readable("result") THEN outcome ELSE "none",
    told <- told

\* The records, the manager and both processes together implement it, whatever dies
\* and whoever starts the unit again: an action is submitted once, its verdict is
\* written once, and what is told is the verdict of a unit that has ended.
ImplementsWorkerUnit == Abstract!Spec

-----------------------------------------------------------------------------
(* Liveness. *)

\* The controller's loop and the two processes take their next step, and the
\* manager starts what is queued, kills what outlives its time and reaps what ended.
Fairness ==
    /\ WF_vars(ControllerStep)
    /\ WF_vars(ManagerStep)
    /\ WF_vars(Deadline)
    /\ WF_vars(WorkerStep)
    /\ WF_vars(HelperStep)

FairSpec == Spec /\ Fairness

Damaged == blind \/ \E r \in Records : Torn(r)

\* A unit whose main process was started leaves a result, even if the worker hangs
\* or is killed, unless the helper dies or meets a record of two links.
StartedIsReported == unit = "main" ~> (Readable("result") \/ Damaged)

\* The stop of a preparation that was resumed meets the intent of the first one.
StopConflicts == told = "COMPLETED" /\ Readable("stop") /\ intent # after

\* A stop is resolved, also a second one, unless the start it stops was never
\* claimed or never ran, or the intent of an earlier stop is of another lifecycle.
StopIsResolved ==
    ctl = "stopping" ~>
        \/ ctl \in {"over", "down"}
        \/ Absent("submission")
        \/ unit \in {"never", "dead"} /\ starts = 0
        \/ StopConflicts
        \/ Damaged

=============================================================================
