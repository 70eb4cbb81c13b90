------------------------------ MODULE Reducer ------------------------------
(***************************************************************************)
(* reduce(state, event) of reducer.py: one operator per event, each from   *)
(* the state (and the event's payload) to a decision.  An event that does  *)
(* not fit the state is a no-op, NoOp(s).                                  *)
(***************************************************************************)
EXTENDS Observe

NoOp(s) == Decision(s, {})

-----------------------------------------------------------------------------
(* ObservationCompleted. *)

\* Evidence which may show that a finalized desktop was disturbed.
CanDirtyDesktop(key) == Evidence[key].valid \/ ~Evidence[key].unavailable

FinalizedProfileReturned(s, o) ==
    /\ s.finalized # None
    /\ s.obs # None
    /\ CanDirtyDesktop(o.key)
    /\ CanDirtyDesktop(s.obs)
    /\ Evidence[s.obs].token = Evidence[o.key].token
    /\ s.finalized \in Evidence[o.key].current
    /\ s.finalized \notin Evidence[s.obs].current

\* The part of _observe every accepted sample goes through.
RecordObservation(s, o) ==
    [s EXCEPT
        !.obs = o.key, !.obsGen = o.gen,
        !.egen = IF o.gen > @ THEN o.gen ELSE @,
        !.finalized = IF FinalizedProfileReturned(s, o) THEN None ELSE @,
        !.cand = IF Evidence[o.key].external /\ @.profile \in InternalProfiles
                 THEN NoCandidate ELSE @]

\* An invalid sample withdraws every admission that was not dispatched.
WithdrawProbe(s) ==
    IF s.probe.lc = "ADMITTED" THEN DropProbe(s, "CANCELLED") ELSE s

WithdrawApplication(s) ==
    IF s.app.lc = "ADMITTED" THEN DropApplication(s, "CANCELLED") ELSE s

WithdrawPreparation(s) ==
    IF s.prep.lc = "ADMITTED"
    THEN DiscardPlanning([DropPreparation(s, "CANCELLED") EXCEPT !.phase = "DISCOVER_FAST"])
    ELSE s

WithdrawFinalization(s) ==
    IF s.fin.lc = "ADMITTED" THEN DropFinalization(s, "CANCELLED") ELSE s

WithdrawAdmissions(s) ==
    WithdrawFinalization(WithdrawPreparation(WithdrawApplication(WithdrawProbe(s))))

InternalLoadInFlight(s) ==
    s.app.profile \in InternalProfiles /\ s.app.lc \in {"DISPATCHED", "STOPPING"}

\* Mutant of AwaitValid: only a hint is expected to end the wait.
AwaitHint(s, external) ==
    Decision([s EXCEPT !.phase = IF @ \in {"VERIFYING", "QUIESCENT"} THEN "DISCOVER_FAST" ELSE @,
                       !.timer = "none"],
             StopEffect(s))

AwaitValid(s, external) ==
    LET held == {"PROBING", "PROBE_FAILED", "APPLYING", "APPLY_FAILED",
                 "FINALIZING", "FINALIZE_STOPPING", "FINALIZE_FAILED"}
    IN IF external /\ InternalLoadInFlight(s)
       THEN Schedule([s EXCEPT !.app.lc = "STOPPING"], "tick", {"stop"})
       ELSE Schedule([s EXCEPT !.phase = IF @ \in held THEN @ ELSE "DISCOVER_FAST"],
                     "tick", StopEffect(s))

ObserveInvalid(s, o) ==
    LET external == Evidence[o.key].external
    IN AwaitValid(WithdrawAdmissions([s EXCEPT !.intent = @ \/ external,
                                               !.unplug = NoUnplug, !.verify = -1]),
                  external)

FailFinalization(s) ==
    [AppendTombstone(s, s.fin, "FAILED") EXCEPT
        !.phase = "FINALIZE_FAILED", !.fin.lc = "FAILED"]

StopFinalization(s) ==
    Schedule([s EXCEPT !.phase = "FINALIZE_STOPPING", !.fin.lc = "STOPPING", !.verify = -1],
             "tick", {"stop"})

\* Mutant of StopPreparation: the worker is forgotten as soon as it is told to stop.
StopPreparationAtOnce(s) ==
    Schedule([DropPreparation(s, "CANCELLED") EXCEPT !.phase = "DISCOVER_FAST", !.verify = -1],
             "tick", {"stop"})

StopPreparation(s) ==
    Schedule([s EXCEPT !.phase = "DISCOVER_FAST", !.prepState = "PREPARE_STOPPING",
                       !.prep.lc = "STOPPING", !.verify = -1],
             "tick", {"stop"})

ConfirmFinalization(s) ==
    LET profile == s.fin.profile
        t == DiscardPlanning(AppendTombstone(s, s.fin, "COMPLETED"))
    IN Quiesce([ResetApplicationRecovery(t, profile) EXCEPT
                   !.stable = profile, !.finalized = profile,
                   !.required = FALSE, !.fin = NoAction])

\* Mutant of ObserveFinalizing: an exact sample confirms a worker that still runs.
ObserveFinalizingEarly(s, o) ==
    IF SameExactFinalization(s, o) THEN ConfirmFinalization(s) ELSE StopFinalization(s)

ObserveFinalizing(s, o) ==
    IF s.fin.lc = "RESULT_PENDING"
    THEN IF SameExactFinalization(s, o)
         THEN ConfirmFinalization(s)
         ELSE Schedule(FailFinalization(s), "health", {})
    ELSE IF SameExactFinalization(s, o)
         THEN Schedule(s, "tick", {})
         ELSE StopFinalization(s)

\* _preparation_observation_status
PreparationStatus(s, o) ==
    LET f == Evidence[o.key]
        profile == s.prep.profile
    IN IF \/ ~Held(s.planning)
          \/ s.planning.id # s.prep.plan
          \/ s.token # f.token
          \/ profile \notin f.current
       THEN "contradiction"
       ELSE IF f.exact = profile /\ o.key = s.prep.key THEN "exact"
       ELSE IF profile \in f.uncertain THEN "identity_uncertain"
       ELSE "contradiction"

\* (A prepared desktop leaves no admission pending.)
ObservePreparing(s, o) ==
    LET status == PreparationStatus(s, o)
        since == IF s.verify = -1 THEN 0 ELSE s.verify
        pending == s.prep.lc = "RESULT_PENDING"
    IN IF status = "identity_uncertain"
       THEN Schedule([s EXCEPT !.phase = "DISCOVER_FAST", !.verify = -1], "tick", {})
       ELSE IF pending /\ status = "exact"
       THEN Classify(
              [AppendTombstone(s, s.prep, "COMPLETED") EXCEPT
                 !.phase = "VERIFYING", !.verify = since,
                 !.prepState = "PREPARED", !.prep.lc = "COMPLETED"], o)
       ELSE IF pending
       THEN Schedule([AppendTombstone(s, s.prep, "FAILED") EXCEPT
                        !.prepState = "PREPARE_FAILED", !.prep.lc = "FAILED",
                        !.verify = -1],
                     "health", {})
       ELSE IF status = "exact"
       THEN Schedule([s EXCEPT !.phase = "VERIFYING", !.verify = since], "tick", {})
       ELSE StopPreparation(s)

\* A sample of the topology the state is about, or of a new epoch.
ObserveEpoch(s, o) ==
    IF s.phase \in {"PROBING", "APPLYING"} THEN Schedule(s, "tick", {})
    ELSE IF s.phase = "FINALIZING" THEN ObserveFinalizing(s, o)
    ELSE IF s.prepState = "PREPARING" THEN ObservePreparing(s, o)
    ELSE ClassifyObservation(s, o)

\* The physical token changed: a worker that may still mutate X is stopped
\* before the epoch is.
MayMutate(s) ==
    \/ s.phase = "PROBING" /\ s.probe.lc = "DISPATCHED"
    \/ s.phase = "APPLYING" /\ s.app.lc = "DISPATCHED"
    \/ s.phase = "FINALIZING"
    \/ s.prepState = "PREPARING"

StopForToken(s) ==
    IF s.phase = "PROBING" /\ s.probe.lc = "DISPATCHED"
    THEN Schedule([s EXCEPT !.probe.lc = "STOPPING"], "tick", {"stop"})
    ELSE IF s.phase = "APPLYING" /\ s.app.lc = "DISPATCHED"
    THEN Schedule([s EXCEPT !.app.lc = "STOPPING"], "tick", {"stop"})
    ELSE IF s.phase = "FINALIZING"
    THEN IF s.fin.lc = "RESULT_PENDING"
         THEN Schedule(ClearProof(FailFinalization(s)), "health", {})
         ELSE StopFinalization(s)
    ELSE StopPreparation(s)

\* The epoch the sample is of: a new one, or a slow wait that changed evidence
\* ends.  "prior" is the key of the sample before this one.
EnterEpoch(s, o, prior) ==
    IF s.token # Evidence[o.key].token THEN ResetForEpoch(s, o)
    ELSE IF s.phase = "WAIT_SLOW" /\ prior # None /\ prior # o.key
    THEN [s EXCEPT !.phase = "DISCOVER_FAST", !.aggr = AggressiveBudget, !.backoff = 0]
    ELSE s

ObserveValid(s, o, prior) ==
    IF Evidence[o.key].external /\ s.app.profile \in InternalProfiles
       /\ s.app.lc = "DISPATCHED"
    THEN Schedule([s EXCEPT !.phase = "APPLYING", !.app.lc = "STOPPING",
                            !.cand = NoCandidate, !.verify = -1],
                  "tick", {"stop"})
    ELSE IF Stopping(s) THEN Schedule(s, "tick", {"stop"})
    ELSE IF s.token # Evidence[o.key].token /\ MayMutate(s) THEN StopForToken(s)
    ELSE ObserveEpoch(EnterEpoch(s, o, prior), o)

ObservationCompleted(s, o, dt) ==
    LET t == RecordObservation(Elapse(s, dt), o)
    IN IF s.obs # None /\ o.gen < s.egen THEN NoOp(s)
       ELSE IF Evidence[o.key].valid THEN ObserveValid(t, o, s.obs)
       ELSE ObserveInvalid(t, o)

ObservationFailed(s) == Schedule(s, "tick", StopEffect(s))

-----------------------------------------------------------------------------
(* Hints, timers and dirty admissions. *)

\* Mutant of Disturbed: the unplug proof goes on.
DisturbedButForUnplug(s, generation, dt) ==
    [Elapse(s, dt) EXCEPT !.egen = generation, !.drm = 0, !.verify = -1]

\* A hint ends every proof ...
Disturbed(s, generation, dt) ==
    [Elapse(s, dt) EXCEPT !.egen = generation, !.drm = 0, !.verify = -1, !.unplug = NoUnplug]

\* ... and withdraws the admission of a desktop action.
WithdrawDesktopAdmission(s) ==
    LET t == IF s.prepState = "PREPARE_PENDING"
             THEN DiscardPlanning(DropPreparation(s, "CANCELLED"))
             ELSE s
    IN IF t.phase = "FINALIZE_PENDING"
       THEN [AppendTombstone(t, t.fin, "CANCELLED") EXCEPT !.fin = NoAction]
       ELSE t

DrmHintReceived(s, generation, dt) ==
    LET restless == {"QUIESCENT", "VERIFYING", "UNSUPPORTED", "FINALIZE_PENDING"}
    IN IF generation <= s.egen THEN NoOp(s)
       ELSE Schedule([WithdrawDesktopAdmission(Disturbed(s, generation, dt)) EXCEPT
                         !.phase = IF @ \in restless THEN "DISCOVER_FAST" ELSE @],
                     "now", {"observe"})

TimerFired(s) == Decision([s EXCEPT !.timer = "now"], {"observe"})

WithdrawOffered(s, id) ==
    IF s.prep.id = id /\ Held(s.prep)
    THEN DiscardPlanning([DropPreparation(s, "CANCELLED") EXCEPT !.phase = "DISCOVER_FAST"])
    ELSE IF s.fin.id = id /\ Held(s.fin)
    THEN DropFinalization(s, "CANCELLED")
    ELSE s

AdmissionDirtied(s, id, generation, dt) ==
    IF (\E x \in Actions(s) : x.id = id /\ x.lc = "ADMITTED") /\ generation > s.egen
    THEN Schedule(WithdrawOffered(Disturbed(s, generation, dt), id), "now", {"observe"})
    ELSE NoOp(s)

-----------------------------------------------------------------------------
(* Dispatch. *)

AsDispatched(a) == [a EXCEPT !.lc = "DISPATCHED", !.unit = TRUE]

Dispatched(s, id) ==
    IF s.phase = "PROBE_PENDING" /\ s.probe.id = id /\ s.probe.lc = "ADMITTED"
    THEN Decision([s EXCEPT !.phase = "PROBING", !.probe = AsDispatched(@),
                            !.probed = @ \cup {AttemptKey(s.probe)}, !.timer = "none"], {})
    ELSE IF s.phase = "APPLY_PENDING" /\ s.app.id = id /\ s.app.lc = "ADMITTED"
    THEN Decision([s EXCEPT !.phase = "APPLYING", !.app = AsDispatched(@),
                            !.applied = @ \cup {AttemptKey(s.app)}, !.timer = "none"], {})
    ELSE IF s.prepState = "PREPARE_PENDING" /\ s.prep.id = id /\ s.prep.lc = "ADMITTED"
    THEN Decision([s EXCEPT !.prepState = "PREPARING", !.prep = AsDispatched(@)], {})
    ELSE IF s.phase = "FINALIZE_PENDING" /\ s.fin.id = id /\ s.fin.lc = "ADMITTED"
    THEN Decision([s EXCEPT !.phase = "FINALIZING", !.fin = AsDispatched(@)], {})
    ELSE NoOp(s)

\* The failure of the action with this id, whatever its kind.
FailAction(s, id, lc) ==
    LET t == [s EXCEPT !.tombs = {x \in @ : x.id # id} \cup {[id |-> id, lc |-> lc]}]
    IN IF s.planning.id = id
       THEN [t EXCEPT !.planState = "PLAN_FAILED", !.planning.lc = lc]
       ELSE IF s.probe.id = id THEN [t EXCEPT !.phase = "PROBE_FAILED", !.probe.lc = lc]
       ELSE IF s.app.id = id THEN [t EXCEPT !.phase = "APPLY_FAILED", !.app.lc = lc]
       ELSE IF s.prep.id = id THEN [t EXCEPT !.prepState = "PREPARE_FAILED", !.prep.lc = lc]
       ELSE [t EXCEPT !.phase = "FINALIZE_FAILED", !.fin.lc = lc]

DispatchRejected(s, id) ==
    IF \E a \in Actions(s) : a.id = id /\ a.lc = "ADMITTED"
    THEN Schedule(FailAction(s, id, "FAILED"), "health", {})
    ELSE NoOp(s)

-----------------------------------------------------------------------------
(* Worker results. *)

EndedLifecycle(outcome) == IF outcome = "SUCCEEDED" THEN "COMPLETED" ELSE outcome

ProbeFinished(s, id, outcome) ==
    IF s.probe.id # id \/ s.phase # "PROBING" THEN NoOp(s)
    ELSE IF s.probe.lc = "STOPPING" THEN Schedule(s, "tick", {"stop"})
    ELSE IF outcome = "FAILED"
    THEN Schedule([FailAction(s, id, "FAILED") EXCEPT !.probe.after = None], "health", {})
    ELSE Schedule(DropProbe(s, EndedLifecycle(outcome)), "now", {"observe"})

ApplicationFinished(s, id, outcome) ==
    IF s.app.id # id \/ s.phase # "APPLYING" THEN NoOp(s)
    ELSE IF s.app.lc = "STOPPING" THEN Schedule(s, "tick", {"stop"})
    ELSE IF outcome = "FAILED"
    THEN Schedule([FailAction(s, id, "FAILED") EXCEPT !.app.after = None], "health", {})
    ELSE Schedule([DropApplication(s, EndedLifecycle(outcome)) EXCEPT
                      !.verify = IF outcome = "SUCCEEDED" THEN -1 ELSE @],
                  "now", {"observe"})

\* "hashed": the result names the plan hash the preparation was admitted with.
PreparationFinished(s, id, outcome, hashed) ==
    IF \/ s.prep.id # id
       \/ s.prep.lc \notin {"DISPATCHED", "STOPPING"}
       \/ s.prepState \notin {"PREPARING", "PREPARE_STOPPING"}
    THEN NoOp(s)
    ELSE IF s.prep.lc = "STOPPING" THEN Schedule(s, "tick", {"stop"})
    ELSE IF outcome = "SUCCEEDED" /\ hashed
    THEN Schedule([s EXCEPT !.prep.lc = "RESULT_PENDING", !.prep.after = None],
                  "now", {"observe"})
    ELSE IF outcome = "CANCELLED"
    THEN Schedule([DropPreparation(s, "CANCELLED") EXCEPT !.phase = "DISCOVER_FAST"],
                  "now", {"observe"})
    ELSE Schedule([FailAction(s, id, "FAILED") EXCEPT !.prep.after = None], "health", {})

FinalizationFinished(s, id, outcome) ==
    IF \/ s.fin.id # id
       \/ s.fin.lc \notin {"DISPATCHED", "STOPPING"}
       \/ s.phase \notin {"FINALIZING", "FINALIZE_STOPPING"}
    THEN NoOp(s)
    ELSE IF s.fin.lc = "STOPPING" THEN Schedule(s, "tick", {"stop"})
    ELSE IF outcome = "SUCCEEDED"
    THEN Schedule([s EXCEPT !.fin.lc = "RESULT_PENDING", !.fin.after = None,
                            !.phase = "FINALIZING"],
                  "now", {"observe"})
    ELSE IF outcome = "CANCELLED"
    THEN Schedule([DropFinalization(s, "CANCELLED") EXCEPT !.verify = -1],
                  "now", {"observe"})
    ELSE Schedule([FailAction(s, id, "FAILED") EXCEPT !.fin.after = None], "health", {})

\* _finished
Finished(s, id, outcome, hashed) ==
    IF Held(s.probe) /\ s.probe.id = id THEN ProbeFinished(s, id, outcome)
    ELSE IF Held(s.app) /\ s.app.id = id THEN ApplicationFinished(s, id, outcome)
    ELSE IF Held(s.prep) /\ s.prep.id = id THEN PreparationFinished(s, id, outcome, hashed)
    ELSE IF Held(s.fin) /\ s.fin.id = id THEN FinalizationFinished(s, id, outcome)
    ELSE NoOp(s)

-----------------------------------------------------------------------------
(* Planning. *)

PlanRequested(s, id) ==
    IF s.planState = "PLAN_PENDING" /\ s.planning.id = id
    THEN Decision([s EXCEPT !.planState = "PLANNING", !.planning.lc = "DISPATCHED"], {})
    ELSE NoOp(s)

PlanCompleted(s, id) ==
    IF s.planState = "PLANNING" /\ s.planning.id = id
    THEN Schedule([AppendTombstone(s, s.planning, "COMPLETED") EXCEPT
                      !.planState = "PLAN_READY", !.planning.lc = "COMPLETED"],
                  "now", {"observe"})
    ELSE NoOp(s)

\* "retryable": the inputs changed while the plan was being made.
PlanFailed(s, id, retryable) ==
    IF s.planState \notin {"PLAN_PENDING", "PLANNING"} \/ s.planning.id # id
    THEN NoOp(s)
    ELSE IF retryable
    THEN Schedule([DiscardPlanning(s) EXCEPT !.phase = "DISCOVER_FAST", !.verify = -1],
                  "tick", {})
    ELSE Schedule(FailAction(s, id, "FAILED"), "health", {})

-----------------------------------------------------------------------------
(* Stopping a worker whose outcome is uncertain, and the proof it stopped. *)

AsStopping(a, terminal) ==
    [a EXCEPT !.after = IF a.lc = "STOPPING" THEN @ ELSE terminal, !.lc = "STOPPING"]

StopUncertainMutator(s, id, terminal) ==
    LET fx == IF Stopping(s) THEN {} ELSE {"stop"} IN
    IF s.probe.id = id
    THEN Schedule([s EXCEPT !.phase = "PROBING", !.probe = AsStopping(@, terminal)],
                  "tick", fx)
    ELSE IF s.app.id = id
    THEN Schedule([s EXCEPT !.phase = "APPLYING", !.app = AsStopping(@, terminal)],
                  "tick", fx)
    ELSE IF s.prep.id = id
    THEN Schedule([s EXCEPT !.phase = "DISCOVER_FAST", !.prepState = "PREPARE_STOPPING",
                            !.prep = AsStopping(@, terminal), !.verify = -1],
                  "tick", fx)
    ELSE Schedule([s EXCEPT !.phase = "FINALIZE_STOPPING",
                            !.fin = AsStopping(@, terminal), !.verify = -1],
                  "tick", fx)

\* WorkerStatusUnknown (terminal "UNKNOWN") and WorkerTimedOut ("TIMED_OUT").
WorkerUncertain(s, id, terminal) ==
    IF \E a \in Mutators(s) : a.id = id /\ a.lc \in {"DISPATCHED", "STOPPING"}
    THEN StopUncertainMutator(s, id, terminal)
    ELSE NoOp(s)

\* The supervisor proved the unit inactive and read its result "COMPLETED":
\* the ordinary completion is resumed.
ResumeCompletion(s, id) ==
    LET resumed(a) == [a EXCEPT !.lc = "DISPATCHED", !.after = None]
        t == IF s.probe.id = id
             THEN [s EXCEPT !.phase = "PROBING", !.probe = resumed(@)]
             ELSE IF s.app.id = id
             THEN [s EXCEPT !.phase = "APPLYING", !.app = resumed(@)]
             ELSE IF s.prep.id = id
             THEN [s EXCEPT !.prepState = "PREPARING", !.prep = resumed(@)]
             ELSE [s EXCEPT !.phase = "FINALIZING", !.fin = resumed(@)]
    IN Finished(t, id, "SUCCEEDED", TRUE)

\* ... a failure is kept in the state, and looked at now unless the stop was
\* for a timeout or of a preparation ...
AcknowledgeFailure(s, id, lc) ==
    LET failed(a) == [a EXCEPT !.lc = lc, !.after = None]
        t == FailAction(s, id, lc)
        u == IF s.probe.id = id THEN [t EXCEPT !.probe = failed(@)]
             ELSE IF s.app.id = id THEN [t EXCEPT !.app = failed(@)]
             ELSE IF s.prep.id = id
             THEN [t EXCEPT !.prep = failed(@), !.phase = "DISCOVER_FAST"]
             ELSE [t EXCEPT !.fin = failed(@)]
    IN IF s.prep.id = id \/ \E a \in Mutators(s) : a.id = id /\ a.after # None
       THEN Schedule(u, "health", {})
       ELSE Schedule(u, "now", {"observe"})

\* ... and a cancelled action leaves the state.  A cancelled preparation has its
\* plan discarded although the state still holds it.
AcknowledgeCancelled(s, id) ==
    Schedule(IF s.probe.id = id THEN DropProbe(s, "CANCELLED")
             ELSE IF s.app.id = id THEN DropApplication(s, "CANCELLED")
             ELSE IF s.prep.id = id
             THEN [DropPreparation(s, "CANCELLED") EXCEPT !.phase = "DISCOVER_FAST"]
             ELSE [DropFinalization(s, "CANCELLED") EXCEPT !.verify = -1],
             "now",
             IF s.prep.id = id /\ Held(s.planning) THEN {"discard", "observe"}
             ELSE {"observe"})

\* Mutant of WorkerCancellationAcknowledged: a worker that succeeded before the
\* stop reached it is not acknowledged.
AcknowledgedUnlessCompleted(s, id, lc) ==
    IF lc = "COMPLETED" \/ ~\E a \in Mutators(s) : a.id = id /\ a.lc = "STOPPING"
    THEN NoOp(s)
    ELSE IF lc \in Failed THEN AcknowledgeFailure(s, id, lc)
    ELSE AcknowledgeCancelled(s, id)

WorkerCancellationAcknowledged(s, id, lc) ==
    IF ~\E a \in Mutators(s) : a.id = id /\ a.lc = "STOPPING" THEN NoOp(s)
    ELSE IF lc = "COMPLETED" THEN ResumeCompletion(s, id)
    ELSE IF lc \in Failed THEN AcknowledgeFailure(s, id, lc)
    ELSE AcknowledgeCancelled(s, id)

-----------------------------------------------------------------------------
(* Start and boot. *)

WaitsForWorker(s) ==
    \/ s.phase \in {"PROBING", "APPLYING", "FINALIZING", "FINALIZE_STOPPING"}
    \/ s.prepState \in {"PREPARING", "PREPARE_STOPPING"}

\* Mutant of ControllerStarted: a proof and its plan are taken to survive a restart.
ControllerStartedAsSaved(s) ==
    IF WaitsForWorker(s) THEN Schedule(s, "tick", {}) ELSE Schedule(s, "now", {"observe"})

ControllerStarted(s) ==
    IF s.prepState = "PREPARE_PENDING"
    THEN Schedule([DiscardPlanning(DropPreparation(s, "CANCELLED")) EXCEPT
                      !.phase = "DISCOVER_FAST", !.verify = -1],
                  "now", {"observe"})
    ELSE IF s.phase = "FINALIZE_FAILED"
    THEN Schedule([s EXCEPT !.phase = "DISCOVER_FAST", !.fin = NoAction, !.verify = -1],
                  "now", {"observe"})
    ELSE LET t == IF s.phase = "VERIFYING" THEN ClearProof(s) ELSE s
         IN IF WaitsForWorker(t) THEN Schedule(t, "tick", {})
            ELSE Schedule(t, "now", {"observe"})

BootChanged(s) ==
    Decision([InitialState EXCEPT !.timer = "now", !.required = TRUE,
                                  !.epoch = s.epoch, !.seq = s.seq],
             {"observe"})

=============================================================================
