----------------------------- MODULE Controller -----------------------------
(***************************************************************************)
(* The controller process (runtime/controller.py) around the reducer, with *)
(* the workers it starts, crashes and restarts.                            *)
(*                                                                         *)
(* One consumer takes events from a queue.  Each is reduced, the new state *)
(* is saved, and the decision's effects are carried out before the next    *)
(* event is taken.  An effect that waits (an observation, a stop, a start) *)
(* may see hints arrive and workers end, but no other event is processed.  *)
(*                                                                         *)
(* Abstractions.                                                           *)
(*  - Saving and reducing are one step: the store replaces the state file  *)
(*    atomically, and a decision that fails a check is never saved.        *)
(*  - A queued event is an action that stays enabled until it is taken.    *)
(*    The reducer ignores an event that no longer fits, so only hints have *)
(*    an order, and that is the order of their generations.                *)
(*  - The dispatch fence drains the queue before the unit is submitted.    *)
(*    The drained events are the ordinary ones, taken with an offer open.  *)
(***************************************************************************)
EXTENDS Recovery

CONSTANTS
    Steps,          \* how much time may pass between two samples or hints
    Power,          \* {FALSE}, or BOOLEAN when the screens may be asleep
    WorkerOutcomes, \* how a worker may end: a subset of Terminal \cup {None}
    MaxGen,         \* bound on the event generation
    MaxSeq,         \* bound on the number of actions
    MaxEpoch        \* bound on the number of physical epochs

ASSUME ControllerAssumption ==
    /\ Steps \subseteq Nat
    /\ Power \subseteq BOOLEAN
    /\ WorkerOutcomes \subseteq Terminal \cup {None}
    /\ {MaxGen, MaxSeq, MaxEpoch} \subseteq Nat

VARIABLES
    st,        \* the state, in memory and saved
    up,        \* the process runs
    raised,    \* the checks the last decision failed, if that ended the process
    gen,       \* the runtime's event generation, ahead of the state's by queued hints
    chore,     \* the effect being carried out
    since,     \* the generation when an observation under way was requested
    offer,     \* the dispatch being fenced
    task,      \* id of the plan being made, 0 for none
    discarded, \* id of a plan discarded while the state still holds it, or 0
    units      \* worker units

vars == <<st, up, raised, gen, chore, since, offer, task, discarded, units>>

Chores == {"none", "observe", "stop", "plan", "ack", "doubt", "refused"}
Offers == [id: Nat, gen: Nat, dirty: BOOLEAN]
NoOffer == [id |-> 0, gen |-> 0, dirty |-> FALSE]

\* The saved state, the open dispatch and the units keep their types.
TypeOK ==
    /\ st \in State
    /\ up \in BOOLEAN
    /\ raised \subseteq Checks
    /\ gen \in Nat
    /\ chore \in Chores
    /\ since \in Nat
    /\ offer \in Offers
    /\ task \in Nat
    /\ discarded \in Nat
    /\ units \subseteq Units

\* A first start finds nothing saved and may adopt the desktop as it is.
Init ==
    /\ st = [InitialState EXCEPT !.baseline = TRUE]
    /\ up = FALSE
    /\ raised = {}
    /\ gen = 0
    /\ chore = "none"
    /\ since = 0
    /\ offer = NoOffer
    /\ task = 0
    /\ discarded = 0
    /\ units = {}

-----------------------------------------------------------------------------
(* _process_event *)

NextChore(fx) ==
    IF "observe" \in fx THEN "observe"
    ELSE IF "stop" \in fx THEN "stop"
    ELSE IF "plan" \in fx THEN "plan"
    ELSE "none"

\* An open offer suppresses the dispatches of what is processed under it; a
\* dirty one is given up once that is done.
NextOffer(open, s, fx) ==
    IF open # NoOffer
    THEN IF open.dirty /\ NextChore(fx) = "none" THEN NoOffer ELSE open
    ELSE IF "dispatch" \in fx
    THEN LET a == CHOOSE a \in Admitted(s) : TRUE
         IN [id |-> a.id, gen |-> a.gen, dirty |-> FALSE]
    ELSE NoOffer

\* What is left to say of a unit: it may run, or its action is held, or its
\* outcome was lost.
KeptUnits(s, us) ==
    {u \in us : u.alive \/ u.outcome = None \/ Held(ActionForId(s, u.id))}

\* The process ends: what it had in memory is gone.
Ends ==
    /\ up' = FALSE
    /\ chore' = "none"
    /\ since' = 0
    /\ offer' = NoOffer
    /\ task' = 0
    /\ gen' = st.egen
    /\ UNCHANGED <<st, discarded>>

Saves(d, open, us, generation) ==
    LET s == [d.st EXCEPT !.tombs = RetainedTombstones(d.st)]
    IN /\ st' = s
       /\ up' = TRUE
       /\ raised' = {}
       /\ gen' = generation
       /\ chore' = NextChore(d.fx)
       /\ since' = IF NextChore(d.fx) = "observe" THEN generation ELSE 0
       /\ offer' = NextOffer(open, s, d.fx)
       /\ task' = IF /\ s.planState = "PLANNING"
                     /\ chore = "plan" \/ task = s.planning.id
                  THEN s.planning.id ELSE 0
       /\ discarded' = IF "discard" \in d.fx THEN s.planning.id
                       ELSE IF s.planning.id = discarded THEN discarded ELSE 0
       /\ units' = KeptUnits(s, us)

SavesUnless(failed, d, open, us, generation) ==
    \/ /\ failed = {}
       /\ Saves(d, open, us, generation)
    \/ /\ failed # {}
       /\ raised' = failed
       /\ units' = us
       /\ Ends

Commit(d, open, us, generation) ==
    SavesUnless(FailedChecks(d.st), d, open, us, generation)

Process(d) == Commit(d, offer, units, gen)

\* The bounds on the numbers that only samples raise.
ProcessBounded(d) ==
    /\ d.st.seq <= MaxSeq
    /\ d.st.epoch <= MaxEpoch
    /\ Process(d)

Idle == up /\ chore = "none"

-----------------------------------------------------------------------------
(* Hints, timers and observations. *)

\* notify_drm_hint: the generation rises before the event is queued.
NotifyDrmHint ==
    /\ up
    /\ gen < MaxGen
    /\ gen' = gen + 1
    /\ UNCHANGED <<st, up, raised, chore, since, offer, task, discarded, units>>

ProcessDrmHint ==
    /\ Idle
    /\ st.egen < gen
    /\ \E dt \in Steps : Process(DrmHintReceived(st, st.egen + 1, dt))

\* A hint queued behind the timer is one that arrives once the timer is taken.
ProcessTimer ==
    /\ Idle
    /\ st.timer # "none"
    /\ st.egen = gen
    /\ Process(TimerFired(st))

\* A sample carries the generation read while it was taken: not before it was
\* requested, and perhaps out of date already.
CompleteObservation ==
    /\ chore = "observe"
    /\ \E k \in Keys, g \in since..gen, asleep \in Power, c \in Configs, dt \in Steps :
          ProcessBounded(ObservationCompleted(
              st, [key |-> k, gen |-> g, asleep |-> asleep, cfg |-> c], dt))

FailObservation ==
    /\ chore = "observe"
    /\ Process(ObservationFailed(st))

\* A sample of another boot: no worker of the old one is left.
ObserveBootChange ==
    /\ chore = "observe"
    /\ ~st.required
    /\ Commit(BootChanged(st), offer, {}, 0)

-----------------------------------------------------------------------------
(* Planning. *)

RequestPlan ==
    /\ chore = "plan"
    /\ Process(PlanRequested(st, st.planning.id))

CompletePlan ==
    /\ Idle
    /\ task # 0
    /\ Process(PlanCompleted(st, task))

FailPlan ==
    /\ Idle
    /\ task # 0
    /\ \E retryable \in BOOLEAN : Process(PlanFailed(st, task, retryable))

-----------------------------------------------------------------------------
(* Dispatch. *)

Fencing == Idle /\ offer # NoOffer

\* _effect_is_current
EffectIsCurrent ==
    \E a \in Admitted(st) : a.id = offer.id /\ a.gen = offer.gen

FencePasses == gen = offer.gen /\ EffectIsCurrent

FenceDirtied ==
    /\ Fencing
    /\ gen # offer.gen
    /\ \E dt \in Steps :
          Commit(AdmissionDirtied(st, offer.id, gen, dt),
                 [offer EXCEPT !.dirty = TRUE], units, gen)

FenceStale ==
    /\ Fencing
    /\ gen = offer.gen
    /\ ~EffectIsCurrent
    /\ offer' = NoOffer
    /\ UNCHANGED <<st, up, raised, gen, chore, since, task, discarded, units>>

\* _worker_request_context: the proof a request is written from.
ContextProven(s, a) ==
    /\ FreshEvidence(s, a)
    /\ s.token = Evidence[s.obs].token
    /\ a \in {s.probe, s.app} => a.epoch = s.epoch
    /\ a = s.probe => a.profile = Evidence[s.obs].probe
    /\ a = s.app => a.profile \in Evidence[s.obs].eligible
    /\ a \in {s.prep, s.fin} =>
          /\ s.cand.key = a.key
          /\ s.cand.epoch = s.epoch
          /\ Held(s.planning)
          /\ s.planning.id = a.plan
          /\ s.planning.profile = a.profile
          /\ s.planning.epoch = s.epoch
          /\ s.planning.key = a.key
    /\ a = s.fin => /\ s.prepState = "PREPARED"
                    /\ s.prep.lc = "COMPLETED"
                    /\ s.prep.plan = a.plan
                    /\ s.prep.profile = a.profile
                    /\ s.verify # -1

\* The final fence and the submission are one step of the event loop.
Submit(unit, next) ==
    /\ Fencing
    /\ FencePasses
    /\ ContextProven(st, ActionForId(st, offer.id))
    /\ units' = units \cup {unit}
    /\ chore' = next
    /\ UNCHANGED <<st, up, raised, gen, since, offer, task, discarded>>

SubmitAccepted == Submit([id |-> offer.id, alive |-> TRUE, outcome |-> None], "ack")

\* The start timed out, or its answer made no sense: the unit may never run.
SubmitLost ==
    /\ None \in WorkerOutcomes
    /\ Submit([id |-> offer.id, alive |-> FALSE, outcome |-> None], "doubt")

\* The manager refused the unit after the submission was claimed.
SubmitRefused ==
    Submit([id |-> offer.id, alive |-> FALSE, outcome |-> "FAILED"], "refused")

\* The request could not be written, or the start failed before the claim.
RejectDispatch ==
    /\ Fencing
    /\ EffectIsCurrent
    /\ Commit(DispatchRejected(st, offer.id), NoOffer, units, gen)

AcknowledgeDispatch ==
    /\ chore = "ack"
    /\ Commit(Dispatched(st, offer.id), NoOffer, units, gen)

MarkDispatchUncertain ==
    /\ chore \in {"ack", "doubt"}
    /\ Commit(WorkerUncertain(Dispatched(st, offer.id).st, offer.id, "UNKNOWN"),
              NoOffer, units, gen)

CompleteRefusedStart ==
    /\ chore = "refused"
    /\ Commit(Finished(Dispatched(st, offer.id).st, offer.id, "FAILED", TRUE),
              NoOffer, units, gen)

-----------------------------------------------------------------------------
(* Supervision of workers. *)

\* A worker ends by itself, by a stop or by its time limit.
WorkerEnds ==
    \E u \in units, outcome \in WorkerOutcomes :
        /\ u.alive
        /\ units' = (units \ {u}) \cup {[u EXCEPT !.alive = FALSE, !.outcome = outcome]}
        /\ UNCHANGED <<st, up, raised, gen, chore, since, offer, task, discarded>>

Supervised(id) == ActionForId(st, id).lc \in {"DISPATCHED", "STOPPING"}

\* _monitor_worker found the unit inactive; _completion_event.
ReportWorker ==
    /\ Idle
    /\ \E u \in units :
          /\ ~u.alive
          /\ Supervised(u.id)
          /\ Process(IF u.outcome \in {None, "UNKNOWN"}
                     THEN WorkerUncertain(st, u.id, "UNKNOWN")
                     ELSE IF u.outcome = "TIMED_OUT"
                     THEN WorkerUncertain(st, u.id, "TIMED_OUT")
                     ELSE Finished(st, u.id, EventOutcome(u.outcome), TRUE))

\* A status query failed, or the worker's deadline passed.
DoubtWorker ==
    /\ Idle
    /\ \E a \in Mutators(st), lc \in {"UNKNOWN", "TIMED_OUT"} :
          /\ Supervised(a.id)
          /\ Process(WorkerUncertain(st, a.id, lc))

\* _stop_action
StopAcknowledged ==
    /\ chore = "stop"
    /\ \E u \in units :
          /\ ~u.alive
          /\ u.outcome # None
          /\ ActionForId(st, u.id).lc = "STOPPING"
          /\ Process(WorkerCancellationAcknowledged(st, u.id, u.outcome))

StopDoubted ==
    /\ chore = "stop"
    /\ \E a \in Mutators(st) :
          /\ a.lc = "STOPPING"
          /\ Process(WorkerUncertain(st, a.id, "UNKNOWN"))

StopIneffective ==
    /\ chore = "stop"
    /\ \E u \in units : u.alive
    /\ Process(NoOp(st))

-----------------------------------------------------------------------------
(* Crash, restart, another session. *)

Crash ==
    /\ up
    /\ Ends
    /\ UNCHANGED <<raised, units>>

Restart ==
    /\ ~up
    /\ Granted(st, units)
    /\ Commit(ControllerStarted(Reconciled(st, units)), NoOffer, units, st.egen)

\* main exits without a change; the service manager tries again.
RefuseStart ==
    /\ ~up
    /\ ~Granted(st, units)
    /\ UNCHANGED vars

\* Nothing a worker of the old session did or left is found.
NewSession ==
    /\ ~up
    /\ ~st.required
    /\ Commit(ControllerStarted(NewSessionState(st)), NoOffer, {}, 0)

Next ==
    \/ NotifyDrmHint
    \/ ProcessDrmHint
    \/ ProcessTimer
    \/ CompleteObservation
    \/ FailObservation
    \/ ObserveBootChange
    \/ RequestPlan
    \/ CompletePlan
    \/ FailPlan
    \/ FenceDirtied
    \/ FenceStale
    \/ SubmitAccepted
    \/ SubmitLost
    \/ SubmitRefused
    \/ RejectDispatch
    \/ AcknowledgeDispatch
    \/ MarkDispatchUncertain
    \/ CompleteRefusedStart
    \/ WorkerEnds
    \/ ReportWorker
    \/ DoubtWorker
    \/ StopAcknowledged
    \/ StopDoubted
    \/ StopIneffective
    \/ Crash
    \/ Restart
    \/ RefuseStart
    \/ NewSession

Spec == Init /\ [][Next]_vars

-----------------------------------------------------------------------------
(* Safety. *)

\* The ways in which a decision is known to fail its own checks: external hardware
\* appears while the laptop's profile is being loaded; an invalid sample of external
\* hardware interrupts the preparation of the laptop's desktop, which then resumes
\* without its candidate; a plan is withdrawn for a retry while an application is held.
LaptopLoadInterrupted ==
    raised = {"laptop_load"} /\ st.app.profile \in InternalProfiles

LaptopPreparationInterrupted ==
    raised = {"numbered"} /\ st.prep.profile \in InternalProfiles /\ st.cand = NoCandidate

PlanRetriedDuringApplication ==
    raised = {"phase"} /\ st.planState = "PLANNING" /\ Held(st.app)

\* reduce() is total ("Total deterministic policy reducer", reducer.py) but for these:
\* in every other reachable state each event, in whatever order hints, samples,
\* workers and restarts bring it, gets a decision that passes the checks of
\* assert_controller_invariants and of the state codec.
ReducerIsTotalOtherwise ==
    raised # {} => \/ LaptopLoadInterrupted
                   \/ LaptopPreparationInterrupted
                   \/ PlanRetriedDuringApplication

\* A worker that may still run is the one the saved state excludes other
\* mutations for, or was submitted by the offer that is being acknowledged, or
\* is one a starting controller refuses to dispatch beside.
LiveWorkerExcluded ==
    \A u \in units :
        u.alive => \/ ActionForId(st, u.id).lc \in {"DISPATCHED", "STOPPING"}
                   \/ chore = "ack" /\ u.id = offer.id
                   \/ ~up /\ ~Granted(st, units)

\* Two workers never run at once, whatever was crashed or lost in between
\* ("One display mutation boundary").
OneLiveWorker == \A u, v \in units : u.alive /\ v.alive => u = v

\* When every worker has ended with a known outcome, recovery grants a starting
\* controller its authority: no crash strands the displays until the next boot.
RestartIsGranted ==
    ~up /\ (\A u \in units : ~u.alive /\ u.outcome # None) => Granted(st, units)

\* ... but for a preparation or finalization that succeeded and was then failed
\* by the sample that should have confirmed it: recovery finds its success in
\* conflict with the state.
ConfirmationFailed(u) ==
    /\ u.outcome = "COMPLETED"
    /\ ActionForId(st, u.id) \in {st.prep, st.fin}
    /\ ActionForId(st, u.id).lc = "FAILED"

\* A restart is granted when every worker has ended with a known outcome, but for
\* that conflict.
RestartIsGrantedOtherwise ==
    ~up /\ (\A u \in units : ~u.alive /\ u.outcome # None) =>
        Granted(st, units) \/ \E u \in units : ConfirmationFailed(u)

\* A controller that has not come to rest will wake up: a timer is armed, an
\* effect is in progress, or a worker it watches will report ("No implicit
\* abandonment").
NoLostWakeup ==
    up => \/ st.timer # "none"
          \/ chore # "none"
          \/ \E u \in units : ActionForId(st, u.id).lc \in {"DISPATCHED", "STOPPING"}
          \/ /\ st.phase = "QUIESCENT"
             /\ st.obs # None
             /\ st.stable # None
             /\ st.finalized = st.stable

\* A running proof never waits for a plan nobody makes: plans are made in
\* memory, so a crash loses one that the saved state still counts on.
NoOrphanPlan ==
    up /\ st.phase = "VERIFYING" /\ st.verify # -1 /\ st.planState = "PLANNING"
        => task = st.planning.id

\* A preparation is never started from a plan that was discarded: a cancelled
\* preparation discards its plan's file although the state still holds the plan.
PreparesFromLivePlan ==
    st.prep.lc \in {"ADMITTED", "DISPATCHED"} => st.prep.plan # discarded

\* The laptop's profile is never admitted or started while external hardware is
\* known or remembered: only a complete unplug proof forgets it ("No laptop
\* fallback with external hardware present").
NoLaptopLoadUnderIntent ==
    st.app.lc \in {"ADMITTED", "DISPATCHED"} /\ st.app.profile \in InternalProfiles
        => ~st.intent

-----------------------------------------------------------------------------
(* What a step may never do. *)

\* The desktop counts as finalized for a profile only once a finalization worker
\* for it has succeeded, or the desktop found by a first start is adopted
\* ("Independent desktop state").
FinalizedByWorker ==
    [][st'.finalized \notin {None, st.finalized} =>
          \/ st.baseline
          \/ \E u \in units : /\ u.id = st.fin.id
                              /\ u.outcome = "COMPLETED"
                              /\ st.fin.profile = st'.finalized]_vars

\* An action id is never used twice, although actions fail, are cancelled and are
\* given up, the process crashes and the state is replaced for another boot or
\* session ("failed or cancelled IDs are never reused"): a reused one would meet
\* the records and the unit of its predecessor.
ActionIdsAreNew ==
    [][/\ st'.seq >= st.seq
       /\ \A a \in Actions(st') :
             a.id > st.seq \/ \E b \in Actions(st) : b.id = a.id]_vars

=============================================================================
