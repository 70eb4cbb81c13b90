---------------------------- MODULE ReducerProof ----------------------------
(***************************************************************************)
(* The reducer, operator by operator: one lemma for each of Policy,        *)
(* Observe, Reducer and Recovery, bottom up, first on types and then on    *)
(* what becomes of the mutators.                                           *)
(*                                                                         *)
(* The reducer is closed: from a state it always returns a state, and a    *)
(* dispatch only together with the admission to dispatch.  The state       *)
(* record has 31 fields.  Its definition is expanded only in the lemmas    *)
(* Set_f, which replace one field, and Fields, which reads them; a longer  *)
(* update is a chain of these.                                             *)
(*                                                                         *)
(* A mutator is busy from its admission to its end, and live while its     *)
(* worker may run.  A live one stays live until a transition is about it,  *)
(* and a mutator is admitted only when no other is busy, with a new id.    *)
(***************************************************************************)
EXTENDS Recovery, TLAPS

(* Reading and replacing the fields of a state. *)

\* A state stays one when its phase is replaced.
LEMMA Set_phase == \A s \in State : \A v \in Phases : [s EXCEPT !.phase = v] \in State
  BY DEF State

\* A state stays one when its planning state is replaced.
LEMMA Set_planState == \A s \in State : \A v \in PlanStates : [s EXCEPT !.planState = v] \in State
  BY DEF State

\* A state stays one when its preparation state is replaced.
LEMMA Set_prepState == \A s \in State : \A v \in PrepStates : [s EXCEPT !.prepState = v] \in State
  BY DEF State

\* A state stays one when its latest observation is replaced.
LEMMA Set_obs == \A s \in State : \A v \in Keys \cup {None} : [s EXCEPT !.obs = v] \in State
  BY DEF State

\* A state stays one when the generation of that observation is replaced.
LEMMA Set_obsGen == \A s \in State : \A v \in Nat : [s EXCEPT !.obsGen = v] \in State
  BY DEF State

\* A state stays one when its event generation is replaced.
LEMMA Set_egen == \A s \in State : \A v \in Nat : [s EXCEPT !.egen = v] \in State
  BY DEF State

\* A state stays one when its physical epoch is replaced.
LEMMA Set_epoch == \A s \in State : \A v \in Nat : [s EXCEPT !.epoch = v] \in State
  BY DEF State

\* A state stays one when its physical token is replaced.
LEMMA Set_token == \A s \in State : \A v \in Tokens \cup {None} : [s EXCEPT !.token = v] \in State
  BY DEF State

\* A state stays one when its candidate is replaced.
LEMMA Set_cand == \A s \in State : \A v \in Candidates : [s EXCEPT !.cand = v] \in State
  BY DEF State

\* A state stays one when its aggressive budget is replaced.
LEMMA Set_aggr == \A s \in State : \A v \in -1..AggressiveBudget : [s EXCEPT !.aggr = v] \in State
  BY DEF State

\* A state stays one when its timer is replaced.
LEMMA Set_timer == \A s \in State : \A v \in Delays \cup {"none"} : [s EXCEPT !.timer = v] \in State
  BY DEF State

\* A state stays one when its backoff index is replaced.
LEMMA Set_backoff == \A s \in State : \A v \in Nat : [s EXCEPT !.backoff = v] \in State
  BY DEF State

\* A state stays one when the age of its proof is replaced.
LEMMA Set_verify == \A s \in State : \A v \in -1..ProfileStability : [s EXCEPT !.verify = v] \in State
  BY DEF State

\* A state stays one when the age of its last hint is replaced.
LEMMA Set_drm == \A s \in State : \A v \in 0..EventQuiet : [s EXCEPT !.drm = v] \in State
  BY DEF State

\* A state stays one when its stable profile is replaced.
LEMMA Set_stable == \A s \in State : \A v \in Profiles \cup {None} : [s EXCEPT !.stable = v] \in State
  BY DEF State

\* A state stays one when its finalized profile is replaced.
LEMMA Set_finalized == \A s \in State : \A v \in Profiles \cup {None} : [s EXCEPT !.finalized = v] \in State
  BY DEF State

\* A state stays one when its finalization requirement is replaced.
LEMMA Set_required == \A s \in State : \A v \in BOOLEAN : [s EXCEPT !.required = v] \in State
  BY DEF State

\* A state stays one when its external intent is replaced.
LEMMA Set_intent == \A s \in State : \A v \in BOOLEAN : [s EXCEPT !.intent = v] \in State
  BY DEF State

\* A state stays one when its adoption of a baseline is replaced.
LEMMA Set_baseline == \A s \in State : \A v \in BOOLEAN : [s EXCEPT !.baseline = v] \in State
  BY DEF State

\* A state stays one when its probe history is replaced.
LEMMA Set_probed == \A s \in State : \A v \in SUBSET AttemptKeys : [s EXCEPT !.probed = v] \in State
  BY DEF State

\* A state stays one when its application history is replaced.
LEMMA Set_applied == \A s \in State : \A v \in SUBSET AttemptKeys : [s EXCEPT !.applied = v] \in State
  BY DEF State

\* A state stays one when its set of retried profiles is replaced.
LEMMA Set_retried == \A s \in State : \A v \in SUBSET Profiles : [s EXCEPT !.retried = v] \in State
  BY DEF State

\* A state stays one when its probe is replaced.
LEMMA Set_probe == \A s \in State : \A v \in Action : [s EXCEPT !.probe = v] \in State
  BY DEF State

\* A state stays one when its application is replaced.
LEMMA Set_app == \A s \in State : \A v \in Action : [s EXCEPT !.app = v] \in State
  BY DEF State

\* A state stays one when its planning action is replaced.
LEMMA Set_planning == \A s \in State : \A v \in Action : [s EXCEPT !.planning = v] \in State
  BY DEF State

\* A state stays one when its preparation is replaced.
LEMMA Set_prep == \A s \in State : \A v \in Action : [s EXCEPT !.prep = v] \in State
  BY DEF State

\* A state stays one when its finalization is replaced.
LEMMA Set_fin == \A s \in State : \A v \in Action : [s EXCEPT !.fin = v] \in State
  BY DEF State

\* A state stays one when its unknown topology is replaced.
LEMMA Set_unknown == \A s \in State : \A v \in [key: Keys \cup {None}, age: 0..UnknownStability] : [s EXCEPT !.unknown = v] \in State
  BY DEF State

\* A state stays one when its unplug proof is replaced.
LEMMA Set_unplug == \A s \in State : \A v \in [n: 0..UnplugSamples, age: 0..UnplugStability] : [s EXCEPT !.unplug = v] \in State
  BY DEF State

\* A state stays one when its action sequence is replaced.
LEMMA Set_seq == \A s \in State : \A v \in Nat : [s EXCEPT !.seq = v] \in State
  BY DEF State

\* A state stays one when its set of tombstones is replaced.
LEMMA Set_tombs == \A s \in State : \A v \in SUBSET [id: Nat, lc: Terminal] : [s EXCEPT !.tombs = v] \in State
  BY DEF State

\* What the fields of a state are.
LEMMA Fields ==
  \A s \in State :
    /\ s.phase \in Phases
    /\ s.planState \in PlanStates
    /\ s.prepState \in PrepStates
    /\ s.obs \in Keys \cup {None}
    /\ s.obsGen \in Nat
    /\ s.egen \in Nat
    /\ s.epoch \in Nat
    /\ s.token \in Tokens \cup {None}
    /\ s.cand \in Candidates
    /\ s.aggr \in -1..AggressiveBudget
    /\ s.timer \in Delays \cup {"none"}
    /\ s.backoff \in Nat
    /\ s.verify \in -1..ProfileStability
    /\ s.drm \in 0..EventQuiet
    /\ s.stable \in Profiles \cup {None}
    /\ s.finalized \in Profiles \cup {None}
    /\ s.required \in BOOLEAN
    /\ s.intent \in BOOLEAN
    /\ s.baseline \in BOOLEAN
    /\ s.probed \in SUBSET AttemptKeys
    /\ s.applied \in SUBSET AttemptKeys
    /\ s.retried \in SUBSET Profiles
    /\ s.probe \in Action
    /\ s.app \in Action
    /\ s.planning \in Action
    /\ s.prep \in Action
    /\ s.fin \in Action
    /\ s.unknown \in [key: Keys \cup {None}, age: 0..UnknownStability]
    /\ s.unplug \in [n: 0..UnplugSamples, age: 0..UnplugStability]
    /\ s.seq \in Nat
    /\ s.tombs \in SUBSET [id: Nat, lc: Terminal]
  BY DEF State

-----------------------------------------------------------------------------
(* Policy: decisions and helpers. *)

\* What a transition may return: a dispatch is asked for only with an admission.
Decisions ==
    {d \in [st: State, fx: SUBSET Effects] : "dispatch" \in d.fx => Admitted(d.st) # {}}

\* A state with effects other than a dispatch is a decision.
LEMMA PlainDecision ==
    \A s \in State : \A fx \in SUBSET (Effects \ {"dispatch"}) : Decision(s, fx) \in Decisions
  BY DEF Decision, Decisions

\* _schedule: arming a timer with effects other than a dispatch is a decision.
LEMMA PlainSchedule ==
    \A s \in State : \A delay \in Delays : \A fx \in SUBSET (Effects \ {"dispatch"}) :
        Schedule(s, delay, fx) \in Decisions
  BY PlainDecision, Set_timer DEF Schedule

\* The absent values and the ends of the ages' ranges have their types.
LEMMA NoneTyped ==
    /\ NoAction \in Action
    /\ NoCandidate \in Candidates
    /\ NoUnknown \in [key: Keys \cup {None}, age: 0..UnknownStability]
    /\ NoUnplug \in [n: 0..UnplugSamples, age: 0..UnplugStability]
    /\ -1 \in -1..ProfileStability
    /\ -1 \in -1..AggressiveBudget
    /\ 0 \in -1..ProfileStability
    /\ AggressiveBudget \in -1..AggressiveBudget
    /\ EventQuiet \in 0..EventQuiet
    /\ 0 \in 0..EventQuiet
  BY BoundsAssumption
     DEF NoAction, Action, Lifecycles, NoCandidate, Candidates, NoUnknown, NoUnplug

\* The phases and planning states the reducer assigns are those of model.py.
LEMMA Named ==
    /\ {"RECOVERING", "QUIESCENT", "DISCOVER_FAST", "PROBE_PENDING", "PROBING",
        "PROBE_FAILED", "APPLY_PENDING", "APPLYING", "APPLY_FAILED", "VERIFYING",
        "WAIT_SLOW", "UNSUPPORTED", "FINALIZE_PENDING", "FINALIZING",
        "FINALIZE_STOPPING", "FINALIZE_FAILED"} \subseteq Phases
    /\ {"PLAN_IDLE", "PLAN_PENDING", "PLANNING", "PLAN_READY", "PLAN_FAILED"} \subseteq PlanStates
  BY DEF Phases, PlanStates

\* _quiesce returns a decision.
LEMMA QuiesceType == \A s \in State : Quiesce(s) \in Decisions
  BY PlainDecision, Set_phase, Set_timer DEF Quiesce, Phases

\* The effect that repeats a stop is not a dispatch.
LEMMA StopEffectType == \A s \in State : StopEffect(s) \in SUBSET (Effects \ {"dispatch"})
  BY DEF StopEffect, Effects

\* _append_tombstone returns a state.
LEMMA AppendTombstoneType ==
    \A s \in State : \A a \in Action : \A lc \in Terminal : AppendTombstone(s, a, lc) \in State
  BY Set_tombs, Fields DEF AppendTombstone, Action

\* _allocate_action returns an action.
LEMMA AllocatedType ==
    \A s \in State : \A g, plan \in Nat : \A p \in Profiles \cup {None} :
    \A k \in Keys \cup {None} : \A c \in Configs \cup {None} :
        Allocated(s, g, p, k, plan, c) \in Action
  BY Fields DEF Allocated, Action, Lifecycles

\* _unique_target returns a profile or None.
LEMMA UniqueTargetType == \A k \in Keys : UniqueTarget(k) \in Profiles \cup {None}
  BY EvidenceAssumption DEF UniqueTarget, Facts

\* A candidate has its type.
LEMMA CandidateType ==
    \A s \in State : \A k \in Keys : \A p \in Profiles \cup {None} : Candidate(s, k, p) \in Candidates
  BY Fields DEF Candidate, Candidates

\* An attempt key has its type.
LEMMA AttemptKeyType == \A a \in Action : AttemptKey(a) \in AttemptKeys
  BY DEF AttemptKey, AttemptKeys, Action

\* _rearm_achieved_application returns a state.
LEMMA RearmType ==
    \A s \in State : \A p \in Profiles : RearmAchievedApplication(s, p) \in State
  BY Set_applied, Set_retried, Fields DEF RearmAchievedApplication, ForgetAttempts

\* _reset_application_recovery returns a state.
LEMMA ResetRecoveryType ==
    \A s \in State : \A p \in Profiles \cup {None} : ResetApplicationRecovery(s, p) \in State
  BY Set_applied, Set_retried, Fields DEF ResetApplicationRecovery, ForgetAttempts

\* Ending a proof leaves a state.
LEMMA ClearProofType == \A s \in State : ClearProof(s) \in State
  BY Set_verify, NoneTyped DEF ClearProof

\* Time leaves the ages within their ranges: they saturate.
LEMMA ElapseType == \A s \in State : \A dt \in Nat : Elapse(s, dt) \in State
<1> SUFFICES ASSUME NEW s \in State, NEW dt \in Nat PROVE Elapse(s, dt) \in State
  OBVIOUS
<1>1. (IF s.aggr <= dt THEN Least(s.aggr, 0) ELSE s.aggr - dt) \in -1..AggressiveBudget
  BY BoundsAssumption, Fields DEF Least
<1>2. (IF s.verify = -1 THEN -1 ELSE Least(s.verify + dt, ProfileStability))
        \in -1..ProfileStability
  BY BoundsAssumption, Fields DEF Least
<1>3. Least(s.drm + dt, EventQuiet) \in 0..EventQuiet
  BY BoundsAssumption, Fields DEF Least
<1>4. [key |-> s.unknown.key,
       age |-> IF s.unknown.key = None THEN 0
               ELSE Least(s.unknown.age + dt, UnknownStability)]
        \in [key: Keys \cup {None}, age: 0..UnknownStability]
  BY BoundsAssumption, Fields DEF Least
<1>5. [n |-> s.unplug.n,
       age |-> IF s.unplug.n = 0 THEN 0 ELSE Least(s.unplug.age + dt, UnplugStability)]
        \in [n: 0..UnplugSamples, age: 0..UnplugStability]
  BY BoundsAssumption, Fields DEF Least
<1> QED
  BY <1>1, <1>2, <1>3, <1>4, <1>5, Set_aggr, Set_verify, Set_drm, Set_unknown, Set_unplug
  DEF Elapse

\* _discard_planning returns a state.
LEMMA DiscardPlanningType == \A s \in State : DiscardPlanning(s) \in State
<1> SUFFICES ASSUME NEW s \in State PROVE DiscardPlanning(s) \in State
  OBVIOUS
<1>1. AppendTombstone(s, s.planning, "CANCELLED") \in State
  BY AppendTombstoneType, Fields DEF Terminal
<1>2. \A t \in State : [t EXCEPT !.planState = "PLAN_IDLE", !.prepState = "PREPARE_IDLE",
                                 !.planning = NoAction, !.prep = NoAction] \in State
  BY Set_planState, Set_prepState, Set_planning, Set_prep, NoneTyped DEF PlanStates, PrepStates
<1> QED
  BY <1>1, <1>2 DEF DiscardPlanning

\* An action that leaves the state leaves a state.
LEMMA DropType ==
    \A s \in State : \A lc \in Terminal :
        /\ DropProbe(s, lc) \in State
        /\ DropApplication(s, lc) \in State
        /\ DropPreparation(s, lc) \in State
        /\ DropFinalization(s, lc) \in State
  BY AppendTombstoneType, Fields, NoneTyped, Named, Set_phase, Set_prepState, Set_probe, Set_app,
     Set_prep, Set_fin
  DEF DropProbe, DropApplication, DropPreparation, DropFinalization, PrepStates

-----------------------------------------------------------------------------
(* Observe: waiting, admission, verification and classification. *)

\* The next index into the delays of _enter_wait is a natural number.
LEMMA NextDelay == \A i \in Nat : \A n \in Nat \ {0} : Least(Least(i, n - 1) + 1, n - 1) \in Nat
  BY DEF Least

\* _enter_wait returns a decision.
LEMMA EnterWaitType == \A s \in State : EnterWait(s) \in Decisions
<1> SUFFICES ASSUME NEW s \in State PROVE EnterWait(s) \in Decisions
  OBVIOUS
<1> DEFINE
      t == [ClearProof(s) EXCEPT !.aggr = IF @ = -1 THEN AggressiveBudget ELSE @,
                                 !.backoff = IF s.aggr = -1 THEN 0 ELSE @]
      index(phase) == IF t.phase = phase THEN t.backoff ELSE 0
      next(i, n) == Least(Least(i, n - 1) + 1, n - 1)
<1>1. t \in State
  BY ClearProofType, Fields, NoneTyped, Set_aggr, Set_backoff
<1>2. \A phase : index(phase) \in Nat
  BY <1>1, Fields
<1>3. next(index("DISCOVER_FAST"), FastDelays) \in Nat /\ next(index("WAIT_SLOW"), SlowDelays) \in Nat
  BY <1>2, NextDelay, BoundsAssumption
<1> HIDE DEF t, index, next
<1>4. \A n \in Nat : /\ [t EXCEPT !.phase = "DISCOVER_FAST", !.backoff = n] \in State
                     /\ [t EXCEPT !.phase = "WAIT_SLOW", !.backoff = n] \in State
  BY <1>1, Named, Set_phase, Set_backoff
<1>5. EnterWait(s) \in {Schedule([t EXCEPT !.phase = "DISCOVER_FAST",
                                    !.backoff = next(index("DISCOVER_FAST"), FastDelays)], "fast", {}),
                        Schedule([t EXCEPT !.phase = "WAIT_SLOW",
                                    !.backoff = next(index("WAIT_SLOW"), SlowDelays)], "slow", {})}
  BY DEF EnterWait, t, index, next
<1> QED
  BY <1>3, <1>4, <1>5, PlainSchedule DEF Delays

\* _defer_while_asleep returns a decision.
LEMMA DeferType == \A s \in State : DeferWhileAsleep(s) \in Decisions
  BY ClearProofType, Named, Set_phase, PlainSchedule DEF DeferWhileAsleep, Delays

\* A dispatch belongs to a decision whose state holds an admission.
LEMMA DispatchDecision ==
    \A s \in State : \A fx \in SUBSET Effects : Admitted(s) # {} => Decision(s, fx) \in Decisions
  BY DEF Decision, Decisions

\* The facts of a sample have their types.
LEMMA EvidenceType ==
    \A k \in Keys : /\ Evidence[k].token \in Tokens
                    /\ Evidence[k].probe \in Profiles \cup {None}
                    /\ Evidence[k].exact \in Profiles \cup {None}
                    /\ Evidence[k].current \in SUBSET Profiles
  BY EvidenceAssumption DEF Facts

\* The parts of an observation have their types.
LEMMA ObservationType ==
    \A o \in Observations : o.key \in Keys /\ o.gen \in Nat /\ o.cfg \in Configs
  BY DEF Observations

\* The action sequence can always grow.
LEMMA SeqGrows == \A s \in State : s.seq + 1 \in Nat
  BY Fields

\* _admit_probe returns a decision: it dispatches only what it admitted.
LEMMA AdmitProbeType == \A s \in State : \A o \in Observations : AdmitProbe(s, o) \in Decisions
<1> SUFFICES ASSUME NEW s \in State, NEW o \in Observations PROVE AdmitProbe(s, o) \in Decisions
  OBVIOUS
<1> DEFINE probe == Allocated(s, o.gen, Evidence[o.key].probe, o.key, 0, None)
           t == [DiscardPlanning(s) EXCEPT
                         !.phase = "PROBE_PENDING", !.cand = NoCandidate,
                         !.seq = @ + 1, !.probe = probe, !.baseline = FALSE,
                         !.verify = -1, !.timer = "now"]
<1>1. probe \in Action
  BY AllocatedType, EvidenceType, ObservationType
<1>2. probe.lc = "ADMITTED"
  BY DEF Allocated
<1> HIDE DEF probe
<1>3. t \in State
  BY <1>1, DiscardPlanningType, SeqGrows, NoneTyped, Named, Set_phase, Set_cand, Set_seq, Set_probe,
     Set_baseline, Set_verify, Set_timer DEF Delays
<1>4. t.probe = probe
  BY DiscardPlanningType DEF State
<1> HIDE DEF t
<1>5. Decision(t, {"dispatch"}) \in Decisions
  BY <1>2, <1>3, <1>4, DispatchDecision DEF Admitted, Mutators, Effects
<1> QED
  BY <1>5, EnterWaitType DEF AdmitProbe, probe, t

\* _admit_application returns a decision: it dispatches only what it admitted.
LEMMA AdmitApplicationType ==
    \A s \in State : \A o \in Observations : \A p \in Profiles : AdmitApplication(s, o, p) \in Decisions
<1> SUFFICES ASSUME NEW s \in State, NEW o \in Observations, NEW p \in Profiles
             PROVE AdmitApplication(s, o, p) \in Decisions
  OBVIOUS
<1> DEFINE app == Allocated(s, o.gen, p, o.key, 0, None)
           t == [s EXCEPT !.cand = Candidate(s, o.key, p), !.baseline = FALSE]
           u == [t EXCEPT !.applied = @ \ {AttemptKey(app)}, !.phase = "APPLY_PENDING",
                          !.seq = @ + 1, !.app = app, !.timer = "now"]
<1>1. app \in Action
  BY AllocatedType, ObservationType
<1>2. app.lc = "ADMITTED"
  BY DEF Allocated
<1> HIDE DEF app
<1>3. t \in State
  BY CandidateType, ObservationType, Set_cand, Set_baseline
<1> HIDE DEF t
<1>4. u \in State
  BY <1>1, <1>3, SeqGrows, Fields, Named, Set_applied, Set_phase, Set_seq, Set_app, Set_timer DEF Delays
<1>5. u.app = app
  BY <1>3 DEF State
<1> HIDE DEF u
<1>6. Decision(u, {"dispatch"}) \in Decisions
  BY <1>2, <1>4, <1>5, DispatchDecision DEF Admitted, Mutators, Effects
<1> QED
  BY <1>3, <1>6, EnterWaitType DEF AdmitApplication, app, t, u

\* Admitting a plan returns a state.
LEMMA AdmitPlanType ==
    \A s \in State : \A o \in Observations : \A p \in Profiles : AdmitPlan(s, o, p) \in State
  BY AllocatedType, ObservationType, SeqGrows, Named, Set_seq, Set_planState, Set_planning
  DEF AdmitPlan

\* The preparation _advance_verification admits is held by the state it returns.
LEMMA WithPreparationType ==
    \A s \in State : \A o \in Observations :
        WithPreparation(s, o) \in State /\ WithPreparation(s, o).prep.lc = "ADMITTED"
<1> SUFFICES ASSUME NEW s \in State, NEW o \in Observations
             PROVE WithPreparation(s, o) \in State /\ WithPreparation(s, o).prep.lc = "ADMITTED"
  OBVIOUS
<1> DEFINE prep == Allocated(s, o.gen, s.cand.profile, o.key, s.planning.id, None)
<1>1. prep \in Action
  BY AllocatedType, ObservationType, Fields DEF Candidates, Action
<1>2. prep.lc = "ADMITTED"
  BY DEF Allocated
<1> HIDE DEF prep
<1>3. [s EXCEPT !.seq = @ + 1, !.prepState = "PREPARE_PENDING", !.prep = prep] \in State
  BY <1>1, SeqGrows, Set_seq, Set_prepState, Set_prep DEF PrepStates
<1>4. [s EXCEPT !.seq = @ + 1, !.prepState = "PREPARE_PENDING", !.prep = prep].prep = prep
  BY DEF State
<1> QED
  BY <1>2, <1>3, <1>4 DEF WithPreparation, prep

\* The end of _advance_verification returns a decision, whatever effects come
\* with it, if a dispatch comes with an admitted preparation.
LEMMA CompleteVerificationType ==
    \A s \in State : \A o \in Observations : \A fx \in SUBSET Effects :
        ("dispatch" \in fx => s.prep.lc = "ADMITTED") => CompleteVerification(s, o, fx) \in Decisions
<1> SUFFICES ASSUME NEW s \in State, NEW o \in Observations, NEW fx \in SUBSET Effects,
                    "dispatch" \in fx => s.prep.lc = "ADMITTED"
             PROVE CompleteVerification(s, o, fx) \in Decisions
  OBVIOUS
<1> DEFINE
      profile == s.cand.profile
      fin == Allocated(s, o.gen, profile, o.key, s.prep.plan, None)
      adopted == [ResetApplicationRecovery(DiscardPlanning(s), profile) EXCEPT
                        !.stable = profile, !.baseline = FALSE]
      baselined == [ResetApplicationRecovery(s, profile) EXCEPT
                        !.stable = profile, !.finalized = profile, !.baseline = FALSE]
      pending == [s EXCEPT !.phase = "FINALIZE_PENDING", !.seq = @ + 1,
                           !.fin = fin, !.timer = "now"]
<1>1. profile \in Profiles \cup {None}
  BY Fields DEF Candidates
<1> HIDE DEF profile
<1>2. s.prep.plan \in Nat
  BY Fields DEF Action
<1>3. fin \in Action
  BY <1>1, <1>2, AllocatedType, ObservationType
<1>3a. fin.lc = "ADMITTED"
  BY DEF Allocated
<1> HIDE DEF fin
<1>4. adopted \in State
  BY <1>1, DiscardPlanningType, ResetRecoveryType, Set_stable, Set_baseline
<1>5. baselined \in State
  BY <1>1, ResetRecoveryType, Set_stable, Set_finalized, Set_baseline
<1>6. pending \in State
  BY <1>3, SeqGrows, Named, Set_phase, Set_seq, Set_fin, Set_timer DEF Delays
<1>7. pending.fin = fin
  BY DEF State
<1> HIDE DEF adopted, baselined, pending
<1>8. Decision(pending, {"dispatch"}) \in Decisions
  BY <1>3a, <1>6, <1>7, DispatchDecision DEF Admitted, Mutators, Effects
<1>9. \A delay \in Delays : Schedule(s, delay, fx) \in Decisions
  <2> SUFFICES ASSUME NEW delay \in Delays PROVE Schedule(s, delay, fx) \in Decisions
    OBVIOUS
  <2>1. [s EXCEPT !.timer = delay] \in State
    BY Set_timer
  <2>2. [s EXCEPT !.timer = delay].prep = s.prep
    BY DEF State
  <2>3. CASE "dispatch" \in fx
    BY <2>1, <2>2, <2>3, DispatchDecision DEF Schedule, Admitted, Mutators
  <2>4. CASE "dispatch" \notin fx
    BY <2>4, PlainSchedule
  <2> QED BY <2>3, <2>4
<1>10. Quiesce(adopted) \in Decisions /\ Quiesce(baselined) \in Decisions
  BY <1>4, <1>5, QuiesceType
<1>11. CompleteVerification(s, o, fx) \in
         {Quiesce(adopted), Quiesce(baselined), Decision(pending, {"dispatch"}),
          Schedule(s, "health", fx), Schedule(s, "tick", fx)}
  BY DEF CompleteVerification, profile, fin, adopted, baselined, pending
<1> QED
  BY <1>8, <1>9, <1>10, <1>11 DEF Delays

\* _advance_verification returns a decision, with or without a plan asked for.
LEMMA AdvanceVerificationType ==
    \A s \in State : \A o \in Observations : \A fx \in SUBSET {"plan"} :
        AdvanceVerification(s, o, fx) \in Decisions
<1> SUFFICES ASSUME NEW s \in State, NEW o \in Observations, NEW fx \in SUBSET {"plan"}
             PROVE AdvanceVerification(s, o, fx) \in Decisions
  OBVIOUS
<1>1. fx \in SUBSET Effects /\ fx \cup {"dispatch"} \in SUBSET Effects /\ "dispatch" \notin fx
  BY DEF Effects
<1>2. CompleteVerification(s, o, fx) \in Decisions
  BY <1>1, CompleteVerificationType
<1>3. CompleteVerification(WithPreparation(s, o), o, fx \cup {"dispatch"}) \in Decisions
  BY <1>1, CompleteVerificationType, WithPreparationType
<1> QED
  BY <1>2, <1>3, EnterWaitType DEF AdvanceVerification

\* A proof for which a plan may be asked is a decision.
LEMMA PlanVerificationType ==
    \A s \in State : \A o \in Observations : \A p \in Profiles : PlanVerification(s, o, p) \in Decisions
  BY AdmitPlanType, AdvanceVerificationType DEF PlanVerification

\* _start_verification returns a decision.
LEMMA StartVerificationType ==
    \A s \in State : \A o \in Observations : \A p \in Profiles : StartVerification(s, o, p) \in Decisions
<1> SUFFICES ASSUME NEW s \in State, NEW o \in Observations, NEW p \in Profiles
             PROVE StartVerification(s, o, p) \in Decisions
  OBVIOUS
<1>1. \A t \in State : \A v \in -1..ProfileStability : \A c \in Candidates :
         [t EXCEPT !.phase = "VERIFYING", !.verify = v, !.cand = c] \in State
  BY Named, Set_phase, Set_verify, Set_cand
<1>2. Candidate(s, o.key, p) \in Candidates
  BY CandidateType, ObservationType
<1>3. \E t \in State : \E v \in -1..ProfileStability : \E c \in Candidates :
         StartVerification(s, o, p) =
           PlanVerification([t EXCEPT !.phase = "VERIFYING", !.verify = v, !.cand = c], o, p)
  <2> DEFINE
        sameProof == /\ s.phase = "VERIFYING"
                     /\ s.cand.profile = p
                     /\ s.cand.key = o.key
                     /\ s.verify # -1
        samePlan == /\ s.planning.epoch = s.epoch
                    /\ s.planning.profile = p
                    /\ s.planning.key = o.key
                    /\ s.planning.cfg = o.cfg
        t == IF sameProof /\ (Held(s.planning) => samePlan) THEN s ELSE DiscardPlanning(s)
        v == IF sameProof THEN t.verify ELSE 0
        c == IF sameProof THEN t.cand ELSE Candidate(s, o.key, p)
  <2>1. t \in State
    BY DiscardPlanningType
  <2> HIDE DEF t
  <2>2. v \in -1..ProfileStability /\ c \in Candidates
    BY <1>2, <2>1, Fields, NoneTyped
  <2>3. StartVerification(s, o, p) =
          PlanVerification([t EXCEPT !.phase = "VERIFYING", !.verify = v, !.cand = c], o, p)
    BY DEF StartVerification, t
  <2> QED
    BY <2>1, <2>2, <2>3
<1> QED
  BY <1>1, <1>3, PlanVerificationType

\* _handle_unplug returns a state.
LEMMA HandleUnplugType ==
    \A s \in State : \A o \in Observations : HandleUnplug(s, o).st \in State
<1> SUFFICES ASSUME NEW s \in State, NEW o \in Observations PROVE HandleUnplug(s, o).st \in State
  OBVIOUS
<1> DEFINE proof == [n |-> Least(s.unplug.n + 1, UnplugSamples), age |-> s.unplug.age]
<1>1. proof \in [n: 0..UnplugSamples, age: 0..UnplugStability]
  BY BoundsAssumption, Fields DEF Least
<1> HIDE DEF proof
<1>2. /\ [s EXCEPT !.unplug = NoUnplug] \in State
      /\ [s EXCEPT !.intent = FALSE, !.unplug = NoUnplug] \in State
      /\ [s EXCEPT !.unplug = proof, !.verify = -1] \in State
  BY <1>1, NoneTyped, Set_unplug, Set_intent, Set_verify
<1>3. HandleUnplug(s, o).st \in {[s EXCEPT !.unplug = NoUnplug],
                                 [s EXCEPT !.intent = FALSE, !.unplug = NoUnplug],
                                 [s EXCEPT !.unplug = proof, !.verify = -1]}
  BY DEF HandleUnplug, proof
<1> QED
  BY <1>2, <1>3

\* Waiting for an unplug proof is a decision.
LEMMA AwaitUnplugType == \A s \in State : AwaitUnplug(s) \in Decisions
<1> SUFFICES ASSUME NEW s \in State PROVE AwaitUnplug(s) \in Decisions
  OBVIOUS
<1>1. [s EXCEPT !.phase = "DISCOVER_FAST",
                !.probe = IF s.phase = "PROBE_FAILED" THEN NoAction ELSE @,
                !.app = IF s.phase = "APPLY_FAILED" THEN NoAction ELSE @,
                !.fin = IF s.phase = "FINALIZE_FAILED" THEN NoAction ELSE @] \in State
  BY Fields, NoneTyped, Named, Set_phase, Set_probe, Set_app, Set_fin
<1> QED
  BY <1>1, PlainSchedule DEF AwaitUnplug, Delays

\* Remembering external hardware leaves a state.
LEMMA RetainIntentType == \A s \in State : RetainExternalIntent(s) \in State
  BY Fields, NoneTyped, Set_intent, Set_unplug, Set_cand, Set_verify DEF RetainExternalIntent

\* Dropping a failure leaves a state.
LEMMA DropFailureType == \A s \in State : DropFailure(s) \in State
  BY Fields, NoneTyped, Named, Set_phase, Set_probe, Set_app, Set_fin DEF DropFailure

\* Classifying an unknown topology returns a decision.
LEMMA ClassifyUnknownType ==
    \A s \in State : \A o \in Observations : ClassifyUnknown(s, o) \in Decisions
<1> SUFFICES ASSUME NEW s \in State, NEW o \in Observations PROVE ClassifyUnknown(s, o) \in Decisions
  OBVIOUS
<1> DEFINE seen == IF s.unknown.key = o.key THEN s.unknown.age ELSE 0
           t == [s EXCEPT !.unknown = [key |-> o.key, age |-> seen], !.verify = -1]
<1>1. [key |-> o.key, age |-> seen] \in [key: Keys \cup {None}, age: 0..UnknownStability]
  BY Fields, ObservationType, BoundsAssumption
<1> HIDE DEF seen
<1>2. t \in State
  BY <1>1, NoneTyped, Set_unknown, Set_verify
<1> HIDE DEF t
<1>3. [t EXCEPT !.phase = "UNSUPPORTED"] \in State /\ [t EXCEPT !.phase = "DISCOVER_FAST"] \in State
  BY <1>2, Named, Set_phase
<1>4. ClassifyUnknown(s, o) \in {Schedule([t EXCEPT !.phase = "UNSUPPORTED"], "health", {}),
                                 Schedule([t EXCEPT !.phase = "DISCOVER_FAST"], "tick", {})}
  BY DEF ClassifyUnknown, seen, t
<1> QED
  BY <1>3, <1>4, PlainSchedule DEF Delays

\* Classifying an exact and current profile returns a decision.
LEMMA ClassifyExactType ==
    \A s \in State : \A o \in Observations : \A p \in Profiles : ClassifyExact(s, o, p) \in Decisions
  BY RearmType, NoneTyped, Set_unknown, QuiesceType, StartVerificationType DEF ClassifyExact

\* Classifying a sample by its target returns a decision.
LEMMA ClassifyTargetType ==
    \A s \in State : \A o \in Observations : ClassifyTarget(s, o) \in Decisions
<1> SUFFICES ASSUME NEW s \in State, NEW o \in Observations PROVE ClassifyTarget(s, o) \in Decisions
  OBVIOUS
<1> DEFINE known == [s EXCEPT !.unknown = NoUnknown]
<1>1. known \in State
  BY NoneTyped, Set_unknown
<1> HIDE DEF known
<1>2. UniqueTarget(o.key) \in Profiles \cup {None}
  BY UniqueTargetType, ObservationType
<1>3. \/ ClassifyTarget(s, o) \in {DeferWhileAsleep(known), AdmitProbe(known, o),
                                   ClassifyUnknown(s, o), EnterWait(s)}
      \/ \E p \in Profiles : ClassifyTarget(s, o) \in {ClassifyExact(s, o, p),
                                                       AdmitApplication(known, o, p)}
  BY <1>2 DEF ClassifyTarget, known
<1> QED
  BY <1>1, <1>3, DeferType, AdmitProbeType, ClassifyUnknownType, EnterWaitType, ClassifyExactType,
     AdmitApplicationType

\* _classify_observation without a pending admission returns a decision.
LEMMA ClassifyType == \A s \in State : \A o \in Observations : Classify(s, o) \in Decisions
<1> SUFFICES ASSUME NEW s \in State, NEW o \in Observations PROVE Classify(s, o) \in Decisions
  OBVIOUS
<1>1. \E t \in State : Classify(s, o) \in {AwaitUnplug(t), Schedule(t, "health", {}),
                                           ClassifyTarget(DropFailure(t), o)}
  BY HandleUnplugType, RetainIntentType DEF Classify
<1> QED
  BY <1>1, AwaitUnplugType, PlainSchedule, DropFailureType, ClassifyTargetType DEF Delays

\* _reset_for_epoch returns a state.
LEMMA ResetForEpochType == \A s \in State : \A o \in Observations : ResetForEpoch(s, o) \in State
<1> SUFFICES ASSUME NEW s \in State, NEW o \in Observations PROVE ResetForEpoch(s, o) \in State
  OBVIOUS
<1> DEFINE t == DiscardPlanning(s)
           ids == {a.id : a \in {x \in {t.probe, t.app, t.fin} : x.lc = "ADMITTED"}}
           tombs == {x \in t.tombs : x.id \notin ids} \cup {[id |-> i, lc |-> "CANCELLED"] : i \in ids}
           baseline == t.phase = "RECOVERING" /\ t.finalized = None /\ ~t.required
           a == [t EXCEPT !.tombs = tombs, !.phase = "DISCOVER_FAST", !.epoch = @ + 1]
           b == [a EXCEPT !.token = Evidence[o.key].token, !.cand = NoCandidate,
                          !.aggr = AggressiveBudget, !.backoff = 0, !.verify = -1]
           c == [b EXCEPT !.stable = None, !.probed = {}, !.applied = {}, !.retried = {}]
           d == [c EXCEPT !.probe = NoAction, !.app = NoAction, !.fin = NoAction]
           e == [d EXCEPT !.unknown = NoUnknown, !.unplug = NoUnplug, !.baseline = baseline]
<1>1. t \in State
  BY DiscardPlanningType
<1> HIDE DEF t
<1>2. ids \in SUBSET Nat
  BY <1>1, Fields DEF Action
<1> HIDE DEF ids
<1>3. tombs \in SUBSET [id: Nat, lc: Terminal]
  BY <1>1, <1>2, Fields DEF Terminal
<1>4. baseline \in BOOLEAN
  OBVIOUS
<1>5. t.epoch + 1 \in Nat
  BY <1>1, Fields
<1> HIDE DEF tombs, baseline
<1>6. a \in State
  BY <1>1, <1>3, <1>5, Named, Set_tombs, Set_phase, Set_epoch
<1> HIDE DEF a
<1>7. b \in State
  BY <1>6, EvidenceType, ObservationType, NoneTyped, Set_token, Set_cand, Set_aggr, Set_backoff,
     Set_verify
<1> HIDE DEF b
<1>8. c \in State
  BY <1>7, Set_stable, Set_probed, Set_applied, Set_retried
<1> HIDE DEF c
<1>9. d \in State
  BY <1>8, NoneTyped, Set_probe, Set_app, Set_fin
<1> HIDE DEF d
<1>10. e \in State
  BY <1>4, <1>9, NoneTyped, Set_unknown, Set_unplug, Set_baseline
<1>11. ResetForEpoch(s, o) = e
  BY DEF ResetForEpoch, t, ids, tombs, baseline, a, b, c, d, e
<1> QED
  BY <1>10, <1>11

\* The epoch of a sample is entered in a state.
LEMMA SameEpochType ==
    \A s \in State : \A o \in Observations : SameEpoch(s, o) \in State
  BY ResetForEpochType DEF SameEpoch

\* An action stays one when its generation is replaced.
LEMMA SetActionGen ==
    \A a \in Action : \A g \in Nat : [a EXCEPT !.gen = g] \in Action
  BY DEF Action

\* An action stays one when its lifecycle is replaced.
LEMMA SetActionLc ==
    \A a \in Action : \A lc \in Lifecycles : [a EXCEPT !.lc = lc] \in Action
  BY DEF Action

\* An action stays one when terminal_after_stop is replaced.
LEMMA SetActionAfter ==
    \A a \in Action : \A lc \in Failed \cup {None} : [a EXCEPT !.after = lc] \in Action
  BY DEF Action

\* An action stays one when its unit is recorded or not.
LEMMA SetActionUnit ==
    \A a \in Action : \A b \in BOOLEAN : [a EXCEPT !.unit = b] \in Action
  BY DEF Action

\* Offering an admission is a decision if there is one.
LEMMA OfferedType == \A s \in State : Admitted(s) # {} => Offered(s) \in Decisions
<1> SUFFICES ASSUME NEW s \in State, Admitted(s) # {} PROVE Offered(s) \in Decisions
  OBVIOUS
<1> DEFINE t == [s EXCEPT !.timer = "now"]
<1>1. t \in State
  BY Set_timer DEF Delays
<1>2. t.probe = s.probe /\ t.app = s.app /\ t.prep = s.prep /\ t.fin = s.fin
  BY DEF State
<1> HIDE DEF t
<1>3. Admitted(t) = Admitted(s)
  BY <1>2 DEF Admitted, Mutators
<1> QED
  BY <1>1, <1>3, DispatchDecision DEF Offered, t, Effects

\* A pending phase holds the admission it names.
Pending(s) ==
    /\ s.phase = "PROBE_PENDING" => s.probe.lc = "ADMITTED"
    /\ s.phase = "APPLY_PENDING" => s.app.lc = "ADMITTED"
    /\ s.phase = "FINALIZE_PENDING" => s.fin.lc = "ADMITTED"
    /\ s.prepState = "PREPARE_PENDING" => s.prep.lc = "ADMITTED"

\* An admission offered again at a new generation is a decision.
LEMMA OfferedAgain ==
    \A s \in State : \A g \in Nat :
        /\ s.probe.lc = "ADMITTED" => Offered([s EXCEPT !.probe.gen = g]) \in Decisions
        /\ s.app.lc = "ADMITTED" => Offered([s EXCEPT !.app.gen = g]) \in Decisions
        /\ s.prep.lc = "ADMITTED" => Offered([s EXCEPT !.prep.gen = g]) \in Decisions
        /\ s.fin.lc = "ADMITTED" => Offered([s EXCEPT !.fin.gen = g]) \in Decisions
<1> SUFFICES ASSUME NEW s \in State, NEW g \in Nat
             PROVE /\ s.probe.lc = "ADMITTED" => Offered([s EXCEPT !.probe.gen = g]) \in Decisions
                   /\ s.app.lc = "ADMITTED" => Offered([s EXCEPT !.app.gen = g]) \in Decisions
                   /\ s.prep.lc = "ADMITTED" => Offered([s EXCEPT !.prep.gen = g]) \in Decisions
                   /\ s.fin.lc = "ADMITTED" => Offered([s EXCEPT !.fin.gen = g]) \in Decisions
  OBVIOUS
<1>1. \A a \in Action : [a EXCEPT !.gen = g] \in Action /\ [a EXCEPT !.gen = g].lc = a.lc
  BY DEF Action
<1>2. s.probe \in Action /\ s.app \in Action /\ s.prep \in Action /\ s.fin \in Action
  BY Fields
<1>3. \A a \in Action : /\ [s EXCEPT !.probe = a] \in State
                        /\ [s EXCEPT !.app = a] \in State
                        /\ [s EXCEPT !.prep = a] \in State
                        /\ [s EXCEPT !.fin = a] \in State
  BY Set_probe, Set_app, Set_prep, Set_fin
<1>3a. \A a \in Action : /\ [s EXCEPT !.probe = a].probe = a
                         /\ [s EXCEPT !.app = a].app = a
                         /\ [s EXCEPT !.prep = a].prep = a
                         /\ [s EXCEPT !.fin = a].fin = a
  BY DEF State
<1>4. /\ [s EXCEPT !.probe.gen = g] = [s EXCEPT !.probe = [s.probe EXCEPT !.gen = g]]
      /\ [s EXCEPT !.app.gen = g] = [s EXCEPT !.app = [s.app EXCEPT !.gen = g]]
      /\ [s EXCEPT !.prep.gen = g] = [s EXCEPT !.prep = [s.prep EXCEPT !.gen = g]]
      /\ [s EXCEPT !.fin.gen = g] = [s EXCEPT !.fin = [s.fin EXCEPT !.gen = g]]
  OBVIOUS
<1>5. \A t \in State : "ADMITTED" \in {t.probe.lc, t.app.lc, t.prep.lc, t.fin.lc} => Offered(t) \in Decisions
  BY OfferedType DEF Admitted, Mutators
<1>6. s.probe.lc = "ADMITTED" => Offered([s EXCEPT !.probe.gen = g]) \in Decisions
  <2> DEFINE a == [s.probe EXCEPT !.gen = g]
  <2>1. a \in Action /\ a.lc = s.probe.lc
    BY <1>1, <1>2
  <2> HIDE DEF a
  <2>2. [s EXCEPT !.probe = a] \in State /\ [s EXCEPT !.probe = a].probe = a
    BY <1>3, <1>3a, <2>1
  <2> QED
    BY <1>4, <1>5, <2>1, <2>2 DEF a
<1>7. s.app.lc = "ADMITTED" => Offered([s EXCEPT !.app.gen = g]) \in Decisions
  <2> DEFINE a == [s.app EXCEPT !.gen = g]
  <2>1. a \in Action /\ a.lc = s.app.lc
    BY <1>1, <1>2
  <2> HIDE DEF a
  <2>2. [s EXCEPT !.app = a] \in State /\ [s EXCEPT !.app = a].app = a
    BY <1>3, <1>3a, <2>1
  <2> QED
    BY <1>4, <1>5, <2>1, <2>2 DEF a
<1>8. s.prep.lc = "ADMITTED" => Offered([s EXCEPT !.prep.gen = g]) \in Decisions
  <2> DEFINE a == [s.prep EXCEPT !.gen = g]
  <2>1. a \in Action /\ a.lc = s.prep.lc
    BY <1>1, <1>2
  <2> HIDE DEF a
  <2>2. [s EXCEPT !.prep = a] \in State /\ [s EXCEPT !.prep = a].prep = a
    BY <1>3, <1>3a, <2>1
  <2> QED
    BY <1>4, <1>5, <2>1, <2>2 DEF a
<1>9. s.fin.lc = "ADMITTED" => Offered([s EXCEPT !.fin.gen = g]) \in Decisions
  <2> DEFINE a == [s.fin EXCEPT !.gen = g]
  <2>1. a \in Action /\ a.lc = s.fin.lc
    BY <1>1, <1>2
  <2> HIDE DEF a
  <2>2. [s EXCEPT !.fin = a] \in State /\ [s EXCEPT !.fin = a].fin = a
    BY <1>3, <1>3a, <2>1
  <2> QED
    BY <1>4, <1>5, <2>1, <2>2 DEF a
<1> QED
  BY <1>6, <1>7, <1>8, <1>9

\* Cancelling the pending admission leaves a state.
LEMMA CancelAdmissionType == \A s \in State : CancelAdmission(s) \in State
  BY DropType, Set_verify, NoneTyped DEF CancelAdmission, Terminal

\* _classify_observation returns a decision if a pending phase holds its admission.
LEMMA ClassifyObservationType ==
    \A s \in State : \A o \in Observations : Pending(s) => ClassifyObservation(s, o) \in Decisions
<1> SUFFICES ASSUME NEW s \in State, NEW o \in Observations, Pending(s)
             PROVE ClassifyObservation(s, o) \in Decisions
  OBVIOUS
<1>1. ~StillAuthorized(s, o) => ClassifyObservation(s, o) \in Decisions
  BY CancelAdmissionType, SameEpochType, ClassifyType DEF ClassifyObservation
<1>2. StillAuthorized(s, o) =>
        ClassifyObservation(s, o) = Offered([s EXCEPT ![PendingAdmission(s)].gen = o.gen])
  BY DEF ClassifyObservation
<1>3. CASE s.phase = "PROBE_PENDING"
  <2>1. PendingAdmission(s) = "probe" /\ s.probe.lc = "ADMITTED"
    BY <1>3 DEF PendingAdmission, Pending
  <2> QED BY <1>1, <1>2, <2>1, OfferedAgain, ObservationType
<1>4. CASE s.phase = "APPLY_PENDING"
  <2>1. PendingAdmission(s) = "app" /\ s.app.lc = "ADMITTED"
    BY <1>4 DEF PendingAdmission, Pending
  <2> QED BY <1>1, <1>2, <2>1, OfferedAgain, ObservationType
<1>5. CASE s.phase \notin {"PROBE_PENDING", "APPLY_PENDING"} /\ s.prepState = "PREPARE_PENDING"
  <2>1. PendingAdmission(s) = "prep" /\ s.prep.lc = "ADMITTED"
    BY <1>5 DEF PendingAdmission, Pending
  <2> QED BY <1>1, <1>2, <2>1, OfferedAgain, ObservationType
<1>6. CASE s.phase = "FINALIZE_PENDING" /\ s.prepState # "PREPARE_PENDING"
  <2>1. PendingAdmission(s) = "fin" /\ s.fin.lc = "ADMITTED"
    BY <1>6 DEF PendingAdmission, Pending
  <2> QED BY <1>1, <1>2, <2>1, OfferedAgain, ObservationType
<1>7. CASE s.phase \notin {"PROBE_PENDING", "APPLY_PENDING", "FINALIZE_PENDING"}
           /\ s.prepState # "PREPARE_PENDING"
  <2>1. ~StillAuthorized(s, o)
    BY <1>7 DEF StillAuthorized, PendingAdmission
  <2> QED BY <1>1, <2>1
<1> QED
  BY <1>3, <1>4, <1>5, <1>6, <1>7

\* Recording a sample leaves a state.
LEMMA RecordObservationType ==
    \A s \in State : \A o \in Observations : RecordObservation(s, o) \in State
<1> SUFFICES ASSUME NEW s \in State, NEW o \in Observations PROVE RecordObservation(s, o) \in State
  OBVIOUS
<1>1. (IF o.gen > s.egen THEN o.gen ELSE s.egen) \in Nat
  BY ObservationType, Fields
<1> QED
  BY <1>1, ObservationType, Fields, NoneTyped, Set_obs, Set_obsGen, Set_egen, Set_finalized, Set_cand
  DEF RecordObservation

\* Time does not touch admissions.
LEMMA ElapseKeepsPending == \A s \in State : \A dt \in Nat : Pending(s) => Pending(Elapse(s, dt))
  BY DEF State, Elapse, Pending

\* Recording a sample does not touch admissions.
LEMMA RecordKeepsPending ==
    \A s \in State : \A o \in Observations : Pending(s) => Pending(RecordObservation(s, o))
  BY DEF State, RecordObservation, Pending

\* Withdrawing admissions leaves a state.
LEMMA WithdrawType == \A s \in State : WithdrawAdmissions(s) \in State
<1>1. \A s \in State : WithdrawProbe(s) \in State
  BY DropType DEF WithdrawProbe, Terminal
<1>2. \A s \in State : WithdrawApplication(s) \in State
  BY DropType DEF WithdrawApplication, Terminal
<1>3. \A s \in State : WithdrawPreparation(s) \in State
  BY DropType, DiscardPlanningType, Set_phase, Named DEF WithdrawPreparation, Terminal
<1>4. \A s \in State : WithdrawFinalization(s) \in State
  BY DropType DEF WithdrawFinalization, Terminal
<1> QED
  BY <1>1, <1>2, <1>3, <1>4 DEF WithdrawAdmissions

\* A state stays one when the lifecycle of one of its actions is replaced.
LEMMA SetLc ==
    \A s \in State : \A lc \in Lifecycles :
        /\ [s EXCEPT !.probe.lc = lc] \in State
        /\ [s EXCEPT !.app.lc = lc] \in State
        /\ [s EXCEPT !.planning.lc = lc] \in State
        /\ [s EXCEPT !.prep.lc = lc] \in State
        /\ [s EXCEPT !.fin.lc = lc] \in State
  BY Fields, SetActionLc, Set_probe, Set_app, Set_planning, Set_prep, Set_fin

\* A state stays one when terminal_after_stop of one of its actions is cleared.
LEMMA SetAfter ==
    \A s \in State :
        /\ [s EXCEPT !.probe.after = None] \in State
        /\ [s EXCEPT !.app.after = None] \in State
        /\ [s EXCEPT !.prep.after = None] \in State
        /\ [s EXCEPT !.fin.after = None] \in State
  BY Fields, SetActionAfter, Set_probe, Set_app, Set_prep, Set_fin

-----------------------------------------------------------------------------
(* Reducer: observations. *)

\* Waiting for a valid sample is a decision.
LEMMA AwaitValidType ==
    \A s \in State : \A external : AwaitValid(s, external) \in Decisions
<1> SUFFICES ASSUME NEW s \in State, NEW external
             PROVE AwaitValid(s, external) \in Decisions
  OBVIOUS
<1>1. [s EXCEPT !.app.lc = "STOPPING"] \in State
  BY SetLc DEF Lifecycles, InFlight
<1>2. \E phase \in Phases :
        AwaitValid(s, external) \in {Schedule([s EXCEPT !.app.lc = "STOPPING"], "tick", {"stop"}),
                                     Schedule([s EXCEPT !.phase = phase], "tick", StopEffect(s))}
  BY Fields, Named DEF AwaitValid
<1>3. \A phase \in Phases : [s EXCEPT !.phase = phase] \in State
  BY Set_phase
<1> QED
  BY <1>1, <1>2, <1>3, StopEffectType, PlainSchedule DEF Delays, Effects

\* _observe of an invalid sample returns a decision.
LEMMA ObserveInvalidType ==
    \A s \in State : \A o \in Observations : ObserveInvalid(s, o) \in Decisions
<1> SUFFICES ASSUME NEW s \in State, NEW o \in Observations PROVE ObserveInvalid(s, o) \in Decisions
  OBVIOUS
<1> DEFINE
      intent == s.intent \/ Evidence[o.key].external
      t == WithdrawAdmissions([s EXCEPT !.intent = intent, !.unplug = NoUnplug, !.verify = -1])
<1>1. intent \in BOOLEAN
  OBVIOUS
<1> HIDE DEF intent
<1>2. t \in State
  BY <1>1, NoneTyped, Set_intent, Set_unplug, Set_verify, WithdrawType
<1> HIDE DEF t
<1>3. ObserveInvalid(s, o) = AwaitValid(t, Evidence[o.key].external)
  BY DEF ObserveInvalid, t, intent
<1> QED
  BY <1>2, <1>3, AwaitValidType

\* Failing a finalization leaves a state.
LEMMA FailFinalizationType == \A s \in State : FailFinalization(s) \in State
<1> SUFFICES ASSUME NEW s \in State PROVE FailFinalization(s) \in State
  OBVIOUS
<1>1. AppendTombstone(s, s.fin, "FAILED") \in State
  BY AppendTombstoneType, Fields DEF Terminal, Failed
<1>2. \A t \in State : [t EXCEPT !.phase = "FINALIZE_FAILED", !.fin.lc = "FAILED"] \in State
  <2> SUFFICES ASSUME NEW t \in State
               PROVE [t EXCEPT !.phase = "FINALIZE_FAILED", !.fin.lc = "FAILED"] \in State
    OBVIOUS
  <2>1. [t EXCEPT !.phase = "FINALIZE_FAILED"] \in State
    BY Named, Set_phase
  <2> QED
    BY <2>1, SetLc DEF Lifecycles, Terminal, Failed
<1> QED
  BY <1>1, <1>2 DEF FailFinalization

\* _stop_finalization returns a decision.
LEMMA StopFinalizationType == \A s \in State : StopFinalization(s) \in Decisions
<1> SUFFICES ASSUME NEW s \in State PROVE StopFinalization(s) \in Decisions
  OBVIOUS
<1>1. [s EXCEPT !.phase = "FINALIZE_STOPPING"] \in State
  BY Named, Set_phase
<1>2. [s EXCEPT !.phase = "FINALIZE_STOPPING", !.fin.lc = "STOPPING"] \in State
  BY <1>1, SetLc DEF Lifecycles, InFlight
<1>3. [s EXCEPT !.phase = "FINALIZE_STOPPING", !.fin.lc = "STOPPING", !.verify = -1] \in State
  BY <1>2, NoneTyped, Set_verify
<1> QED
  BY <1>3, PlainSchedule DEF StopFinalization, Delays, Effects

\* _stop_preparation returns a decision.
LEMMA StopPreparationType == \A s \in State : StopPreparation(s) \in Decisions
<1> SUFFICES ASSUME NEW s \in State PROVE StopPreparation(s) \in Decisions
  OBVIOUS
<1>1. [s EXCEPT !.phase = "DISCOVER_FAST", !.prepState = "PREPARE_STOPPING"] \in State
  BY Named, Set_phase, Set_prepState DEF PrepStates
<1>2. [s EXCEPT !.phase = "DISCOVER_FAST", !.prepState = "PREPARE_STOPPING",
                !.prep.lc = "STOPPING"] \in State
  BY <1>1, SetLc DEF Lifecycles, InFlight
<1>3. [s EXCEPT !.phase = "DISCOVER_FAST", !.prepState = "PREPARE_STOPPING",
                !.prep.lc = "STOPPING", !.verify = -1] \in State
  BY <1>2, NoneTyped, Set_verify
<1> QED
  BY <1>3, PlainSchedule DEF StopPreparation, Delays, Effects

\* Confirming a finalization returns a decision.
LEMMA ConfirmFinalizationType == \A s \in State : ConfirmFinalization(s) \in Decisions
<1> SUFFICES ASSUME NEW s \in State PROVE ConfirmFinalization(s) \in Decisions
  OBVIOUS
<1>1. s.fin.profile \in Profiles \cup {None}
  BY Fields DEF Action
<1>2. DiscardPlanning(AppendTombstone(s, s.fin, "COMPLETED")) \in State
  BY AppendTombstoneType, DiscardPlanningType, Fields DEF Terminal
<1>3. [ResetApplicationRecovery(DiscardPlanning(AppendTombstone(s, s.fin, "COMPLETED")), s.fin.profile)
         EXCEPT !.stable = s.fin.profile, !.finalized = s.fin.profile,
                !.required = FALSE, !.fin = NoAction] \in State
  BY <1>1, <1>2, ResetRecoveryType, NoneTyped, Set_stable, Set_finalized, Set_required, Set_fin
<1> QED
  BY <1>3, QuiesceType DEF ConfirmFinalization

\* Observing during a finalization returns a decision.
LEMMA ObserveFinalizingType ==
    \A s \in State : \A o \in Observations : ObserveFinalizing(s, o) \in Decisions
  BY ConfirmFinalizationType, FailFinalizationType, StopFinalizationType, PlainSchedule
  DEF ObserveFinalizing, Delays

\* Observing during a preparation returns a decision.
LEMMA ObservePreparingType ==
    \A s \in State : \A o \in Observations : ObservePreparing(s, o) \in Decisions
<1> SUFFICES ASSUME NEW s \in State, NEW o \in Observations PROVE ObservePreparing(s, o) \in Decisions
  OBVIOUS
<1> DEFINE seen == IF s.verify = -1 THEN 0 ELSE s.verify
           done == AppendTombstone(s, s.prep, "COMPLETED")
           prepared == [done EXCEPT !.phase = "VERIFYING", !.verify = seen,
                                    !.prepState = "PREPARED", !.prep.lc = "COMPLETED"]
           bad == AppendTombstone(s, s.prep, "FAILED")
           failed == [bad EXCEPT !.prepState = "PREPARE_FAILED", !.prep.lc = "FAILED", !.verify = -1]
<1>1. seen \in -1..ProfileStability
  BY Fields, NoneTyped
<1>2. done \in State /\ bad \in State
  BY AppendTombstoneType, Fields DEF Terminal, Failed
<1> HIDE DEF seen, done, bad
<1>3. prepared \in State
  <2>1. [done EXCEPT !.phase = "VERIFYING", !.verify = seen, !.prepState = "PREPARED"] \in State
    BY <1>1, <1>2, Named, Set_phase, Set_verify, Set_prepState DEF PrepStates
  <2> QED BY <2>1, SetLc DEF Lifecycles, Terminal
<1>4. failed \in State
  <2>1. [bad EXCEPT !.prepState = "PREPARE_FAILED"] \in State
    BY <1>2, Set_prepState DEF PrepStates
  <2>2. [bad EXCEPT !.prepState = "PREPARE_FAILED", !.prep.lc = "FAILED"] \in State
    BY <2>1, SetLc DEF Lifecycles, Terminal, Failed
  <2> QED BY <2>2, NoneTyped, Set_verify
<1>5. /\ [s EXCEPT !.phase = "DISCOVER_FAST", !.verify = -1] \in State
      /\ [s EXCEPT !.phase = "VERIFYING", !.verify = seen] \in State
  BY <1>1, Named, NoneTyped, Set_phase, Set_verify
<1> HIDE DEF prepared, failed
<1>6. Classify(prepared, o) \in Decisions
  BY <1>3, ClassifyType
<1>7. ObservePreparing(s, o) \in
        {Schedule([s EXCEPT !.phase = "DISCOVER_FAST", !.verify = -1], "tick", {}),
         Classify(prepared, o), Schedule(failed, "health", {}),
         Schedule([s EXCEPT !.phase = "VERIFYING", !.verify = seen], "tick", {}),
         StopPreparation(s)}
  BY DEF ObservePreparing, seen, done, prepared, bad, failed
<1> QED
  BY <1>4, <1>5, <1>6, <1>7, StopPreparationType, PlainSchedule DEF Delays

\* Observing the topology the state is about returns a decision.
LEMMA ObserveEpochType ==
    \A s \in State : \A o \in Observations : Pending(s) => ObserveEpoch(s, o) \in Decisions
  BY ObserveFinalizingType, ObservePreparingType, ClassifyObservationType, PlainSchedule
  DEF ObserveEpoch, Delays

\* A new epoch has no pending phase.
LEMMA ResetKeepsPending ==
    \A s \in State : \A o \in Observations : Pending(ResetForEpoch(s, o))
<1> SUFFICES ASSUME NEW s \in State, NEW o \in Observations PROVE Pending(ResetForEpoch(s, o))
  OBVIOUS
<1>1. ResetForEpoch(s, o).phase = "DISCOVER_FAST"
  BY DiscardPlanningType DEF ResetForEpoch, State
<1>2. ResetForEpoch(s, o).prepState = DiscardPlanning(s).prepState
  BY DiscardPlanningType DEF ResetForEpoch, State
<1>3. DiscardPlanning(s).prepState = "PREPARE_IDLE"
  BY DEF DiscardPlanning, AppendTombstone, State
<1> QED
  BY <1>1, <1>2, <1>3 DEF Pending

\* Stopping what may still mutate X is a decision.
LEMMA StopForTokenType == \A s \in State : StopForToken(s) \in Decisions
<1> SUFFICES ASSUME NEW s \in State PROVE StopForToken(s) \in Decisions
  OBVIOUS
<1>1. [s EXCEPT !.probe.lc = "STOPPING"] \in State /\ [s EXCEPT !.app.lc = "STOPPING"] \in State
  BY SetLc DEF Lifecycles, InFlight
<1>2. ClearProof(FailFinalization(s)) \in State
  BY FailFinalizationType, ClearProofType
<1> QED
  BY <1>1, <1>2, StopFinalizationType, StopPreparationType, PlainSchedule
  DEF StopForToken, Delays, Effects

\* Entering the epoch of a sample keeps the state one, and its admissions.
LEMMA EnterEpochType ==
    \A s \in State : \A o \in Observations : \A prior :
        Pending(s) => EnterEpoch(s, o, prior) \in State /\ Pending(EnterEpoch(s, o, prior))
<1> SUFFICES ASSUME NEW s \in State, NEW o \in Observations, NEW prior, Pending(s)
             PROVE EnterEpoch(s, o, prior) \in State /\ Pending(EnterEpoch(s, o, prior))
  OBVIOUS
<1> DEFINE t == [s EXCEPT !.phase = "DISCOVER_FAST", !.aggr = AggressiveBudget, !.backoff = 0]
<1>1. t \in State
  BY Named, NoneTyped, Set_phase, Set_aggr, Set_backoff
<1>2. Pending(t)
  BY DEF Pending, State
<1> HIDE DEF t
<1>3. EnterEpoch(s, o, prior) \in {ResetForEpoch(s, o), t, s}
  BY DEF EnterEpoch, t
<1> QED
  BY <1>1, <1>2, <1>3, ResetForEpochType, ResetKeepsPending

\* _observe of a valid sample returns a decision.
LEMMA ObserveValidType ==
    \A s \in State : \A o \in Observations : \A prior :
        Pending(s) => ObserveValid(s, o, prior) \in Decisions
<1> SUFFICES ASSUME NEW s \in State, NEW o \in Observations, NEW prior, Pending(s)
             PROVE ObserveValid(s, o, prior) \in Decisions
  OBVIOUS
<1>1. [s EXCEPT !.phase = "APPLYING", !.app.lc = "STOPPING", !.cand = NoCandidate, !.verify = -1] \in State
  <2>1. [s EXCEPT !.phase = "APPLYING"] \in State
    BY Named, Set_phase
  <2>2. [s EXCEPT !.phase = "APPLYING", !.app.lc = "STOPPING"] \in State
    BY <2>1, SetLc DEF Lifecycles, InFlight
  <2> QED BY <2>2, NoneTyped, Set_cand, Set_verify
<1>2. ObserveEpoch(EnterEpoch(s, o, prior), o) \in Decisions
  BY EnterEpochType, ObserveEpochType
<1>3. ObserveValid(s, o, prior) \in
        {Schedule([s EXCEPT !.phase = "APPLYING", !.app.lc = "STOPPING",
                            !.cand = NoCandidate, !.verify = -1], "tick", {"stop"}),
         Schedule(s, "tick", {"stop"}), StopForToken(s), ObserveEpoch(EnterEpoch(s, o, prior), o)}
  BY DEF ObserveValid
<1> QED
  BY <1>1, <1>2, <1>3, StopForTokenType, PlainSchedule DEF Delays, Effects

\* Ignoring an event is a decision.
LEMMA NoOpType == \A s \in State : NoOp(s) \in Decisions
  BY PlainDecision DEF NoOp

\* ObservationCompleted gets a decision.
LEMMA ObservationCompletedType ==
    \A s \in State : \A o \in Observations : \A dt \in Nat :
        Pending(s) => ObservationCompleted(s, o, dt) \in Decisions
  BY ElapseType, ElapseKeepsPending, RecordObservationType, RecordKeepsPending, NoOpType,
     ObserveValidType, ObserveInvalidType DEF ObservationCompleted

\* ObservationFailed gets a decision.
LEMMA ObservationFailedType == \A s \in State : ObservationFailed(s) \in Decisions
  BY StopEffectType, PlainSchedule DEF ObservationFailed, Delays

-----------------------------------------------------------------------------
(* Reducer: hints, dispatch and results. *)

\* A hint ends every proof and leaves a state.
LEMMA DisturbedType ==
    \A s \in State : \A g, dt \in Nat : Disturbed(s, g, dt) \in State
  BY ElapseType, NoneTyped, Set_egen, Set_drm, Set_verify, Set_unplug DEF Disturbed

\* Withdrawing the admission of a desktop action leaves a state.
LEMMA WithdrawDesktopType == \A s \in State : WithdrawDesktopAdmission(s) \in State
<1> SUFFICES ASSUME NEW s \in State PROVE WithdrawDesktopAdmission(s) \in State
  OBVIOUS
<1> DEFINE t == IF s.prepState = "PREPARE_PENDING"
                THEN DiscardPlanning(DropPreparation(s, "CANCELLED")) ELSE s
<1>1. t \in State
  BY DropType, DiscardPlanningType DEF Terminal
<1> HIDE DEF t
<1>2. [AppendTombstone(t, t.fin, "CANCELLED") EXCEPT !.fin = NoAction] \in State
  BY <1>1, AppendTombstoneType, Fields, NoneTyped, Set_fin DEF Terminal
<1>3. WithdrawDesktopAdmission(s) \in
        {t, [AppendTombstone(t, t.fin, "CANCELLED") EXCEPT !.fin = NoAction]}
  BY DEF WithdrawDesktopAdmission, t
<1> QED
  BY <1>1, <1>2, <1>3

\* DrmHintReceived gets a decision.
LEMMA DrmHintReceivedType ==
    \A s \in State : \A g, dt \in Nat : DrmHintReceived(s, g, dt) \in Decisions
<1> SUFFICES ASSUME NEW s \in State, NEW g \in Nat, NEW dt \in Nat
             PROVE DrmHintReceived(s, g, dt) \in Decisions
  OBVIOUS
<1> DEFINE t == WithdrawDesktopAdmission(Disturbed(s, g, dt))
           restless == {"QUIESCENT", "VERIFYING", "UNSUPPORTED", "FINALIZE_PENDING"}
           phase == IF t.phase \in restless THEN "DISCOVER_FAST" ELSE t.phase
<1>1. t \in State
  BY DisturbedType, WithdrawDesktopType
<1> HIDE DEF t
<1>2. phase \in Phases
  BY <1>1, Fields, Named
<1>3. DrmHintReceived(s, g, dt) \in {NoOp(s), Schedule([t EXCEPT !.phase = phase], "now", {"observe"})}
  BY DEF DrmHintReceived, t
<1> HIDE DEF phase
<1>4. [t EXCEPT !.phase = phase] \in State
  BY <1>1, <1>2, Set_phase
<1> QED
  BY <1>3, <1>4, NoOpType, PlainSchedule DEF Delays, Effects

\* TimerFired gets a decision.
LEMMA TimerFiredType == \A s \in State : TimerFired(s) \in Decisions
  BY Set_timer, PlainDecision DEF TimerFired, Delays, Effects

\* Withdrawing the admission that was offered leaves a state.
LEMMA WithdrawOfferedType == \A s \in State : \A id : WithdrawOffered(s, id) \in State
  BY DropType, DiscardPlanningType, Named, Set_phase DEF WithdrawOffered, Terminal

\* AdmissionDirtied gets a decision.
LEMMA AdmissionDirtiedType ==
    \A s \in State : \A id, g, dt \in Nat : AdmissionDirtied(s, id, g, dt) \in Decisions
  BY DisturbedType, WithdrawOfferedType, NoOpType, PlainSchedule DEF AdmissionDirtied, Delays, Effects

\* A dispatched action is an action.
LEMMA AsDispatchedType == \A a \in Action : AsDispatched(a) \in Action
  BY SetActionLc, SetActionUnit DEF AsDispatched, Lifecycles, InFlight

\* The acknowledgement of a dispatch gets a decision.
LEMMA DispatchedType == \A s \in State : \A id \in Nat : Dispatched(s, id) \in Decisions
<1> SUFFICES ASSUME NEW s \in State, NEW id \in Nat PROVE Dispatched(s, id) \in Decisions
  OBVIOUS
<1>1. /\ AsDispatched(s.probe) \in Action /\ AsDispatched(s.app) \in Action
      /\ AsDispatched(s.prep) \in Action /\ AsDispatched(s.fin) \in Action
  BY AsDispatchedType, Fields
<1>2. /\ s.probed \cup {AttemptKey(s.probe)} \in SUBSET AttemptKeys
      /\ s.applied \cup {AttemptKey(s.app)} \in SUBSET AttemptKeys
  BY Fields, AttemptKeyType
<1>3. [s EXCEPT !.phase = "PROBING", !.probe = AsDispatched(s.probe),
                !.probed = s.probed \cup {AttemptKey(s.probe)}, !.timer = "none"] \in State
  BY <1>1, <1>2, Named, Set_phase, Set_probe, Set_probed, Set_timer
<1>4. [s EXCEPT !.phase = "APPLYING", !.app = AsDispatched(s.app),
                !.applied = s.applied \cup {AttemptKey(s.app)}, !.timer = "none"] \in State
  BY <1>1, <1>2, Named, Set_phase, Set_app, Set_applied, Set_timer
<1>5. [s EXCEPT !.prepState = "PREPARING", !.prep = AsDispatched(s.prep)] \in State
  BY <1>1, Set_prepState, Set_prep DEF PrepStates
<1>6. [s EXCEPT !.phase = "FINALIZING", !.fin = AsDispatched(s.fin)] \in State
  BY <1>1, Named, Set_phase, Set_fin
<1> QED
  BY <1>3, <1>4, <1>5, <1>6, NoOpType, PlainDecision DEF Dispatched

\* Failing the action with an id leaves a state.
LEMMA FailActionType ==
    \A s \in State : \A id \in Nat : \A lc \in Failed : FailAction(s, id, lc) \in State
<1> SUFFICES ASSUME NEW s \in State, NEW id \in Nat, NEW lc \in Failed PROVE FailAction(s, id, lc) \in State
  OBVIOUS
<1> DEFINE t == [s EXCEPT !.tombs = {x \in @ : x.id # id} \cup {[id |-> id, lc |-> lc]}]
<1>1. t \in State
  BY Fields, Set_tombs DEF Terminal
<1> HIDE DEF t
<1>2. lc \in Lifecycles
  BY DEF Lifecycles, Terminal
<1>3. [t EXCEPT !.planState = "PLAN_FAILED", !.planning.lc = lc] \in State
  <2>1. [t EXCEPT !.planState = "PLAN_FAILED"] \in State
    BY <1>1, Named, Set_planState
  <2> QED BY <1>2, <2>1, SetLc
<1>4. [t EXCEPT !.phase = "PROBE_FAILED", !.probe.lc = lc] \in State
  <2>1. [t EXCEPT !.phase = "PROBE_FAILED"] \in State
    BY <1>1, Named, Set_phase
  <2> QED BY <1>2, <2>1, SetLc
<1>5. [t EXCEPT !.phase = "APPLY_FAILED", !.app.lc = lc] \in State
  <2>1. [t EXCEPT !.phase = "APPLY_FAILED"] \in State
    BY <1>1, Named, Set_phase
  <2> QED BY <1>2, <2>1, SetLc
<1>6. [t EXCEPT !.prepState = "PREPARE_FAILED", !.prep.lc = lc] \in State
  <2>1. [t EXCEPT !.prepState = "PREPARE_FAILED"] \in State
    BY <1>1, Set_prepState DEF PrepStates
  <2> QED BY <1>2, <2>1, SetLc
<1>7. [t EXCEPT !.phase = "FINALIZE_FAILED", !.fin.lc = lc] \in State
  <2>1. [t EXCEPT !.phase = "FINALIZE_FAILED"] \in State
    BY <1>1, Named, Set_phase
  <2> QED BY <1>2, <2>1, SetLc
<1> QED
  BY <1>3, <1>4, <1>5, <1>6, <1>7 DEF FailAction, t

\* DispatchRejected gets a decision.
LEMMA DispatchRejectedType == \A s \in State : \A id \in Nat : DispatchRejected(s, id) \in Decisions
  BY FailActionType, NoOpType, PlainSchedule DEF DispatchRejected, Failed, Delays

\* What a worker's outcome entombs its action with is terminal.
LEMMA EndedType == \A x \in Outcomes : EndedLifecycle(x) \in Terminal
  BY DEF Outcomes, EndedLifecycle, Terminal, Failed

\* ProbeFinished gets a decision.
LEMMA ProbeFinishedType ==
    \A s \in State : \A id \in Nat : \A x \in Outcomes : ProbeFinished(s, id, x) \in Decisions
<1> SUFFICES ASSUME NEW s \in State, NEW id \in Nat, NEW x \in Outcomes
             PROVE ProbeFinished(s, id, x) \in Decisions
  OBVIOUS
<1>1. [FailAction(s, id, "FAILED") EXCEPT !.probe.after = None] \in State
  BY FailActionType, SetAfter DEF Failed
<1>2. DropProbe(s, EndedLifecycle(x)) \in State
  BY DropType, EndedType
<1> QED
  BY <1>1, <1>2, NoOpType, PlainSchedule DEF ProbeFinished, Delays, Effects

\* ApplicationFinished gets a decision.
LEMMA ApplicationFinishedType ==
    \A s \in State : \A id \in Nat : \A x \in Outcomes : ApplicationFinished(s, id, x) \in Decisions
<1> SUFFICES ASSUME NEW s \in State, NEW id \in Nat, NEW x \in Outcomes
             PROVE ApplicationFinished(s, id, x) \in Decisions
  OBVIOUS
<1>1. [FailAction(s, id, "FAILED") EXCEPT !.app.after = None] \in State
  BY FailActionType, SetAfter DEF Failed
<1>2. [DropApplication(s, EndedLifecycle(x)) EXCEPT
          !.verify = IF x = "SUCCEEDED" THEN -1 ELSE @] \in State
  BY DropType, EndedType, Fields, NoneTyped, Set_verify
<1> QED
  BY <1>1, <1>2, NoOpType, PlainSchedule DEF ApplicationFinished, Delays, Effects

\* A desktop worker that succeeded awaits its confirmation in a state.
LEMMA ResultPendingType ==
    \A s \in State : /\ [s EXCEPT !.prep.lc = "RESULT_PENDING", !.prep.after = None] \in State
                     /\ [s EXCEPT !.fin.lc = "RESULT_PENDING", !.fin.after = None,
                                  !.phase = "FINALIZING"] \in State
<1> SUFFICES ASSUME NEW s \in State
             PROVE /\ [s EXCEPT !.prep.lc = "RESULT_PENDING", !.prep.after = None] \in State
                   /\ [s EXCEPT !.fin.lc = "RESULT_PENDING", !.fin.after = None,
                                !.phase = "FINALIZING"] \in State
  OBVIOUS
<1>1. [s EXCEPT !.prep.lc = "RESULT_PENDING"] \in State /\ [s EXCEPT !.fin.lc = "RESULT_PENDING"] \in State
  BY SetLc DEF Lifecycles, InFlight
<1>2. /\ [s EXCEPT !.prep.lc = "RESULT_PENDING", !.prep.after = None] \in State
      /\ [s EXCEPT !.fin.lc = "RESULT_PENDING", !.fin.after = None] \in State
  BY <1>1, SetAfter
<1> QED
  BY <1>2, Named, Set_phase

\* PreparationFinished gets a decision.
LEMMA PreparationFinishedType ==
    \A s \in State : \A id \in Nat : \A x \in Outcomes : \A h \in BOOLEAN :
        PreparationFinished(s, id, x, h) \in Decisions
<1> SUFFICES ASSUME NEW s \in State, NEW id \in Nat, NEW x \in Outcomes, NEW h \in BOOLEAN
             PROVE PreparationFinished(s, id, x, h) \in Decisions
  OBVIOUS
<1>1. [FailAction(s, id, "FAILED") EXCEPT !.prep.after = None] \in State
  BY FailActionType, SetAfter DEF Failed
<1>2. [DropPreparation(s, "CANCELLED") EXCEPT !.phase = "DISCOVER_FAST"] \in State
  BY DropType, Named, Set_phase DEF Terminal
<1> QED
  BY <1>1, <1>2, ResultPendingType, NoOpType, PlainSchedule DEF PreparationFinished, Delays, Effects

\* FinalizationFinished gets a decision.
LEMMA FinalizationFinishedType ==
    \A s \in State : \A id \in Nat : \A x \in Outcomes : FinalizationFinished(s, id, x) \in Decisions
<1> SUFFICES ASSUME NEW s \in State, NEW id \in Nat, NEW x \in Outcomes
             PROVE FinalizationFinished(s, id, x) \in Decisions
  OBVIOUS
<1>1. [FailAction(s, id, "FAILED") EXCEPT !.fin.after = None] \in State
  BY FailActionType, SetAfter DEF Failed
<1>2. [DropFinalization(s, "CANCELLED") EXCEPT !.verify = -1] \in State
  BY DropType, NoneTyped, Set_verify DEF Terminal
<1> QED
  BY <1>1, <1>2, ResultPendingType, NoOpType, PlainSchedule DEF FinalizationFinished, Delays, Effects

\* _finished decides every outcome of every action.
LEMMA FinishedType ==
    \A s \in State : \A id \in Nat : \A x \in Outcomes : \A h \in BOOLEAN :
        Finished(s, id, x, h) \in Decisions
  BY ProbeFinishedType, ApplicationFinishedType, PreparationFinishedType, FinalizationFinishedType,
     NoOpType DEF Finished

-----------------------------------------------------------------------------
(* Reducer: plans, stops and starts. *)

\* PlanRequested gets a decision.
LEMMA PlanRequestedType == \A s \in State : \A id \in Nat : PlanRequested(s, id) \in Decisions
<1> SUFFICES ASSUME NEW s \in State, NEW id \in Nat PROVE PlanRequested(s, id) \in Decisions
  OBVIOUS
<1>1. [s EXCEPT !.planState = "PLANNING"] \in State
  BY Named, Set_planState
<1>2. [s EXCEPT !.planState = "PLANNING", !.planning.lc = "DISPATCHED"] \in State
  BY <1>1, SetLc DEF Lifecycles, InFlight
<1> QED
  BY <1>2, NoOpType, PlainDecision DEF PlanRequested

\* PlanCompleted gets a decision.
LEMMA PlanCompletedType == \A s \in State : \A id \in Nat : PlanCompleted(s, id) \in Decisions
<1> SUFFICES ASSUME NEW s \in State, NEW id \in Nat PROVE PlanCompleted(s, id) \in Decisions
  OBVIOUS
<1>1. AppendTombstone(s, s.planning, "COMPLETED") \in State
  BY AppendTombstoneType, Fields DEF Terminal
<1>2. [AppendTombstone(s, s.planning, "COMPLETED") EXCEPT !.planState = "PLAN_READY"] \in State
  BY <1>1, Named, Set_planState
<1>3. [AppendTombstone(s, s.planning, "COMPLETED") EXCEPT
         !.planState = "PLAN_READY", !.planning.lc = "COMPLETED"] \in State
  BY <1>2, SetLc DEF Lifecycles, Terminal
<1> QED
  BY <1>3, NoOpType, PlainSchedule DEF PlanCompleted, Delays, Effects

\* PlanFailed gets a decision.
LEMMA PlanFailedType ==
    \A s \in State : \A id \in Nat : \A retryable \in BOOLEAN : PlanFailed(s, id, retryable) \in Decisions
<1> SUFFICES ASSUME NEW s \in State, NEW id \in Nat, NEW retryable \in BOOLEAN
             PROVE PlanFailed(s, id, retryable) \in Decisions
  OBVIOUS
<1>1. [DiscardPlanning(s) EXCEPT !.phase = "DISCOVER_FAST", !.verify = -1] \in State
  BY DiscardPlanningType, Named, NoneTyped, Set_phase, Set_verify
<1>2. FailAction(s, id, "FAILED") \in State
  BY FailActionType DEF Failed
<1> QED
  BY <1>1, <1>2, NoOpType, PlainSchedule DEF PlanFailed, Delays

\* An action being stopped is an action.
LEMMA AsStoppingType ==
    \A a \in Action : \A lc \in {"UNKNOWN", "TIMED_OUT"} : AsStopping(a, lc) \in Action
<1> SUFFICES ASSUME NEW a \in Action, NEW lc \in {"UNKNOWN", "TIMED_OUT"} PROVE AsStopping(a, lc) \in Action
  OBVIOUS
<1> DEFINE after == IF a.lc = "STOPPING" THEN a.after ELSE lc
<1>1. after \in Failed \cup {None}
  BY DEF Action, Failed
<1> HIDE DEF after
<1>2. [a EXCEPT !.after = after] \in Action
  BY <1>1, SetActionAfter
<1>3. [a EXCEPT !.after = after, !.lc = "STOPPING"] \in Action
  BY <1>2, SetActionLc DEF Lifecycles, InFlight
<1> QED
  BY <1>3 DEF AsStopping, after

\* _stop_uncertain_mutator returns a decision.
LEMMA StopUncertainType ==
    \A s \in State : \A id \in Nat : \A lc \in {"UNKNOWN", "TIMED_OUT"} :
        StopUncertainMutator(s, id, lc) \in Decisions
<1> SUFFICES ASSUME NEW s \in State, NEW id \in Nat, NEW lc \in {"UNKNOWN", "TIMED_OUT"}
             PROVE StopUncertainMutator(s, id, lc) \in Decisions
  OBVIOUS
<1> DEFINE fx == IF Stopping(s) THEN {} ELSE {"stop"}
<1>1. fx \in SUBSET (Effects \ {"dispatch"})
  BY DEF Effects
<1> HIDE DEF fx
<1>2. /\ AsStopping(s.probe, lc) \in Action /\ AsStopping(s.app, lc) \in Action
      /\ AsStopping(s.prep, lc) \in Action /\ AsStopping(s.fin, lc) \in Action
  BY AsStoppingType, Fields
<1>3. /\ [s EXCEPT !.phase = "PROBING", !.probe = AsStopping(s.probe, lc)] \in State
      /\ [s EXCEPT !.phase = "APPLYING", !.app = AsStopping(s.app, lc)] \in State
      /\ [s EXCEPT !.phase = "FINALIZE_STOPPING", !.fin = AsStopping(s.fin, lc), !.verify = -1] \in State
  BY <1>2, Named, NoneTyped, Set_phase, Set_probe, Set_app, Set_fin, Set_verify
<1>4. [s EXCEPT !.phase = "DISCOVER_FAST", !.prepState = "PREPARE_STOPPING",
                !.prep = AsStopping(s.prep, lc), !.verify = -1] \in State
  BY <1>2, Named, NoneTyped, Set_phase, Set_prepState, Set_prep, Set_verify DEF PrepStates
<1> QED
  BY <1>1, <1>3, <1>4, PlainSchedule DEF StopUncertainMutator, fx, Delays

\* WorkerStatusUnknown and WorkerTimedOut get a decision.
LEMMA WorkerUncertainType ==
    \A s \in State : \A id \in Nat : \A lc \in {"UNKNOWN", "TIMED_OUT"} :
        WorkerUncertain(s, id, lc) \in Decisions
  BY StopUncertainType, NoOpType DEF WorkerUncertain

\* A completion found by a stop is resumed by a decision.
LEMMA ResumeCompletionType == \A s \in State : \A id \in Nat : ResumeCompletion(s, id) \in Decisions
<1> SUFFICES ASSUME NEW s \in State, NEW id \in Nat PROVE ResumeCompletion(s, id) \in Decisions
  OBVIOUS
<1> DEFINE resumed(a) == [a EXCEPT !.lc = "DISPATCHED", !.after = None]
<1>1. /\ resumed(s.probe) \in Action /\ resumed(s.app) \in Action
      /\ resumed(s.prep) \in Action /\ resumed(s.fin) \in Action
  BY Fields, SetActionLc, SetActionAfter DEF Lifecycles, InFlight
<1> HIDE DEF resumed
<1>2. /\ [s EXCEPT !.phase = "PROBING", !.probe = resumed(s.probe)] \in State
      /\ [s EXCEPT !.phase = "APPLYING", !.app = resumed(s.app)] \in State
      /\ [s EXCEPT !.phase = "FINALIZING", !.fin = resumed(s.fin)] \in State
      /\ [s EXCEPT !.prepState = "PREPARING", !.prep = resumed(s.prep)] \in State
  BY <1>1, Named, Set_phase, Set_prepState, Set_probe, Set_app, Set_prep, Set_fin DEF PrepStates
<1>3. \E t \in State : ResumeCompletion(s, id) = Finished(t, id, "SUCCEEDED", TRUE)
  BY <1>2 DEF ResumeCompletion, resumed
<1> QED
  BY <1>3, FinishedType DEF Outcomes

\* A failure found by a stop gets a decision.
LEMMA AcknowledgeFailureType ==
    \A s \in State : \A id \in Nat : \A lc \in Failed : AcknowledgeFailure(s, id, lc) \in Decisions
<1> SUFFICES ASSUME NEW s \in State, NEW id \in Nat, NEW lc \in Failed
             PROVE AcknowledgeFailure(s, id, lc) \in Decisions
  OBVIOUS
<1> DEFINE failed(a) == [a EXCEPT !.lc = lc, !.after = None]
           t == FailAction(s, id, lc)
<1>1. t \in State
  BY FailActionType
<1> HIDE DEF t
<1>2. lc \in Lifecycles
  BY DEF Lifecycles, Terminal
<1>3. /\ failed(t.probe) \in Action /\ failed(t.app) \in Action
      /\ failed(t.prep) \in Action /\ failed(t.fin) \in Action
  BY <1>1, <1>2, Fields, SetActionLc, SetActionAfter
<1> HIDE DEF failed
<1>4. /\ [t EXCEPT !.probe = failed(t.probe)] \in State
      /\ [t EXCEPT !.app = failed(t.app)] \in State
      /\ [t EXCEPT !.prep = failed(t.prep), !.phase = "DISCOVER_FAST"] \in State
      /\ [t EXCEPT !.fin = failed(t.fin)] \in State
  BY <1>1, <1>3, Named, Set_phase, Set_probe, Set_app, Set_prep, Set_fin
<1>5. \E u \in State : AcknowledgeFailure(s, id, lc) \in {Schedule(u, "health", {}),
                                                          Schedule(u, "now", {"observe"})}
  BY <1>4 DEF AcknowledgeFailure, t, failed
<1> QED
  BY <1>5, PlainSchedule DEF Delays, Effects

\* A cancelled action gets a decision.
LEMMA AcknowledgeCancelledType ==
    \A s \in State : \A id \in Nat : AcknowledgeCancelled(s, id) \in Decisions
<1> SUFFICES ASSUME NEW s \in State, NEW id \in Nat PROVE AcknowledgeCancelled(s, id) \in Decisions
  OBVIOUS
<1>1. /\ DropProbe(s, "CANCELLED") \in State
      /\ DropApplication(s, "CANCELLED") \in State
      /\ [DropPreparation(s, "CANCELLED") EXCEPT !.phase = "DISCOVER_FAST"] \in State
      /\ [DropFinalization(s, "CANCELLED") EXCEPT !.verify = -1] \in State
  BY DropType, Named, NoneTyped, Set_phase, Set_verify DEF Terminal
<1>2. \E t \in State : \E fx \in {{"discard", "observe"}, {"observe"}} :
        AcknowledgeCancelled(s, id) = Schedule(t, "now", fx)
  BY <1>1 DEF AcknowledgeCancelled
<1> QED
  BY <1>2, PlainSchedule DEF Delays, Effects

\* WorkerCancellationAcknowledged gets a decision.
LEMMA CancellationAcknowledgedType ==
    \A s \in State : \A id \in Nat : \A lc \in Terminal :
        WorkerCancellationAcknowledged(s, id, lc) \in Decisions
  BY NoOpType, ResumeCompletionType, AcknowledgeFailureType, AcknowledgeCancelledType
  DEF WorkerCancellationAcknowledged

\* ControllerStarted gets a decision.
LEMMA ControllerStartedType == \A s \in State : ControllerStarted(s) \in Decisions
<1> SUFFICES ASSUME NEW s \in State PROVE ControllerStarted(s) \in Decisions
  OBVIOUS
<1>1. [DiscardPlanning(DropPreparation(s, "CANCELLED")) EXCEPT
         !.phase = "DISCOVER_FAST", !.verify = -1] \in State
  BY DropType, DiscardPlanningType, Named, NoneTyped, Set_phase, Set_verify DEF Terminal
<1>2. [s EXCEPT !.phase = "DISCOVER_FAST", !.fin = NoAction, !.verify = -1] \in State
  BY Named, NoneTyped, Set_phase, Set_fin, Set_verify
<1> QED
  BY <1>1, <1>2, ClearProofType, PlainSchedule DEF ControllerStarted, Delays, Effects

\* State(): the defaults are a state.
LEMMA InitialStateType == InitialState \in State
  BY NoneTyped, Named, BoundsAssumption DEF InitialState, State, PrepStates

\* BootChanged gets a decision.
LEMMA BootChangedType == \A s \in State : BootChanged(s) \in Decisions
<1> SUFFICES ASSUME NEW s \in State PROVE BootChanged(s) \in Decisions
  OBVIOUS
<1>1. [InitialState EXCEPT !.timer = "now", !.required = TRUE, !.epoch = s.epoch, !.seq = s.seq] \in State
  BY InitialStateType, Fields, Set_timer, Set_required, Set_epoch, Set_seq DEF Delays
<1> QED
  BY <1>1, PlainDecision DEF BootChanged, Effects

\* What survives a session is a state.
LEMMA NewSessionType == \A s \in State : NewSessionState(s) \in State
  BY InitialStateType, Fields, Set_required, Set_seq DEF NewSessionState

-----------------------------------------------------------------------------
(* Recovery. *)

\* The parts of a decision have their types.
LEMMA DecisionParts == \A d \in Decisions : d.st \in State /\ d.fx \in SUBSET Effects
  BY DEF Decisions

\* A result that is not uncertain is one of the three outcomes of a finished event.
LEMMA EventOutcomeType ==
    \A lc \in Terminal \ {"UNKNOWN", "TIMED_OUT"} : EventOutcome(lc) \in Outcomes
  BY DEF EventOutcome, Terminal, Failed, Outcomes

\* _apply_verified_result leaves a state.
LEMMA ApplyVerifiedType ==
    \A s \in State : \A u \in Units : u.outcome # None => ApplyVerifiedResult(s, u) \in State
<1> SUFFICES ASSUME NEW s \in State, NEW u \in Units, u.outcome # None
             PROVE ApplyVerifiedResult(s, u) \in State
  OBVIOUS
<1>1. u.id \in Nat /\ u.outcome \in Terminal
  BY DEF Units
<1>2. \A t \in State : /\ Dispatched(t, u.id).st \in State
                       /\ WorkerUncertain(t, u.id, "UNKNOWN").st \in State
                       /\ WorkerCancellationAcknowledged(t, u.id, u.outcome).st \in State
  BY <1>1, DispatchedType, WorkerUncertainType, CancellationAcknowledgedType, DecisionParts
<1>3. \A t \in State : u.outcome \notin {"UNKNOWN", "TIMED_OUT"} =>
                           Finished(t, u.id, EventOutcome(u.outcome), TRUE).st \in State
  BY <1>1, EventOutcomeType, FinishedType, DecisionParts
<1>4. \A t \in State : ReplayEnd(t, u) \in State
  BY <1>2, <1>3 DEF ReplayEnd
<1> QED
  BY <1>2, <1>4 DEF ApplyVerifiedResult

\* Reconciling a saved state with the units found leaves a state.
LEMMA ReconciledType == \A s \in State : \A us \in SUBSET Units : Reconciled(s, us) \in State
<1> SUFFICES ASSUME NEW s \in State, NEW us \in SUBSET Units PROVE Reconciled(s, us) \in State
  OBVIOUS
<1>1. Missed(s, us) # {} => (CHOOSE u \in Missed(s, us) : TRUE) \in Missed(s, us)
  OBVIOUS
<1>2. \A u \in Missed(s, us) : u \in Units /\ u.outcome # None
  BY DEF Missed, Results
<1> QED
  BY <1>1, <1>2, ApplyVerifiedType DEF Reconciled

-----------------------------------------------------------------------------
(* What a transition does to the mutators. *)

Kinds == {"probe", "app", "prep", "fin"}
Nobody == -1    \* the id of no action

Busy(a) == a.lc = "ADMITTED" \/ a.lc \in InFlight
Live(a) == a.lc \in {"DISPATCHED", "STOPPING"}

\* An id goes with an action, at most one mutator is busy, and no other has its id.
Numbered(s) == \A k \in Kinds : Held(s[k]) <=> s[k].id # 0

Ids(s) ==
    /\ Numbered(s)
    /\ \A k \in Kinds : Busy(s[k]) => s[k].id <= s.seq
    /\ \A j, k \in Kinds : j # k /\ Busy(s[k]) => ~Busy(s[j]) /\ s[j].id # s[k].id

\* The checks of a saved state exclude every other pair of busy mutators.
Apart(s) == ~(Busy(s.app) /\ Busy(s.prep))

\* The phase or preparation state that names a busy mutator.
Placed(s) ==
    /\ s.probe.lc = "ADMITTED" <=> s.phase = "PROBE_PENDING"
    /\ s.probe.lc \in InFlight <=> s.phase = "PROBING"
    /\ s.app.lc = "ADMITTED" <=> s.phase = "APPLY_PENDING"
    /\ s.app.lc \in InFlight <=> s.phase = "APPLYING"
    /\ s.fin.lc = "ADMITTED" <=> s.phase = "FINALIZE_PENDING"
    /\ s.fin.lc \in {"DISPATCHED", "RESULT_PENDING"} <=> s.phase = "FINALIZING"
    /\ s.fin.lc = "STOPPING" <=> s.phase = "FINALIZE_STOPPING"
    /\ s.prep.lc = "ADMITTED" <=> s.prepState = "PREPARE_PENDING"
    /\ s.prep.lc \in {"DISPATCHED", "RESULT_PENDING"} <=> s.prepState = "PREPARING"
    /\ s.prep.lc = "STOPPING" <=> s.prepState = "PREPARE_STOPPING"
    /\ Held(s.prep) => s.planState = "PLAN_READY"

\* How a lifecycle goes on without news of the worker: what is in flight may be
\* stopped, and a result is confirmed or fails to be.
Passes(p, q) ==
    \/ q = p
    \/ p \in InFlight /\ q = "STOPPING"
    \/ p = "RESULT_PENDING" /\ q \in {"COMPLETED", "FAILED"}

\* What a mutator may become by a transition about the action with id x, where
\* an id above n is a new one: what is held was held or is new, what is admitted
\* was admitted or is new, what is live stays so unless it is the action, and
\* so with every lifecycle.
Follows(a, b, n, x) ==
    /\ Held(b) => (Held(a) /\ b.id = a.id) \/ b.id > n
    /\ ~Held(b) => b.id = 0 \/ (~Held(a) /\ b.id = a.id)
    /\ b.lc = "ADMITTED" => (a.lc = "ADMITTED" /\ b.id = a.id) \/ b.id > n
    /\ Live(a) /\ a.id # x => Live(b) /\ b.id = a.id
    /\ Held(b) /\ b.id # x => \/ b.id = a.id /\ Passes(a.lc, b.lc)
                              \/ b.id > n /\ b.lc = "ADMITTED"

Advances(s, t, x) ==
    /\ s.seq <= t.seq
    /\ \A k \in Kinds : Follows(s[k], t[k], s.seq, x)
    /\ Apart(s) => Apart(t)

\* The same for a transition that admits nothing.
Descends(a, b, x) ==
    /\ Held(b) => Held(a) /\ b.id = a.id
    /\ ~Held(b) => b.id = 0 \/ (~Held(a) /\ b.id = a.id)
    /\ Busy(b) => Busy(a)
    /\ b.lc = "ADMITTED" => a.lc = "ADMITTED"
    /\ Live(a) /\ a.id # x => Live(b)
    /\ Held(b) /\ b.id # x => Passes(a.lc, b.lc)

Evolves(s, t, x) == t.seq = s.seq /\ \A k \in Kinds : Descends(s[k], t[k], x)

\* Every mutator is kept or dropped, or is a new one of the given kinds.
Inherits(s, t, new) ==
    /\ s.seq <= t.seq
    /\ \A k \in Kinds : \/ t[k] = s[k]
                        \/ t[k] = NoAction
                        \/ k \in new /\ t[k].lc = "ADMITTED" /\ t[k].id > s.seq

Calm(s) == \A k \in Kinds : ~Live(s[k])
Still(s) == \A k \in Kinds : ~Busy(s[k])

Untouched(s, t) == t.seq = s.seq /\ \A k \in Kinds : t[k] = s[k]

Framed(s, t) ==
    /\ Untouched(s, t)
    /\ t.phase = s.phase /\ t.prepState = s.prepState /\ t.planState = s.planState

Replaces(s, t, k, a) ==
    t.seq = s.seq /\ t[k] = a /\ \A j \in Kinds \ {k} : t[j] = s[j]

-----------------------------------------------------------------------------
(* The relations. *)

\* A state has the fields the lemmas read.
LEMMA Shape ==
    \A s \in State : {"probe", "app", "prep", "fin", "seq", "phase", "prepState", "planState"}
                        \subseteq DOMAIN s
  BY DEF State

\* The mutators of a state are actions, with a number for an id.
LEMMA KindsTyped == \A s \in State : s.seq \in Nat /\ \A k \in Kinds : s[k] \in Action /\ s[k].id \in Nat
<1>1. \A s \in State : s.seq \in Nat /\ \A k \in Kinds : s[k] \in Action
  BY Fields DEF Kinds
<1>2. \A a \in Action : a.id \in Nat
  BY DEF Action
<1> QED
  BY <1>1, <1>2

\* The kinds, one by one.
LEMMA EachKind ==
    \A s, t : /\ Untouched(s, t) => /\ t.probe = s.probe /\ t.app = s.app
                                    /\ t.prep = s.prep /\ t.fin = s.fin
              /\ {"probe", "app", "prep", "fin"} = Kinds
  BY DEF Untouched, Kinds

\* Lifecycles that are busy, live or not.
LEMMA Stages ==
    \A a : /\ Live(a) => Busy(a)
           /\ Busy(a) => Held(a)
           /\ a.lc \in Terminal => ~Busy(a) /\ Held(a)
           /\ a.lc = "ADMITTED" => ~Live(a) /\ Busy(a)
  BY DEF Live, Busy, Held, InFlight, Terminal, Failed

\* NoAction is no mutator.
LEMMA NoActionStage == ~Held(NoAction) /\ ~Busy(NoAction) /\ ~Live(NoAction) /\ NoAction.id = 0 /\ NoAction.lc # "ADMITTED"
  BY DEF NoAction, Held, Busy, Live, InFlight

\* Lifecycles go on in several steps as in one.
LEMMA PassesOn ==
    /\ \A p : Passes(p, p)
    /\ \A p, q, r : Passes(p, q) /\ Passes(q, r) => Passes(p, r)
    /\ \A r : Passes("ADMITTED", r) => r = "ADMITTED"
    /\ \A a, b : Passes(a.lc, b.lc) /\ Held(b) => Held(a)
  BY DEF Passes, InFlight, Held

\* A transition that touches no mutator.
LEMMA UntouchedEvolves == \A s, t, x : Untouched(s, t) => Evolves(s, t, x)
  BY PassesOn DEF Untouched, Evolves, Descends

\* A transition that admits nothing is one that may.
LEMMA EvolvesAdvances ==
    \A s \in State : \A t, x : Evolves(s, t, x) => Advances(s, t, x)
<1> SUFFICES ASSUME NEW s \in State, NEW t, NEW x, Evolves(s, t, x) PROVE Advances(s, t, x)
  OBVIOUS
<1>1. s.seq <= t.seq
  BY KindsTyped DEF Evolves
<1>2. ASSUME NEW k \in Kinds PROVE Follows(s[k], t[k], s.seq, x) /\ (Busy(t[k]) => Busy(s[k]))
  BY Stages DEF Evolves, Descends, Follows
<1>3. Apart(s) => Apart(t)
  BY <1>2 DEF Apart, Kinds
<1> QED
  BY <1>1, <1>2, <1>3 DEF Advances

\* Transitions about the same action compose.
LEMMA EvolvesOn == \A s, t, u, x : Evolves(s, t, x) /\ Evolves(t, u, x) => Evolves(s, u, x)
  BY Stages, PassesOn DEF Evolves, Descends

\* Those that may admit compose as well: ids only grow.
LEMMA AdvancesOn ==
    \A s, t, u \in State : \A x : Advances(s, t, x) /\ Advances(t, u, x) => Advances(s, u, x)
<1> SUFFICES ASSUME NEW s \in State, NEW t \in State, NEW u \in State, NEW x,
                    Advances(s, t, x), Advances(t, u, x)
             PROVE Advances(s, u, x)
  OBVIOUS
<1>1. s.seq \in Nat /\ t.seq \in Nat /\ u.seq \in Nat /\ s.seq <= t.seq /\ t.seq <= u.seq
  BY KindsTyped DEF Advances
<1>2. ASSUME NEW k \in Kinds PROVE Follows(s[k], u[k], s.seq, x)
  <2>1. Follows(s[k], t[k], s.seq, x) /\ Follows(t[k], u[k], t.seq, x)
    BY DEF Advances
  <2>2. s[k].id \in Nat /\ t[k].id \in Nat /\ u[k].id \in Nat
    BY KindsTyped
  <2>3. Live(t[k]) => Held(t[k])
    BY Stages
  <2>4. /\ Held(u[k]) => (Held(s[k]) /\ u[k].id = s[k].id) \/ u[k].id > s.seq
        /\ ~Held(u[k]) => u[k].id = 0 \/ (~Held(s[k]) /\ u[k].id = s[k].id)
        /\ u[k].lc = "ADMITTED" => (s[k].lc = "ADMITTED" /\ u[k].id = s[k].id) \/ u[k].id > s.seq
        /\ Live(s[k]) /\ s[k].id # x => Live(u[k]) /\ u[k].id = s[k].id
    BY <1>1, <2>1, <2>2, <2>3 DEF Follows
  <2>5. ASSUME Held(u[k]), u[k].id # x
        PROVE  \/ u[k].id = s[k].id /\ Passes(s[k].lc, u[k].lc)
               \/ u[k].id > s.seq /\ u[k].lc = "ADMITTED"
    <3>1. CASE u[k].id > t.seq /\ u[k].lc = "ADMITTED"
      BY <1>1, <2>2, <3>1
    <3>2. CASE u[k].id = t[k].id /\ Passes(t[k].lc, u[k].lc)
      <4>1. Held(t[k]) /\ t[k].id # x
        BY <2>5, <3>2, PassesOn
      <4>2. CASE t[k].id = s[k].id /\ Passes(s[k].lc, t[k].lc)
        BY <3>2, <4>2, PassesOn
      <4>3. CASE t[k].id > s.seq /\ t[k].lc = "ADMITTED"
        BY <3>2, <4>3, PassesOn
      <4> QED
        BY <2>1, <4>1, <4>2, <4>3 DEF Follows
    <3> QED
      BY <2>1, <2>5, <3>1, <3>2 DEF Follows
  <2> QED
    BY <2>4, <2>5 DEF Follows
<1> QED
  BY <1>1, <1>2 DEF Advances

\* A transition about no action is one about any.
LEMMA EvolvesAny == \A s \in State : \A t, x : Evolves(s, t, Nobody) => Evolves(s, t, x)
<1> SUFFICES ASSUME NEW s \in State, NEW t, NEW x, Evolves(s, t, Nobody), NEW k \in Kinds
             PROVE Descends(s[k], t[k], x)
  BY DEF Evolves
<1>1. Descends(s[k], t[k], Nobody) /\ s[k].id # Nobody
  BY KindsTyped DEF Evolves, Nobody
<1>2. Held(t[k]) => t[k].id # Nobody
  BY <1>1 DEF Descends
<1> QED
  BY <1>1, <1>2 DEF Descends

\* Dropping mutators when none is live.
LEMMA DropsEvolve ==
    \A s, t, x : Calm(s) /\ t.seq = s.seq /\ (\A k \in Kinds : t[k] = s[k] \/ t[k] = NoAction)
                    => Evolves(s, t, x)
<1> SUFFICES ASSUME NEW s, NEW t, NEW x, Calm(s), t.seq = s.seq, NEW k \in Kinds,
                    t[k] = s[k] \/ t[k] = NoAction
             PROVE Descends(s[k], t[k], x)
  BY DEF Evolves
<1> QED
  BY NoActionStage, PassesOn DEF Calm, Descends

\* Admitting a mutator when none is busy, but not an application and a preparation.
LEMMA InheritsAdvances ==
    \A s \in State : \A t, x, new :
        Still(s) /\ Inherits(s, t, new) /\ ~({"app", "prep"} \subseteq new) => Advances(s, t, x)
<1> SUFFICES ASSUME NEW s \in State, NEW t, NEW x, NEW new,
                    Still(s), Inherits(s, t, new), ~({"app", "prep"} \subseteq new)
             PROVE Advances(s, t, x)
  OBVIOUS
<1>1. ASSUME NEW k \in Kinds PROVE Follows(s[k], t[k], s.seq, x) /\ (Busy(t[k]) => k \in new)
  <2>1. ~Busy(s[k]) /\ ~Live(s[k]) /\ s[k].lc # "ADMITTED"
    BY Stages DEF Still
  <2>2. t[k] = s[k] \/ t[k] = NoAction \/ (k \in new /\ t[k].lc = "ADMITTED" /\ t[k].id > s.seq)
    BY DEF Inherits
  <2> QED
    BY <2>1, <2>2, NoActionStage, PassesOn, Stages DEF Follows
<1>2. Apart(t)
  BY <1>1 DEF Apart, Kinds
<1> QED
  BY <1>1, <1>2 DEF Advances, Inherits

\* Inheritance composes.
LEMMA InheritsOn ==
    \A s, t, u \in State : \A m, n : Inherits(s, t, m) /\ Inherits(t, u, n) => Inherits(s, u, m \cup n)
<1> SUFFICES ASSUME NEW s \in State, NEW t \in State, NEW u \in State, NEW m, NEW n,
                    Inherits(s, t, m), Inherits(t, u, n)
             PROVE Inherits(s, u, m \cup n)
  OBVIOUS
<1>1. s.seq \in Nat /\ t.seq \in Nat /\ u.seq \in Nat /\ s.seq <= t.seq /\ t.seq <= u.seq
  BY KindsTyped DEF Inherits
<1>2. ASSUME NEW k \in Kinds
      PROVE u[k] = s[k] \/ u[k] = NoAction \/ (k \in m \cup n /\ u[k].lc = "ADMITTED" /\ u[k].id > s.seq)
  <2>1. u[k].id \in Nat
    BY KindsTyped
  <2> QED
    BY <1>1, <2>1 DEF Inherits
<1> QED
  BY <1>1, <1>2 DEF Inherits

\* Kept mutators are inherited, and dropped ones.
LEMMA UntouchedInherits ==
    \A s \in State : \A t, new :
        t.seq = s.seq /\ (\A k \in Kinds : t[k] = s[k] \/ t[k] = NoAction) => Inherits(s, t, new)
  BY KindsTyped DEF Inherits

\* Replacing one mutator by a descendant of it.
LEMMA ReplacesEvolves ==
    \A s, t, a, x : \A k \in Kinds : Replaces(s, t, k, a) /\ Descends(s[k], a, x) => Evolves(s, t, x)
  BY PassesOn DEF Replaces, Evolves, Descends

\* A busy mutator may be replaced by a busy one with its id.
LEMMA ReplacesIds ==
    \A s, t, a : \A k \in Kinds :
        Ids(s) /\ Replaces(s, t, k, a) /\ Busy(s[k]) /\ Busy(a) /\ a.id = s[k].id => Ids(t)
<1> SUFFICES ASSUME NEW s, NEW t, NEW a, NEW k \in Kinds, Ids(s), Replaces(s, t, k, a),
                    Busy(s[k]), Busy(a), a.id = s[k].id
             PROVE Ids(t)
  OBVIOUS
<1>1. \A j \in Kinds : t[j].id = s[j].id /\ (Busy(t[j]) <=> Busy(s[j])) /\ (Held(t[j]) <=> Held(s[j]))
  BY Stages DEF Replaces
<1>2. t.seq = s.seq
  BY DEF Replaces
<1> QED
  BY <1>1, <1>2 DEF Ids, Numbered

\* Where no mutator, phase or preparation state changes, all is as it was.
LEMMA FramedSound == \A s, t : Framed(s, t) /\ Ids(s) /\ Placed(s) => Ids(t) /\ Placed(t)
<1> SUFFICES ASSUME NEW s, NEW t, Framed(s, t), Ids(s), Placed(s) PROVE Ids(t) /\ Placed(t)
  OBVIOUS
<1>1. Ids(t)
  BY DEF Framed, Untouched, Ids, Numbered
<1>2. Placed(t)
  BY EachKind DEF Framed, Placed
<1> QED
  BY <1>1, <1>2

-----------------------------------------------------------------------------
(* What an action becomes. *)

\* The lifecycle that is set, and the id that stays.
LEMMA NewLc ==
    \A a \in Action : \A lc, v :
        /\ [a EXCEPT !.lc = lc].lc = lc /\ [a EXCEPT !.lc = lc].id = a.id
        /\ [a EXCEPT !.after = v].lc = a.lc /\ [a EXCEPT !.after = v].id = a.id
        /\ [a EXCEPT !.gen = v].lc = a.lc /\ [a EXCEPT !.gen = v].id = a.id
        /\ [a EXCEPT !.lc = lc, !.after = v].lc = lc /\ [a EXCEPT !.lc = lc, !.after = v].id = a.id
        /\ [a EXCEPT !.after = v, !.lc = lc].lc = lc /\ [a EXCEPT !.after = v, !.lc = lc].id = a.id
        /\ [a EXCEPT !.lc = lc, !.unit = v].lc = lc /\ [a EXCEPT !.lc = lc, !.unit = v].id = a.id
  BY DEF Action

\* An action may be dropped when it is not live or is the one meant.
LEMMA LeavesDescends == \A a, x : ~Live(a) \/ a.id = x => Descends(a, NoAction, x)
  BY NoActionStage DEF Descends

\* An action in flight may be stopped, whatever else is recorded with it.
LEMMA StopsDescends ==
    \A a, b, x : a.lc \in InFlight /\ b.lc = "STOPPING" /\ b.id = a.id => Descends(a, b, x)
  BY DEF Descends, Busy, Live, InFlight, Held, Passes

\* The action that is meant may end, and one whose result was looked at.
LEMMA EndsDescends ==
    \A a, b, x :
        /\ Held(a) /\ b.lc \in Terminal /\ b.id = a.id
        /\ a.id = x \/ (a.lc = "RESULT_PENDING" /\ b.lc \in {"COMPLETED", "FAILED"})
        => Descends(a, b, x)
  BY DEF Descends, Busy, Live, Held, InFlight, Terminal, Failed, Passes

\* The worker's success is recorded for the action it is about.
LEMMA ResultDescends ==
    \A a, b : Live(a) /\ b.lc = "RESULT_PENDING" /\ b.id = a.id => Descends(a, b, a.id)
  BY DEF Descends, Busy, Live, InFlight, Held

\* What keeps its lifecycle and its id is no change.
LEMMA SameDescends == \A a, b, x : b.lc = a.lc /\ b.id = a.id => Descends(a, b, x)
  BY PassesOn DEF Descends, Busy, Live, Held

\* An admitted action may be dispatched, and a stopping one resumed.
LEMMA RunsDescends ==
    \A a, b : Busy(a) /\ b.lc = "DISPATCHED" /\ b.id = a.id => Descends(a, b, a.id)
  BY DEF Descends, Busy, Live, InFlight, Held

-----------------------------------------------------------------------------
(* Policy. *)

\* _schedule and a plain decision touch no mutator.
LEMMA ScheduleTouches ==
    \A s \in State : \A delay, fx : /\ Framed(s, Schedule(s, delay, fx).st)
                                    /\ Decision(s, fx).st = s
  BY Shape DEF Schedule, Decision, Framed, Untouched, Kinds

\* Neither do a tombstone, the clocks, and what is remembered of attempts.
LEMMA RecordsTouch ==
    \A s \in State : \A a, lc, dt, p :
        /\ Framed(s, AppendTombstone(s, a, lc))
        /\ Framed(s, Elapse(s, dt))
        /\ Framed(s, ClearProof(s))
        /\ Framed(s, RearmAchievedApplication(s, p))
        /\ Framed(s, ResetApplicationRecovery(s, p))
  BY Shape DEF AppendTombstone, Elapse, ClearProof, RearmAchievedApplication,
               ResetApplicationRecovery, Framed, Untouched, Kinds

\* Quiescence touches no mutator.
LEMMA QuiesceTouches == \A s \in State : Untouched(s, Quiesce(s).st)
  BY Shape DEF Quiesce, Decision, Untouched, Kinds

\* A discarded plan takes its preparation along.
LEMMA DiscardTouches ==
    \A s \in State : /\ Replaces(s, DiscardPlanning(s), "prep", NoAction)
                     /\ DiscardPlanning(s).phase = s.phase
                     /\ DiscardPlanning(s).prepState = "PREPARE_IDLE"
<1> SUFFICES ASSUME NEW s \in State
             PROVE  /\ Replaces(s, DiscardPlanning(s), "prep", NoAction)
                    /\ DiscardPlanning(s).phase = s.phase
                    /\ DiscardPlanning(s).prepState = "PREPARE_IDLE"
  OBVIOUS
<1> DEFINE t == IF s.planning.lc \in {"ADMITTED", "DISPATCHED"}
                THEN AppendTombstone(s, s.planning, "CANCELLED") ELSE s
<1>1. t \in State
  BY AppendTombstoneType, Fields DEF Terminal
<1>2. Framed(s, t)
  BY RecordsTouch DEF Framed, Untouched
<1>3. DiscardPlanning(s) = [t EXCEPT !.planState = "PLAN_IDLE", !.prepState = "PREPARE_IDLE",
                                     !.planning = NoAction, !.prep = NoAction]
  BY DEF DiscardPlanning
<1> HIDE DEF t
<1> QED
  BY <1>1, <1>2, <1>3, Shape DEF Replaces, Framed, Untouched, Kinds

\* An action that is dropped leaves the others alone.
LEMMA DropTouches ==
    \A s \in State : \A lc \in Terminal :
        /\ Replaces(s, DropProbe(s, lc), "probe", NoAction)
        /\ Replaces(s, DropApplication(s, lc), "app", NoAction)
        /\ Replaces(s, DropPreparation(s, lc), "prep", NoAction)
        /\ Replaces(s, DropFinalization(s, lc), "fin", NoAction)
<1>1. \A s \in State : \A lc \in Terminal : Replaces(s, DropProbe(s, lc), "probe", NoAction)
  BY Shape DEF DropProbe, AppendTombstone, Replaces, Kinds
<1>2. \A s \in State : \A lc \in Terminal : Replaces(s, DropApplication(s, lc), "app", NoAction)
  BY Shape DEF DropApplication, AppendTombstone, Replaces, Kinds
<1>3. \A s \in State : \A lc \in Terminal : Replaces(s, DropPreparation(s, lc), "prep", NoAction)
  BY Shape DEF DropPreparation, AppendTombstone, Replaces, Kinds
<1>4. \A s \in State : \A lc \in Terminal : Replaces(s, DropFinalization(s, lc), "fin", NoAction)
  BY Shape DEF DropFinalization, AppendTombstone, Replaces, Kinds
<1> QED
  BY <1>1, <1>2, <1>3, <1>4

\* A preparation that is dropped leaves the phase alone.
LEMMA DropPreparationFrame ==
    \A s \in State : \A lc : /\ DropPreparation(s, lc).phase = s.phase
                             /\ DropPreparation(s, lc).prepState = "PREPARE_IDLE"
  BY Shape DEF DropPreparation, AppendTombstone

\* A plan can be discarded when the preparation is not live or is the one meant.
LEMMA DiscardEvolves ==
    \A s \in State : \A x : ~Live(s.prep) \/ s.prep.id = x => Evolves(s, DiscardPlanning(s), x)
  BY DiscardTouches, LeavesDescends, ReplacesEvolves DEF Kinds

\* So can an action be dropped.
LEMMA DropEvolves ==
    \A s \in State : \A lc \in Terminal : \A x :
        /\ ~Live(s.probe) \/ s.probe.id = x => Evolves(s, DropProbe(s, lc), x)
        /\ ~Live(s.app) \/ s.app.id = x => Evolves(s, DropApplication(s, lc), x)
        /\ ~Live(s.prep) \/ s.prep.id = x => Evolves(s, DropPreparation(s, lc), x)
        /\ ~Live(s.fin) \/ s.fin.id = x => Evolves(s, DropFinalization(s, lc), x)
  BY DropTouches, LeavesDescends, ReplacesEvolves DEF Kinds

-----------------------------------------------------------------------------
(* Observe: admission, verification, classification. *)

\* Waiting touches no mutator.
LEMMA WaitTouches ==
    \A s \in State : Untouched(s, EnterWait(s).st) /\ Untouched(s, DeferWhileAsleep(s).st)
<1> SUFFICES ASSUME NEW s \in State
             PROVE Untouched(s, EnterWait(s).st) /\ Untouched(s, DeferWhileAsleep(s).st)
  OBVIOUS
<1>1. Untouched(s, DeferWhileAsleep(s).st)
  BY Shape DEF DeferWhileAsleep, ClearProof, Schedule, Decision, Untouched, Kinds
<1> DEFINE
      t == [ClearProof(s) EXCEPT !.aggr = IF @ = -1 THEN AggressiveBudget ELSE @,
                                 !.backoff = IF s.aggr = -1 THEN 0 ELSE @]
      index(phase) == IF t.phase = phase THEN t.backoff ELSE 0
      next(i, n) == Least(Least(i, n - 1) + 1, n - 1)
<1>2. Untouched(s, t) /\ {"probe", "app", "prep", "fin", "seq"} \subseteq DOMAIN t
  BY Shape DEF ClearProof, Untouched, Kinds
<1> DEFINE
      fast == [[t EXCEPT !.phase = "DISCOVER_FAST",
                         !.backoff = next(index("DISCOVER_FAST"), FastDelays)] EXCEPT !.timer = "fast"]
      slow == [[t EXCEPT !.phase = "WAIT_SLOW",
                         !.backoff = next(index("WAIT_SLOW"), SlowDelays)] EXCEPT !.timer = "slow"]
<1>3. EnterWait(s).st \in {fast, slow}
  BY DEF EnterWait, Schedule, Decision
<1> HIDE DEF t, index, next
<1>4. Untouched(t, fast) /\ Untouched(t, slow)
  BY <1>2 DEF Untouched, Kinds
<1> HIDE DEF fast, slow
<1> QED
  BY <1>1, <1>2, <1>3, <1>4 DEF Untouched

\* What an untouched state inherits.
LEMMA WaitInherits ==
    \A s \in State : \A t, new : Untouched(s, t) => Inherits(s, t, new)
  BY UntouchedInherits DEF Untouched

\* A new action is held and has a new id.
LEMMA AllocatedNew ==
    \A s \in State : \A g, p, k, plan, c :
        LET a == Allocated(s, g, p, k, plan, c)
        IN a.lc = "ADMITTED" /\ Held(a) /\ a.id = s.seq + 1 /\ a.id > s.seq
  BY KindsTyped DEF Allocated, Held

\* _admit_probe admits a probe or nothing.
LEMMA AdmitProbeInherits ==
    \A s \in State : \A o : Inherits(s, AdmitProbe(s, o).st, {"probe"})
<1> SUFFICES ASSUME NEW s \in State, NEW o PROVE Inherits(s, AdmitProbe(s, o).st, {"probe"})
  OBVIOUS
<1> DEFINE probe == Allocated(s, o.gen, Evidence[o.key].probe, o.key, 0, None)
           t == DiscardPlanning(s)
           u == [t EXCEPT !.phase = "PROBE_PENDING", !.cand = NoCandidate,
                          !.seq = @ + 1, !.probe = probe, !.baseline = FALSE,
                          !.verify = -1, !.timer = "now"]
<1>1. AdmitProbe(s, o).st = EnterWait(s).st \/ AdmitProbe(s, o).st = u
  BY DEF AdmitProbe, Decision
<1>2. t \in State /\ Replaces(s, t, "prep", NoAction)
  BY DiscardPlanningType, DiscardTouches
<1>3. probe.lc = "ADMITTED" /\ probe.id > s.seq /\ s.seq \in Nat
  BY AllocatedNew, KindsTyped
<1> HIDE DEF t, probe
<1>4. u.seq = s.seq + 1 /\ u.probe = probe /\ u.app = s.app /\ u.prep = NoAction /\ u.fin = s.fin
  BY <1>2, Shape DEF Replaces, Kinds
<1> HIDE DEF u
<1>5. Inherits(s, u, {"probe"})
  BY <1>3, <1>4 DEF Inherits, Kinds
<1> QED
  BY <1>1, <1>5, WaitTouches, WaitInherits

\* _admit_application admits an application or nothing.
LEMMA AdmitApplicationInherits ==
    \A s \in State : \A o \in Observations : \A p \in Profiles :
        Inherits(s, AdmitApplication(s, o, p).st, {"app"})
<1> SUFFICES ASSUME NEW s \in State, NEW o \in Observations, NEW p \in Profiles
             PROVE Inherits(s, AdmitApplication(s, o, p).st, {"app"})
  OBVIOUS
<1> DEFINE app == Allocated(s, o.gen, p, o.key, 0, None)
           t == [s EXCEPT !.cand = Candidate(s, o.key, p), !.baseline = FALSE]
           u == [t EXCEPT !.applied = @ \ {AttemptKey(app)}, !.phase = "APPLY_PENDING",
                          !.seq = @ + 1, !.app = app, !.timer = "now"]
<1>1. AdmitApplication(s, o, p).st = EnterWait(t).st \/ AdmitApplication(s, o, p).st = u
  BY DEF AdmitApplication, Decision
<1>2. t \in State
  BY CandidateType, ObservationType, Set_cand, Set_baseline
<1>2a. Untouched(s, t)
  BY Shape DEF Untouched, Kinds
<1>3. app.lc = "ADMITTED" /\ app.id > s.seq /\ s.seq \in Nat
  BY AllocatedNew, KindsTyped
<1> HIDE DEF t, app
<1>4. u.seq = s.seq + 1 /\ u.probe = s.probe /\ u.app = app /\ u.prep = s.prep /\ u.fin = s.fin
  BY <1>2, <1>2a, Shape DEF Untouched, Kinds
<1> HIDE DEF u
<1>5. Inherits(s, u, {"app"})
  BY <1>3, <1>4 DEF Inherits, Kinds
<1>6. Untouched(s, EnterWait(t).st)
  BY <1>2, <1>2a, WaitTouches DEF Untouched
<1> QED
  BY <1>1, <1>5, <1>6, WaitInherits

\* Planning is no mutation.
LEMMA AdmitPlanInherits == \A s \in State : \A o, p, new : Inherits(s, AdmitPlan(s, o, p), new)
<1> SUFFICES ASSUME NEW s \in State, NEW o, NEW p, NEW new PROVE Inherits(s, AdmitPlan(s, o, p), new)
  OBVIOUS
<1> DEFINE u == AdmitPlan(s, o, p)
<1>1. u.seq = s.seq + 1 /\ u.probe = s.probe /\ u.app = s.app /\ u.prep = s.prep /\ u.fin = s.fin
  BY Shape DEF AdmitPlan
<1> HIDE DEF u
<1>2. Inherits(s, u, new)
  BY <1>1, KindsTyped DEF Inherits, Kinds
<1> QED
  BY <1>2 DEF u

\* The preparation a proof admits.
LEMMA WithPreparationInherits == \A s \in State : \A o : Inherits(s, WithPreparation(s, o), {"prep", "fin"})
<1> SUFFICES ASSUME NEW s \in State, NEW o PROVE Inherits(s, WithPreparation(s, o), {"prep", "fin"})
  OBVIOUS
<1> DEFINE u == WithPreparation(s, o)
           prep == Allocated(s, o.gen, s.cand.profile, o.key, s.planning.id, None)
<1>1. u.seq = s.seq + 1 /\ u.probe = s.probe /\ u.app = s.app /\ u.prep = prep /\ u.fin = s.fin
  BY Shape DEF WithPreparation
<1>2. prep.lc = "ADMITTED" /\ prep.id > s.seq /\ s.seq \in Nat
  BY AllocatedNew, KindsTyped
<1> HIDE DEF u, prep
<1>3. Inherits(s, u, {"prep", "fin"})
  BY <1>1, <1>2 DEF Inherits, Kinds
<1> QED
  BY <1>3 DEF u

\* A complete proof admits a finalization at most.
LEMMA CompleteVerificationInherits ==
    \A s \in State : \A o \in Observations : \A fx :
        Inherits(s, CompleteVerification(s, o, fx).st, {"prep", "fin"})
<1> SUFFICES ASSUME NEW s \in State, NEW o \in Observations, NEW fx
             PROVE Inherits(s, CompleteVerification(s, o, fx).st, {"prep", "fin"})
  OBVIOUS
<1> DEFINE
      p == s.cand.profile
      fin == Allocated(s, o.gen, p, o.key, s.prep.plan, None)
      settled == [ResetApplicationRecovery(DiscardPlanning(s), p) EXCEPT !.stable = p, !.baseline = FALSE]
      adopted == [ResetApplicationRecovery(s, p) EXCEPT !.stable = p, !.finalized = p, !.baseline = FALSE]
      begun == [s EXCEPT !.phase = "FINALIZE_PENDING", !.seq = @ + 1, !.fin = fin, !.timer = "now"]
<1>1. p \in Profiles \cup {None}
  BY Fields DEF Candidates
<1>2. settled \in State /\ adopted \in State
  BY <1>1, DiscardPlanningType, ResetRecoveryType, Set_stable, Set_baseline, Set_finalized
<1>3. settled.seq = s.seq /\ \A k \in Kinds : settled[k] = s[k] \/ settled[k] = NoAction
  <2>1. DiscardPlanning(s) \in State /\ Replaces(s, DiscardPlanning(s), "prep", NoAction)
    BY DiscardPlanningType, DiscardTouches
  <2>2. Untouched(DiscardPlanning(s), settled)
    BY <2>1, Shape DEF ResetApplicationRecovery, Untouched, Kinds
  <2> QED
    BY <2>1, <2>2 DEF Replaces, Untouched
<1>4. Untouched(s, adopted)
  BY Shape DEF ResetApplicationRecovery, Untouched, Kinds
<1>5. Inherits(s, begun, {"prep", "fin"})
  <2>1. fin.lc = "ADMITTED" /\ fin.id > s.seq /\ s.seq \in Nat
    BY AllocatedNew, KindsTyped
  <2> HIDE DEF fin
  <2>2. begun.seq = s.seq + 1 /\ begun.probe = s.probe /\ begun.app = s.app /\ begun.prep = s.prep /\ begun.fin = fin
    BY Shape
  <2> HIDE DEF begun
  <2> QED
    BY <2>1, <2>2 DEF Inherits, Kinds
<1>6. CompleteVerification(s, o, fx).st \in
        {Quiesce(settled).st, Quiesce(adopted).st, begun,
         Schedule(s, "health", fx).st, Schedule(s, "tick", fx).st}
  BY DEF CompleteVerification, Decision
<1> HIDE DEF settled, adopted, begun
<1>7. Untouched(settled, Quiesce(settled).st) /\ Untouched(adopted, Quiesce(adopted).st)
  BY <1>2, QuiesceTouches
<1>8. \A new : Inherits(s, Quiesce(settled).st, new) /\ Inherits(s, Quiesce(adopted).st, new)
  BY <1>3, <1>4, <1>7, UntouchedInherits DEF Untouched
<1>9. \A delay, new : Inherits(s, Schedule(s, delay, fx).st, new)
  BY ScheduleTouches, WaitInherits DEF Framed
<1> QED
  BY <1>5, <1>6, <1>8, <1>9

\* A proof that advances admits a preparation or a finalization.
LEMMA AdvanceVerificationInherits ==
    \A s \in State : \A o \in Observations : \A fx \in SUBSET {"plan"} :
        Inherits(s, AdvanceVerification(s, o, fx).st, {"prep", "fin"})
<1> SUFFICES ASSUME NEW s \in State, NEW o \in Observations, NEW fx \in SUBSET {"plan"}
             PROVE Inherits(s, AdvanceVerification(s, o, fx).st, {"prep", "fin"})
  OBVIOUS
<1> DEFINE t == WithPreparation(s, o)
           ft == fx \cup {"dispatch"}
<1>1. AdvanceVerification(s, o, fx).st \in
        {EnterWait(s).st, CompleteVerification(t, o, ft).st, CompleteVerification(s, o, fx).st}
  BY DEF AdvanceVerification
<1>2. t \in State /\ t.prep.lc = "ADMITTED" /\ Inherits(s, t, {"prep", "fin"})
  BY WithPreparationType, WithPreparationInherits
<1>3. CompleteVerification(t, o, ft).st \in State
  BY <1>2, CompleteVerificationType, DecisionParts DEF Effects
<1> HIDE DEF t, ft
<1>4. Inherits(t, CompleteVerification(t, o, ft).st, {"prep", "fin"})
  BY <1>2, CompleteVerificationInherits
<1>5. Inherits(s, CompleteVerification(t, o, ft).st, {"prep", "fin"} \cup {"prep", "fin"})
  BY <1>2, <1>3, <1>4, InheritsOn
<1>6. Inherits(s, EnterWait(s).st, {"prep", "fin"})
  BY WaitTouches, WaitInherits
<1>7. Inherits(s, CompleteVerification(s, o, fx).st, {"prep", "fin"})
  BY CompleteVerificationInherits
<1>8. {"prep", "fin"} \cup {"prep", "fin"} = {"prep", "fin"}
  OBVIOUS
<1> QED
  BY <1>1, <1>5, <1>6, <1>7, <1>8

\* So does one that asks for its plan on the way.
LEMMA PlanVerificationInherits ==
    \A s \in State : \A o \in Observations : \A p \in Profiles :
        Inherits(s, PlanVerification(s, o, p).st, {"prep", "fin"})
<1> SUFFICES ASSUME NEW s \in State, NEW o \in Observations, NEW p \in Profiles
             PROVE Inherits(s, PlanVerification(s, o, p).st, {"prep", "fin"})
  OBVIOUS
<1> DEFINE t == AdmitPlan(s, o, p)
<1>1. PlanVerification(s, o, p).st \in
        {AdvanceVerification(t, o, {"plan"}).st, AdvanceVerification(s, o, {}).st}
  BY DEF PlanVerification
<1>2. t \in State /\ Inherits(s, t, {"prep", "fin"})
  BY AdmitPlanType, AdmitPlanInherits
<1>3. AdvanceVerification(t, o, {"plan"}).st \in State
  BY <1>2, AdvanceVerificationType, DecisionParts
<1> HIDE DEF t
<1>4. Inherits(t, AdvanceVerification(t, o, {"plan"}).st, {"prep", "fin"})
  BY <1>2, AdvanceVerificationInherits
<1>5. Inherits(s, AdvanceVerification(t, o, {"plan"}).st, {"prep", "fin"} \cup {"prep", "fin"})
  BY <1>2, <1>3, <1>4, InheritsOn
<1>6. Inherits(s, AdvanceVerification(s, o, {}).st, {"prep", "fin"})
  BY AdvanceVerificationInherits
<1>7. {"prep", "fin"} \cup {"prep", "fin"} = {"prep", "fin"}
  OBVIOUS
<1> QED
  BY <1>1, <1>5, <1>6, <1>7

\* And one that starts, where the plan of another proof is discarded.
LEMMA StartVerificationInherits ==
    \A s \in State : \A o \in Observations : \A p \in Profiles :
        Inherits(s, StartVerification(s, o, p).st, {"prep", "fin"})
<1> SUFFICES ASSUME NEW s \in State, NEW o \in Observations, NEW p \in Profiles
             PROVE Inherits(s, StartVerification(s, o, p).st, {"prep", "fin"})
  OBVIOUS
<1> DEFINE begins(t, v, c) == [t EXCEPT !.phase = "VERIFYING", !.verify = v, !.cand = c]
<1>1. \E t \in {s, DiscardPlanning(s)} : \E v \in {t.verify, 0} : \E c \in {t.cand, Candidate(s, o.key, p)} :
         StartVerification(s, o, p) = PlanVerification(begins(t, v, c), o, p)
  BY DEF StartVerification
<1>1a. PICK t \in {s, DiscardPlanning(s)} :
         \E v \in {t.verify, 0} : \E c \in {t.cand, Candidate(s, o.key, p)} :
            StartVerification(s, o, p) = PlanVerification(begins(t, v, c), o, p)
  BY <1>1
<1>2. PICK v \in {t.verify, 0}, c \in {t.cand, Candidate(s, o.key, p)} :
         StartVerification(s, o, p) = PlanVerification(begins(t, v, c), o, p)
  BY <1>1a
<1>3. t \in State /\ t.seq = s.seq /\ \A k \in Kinds : t[k] = s[k] \/ t[k] = NoAction
  BY <1>2, DiscardPlanningType, DiscardTouches DEF Replaces
<1>4. v \in -1..ProfileStability /\ c \in Candidates
  BY <1>2, <1>3, Fields, NoneTyped, CandidateType, ObservationType, BoundsAssumption
<1>5. begins(t, v, c) \in State
  BY <1>3, <1>4, Named, Set_phase, Set_verify, Set_cand
<1>6. Untouched(t, begins(t, v, c))
  BY <1>3, Shape DEF Untouched, Kinds
<1> DEFINE u == begins(t, v, c)
<1> HIDE DEF u
<1>7. u \in State /\ Inherits(s, u, {"prep", "fin"})
  BY <1>3, <1>5, <1>6, UntouchedInherits DEF u, Untouched
<1>8. PlanVerification(u, o, p).st \in State /\ Inherits(u, PlanVerification(u, o, p).st, {"prep", "fin"})
  BY <1>7, PlanVerificationType, PlanVerificationInherits, DecisionParts
<1>9. Inherits(s, PlanVerification(u, o, p).st, {"prep", "fin"} \cup {"prep", "fin"})
  BY <1>7, <1>8, InheritsOn
<1>10. {"prep", "fin"} \cup {"prep", "fin"} = {"prep", "fin"}
  OBVIOUS
<1> QED
  BY <1>2, <1>9, <1>10 DEF u

\* The bookkeeping of an unplug proof, the external intent and an unknown
\* topology touches no mutator.
LEMMA ClassifyTouches ==
    \A s \in State : \A o : /\ Framed(s, HandleUnplug(s, o).st)
                            /\ Framed(s, RetainExternalIntent(s))
                            /\ Untouched(s, ClassifyUnknown(s, o).st)
                            /\ Framed(s, [s EXCEPT !.unknown = NoUnknown])
<1>1. \A s \in State : \A o : Framed(s, HandleUnplug(s, o).st)
  BY Shape DEF HandleUnplug, Framed, Untouched, Kinds
<1>2. \A s \in State : Framed(s, RetainExternalIntent(s)) /\ Framed(s, [s EXCEPT !.unknown = NoUnknown])
  BY Shape DEF RetainExternalIntent, Framed, Untouched, Kinds
<1>3. \A s \in State : \A o : Untouched(s, ClassifyUnknown(s, o).st)
  BY Shape DEF ClassifyUnknown, Schedule, Decision, Untouched, Kinds
<1> QED
  BY <1>1, <1>2, <1>3

\* A dropped failure is kept or gone.
LEMMA FailureDropped ==
    \A s \in State : /\ Inherits(s, AwaitUnplug(s).st, {})
                     /\ Inherits(s, DropFailure(s), {})
<1> SUFFICES ASSUME NEW s \in State
             PROVE Inherits(s, AwaitUnplug(s).st, {}) /\ Inherits(s, DropFailure(s), {})
  OBVIOUS
<1>1. ASSUME NEW t, t \in {AwaitUnplug(s).st, DropFailure(s)}
      PROVE t.seq = s.seq /\ \A k \in Kinds : t[k] = s[k] \/ t[k] = NoAction
  <2>1. CASE t = AwaitUnplug(s).st
    BY <2>1, Shape DEF AwaitUnplug, Schedule, Decision, Kinds
  <2>2. CASE t = DropFailure(s)
    BY <2>2, Shape DEF DropFailure, Kinds
  <2> QED
    BY <1>1, <2>1, <2>2
<1> QED
  BY <1>1, UntouchedInherits

\* Where nothing is busy, what is kept or dropped leaves nothing busy.
LEMMA StillInherits == \A s, t : Still(s) /\ Inherits(s, t, {}) => Still(t)
  BY NoActionStage DEF Still, Inherits

\* An exact, current profile.
LEMMA ClassifyExactInherits ==
    \A s \in State : \A o \in Observations : \A p \in Profiles :
        Inherits(s, ClassifyExact(s, o, p).st, {"prep", "fin"})
<1> SUFFICES ASSUME NEW s \in State, NEW o \in Observations, NEW p \in Profiles
             PROVE Inherits(s, ClassifyExact(s, o, p).st, {"prep", "fin"})
  OBVIOUS
<1> DEFINE r == [s EXCEPT !.unknown = NoUnknown]
           t == RearmAchievedApplication(r, p)
<1>1. r \in State /\ Untouched(s, r)
  BY NoneTyped, Set_unknown, ClassifyTouches DEF Framed
<1>2. t \in State /\ Untouched(r, t)
  BY <1>1, RearmType, RecordsTouch DEF Framed
<1>3. ClassifyExact(s, o, p) \in {Quiesce(t), StartVerification(t, o, p)}
  BY DEF ClassifyExact
<1> HIDE DEF r, t
<1>4. Inherits(s, t, {})
  BY <1>1, <1>2, WaitInherits DEF Untouched
<1>5. Inherits(t, Quiesce(t).st, {"prep", "fin"}) /\ Quiesce(t).st \in State
  BY <1>2, QuiesceTouches, WaitInherits, QuiesceType, DecisionParts
<1>6. Inherits(t, StartVerification(t, o, p).st, {"prep", "fin"}) /\ StartVerification(t, o, p).st \in State
  BY <1>2, StartVerificationInherits, StartVerificationType, DecisionParts
<1>7. {} \cup {"prep", "fin"} = {"prep", "fin"}
  OBVIOUS
<1>8. Inherits(t, ClassifyExact(s, o, p).st, {"prep", "fin"}) /\ ClassifyExact(s, o, p).st \in State
  BY <1>3, <1>5, <1>6
<1>9. Inherits(s, ClassifyExact(s, o, p).st, {} \cup {"prep", "fin"})
  BY <1>2, <1>4, <1>8, InheritsOn
<1> QED
  BY <1>7, <1>9

\* The classification of a sample admits a mutator only when none is busy.
LEMMA ClassifyTargetAdvances ==
    \A s \in State : \A o \in Observations : \A x : Still(s) => Advances(s, ClassifyTarget(s, o).st, x)
<1> SUFFICES ASSUME NEW s \in State, NEW o \in Observations, NEW x, Still(s)
             PROVE Advances(s, ClassifyTarget(s, o).st, x)
  OBVIOUS
<1> DEFINE t == [s EXCEPT !.unknown = NoUnknown]
<1>1. UniqueTarget(o.key) \in Profiles \cup {None}
  BY UniqueTargetType, ObservationType
<1>2. t \in State /\ Untouched(s, t)
  BY NoneTyped, Set_unknown, ClassifyTouches DEF Framed
<1> HIDE DEF t
<1>3. \/ ClassifyTarget(s, o) \in {DeferWhileAsleep(t), AdmitProbe(t, o),
                                   ClassifyUnknown(s, o), EnterWait(s)}
      \/ \E p \in Profiles : ClassifyTarget(s, o) \in {ClassifyExact(s, o, p), AdmitApplication(t, o, p)}
  BY <1>1 DEF ClassifyTarget, t
<1>4. Still(t) /\ Inherits(s, t, {})
  BY <1>2, WaitInherits, StillInherits
<1>5. Advances(s, t, x)
  BY <1>2, UntouchedEvolves, EvolvesAdvances
<1>6. ASSUME NEW u, Untouched(s, u) PROVE Advances(s, u, x)
  BY <1>6, UntouchedEvolves, EvolvesAdvances
<1>7. CASE ClassifyTarget(s, o) \in {DeferWhileAsleep(t), ClassifyUnknown(s, o), EnterWait(s)}
  <2>1. Untouched(t, DeferWhileAsleep(t).st) /\ Untouched(s, ClassifyUnknown(s, o).st) /\ Untouched(s, EnterWait(s).st)
    BY <1>2, WaitTouches, ClassifyTouches
  <2>2. Untouched(s, ClassifyTarget(s, o).st)
    BY <1>2, <1>7, <2>1 DEF Untouched
  <2> QED
    BY <1>6, <2>2
<1>8. CASE ClassifyTarget(s, o) = AdmitProbe(t, o)
  <2>1. Advances(t, AdmitProbe(t, o).st, x) /\ AdmitProbe(t, o).st \in State
    BY <1>2, <1>4, AdmitProbeInherits, InheritsAdvances, AdmitProbeType, DecisionParts
  <2> QED
    BY <1>2, <1>5, <1>8, <2>1, AdvancesOn
<1>9. ASSUME NEW p \in Profiles, ClassifyTarget(s, o) = AdmitApplication(t, o, p)
      PROVE Advances(s, ClassifyTarget(s, o).st, x)
  <2>1. Advances(t, AdmitApplication(t, o, p).st, x) /\ AdmitApplication(t, o, p).st \in State
    BY <1>2, <1>4, AdmitApplicationInherits, InheritsAdvances, AdmitApplicationType, DecisionParts
  <2> QED
    BY <1>2, <1>5, <1>9, <2>1, AdvancesOn
<1>10. ASSUME NEW p \in Profiles, ClassifyTarget(s, o) = ClassifyExact(s, o, p)
       PROVE Advances(s, ClassifyTarget(s, o).st, x)
  BY <1>10, ClassifyExactInherits, InheritsAdvances
<1> QED
  BY <1>3, <1>7, <1>8, <1>9, <1>10

\* _classify_observation without a pending admission.
LEMMA ClassifyAdvances ==
    \A s \in State : \A o \in Observations : \A x : Still(s) => Advances(s, Classify(s, o).st, x)
<1> SUFFICES ASSUME NEW s \in State, NEW o \in Observations, NEW x, Still(s)
             PROVE Advances(s, Classify(s, o).st, x)
  OBVIOUS
<1>1. PICK t \in {RetainExternalIntent(s), HandleUnplug(s, o).st} :
        Classify(s, o) \in {AwaitUnplug(t), Schedule(t, "health", {}), ClassifyTarget(DropFailure(t), o)}
  BY DEF Classify
<1>2. t \in State /\ Untouched(s, t)
  <2>1. RetainExternalIntent(s) \in State /\ Untouched(s, RetainExternalIntent(s))
    BY RetainIntentType, ClassifyTouches DEF Framed
  <2>2. HandleUnplug(s, o).st \in State /\ Untouched(s, HandleUnplug(s, o).st)
    BY HandleUnplugType, ClassifyTouches DEF Framed
  <2> QED
    BY <1>1, <2>1, <2>2
<1>3. Still(t) /\ Advances(s, t, x)
  BY <1>2, WaitInherits, StillInherits, UntouchedEvolves, EvolvesAdvances
<1>4. Advances(t, AwaitUnplug(t).st, x) /\ Advances(t, DropFailure(t), x)
  BY <1>2, <1>3, FailureDropped, InheritsAdvances
<1>5. Advances(t, Schedule(t, "health", {}).st, x)
  BY <1>2, ScheduleTouches, UntouchedEvolves, EvolvesAdvances DEF Framed
<1>6. DropFailure(t) \in State /\ Still(DropFailure(t))
  BY <1>2, <1>3, DropFailureType, FailureDropped, StillInherits
<1>7. Advances(DropFailure(t), ClassifyTarget(DropFailure(t), o).st, x)
  BY <1>6, ClassifyTargetAdvances
<1>8. /\ AwaitUnplug(t).st \in State /\ Schedule(t, "health", {}).st \in State
      /\ ClassifyTarget(DropFailure(t), o).st \in State
  BY <1>2, <1>6, AwaitUnplugType, PlainSchedule, ClassifyTargetType, DecisionParts DEF Delays
<1>9. Advances(t, Classify(s, o).st, x) /\ Classify(s, o).st \in State
  BY <1>1, <1>2, <1>4, <1>5, <1>6, <1>7, <1>8, AdvancesOn
<1> QED
  BY <1>2, <1>3, <1>9, AdvancesOn

-----------------------------------------------------------------------------
(* Observe: pending admissions and a new epoch. *)

\* A sane state: what is saved, and what a transition begins from.
Sound(s) == s \in State /\ Pending(s) /\ Ids(s) /\ Placed(s)

\* A new epoch keeps no mutator.
LEMMA ResetEmpty ==
    \A s \in State : \A o \in Observations :
        LET t == ResetForEpoch(s, o)
        IN /\ t.seq = s.seq
           /\ \A k \in Kinds : t[k] = NoAction
           /\ t.phase = "DISCOVER_FAST" /\ t.prepState = "PREPARE_IDLE"
<1> SUFFICES ASSUME NEW s \in State, NEW o \in Observations
             PROVE LET t == ResetForEpoch(s, o)
                   IN /\ t.seq = s.seq
                      /\ \A k \in Kinds : t[k] = NoAction
                      /\ t.phase = "DISCOVER_FAST" /\ t.prepState = "PREPARE_IDLE"
  OBVIOUS
<1> DEFINE d == DiscardPlanning(s)
<1>1. d \in State /\ Replaces(s, d, "prep", NoAction) /\ d.prepState = "PREPARE_IDLE"
  BY DiscardPlanningType, DiscardTouches
<1>2. \A tombs, epoch, token, cand, aggr, baseline :
        LET t == [d EXCEPT
                    !.tombs = tombs, !.phase = "DISCOVER_FAST", !.epoch = epoch,
                    !.token = token, !.cand = cand, !.aggr = aggr, !.backoff = 0, !.verify = -1,
                    !.stable = None, !.probed = {}, !.applied = {}, !.retried = {},
                    !.probe = NoAction, !.app = NoAction, !.fin = NoAction,
                    !.unknown = NoUnknown, !.unplug = NoUnplug, !.baseline = baseline]
        IN t.seq = d.seq /\ t.probe = NoAction /\ t.app = NoAction /\ t.fin = NoAction /\ t.prep = d.prep
           /\ t.phase = "DISCOVER_FAST" /\ t.prepState = d.prepState
  BY <1>1, Shape
<1>3. LET t == ResetForEpoch(s, o)
      IN t.seq = d.seq /\ t.probe = NoAction /\ t.app = NoAction /\ t.fin = NoAction /\ t.prep = d.prep
         /\ t.phase = "DISCOVER_FAST" /\ t.prepState = d.prepState
  BY <1>2 DEF ResetForEpoch
<1> HIDE DEF d
<1> QED
  BY <1>1, <1>3 DEF Replaces, Kinds

\* What is empty is sound and busy with nothing.
LEMMA EmptySound ==
    \A t : /\ \A k \in Kinds : t[k] = NoAction
           /\ t.phase \in {"DISCOVER_FAST", "RECOVERING"}
           /\ t.prepState = "PREPARE_IDLE"
           => Ids(t) /\ Placed(t) /\ Still(t) /\ Calm(t)
<1> SUFFICES ASSUME NEW t, \A k \in Kinds : t[k] = NoAction,
                    t.phase \in {"DISCOVER_FAST", "RECOVERING"}, t.prepState = "PREPARE_IDLE"
             PROVE Ids(t) /\ Placed(t) /\ Still(t) /\ Calm(t)
  OBVIOUS
<1>1. Ids(t) /\ Still(t) /\ Calm(t)
  BY NoActionStage DEF Ids, Numbered, Still, Calm
<1>2. t.probe = NoAction /\ t.app = NoAction /\ t.prep = NoAction /\ t.fin = NoAction
  BY DEF Kinds
<1>3. NoAction.lc = "ABSENT"
  BY DEF NoAction
<1> QED
  BY <1>1, <1>2, <1>3 DEF Placed, Held, InFlight

\* Where no worker is live and no result is being confirmed, only the pending
\* admission is busy.
Settled(s) ==
    /\ Sound(s) /\ Calm(s)
    /\ s.phase \notin {"PROBING", "APPLYING", "FINALIZING"} /\ s.prepState # "PREPARING"

\* That admission is the one that PendingAdmission finds.
LEMMA PendingFound ==
    \A s : Settled(s) => \A k \in Kinds : Busy(s[k]) => PendingAdmission(s) = k
<1> SUFFICES ASSUME NEW s, Settled(s), NEW k \in Kinds, Busy(s[k]) PROVE PendingAdmission(s) = k
  OBVIOUS
<1>1. s[k].lc = "ADMITTED" /\ \A j \in Kinds \ {k} : s[j].lc # "ADMITTED"
  <2>1. ~Live(s[k]) /\ \A j \in Kinds \ {k} : ~Busy(s[j])
    BY DEF Settled, Sound, Ids, Calm
  <2>2. s[k].lc # "RESULT_PENDING"
    BY DEF Settled, Sound, Placed, Kinds, InFlight
  <2> QED
    BY <2>1, <2>2 DEF Busy, Live, InFlight
<1>2. CASE k = "probe"
  BY <1>1, <1>2 DEF Settled, Sound, Placed, PendingAdmission
<1>3. CASE k = "app"
  BY <1>1, <1>3 DEF Settled, Sound, Placed, PendingAdmission
<1>4. CASE k = "prep"
  <2>1. s.phase \notin {"PROBE_PENDING", "APPLY_PENDING"}
    BY <1>1, <1>4 DEF Settled, Sound, Pending, Kinds
  <2> QED
    BY <1>1, <1>4, <2>1 DEF Settled, Sound, Placed, PendingAdmission
<1>5. CASE k = "fin"
  <2>1. s.prepState # "PREPARE_PENDING"
    BY <1>1, <1>5 DEF Settled, Sound, Pending, Kinds
  <2> QED
    BY <1>1, <1>5, <2>1 DEF Settled, Sound, Placed, PendingAdmission
<1> QED
  BY <1>2, <1>3, <1>4, <1>5 DEF Kinds

\* Once it is cancelled nothing is busy.
LEMMA CancelStill ==
    \A s : Settled(s) =>
        /\ PendingAdmission(s) = "none" => Still(s)
        /\ PendingAdmission(s) # "none" => /\ Still(CancelAdmission(s))
                                           /\ Evolves(s, CancelAdmission(s), Nobody)
<1> SUFFICES ASSUME NEW s, Settled(s)
             PROVE /\ PendingAdmission(s) = "none" => Still(s)
                   /\ PendingAdmission(s) # "none" => /\ Still(CancelAdmission(s))
                                                      /\ Evolves(s, CancelAdmission(s), Nobody)
  OBVIOUS
<1> DEFINE kind == PendingAdmission(s)
           t == CancelAdmission(s)
<1>1. s \in State /\ (\A k \in Kinds : Busy(s[k]) => k = kind)
  BY PendingFound DEF Settled, Sound
<1>2. kind \in Kinds \cup {"none"} /\ "none" \notin Kinds
  BY DEF PendingAdmission, Kinds
<1>3. kind = "none" => Still(s)
  BY <1>1, <1>2 DEF Still
<1>4. kind # "none" => Replaces(s, t, kind, NoAction)
  <2>1. \A lc \in Terminal : LET u == DropPreparation(s, lc) IN
           u \in State => Replaces(s, [u EXCEPT !.verify = -1], "prep", NoAction)
    BY <1>1, DropTouches, Shape DEF Replaces, Kinds
  <2>2. \A lc \in Terminal : LET u == DropFinalization(s, lc) IN
           u \in State => Replaces(s, [u EXCEPT !.verify = -1], "fin", NoAction)
    BY <1>1, DropTouches, Shape DEF Replaces, Kinds
  <2>3. "CANCELLED" \in Terminal
    BY DEF Terminal
  <2>4. CASE kind = "probe"
    BY <1>1, <2>3, <2>4, DropTouches DEF CancelAdmission
  <2>5. CASE kind = "app"
    BY <1>1, <2>3, <2>5, DropTouches DEF CancelAdmission
  <2>6. CASE kind = "prep"
    BY <1>1, <2>1, <2>3, <2>6, DropType DEF CancelAdmission
  <2>7. CASE kind = "fin"
    BY <1>1, <2>2, <2>3, <2>7, DropType DEF CancelAdmission
  <2> QED
    BY <1>2, <2>4, <2>5, <2>6, <2>7 DEF Kinds
<1> HIDE DEF kind, t
<1>5. kind # "none" => Still(t)
  BY <1>1, <1>2, <1>4, NoActionStage DEF Still, Replaces
<1>6. kind # "none" => Evolves(s, t, Nobody)
  BY <1>2, <1>4, LeavesDescends, ReplacesEvolves DEF Settled, Calm
<1> QED
  BY <1>3, <1>5, <1>6 DEF kind, t

\* A new epoch drops what is not live.
LEMMA ResetEvolves ==
    \A s \in State : \A o \in Observations : \A x : Calm(s) => Evolves(s, ResetForEpoch(s, o), x)
  BY ResetEmpty, DropsEvolve

\* _classify_observation: a pending admission is offered again, or cancelled first.
LEMMA ClassifyObservationAdvances ==
    \A s : \A o \in Observations : Settled(s) => Advances(s, ClassifyObservation(s, o).st, Nobody)
<1> SUFFICES ASSUME NEW s, NEW o \in Observations, Settled(s)
             PROVE Advances(s, ClassifyObservation(s, o).st, Nobody)
  OBVIOUS
<1> DEFINE kind == PendingAdmission(s)
           t == CancelAdmission(s)
           u == SameEpoch(t, o)
<1>1. s \in State
  BY DEF Settled, Sound
<1>2. kind \in Kinds \cup {"none"}
  BY DEF PendingAdmission, Kinds
<1>3. CASE StillAuthorized(s, o)
  <2>1. kind \in Kinds
    BY <1>2, <1>3 DEF StillAuthorized
  <2>2. ClassifyObservation(s, o).st = [[s EXCEPT ![kind].gen = o.gen] EXCEPT !.timer = "now"]
    BY <1>3 DEF ClassifyObservation, Offered, Decision
  <2> HIDE DEF kind
  <2>3. Replaces(s, ClassifyObservation(s, o).st, kind, [s[kind] EXCEPT !.gen = o.gen])
    BY <1>1, <2>1, <2>2, Shape DEF Replaces, Kinds
  <2>4. \A a \in Action : Descends(a, [a EXCEPT !.gen = o.gen], Nobody)
    BY NewLc, SameDescends
  <2>5. Evolves(s, ClassifyObservation(s, o).st, Nobody)
    BY <1>1, <2>1, <2>3, <2>4, KindsTyped, ReplacesEvolves
  <2> QED
    BY <1>1, <2>5, EvolvesAdvances
<1>4. CASE ~StillAuthorized(s, o) /\ kind = "none"
  BY <1>1, <1>4, CancelStill, ClassifyAdvances DEF ClassifyObservation
<1>5. CASE ~StillAuthorized(s, o) /\ kind # "none"
  <2>1. t \in State /\ Still(t) /\ Evolves(s, t, Nobody)
    BY <1>1, <1>5, CancelAdmissionType, CancelStill
  <2>2. ClassifyObservation(s, o) = Classify(u, o)
    BY <1>5 DEF ClassifyObservation
  <2>3. u \in State
    BY <2>1, SameEpochType
  <2>4. u = t \/ u = ResetForEpoch(t, o)
    BY DEF SameEpoch
  <2> HIDE DEF t, u
  <2>5. Calm(t)
    BY <2>1, Stages DEF Still, Calm
  <2>6. Still(u) /\ Evolves(t, u, Nobody)
    <3>1. CASE u = t
      BY <2>1, <3>1, UntouchedEvolves DEF Untouched
    <3>2. CASE u = ResetForEpoch(t, o)
      BY <2>1, <2>3, <2>5, <3>2, ResetEmpty, EmptySound, ResetEvolves
    <3> QED
      BY <2>4, <3>1, <3>2
  <2>7. Advances(s, u, Nobody)
    BY <1>1, <2>1, <2>6, EvolvesOn, EvolvesAdvances
  <2>8. Classify(u, o).st \in State /\ Advances(u, Classify(u, o).st, Nobody)
    BY <2>3, <2>6, ClassifyAdvances, ClassifyType, DecisionParts
  <2> QED
    BY <1>1, <2>2, <2>3, <2>7, <2>8, AdvancesOn
<1> QED
  BY <1>3, <1>4, <1>5

-----------------------------------------------------------------------------
(* ObservationCompleted. *)

\* A worker in flight is told to stop.
LEMMA StopsEvolve ==
    \A s \in State :
        /\ s.fin.lc \in InFlight => Evolves(s, StopFinalization(s).st, Nobody)
        /\ s.prep.lc \in InFlight => Evolves(s, StopPreparation(s).st, Nobody)
        /\ s.probe.lc \in InFlight =>
              Evolves(s, Schedule([s EXCEPT !.probe.lc = "STOPPING"], "tick", {"stop"}).st, Nobody)
        /\ s.app.lc \in InFlight =>
              Evolves(s, Schedule([s EXCEPT !.app.lc = "STOPPING"], "tick", {"stop"}).st, Nobody)
<1> SUFFICES ASSUME NEW s \in State
             PROVE  /\ s.fin.lc \in InFlight => Evolves(s, StopFinalization(s).st, Nobody)
                    /\ s.prep.lc \in InFlight => Evolves(s, StopPreparation(s).st, Nobody)
                    /\ s.probe.lc \in InFlight =>
                          Evolves(s, Schedule([s EXCEPT !.probe.lc = "STOPPING"], "tick", {"stop"}).st, Nobody)
                    /\ s.app.lc \in InFlight =>
                          Evolves(s, Schedule([s EXCEPT !.app.lc = "STOPPING"], "tick", {"stop"}).st, Nobody)
  OBVIOUS
<1>1. \A a \in Action : a.lc \in InFlight => Descends(a, [a EXCEPT !.lc = "STOPPING"], Nobody)
  BY NewLc, StopsDescends
<1>2. s.probe \in Action /\ s.app \in Action /\ s.prep \in Action /\ s.fin \in Action
  BY Fields
<1>3. Replaces(s, StopFinalization(s).st, "fin", [s.fin EXCEPT !.lc = "STOPPING"])
  BY Shape DEF StopFinalization, Schedule, Decision, Replaces, Kinds
<1>4. Replaces(s, StopPreparation(s).st, "prep", [s.prep EXCEPT !.lc = "STOPPING"])
  BY Shape DEF StopPreparation, Schedule, Decision, Replaces, Kinds
<1>5. Replaces(s, Schedule([s EXCEPT !.probe.lc = "STOPPING"], "tick", {"stop"}).st,
               "probe", [s.probe EXCEPT !.lc = "STOPPING"])
  BY Shape DEF Schedule, Decision, Replaces, Kinds
<1>6. Replaces(s, Schedule([s EXCEPT !.app.lc = "STOPPING"], "tick", {"stop"}).st,
               "app", [s.app EXCEPT !.lc = "STOPPING"])
  BY Shape DEF Schedule, Decision, Replaces, Kinds
<1> QED
  BY <1>1, <1>2, <1>3, <1>4, <1>5, <1>6, ReplacesEvolves DEF Kinds

\* A finalization whose result is not confirmed has failed.
LEMMA FailFinalizationEvolves ==
    \A s \in State : s.fin.lc = "RESULT_PENDING" => Evolves(s, FailFinalization(s), Nobody)
<1> SUFFICES ASSUME NEW s \in State, s.fin.lc = "RESULT_PENDING"
             PROVE Evolves(s, FailFinalization(s), Nobody)
  OBVIOUS
<1> DEFINE b == [s.fin EXCEPT !.lc = "FAILED"]
<1>1. b.lc = "FAILED" /\ b.id = s.fin.id
  BY Fields, NewLc
<1>2. Replaces(s, FailFinalization(s), "fin", b)
  BY Shape DEF FailFinalization, AppendTombstone, Replaces, Kinds
<1> HIDE DEF b
<1>3. Descends(s.fin, b, Nobody)
  BY <1>1, EndsDescends DEF Held, Live, Terminal, Failed
<1> QED
  BY <1>2, <1>3, ReplacesEvolves DEF Kinds

\* A finalization whose result is confirmed leaves the state, with its plan.
LEMMA ConfirmEvolves ==
    \A s \in State : Calm(s) => Evolves(s, ConfirmFinalization(s).st, Nobody)
<1> SUFFICES ASSUME NEW s \in State, Calm(s) PROVE Evolves(s, ConfirmFinalization(s).st, Nobody)
  OBVIOUS
<1> DEFINE p == s.fin.profile
           r == AppendTombstone(s, s.fin, "COMPLETED")
           t == DiscardPlanning(r)
           u == [ResetApplicationRecovery(t, p) EXCEPT
                    !.stable = p, !.finalized = p, !.required = FALSE, !.fin = NoAction]
<1>1. r \in State /\ Untouched(s, r)
  BY AppendTombstoneType, Fields, RecordsTouch DEF Terminal, Framed
<1>2. t \in State /\ Replaces(r, t, "prep", NoAction)
  BY <1>1, DiscardPlanningType, DiscardTouches
<1>3. ConfirmFinalization(s).st = Quiesce(u).st
  BY DEF ConfirmFinalization
<1> HIDE DEF r, t
<1>4. Replaces(t, u, "fin", NoAction) /\ {"probe", "app", "prep", "fin", "seq"} \subseteq DOMAIN u
  BY <1>2, Shape DEF ResetApplicationRecovery, Replaces, Kinds
<1> HIDE DEF u
<1>5. Untouched(u, Quiesce(u).st)
  BY <1>4 DEF Quiesce, Decision, Untouched, Kinds
<1>6. LET v == Quiesce(u).st IN v.seq = s.seq /\ \A k \in Kinds : v[k] = s[k] \/ v[k] = NoAction
  BY <1>1, <1>2, <1>4, <1>5 DEF Untouched, Replaces
<1> QED
  BY <1>3, <1>6, DropsEvolve

\* A sample during a finalization.
LEMMA ObserveFinalizingEvolves ==
    \A s : \A o : Sound(s) /\ s.phase = "FINALIZING" => Evolves(s, ObserveFinalizing(s, o).st, Nobody)
<1> SUFFICES ASSUME NEW s, NEW o, Sound(s), s.phase = "FINALIZING"
             PROVE Evolves(s, ObserveFinalizing(s, o).st, Nobody)
  OBVIOUS
<1>1. s \in State /\ s.fin.lc \in {"DISPATCHED", "RESULT_PENDING"}
  BY DEF Sound, Placed
<1>2. CASE s.fin.lc = "RESULT_PENDING"
  <2>1. Calm(s)
    <3>1. Busy(s.fin) /\ ~Live(s.fin) /\ "fin" \in Kinds
      BY <1>2 DEF Busy, Live, InFlight, Kinds
    <3>2. \A k \in Kinds : k # "fin" => ~Busy(s[k])
      BY <3>1 DEF Sound, Ids
    <3> QED
      BY <3>1, <3>2, Stages DEF Calm
  <2>2. FailFinalization(s) \in State
    BY <1>1, FailFinalizationType
  <2>3. Evolves(s, Schedule(FailFinalization(s), "health", {}).st, Nobody)
    BY <1>1, <1>2, <2>2, FailFinalizationEvolves, ScheduleTouches, UntouchedEvolves, EvolvesOn DEF Framed
  <2> QED
    BY <1>1, <1>2, <2>1, <2>3, ConfirmEvolves DEF ObserveFinalizing
<1>3. CASE s.fin.lc = "DISPATCHED"
  <2>1. Evolves(s, Schedule(s, "tick", {}).st, Nobody)
    BY <1>1, ScheduleTouches, UntouchedEvolves DEF Framed
  <2>2. Evolves(s, StopFinalization(s).st, Nobody)
    BY <1>1, <1>3, StopsEvolve DEF InFlight
  <2> QED
    BY <1>3, <2>1, <2>2 DEF ObserveFinalizing
<1> QED
  BY <1>1, <1>2, <1>3

\* A preparation whose result was looked at has ended.
LEMMA PreparationEnds ==
    \A s \in State : \A t : \A lc \in {"COMPLETED", "FAILED"} :
        s.prep.lc = "RESULT_PENDING" /\ Replaces(s, t, "prep", [s.prep EXCEPT !.lc = lc])
            => Evolves(s, t, Nobody)
<1> SUFFICES ASSUME NEW s \in State, NEW t, NEW lc \in {"COMPLETED", "FAILED"},
                    s.prep.lc = "RESULT_PENDING",
                    Replaces(s, t, "prep", [s.prep EXCEPT !.lc = lc])
             PROVE Evolves(s, t, Nobody)
  OBVIOUS
<1> DEFINE b == [s.prep EXCEPT !.lc = lc]
<1>1. b.lc = lc /\ b.id = s.prep.id
  BY Fields, NewLc
<1>2. Held(s.prep) /\ ~Live(s.prep)
  BY DEF Held, Live
<1> HIDE DEF b
<1>3. Descends(s.prep, b, Nobody)
  BY <1>1, <1>2, EndsDescends DEF Terminal, Failed
<1> QED
  BY <1>3, ReplacesEvolves DEF Kinds, b

\* A sample during a preparation.
LEMMA ObservePreparingAdvances ==
    \A s : \A o \in Observations :
        Sound(s) /\ s.prepState = "PREPARING" => Advances(s, ObservePreparing(s, o).st, Nobody)
<1> SUFFICES ASSUME NEW s, NEW o \in Observations, Sound(s), s.prepState = "PREPARING"
             PROVE Advances(s, ObservePreparing(s, o).st, Nobody)
  OBVIOUS
<1> DEFINE since == IF s.verify = -1 THEN 0 ELSE s.verify
           r == AppendTombstone(s, s.prep, "COMPLETED")
           done == [r EXCEPT !.phase = "VERIFYING", !.verify = since,
                             !.prepState = "PREPARED", !.prep.lc = "COMPLETED"]
           failed == [AppendTombstone(s, s.prep, "FAILED") EXCEPT
                        !.prepState = "PREPARE_FAILED", !.prep.lc = "FAILED", !.verify = -1]
           away == [s EXCEPT !.phase = "DISCOVER_FAST", !.verify = -1]
           exact == [s EXCEPT !.phase = "VERIFYING", !.verify = since]
<1>1. s \in State /\ s.prep.lc \in {"DISPATCHED", "RESULT_PENDING"}
  BY DEF Sound, Placed
<1>2. \/ ObservePreparing(s, o) \in {Schedule(away, "tick", {}), Schedule(exact, "tick", {}), StopPreparation(s)}
      \/ s.prep.lc = "RESULT_PENDING" /\ ObservePreparing(s, o) \in {Classify(done, o), Schedule(failed, "health", {})}
  BY DEF ObservePreparing
<1>3. Evolves(s, StopPreparation(s).st, Nobody)
  BY <1>1, StopsEvolve DEF InFlight
<1>4. Untouched(s, Schedule(away, "tick", {}).st) /\ Untouched(s, Schedule(exact, "tick", {}).st)
  BY <1>1, Shape DEF Schedule, Decision, Untouched, Kinds
<1>5. CASE ObservePreparing(s, o) \in {Schedule(away, "tick", {}), Schedule(exact, "tick", {}), StopPreparation(s)}
  BY <1>1, <1>3, <1>4, <1>5, UntouchedEvolves, EvolvesAdvances
<1>6. CASE s.prep.lc = "RESULT_PENDING" /\ ObservePreparing(s, o) = Schedule(failed, "health", {})
  <2>1. Replaces(s, Schedule(failed, "health", {}).st, "prep", [s.prep EXCEPT !.lc = "FAILED"])
    BY <1>1, Shape DEF AppendTombstone, Schedule, Decision, Replaces, Kinds
  <2>2. "FAILED" \in Terminal
    BY DEF Terminal, Failed
  <2> HIDE DEF failed
  <2>3. Evolves(s, Schedule(failed, "health", {}).st, Nobody)
    BY <1>1, <1>6, <2>1, <2>2, PreparationEnds
  <2> QED
    BY <1>1, <1>6, <2>3, EvolvesAdvances
<1>7. CASE s.prep.lc = "RESULT_PENDING" /\ ObservePreparing(s, o) = Classify(done, o)
  <2>1. Replaces(s, done, "prep", [s.prep EXCEPT !.lc = "COMPLETED"])
    BY <1>1, Shape DEF AppendTombstone, Replaces, Kinds
  <2>2. "COMPLETED" \in Terminal /\ "COMPLETED" \in Lifecycles
    BY DEF Terminal, Lifecycles
  <2>3. done \in State
    <3>1. since \in -1..ProfileStability
      BY <1>1, Fields, BoundsAssumption
    <3>2. r \in State
      BY <1>1, <2>2, AppendTombstoneType, Fields
    <3> HIDE DEF since, r
    <3>3. [r EXCEPT !.phase = "VERIFYING", !.verify = since, !.prepState = "PREPARED"] \in State
      BY <3>1, <3>2, Named, Set_phase, Set_verify, Set_prepState DEF PrepStates
    <3> DEFINE q == [r EXCEPT !.phase = "VERIFYING", !.verify = since, !.prepState = "PREPARED"]
    <3>4. [q EXCEPT !.prep.lc = "COMPLETED"] \in State
      BY <2>2, <3>3, SetLc
    <3>5. done = [q EXCEPT !.prep.lc = "COMPLETED"]
      OBVIOUS
    <3> QED
      BY <3>4, <3>5
  <2> HIDE DEF done
  <2>4. Evolves(s, done, Nobody)
    BY <1>1, <1>7, <2>1, <2>2, PreparationEnds
  <2>5. Still(done)
    <3>1. Busy(s.prep) /\ "prep" \in Kinds
      BY <1>7 DEF Busy, InFlight, Kinds
    <3>2. \A k \in Kinds : k # "prep" => ~Busy(s[k])
      BY <3>1 DEF Sound, Ids
    <3>3. [s.prep EXCEPT !.lc = "COMPLETED"].lc = "COMPLETED"
      BY <1>1, Fields, NewLc
    <3>4. ~Busy(done.prep)
      BY <2>1, <3>3 DEF Replaces, Busy, InFlight
    <3> QED
      BY <2>1, <3>2, <3>4 DEF Still, Replaces
  <2>6. Advances(done, Classify(done, o).st, Nobody) /\ Classify(done, o).st \in State
    BY <2>3, <2>5, ClassifyAdvances, ClassifyType, DecisionParts
  <2> QED
    BY <1>1, <1>7, <2>3, <2>4, <2>6, EvolvesAdvances, AdvancesOn
<1> QED
  BY <1>2, <1>5, <1>6, <1>7

\* Where no stop is under way, a live worker is a dispatched one.
LEMMA LiveDispatched == \A s : \A k \in Kinds : ~Stopping(s) /\ Live(s[k]) => s[k].lc = "DISPATCHED"
  BY DEF Stopping, Mutators, Live, Kinds

\* A sample of the epoch.
LEMMA ObserveEpochAdvances ==
    \A s : \A o \in Observations :
        Sound(s) /\ ~Stopping(s) => Advances(s, ObserveEpoch(s, o).st, Nobody)
<1> SUFFICES ASSUME NEW s, NEW o \in Observations, Sound(s), ~Stopping(s)
             PROVE Advances(s, ObserveEpoch(s, o).st, Nobody)
  OBVIOUS
<1>1. s \in State
  BY DEF Sound
<1>2. CASE s.phase \in {"PROBING", "APPLYING"}
  BY <1>1, <1>2, ScheduleTouches, UntouchedEvolves, EvolvesAdvances DEF ObserveEpoch, Framed
<1>3. CASE s.phase = "FINALIZING"
  BY <1>1, <1>3, ObserveFinalizingEvolves, EvolvesAdvances DEF ObserveEpoch
<1>4. CASE s.phase \notin {"PROBING", "APPLYING", "FINALIZING"} /\ s.prepState = "PREPARING"
  BY <1>4, ObservePreparingAdvances DEF ObserveEpoch
<1>5. CASE s.phase \notin {"PROBING", "APPLYING", "FINALIZING"} /\ s.prepState # "PREPARING"
  <2>1. Calm(s)
    BY <1>5, LiveDispatched DEF Calm, Sound, Placed, Kinds, InFlight
  <2>2. Settled(s)
    BY <1>5, <2>1 DEF Settled
  <2> QED
    BY <1>5, <2>2, ClassifyObservationAdvances DEF ObserveEpoch
<1> QED
  BY <1>2, <1>3, <1>4, <1>5

\* A changed token stops the worker that may still mutate.
LEMMA StopForTokenEvolves ==
    \A s : Sound(s) /\ MayMutate(s) => Evolves(s, StopForToken(s).st, Nobody)
<1> SUFFICES ASSUME NEW s, Sound(s), MayMutate(s) PROVE Evolves(s, StopForToken(s).st, Nobody)
  OBVIOUS
<1>1. s \in State
  BY DEF Sound
<1>2. CASE s.phase = "PROBING" /\ s.probe.lc = "DISPATCHED"
  BY <1>1, <1>2, StopsEvolve DEF StopForToken, InFlight
<1>3. CASE s.phase = "APPLYING" /\ s.app.lc = "DISPATCHED"
  BY <1>1, <1>3, StopsEvolve DEF StopForToken, InFlight
<1>4. CASE s.phase = "FINALIZING"
  <2>1. s.fin.lc \in {"DISPATCHED", "RESULT_PENDING"}
    BY <1>4 DEF Sound, Placed
  <2>2. CASE s.fin.lc = "RESULT_PENDING"
    <3>1. Evolves(s, FailFinalization(s), Nobody) /\ FailFinalization(s) \in State
      BY <1>1, <2>2, FailFinalizationEvolves, FailFinalizationType
    <3> DEFINE t == ClearProof(FailFinalization(s))
    <3>2. t \in State /\ Evolves(FailFinalization(s), t, Nobody)
      BY <3>1, ClearProofType, RecordsTouch, UntouchedEvolves DEF Framed
    <3>3. Evolves(t, Schedule(t, "health", {}).st, Nobody)
      BY <3>2, ScheduleTouches, UntouchedEvolves DEF Framed
    <3>4. StopForToken(s) = Schedule(t, "health", {})
      BY <1>4, <2>2 DEF StopForToken
    <3> QED
      BY <3>1, <3>2, <3>3, <3>4, EvolvesOn
  <2>3. CASE s.fin.lc # "RESULT_PENDING"
    BY <1>1, <1>4, <2>1, <2>3, StopsEvolve DEF StopForToken, InFlight
  <2> QED
    BY <2>2, <2>3
<1>5. CASE s.phase # "FINALIZING" /\ s.prepState = "PREPARING"
  BY <1>1, <1>2, <1>3, <1>5, StopsEvolve DEF StopForToken, InFlight, Sound, Placed
<1> QED
  BY <1>2, <1>3, <1>4, <1>5 DEF MayMutate

\* A sample of a new epoch finds no live worker.
LEMMA EnterEpochSound ==
    \A s : \A o \in Observations : \A prior :
        /\ Sound(s) /\ ~Stopping(s)
        /\ s.token # Evidence[o.key].token => ~MayMutate(s)
        => LET t == EnterEpoch(s, o, prior)
           IN Sound(t) /\ ~Stopping(t) /\ Evolves(s, t, Nobody)
<1> SUFFICES ASSUME NEW s, NEW o \in Observations, NEW prior, Sound(s), ~Stopping(s),
                    s.token # Evidence[o.key].token => ~MayMutate(s)
             PROVE LET t == EnterEpoch(s, o, prior)
                   IN Sound(t) /\ ~Stopping(t) /\ Evolves(s, t, Nobody)
  OBVIOUS
<1> DEFINE t == EnterEpoch(s, o, prior)
<1>1. s \in State /\ Pending(s) /\ t \in State /\ Pending(t)
  BY EnterEpochType DEF Sound
<1>2. CASE s.token # Evidence[o.key].token
  <2>1. t = ResetForEpoch(s, o)
    BY <1>2 DEF EnterEpoch
  <2>2. Calm(s)
    BY <1>2, LiveDispatched DEF Calm, Sound, Placed, Kinds, InFlight, MayMutate
  <2>3. Evolves(s, t, Nobody)
    BY <1>1, <2>1, <2>2, ResetEvolves
  <2>4. Ids(t) /\ Placed(t) /\ Calm(t)
    BY <1>1, <2>1, ResetEmpty, EmptySound
  <2>5. ~Stopping(t)
    BY <2>4 DEF Stopping, Mutators, Calm, Live, Kinds
  <2> QED
    BY <1>1, <2>3, <2>4, <2>5 DEF Sound
<1>3. CASE t = s
  BY <1>3, UntouchedEvolves DEF Untouched
<1>4. CASE s.phase = "WAIT_SLOW" /\
           t = [s EXCEPT !.phase = "DISCOVER_FAST", !.aggr = AggressiveBudget, !.backoff = 0]
  <2>1. Untouched(s, t) /\ t.phase = "DISCOVER_FAST" /\ t.prepState = s.prepState /\ t.planState = s.planState
    BY <1>1, <1>4, Shape DEF Untouched, Kinds
  <2> HIDE DEF t
  <2>2. Ids(t)
    BY <2>1 DEF Sound, Ids, Numbered, Untouched
  <2>3. Placed(t) /\ ~Stopping(t)
    BY <1>4, <2>1, EachKind DEF Sound, Placed, Stopping, Mutators
  <2> QED
    BY <1>1, <2>1, <2>2, <2>3, UntouchedEvolves DEF Sound, t
<1> QED
  BY <1>2, <1>3, <1>4 DEF EnterEpoch

\* A valid sample.
LEMMA ObserveValidAdvances ==
    \A s : \A o \in Observations : \A prior :
        Sound(s) => Advances(s, ObserveValid(s, o, prior).st, Nobody)
<1> SUFFICES ASSUME NEW s, NEW o \in Observations, NEW prior, Sound(s)
             PROVE Advances(s, ObserveValid(s, o, prior).st, Nobody)
  OBVIOUS
<1> DEFINE laptop == Evidence[o.key].external /\ s.app.profile \in InternalProfiles
                     /\ s.app.lc = "DISPATCHED"
           stopped == Schedule([s EXCEPT !.phase = "APPLYING", !.app.lc = "STOPPING",
                                         !.cand = NoCandidate, !.verify = -1],
                               "tick", {"stop"})
<1>1. s \in State
  BY DEF Sound
<1>2. CASE laptop
  <2>1. Replaces(s, stopped.st, "app", [s.app EXCEPT !.lc = "STOPPING"])
    BY <1>1, Shape DEF Schedule, Decision, Replaces, Kinds
  <2>2. \A a \in Action : a.lc \in InFlight => Descends(a, [a EXCEPT !.lc = "STOPPING"], Nobody)
    BY NewLc, StopsDescends
  <2>3. s.app \in Action /\ s.app.lc \in InFlight /\ "app" \in Kinds
    BY <1>1, <1>2, Fields DEF InFlight, Kinds
  <2>4. ObserveValid(s, o, prior) = stopped
    BY <1>2 DEF ObserveValid
  <2> HIDE DEF stopped
  <2> QED
    BY <1>1, <2>1, <2>2, <2>3, <2>4, ReplacesEvolves, EvolvesAdvances
<1>3. CASE ~laptop /\ Stopping(s)
  BY <1>1, <1>3, ScheduleTouches, UntouchedEvolves, EvolvesAdvances DEF ObserveValid, Framed
<1>4. CASE ~laptop /\ ~Stopping(s) /\ s.token # Evidence[o.key].token /\ MayMutate(s)
  BY <1>1, <1>4, StopForTokenEvolves, EvolvesAdvances DEF ObserveValid
<1>5. CASE ~laptop /\ ~Stopping(s) /\ ~(s.token # Evidence[o.key].token /\ MayMutate(s))
  <2> DEFINE t == EnterEpoch(s, o, prior)
  <2>1. Sound(t) /\ ~Stopping(t) /\ Evolves(s, t, Nobody)
    BY <1>5, EnterEpochSound
  <2>2. ObserveValid(s, o, prior) = ObserveEpoch(t, o)
    BY <1>5 DEF ObserveValid
  <2> HIDE DEF t
  <2>3. t \in State /\ ObserveEpoch(t, o).st \in State /\ Advances(t, ObserveEpoch(t, o).st, Nobody)
    BY <2>1, ObserveEpochAdvances, ObserveEpochType, DecisionParts DEF Sound
  <2> QED
    BY <1>1, <2>1, <2>2, <2>3, EvolvesAdvances, AdvancesOn
<1> QED
  BY <1>2, <1>3, <1>4, <1>5

\* What is withdrawn was admitted and never ran.
LEMMA WithdrawEvolves ==
    \A s \in State : WithdrawAdmissions(s) \in State /\ Evolves(s, WithdrawAdmissions(s), Nobody)
<1> SUFFICES ASSUME NEW s \in State
             PROVE WithdrawAdmissions(s) \in State /\ Evolves(s, WithdrawAdmissions(s), Nobody)
  OBVIOUS
<1>1. \A t \in State : Evolves(t, t, Nobody)
  BY UntouchedEvolves DEF Untouched
<1>2. "CANCELLED" \in Terminal /\ \A a : a.lc = "ADMITTED" => ~Live(a)
  BY DEF Terminal, Live
<1>3. \A t \in State : WithdrawProbe(t) \in State /\ Evolves(t, WithdrawProbe(t), Nobody)
  BY <1>1, <1>2, DropType, DropEvolves DEF WithdrawProbe
<1>4. \A t \in State : WithdrawApplication(t) \in State /\ Evolves(t, WithdrawApplication(t), Nobody)
  BY <1>1, <1>2, DropType, DropEvolves DEF WithdrawApplication
<1>5. \A t \in State : WithdrawPreparation(t) \in State /\ Evolves(t, WithdrawPreparation(t), Nobody)
  <2> SUFFICES ASSUME NEW t \in State, t.prep.lc = "ADMITTED"
               PROVE WithdrawPreparation(t) \in State /\ Evolves(t, WithdrawPreparation(t), Nobody)
    BY <1>1 DEF WithdrawPreparation
  <2> DEFINE r == DropPreparation(t, "CANCELLED")
             u == [r EXCEPT !.phase = "DISCOVER_FAST"]
  <2>1. r \in State /\ Replaces(t, r, "prep", NoAction)
    BY <1>2, DropType, DropTouches
  <2> HIDE DEF r
  <2>2. u \in State /\ Replaces(t, u, "prep", NoAction)
    BY <2>1, Named, Set_phase, Shape DEF Replaces, Kinds
  <2>3. WithdrawPreparation(t) = DiscardPlanning(u)
    BY DEF WithdrawPreparation, r
  <2> HIDE DEF u
  <2>4. DiscardPlanning(u) \in State /\ Replaces(t, DiscardPlanning(u), "prep", NoAction)
    BY <2>2, DiscardPlanningType, DiscardTouches DEF Replaces
  <2> QED
    BY <1>2, <2>3, <2>4, LeavesDescends, ReplacesEvolves DEF Kinds
<1>6. \A t \in State : WithdrawFinalization(t) \in State /\ Evolves(t, WithdrawFinalization(t), Nobody)
  BY <1>1, <1>2, DropType, DropEvolves DEF WithdrawFinalization
<1> DEFINE a == WithdrawProbe(s)
           b == WithdrawApplication(a)
           c == WithdrawPreparation(b)
<1>7. a \in State /\ Evolves(s, a, Nobody)
  BY <1>3
<1> HIDE DEF a
<1>8. b \in State /\ Evolves(s, b, Nobody)
  BY <1>4, <1>7, EvolvesOn
<1> HIDE DEF b
<1>9. c \in State /\ Evolves(s, c, Nobody)
  BY <1>5, <1>8, EvolvesOn
<1> HIDE DEF c
<1>10. WithdrawFinalization(c) \in State /\ Evolves(s, WithdrawFinalization(c), Nobody)
  BY <1>6, <1>9, EvolvesOn
<1> QED
  BY <1>10 DEF WithdrawAdmissions, a, b, c

\* An invalid sample withdraws admissions and stops a load of the laptop's profile.
LEMMA ObserveInvalidEvolves ==
    \A s \in State : \A o \in Observations : Evolves(s, ObserveInvalid(s, o).st, Nobody)
<1> SUFFICES ASSUME NEW s \in State, NEW o \in Observations
             PROVE Evolves(s, ObserveInvalid(s, o).st, Nobody)
  OBVIOUS
<1> DEFINE e == Evidence[o.key].external
           r == [s EXCEPT !.intent = @ \/ e, !.unplug = NoUnplug, !.verify = -1]
           t == WithdrawAdmissions(r)
           stopped == Schedule([t EXCEPT !.app.lc = "STOPPING"], "tick", {"stop"})
<1>1. r \in State
  BY EvidenceAssumption, ObservationType, Fields, NoneTyped, Set_intent, Set_unplug, Set_verify DEF Facts
<1>2. Untouched(s, r)
  BY Shape DEF Untouched, Kinds
<1> HIDE DEF r
<1>3. t \in State /\ Evolves(s, t, Nobody)
  BY <1>1, <1>2, WithdrawEvolves, UntouchedEvolves, EvolvesOn
<1>4. ObserveInvalid(s, o) = AwaitValid(t, e)
  BY DEF ObserveInvalid, r
<1> HIDE DEF t, e
<1>5. Evolves(t, AwaitValid(t, e).st, Nobody)
  <2>1. CASE e /\ InternalLoadInFlight(t)
    <3>1. t.app.lc \in InFlight
      BY <2>1 DEF InternalLoadInFlight, InFlight
    <3> QED
      BY <1>3, <2>1, <3>1, StopsEvolve DEF AwaitValid
  <2>2. CASE ~(e /\ InternalLoadInFlight(t))
    <3>1. Untouched(t, AwaitValid(t, e).st)
      BY <1>3, <2>2, Shape DEF AwaitValid, Schedule, Decision, Untouched, Kinds
    <3> QED
      BY <3>1, UntouchedEvolves
  <2> QED
    BY <2>1, <2>2
<1> QED
  BY <1>3, <1>4, <1>5, EvolvesOn

\* Recording a sample touches no mutator.
LEMMA RecordTouches == \A s \in State : \A o : Framed(s, RecordObservation(s, o))
  BY Shape DEF RecordObservation, Framed, Untouched, Kinds

\* A sample is taken in without a live worker being forgotten, and admits a
\* mutator only when no other is busy.
LEMMA ObservationCompletedAdvances ==
    \A s : \A o \in Observations : \A dt \in Nat :
        Sound(s) => Advances(s, ObservationCompleted(s, o, dt).st, Nobody)
<1> SUFFICES ASSUME NEW s, NEW o \in Observations, NEW dt \in Nat, Sound(s)
             PROVE Advances(s, ObservationCompleted(s, o, dt).st, Nobody)
  OBVIOUS
<1> DEFINE r == Elapse(s, dt)
           t == RecordObservation(r, o)
<1>1. s \in State /\ Pending(s)
  BY DEF Sound
<1>2. r \in State /\ Framed(s, r) /\ Pending(r)
  BY <1>1, ElapseType, ElapseKeepsPending, RecordsTouch
<1> HIDE DEF r
<1>3. t \in State /\ Framed(r, t) /\ Pending(t)
  BY <1>2, RecordObservationType, RecordKeepsPending, RecordTouches
<1>4. Framed(s, t)
  BY <1>2, <1>3 DEF Framed, Untouched
<1>5. Sound(t) /\ Advances(s, t, Nobody)
  BY <1>1, <1>3, <1>4, FramedSound, UntouchedEvolves, EvolvesAdvances DEF Sound, Framed
<1>6. ObservationCompleted(s, o, dt) \in {NoOp(s), ObserveValid(t, o, s.obs), ObserveInvalid(t, o)}
  BY DEF ObservationCompleted, r
<1> HIDE DEF t
<1>7. Advances(s, NoOp(s).st, Nobody)
  BY <1>1, UntouchedEvolves, EvolvesAdvances DEF NoOp, Decision, Untouched
<1>8. Advances(t, ObserveValid(t, o, s.obs).st, Nobody) /\ ObserveValid(t, o, s.obs).st \in State
  BY <1>3, <1>5, ObserveValidAdvances, ObserveValidType, DecisionParts
<1>9. Advances(t, ObserveInvalid(t, o).st, Nobody) /\ ObserveInvalid(t, o).st \in State
  BY <1>3, ObserveInvalidEvolves, EvolvesAdvances, ObserveInvalidType, DecisionParts
<1> QED
  BY <1>1, <1>3, <1>5, <1>6, <1>7, <1>8, <1>9, AdvancesOn

-----------------------------------------------------------------------------
(* The other events. *)

\* An event that is ignored, a timer, a failed sample, and the progress of a plan.
LEMMA QuietEvents ==
    \A s \in State : \A id, x :
        /\ Evolves(s, NoOp(s).st, x)
        /\ Evolves(s, TimerFired(s).st, x)
        /\ Evolves(s, ObservationFailed(s).st, x)
        /\ Evolves(s, PlanRequested(s, id).st, x)
        /\ Evolves(s, PlanCompleted(s, id).st, x)
<1> SUFFICES ASSUME NEW s \in State, NEW id
             PROVE /\ Untouched(s, NoOp(s).st)
                   /\ Untouched(s, TimerFired(s).st)
                   /\ Untouched(s, ObservationFailed(s).st)
                   /\ Untouched(s, PlanRequested(s, id).st)
                   /\ Untouched(s, PlanCompleted(s, id).st)
  BY UntouchedEvolves
<1>1. Untouched(s, NoOp(s).st) /\ Untouched(s, TimerFired(s).st)
  BY Shape DEF NoOp, TimerFired, Decision, Untouched, Kinds
<1>2. Untouched(s, ObservationFailed(s).st)
  BY ScheduleTouches DEF ObservationFailed, Framed
<1>3. Untouched(s, PlanRequested(s, id).st)
  BY Shape DEF PlanRequested, NoOp, Decision, Untouched, Kinds
<1>4. Untouched(s, PlanCompleted(s, id).st)
  BY Shape DEF PlanCompleted, AppendTombstone, NoOp, Schedule, Decision, Untouched, Kinds
<1> QED
  BY <1>1, <1>2, <1>3, <1>4

\* A hint touches no mutator at first.
LEMMA DisturbedTouches == \A s \in State : \A g, dt : Framed(s, Disturbed(s, g, dt))
  BY Shape DEF Disturbed, Elapse, Framed, Untouched, Kinds

\* A pending preparation is not live.
LEMMA PendingNotLive ==
    \A s : Placed(s) => /\ s.prepState = "PREPARE_PENDING" => ~Live(s.prep)
                        /\ s.phase \in {"FINALIZE_PENDING", "FINALIZE_FAILED"} => ~Live(s.fin)
                        /\ s.planState # "PLAN_READY" => ~Live(s.prep)
  BY Stages DEF Placed, Live, InFlight

\* A hint withdraws the admission of a desktop action.
LEMMA WithdrawDesktopEvolves ==
    \A s \in State : Placed(s) => Evolves(s, WithdrawDesktopAdmission(s), Nobody)
<1> SUFFICES ASSUME NEW s \in State, Placed(s) PROVE Evolves(s, WithdrawDesktopAdmission(s), Nobody)
  OBVIOUS
<1> DEFINE r == DropPreparation(s, "CANCELLED")
           t == IF s.prepState = "PREPARE_PENDING" THEN DiscardPlanning(r) ELSE s
           u == [AppendTombstone(t, t.fin, "CANCELLED") EXCEPT !.fin = NoAction]
<1>1. "CANCELLED" \in Terminal
  BY DEF Terminal
<1>2. t \in State /\ Evolves(s, t, Nobody) /\ t.phase = s.phase /\ t.fin = s.fin
  <2>1. CASE s.prepState = "PREPARE_PENDING"
    <3>1. r \in State /\ Replaces(s, r, "prep", NoAction) /\ r.phase = s.phase
      BY <1>1, DropType, DropTouches, DropPreparationFrame
    <3> HIDE DEF r
    <3>2. t = DiscardPlanning(r)
      BY <2>1
    <3>3. t \in State /\ Replaces(s, t, "prep", NoAction) /\ t.phase = s.phase /\ t.fin = s.fin
      BY <3>1, <3>2, DiscardPlanningType, DiscardTouches DEF Replaces, Kinds
    <3>4. Descends(s.prep, NoAction, Nobody)
      BY <2>1, PendingNotLive, LeavesDescends
    <3> QED
      BY <3>3, <3>4, ReplacesEvolves DEF Kinds
  <2>2. CASE s.prepState # "PREPARE_PENDING"
    BY <2>2, UntouchedEvolves DEF Untouched
  <2> QED
    BY <2>1, <2>2
<1>3. WithdrawDesktopAdmission(s) = IF t.phase = "FINALIZE_PENDING" THEN u ELSE t
  BY DEF WithdrawDesktopAdmission
<1> HIDE DEF t
<1>4. CASE t.phase = "FINALIZE_PENDING"
  <2>1. Replaces(t, u, "fin", NoAction)
    BY <1>2, Shape DEF AppendTombstone, Replaces, Kinds
  <2>2. Descends(t.fin, NoAction, Nobody)
    BY <1>2, <1>4, PendingNotLive, LeavesDescends
  <2> QED
    BY <1>2, <1>3, <1>4, <2>1, <2>2, ReplacesEvolves, EvolvesOn DEF Kinds
<1> QED
  BY <1>2, <1>3, <1>4

\* A hint ends proofs and admissions, and no worker.
LEMMA DrmHintEvolves ==
    \A s : \A g, dt \in Nat : Sound(s) => Evolves(s, DrmHintReceived(s, g, dt).st, Nobody)
<1> SUFFICES ASSUME NEW s, NEW g \in Nat, NEW dt \in Nat, Sound(s)
             PROVE Evolves(s, DrmHintReceived(s, g, dt).st, Nobody)
  OBVIOUS
<1> DEFINE r == Disturbed(s, g, dt)
           t == WithdrawDesktopAdmission(r)
           u == [t EXCEPT !.phase = IF @ \in {"QUIESCENT", "VERIFYING", "UNSUPPORTED", "FINALIZE_PENDING"}
                                    THEN "DISCOVER_FAST" ELSE @]
<1>1. s \in State
  BY DEF Sound
<1>2. r \in State /\ Framed(s, r)
  BY <1>1, DisturbedType, DisturbedTouches
<1> HIDE DEF r
<1>3. Placed(r)
  BY <1>2, FramedSound DEF Sound
<1>4. t \in State /\ Evolves(r, t, Nobody)
  BY <1>2, <1>3, WithdrawDesktopType, WithdrawDesktopEvolves
<1>5. DrmHintReceived(s, g, dt) \in {NoOp(s), Schedule(u, "now", {"observe"})}
  BY DEF DrmHintReceived, r
<1> HIDE DEF t
<1>6. Untouched(t, Schedule(u, "now", {"observe"}).st)
  BY <1>4, Shape DEF Schedule, Decision, Untouched, Kinds
<1>7. Evolves(s, Schedule(u, "now", {"observe"}).st, Nobody)
  BY <1>2, <1>4, <1>6, UntouchedEvolves, EvolvesOn DEF Framed
<1> QED
  BY <1>1, <1>5, <1>7, QuietEvents

\* An offer that a hint made stale is withdrawn: the action meant is x.
LEMMA AdmissionDirtiedEvolves ==
    \A s \in State : \A x, g, dt \in Nat : Evolves(s, AdmissionDirtied(s, x, g, dt).st, x)
<1> SUFFICES ASSUME NEW s \in State, NEW x \in Nat, NEW g \in Nat, NEW dt \in Nat
             PROVE Evolves(s, AdmissionDirtied(s, x, g, dt).st, x)
  OBVIOUS
<1> DEFINE r == Disturbed(s, g, dt)
           t == WithdrawOffered(r, x)
<1>1. r \in State /\ Untouched(s, r)
  BY DisturbedType, DisturbedTouches DEF Framed
<1>2. AdmissionDirtied(s, x, g, dt) \in {NoOp(s), Schedule(t, "now", {"observe"})}
  BY DEF AdmissionDirtied
<1> HIDE DEF r
<1>3. t \in State
  BY <1>1, WithdrawOfferedType
<1>4. "CANCELLED" \in Terminal
  BY DEF Terminal
<1>5. Evolves(r, t, x)
  <2>1. CASE r.prep.id = x /\ Held(r.prep)
    <3> DEFINE q == DropPreparation(r, "CANCELLED")
               u == [q EXCEPT !.phase = "DISCOVER_FAST"]
    <3>1. q \in State /\ Replaces(r, q, "prep", NoAction)
      BY <1>1, <1>4, DropType, DropTouches
    <3>2. t = DiscardPlanning(u)
      BY <2>1 DEF WithdrawOffered
    <3> HIDE DEF q
    <3>3. u \in State /\ Replaces(r, u, "prep", NoAction)
      BY <3>1, Named, Set_phase, Shape DEF Replaces, Kinds
    <3> HIDE DEF u
    <3>4. Replaces(r, t, "prep", NoAction)
      BY <3>2, <3>3, DiscardTouches DEF Replaces
    <3> QED
      BY <2>1, <3>4, LeavesDescends, ReplacesEvolves DEF Kinds
  <2>2. CASE ~(r.prep.id = x /\ Held(r.prep)) /\ r.fin.id = x /\ Held(r.fin)
    BY <1>1, <1>4, <2>2, DropEvolves DEF WithdrawOffered
  <2>3. CASE ~(r.prep.id = x /\ Held(r.prep)) /\ ~(r.fin.id = x /\ Held(r.fin))
    BY <2>3, UntouchedEvolves DEF WithdrawOffered, Untouched
  <2> QED
    BY <2>1, <2>2, <2>3
<1> HIDE DEF t
<1>6. Evolves(s, Schedule(t, "now", {"observe"}).st, x)
  BY <1>1, <1>3, <1>5, ScheduleTouches, UntouchedEvolves, EvolvesOn DEF Framed
<1> QED
  BY <1>2, <1>6, QuietEvents

\* The failure of a held action that is the one meant, or of a plan.
LEMMA FailActionEvolves ==
    \A s \in State : \A x \in Nat : \A lc \in Failed :
        Numbered(s) /\ x # 0 /\ (s.planning.id = x \/ \E k \in Kinds : s[k].id = x)
            => Evolves(s, FailAction(s, x, lc), x)
<1> SUFFICES ASSUME NEW s \in State, NEW x \in Nat, NEW lc \in Failed,
                    Numbered(s), x # 0, s.planning.id = x \/ \E k \in Kinds : s[k].id = x
             PROVE Evolves(s, FailAction(s, x, lc), x)
  OBVIOUS
<1> DEFINE t == [s EXCEPT !.tombs = {y \in @ : y.id # x} \cup {[id |-> x, lc |-> lc]}]
<1>1. t \in State /\ Untouched(s, t) /\ t.planning = s.planning
  <2>1. {y \in s.tombs : y.id # x} \cup {[id |-> x, lc |-> lc]} \in SUBSET [id: Nat, lc: Terminal]
    BY Fields DEF Terminal
  <2>2. t \in State
    BY <2>1, Set_tombs
  <2> QED
    BY <2>2, Shape DEF Untouched, Kinds, State
<1>2. FailAction(s, x, lc) =
        IF s.planning.id = x
        THEN [t EXCEPT !.planState = "PLAN_FAILED", !.planning.lc = lc]
        ELSE IF s.probe.id = x THEN [t EXCEPT !.phase = "PROBE_FAILED", !.probe.lc = lc]
        ELSE IF s.app.id = x THEN [t EXCEPT !.phase = "APPLY_FAILED", !.app.lc = lc]
        ELSE IF s.prep.id = x THEN [t EXCEPT !.prepState = "PREPARE_FAILED", !.prep.lc = lc]
        ELSE [t EXCEPT !.phase = "FINALIZE_FAILED", !.fin.lc = lc]
  BY DEF FailAction
<1> HIDE DEF t
<1>3. t.probe = s.probe /\ t.app = s.app /\ t.prep = s.prep /\ t.fin = s.fin /\ t.seq = s.seq
  BY <1>1, EachKind DEF Untouched
<1>4. \A k \in Kinds : s[k].id = x => Descends(s[k], [s[k] EXCEPT !.lc = lc], x)
  <2> SUFFICES ASSUME NEW k \in Kinds, s[k].id = x PROVE Descends(s[k], [s[k] EXCEPT !.lc = lc], x)
    OBVIOUS
  <2>1. Held(s[k]) /\ s[k] \in Action
    BY KindsTyped DEF Numbered
  <2>2. [s[k] EXCEPT !.lc = lc].lc = lc /\ [s[k] EXCEPT !.lc = lc].id = s[k].id
    BY <2>1, NewLc
  <2> QED
    BY <2>1, <2>2, EndsDescends DEF Terminal
<1>5. CASE s.planning.id = x
  <2>1. Untouched(s, FailAction(s, x, lc))
    BY <1>1, <1>2, <1>3, <1>5, Shape DEF Untouched, Kinds
  <2> QED
    BY <2>1, UntouchedEvolves
<1>6. CASE s.planning.id # x /\ s.probe.id = x
  <2>3. FailAction(s, x, lc) = [t EXCEPT !.phase = "PROBE_FAILED", !.probe.lc = lc]
    BY <1>2, <1>6
  <2>4. Replaces(t, FailAction(s, x, lc), "probe", [t.probe EXCEPT !.lc = lc])
    BY <1>1, <2>3, Shape DEF Replaces, Kinds
  <2>1. Replaces(s, FailAction(s, x, lc), "probe", [s.probe EXCEPT !.lc = lc])
    BY <1>1, <1>3, <2>4 DEF Replaces, Untouched
  <2> QED
    BY <1>4, <1>6, <2>1, ReplacesEvolves DEF Kinds
<1>7. CASE s.planning.id # x /\ s.probe.id # x /\ s.app.id = x
  <2>3. FailAction(s, x, lc) = [t EXCEPT !.phase = "APPLY_FAILED", !.app.lc = lc]
    BY <1>2, <1>7
  <2>4. Replaces(t, FailAction(s, x, lc), "app", [t.app EXCEPT !.lc = lc])
    BY <1>1, <2>3, Shape DEF Replaces, Kinds
  <2>1. Replaces(s, FailAction(s, x, lc), "app", [s.app EXCEPT !.lc = lc])
    BY <1>1, <1>3, <2>4 DEF Replaces, Untouched
  <2> QED
    BY <1>4, <1>7, <2>1, ReplacesEvolves DEF Kinds
<1>8. CASE s.planning.id # x /\ s.probe.id # x /\ s.app.id # x /\ s.prep.id = x
  <2>3. FailAction(s, x, lc) = [t EXCEPT !.prepState = "PREPARE_FAILED", !.prep.lc = lc]
    BY <1>2, <1>8
  <2>4. Replaces(t, FailAction(s, x, lc), "prep", [t.prep EXCEPT !.lc = lc])
    BY <1>1, <2>3, Shape DEF Replaces, Kinds
  <2>1. Replaces(s, FailAction(s, x, lc), "prep", [s.prep EXCEPT !.lc = lc])
    BY <1>1, <1>3, <2>4 DEF Replaces, Untouched
  <2> QED
    BY <1>4, <1>8, <2>1, ReplacesEvolves DEF Kinds
<1>9. CASE s.planning.id # x /\ s.probe.id # x /\ s.app.id # x /\ s.prep.id # x
  <2>1. s.fin.id = x
    BY <1>9 DEF Kinds
  <2>4. FailAction(s, x, lc) = [t EXCEPT !.phase = "FINALIZE_FAILED", !.fin.lc = lc]
    BY <1>2, <1>9
  <2>5. Replaces(t, FailAction(s, x, lc), "fin", [t.fin EXCEPT !.lc = lc])
    BY <1>1, <2>4, Shape DEF Replaces, Kinds
  <2>2. Replaces(s, FailAction(s, x, lc), "fin", [s.fin EXCEPT !.lc = lc])
    BY <1>1, <1>3, <2>5 DEF Replaces, Untouched
  <2> QED
    BY <1>4, <2>1, <2>2, ReplacesEvolves DEF Kinds
<1> QED
  BY <1>5, <1>6, <1>7, <1>8, <1>9

\* A failed plan is no mutation, and a withdrawn one has no preparation.
LEMMA PlanFailedEvolves ==
    \A s : \A x \in Nat : \A retryable :
        Sound(s) /\ x # 0 => Evolves(s, PlanFailed(s, x, retryable).st, Nobody)
<1> SUFFICES ASSUME NEW s, NEW x \in Nat, NEW retryable, Sound(s), x # 0
             PROVE Evolves(s, PlanFailed(s, x, retryable).st, Nobody)
  OBVIOUS
<1> DEFINE t == DiscardPlanning(s)
           u == [t EXCEPT !.phase = "DISCOVER_FAST", !.verify = -1]
<1>1. s \in State /\ Placed(s)
  BY DEF Sound
<1>2. \/ PlanFailed(s, x, retryable) = NoOp(s)
      \/ /\ s.planState \in {"PLAN_PENDING", "PLANNING"} /\ s.planning.id = x
         /\ PlanFailed(s, x, retryable) \in {Schedule(u, "tick", {}),
                                             Schedule(FailAction(s, x, "FAILED"), "health", {})}
  BY DEF PlanFailed
<1>3. s.planState \in {"PLAN_PENDING", "PLANNING"} => Evolves(s, Schedule(u, "tick", {}).st, Nobody)
  <2> SUFFICES ASSUME s.planState \in {"PLAN_PENDING", "PLANNING"}
               PROVE Evolves(s, Schedule(u, "tick", {}).st, Nobody)
    OBVIOUS
  <2>1. t \in State /\ Evolves(s, t, Nobody)
    BY <1>1, PendingNotLive, DiscardPlanningType, DiscardEvolves
  <2> HIDE DEF t
  <2>2. Untouched(t, Schedule(u, "tick", {}).st)
    BY <2>1, Shape DEF Schedule, Decision, Untouched, Kinds
  <2> QED
    BY <2>1, <2>2, UntouchedEvolves, EvolvesOn
<1>4. s.planning.id = x => Evolves(s, Schedule(FailAction(s, x, "FAILED"), "health", {}).st, Nobody)
  <2> SUFFICES ASSUME s.planning.id = x
               PROVE Evolves(s, Schedule(FailAction(s, x, "FAILED"), "health", {}).st, Nobody)
    OBVIOUS
  <2>1. Untouched(s, Schedule(FailAction(s, x, "FAILED"), "health", {}).st)
    BY <1>1, Shape DEF FailAction, Schedule, Decision, Untouched, Kinds
  <2> QED
    BY <2>1, UntouchedEvolves
<1> QED
  BY <1>1, <1>2, <1>3, <1>4, QuietEvents

\* A rejected dispatch fails the action that was offered.
LEMMA DispatchRejectedEvolves ==
    \A s : \A x \in Nat : Sound(s) /\ x # 0 => Evolves(s, DispatchRejected(s, x).st, x)
<1> SUFFICES ASSUME NEW s, NEW x \in Nat, Sound(s), x # 0
             PROVE Evolves(s, DispatchRejected(s, x).st, x)
  OBVIOUS
<1>1. s \in State /\ Numbered(s)
  BY DEF Sound, Ids
<1>2. CASE \E a \in Actions(s) : a.id = x /\ a.lc = "ADMITTED"
  <2>1. s.planning.id = x \/ \E k \in Kinds : s[k].id = x
    BY <1>2 DEF Actions, Mutators, Kinds
  <2>2. FailAction(s, x, "FAILED") \in State /\ Evolves(s, FailAction(s, x, "FAILED"), x)
    BY <1>1, <2>1, FailActionType, FailActionEvolves DEF Failed
  <2>3. DispatchRejected(s, x) = Schedule(FailAction(s, x, "FAILED"), "health", {})
    BY <1>2 DEF DispatchRejected
  <2> QED
    BY <2>2, <2>3, ScheduleTouches, UntouchedEvolves, EvolvesOn DEF Framed
<1>3. CASE ~\E a \in Actions(s) : a.id = x /\ a.lc = "ADMITTED"
  BY <1>1, <1>3, QuietEvents DEF DispatchRejected
<1> QED
  BY <1>2, <1>3

\* The state has admitted the action with id x.
Offering(s, x) ==
    \/ s.phase = "PROBE_PENDING" /\ s.probe.id = x /\ s.probe.lc = "ADMITTED"
    \/ s.phase = "APPLY_PENDING" /\ s.app.id = x /\ s.app.lc = "ADMITTED"
    \/ s.prepState = "PREPARE_PENDING" /\ s.prep.id = x /\ s.prep.lc = "ADMITTED"
    \/ s.phase = "FINALIZE_PENDING" /\ s.fin.id = x /\ s.fin.lc = "ADMITTED"

\* An acknowledged dispatch makes one mutator live, or nothing.
LEMMA DispatchedReplaces ==
    \A s \in State : \A x :
        /\ ~Offering(s, x) => Dispatched(s, x).st = s
        /\ Offering(s, x) =>
              \E k \in Kinds : s[k].id = x /\ s[k].lc = "ADMITTED"
                               /\ Replaces(s, Dispatched(s, x).st, k, AsDispatched(s[k]))
<1>0. \A s, x : ~Offering(s, x) => Dispatched(s, x).st = s
  BY DEF Offering, Dispatched, NoOp, Decision
<1> SUFFICES ASSUME NEW s \in State, NEW x, Offering(s, x)
             PROVE \E k \in Kinds : s[k].id = x /\ s[k].lc = "ADMITTED"
                                    /\ Replaces(s, Dispatched(s, x).st, k, AsDispatched(s[k]))
  BY <1>0
<1> DEFINE
      probing == [s EXCEPT !.phase = "PROBING", !.probe = AsDispatched(@),
                           !.probed = @ \cup {AttemptKey(s.probe)}, !.timer = "none"]
      applying == [s EXCEPT !.phase = "APPLYING", !.app = AsDispatched(@),
                            !.applied = @ \cup {AttemptKey(s.app)}, !.timer = "none"]
      preparing == [s EXCEPT !.prepState = "PREPARING", !.prep = AsDispatched(@)]
      finalizing == [s EXCEPT !.phase = "FINALIZING", !.fin = AsDispatched(@)]
<1>1. \/ s.probe.id = x /\ s.probe.lc = "ADMITTED" /\ Dispatched(s, x).st = probing
      \/ s.app.id = x /\ s.app.lc = "ADMITTED" /\ Dispatched(s, x).st = applying
      \/ s.prep.id = x /\ s.prep.lc = "ADMITTED" /\ Dispatched(s, x).st = preparing
      \/ s.fin.id = x /\ s.fin.lc = "ADMITTED" /\ Dispatched(s, x).st = finalizing
  BY DEF Offering, Dispatched, NoOp, Decision
<1>2. Replaces(s, probing, "probe", AsDispatched(s.probe))
  BY Shape DEF Replaces, Kinds
<1>3. Replaces(s, applying, "app", AsDispatched(s.app))
  BY Shape DEF Replaces, Kinds
<1>4. Replaces(s, preparing, "prep", AsDispatched(s.prep))
  BY Shape DEF Replaces, Kinds
<1>5. Replaces(s, finalizing, "fin", AsDispatched(s.fin))
  BY Shape DEF Replaces, Kinds
<1> HIDE DEF probing, applying, preparing, finalizing
<1> QED
  BY <1>1, <1>2, <1>3, <1>4, <1>5 DEF Kinds

\* A dispatched action is live and keeps its id.
LEMMA AsDispatchedLive ==
    \A a \in Action : AsDispatched(a).lc = "DISPATCHED" /\ AsDispatched(a).id = a.id
  BY NewLc DEF AsDispatched

\* So an acknowledged dispatch leaves everything else as it was.
LEMMA DispatchedEvolves ==
    \A s \in State : \A x : Ids(s) =>
        /\ Evolves(s, Dispatched(s, x).st, x)
        /\ Ids(Dispatched(s, x).st)
<1> SUFFICES ASSUME NEW s \in State, NEW x, Ids(s)
             PROVE Evolves(s, Dispatched(s, x).st, x) /\ Ids(Dispatched(s, x).st)
  OBVIOUS
<1>1. CASE ~Offering(s, x)
  BY <1>1, DispatchedReplaces, UntouchedEvolves DEF Untouched
<1>2. CASE Offering(s, x)
  <2>1. PICK k \in Kinds : /\ s[k].lc = "ADMITTED" /\ s[k].id = x
                         /\ Replaces(s, Dispatched(s, x).st, k, AsDispatched(s[k]))
    BY <1>2, DispatchedReplaces
  <2> DEFINE b == AsDispatched(s[k])
  <2>2. b.lc = "DISPATCHED" /\ b.id = s[k].id /\ Busy(s[k])
    BY <2>1, KindsTyped, AsDispatchedLive, Stages
  <2>3. Busy(b)
    BY <2>2 DEF Busy, InFlight
  <2> HIDE DEF b
  <2>4. Evolves(s, Dispatched(s, x).st, x)
    BY <2>1, <2>2, RunsDescends, ReplacesEvolves DEF b
  <2>5. Ids(Dispatched(s, x).st)
    BY <2>1, <2>2, <2>3, ReplacesIds DEF b
  <2> QED
    BY <2>4, <2>5
<1> QED
  BY <1>1, <1>2

\* The action that was offered is live once its dispatch is acknowledged.
LEMMA DispatchedLive ==
    \A s : \A x, k : Sound(s) /\ k \in Kinds /\ s[k].lc = "ADMITTED" /\ s[k].id = x
        => \E j \in Kinds : Live(Dispatched(s, x).st[j]) /\ Dispatched(s, x).st[j].id = x
<1> SUFFICES ASSUME NEW s, NEW x, NEW k \in Kinds, Sound(s), s[k].lc = "ADMITTED", s[k].id = x
             PROVE \E j \in Kinds : Live(Dispatched(s, x).st[j]) /\ Dispatched(s, x).st[j].id = x
  OBVIOUS
<1>1. s \in State /\ Placed(s)
  BY DEF Sound
<1>2. Offering(s, x)
  BY <1>1 DEF Placed, Kinds, Offering
<1>3. PICK j \in Kinds : s[j].id = x /\ Replaces(s, Dispatched(s, x).st, j, AsDispatched(s[j]))
  BY <1>1, <1>2, DispatchedReplaces
<1>4. Dispatched(s, x).st[j].lc = "DISPATCHED" /\ Dispatched(s, x).st[j].id = x
  BY <1>1, <1>3, KindsTyped, AsDispatchedLive DEF Replaces
<1> QED
  BY <1>4 DEF Live

\* What a worker's end does to the one mutator that it is about.
LEMMA DropMeant ==
    \A s \in State : \A lc \in Terminal : \A x :
        /\ s.probe.id = x => DropProbe(s, lc) \in State /\ Evolves(s, DropProbe(s, lc), x)
        /\ s.app.id = x => DropApplication(s, lc) \in State /\ Evolves(s, DropApplication(s, lc), x)
        /\ s.prep.id = x => DropPreparation(s, lc) \in State /\ Evolves(s, DropPreparation(s, lc), x)
        /\ s.fin.id = x => DropFinalization(s, lc) \in State /\ Evolves(s, DropFinalization(s, lc), x)
  BY DropType, DropEvolves

\* What a stop would have recorded is no part of a lifecycle.
LEMMA AfterDescends == \A a \in Action : \A v, x : Descends(a, [a EXCEPT !.after = v], x)
<1> SUFFICES ASSUME NEW a \in Action, NEW v, NEW x PROVE Descends(a, [a EXCEPT !.after = v], x)
  OBVIOUS
<1>1. [a EXCEPT !.after = v].lc = a.lc /\ [a EXCEPT !.after = v].id = a.id
  BY NewLc
<1> QED
  BY <1>1, SameDescends

\* A failure clears what a stop would have recorded.
LEMMA FailClears ==
    \A s \in State : \A x \in Nat :
        Numbered(s) /\ x # 0 /\ (\E k \in Kinds : s[k].id = x) =>
            LET t == FailAction(s, x, "FAILED")
            IN /\ Evolves(s, Schedule([t EXCEPT !.probe.after = None], "health", {}).st, x)
               /\ Evolves(s, Schedule([t EXCEPT !.app.after = None], "health", {}).st, x)
               /\ Evolves(s, Schedule([t EXCEPT !.prep.after = None], "health", {}).st, x)
               /\ Evolves(s, Schedule([t EXCEPT !.fin.after = None], "health", {}).st, x)
<1> SUFFICES ASSUME NEW s \in State, NEW x \in Nat, Numbered(s), x # 0, \E k \in Kinds : s[k].id = x
             PROVE LET t == FailAction(s, x, "FAILED")
                   IN /\ Evolves(s, Schedule([t EXCEPT !.probe.after = None], "health", {}).st, x)
                      /\ Evolves(s, Schedule([t EXCEPT !.app.after = None], "health", {}).st, x)
                      /\ Evolves(s, Schedule([t EXCEPT !.prep.after = None], "health", {}).st, x)
                      /\ Evolves(s, Schedule([t EXCEPT !.fin.after = None], "health", {}).st, x)
  OBVIOUS
<1> DEFINE t == FailAction(s, x, "FAILED")
<1>1. t \in State /\ Evolves(s, t, x)
  BY FailActionType, FailActionEvolves DEF Failed
<1> HIDE DEF t
<1>2. \A a \in Action : Descends(a, [a EXCEPT !.after = None], x)
  BY AfterDescends
<1>3. t.probe \in Action /\ t.app \in Action /\ t.prep \in Action /\ t.fin \in Action
  BY <1>1, Fields
<1>4. Replaces(t, Schedule([t EXCEPT !.probe.after = None], "health", {}).st, "probe", [t.probe EXCEPT !.after = None])
  BY <1>1, Shape DEF Schedule, Decision, Replaces, Kinds
<1>5. Replaces(t, Schedule([t EXCEPT !.app.after = None], "health", {}).st, "app", [t.app EXCEPT !.after = None])
  BY <1>1, Shape DEF Schedule, Decision, Replaces, Kinds
<1>6. Replaces(t, Schedule([t EXCEPT !.prep.after = None], "health", {}).st, "prep", [t.prep EXCEPT !.after = None])
  BY <1>1, Shape DEF Schedule, Decision, Replaces, Kinds
<1>7. Replaces(t, Schedule([t EXCEPT !.fin.after = None], "health", {}).st, "fin", [t.fin EXCEPT !.after = None])
  BY <1>1, Shape DEF Schedule, Decision, Replaces, Kinds
<1>8. \A u, a, k : k \in Kinds /\ Replaces(t, u, k, a) /\ Descends(t[k], a, x) => Evolves(s, u, x)
  BY <1>1, ReplacesEvolves, EvolvesOn
<1> QED
  BY <1>2, <1>3, <1>4, <1>5, <1>6, <1>7, <1>8 DEF Kinds, t

\* The end of a probe.
LEMMA ProbeFinishedEvolves ==
    \A s \in State : \A x \in Nat : \A outcome \in Outcomes :
        Numbered(s) /\ x # 0 => Evolves(s, ProbeFinished(s, x, outcome).st, x)
<1> SUFFICES ASSUME NEW s \in State, NEW x \in Nat, NEW outcome \in Outcomes, Numbered(s), x # 0
             PROVE Evolves(s, ProbeFinished(s, x, outcome).st, x)
  OBVIOUS
<1> DEFINE t == DropProbe(s, EndedLifecycle(outcome))
<1>1. \/ ProbeFinished(s, x, outcome) \in {NoOp(s), Schedule(s, "tick", {"stop"})}
      \/ /\ s.probe.id = x
         /\ ProbeFinished(s, x, outcome) \in
              {Schedule([FailAction(s, x, "FAILED") EXCEPT !.probe.after = None], "health", {}),
               Schedule(t, "now", {"observe"})}
  BY DEF ProbeFinished
<1>2. Evolves(s, Schedule(s, "tick", {"stop"}).st, x)
  BY ScheduleTouches, UntouchedEvolves DEF Framed
<1>3. s.probe.id = x => Evolves(s, Schedule(t, "now", {"observe"}).st, x)
  <2> SUFFICES ASSUME s.probe.id = x PROVE Evolves(s, Schedule(t, "now", {"observe"}).st, x)
    OBVIOUS
  <2>1. t \in State /\ Evolves(s, t, x)
    BY EndedType, DropMeant
  <2> HIDE DEF t
  <2> QED
    BY <2>1, ScheduleTouches, UntouchedEvolves, EvolvesOn DEF Framed
<1>4. s.probe.id = x =>
        Evolves(s, Schedule([FailAction(s, x, "FAILED") EXCEPT !.probe.after = None], "health", {}).st, x)
  BY FailClears DEF Kinds
<1> QED
  BY <1>1, <1>2, <1>3, <1>4, QuietEvents

\* The end of an application.
LEMMA ApplicationFinishedEvolves ==
    \A s \in State : \A x \in Nat : \A outcome \in Outcomes :
        Numbered(s) /\ x # 0 => Evolves(s, ApplicationFinished(s, x, outcome).st, x)
<1> SUFFICES ASSUME NEW s \in State, NEW x \in Nat, NEW outcome \in Outcomes, Numbered(s), x # 0
             PROVE Evolves(s, ApplicationFinished(s, x, outcome).st, x)
  OBVIOUS
<1> DEFINE t == DropApplication(s, EndedLifecycle(outcome))
           u == [t EXCEPT !.verify = IF outcome = "SUCCEEDED" THEN -1 ELSE @]
<1>1. \/ ApplicationFinished(s, x, outcome) \in {NoOp(s), Schedule(s, "tick", {"stop"})}
      \/ /\ s.app.id = x
         /\ ApplicationFinished(s, x, outcome) \in
              {Schedule([FailAction(s, x, "FAILED") EXCEPT !.app.after = None], "health", {}),
               Schedule(u, "now", {"observe"})}
  BY DEF ApplicationFinished
<1>2. Evolves(s, Schedule(s, "tick", {"stop"}).st, x)
  BY ScheduleTouches, UntouchedEvolves DEF Framed
<1>3. s.app.id = x => Evolves(s, Schedule(u, "now", {"observe"}).st, x)
  <2> SUFFICES ASSUME s.app.id = x PROVE Evolves(s, Schedule(u, "now", {"observe"}).st, x)
    OBVIOUS
  <2>1. t \in State /\ Evolves(s, t, x)
    BY EndedType, DropMeant
  <2> HIDE DEF t
  <2>2. Untouched(t, Schedule(u, "now", {"observe"}).st)
    BY <2>1, Shape DEF Schedule, Decision, Untouched, Kinds
  <2> QED
    BY <2>1, <2>2, UntouchedEvolves, EvolvesOn
<1>4. s.app.id = x =>
        Evolves(s, Schedule([FailAction(s, x, "FAILED") EXCEPT !.app.after = None], "health", {}).st, x)
  BY FailClears DEF Kinds
<1> QED
  BY <1>1, <1>2, <1>3, <1>4, QuietEvents

\* The end of a preparation.
LEMMA PreparationFinishedEvolves ==
    \A s \in State : \A x \in Nat : \A outcome, h :
        Numbered(s) /\ x # 0 => Evolves(s, PreparationFinished(s, x, outcome, h).st, x)
<1> SUFFICES ASSUME NEW s \in State, NEW x \in Nat, NEW outcome, NEW h, Numbered(s), x # 0
             PROVE Evolves(s, PreparationFinished(s, x, outcome, h).st, x)
  OBVIOUS
<1> DEFINE t == DropPreparation(s, "CANCELLED")
           u == [t EXCEPT !.phase = "DISCOVER_FAST"]
           v == [s EXCEPT !.prep.lc = "RESULT_PENDING", !.prep.after = None]
<1>1. \/ PreparationFinished(s, x, outcome, h) \in {NoOp(s), Schedule(s, "tick", {"stop"})}
      \/ /\ s.prep.id = x /\ Live(s.prep)
         /\ PreparationFinished(s, x, outcome, h) \in
              {Schedule([FailAction(s, x, "FAILED") EXCEPT !.prep.after = None], "health", {}),
               Schedule(u, "now", {"observe"}), Schedule(v, "now", {"observe"})}
  BY DEF PreparationFinished, Live
<1>2. Evolves(s, Schedule(s, "tick", {"stop"}).st, x)
  BY ScheduleTouches, UntouchedEvolves DEF Framed
<1>3. s.prep.id = x => Evolves(s, Schedule(u, "now", {"observe"}).st, x)
  <2> SUFFICES ASSUME s.prep.id = x PROVE Evolves(s, Schedule(u, "now", {"observe"}).st, x)
    OBVIOUS
  <2>1. t \in State /\ Evolves(s, t, x)
    BY DropMeant DEF Terminal
  <2> HIDE DEF t
  <2>2. Untouched(t, Schedule(u, "now", {"observe"}).st)
    BY <2>1, Shape DEF Schedule, Decision, Untouched, Kinds
  <2> QED
    BY <2>1, <2>2, UntouchedEvolves, EvolvesOn
<1>4. s.prep.id = x =>
        Evolves(s, Schedule([FailAction(s, x, "FAILED") EXCEPT !.prep.after = None], "health", {}).st, x)
  BY FailClears DEF Kinds
<1>5. s.prep.id = x /\ Live(s.prep) => Evolves(s, Schedule(v, "now", {"observe"}).st, x)
  <2> DEFINE b == [s.prep EXCEPT !.lc = "RESULT_PENDING", !.after = None]
  <2>1. b.lc = "RESULT_PENDING" /\ b.id = s.prep.id
    BY Fields, NewLc
  <2>2. Replaces(s, Schedule(v, "now", {"observe"}).st, "prep", b)
    BY Fields, Shape DEF Schedule, Decision, Replaces, Kinds, Action
  <2> HIDE DEF b, v
  <2> QED
    BY <2>1, <2>2, ResultDescends, ReplacesEvolves DEF Kinds
<1> QED
  BY <1>1, <1>2, <1>3, <1>4, <1>5, QuietEvents

\* The end of a finalization.
LEMMA FinalizationFinishedEvolves ==
    \A s \in State : \A x \in Nat : \A outcome :
        Numbered(s) /\ x # 0 => Evolves(s, FinalizationFinished(s, x, outcome).st, x)
<1> SUFFICES ASSUME NEW s \in State, NEW x \in Nat, NEW outcome, Numbered(s), x # 0
             PROVE Evolves(s, FinalizationFinished(s, x, outcome).st, x)
  OBVIOUS
<1> DEFINE t == DropFinalization(s, "CANCELLED")
           u == [t EXCEPT !.verify = -1]
           v == [s EXCEPT !.fin.lc = "RESULT_PENDING", !.fin.after = None, !.phase = "FINALIZING"]
<1>1. \/ FinalizationFinished(s, x, outcome) \in {NoOp(s), Schedule(s, "tick", {"stop"})}
      \/ /\ s.fin.id = x /\ Live(s.fin)
         /\ FinalizationFinished(s, x, outcome) \in
              {Schedule([FailAction(s, x, "FAILED") EXCEPT !.fin.after = None], "health", {}),
               Schedule(u, "now", {"observe"}), Schedule(v, "now", {"observe"})}
  BY DEF FinalizationFinished, Live
<1>2. Evolves(s, Schedule(s, "tick", {"stop"}).st, x)
  BY ScheduleTouches, UntouchedEvolves DEF Framed
<1>3. s.fin.id = x => Evolves(s, Schedule(u, "now", {"observe"}).st, x)
  <2> SUFFICES ASSUME s.fin.id = x PROVE Evolves(s, Schedule(u, "now", {"observe"}).st, x)
    OBVIOUS
  <2>1. t \in State /\ Evolves(s, t, x)
    BY DropMeant DEF Terminal
  <2> HIDE DEF t
  <2>2. Untouched(t, Schedule(u, "now", {"observe"}).st)
    BY <2>1, Shape DEF Schedule, Decision, Untouched, Kinds
  <2> QED
    BY <2>1, <2>2, UntouchedEvolves, EvolvesOn
<1>4. s.fin.id = x =>
        Evolves(s, Schedule([FailAction(s, x, "FAILED") EXCEPT !.fin.after = None], "health", {}).st, x)
  BY FailClears DEF Kinds
<1>5. s.fin.id = x /\ Live(s.fin) => Evolves(s, Schedule(v, "now", {"observe"}).st, x)
  <2> DEFINE b == [s.fin EXCEPT !.lc = "RESULT_PENDING", !.after = None]
  <2>1. b.lc = "RESULT_PENDING" /\ b.id = s.fin.id
    BY Fields, NewLc
  <2>2. Replaces(s, Schedule(v, "now", {"observe"}).st, "fin", b)
    BY Fields, Shape DEF Schedule, Decision, Replaces, Kinds, Action
  <2> HIDE DEF b, v
  <2> QED
    BY <2>1, <2>2, ResultDescends, ReplacesEvolves DEF Kinds
<1> QED
  BY <1>1, <1>2, <1>3, <1>4, <1>5, QuietEvents

\* The end of a worker is about its action alone.
LEMMA FinishedEvolves ==
    \A s \in State : \A x \in Nat : \A outcome \in Outcomes : \A h :
        Numbered(s) /\ x # 0 => Evolves(s, Finished(s, x, outcome, h).st, x)
  BY ProbeFinishedEvolves, ApplicationFinishedEvolves, PreparationFinishedEvolves,
     FinalizationFinishedEvolves, QuietEvents DEF Finished

-----------------------------------------------------------------------------
(* Uncertain and stopped workers. *)

\* A live mutator is the only one with its id.
LEMMA LiveUnique ==
    \A s : \A j, k \in Kinds : Ids(s) /\ Busy(s[k]) /\ s[j].id = s[k].id => j = k
  BY DEF Ids

\* A busy mutator is the one its id names: no other has its id.
LEMMA BusyNamed ==
    \A s : \A k \in Kinds : Ids(s) /\ Busy(s[k]) => ActionForId(s, s[k].id) = s[k]
<1> SUFFICES ASSUME NEW s, NEW k \in Kinds, Ids(s), Busy(s[k])
             PROVE ActionForId(s, s[k].id) = s[k]
  OBVIOUS
<1>1. s[k] \in Mutators(s) /\ Held(s[k])
  BY Stages DEF Mutators, Kinds
<1>2. \A a \in Mutators(s) : a.id = s[k].id => a = s[k]
  <2>1. \A a \in Mutators(s) : \E j \in Kinds : a = s[j]
    BY DEF Mutators, Kinds
  <2> QED
    BY <2>1, LiveUnique
<1> QED
  BY <1>1, <1>2 DEF ActionForId

\* So the first mutator with the id of a live one is that one.
LEMMA LiveFirst ==
    \A s : \A k \in Kinds : Ids(s) /\ Busy(s[k]) =>
        LET x == s[k].id
        IN /\ s.probe.id = x <=> k = "probe"
           /\ s.app.id = x <=> k = "app"
           /\ s.prep.id = x <=> k = "prep"
           /\ s.fin.id = x <=> k = "fin"
<1> SUFFICES ASSUME NEW s, NEW k \in Kinds, Ids(s), Busy(s[k])
             PROVE \A j \in Kinds : s[j].id = s[k].id <=> k = j
  BY DEF Kinds
<1> QED
  BY LiveUnique

\* A worker that is being stopped is live and keeps its id.
LEMMA AsStoppingLive ==
    \A a \in Action : \A v : AsStopping(a, v).lc = "STOPPING" /\ AsStopping(a, v).id = a.id
  BY NewLc DEF AsStopping

\* An uncertain worker is stopped, and stays live.
LEMMA UncertainReplaces ==
    \A s \in State : \A k \in Kinds : \A v : Ids(s) /\ Live(s[k]) =>
        Replaces(s, WorkerUncertain(s, s[k].id, v).st, k, AsStopping(s[k], v))
<1> SUFFICES ASSUME NEW s \in State, NEW k \in Kinds, NEW v, Ids(s), Live(s[k])
             PROVE Replaces(s, WorkerUncertain(s, s[k].id, v).st, k, AsStopping(s[k], v))
  OBVIOUS
<1> DEFINE x == s[k].id
           fx == IF Stopping(s) THEN {} ELSE {"stop"}
<1>1. WorkerUncertain(s, x, v) = StopUncertainMutator(s, x, v)
  BY DEF WorkerUncertain, Mutators, Live, Kinds
<1>2. /\ s.probe.id = x <=> k = "probe"
      /\ s.app.id = x <=> k = "app"
      /\ s.prep.id = x <=> k = "prep"
      /\ s.fin.id = x <=> k = "fin"
  BY Stages, LiveFirst
<1> HIDE DEF x
<1>3. CASE k = "probe"
  <2>1. WorkerUncertain(s, x, v).st
          = [[s EXCEPT !.phase = "PROBING", !.probe = AsStopping(@, v)] EXCEPT !.timer = "tick"]
    BY <1>1, <1>2, <1>3 DEF StopUncertainMutator, Schedule, Decision
  <2> QED
    BY <1>3, <2>1, Shape DEF Replaces, Kinds, x
<1>4. CASE k = "app"
  <2>1. WorkerUncertain(s, x, v).st
          = [[s EXCEPT !.phase = "APPLYING", !.app = AsStopping(@, v)] EXCEPT !.timer = "tick"]
    BY <1>1, <1>2, <1>4 DEF StopUncertainMutator, Schedule, Decision
  <2> QED
    BY <1>4, <2>1, Shape DEF Replaces, Kinds, x
<1>5. CASE k = "prep"
  <2>1. WorkerUncertain(s, x, v).st
          = [[s EXCEPT !.phase = "DISCOVER_FAST", !.prepState = "PREPARE_STOPPING",
                       !.prep = AsStopping(@, v), !.verify = -1] EXCEPT !.timer = "tick"]
    BY <1>1, <1>2, <1>5 DEF StopUncertainMutator, Schedule, Decision
  <2> QED
    BY <1>5, <2>1, Shape DEF Replaces, Kinds, x
<1>6. CASE k = "fin"
  <2>1. WorkerUncertain(s, x, v).st
          = [[s EXCEPT !.phase = "FINALIZE_STOPPING",
                       !.fin = AsStopping(@, v), !.verify = -1] EXCEPT !.timer = "tick"]
    BY <1>1, <1>2, <1>6 DEF StopUncertainMutator, Schedule, Decision
  <2> QED
    BY <1>6, <2>1, Shape DEF Replaces, Kinds, x
<1> QED
  BY <1>3, <1>4, <1>5, <1>6 DEF Kinds

\* So an uncertain worker is not forgotten.
LEMMA UncertainEvolves ==
    \A s \in State : \A x, v : Ids(s) =>
        /\ Evolves(s, WorkerUncertain(s, x, v).st, Nobody)
        /\ Ids(WorkerUncertain(s, x, v).st)
<1> SUFFICES ASSUME NEW s \in State, NEW x, NEW v, Ids(s)
             PROVE Evolves(s, WorkerUncertain(s, x, v).st, Nobody) /\ Ids(WorkerUncertain(s, x, v).st)
  OBVIOUS
<1> DEFINE t == WorkerUncertain(s, x, v).st
<1>1. CASE \E a \in Mutators(s) : a.id = x /\ a.lc \in {"DISPATCHED", "STOPPING"}
  <2>1. PICK k \in Kinds : s[k].id = x /\ Live(s[k])
    BY <1>1 DEF Live, Mutators, Kinds
  <2> DEFINE b == AsStopping(s[k], v)
  <2>2. Replaces(s, t, k, b)
    BY <2>1, UncertainReplaces
  <2>3. b.lc = "STOPPING" /\ b.id = s[k].id
    BY KindsTyped, AsStoppingLive
  <2>4. Busy(b) /\ Busy(s[k]) /\ s[k].lc \in InFlight
    BY <2>1, <2>3 DEF Busy, Live, InFlight
  <2> HIDE DEF b, t
  <2>5. Evolves(s, t, Nobody) /\ Ids(t)
    BY <2>2, <2>3, <2>4, StopsDescends, ReplacesEvolves, ReplacesIds
  <2> QED
    BY <2>5 DEF t
<1>2. CASE ~\E a \in Mutators(s) : a.id = x /\ a.lc \in {"DISPATCHED", "STOPPING"}
  <2>1. t = s
    BY <1>2 DEF WorkerUncertain, NoOp, Decision
  <2> QED
    BY <2>1, UntouchedEvolves DEF Untouched
<1> QED
  BY <1>1, <1>2

\* A completion that a stop came too late for is resumed: about that action alone.
LEMMA ResumeEvolves ==
    \A s \in State : \A k \in Kinds : Ids(s) /\ s[k].lc = "STOPPING" =>
        Evolves(s, ResumeCompletion(s, s[k].id).st, s[k].id)
<1> SUFFICES ASSUME NEW s \in State, NEW k \in Kinds, Ids(s), s[k].lc = "STOPPING"
             PROVE Evolves(s, ResumeCompletion(s, s[k].id).st, s[k].id)
  OBVIOUS
<1> DEFINE x == s[k].id
           b == [s[k] EXCEPT !.lc = "DISPATCHED", !.after = None]
           probing == [s EXCEPT !.phase = "PROBING", !.probe = [@ EXCEPT !.lc = "DISPATCHED", !.after = None]]
           applying == [s EXCEPT !.phase = "APPLYING", !.app = [@ EXCEPT !.lc = "DISPATCHED", !.after = None]]
           preparing == [s EXCEPT !.prepState = "PREPARING", !.prep = [@ EXCEPT !.lc = "DISPATCHED", !.after = None]]
           finalizing == [s EXCEPT !.phase = "FINALIZING", !.fin = [@ EXCEPT !.lc = "DISPATCHED", !.after = None]]
<1>1. /\ s.probe.id = x <=> k = "probe"
      /\ s.app.id = x <=> k = "app"
      /\ s.prep.id = x <=> k = "prep"
      /\ s.fin.id = x <=> k = "fin"
  BY LiveFirst DEF Busy, InFlight
<1>2. Busy(s[k]) /\ s[k] \in Action /\ x \in Nat /\ x # 0
  BY KindsTyped DEF Busy, InFlight, Held, Ids, Numbered
<1>3. b.lc = "DISPATCHED" /\ b.id = x /\ b \in Action
  <2>1. b.lc = "DISPATCHED" /\ b.id = x
    BY <1>2, NewLc
  <2>2. \A a \in Action : [a EXCEPT !.lc = "DISPATCHED", !.after = None] \in Action
    BY SetActionLc, SetActionAfter DEF Lifecycles, InFlight
  <2> QED
    BY <1>2, <2>1, <2>2
<1>4. \E t \in State : /\ ResumeCompletion(s, x) = Finished(t, x, "SUCCEEDED", TRUE)
                       /\ Replaces(s, t, k, b)
  <2>1. CASE k = "probe"
    <3>1. ResumeCompletion(s, x) = Finished(probing, x, "SUCCEEDED", TRUE)
      BY <1>1, <2>1 DEF ResumeCompletion
    <3>2. probing \in State /\ Replaces(s, probing, k, b)
      BY <1>3, <2>1, Shape, Set_phase, Set_probe, Named DEF Replaces, Kinds
    <3> QED
      BY <3>1, <3>2
  <2>2. CASE k = "app"
    <3>1. ResumeCompletion(s, x) = Finished(applying, x, "SUCCEEDED", TRUE)
      BY <1>1, <2>2 DEF ResumeCompletion
    <3>2. applying \in State /\ Replaces(s, applying, k, b)
      BY <1>3, <2>2, Shape, Set_phase, Set_app, Named DEF Replaces, Kinds
    <3> QED
      BY <3>1, <3>2
  <2>3. CASE k = "prep"
    <3>1. ResumeCompletion(s, x) = Finished(preparing, x, "SUCCEEDED", TRUE)
      BY <1>1, <2>3 DEF ResumeCompletion
    <3>2. preparing \in State /\ Replaces(s, preparing, k, b)
      BY <1>3, <2>3, Shape, Set_prepState, Set_prep DEF Replaces, Kinds, PrepStates
    <3> QED
      BY <3>1, <3>2
  <2>4. CASE k = "fin"
    <3>1. ResumeCompletion(s, x) = Finished(finalizing, x, "SUCCEEDED", TRUE)
      BY <1>1, <2>4 DEF ResumeCompletion
    <3>2. finalizing \in State /\ Replaces(s, finalizing, k, b)
      BY <1>3, <2>4, Shape, Set_phase, Set_fin, Named DEF Replaces, Kinds
    <3> QED
      BY <3>1, <3>2
  <2> QED
    BY <2>1, <2>2, <2>3, <2>4 DEF Kinds
<1> HIDE DEF b
<1>5. PICK t \in State : ResumeCompletion(s, x) = Finished(t, x, "SUCCEEDED", TRUE) /\ Replaces(s, t, k, b)
  BY <1>4
<1>6. Evolves(s, t, x) /\ Ids(t)
  <2>1. Busy(b)
    BY <1>3 DEF Busy, InFlight
  <2>2. Descends(s[k], b, x)
    BY <1>2, <1>3, RunsDescends
  <2> QED
    BY <1>2, <1>3, <1>5, <2>1, <2>2, ReplacesEvolves, ReplacesIds
<1>7. Evolves(t, Finished(t, x, "SUCCEEDED", TRUE).st, x)
  BY <1>2, <1>6, FinishedEvolves DEF Ids, Outcomes
<1> QED
  BY <1>5, <1>6, <1>7, EvolvesOn

\* A failed action keeps its id, and no other is touched.
LEMMA FailKeeps ==
    \A s \in State : \A x \in Nat : \A lc \in Failed : \A k \in Kinds :
        LET t == FailAction(s, x, lc)
        IN t[k].id = s[k].id /\ (Held(s[k]) => Held(t[k])) /\ t[k].lc \in {s[k].lc, lc}
<1> SUFFICES ASSUME NEW s \in State, NEW x \in Nat, NEW lc \in Failed, NEW k \in Kinds
             PROVE LET t == FailAction(s, x, lc)
                   IN t[k].id = s[k].id /\ (Held(s[k]) => Held(t[k])) /\ t[k].lc \in {s[k].lc, lc}
  OBVIOUS
<1> DEFINE t == [s EXCEPT !.tombs = {y \in @ : y.id # x} \cup {[id |-> x, lc |-> lc]}]
<1>1. t \in State /\ \A j \in Kinds : t[j] = s[j]
  <2>1. {y \in s.tombs : y.id # x} \cup {[id |-> x, lc |-> lc]} \in SUBSET [id: Nat, lc: Terminal]
    BY Fields DEF Terminal
  <2>2. t \in State
    BY <2>1, Set_tombs
  <2> QED
    BY <2>2, Shape DEF Kinds
<1>2. FailAction(s, x, lc) \in
        {[t EXCEPT !.planState = "PLAN_FAILED", !.planning.lc = lc],
         [t EXCEPT !.phase = "PROBE_FAILED", !.probe.lc = lc],
         [t EXCEPT !.phase = "APPLY_FAILED", !.app.lc = lc],
         [t EXCEPT !.prepState = "PREPARE_FAILED", !.prep.lc = lc],
         [t EXCEPT !.phase = "FINALIZE_FAILED", !.fin.lc = lc]}
  BY DEF FailAction
<1> HIDE DEF t
<1>3. FailAction(s, x, lc)[k] \in {t[k], [t[k] EXCEPT !.lc = lc]}
  <2>1. [t EXCEPT !.planState = "PLAN_FAILED", !.planning.lc = lc][k] = t[k]
    BY <1>1, Shape DEF Kinds
  <2>2. [t EXCEPT !.phase = "PROBE_FAILED", !.probe.lc = lc][k] \in {t[k], [t[k] EXCEPT !.lc = lc]}
    BY <1>1, Shape DEF Kinds
  <2>3. [t EXCEPT !.phase = "APPLY_FAILED", !.app.lc = lc][k] \in {t[k], [t[k] EXCEPT !.lc = lc]}
    BY <1>1, Shape DEF Kinds
  <2>4. [t EXCEPT !.prepState = "PREPARE_FAILED", !.prep.lc = lc][k] \in {t[k], [t[k] EXCEPT !.lc = lc]}
    BY <1>1, Shape DEF Kinds
  <2>5. [t EXCEPT !.phase = "FINALIZE_FAILED", !.fin.lc = lc][k] \in {t[k], [t[k] EXCEPT !.lc = lc]}
    BY <1>1, Shape DEF Kinds
  <2> QED
    BY <1>2, <2>1, <2>2, <2>3, <2>4, <2>5
<1>4. [s[k] EXCEPT !.lc = lc].lc = lc /\ [s[k] EXCEPT !.lc = lc].id = s[k].id /\ lc # "ABSENT"
  BY KindsTyped, NewLc DEF Failed
<1> QED
  BY <1>1, <1>3, <1>4 DEF Held

\* A failure that is acknowledged is about its action alone.
LEMMA FailureEvolves ==
    \A s \in State : \A k \in Kinds : \A lc \in Failed : Ids(s) /\ s[k].lc = "STOPPING" =>
        Evolves(s, AcknowledgeFailure(s, s[k].id, lc).st, s[k].id)
<1> SUFFICES ASSUME NEW s \in State, NEW k \in Kinds, NEW lc \in Failed, Ids(s), s[k].lc = "STOPPING"
             PROVE Evolves(s, AcknowledgeFailure(s, s[k].id, lc).st, s[k].id)
  OBVIOUS
<1> DEFINE x == s[k].id
           t == FailAction(s, x, lc)
           b == [t[k] EXCEPT !.lc = lc, !.after = None]
           probe == [t EXCEPT !.probe = [@ EXCEPT !.lc = lc, !.after = None]]
           app == [t EXCEPT !.app = [@ EXCEPT !.lc = lc, !.after = None]]
           prep == [t EXCEPT !.prep = [@ EXCEPT !.lc = lc, !.after = None], !.phase = "DISCOVER_FAST"]
           fin == [t EXCEPT !.fin = [@ EXCEPT !.lc = lc, !.after = None]]
<1>1. /\ s.probe.id = x <=> k = "probe"
      /\ s.app.id = x <=> k = "app"
      /\ s.prep.id = x <=> k = "prep"
      /\ s.fin.id = x <=> k = "fin"
  BY LiveFirst DEF Busy, InFlight
<1>2. Held(s[k]) /\ x \in Nat /\ x # 0
  BY KindsTyped DEF Held, Ids, Numbered
<1>3. t \in State /\ Evolves(s, t, x) /\ t[k].id = x /\ Held(t[k])
  BY <1>2, FailActionType, FailActionEvolves, FailKeeps DEF Ids
<1>4. \E u : /\ AcknowledgeFailure(s, x, lc) \in {Schedule(u, "health", {}), Schedule(u, "now", {"observe"})}
             /\ \A delay, fx : Replaces(t, Schedule(u, delay, fx).st, k, b)
  <2> HIDE DEF t
  <2>1. CASE k = "probe"
    <3>1. AcknowledgeFailure(s, x, lc) \in {Schedule(probe, "health", {}), Schedule(probe, "now", {"observe"})}
      BY <1>1, <2>1 DEF AcknowledgeFailure, t
    <3>2. \A delay, fx : Replaces(t, Schedule(probe, delay, fx).st, k, b)
      BY <1>3, <2>1, Shape DEF Replaces, Kinds, Schedule, Decision
    <3> QED
      BY <3>1, <3>2
  <2>2. CASE k = "app"
    <3>1. AcknowledgeFailure(s, x, lc) \in {Schedule(app, "health", {}), Schedule(app, "now", {"observe"})}
      BY <1>1, <2>2 DEF AcknowledgeFailure, t
    <3>2. \A delay, fx : Replaces(t, Schedule(app, delay, fx).st, k, b)
      BY <1>3, <2>2, Shape DEF Replaces, Kinds, Schedule, Decision
    <3> QED
      BY <3>1, <3>2
  <2>3. CASE k = "prep"
    <3>1. AcknowledgeFailure(s, x, lc) \in {Schedule(prep, "health", {}), Schedule(prep, "now", {"observe"})}
      BY <1>1, <2>3 DEF AcknowledgeFailure, t
    <3>2. \A delay, fx : Replaces(t, Schedule(prep, delay, fx).st, k, b)
      BY <1>3, <2>3, Shape DEF Replaces, Kinds, Schedule, Decision
    <3> QED
      BY <3>1, <3>2
  <2>4. CASE k = "fin"
    <3>1. AcknowledgeFailure(s, x, lc) \in {Schedule(fin, "health", {}), Schedule(fin, "now", {"observe"})}
      BY <1>1, <2>4 DEF AcknowledgeFailure, t
    <3>2. \A delay, fx : Replaces(t, Schedule(fin, delay, fx).st, k, b)
      BY <1>3, <2>4, Shape DEF Replaces, Kinds, Schedule, Decision
    <3> QED
      BY <3>1, <3>2
  <2> QED
    BY <2>1, <2>2, <2>3, <2>4 DEF Kinds
<1>5. Replaces(t, AcknowledgeFailure(s, x, lc).st, k, b)
  BY <1>4
<1>6. Descends(t[k], b, x)
  <2> HIDE DEF t
  <2>1. b.lc = lc /\ b.id = t[k].id
    BY <1>3, KindsTyped, NewLc
  <2> HIDE DEF b
  <2> QED
    BY <1>3, <2>1, EndsDescends DEF Terminal
<1> HIDE DEF t, b, x
<1>7. Evolves(t, AcknowledgeFailure(s, x, lc).st, x)
  BY <1>5, <1>6, ReplacesEvolves
<1>8. Evolves(s, AcknowledgeFailure(s, x, lc).st, x)
  BY <1>3, <1>7, EvolvesOn
<1> QED
  BY <1>8 DEF x

\* So is a cancellation.
LEMMA CancelledEvolves ==
    \A s \in State : \A k \in Kinds : Ids(s) /\ s[k].lc = "STOPPING" =>
        Evolves(s, AcknowledgeCancelled(s, s[k].id).st, s[k].id)
<1> SUFFICES ASSUME NEW s \in State, NEW k \in Kinds, Ids(s), s[k].lc = "STOPPING"
             PROVE Evolves(s, AcknowledgeCancelled(s, s[k].id).st, s[k].id)
  OBVIOUS
<1> DEFINE x == s[k].id
           prep == DropPreparation(s, "CANCELLED")
           fin == DropFinalization(s, "CANCELLED")
<1>1. /\ s.probe.id = x <=> k = "probe"
      /\ s.app.id = x <=> k = "app"
      /\ s.prep.id = x <=> k = "prep"
      /\ s.fin.id = x <=> k = "fin"
  BY LiveFirst DEF Busy, InFlight
<1> HIDE DEF x
<1>2. CASE k = "probe"
  <2>1. DropProbe(s, "CANCELLED") \in State /\ Evolves(s, DropProbe(s, "CANCELLED"), x)
    BY <1>1, <1>2, DropMeant DEF Terminal
  <2>2. Evolves(s, AcknowledgeCancelled(s, x).st, x)
    BY <1>1, <1>2, <2>1, ScheduleTouches, UntouchedEvolves, EvolvesOn DEF AcknowledgeCancelled, Framed
  <2> QED
    BY <2>2 DEF x
<1>3. CASE k = "app"
  <2>1. DropApplication(s, "CANCELLED") \in State /\ Evolves(s, DropApplication(s, "CANCELLED"), x)
    BY <1>1, <1>3, DropMeant DEF Terminal
  <2>2. Evolves(s, AcknowledgeCancelled(s, x).st, x)
    BY <1>1, <1>3, <2>1, ScheduleTouches, UntouchedEvolves, EvolvesOn DEF AcknowledgeCancelled, Framed
  <2> QED
    BY <2>2 DEF x
<1>4. CASE k = "prep"
  <2>1. prep \in State /\ Evolves(s, prep, x)
    BY <1>1, <1>4, DropMeant DEF Terminal
  <2>2. AcknowledgeCancelled(s, x).st = [[prep EXCEPT !.phase = "DISCOVER_FAST"] EXCEPT !.timer = "now"]
    BY <1>1, <1>4 DEF AcknowledgeCancelled, Schedule, Decision
  <2> HIDE DEF prep
  <2>3. Untouched(prep, AcknowledgeCancelled(s, x).st)
    BY <2>1, <2>2, Shape DEF Untouched, Kinds
  <2>4. Evolves(s, AcknowledgeCancelled(s, x).st, x)
    BY <2>1, <2>3, UntouchedEvolves, EvolvesOn
  <2> QED
    BY <2>4 DEF x
<1>5. CASE k = "fin"
  <2>1. fin \in State /\ Evolves(s, fin, x)
    BY <1>1, <1>5, DropMeant DEF Terminal
  <2>2. AcknowledgeCancelled(s, x).st = [[fin EXCEPT !.verify = -1] EXCEPT !.timer = "now"]
    BY <1>1, <1>5 DEF AcknowledgeCancelled, Schedule, Decision
  <2> HIDE DEF fin
  <2>3. Untouched(fin, AcknowledgeCancelled(s, x).st)
    BY <2>1, <2>2, Shape DEF Untouched, Kinds
  <2>4. Evolves(s, AcknowledgeCancelled(s, x).st, x)
    BY <2>1, <2>3, UntouchedEvolves, EvolvesOn
  <2> QED
    BY <2>4 DEF x
<1> QED
  BY <1>2, <1>3, <1>4, <1>5 DEF Kinds

\* The end of a stop is about the stopped action alone.
LEMMA AcknowledgedEvolves ==
    \A s \in State : \A x, lc : Ids(s) => Evolves(s, WorkerCancellationAcknowledged(s, x, lc).st, x)
<1> SUFFICES ASSUME NEW s \in State, NEW x, NEW lc, Ids(s)
             PROVE Evolves(s, WorkerCancellationAcknowledged(s, x, lc).st, x)
  OBVIOUS
<1>1. CASE \E a \in Mutators(s) : a.id = x /\ a.lc = "STOPPING"
  <2>1. PICK k \in Kinds : s[k].id = x /\ s[k].lc = "STOPPING"
    BY <1>1 DEF Mutators, Kinds
  <2>2. WorkerCancellationAcknowledged(s, x, lc) =
          IF lc = "COMPLETED" THEN ResumeCompletion(s, x)
          ELSE IF lc \in Failed THEN AcknowledgeFailure(s, x, lc)
          ELSE AcknowledgeCancelled(s, x)
    BY <1>1 DEF WorkerCancellationAcknowledged
  <2>3. Evolves(s, ResumeCompletion(s, x).st, x)
    BY <2>1, ResumeEvolves
  <2>4. lc \in Failed => Evolves(s, AcknowledgeFailure(s, x, lc).st, x)
    BY <2>1, FailureEvolves
  <2>5. Evolves(s, AcknowledgeCancelled(s, x).st, x)
    BY <2>1, CancelledEvolves
  <2> QED
    BY <2>2, <2>3, <2>4, <2>5
<1>2. CASE ~\E a \in Mutators(s) : a.id = x /\ a.lc = "STOPPING"
  BY <1>2, QuietEvents DEF WorkerCancellationAcknowledged
<1> QED
  BY <1>1, <1>2

-----------------------------------------------------------------------------
(* Start and recovery. *)

\* A starting controller withdraws what was pending and forgets no live worker.
LEMMA StartedEvolves == \A s : Sound(s) => Evolves(s, ControllerStarted(s).st, Nobody)
<1> SUFFICES ASSUME NEW s, Sound(s) PROVE Evolves(s, ControllerStarted(s).st, Nobody)
  OBVIOUS
<1> DEFINE r == DropPreparation(s, "CANCELLED")
           t == DiscardPlanning(r)
           u == [t EXCEPT !.phase = "DISCOVER_FAST", !.verify = -1]
           v == [s EXCEPT !.phase = "DISCOVER_FAST", !.fin = NoAction, !.verify = -1]
<1>1. s \in State /\ Placed(s)
  BY DEF Sound
<1>2. \/ s.prepState = "PREPARE_PENDING" /\ ControllerStarted(s) = Schedule(u, "now", {"observe"})
      \/ s.phase = "FINALIZE_FAILED" /\ ControllerStarted(s) = Schedule(v, "now", {"observe"})
      \/ \E w \in {s, ClearProof(s)} :
            ControllerStarted(s) \in {Schedule(w, "tick", {}), Schedule(w, "now", {"observe"})}
  BY DEF ControllerStarted
<1>3. s.prepState = "PREPARE_PENDING" => Evolves(s, Schedule(u, "now", {"observe"}).st, Nobody)
  <2> SUFFICES ASSUME s.prepState = "PREPARE_PENDING"
               PROVE Evolves(s, Schedule(u, "now", {"observe"}).st, Nobody)
    OBVIOUS
  <2>1. r \in State /\ Evolves(s, r, Nobody) /\ r.prep = NoAction
    BY <1>1, PendingNotLive, DropType, DropEvolves, DropTouches DEF Terminal, Replaces
  <2> HIDE DEF r
  <2>2. t \in State /\ Evolves(r, t, Nobody)
    BY <2>1, NoActionStage, DiscardPlanningType, DiscardEvolves
  <2> HIDE DEF t
  <2>3. Untouched(t, Schedule(u, "now", {"observe"}).st)
    BY <2>2, Shape DEF Schedule, Decision, Untouched, Kinds
  <2> QED
    BY <2>1, <2>2, <2>3, UntouchedEvolves, EvolvesOn
<1>4. s.phase = "FINALIZE_FAILED" => Evolves(s, Schedule(v, "now", {"observe"}).st, Nobody)
  <2>1. Replaces(s, Schedule(v, "now", {"observe"}).st, "fin", NoAction)
    BY <1>1, Shape DEF Schedule, Decision, Replaces, Kinds
  <2> QED
    BY <1>1, <2>1, PendingNotLive, LeavesDescends, ReplacesEvolves DEF Kinds
<1>5. \A w \in {s, ClearProof(s)} : \A delay, fx : Evolves(s, Schedule(w, delay, fx).st, Nobody)
  <2>1. \A w \in {s, ClearProof(s)} : w \in State /\ Untouched(s, w)
    BY <1>1, ClearProofType, RecordsTouch DEF Framed, Untouched
  <2>2. \A w \in {s, ClearProof(s)} : \A delay, fx : Untouched(w, Schedule(w, delay, fx).st)
    BY <2>1, ScheduleTouches DEF Framed
  <2> QED
    BY <2>1, <2>2, UntouchedEvolves, EvolvesOn
<1> QED
  BY <1>2, <1>3, <1>4, <1>5

\* Another boot or session begins with nothing.
LEMMA FreshStarts ==
    \A s \in State :
        LET t == BootChanged(s).st
            u == NewSessionState(s)
        IN /\ t.seq = s.seq /\ \A k \in Kinds : t[k] = NoAction
           /\ Sound(u) /\ u.seq = s.seq /\ \A k \in Kinds : u[k] = NoAction
<1> SUFFICES ASSUME NEW s \in State
             PROVE LET t == BootChanged(s).st
                       u == NewSessionState(s)
                   IN /\ t.seq = s.seq /\ \A k \in Kinds : t[k] = NoAction
                      /\ Sound(u) /\ u.seq = s.seq /\ \A k \in Kinds : u[k] = NoAction
  OBVIOUS
<1> DEFINE u == NewSessionState(s)
<1>0. InitialState \in State /\ InitialState.probe = NoAction /\ InitialState.app = NoAction
      /\ InitialState.prep = NoAction /\ InitialState.fin = NoAction
  BY InitialStateType DEF InitialState
<1>1. BootChanged(s).st.seq = s.seq /\ \A k \in Kinds : BootChanged(s).st[k] = NoAction
  BY <1>0, Shape DEF BootChanged, Decision, Kinds
<1>2. u \in State /\ u.seq = s.seq /\ \A k \in Kinds : u[k] = NoAction
  <2>1. u \in State
    BY NewSessionType
  <2>2. u.seq = s.seq /\ \A k \in Kinds : u[k] = NoAction
    BY <1>0, Shape DEF NewSessionState, Kinds
  <2> QED
    BY <2>1, <2>2
<1>3. u.phase = "RECOVERING" /\ u.prepState = "PREPARE_IDLE"
  BY DEF NewSessionState, InitialState
<1> HIDE DEF u
<1>4. Sound(u)
  BY <1>2, <1>3, EmptySound DEF Sound, Pending
<1> QED
  BY <1>1, <1>2, <1>4 DEF u

\* A replayed end is about the action that ended.
LEMMA ReplayEvolves ==
    \A s \in State : \A u \in Units : Ids(s) /\ u.outcome # None /\ u.id # 0 =>
        Evolves(s, ReplayEnd(s, u), u.id)
<1> SUFFICES ASSUME NEW s \in State, NEW u \in Units, Ids(s), u.outcome # None, u.id # 0
             PROVE Evolves(s, ReplayEnd(s, u), u.id)
  OBVIOUS
<1> DEFINE t == WorkerUncertain(s, u.id, "UNKNOWN").st
           stopping == ActionForId(s, u.id).lc = "STOPPING"
<1>1. u.id \in Nat /\ u.outcome \in Terminal
  BY DEF Units
<1>2. t \in State /\ Ids(t) /\ Evolves(s, t, u.id)
  BY <1>1, WorkerUncertainType, DecisionParts, UncertainEvolves, EvolvesAny
<1>3. CASE stopping
  BY <1>3, AcknowledgedEvolves DEF ReplayEnd
<1>4. CASE ~stopping /\ u.outcome \in {"UNKNOWN", "TIMED_OUT"}
  <2>1. ReplayEnd(s, u) = WorkerCancellationAcknowledged(t, u.id, u.outcome).st
    BY <1>4 DEF ReplayEnd
  <2> HIDE DEF t
  <2> QED
    BY <1>2, <2>1, AcknowledgedEvolves, EvolvesOn
<1>5. CASE ~stopping /\ u.outcome \notin {"UNKNOWN", "TIMED_OUT"}
  <2>1. ReplayEnd(s, u) = Finished(s, u.id, EventOutcome(u.outcome), TRUE).st
    BY <1>5 DEF ReplayEnd
  <2>2. EventOutcome(u.outcome) \in Outcomes
    BY <1>1, <1>5, EventOutcomeType
  <2> QED
    BY <1>1, <2>1, <2>2, FinishedEvolves DEF Ids
<1> QED
  BY <1>3, <1>4, <1>5

\* What recovery makes of a saved state is about the one action it missed the
\* end of.
LEMMA ReconciledEvolves ==
    \A s \in State : \A us \in SUBSET Units :
        Ids(s) /\ (\A u \in us : u.id # 0) =>
            \/ Missed(s, us) = {} /\ Reconciled(s, us) = s
            \/ \E u \in Missed(s, us) : Evolves(s, Reconciled(s, us), u.id)
<1> SUFFICES ASSUME NEW s \in State, NEW us \in SUBSET Units, Ids(s), \A u \in us : u.id # 0,
                    Missed(s, us) # {}
             PROVE \E u \in Missed(s, us) : Evolves(s, Reconciled(s, us), u.id)
  BY DEF Reconciled
<1>1. PICK u \in Missed(s, us) : Reconciled(s, us) = ApplyVerifiedResult(s, u)
  BY DEF Reconciled
<1>2. u \in Units /\ u.outcome # None /\ u.id # 0 /\ u.id \in Nat
  BY DEF Missed, Results, Units
<1> DEFINE d == Dispatched(s, u.id).st
           t == IF ActionForId(s, u.id).lc = "ADMITTED" THEN d ELSE s
<1>3. d \in State /\ Ids(d) /\ Evolves(s, d, u.id)
  BY <1>2, DispatchedType, DecisionParts, DispatchedEvolves, EvolvesAny
<1>4. Evolves(s, s, u.id)
  BY UntouchedEvolves DEF Untouched
<1>5. t \in State /\ Ids(t) /\ Evolves(s, t, u.id)
  BY <1>3, <1>4
<1>6. Reconciled(s, us) = ReplayEnd(t, u)
  BY <1>1 DEF ApplyVerifiedResult
<1> HIDE DEF t
<1> QED
  BY <1>2, <1>5, <1>6, ReplayEvolves, EvolvesOn

-----------------------------------------------------------------------------
(* What the checks of a saved state give. *)

\* A transition numbers its mutators and keeps an application and a preparation
\* apart, which no check does.
LEMMA AdvancesNumbered ==
    \A s, t \in State : \A x : Ids(s) /\ Advances(s, t, x) => Numbered(t) /\ Apart(t)
<1> SUFFICES ASSUME NEW s \in State, NEW t \in State, NEW x, Ids(s), Advances(s, t, x)
             PROVE Numbered(t) /\ Apart(t)
  OBVIOUS
<1>1. ASSUME NEW k \in Kinds PROVE Held(t[k]) <=> t[k].id # 0
  <2>1. Follows(s[k], t[k], s.seq, x) /\ (Held(s[k]) <=> s[k].id # 0)
    BY DEF Advances, Ids, Numbered
  <2>2. s.seq \in Nat /\ t[k].id \in Nat
    BY KindsTyped
  <2> QED
    BY <2>1, <2>2 DEF Follows
<1>2. Apart(s)
  BY DEF Ids, Apart, Kinds
<1> QED
  BY <1>1, <1>2 DEF Numbered, Advances

\* A checked state places its busy mutators.
LEMMA CheckedPlaced == \A s \in State : FailedChecks(s) = {} => Placed(s)
<1> SUFFICES ASSUME NEW s \in State, FailedChecks(s) = {} PROVE Placed(s)
  OBVIOUS
<1>1. PhaseRelationships(s) /\ PlanningRelationships(s) /\ PersistenceRelationships(s)
  BY DEF FailedChecks
<1>2. CASE s.phase = "RECOVERING"
  <2>1. \A a \in Mutators(s) : ~Held(a)
    BY <1>1, <1>2 DEF PersistenceRelationships, Actions
  <2>2. s.probe.lc = "ABSENT" /\ s.app.lc = "ABSENT" /\ s.prep.lc = "ABSENT" /\ s.fin.lc = "ABSENT"
    BY <2>1 DEF Mutators, Held
  <2>3. s.prepState = "PREPARE_IDLE"
    BY <1>1, <1>2 DEF PersistenceRelationships
  <2> QED
    BY <1>2, <2>2, <2>3 DEF Placed, Held, InFlight
<1>3. CASE s.phase # "RECOVERING"
  <2>1. /\ s.probe.lc = "ADMITTED" <=> s.phase = "PROBE_PENDING"
        /\ s.probe.lc \in InFlight <=> s.phase = "PROBING"
    BY <1>1, <1>3 DEF PhaseRelationships, Matches, Held, InFlight, Failed
  <2>2. /\ s.app.lc = "ADMITTED" <=> s.phase = "APPLY_PENDING"
        /\ s.app.lc \in InFlight <=> s.phase = "APPLYING"
    BY <1>1, <1>3 DEF PhaseRelationships, Matches, Held, InFlight, Failed
  <2>3. /\ s.fin.lc = "ADMITTED" <=> s.phase = "FINALIZE_PENDING"
        /\ s.fin.lc \in {"DISPATCHED", "RESULT_PENDING"} <=> s.phase = "FINALIZING"
        /\ s.fin.lc = "STOPPING" <=> s.phase = "FINALIZE_STOPPING"
    BY <1>1, <1>3 DEF PhaseRelationships, Matches, Held, Failed
  <2>4. /\ s.prep.lc = "ADMITTED" <=> s.prepState = "PREPARE_PENDING"
        /\ s.prep.lc \in {"DISPATCHED", "RESULT_PENDING"} <=> s.prepState = "PREPARING"
        /\ s.prep.lc = "STOPPING" <=> s.prepState = "PREPARE_STOPPING"
    BY <1>1, <1>3 DEF PlanningRelationships, Matches, Held, Failed
  <2>5. Held(s.prep) => s.planState = "PLAN_READY"
    BY <1>1, <1>3 DEF PlanningRelationships
  <2> QED
    BY <2>1, <2>2, <2>3, <2>4, <2>5 DEF Placed
<1> QED
  BY <1>2, <1>3

\* A checked state has at most one busy mutator, if the application and the
\* preparation are apart.
LEMMA CheckedIds ==
    \A s \in State : FailedChecks(s) = {} /\ Numbered(s) /\ Apart(s) => Ids(s)
<1> SUFFICES ASSUME NEW s \in State, FailedChecks(s) = {}, Numbered(s), Apart(s) PROVE Ids(s)
  OBVIOUS
<1>1. /\ ActionIdentities(s) /\ NumberedSafetyRules(s)
      /\ ActionAuthorization(s) /\ PersistenceRelationships(s)
  BY DEF FailedChecks
<1>2. Placed(s)
  BY CheckedPlaced
<1>3. \A k \in Kinds : Busy(s[k]) => s[k] \in Actions(s)
  BY Stages DEF Actions, Mutators, Kinds
<1>4. \A k \in Kinds : Busy(s[k]) => s[k].id <= s.seq
  BY <1>1, <1>3 DEF ActionIdentities
<1>5. \A k \in {"probe", "app", "fin"} : Busy(s[k]) =>
        s.phase \in (IF k = "probe" THEN {"PROBE_PENDING", "PROBING"}
                     ELSE IF k = "app" THEN {"APPLY_PENDING", "APPLYING"}
                     ELSE {"FINALIZE_PENDING", "FINALIZING", "FINALIZE_STOPPING"})
  BY <1>2 DEF Placed, Busy, InFlight
<1>6. ~(Busy(s.probe) /\ Busy(s.app)) /\ ~(Busy(s.probe) /\ Busy(s.fin)) /\ ~(Busy(s.app) /\ Busy(s.fin))
  BY <1>5
<1>7. ~(Busy(s.probe) /\ Busy(s.prep))
  BY <1>1, <1>5, Stages DEF NumberedSafetyRules
<1>8. ~(Busy(s.fin) /\ Busy(s.prep))
  BY <1>1, Stages DEF ActionAuthorization, Terminal
<1>9. \A j, k \in Kinds : j # k /\ Busy(s[k]) => ~Busy(s[j])
  BY <1>6, <1>7, <1>8 DEF Apart, Kinds
<1>10. \A j, k \in Kinds : j # k /\ Busy(s[k]) => s[j].id # s[k].id
  <2> SUFFICES ASSUME NEW j \in Kinds, NEW k \in Kinds, j # k, Busy(s[k]), s[j].id = s[k].id PROVE FALSE
    OBVIOUS
  <2>1. Held(s[k]) /\ Held(s[j])
    BY Stages DEF Numbered
  <2>2. s[j] \in Actions(s) /\ s[k] \in Actions(s)
    BY <2>1 DEF Actions, Mutators, Kinds
  <2>3. s[j] = s[k]
    BY <1>1, <2>2 DEF ActionIdentities
  <2> QED
    BY <1>9, <2>3
<1> QED
  BY <1>4, <1>9, <1>10 DEF Ids

-----------------------------------------------------------------------------
(* Proofs, plans, loads and the record of the finalized desktop: what a     *)
(* transition does to them, and that it leaves something that wakes the     *)
(* controller.  The lemmas follow the operators bottom up once more.        *)

\* A stability proof runs; a plan is used by a proof or a preparation.
Proving(s) == s.phase = "VERIFYING" /\ s.verify # -1
Used(s) == Proving(s) \/ Held(s.prep)

\* A load of the laptop's profile is admitted or may run.
Loading(s) == s.app.lc \in {"ADMITTED", "DISPATCHED"} /\ s.app.profile \in InternalProfiles

\* A state that was never classified adopts the desktop or must finalize it.
FirstStart(s) == s.phase = "RECOVERING" => s.baseline = TRUE \/ s.required = TRUE

\* A plan that is held has an id.
Counted(s) == Held(s.planning) <=> s.planning.id # 0

\* Nothing is left to do.
Quiet(s) ==
    s.phase = "QUIESCENT" /\ s.obs # None /\ s.stable # None /\ s.finalized = s.stable

\* A desktop becomes finalized by adoption, or by a finalization with a result.
Confirmed(s, t) ==
    /\ t.baseline = TRUE => s.baseline = TRUE
    /\ FirstStart(s) => FirstStart(t)
    /\ \/ t.finalized \in {None, s.finalized}
       \/ s.baseline = TRUE
       \/ s.fin.lc = "RESULT_PENDING" /\ t.finalized = s.fin.profile

\* A finalization has a result if it had one, or if the event is about its worker x.
Succeeded(s, t, x) ==
    t.fin.lc = "RESULT_PENDING" =>
        \/ t.fin.id = x
        \/ /\ s.fin.lc = "RESULT_PENDING"
           /\ t.fin.id = s.fin.id /\ t.fin.profile = s.fin.profile

\* A plan is kept, dropped or new, and one that is kept comes into use only where
\* it was; a proof that waits for a plan has waited for it before.
Plans(s, t) ==
    /\ Counted(s) => Counted(t)
    /\ \/ t.planning.id = 0
       \/ t.planning.id > s.seq
       \/ t.planning.id = s.planning.id /\ (Used(t) => Used(s))
    /\ Proving(t) /\ t.planState = "PLANNING" =>
          Proving(s) /\ s.planState = "PLANNING" /\ t.planning.id = s.planning.id

\* No load of the laptop's profile begins under the intent to use external hardware.
Loads(s, t) == Loading(t) /\ t.intent = TRUE => Loading(s) /\ s.intent = TRUE

Proceeds(s, t, x) ==
    s.seq <= t.seq /\ Confirmed(s, t) /\ Succeeded(s, t, x) /\ Plans(s, t)

Continues(s, t, x) == Proceeds(s, t, x) /\ Loads(s, t)

\* Most transitions begin nothing: what there was is kept or ends.
Yields(s, t) ==
    /\ t.seq = s.seq
    /\ t.finalized \in {None, s.finalized}
    /\ t.baseline = s.baseline \/ (t.baseline = FALSE /\ t.phase # "RECOVERING")
    /\ t.phase # "RECOVERING" \/ (t.phase = s.phase /\ t.required = s.required)
    /\ t.fin.lc = "RESULT_PENDING" =>
          /\ s.fin.lc = "RESULT_PENDING"
          /\ t.fin.id = s.fin.id /\ t.fin.profile = s.fin.profile
    /\ Loading(t) => Loading(s)
    /\ t.intent = s.intent \/ t.intent = FALSE
    /\ Used(t) => Used(s)
    /\ Proving(t) => Proving(s)
    /\ \/ t.planning.id = 0 /\ ~Held(t.planning) /\ t.planState # "PLANNING"
       \/ /\ t.planning.id = s.planning.id
          /\ Held(t.planning) <=> Held(s.planning)
          /\ t.planState \in {s.planState, "PLAN_FAILED", "PLAN_READY"}

\* The same within the handling of one sample.
Keeps(s, t) == Continues(s, t, Nobody) /\ t.obs = s.obs

\* A decision that leaves a timer armed, or nothing to do.
Reacts(s, d) ==
    /\ Continues(s, d.st, Nobody)
    /\ "discard" \notin d.fx
    /\ s.obs # None => d.st.timer # "none" \/ Quiet(d.st)

Watched ==
    {"seq", "baseline", "required", "finalized", "fin", "app", "intent", "planning", "prep",
     "planState", "phase", "verify", "obs"}

Alike(s, t) == DOMAIN t = DOMAIN s /\ \A f \in Watched : t[f] = s[f]

-----------------------------------------------------------------------------
(* The relations. *)

\* A state has the fields the lemmas read.
LEMMA WatchedFields ==
    \A s \in State : Watched \cup {"timer", "stable", "prepState", "probe"} \subseteq DOMAIN s
  BY DEF State, Watched

\* What begins nothing is a transition like any other.
LEMMA YieldsContinues ==
    \A s \in State : \A t \in State : \A x : Yields(s, t) => Continues(s, t, x)
<1> SUFFICES ASSUME NEW s \in State, NEW t \in State, NEW x, Yields(s, t) PROVE Continues(s, t, x)
  OBVIOUS
<1>1. Confirmed(s, t)
  BY DEF Yields, Confirmed, FirstStart
<1>2. Succeeded(s, t, x)
  BY DEF Yields, Succeeded
<1>3. Plans(s, t)
  BY DEF Yields, Plans, Counted
<1>4. Loads(s, t)
  BY DEF Yields, Loads
<1>5. s.seq <= t.seq
  BY Fields DEF Yields
<1> QED
  BY <1>1, <1>2, <1>3, <1>4, <1>5 DEF Continues, Proceeds

\* A transition that leaves the watched fields alone.
LEMMA AlikeYields == \A s, t : Alike(s, t) => Yields(s, t) /\ t.obs = s.obs
  BY DEF Alike, Watched, Yields, Loading, Used, Proving, Held

\* Transitions that begin nothing compose.
LEMMA YieldsOn == \A s, t, u : Yields(s, t) /\ Yields(t, u) => Yields(s, u)
<1> SUFFICES ASSUME NEW s, NEW t, NEW u, Yields(s, t), Yields(t, u) PROVE Yields(s, u)
  OBVIOUS
<1>1. u.baseline = s.baseline \/ (u.baseline = FALSE /\ u.phase # "RECOVERING")
  BY DEF Yields
<1>2. u.phase # "RECOVERING" \/ (u.phase = s.phase /\ u.required = s.required)
  BY DEF Yields
<1>3. u.intent = s.intent \/ u.intent = FALSE
  BY DEF Yields
<1>4. \/ u.planning.id = 0 /\ ~Held(u.planning) /\ u.planState # "PLANNING"
      \/ /\ u.planning.id = s.planning.id
         /\ Held(u.planning) <=> Held(s.planning)
         /\ u.planState \in {s.planState, "PLAN_FAILED", "PLAN_READY"}
  BY DEF Yields
<1> QED
  BY <1>1, <1>2, <1>3, <1>4 DEF Yields

\* Transitions compose.
LEMMA ProceedsOn ==
    \A s, t, u \in State : \A x : Proceeds(s, t, Nobody) /\ Proceeds(t, u, x) => Proceeds(s, u, x)
<1> SUFFICES ASSUME NEW s \in State, NEW t \in State, NEW u \in State, NEW x,
                    Proceeds(s, t, Nobody), Proceeds(t, u, x)
             PROVE Proceeds(s, u, x)
  OBVIOUS
<1>1. /\ t.fin.id # Nobody /\ s.seq \in Nat /\ t.seq \in Nat /\ u.seq \in Nat
      /\ s.planning.id \in Nat /\ t.planning.id \in Nat /\ u.planning.id \in Nat
  BY Fields DEF Action, Nobody
<1>2. Confirmed(s, u)
  BY <1>1 DEF Proceeds, Confirmed, Succeeded
<1>3. Succeeded(s, u, x)
  BY <1>1 DEF Proceeds, Succeeded
<1>4. s.seq <= u.seq
  BY <1>1 DEF Proceeds
<1>5. Plans(s, u)
  BY <1>1 DEF Proceeds, Plans
<1> QED
  BY <1>2, <1>3, <1>4, <1>5 DEF Proceeds

\* ... also before one that begins nothing ...
LEMMA ProceedsYields ==
    \A s, t, u \in State : \A x : Proceeds(s, t, x) /\ Yields(t, u) => Proceeds(s, u, x)
<1> SUFFICES ASSUME NEW s \in State, NEW t \in State, NEW u \in State, NEW x,
                    Proceeds(s, t, x), Yields(t, u)
             PROVE Proceeds(s, u, x)
  OBVIOUS
<1>1. Proceeds(t, u, x) /\ u.seq = t.seq
  BY YieldsContinues DEF Continues, Yields
<1>2. Confirmed(s, u)
  BY <1>1 DEF Proceeds, Confirmed, Yields
<1>3. Succeeded(s, u, x)
  BY DEF Proceeds, Succeeded, Yields
<1>4. Plans(s, u)
  BY <1>1, Fields DEF Proceeds, Plans, Action
<1> QED
  BY <1>1, <1>2, <1>3, <1>4 DEF Proceeds

\* ... within a sample ...
LEMMA KeepsOn == \A s, t, u \in State : Keeps(s, t) /\ Keeps(t, u) => Keeps(s, u)
  BY ProceedsOn DEF Keeps, Continues, Loads

\* ... and up to the decision about it.
LEMMA ReactsOn ==
    \A s, t \in State : \A d \in Decisions : Keeps(s, t) /\ Reacts(t, d) => Reacts(s, d)
  BY ProceedsOn, DecisionParts DEF Keeps, Continues, Loads, Reacts

\* What begins nothing and keeps the sample.
LEMMA YieldsKeeps == \A s, t \in State : Yields(s, t) /\ t.obs = s.obs => Keeps(s, t)
  BY YieldsContinues DEF Keeps

\* A state keeps itself.
LEMMA KeepsSelf == \A s \in State : Yields(s, s) /\ Keeps(s, s)
  BY AlikeYields, YieldsKeeps DEF Alike

\* Arming a timer begins nothing.
LEMMA ScheduleYields ==
    \A s \in State : \A delay \in Delays \cup {"none"} : \A fx :
        LET d == Schedule(s, delay, fx)
        IN d.st \in State /\ Alike(s, d.st) /\ Yields(s, d.st) /\ d.st.timer = delay /\ d.fx = fx
<1> SUFFICES ASSUME NEW s \in State, NEW delay \in Delays \cup {"none"}, NEW fx
             PROVE LET d == Schedule(s, delay, fx)
                   IN /\ d.st \in State /\ Alike(s, d.st) /\ Yields(s, d.st)
                      /\ d.st.timer = delay /\ d.fx = fx
  OBVIOUS
<1>1. LET d == Schedule(s, delay, fx)
      IN d.st \in State /\ Alike(s, d.st) /\ d.st.timer = delay /\ d.fx = fx
  BY WatchedFields, Set_timer DEF Alike, Schedule, Decision, Watched
<1> QED
  BY <1>1, AlikeYields

\* A decision that arms a timer.
LEMMA ScheduleReacts ==
    \A s \in State : \A t \in State : \A delay \in Delays : \A fx :
        Keeps(s, t) /\ "discard" \notin fx => Reacts(s, Schedule(t, delay, fx))
<1> SUFFICES ASSUME NEW s \in State, NEW t \in State, NEW delay \in Delays, NEW fx,
                    Keeps(s, t), "discard" \notin fx
             PROVE Reacts(s, Schedule(t, delay, fx))
  OBVIOUS
<1> DEFINE u == Schedule(t, delay, fx).st
<1>1. u \in State /\ Alike(t, u) /\ u.timer = delay /\ Schedule(t, delay, fx).fx = fx
  BY ScheduleYields
<1> HIDE DEF u
<1>2. u.timer # "none"
  BY <1>1 DEF Delays
<1>3. Keeps(s, u)
  BY <1>1, AlikeYields, YieldsKeeps, KeepsOn
<1> QED
  BY <1>1, <1>2, <1>3 DEF Reacts, Keeps, u

-----------------------------------------------------------------------------
(* Policy. *)

\* Tombstones and the memory of attempts are not watched.
LEMMA RecordsAlike ==
    \A s \in State : \A a, lc, p :
        /\ Alike(s, AppendTombstone(s, a, lc))
        /\ Alike(s, RearmAchievedApplication(s, p))
        /\ Alike(s, ResetApplicationRecovery(s, p))
<1> SUFFICES ASSUME NEW s \in State, NEW a, NEW lc, NEW p
             PROVE /\ Alike(s, AppendTombstone(s, a, lc))
                   /\ Alike(s, RearmAchievedApplication(s, p))
                   /\ Alike(s, ResetApplicationRecovery(s, p))
  OBVIOUS
<1>1. Alike(s, AppendTombstone(s, a, lc))
  BY WatchedFields DEF AppendTombstone, Alike, Watched
<1>2. Alike(s, RearmAchievedApplication(s, p))
  BY WatchedFields DEF RearmAchievedApplication, Alike, Watched
<1>3. Alike(s, ResetApplicationRecovery(s, p))
  BY WatchedFields DEF ResetApplicationRecovery, Alike, Watched
<1> QED
  BY <1>1, <1>2, <1>3

\* Time neither begins nor ends a proof.
LEMMA ElapseYields == \A s \in State : \A dt \in Nat : Yields(s, Elapse(s, dt)) /\ Elapse(s, dt).obs = s.obs
<1> SUFFICES ASSUME NEW s \in State, NEW dt \in Nat PROVE Yields(s, Elapse(s, dt)) /\ Elapse(s, dt).obs = s.obs
  OBVIOUS
<1> DEFINE t == Elapse(s, dt)
<1>1. \A f \in Watched \ {"verify"} : t[f] = s[f]
  BY WatchedFields DEF Elapse, Watched
<1>2. t.verify = IF s.verify = -1 THEN -1 ELSE Least(s.verify + dt, ProfileStability)
  BY WatchedFields DEF Elapse, Watched
<1>3. t.verify = -1 <=> s.verify = -1
  BY <1>2, Fields, BoundsAssumption DEF Least
<1> HIDE DEF t
<1> QED
  BY <1>1, <1>3 DEF Yields, Watched, Loading, Used, Proving, t

\* A proof may be cleared.
LEMMA ClearYields ==
    \A s \in State : Yields(s, ClearProof(s)) /\ ClearProof(s).obs = s.obs /\ ~Proving(ClearProof(s))
  BY WatchedFields DEF ClearProof, Watched, Yields, Loading, Used, Proving

\* A discarded plan is used by nothing.
LEMMA DiscardYields ==
    \A s \in State : LET t == DiscardPlanning(s) IN
        /\ Yields(s, t) /\ t.obs = s.obs /\ t.planning = NoAction /\ t.prep = NoAction
        /\ t.planState = "PLAN_IDLE" /\ t.prepState = "PREPARE_IDLE"
        /\ \A f \in Watched \ {"planning", "prep", "planState"} : t[f] = s[f]
<1> SUFFICES ASSUME NEW s \in State
             PROVE LET t == DiscardPlanning(s) IN
                      /\ Yields(s, t) /\ t.obs = s.obs /\ t.planning = NoAction /\ t.prep = NoAction
                      /\ t.planState = "PLAN_IDLE" /\ t.prepState = "PREPARE_IDLE"
                      /\ \A f \in Watched \ {"planning", "prep", "planState"} : t[f] = s[f]
  OBVIOUS
<1> DEFINE t == DiscardPlanning(s)
<1>1. /\ t.planning = NoAction /\ t.prep = NoAction
      /\ t.planState = "PLAN_IDLE" /\ t.prepState = "PREPARE_IDLE"
      /\ \A f \in Watched \ {"planning", "prep", "planState"} : t[f] = s[f]
  BY WatchedFields DEF DiscardPlanning, AppendTombstone, Watched
<1>2. NoAction.id = 0 /\ ~Held(NoAction)
  BY NoActionStage
<1> HIDE DEF t
<1>3. Yields(s, t)
  BY <1>1, <1>2 DEF Yields, Watched, Loading, Used, Proving
<1> QED
  BY <1>1, <1>3 DEF Watched, t

\* An action that leaves the state ends nothing else.
LEMMA DropYields ==
    \A s \in State : \A lc :
        /\ Yields(s, DropProbe(s, lc)) /\ DropProbe(s, lc).obs = s.obs
        /\ Yields(s, DropApplication(s, lc)) /\ DropApplication(s, lc).obs = s.obs
        /\ Yields(s, DropPreparation(s, lc)) /\ DropPreparation(s, lc).obs = s.obs
        /\ Yields(s, DropFinalization(s, lc)) /\ DropFinalization(s, lc).obs = s.obs
        /\ DropApplication(s, lc).app = NoAction
<1> SUFFICES ASSUME NEW s \in State, NEW lc
             PROVE /\ Yields(s, DropProbe(s, lc)) /\ DropProbe(s, lc).obs = s.obs
                   /\ Yields(s, DropApplication(s, lc)) /\ DropApplication(s, lc).obs = s.obs
                   /\ Yields(s, DropPreparation(s, lc)) /\ DropPreparation(s, lc).obs = s.obs
                   /\ Yields(s, DropFinalization(s, lc)) /\ DropFinalization(s, lc).obs = s.obs
                   /\ DropApplication(s, lc).app = NoAction
  OBVIOUS
<1>0. NoAction.lc = "ABSENT"
  BY DEF NoAction
<1>1. Yields(s, DropProbe(s, lc)) /\ DropProbe(s, lc).obs = s.obs
  BY WatchedFields DEF DropProbe, AppendTombstone, Watched, Yields, Loading, Used, Proving
<1>2. Yields(s, DropApplication(s, lc)) /\ DropApplication(s, lc).obs = s.obs /\ DropApplication(s, lc).app = NoAction
  BY <1>0, WatchedFields DEF DropApplication, AppendTombstone, Watched, Yields, Loading, Used, Proving
<1>3. Yields(s, DropPreparation(s, lc)) /\ DropPreparation(s, lc).obs = s.obs
  BY <1>0, WatchedFields DEF DropPreparation, AppendTombstone, Watched, Yields, Loading, Used, Proving, Held
<1>4. Yields(s, DropFinalization(s, lc)) /\ DropFinalization(s, lc).obs = s.obs
  BY <1>0, WatchedFields DEF DropFinalization, AppendTombstone, Watched, Yields, Loading, Used, Proving
<1> QED
  BY <1>1, <1>2, <1>3, <1>4

-----------------------------------------------------------------------------
(* Waiting and admission. *)

\* A wait ends the proof.
LEMMA WaitYields ==
    \A s \in State : \A d \in {EnterWait(s), DeferWhileAsleep(s)} :
        /\ d \in Decisions /\ Yields(s, d.st) /\ d.st.phase # "RECOVERING"
        /\ d.st.timer # "none" /\ "discard" \notin d.fx
<1> SUFFICES ASSUME NEW s \in State
             PROVE /\ Yields(s, EnterWait(s).st) /\ EnterWait(s).st.phase # "RECOVERING"
                   /\ EnterWait(s).st.timer # "none" /\ "discard" \notin EnterWait(s).fx
                   /\ Yields(s, DeferWhileAsleep(s).st)
                   /\ DeferWhileAsleep(s).st.phase # "RECOVERING"
                   /\ DeferWhileAsleep(s).st.timer # "none"
                   /\ "discard" \notin DeferWhileAsleep(s).fx
  BY EnterWaitType, DeferType
<1>1. /\ Yields(s, EnterWait(s).st) /\ EnterWait(s).st.phase # "RECOVERING"
      /\ EnterWait(s).st.timer # "none" /\ "discard" \notin EnterWait(s).fx
  BY WatchedFields DEF EnterWait, ClearProof, Schedule, Decision, Watched, Yields, Loading, Used, Proving
<1>2. /\ Yields(s, DeferWhileAsleep(s).st) /\ DeferWhileAsleep(s).st.phase # "RECOVERING"
      /\ DeferWhileAsleep(s).st.timer # "none" /\ "discard" \notin DeferWhileAsleep(s).fx
  BY WatchedFields DEF DeferWhileAsleep, ClearProof, Schedule, Decision, Watched, Yields, Loading, Used, Proving
<1> QED
  BY <1>1, <1>2

\* So the controller will look again.
LEMMA WaitReacts == \A s \in State : Reacts(s, EnterWait(s)) /\ Reacts(s, DeferWhileAsleep(s))
  BY WaitYields, DecisionParts, YieldsContinues DEF Reacts

\* A decision given by its state, its effects and its timer.
LEMMA ArmedReacts ==
    \A s \in State : \A d \in Decisions :
        Continues(s, d.st, Nobody) /\ d.st.timer # "none" /\ "discard" \notin d.fx => Reacts(s, d)
  BY DEF Reacts

\* The admission of a probe discards the plan.
LEMMA AdmitProbeReacts == \A s \in State : \A o \in Observations : Reacts(s, AdmitProbe(s, o))
<1> SUFFICES ASSUME NEW s \in State, NEW o \in Observations PROVE Reacts(s, AdmitProbe(s, o))
  OBVIOUS
<1> DEFINE probe == Allocated(s, o.gen, Evidence[o.key].probe, o.key, 0, None)
           p == DiscardPlanning(s)
           t == [p EXCEPT !.phase = "PROBE_PENDING", !.cand = NoCandidate, !.seq = @ + 1,
                          !.probe = probe, !.baseline = FALSE, !.verify = -1, !.timer = "now"]
<1>1. CASE AttemptKey(probe) \in s.probed
  BY <1>1, WaitReacts DEF AdmitProbe
<1>2. CASE AttemptKey(probe) \notin s.probed
  <2>1. AdmitProbe(s, o) = Decision(t, {"dispatch"})
    BY <1>2 DEF AdmitProbe
  <2>2. AdmitProbe(s, o) \in Decisions
    BY AdmitProbeType
  <2>3. p \in State /\ Yields(s, p) /\ p.obs = s.obs /\ p.planning.id = 0 /\ ~Held(p.prep) /\ p.planState = "PLAN_IDLE"
    BY DiscardPlanningType, DiscardYields, NoActionStage
  <2> HIDE DEF p, probe
  <2>4. /\ t.phase = "PROBE_PENDING" /\ t.seq = p.seq + 1 /\ t.verify = -1 /\ t.timer = "now"
        /\ t.baseline = FALSE
        /\ \A f \in Watched \ {"phase", "seq", "verify", "baseline"} : t[f] = p[f]
    BY <2>3, WatchedFields DEF Watched
  <2>5. t \in State
    BY <2>1, <2>2, DecisionParts DEF Decision
  <2> HIDE DEF t
  <2>6. Confirmed(p, t)
    BY <2>4 DEF Confirmed, FirstStart, Watched
  <2>7. Succeeded(p, t, Nobody) /\ Loads(p, t)
    BY <2>4 DEF Succeeded, Loads, Loading, Watched
  <2>8. Plans(p, t) /\ p.seq <= t.seq
    BY <2>3, <2>4, <2>5, Fields DEF Plans, Counted, Proving, Watched
  <2>9. Keeps(p, t) /\ Keeps(s, p)
    BY <2>3, <2>4, <2>6, <2>7, <2>8, YieldsKeeps DEF Keeps, Continues, Proceeds, Watched
  <2>10. Keeps(s, t)
    BY <2>3, <2>5, <2>9, KeepsOn
  <2> QED
    BY <2>1, <2>2, <2>4, <2>10, ArmedReacts DEF Decision, Keeps
<1> QED
  BY <1>1, <1>2

\* The admission of an application, of the laptop's profile only without intent.
LEMMA AdmitApplicationReacts ==
    \A s \in State : \A o \in Observations : \A p \in Profiles :
        (p \in InternalProfiles => s.intent = FALSE) => Reacts(s, AdmitApplication(s, o, p))
<1> SUFFICES ASSUME NEW s \in State, NEW o \in Observations, NEW p \in Profiles,
                    p \in InternalProfiles => s.intent = FALSE
             PROVE Reacts(s, AdmitApplication(s, o, p))
  OBVIOUS
<1> DEFINE app == Allocated(s, o.gen, p, o.key, 0, None)
           t == [s EXCEPT !.cand = Candidate(s, o.key, p), !.baseline = FALSE]
           u == [t EXCEPT !.applied = @ \ {AttemptKey(app)}, !.phase = "APPLY_PENDING",
                          !.seq = @ + 1, !.app = app, !.timer = "now"]
<1>1. t \in State
  BY CandidateType, ObservationType, Set_cand, Set_baseline
<1>2. t.baseline = FALSE /\ \A f \in Watched \ {"baseline"} : t[f] = s[f]
  BY WatchedFields DEF Watched
<1>3. app.profile = p
  BY DEF Allocated
<1>4. AdmitApplication(s, o, p) \in Decisions
  BY AdmitApplicationType
<1>5. AdmitApplication(s, o, p) \in {EnterWait(t), Decision(u, {"dispatch"})}
  BY DEF AdmitApplication
<1> HIDE DEF t, app
<1>6. CASE AdmitApplication(s, o, p) = EnterWait(t)
  <2> DEFINE w == EnterWait(t).st
  <2>1. /\ Yields(t, w) /\ w.phase # "RECOVERING" /\ w.timer # "none" /\ w \in State
        /\ EnterWait(t) \in Decisions /\ "discard" \notin EnterWait(t).fx
    BY <1>1, WaitYields, DecisionParts
  <2> HIDE DEF w
  <2>2. Yields(s, w)
    BY <1>2, <2>1 DEF Yields, Loading, Used, Proving, Watched
  <2> QED
    BY <1>6, <2>1, <2>2, YieldsContinues, ArmedReacts DEF w
<1>7. CASE AdmitApplication(s, o, p) = Decision(u, {"dispatch"})
  <2>1. /\ u.phase = "APPLY_PENDING" /\ u.seq = t.seq + 1 /\ u.app = app /\ u.timer = "now"
        /\ \A f \in Watched \ {"phase", "seq", "app"} : u[f] = t[f]
    BY <1>1, WatchedFields DEF Watched
  <2>2. u \in State
    BY <1>4, <1>7, DecisionParts DEF Decision
  <2> HIDE DEF u
  <2>3. Confirmed(s, u)
    BY <1>2, <2>1 DEF Confirmed, FirstStart, Watched
  <2>4. Succeeded(s, u, Nobody)
    BY <1>2, <2>1 DEF Succeeded, Watched
  <2>5. Loads(s, u)
    BY <1>2, <1>3, <2>1 DEF Loads, Loading, Watched
  <2>6. Plans(s, u) /\ s.seq <= u.seq
    BY <1>2, <2>1, <2>2, Fields DEF Plans, Counted, Used, Proving, Watched
  <2>7. Continues(s, u, Nobody)
    BY <2>3, <2>4, <2>5, <2>6 DEF Continues, Proceeds
  <2> QED
    BY <1>4, <1>7, <2>1, <2>7, ArmedReacts DEF Decision
<1> QED
  BY <1>5, <1>6, <1>7

-----------------------------------------------------------------------------
(* Verification. *)

\* A complete proof ends in rest or in a finalization; another goes on.
LEMMA CompleteVerificationReacts ==
    \A s \in State : \A o \in Observations : \A fx \in SUBSET Effects :
        /\ Proving(s) /\ s.cand.profile # None /\ "discard" \notin fx
        /\ "dispatch" \in fx => s.prep.lc = "ADMITTED"
        => Reacts(s, CompleteVerification(s, o, fx))
<1> SUFFICES ASSUME NEW s \in State, NEW o \in Observations, NEW fx \in SUBSET Effects,
                    Proving(s), s.cand.profile # None, "discard" \notin fx,
                    "dispatch" \in fx => s.prep.lc = "ADMITTED"
             PROVE Reacts(s, CompleteVerification(s, o, fx))
  OBVIOUS
<1> DEFINE profile == s.cand.profile
           d == DiscardPlanning(s)
           a == ResetApplicationRecovery(d, profile)
           b == ResetApplicationRecovery(s, profile)
           v == [a EXCEPT !.stable = profile, !.baseline = FALSE]
           w == [b EXCEPT !.stable = profile, !.finalized = profile, !.baseline = FALSE]
           u == [s EXCEPT !.phase = "FINALIZE_PENDING", !.seq = @ + 1,
                          !.fin = Allocated(s, o.gen, profile, o.key, s.prep.plan, None),
                          !.timer = "now"]
<1>0. profile \in Profiles /\ CompleteVerification(s, o, fx) \in Decisions
  BY Fields, CompleteVerificationType DEF Candidates
<1>1. \/ s.finalized = profile /\ CompleteVerification(s, o, fx) = Quiesce(v)
      \/ s.baseline = TRUE /\ CompleteVerification(s, o, fx) = Quiesce(w)
      \/ CompleteVerification(s, o, fx) = Decision(u, {"dispatch"})
      \/ CompleteVerification(s, o, fx) \in {Schedule(s, "health", fx), Schedule(s, "tick", fx)}
  <2>1. s.baseline \in BOOLEAN
    BY Fields
  <2> QED
    BY <2>1, Zenon DEF CompleteVerification
<1>2. CASE s.finalized = profile /\ CompleteVerification(s, o, fx) = Quiesce(v)
  <2> DEFINE q == Quiesce(v).st
  <2>1. d \in State /\ a \in State /\ Alike(d, a)
    BY <1>0, DiscardPlanningType, ResetRecoveryType, RecordsAlike
  <2>2. /\ d.planning.id = 0 /\ ~Held(d.planning) /\ ~Held(d.prep)
        /\ d.planState = "PLAN_IDLE"
        /\ \A f \in Watched \ {"planning", "prep", "planState"} : d[f] = s[f]
    BY DiscardYields, NoActionStage
  <2> HIDE DEF d, a
  <2>3. /\ q.stable = profile /\ q.baseline = FALSE /\ q.phase = "QUIESCENT" /\ Quiesce(v).fx = {}
        /\ \A f \in Watched \ {"baseline", "phase"} : q[f] = a[f]
    BY <2>1, WatchedFields DEF Quiesce, Decision, Watched
  <2>4. q \in State
    BY <1>0, <1>2, DecisionParts
  <2> HIDE DEF q
  <2>5. /\ q.planning.id = 0 /\ ~Held(q.planning) /\ ~Held(q.prep)
        /\ q.planState = "PLAN_IDLE" /\ q.phase = "QUIESCENT" /\ q.baseline = FALSE
        /\ q.seq = s.seq /\ q.finalized = s.finalized /\ q.fin = s.fin /\ q.app = s.app
        /\ q.intent = s.intent /\ q.obs = s.obs
    BY <2>1, <2>2, <2>3 DEF Alike, Watched
  <2>6. Yields(s, q)
    BY <2>5 DEF Yields, Loading, Used, Proving
  <2>7. s.obs # None => Quiet(q)
    BY <1>2, <2>3, <2>5 DEF Quiet
  <2> QED
    BY <1>2, <2>3, <2>4, <2>6, <2>7, YieldsContinues DEF Reacts, q
<1>3. CASE s.baseline = TRUE /\ CompleteVerification(s, o, fx) = Quiesce(w)
  <2> DEFINE q == Quiesce(w).st
  <2>1. b \in State /\ Alike(s, b)
    BY <1>0, ResetRecoveryType, RecordsAlike
  <2> HIDE DEF b
  <2>3. /\ q.stable = profile /\ q.baseline = FALSE /\ q.phase = "QUIESCENT" /\ Quiesce(w).fx = {}
        /\ q.finalized = profile
        /\ \A f \in Watched \ {"baseline", "phase", "finalized"} : q[f] = b[f]
    BY <2>1, WatchedFields DEF Quiesce, Decision, Watched
  <2>4. q \in State
    BY <1>0, <1>3, DecisionParts
  <2> HIDE DEF q
  <2>5. \A f \in Watched \ {"baseline", "phase", "finalized"} : q[f] = s[f]
    BY <2>1, <2>3 DEF Alike
  <2>6. Confirmed(s, q)
    BY <1>3, <2>3 DEF Confirmed, FirstStart
  <2>7. Succeeded(s, q, Nobody) /\ Loads(s, q)
    BY <2>5 DEF Succeeded, Loads, Loading, Watched
  <2>8. Plans(s, q) /\ s.seq <= q.seq
    BY <2>3, <2>5, Fields DEF Plans, Counted, Used, Proving, Watched
  <2>9. s.obs # None => Quiet(q)
    BY <1>0, <2>3, <2>5 DEF Quiet, Watched
  <2> QED
    BY <1>3, <2>3, <2>6, <2>7, <2>8, <2>9 DEF Reacts, Continues, Proceeds, q
<1>4. CASE CompleteVerification(s, o, fx) = Decision(u, {"dispatch"})
  <2>1. /\ u.phase = "FINALIZE_PENDING" /\ u.seq = s.seq + 1 /\ u.timer = "now"
        /\ u.fin.lc = "ADMITTED"
        /\ \A f \in Watched \ {"phase", "seq", "fin"} : u[f] = s[f]
    BY WatchedFields DEF Watched, Allocated
  <2>2. u \in State
    BY <1>0, <1>4, DecisionParts DEF Decision
  <2> HIDE DEF u
  <2>3. Confirmed(s, u)
    BY <2>1 DEF Confirmed, FirstStart, Watched
  <2>4. Succeeded(s, u, Nobody) /\ Loads(s, u)
    BY <2>1 DEF Succeeded, Loads, Loading, Watched
  <2>5. Plans(s, u) /\ s.seq <= u.seq
    BY <2>1, <2>2, Fields DEF Plans, Counted, Used, Proving, Watched
  <2> QED
    BY <1>0, <1>4, <2>1, <2>3, <2>4, <2>5, ArmedReacts DEF Decision, Continues, Proceeds
<1>5. CASE CompleteVerification(s, o, fx) \in {Schedule(s, "health", fx), Schedule(s, "tick", fx)}
  BY <1>5, KeepsSelf, ScheduleReacts DEF Delays
<1> QED
  BY <1>1, <1>2, <1>3, <1>4, <1>5

\* A preparation is admitted where a proof runs.
LEMMA WithPreparationKeeps ==
    \A s \in State : \A o \in Observations :
        Proving(s) => Keeps(s, WithPreparation(s, o)) /\ Proving(WithPreparation(s, o))
                      /\ WithPreparation(s, o).cand = s.cand
<1> SUFFICES ASSUME NEW s \in State, NEW o \in Observations, Proving(s)
             PROVE Keeps(s, WithPreparation(s, o)) /\ Proving(WithPreparation(s, o))
                   /\ WithPreparation(s, o).cand = s.cand
  OBVIOUS
<1> DEFINE t == WithPreparation(s, o)
<1>1. t.seq = s.seq + 1 /\ \A f \in Watched \ {"seq", "prep"} : t[f] = s[f]
  BY WatchedFields DEF WithPreparation, Watched
<1>2. t.cand = s.cand
  BY DEF State, WithPreparation
<1>3. t \in State
  BY WithPreparationType
<1> HIDE DEF t
<1>4. Confirmed(s, t)
  BY <1>1 DEF Confirmed, FirstStart, Watched
<1>5. Succeeded(s, t, Nobody) /\ Loads(s, t)
  BY <1>1 DEF Succeeded, Loads, Loading, Watched
<1>6. Plans(s, t) /\ s.seq <= t.seq /\ Proving(t)
  BY <1>1, <1>3, Fields DEF Plans, Counted, Used, Proving, Watched
<1> QED
  BY <1>1, <1>2, <1>4, <1>5, <1>6 DEF Keeps, Continues, Proceeds, Watched, t

\* A proof goes on, or was lost and is waited for.
LEMMA AdvanceVerificationReacts ==
    \A s \in State : \A o \in Observations : \A fx \in SUBSET {"plan"} :
        s.phase = "VERIFYING" => Reacts(s, AdvanceVerification(s, o, fx))
<1> SUFFICES ASSUME NEW s \in State, NEW o \in Observations, NEW fx \in SUBSET {"plan"},
                    s.phase = "VERIFYING"
             PROVE Reacts(s, AdvanceVerification(s, o, fx))
  OBVIOUS
<1> DEFINE t == WithPreparation(s, o)
<1>1. \/ AdvanceVerification(s, o, fx) = EnterWait(s)
      \/ /\ s.verify # -1 /\ s.cand.profile # None
         /\ AdvanceVerification(s, o, fx) \in
               {CompleteVerification(s, o, fx), CompleteVerification(t, o, fx \cup {"dispatch"})}
  BY DEF AdvanceVerification
<1>2. CASE AdvanceVerification(s, o, fx) = EnterWait(s)
  BY <1>2, WaitReacts
<1>3. CASE Proving(s) /\ s.cand.profile # None
  <2>1. t \in State /\ t.prep.lc = "ADMITTED" /\ Keeps(s, t) /\ Proving(t) /\ t.cand = s.cand
    BY <1>3, WithPreparationType, WithPreparationKeeps
  <2>2. fx \in SUBSET Effects /\ fx \cup {"dispatch"} \in SUBSET Effects
        /\ "dispatch" \notin fx /\ "discard" \notin fx \cup {"dispatch"}
    BY DEF Effects
  <2> HIDE DEF t
  <2>3. Reacts(s, CompleteVerification(s, o, fx))
    BY <1>3, <2>2, CompleteVerificationReacts
  <2>4. Reacts(t, CompleteVerification(t, o, fx \cup {"dispatch"}))
    BY <1>3, <2>1, <2>2, CompleteVerificationReacts
  <2>5. CompleteVerification(t, o, fx \cup {"dispatch"}) \in Decisions
    BY <2>1, <2>2, CompleteVerificationType
  <2>6. Reacts(s, CompleteVerification(t, o, fx \cup {"dispatch"}))
    BY <2>1, <2>4, <2>5, ReactsOn
  <2> QED
    BY <1>1, <1>2, <2>3, <2>6 DEF t
<1> QED
  BY <1>1, <1>2, <1>3 DEF Proving

\* A plan that is asked for is a new one.
LEMMA AdmitPlanKeeps ==
    \A s \in State : \A o \in Observations : \A p \in Profiles :
        Keeps(s, AdmitPlan(s, o, p)) /\ AdmitPlan(s, o, p).phase = s.phase
<1> SUFFICES ASSUME NEW s \in State, NEW o \in Observations, NEW p \in Profiles
             PROVE Keeps(s, AdmitPlan(s, o, p)) /\ AdmitPlan(s, o, p).phase = s.phase
  OBVIOUS
<1> DEFINE t == AdmitPlan(s, o, p)
<1>1. /\ t.seq = s.seq + 1 /\ t.planning.id = s.seq + 1 /\ t.planning.lc = "ADMITTED"
      /\ t.planState = "PLAN_PENDING"
      /\ \A f \in Watched \ {"seq", "planning", "planState"} : t[f] = s[f]
  BY WatchedFields DEF AdmitPlan, Allocated, Watched
<1>2. t \in State
  BY AdmitPlanType
<1> HIDE DEF t
<1>3. Confirmed(s, t)
  BY <1>1 DEF Confirmed, FirstStart, Watched
<1>4. Succeeded(s, t, Nobody) /\ Loads(s, t)
  BY <1>1 DEF Succeeded, Loads, Loading, Watched
<1>5. Plans(s, t) /\ s.seq <= t.seq
  BY <1>1, <1>2, Fields DEF Plans, Counted, Held
<1> QED
  BY <1>1, <1>3, <1>4, <1>5 DEF Keeps, Continues, Proceeds, Watched, t

\* A proof asks for its plan.
LEMMA PlanVerificationReacts ==
    \A s \in State : \A o \in Observations : \A p \in Profiles :
        s.phase = "VERIFYING" => Reacts(s, PlanVerification(s, o, p))
<1> SUFFICES ASSUME NEW s \in State, NEW o \in Observations, NEW p \in Profiles,
                    s.phase = "VERIFYING"
             PROVE Reacts(s, PlanVerification(s, o, p))
  OBVIOUS
<1> DEFINE t == AdmitPlan(s, o, p)
<1>1. PlanVerification(s, o, p) \in {AdvanceVerification(s, o, {}), AdvanceVerification(t, o, {"plan"})}
  BY DEF PlanVerification
<1>2. t \in State /\ Keeps(s, t) /\ t.phase = "VERIFYING"
  BY AdmitPlanType, AdmitPlanKeeps
<1> HIDE DEF t
<1>3. Reacts(s, AdvanceVerification(s, o, {})) /\ Reacts(t, AdvanceVerification(t, o, {"plan"}))
      /\ AdvanceVerification(t, o, {"plan"}) \in Decisions
  BY <1>2, AdvanceVerificationReacts, AdvanceVerificationType
<1> QED
  BY <1>1, <1>2, <1>3, ReactsOn

\* A proof begins with no plan, or goes on with its own.
LEMMA StartVerificationReacts ==
    \A s \in State : \A o \in Observations : \A p \in Profiles : Reacts(s, StartVerification(s, o, p))
<1> SUFFICES ASSUME NEW s \in State, NEW o \in Observations, NEW p \in Profiles
             PROVE Reacts(s, StartVerification(s, o, p))
  OBVIOUS
<1> DEFINE t(r, age, cand) == [r EXCEPT !.phase = "VERIFYING", !.verify = age, !.cand = cand]
<1>1. \E r, age, cand :
        /\ StartVerification(s, o, p) = PlanVerification(t(r, age, cand), o, p)
        /\ age \in {r.verify, 0} /\ cand \in {r.cand, Candidate(s, o.key, p)}
        /\ (r = s /\ Proving(s) /\ age = s.verify) \/ r = DiscardPlanning(s)
  <2> DEFINE sameProof == /\ s.phase = "VERIFYING" /\ s.cand.profile = p
                          /\ s.cand.key = o.key /\ s.verify # -1
             samePlan == /\ s.planning.epoch = s.epoch /\ s.planning.profile = p
                         /\ s.planning.key = o.key /\ s.planning.cfg = o.cfg
             r == DiscardPlanning(s)
  <2>1. CASE sameProof /\ (Held(s.planning) => samePlan)
    <3>1. StartVerification(s, o, p) = PlanVerification(t(s, s.verify, s.cand), o, p)
      BY <2>1 DEF StartVerification
    <3> QED
      BY <2>1, <3>1 DEF Proving
  <2>2. CASE sameProof /\ ~(Held(s.planning) => samePlan)
    <3>1. StartVerification(s, o, p) = PlanVerification(t(r, r.verify, r.cand), o, p)
      BY <2>2 DEF StartVerification
    <3> QED
      BY <3>1
  <2>3. CASE ~sameProof
    <3>1. StartVerification(s, o, p) = PlanVerification(t(r, 0, Candidate(s, o.key, p)), o, p)
      BY <2>3 DEF StartVerification
    <3> QED
      BY <3>1
  <2> QED
    BY <2>1, <2>2, <2>3
<1>2. PICK r, age, cand :
        /\ StartVerification(s, o, p) = PlanVerification(t(r, age, cand), o, p)
        /\ age \in {r.verify, 0} /\ cand \in {r.cand, Candidate(s, o.key, p)}
        /\ (r = s /\ Proving(s) /\ age = s.verify) \/ r = DiscardPlanning(s)
  BY <1>1
<1>3. r \in State
  BY <1>2, DiscardPlanningType
<1> DEFINE u == t(r, age, cand)
<1>4. u \in State
  <2>1. age \in -1..ProfileStability /\ cand \in Candidates
    BY <1>2, <1>3, Fields, CandidateType, ObservationType, BoundsAssumption
  <2> QED
    BY <1>3, <2>1, Named, Set_phase, Set_verify, Set_cand
<1>5. u.phase = "VERIFYING" /\ u.verify = age /\ \A f \in Watched \ {"phase", "verify"} : u[f] = r[f]
  BY <1>3, WatchedFields DEF Watched
<1> HIDE DEF u
<1>6. Keeps(s, u)
  <2>1. CASE r = s /\ Proving(s) /\ age = s.verify
    <3>1. Alike(s, u) \/ \A f \in Watched : u[f] = s[f]
      BY <1>5, <2>1 DEF Proving, Watched
    <3>2. Yields(s, u) /\ u.obs = s.obs
      BY <1>5, <2>1 DEF Yields, Watched, Loading, Used, Proving
    <3> QED
      BY <1>4, <3>2, YieldsKeeps
  <2>2. CASE r = DiscardPlanning(s)
    <3>1. /\ r.planning.id = 0 /\ ~Held(r.planning) /\ r.planState = "PLAN_IDLE"
          /\ \A f \in Watched \ {"planning", "prep", "planState"} : r[f] = s[f]
      BY <2>2, DiscardYields, NoActionStage
    <3>2. Confirmed(s, u)
      BY <1>5, <3>1 DEF Confirmed, FirstStart, Watched
    <3>3. Succeeded(s, u, Nobody) /\ Loads(s, u)
      BY <1>5, <3>1 DEF Succeeded, Loads, Loading, Watched
    <3>4. Plans(s, u) /\ s.seq <= u.seq
      BY <1>4, <1>5, <3>1, Fields DEF Plans, Counted, Watched
    <3> QED
      BY <1>5, <3>1, <3>2, <3>3, <3>4 DEF Keeps, Continues, Proceeds, Watched
  <2> QED
    BY <1>2, <2>1, <2>2
<1>7. Reacts(u, PlanVerification(u, o, p)) /\ PlanVerification(u, o, p) \in Decisions
  BY <1>4, <1>5, PlanVerificationReacts, PlanVerificationType
<1>8. Reacts(s, PlanVerification(u, o, p))
  BY <1>4, <1>6, <1>7, ReactsOn
<1> QED
  BY <1>2, <1>8 DEF u

-----------------------------------------------------------------------------
(* Classification. *)

\* The unplug proof: once it is complete the intent is gone.
LEMMA HandleUnplugYields ==
    \A s \in State : \A o \in Observations : LET h == HandleUnplug(s, o) IN
        /\ Yields(s, h.st) /\ h.st.obs = s.obs
        /\ h.done = TRUE => h.st.intent = FALSE
<1> SUFFICES ASSUME NEW s \in State, NEW o \in Observations
             PROVE LET h == HandleUnplug(s, o) IN
                     /\ Yields(s, h.st) /\ h.st.obs = s.obs
                     /\ h.done = TRUE => h.st.intent = FALSE
  OBVIOUS
<1> DEFINE h == HandleUnplug(s, o)
<1>1. s.intent \in BOOLEAN
  BY Fields
<1>2. /\ \A f \in Watched \ {"intent", "verify"} : h.st[f] = s[f]
      /\ h.st.intent \in {s.intent, FALSE} /\ h.st.verify \in {s.verify, -1}
      /\ h.done = TRUE => h.st.intent = FALSE
  BY <1>1, WatchedFields DEF HandleUnplug, Watched
<1> HIDE DEF h
<1>3. Yields(s, h.st)
  BY <1>2 DEF Yields, Watched, Loading, Used, Proving
<1> QED
  BY <1>2, <1>3 DEF h, Watched

\* External hardware is remembered; nothing of the laptop's is loading.
LEMMA RetainIntentKeeps ==
    \A s \in State : ~Loading(s) => LET t == RetainExternalIntent(s) IN Keeps(s, t) /\ ~Loading(t)
<1> SUFFICES ASSUME NEW s \in State, ~Loading(s)
             PROVE Keeps(s, RetainExternalIntent(s)) /\ ~Loading(RetainExternalIntent(s))
  OBVIOUS
<1> DEFINE t == RetainExternalIntent(s)
<1>1. t.verify \in {s.verify, -1} /\ \A f \in Watched \ {"intent", "verify"} : t[f] = s[f]
  BY WatchedFields DEF RetainExternalIntent, Watched
<1> HIDE DEF t
<1>2. Confirmed(s, t)
  BY <1>1 DEF Confirmed, FirstStart, Watched
<1>3. Succeeded(s, t, Nobody) /\ Loads(s, t) /\ ~Loading(t)
  BY <1>1 DEF Succeeded, Loads, Loading, Watched
<1>4. Plans(s, t) /\ s.seq <= t.seq
  BY <1>1, Fields DEF Plans, Counted, Used, Proving, Watched
<1> QED
  BY <1>1, <1>2, <1>3, <1>4 DEF Keeps, Continues, Proceeds, Watched, t

\* A failure of the old topology may be dropped.
LEMMA AwaitUnplugReacts == \A s \in State : Reacts(s, AwaitUnplug(s))
<1> SUFFICES ASSUME NEW s \in State PROVE Reacts(s, AwaitUnplug(s))
  OBVIOUS
<1> DEFINE t == [s EXCEPT
                   !.phase = "DISCOVER_FAST",
                   !.probe = IF s.phase = "PROBE_FAILED" THEN NoAction ELSE @,
                   !.app = IF s.phase = "APPLY_FAILED" THEN NoAction ELSE @,
                   !.fin = IF s.phase = "FINALIZE_FAILED" THEN NoAction ELSE @]
<1>0. NoAction.lc = "ABSENT"
  BY DEF NoAction
<1>1. /\ t.phase = "DISCOVER_FAST" /\ t.app \in {s.app, NoAction} /\ t.fin \in {s.fin, NoAction}
      /\ \A f \in Watched \ {"phase", "app", "fin"} : t[f] = s[f]
  BY WatchedFields DEF Watched
<1>2. t \in State
  BY Fields, NoneTyped, Named, Set_phase, Set_probe, Set_app, Set_fin
<1>3. AwaitUnplug(s) = Schedule(t, "tick", {})
  BY DEF AwaitUnplug
<1> HIDE DEF t
<1>4. Yields(s, t) /\ t.obs = s.obs
  BY <1>0, <1>1 DEF Yields, Watched, Loading, Used, Proving
<1> QED
  BY <1>2, <1>3, <1>4, YieldsKeeps, ScheduleReacts DEF Delays

\* So may one whose evidence has changed.
LEMMA DropFailureYields ==
    \A s \in State : LET t == DropFailure(s) IN Yields(s, t) /\ t.obs = s.obs /\ t.intent = s.intent
<1> SUFFICES ASSUME NEW s \in State
             PROVE LET t == DropFailure(s) IN Yields(s, t) /\ t.obs = s.obs /\ t.intent = s.intent
  OBVIOUS
<1> DEFINE t == DropFailure(s)
<1>0. NoAction.lc = "ABSENT"
  BY DEF NoAction
<1>1. /\ t.phase = s.phase \/ t.phase = "DISCOVER_FAST"
      /\ t.app \in {s.app, NoAction} /\ t.fin \in {s.fin, NoAction}
      /\ \A f \in Watched \ {"phase", "app", "fin"} : t[f] = s[f]
  BY WatchedFields DEF DropFailure, Watched
<1> HIDE DEF t
<1>2. Yields(s, t)
  BY <1>0, <1>1 DEF Yields, Watched, Loading, Used, Proving
<1> QED
  BY <1>1, <1>2 DEF t, Watched

\* An unknown topology is looked at again.
LEMMA ClassifyUnknownReacts ==
    \A s \in State : \A o \in Observations : Reacts(s, ClassifyUnknown(s, o))
<1> SUFFICES ASSUME NEW s \in State, NEW o \in Observations PROVE Reacts(s, ClassifyUnknown(s, o))
  OBVIOUS
<1> DEFINE t == ClassifyUnknown(s, o).st
<1>1. /\ t.phase \in {"UNSUPPORTED", "DISCOVER_FAST"} /\ t.verify = -1 /\ t.timer \in {"health", "tick"}
      /\ ClassifyUnknown(s, o).fx = {}
      /\ \A f \in Watched \ {"phase", "verify"} : t[f] = s[f]
  BY WatchedFields DEF ClassifyUnknown, Schedule, Decision, Watched
<1>2. ClassifyUnknown(s, o) \in Decisions
  BY ClassifyUnknownType
<1>3. t \in State
  BY <1>2, DecisionParts
<1> HIDE DEF t
<1>4. Yields(s, t)
  BY <1>1 DEF Yields, Watched, Loading, Used, Proving
<1> QED
  BY <1>1, <1>2, <1>3, <1>4, YieldsContinues, ArmedReacts DEF t

\* Forgetting an unknown topology is not watched.
LEMMA KnownAlike == \A s \in State : Alike(s, [s EXCEPT !.unknown = NoUnknown])
  BY WatchedFields DEF Alike, Watched

\* An exact, current profile: rest, or a proof.
LEMMA ClassifyExactReacts ==
    \A s \in State : \A o \in Observations : \A p \in Profiles : Reacts(s, ClassifyExact(s, o, p))
<1> SUFFICES ASSUME NEW s \in State, NEW o \in Observations, NEW p \in Profiles
             PROVE Reacts(s, ClassifyExact(s, o, p))
  OBVIOUS
<1> DEFINE r == [s EXCEPT !.unknown = NoUnknown]
           t == RearmAchievedApplication(r, p)
           q == Quiesce(t).st
<1>1. r \in State /\ Alike(s, r)
  BY NoneTyped, Set_unknown, KnownAlike
<1>2. t \in State /\ Alike(r, t)
  BY <1>1, RearmType, RecordsAlike
<1>3. \/ /\ t.phase = "QUIESCENT" /\ t.stable = p /\ t.finalized = p
         /\ ClassifyExact(s, o, p) = Quiesce(t)
      \/ ClassifyExact(s, o, p) = StartVerification(t, o, p)
  BY DEF ClassifyExact
<1>4. ClassifyExact(s, o, p) \in Decisions
  BY ClassifyExactType
<1> HIDE DEF r, t
<1>5. Keeps(s, t)
  BY <1>1, <1>2, AlikeYields, YieldsKeeps, KeepsOn
<1>6. CASE /\ t.phase = "QUIESCENT" /\ t.stable = p /\ t.finalized = p
           /\ ClassifyExact(s, o, p) = Quiesce(t)
  <2>1. /\ Quiesce(t).fx = {} /\ q.stable = t.stable /\ q.phase = "QUIESCENT"
        /\ \A f \in Watched \ {"phase"} : q[f] = t[f]
    BY <1>2, WatchedFields DEF Quiesce, Decision, Watched
  <2>2. q \in State
    BY <1>4, <1>6, DecisionParts
  <2> HIDE DEF q
  <2>3. Yields(t, q) /\ q.obs = t.obs
    BY <1>6, <2>1 DEF Yields, Watched, Loading, Used, Proving
  <2>4. Keeps(s, q)
    BY <1>2, <1>5, <2>2, <2>3, YieldsKeeps, KeepsOn
  <2>5. s.obs # None => Quiet(q)
    BY <1>6, <2>1, <2>4, NoneAssumption DEF Quiet, Keeps, Watched
  <2> QED
    BY <1>6, <2>1, <2>4, <2>5 DEF Reacts, Keeps, q
<1>7. CASE ClassifyExact(s, o, p) = StartVerification(t, o, p)
  BY <1>2, <1>4, <1>5, <1>7, StartVerificationReacts, ReactsOn
<1> QED
  BY <1>3, <1>6, <1>7

\* A sample is classified by its target; the laptop's is taken only without intent.
LEMMA ClassifyTargetReacts ==
    \A s \in State : \A o \in Observations :
        (~Evidence[o.key].external => s.intent = FALSE) => Reacts(s, ClassifyTarget(s, o))
<1> SUFFICES ASSUME NEW s \in State, NEW o \in Observations,
                    ~Evidence[o.key].external => s.intent = FALSE
             PROVE Reacts(s, ClassifyTarget(s, o))
  OBVIOUS
<1> DEFINE t == [s EXCEPT !.unknown = NoUnknown]
           found == UniqueTarget(o.key)
<1>1. found \in Profiles \cup {None}
  BY UniqueTargetType, ObservationType
<1>2. t \in State /\ Alike(s, t)
  BY NoneTyped, Set_unknown, KnownAlike
<1> HIDE DEF t
<1>3. \/ ClassifyTarget(s, o) \in {DeferWhileAsleep(t), AdmitProbe(t, o),
                                   ClassifyUnknown(s, o), EnterWait(s)}
      \/ \E p \in Profiles :
            /\ p \in InternalProfiles => ~Evidence[o.key].external
            /\ ClassifyTarget(s, o) \in {ClassifyExact(s, o, p), AdmitApplication(t, o, p)}
  BY <1>1 DEF ClassifyTarget, t
<1>4. Keeps(s, t) /\ t.intent = s.intent
  BY <1>2, AlikeYields, YieldsKeeps DEF Alike, Watched
<1>5. ClassifyTarget(s, o) \in Decisions
  BY ClassifyTargetType
<1>6. CASE ClassifyTarget(s, o) \in {ClassifyUnknown(s, o), EnterWait(s)}
  BY <1>6, WaitReacts, ClassifyUnknownReacts
<1>7. CASE ClassifyTarget(s, o) \in {DeferWhileAsleep(t), AdmitProbe(t, o)}
  BY <1>2, <1>4, <1>5, <1>7, WaitReacts, AdmitProbeReacts, ReactsOn
<1>8. ASSUME NEW p \in Profiles, p \in InternalProfiles => ~Evidence[o.key].external,
             ClassifyTarget(s, o) \in {ClassifyExact(s, o, p), AdmitApplication(t, o, p)}
      PROVE Reacts(s, ClassifyTarget(s, o))
  <2>1. Reacts(s, ClassifyExact(s, o, p)) /\ Reacts(t, AdmitApplication(t, o, p))
    BY <1>2, <1>4, <1>8, ClassifyExactReacts, AdmitApplicationReacts
  <2> QED
    BY <1>2, <1>4, <1>5, <1>8, <2>1, ReactsOn
<1> QED
  BY <1>3, <1>6, <1>7, <1>8

\* What is not busy is not loading.
LEMMA StillLoads == \A s : Still(s) => ~Loading(s)
  BY DEF Still, Kinds, Busy, InFlight, Loading

\* _classify_observation without a pending admission.
LEMMA ClassifyReacts ==
    \A s \in State : \A o \in Observations : ~Loading(s) => Reacts(s, Classify(s, o))
<1> SUFFICES ASSUME NEW s \in State, NEW o \in Observations, ~Loading(s)
             PROVE Reacts(s, Classify(s, o))
  OBVIOUS
<1> DEFINE h == HandleUnplug(s, o)
<1>1. Evidence[o.key].external \in BOOLEAN /\ h.done \in BOOLEAN
  BY EvidenceAssumption, ObservationType, Fields DEF Facts, HandleUnplug
<1>2. \E t \in State :
        /\ Keeps(s, t)
        /\ Classify(s, o) \in {AwaitUnplug(t), Schedule(t, "health", {})}
           \/ /\ Classify(s, o) = ClassifyTarget(DropFailure(t), o)
              /\ ~Evidence[o.key].external => t.intent = FALSE
  <2>1. CASE Evidence[o.key].external
    <3> DEFINE t == RetainExternalIntent(s)
    <3>1. Classify(s, o) \in {Schedule(t, "health", {}), ClassifyTarget(DropFailure(t), o)}
      BY <2>1 DEF Classify
    <3>2. t \in State /\ Keeps(s, t)
      BY RetainIntentType, RetainIntentKeeps
    <3> QED
      BY <2>1, <3>1, <3>2
  <2>2. CASE ~Evidence[o.key].external
    <3>1. h.st \in State /\ Keeps(s, h.st) /\ (h.done = TRUE => h.st.intent = FALSE)
      BY HandleUnplugType, HandleUnplugYields, YieldsKeeps
    <3>2. \/ Classify(s, o) = AwaitUnplug(h.st)
          \/ h.done = TRUE /\ Classify(s, o) \in {Schedule(h.st, "health", {}),
                                           ClassifyTarget(DropFailure(h.st), o)}
      BY <1>1, <2>2 DEF Classify
    <3> QED
      BY <3>1, <3>2
  <2> QED
    BY <2>1, <2>2
<1>3. PICK t \in State :
        /\ Keeps(s, t)
        /\ Classify(s, o) \in {AwaitUnplug(t), Schedule(t, "health", {})}
           \/ /\ Classify(s, o) = ClassifyTarget(DropFailure(t), o)
              /\ ~Evidence[o.key].external => t.intent = FALSE
  BY <1>2
<1>4. Classify(s, o) \in Decisions
  BY ClassifyType
<1>5. CASE Classify(s, o) = AwaitUnplug(t)
  BY <1>3, <1>4, <1>5, AwaitUnplugReacts, ReactsOn
<1>6. CASE Classify(s, o) = Schedule(t, "health", {})
  BY <1>3, <1>6, ScheduleReacts DEF Delays
<1>7. CASE /\ Classify(s, o) = ClassifyTarget(DropFailure(t), o)
           /\ ~Evidence[o.key].external => t.intent = FALSE
  <2> DEFINE u == DropFailure(t)
  <2>1. u \in State /\ Keeps(t, u) /\ u.intent = t.intent
    BY DropFailureType, DropFailureYields, YieldsKeeps
  <2> HIDE DEF u
  <2>2. Reacts(u, ClassifyTarget(u, o)) /\ Keeps(s, u)
    BY <1>3, <1>7, <2>1, ClassifyTargetReacts, KeepsOn
  <2> QED
    BY <1>4, <1>7, <2>1, <2>2, ReactsOn DEF u
<1> QED
  BY <1>3, <1>5, <1>6, <1>7

-----------------------------------------------------------------------------
(* Pending admissions and a new epoch. *)

\* A new epoch keeps no plan, and adopts a desktop only on a first start.
LEMMA ResetKeeps ==
    \A s \in State : \A o \in Observations : FirstStart(s) => Keeps(s, ResetForEpoch(s, o))
<1> SUFFICES ASSUME NEW s \in State, NEW o \in Observations, FirstStart(s)
             PROVE Keeps(s, ResetForEpoch(s, o))
  OBVIOUS
<1> DEFINE d == DiscardPlanning(s)
           u == ResetForEpoch(s, o)
<1>1. /\ d \in State /\ d.planning.id = 0 /\ ~Held(d.planning) /\ ~Held(d.prep)
      /\ d.planState = "PLAN_IDLE"
      /\ \A f \in Watched \ {"planning", "prep", "planState"} : d[f] = s[f]
  BY DiscardPlanningType, DiscardYields, NoActionStage
<1> HIDE DEF d
<1>2. \A tombs, epoch, token, cand, aggr, baseline :
        LET t == [d EXCEPT
                    !.tombs = tombs, !.phase = "DISCOVER_FAST", !.epoch = epoch,
                    !.token = token, !.cand = cand, !.aggr = aggr, !.backoff = 0, !.verify = -1,
                    !.stable = None, !.probed = {}, !.applied = {}, !.retried = {},
                    !.probe = NoAction, !.app = NoAction, !.fin = NoAction,
                    !.unknown = NoUnknown, !.unplug = NoUnplug, !.baseline = baseline]
        IN /\ t.phase = "DISCOVER_FAST" /\ t.app = NoAction /\ t.fin = NoAction
           /\ t.baseline = baseline
           /\ t.seq = d.seq /\ t.required = d.required /\ t.finalized = d.finalized
           /\ t.intent = d.intent /\ t.planning = d.planning /\ t.prep = d.prep
           /\ t.planState = d.planState /\ t.obs = d.obs
  BY <1>1 DEF State
<1>3. /\ u.phase = "DISCOVER_FAST" /\ u.app = NoAction /\ u.fin = NoAction
      /\ u.baseline = (d.phase = "RECOVERING" /\ d.finalized = None /\ ~d.required)
      /\ u.seq = d.seq /\ u.required = d.required /\ u.finalized = d.finalized
      /\ u.intent = d.intent /\ u.planning = d.planning /\ u.prep = d.prep
      /\ u.planState = d.planState /\ u.obs = d.obs
  BY <1>2 DEF ResetForEpoch, d
<1> HIDE DEF u
<1>4. NoAction.lc = "ABSENT"
  BY DEF NoAction
<1>5. u.baseline = TRUE => s.baseline = TRUE
  BY <1>1, <1>3 DEF FirstStart, Watched
<1>6. Confirmed(s, u)
  BY <1>1, <1>3, <1>5 DEF Confirmed, FirstStart, Watched
<1>7. Succeeded(s, u, Nobody) /\ Loads(s, u)
  BY <1>3, <1>4 DEF Succeeded, Loads, Loading
<1>8. Plans(s, u) /\ s.seq <= u.seq
  BY <1>1, <1>3, Fields DEF Plans, Counted, Used, Proving, Watched
<1> QED
  BY <1>1, <1>3, <1>6, <1>7, <1>8 DEF Keeps, Continues, Proceeds, Watched, u

\* What is kept keeps a first start one.
LEMMA FirstStartKept == \A s, t, x : FirstStart(s) /\ Proceeds(s, t, x) => FirstStart(t)
  BY DEF Proceeds, Confirmed

\* Cancelling the pending admission begins nothing.
LEMMA CancelYields ==
    \A s \in State : Yields(s, CancelAdmission(s)) /\ CancelAdmission(s).obs = s.obs
<1> SUFFICES ASSUME NEW s \in State
             PROVE Yields(s, CancelAdmission(s)) /\ CancelAdmission(s).obs = s.obs
  OBVIOUS
<1>1. \/ CancelAdmission(s) \in {DropProbe(s, "CANCELLED"), DropApplication(s, "CANCELLED")}
      \/ \E t \in {DropPreparation(s, "CANCELLED"), DropFinalization(s, "CANCELLED")} :
            CancelAdmission(s) = ClearProof(t)
  BY DEF CancelAdmission, ClearProof
<1>2. \A t \in {DropProbe(s, "CANCELLED"), DropApplication(s, "CANCELLED"),
                DropPreparation(s, "CANCELLED"), DropFinalization(s, "CANCELLED")} :
        t \in State /\ Yields(s, t) /\ t.obs = s.obs
  BY DropType, DropYields DEF Terminal
<1>3. \A t \in {DropProbe(s, "CANCELLED"), DropApplication(s, "CANCELLED"),
                DropPreparation(s, "CANCELLED"), DropFinalization(s, "CANCELLED")} :
        Yields(s, ClearProof(t)) /\ ClearProof(t).obs = s.obs
  BY <1>2, ClearYields, YieldsOn
<1> QED
  BY <1>1, <1>2, <1>3

\* An action that keeps its id, its profile and its lifecycle begins nothing.
LEMMA SameYields ==
    \A s, t : \A k \in Kinds :
        /\ t[k].lc = s[k].lc /\ t[k].id = s[k].id /\ t[k].profile = s[k].profile
        /\ \A f \in Watched \ {k} : t[f] = s[f]
        => Yields(s, t)
<1> SUFFICES ASSUME NEW s, NEW t, NEW k \in Kinds,
                    t[k].lc = s[k].lc, t[k].id = s[k].id, t[k].profile = s[k].profile,
                    \A f \in Watched \ {k} : t[f] = s[f]
             PROVE Yields(s, t)
  OBVIOUS
<1>1. t.fin.lc = "RESULT_PENDING" =>
        s.fin.lc = "RESULT_PENDING" /\ t.fin.id = s.fin.id /\ t.fin.profile = s.fin.profile
  BY DEF Kinds, Watched
<1> QED
  BY <1>1 DEF Yields, Watched, Kinds, Loading, Used, Proving, Held

\* _classify_observation.
LEMMA ClassifyObservationReacts ==
    \A s : \A o \in Observations :
        Settled(s) /\ FirstStart(s) => Reacts(s, ClassifyObservation(s, o))
<1> SUFFICES ASSUME NEW s, NEW o \in Observations, Settled(s), FirstStart(s)
             PROVE Reacts(s, ClassifyObservation(s, o))
  OBVIOUS
<1> DEFINE kind == PendingAdmission(s)
           t == CancelAdmission(s)
           u == SameEpoch(t, o)
<1>1. s \in State /\ Pending(s) /\ ClassifyObservation(s, o) \in Decisions
  BY ClassifyObservationType DEF Settled, Sound
<1>2. kind \in Kinds \cup {"none"}
  BY DEF PendingAdmission, Kinds
<1>3. CASE StillAuthorized(s, o)
  <2> DEFINE d == ClassifyObservation(s, o)
             b == [s[kind] EXCEPT !.gen = o.gen]
  <2>1. kind \in Kinds
    BY <1>2, <1>3 DEF StillAuthorized
  <2>2. d.st = [[s EXCEPT ![kind].gen = o.gen] EXCEPT !.timer = "now"] /\ d.fx = {"dispatch"}
    BY <1>3 DEF ClassifyObservation, Offered, Decision
  <2> HIDE DEF kind, d
  <2>3. Yields(s, d.st) /\ d.st.timer = "now"
    <3>1. b.lc = s[kind].lc /\ b.id = s[kind].id /\ b.profile = s[kind].profile
      BY <1>1, <2>1, KindsTyped DEF Action
    <3>2. Watched \cup Kinds \cup {"timer"} \subseteq DOMAIN s
      BY <1>1, WatchedFields DEF Watched, Kinds
    <3> HIDE DEF b
    <3>3. d.st.timer = "now" /\ d.st[kind] = b /\ \A f \in Watched \ {kind} : d.st[f] = s[f]
      BY <2>1, <2>2, <3>2 DEF Watched, Kinds, b
    <3> QED
      BY <2>1, <3>1, <3>3, SameYields
  <2>4. d \in Decisions /\ d.st \in State
    BY <1>1, DecisionParts DEF d
  <2> QED
    BY <1>1, <2>2, <2>3, <2>4, YieldsContinues, ArmedReacts DEF d
<1>4. CASE ~StillAuthorized(s, o) /\ kind = "none"
  BY <1>1, <1>4, CancelStill, StillLoads, ClassifyReacts DEF ClassifyObservation
<1>5. CASE ~StillAuthorized(s, o) /\ kind # "none"
  <2>1. t \in State /\ Still(t) /\ Keeps(s, t)
    BY <1>1, <1>5, CancelAdmissionType, CancelStill, CancelYields, YieldsKeeps
  <2>2. ClassifyObservation(s, o) = Classify(u, o)
    BY <1>5 DEF ClassifyObservation
  <2>3. u \in State
    BY <2>1, SameEpochType
  <2>4. u = t \/ u = ResetForEpoch(t, o)
    BY DEF SameEpoch
  <2> HIDE DEF t, u
  <2>5. FirstStart(t)
    BY <2>1, FirstStartKept DEF Keeps, Continues
  <2>6. Still(u) /\ Keeps(t, u)
    <3>1. CASE u = t
      BY <2>1, <3>1, KeepsSelf
    <3>2. CASE u = ResetForEpoch(t, o)
      BY <2>1, <2>3, <2>5, <3>2, ResetEmpty, EmptySound, ResetKeeps
    <3> QED
      BY <2>4, <3>1, <3>2
  <2>7. Keeps(s, u) /\ Reacts(u, Classify(u, o))
    BY <1>1, <2>1, <2>3, <2>6, KeepsOn, StillLoads, ClassifyReacts
  <2> QED
    BY <1>1, <2>2, <2>3, <2>7, ReactsOn
<1> QED
  BY <1>3, <1>4, <1>5

-----------------------------------------------------------------------------
(* ObservationCompleted. *)

\* A worker is told to stop.
LEMMA StopsReact ==
    \A s \in State :
        /\ Reacts(s, StopFinalization(s))
        /\ Held(s.prep) => Reacts(s, StopPreparation(s))
        /\ Reacts(s, Schedule([s EXCEPT !.probe.lc = "STOPPING"], "tick", {"stop"}))
        /\ Reacts(s, Schedule([s EXCEPT !.app.lc = "STOPPING"], "tick", {"stop"}))
<1> SUFFICES ASSUME NEW s \in State
             PROVE /\ Reacts(s, StopFinalization(s))
                   /\ Held(s.prep) => Reacts(s, StopPreparation(s))
                   /\ Reacts(s, Schedule([s EXCEPT !.probe.lc = "STOPPING"], "tick", {"stop"}))
                   /\ Reacts(s, Schedule([s EXCEPT !.app.lc = "STOPPING"], "tick", {"stop"}))
  OBVIOUS
<1>0. \A a \in Action : [a EXCEPT !.lc = "STOPPING"].lc = "STOPPING"
  BY DEF Action
<1>1. s.probe \in Action /\ s.app \in Action /\ s.prep \in Action /\ s.fin \in Action
  BY Fields
<1>2. "STOPPING" \in Lifecycles
  BY DEF Lifecycles, InFlight
<1>3. Reacts(s, StopFinalization(s))
  <2> DEFINE t == [s EXCEPT !.phase = "FINALIZE_STOPPING", !.fin.lc = "STOPPING", !.verify = -1]
  <2>1. /\ t.phase = "FINALIZE_STOPPING" /\ t.fin = [s.fin EXCEPT !.lc = "STOPPING"] /\ t.verify = -1
        /\ \A f \in Watched \ {"phase", "fin", "verify"} : t[f] = s[f]
    BY WatchedFields DEF Watched
  <2>2. t \in State
    <3>1. [s EXCEPT !.phase = "FINALIZE_STOPPING"] \in State
      BY Named, Set_phase
    <3>2. [s EXCEPT !.phase = "FINALIZE_STOPPING", !.fin.lc = "STOPPING"] \in State
      BY <1>2, <3>1, SetLc
    <3> QED
      BY <3>2, NoneTyped, Set_verify
  <2>3. StopFinalization(s) = Schedule(t, "tick", {"stop"})
    BY DEF StopFinalization
  <2> HIDE DEF t
  <2>4. Yields(s, t) /\ t.obs = s.obs
    BY <1>0, <1>1, <2>1 DEF Yields, Watched, Loading, Used, Proving
  <2> QED
    BY <2>2, <2>3, <2>4, YieldsKeeps, ScheduleReacts DEF Delays
<1>4. ASSUME Held(s.prep) PROVE Reacts(s, StopPreparation(s))
  <2> DEFINE t == [s EXCEPT !.phase = "DISCOVER_FAST", !.prepState = "PREPARE_STOPPING",
                            !.prep.lc = "STOPPING", !.verify = -1]
  <2>1. /\ t.phase = "DISCOVER_FAST" /\ t.verify = -1
        /\ \A f \in Watched \ {"phase", "prep", "verify"} : t[f] = s[f]
    BY WatchedFields DEF Watched
  <2>2. t \in State
    <3>1. [s EXCEPT !.phase = "DISCOVER_FAST", !.prepState = "PREPARE_STOPPING"] \in State
      BY Named, Set_phase, Set_prepState DEF PrepStates
    <3>2. [s EXCEPT !.phase = "DISCOVER_FAST", !.prepState = "PREPARE_STOPPING",
                    !.prep.lc = "STOPPING"] \in State
      BY <1>2, <3>1, SetLc
    <3> QED
      BY <3>2, NoneTyped, Set_verify
  <2>3. StopPreparation(s) = Schedule(t, "tick", {"stop"})
    BY DEF StopPreparation
  <2> HIDE DEF t
  <2>4. Yields(s, t) /\ t.obs = s.obs
    BY <1>4, <2>1 DEF Yields, Watched, Loading, Used, Proving
  <2> QED
    BY <2>2, <2>3, <2>4, YieldsKeeps, ScheduleReacts DEF Delays
<1>5. Reacts(s, Schedule([s EXCEPT !.probe.lc = "STOPPING"], "tick", {"stop"}))
  <2> DEFINE t == [s EXCEPT !.probe.lc = "STOPPING"]
  <2>1. t \in State
    BY <1>2, SetLc
  <2>2. Alike(s, t)
    BY WatchedFields DEF Alike, Watched
  <2> HIDE DEF t
  <2> QED
    BY <2>1, <2>2, AlikeYields, YieldsKeeps, ScheduleReacts DEF Delays, t
<1>6. Reacts(s, Schedule([s EXCEPT !.app.lc = "STOPPING"], "tick", {"stop"}))
  <2> DEFINE t == [s EXCEPT !.app.lc = "STOPPING"]
  <2>1. t \in State
    BY <1>2, SetLc
  <2>2. t.app = [s.app EXCEPT !.lc = "STOPPING"] /\ \A f \in Watched \ {"app"} : t[f] = s[f]
    BY WatchedFields DEF Watched
  <2> HIDE DEF t
  <2>3. Yields(s, t) /\ t.obs = s.obs
    BY <1>0, <1>1, <2>2 DEF Yields, Watched, Loading, Used, Proving
  <2> QED
    BY <2>1, <2>3, YieldsKeeps, ScheduleReacts DEF Delays, t
<1> QED
  BY <1>3, <1>4, <1>5, <1>6

\* A finalization that is not confirmed has failed.
LEMMA FailFinalizationYields ==
    \A s \in State : Yields(s, FailFinalization(s)) /\ FailFinalization(s).obs = s.obs
<1> SUFFICES ASSUME NEW s \in State
             PROVE Yields(s, FailFinalization(s)) /\ FailFinalization(s).obs = s.obs
  OBVIOUS
<1> DEFINE t == FailFinalization(s)
<1>1. /\ t.phase = "FINALIZE_FAILED" /\ t.fin = [s.fin EXCEPT !.lc = "FAILED"]
      /\ \A f \in Watched \ {"phase", "fin"} : t[f] = s[f]
  BY WatchedFields DEF FailFinalization, AppendTombstone, Watched
<1>2. t.fin.lc = "FAILED"
  BY <1>1, Fields DEF Action
<1> HIDE DEF t
<1>3. Yields(s, t)
  BY <1>1, <1>2 DEF Yields, Watched, Loading, Used, Proving
<1> QED
  BY <1>1, <1>3 DEF Watched, t

\* One that is confirmed makes its profile the finalized one, and is at rest.
LEMMA ConfirmReacts ==
    \A s \in State :
        s.fin.lc = "RESULT_PENDING" /\ s.fin.profile # None => Reacts(s, ConfirmFinalization(s))
<1> SUFFICES ASSUME NEW s \in State, s.fin.lc = "RESULT_PENDING", s.fin.profile # None
             PROVE Reacts(s, ConfirmFinalization(s))
  OBVIOUS
<1> DEFINE p == s.fin.profile
           r == AppendTombstone(s, s.fin, "COMPLETED")
           t == DiscardPlanning(r)
           a == ResetApplicationRecovery(t, p)
           u == [a EXCEPT !.stable = p, !.finalized = p, !.required = FALSE, !.fin = NoAction]
           q == Quiesce(u).st
<1>0. p \in Profiles \cup {None}
  BY Fields DEF Action
<1>1. r \in State /\ Alike(s, r)
  BY AppendTombstoneType, Fields, RecordsAlike DEF Terminal
<1>2. /\ t \in State /\ t.planning.id = 0 /\ ~Held(t.planning) /\ ~Held(t.prep)
      /\ t.planState = "PLAN_IDLE"
      /\ \A f \in Watched \ {"planning", "prep", "planState"} : t[f] = r[f]
  BY <1>1, DiscardPlanningType, DiscardYields, NoActionStage
<1>3. a \in State /\ Alike(t, a)
  BY <1>0, <1>2, ResetRecoveryType, RecordsAlike
<1>4. ConfirmFinalization(s) = Quiesce(u)
  BY DEF ConfirmFinalization
<1> HIDE DEF r, t, a
<1>5. /\ q.phase = "QUIESCENT" /\ q.stable = p /\ q.finalized = p /\ q.fin = NoAction
      /\ \A f \in Watched \ {"phase", "finalized", "required", "fin"} : q[f] = a[f]
      /\ Quiesce(u).fx = {}
  BY <1>3, WatchedFields DEF Quiesce, Decision, Watched
<1> HIDE DEF q
<1>6. /\ q.planning.id = 0 /\ ~Held(q.planning) /\ ~Held(q.prep) /\ q.planState = "PLAN_IDLE"
      /\ q.seq = s.seq /\ q.baseline = s.baseline /\ q.app = s.app /\ q.intent = s.intent
      /\ q.obs = s.obs
  BY <1>1, <1>2, <1>3, <1>5 DEF Alike, Watched
<1>7. NoAction.lc = "ABSENT"
  BY DEF NoAction
<1>8. Confirmed(s, q)
  BY <1>5, <1>6 DEF Confirmed, FirstStart
<1>9. Succeeded(s, q, Nobody) /\ Loads(s, q)
  BY <1>5, <1>6, <1>7 DEF Succeeded, Loads, Loading
<1>10. Plans(s, q) /\ s.seq <= q.seq
  BY <1>5, <1>6, Fields DEF Plans, Counted, Proving
<1>11. s.obs # None => Quiet(q)
  BY <1>5, <1>6 DEF Quiet
<1> QED
  BY <1>4, <1>5, <1>8, <1>9, <1>10, <1>11 DEF Reacts, Continues, Proceeds, q

\* A sample during a finalization.
LEMMA ObserveFinalizingReacts ==
    \A s \in State : \A o \in Observations : Reacts(s, ObserveFinalizing(s, o))
<1> SUFFICES ASSUME NEW s \in State, NEW o \in Observations PROVE Reacts(s, ObserveFinalizing(s, o))
  OBVIOUS
<1>1. SameExactFinalization(s, o) => s.fin.profile # None
  BY EvidenceType, ObservationType, NoneAssumption DEF SameExactFinalization
<1>2. Reacts(s, Schedule(FailFinalization(s), "health", {}))
  BY FailFinalizationType, FailFinalizationYields, YieldsKeeps, ScheduleReacts DEF Delays
<1>3. Reacts(s, Schedule(s, "tick", {}))
  BY KeepsSelf, ScheduleReacts DEF Delays
<1> QED
  BY <1>1, <1>2, <1>3, ConfirmReacts, StopsReact DEF ObserveFinalizing

\* A sample during a preparation: its proof goes on where the preparation is held.
LEMMA ObservePreparingReacts ==
    \A s : \A o \in Observations :
        Sound(s) /\ s.prepState = "PREPARING" => Reacts(s, ObservePreparing(s, o))
<1> SUFFICES ASSUME NEW s, NEW o \in Observations, Sound(s), s.prepState = "PREPARING"
             PROVE Reacts(s, ObservePreparing(s, o))
  OBVIOUS
<1> DEFINE since == IF s.verify = -1 THEN 0 ELSE s.verify
           r == AppendTombstone(s, s.prep, "COMPLETED")
           f == AppendTombstone(s, s.prep, "FAILED")
           done == [r EXCEPT !.phase = "VERIFYING", !.verify = since,
                             !.prepState = "PREPARED", !.prep.lc = "COMPLETED"]
           failed == [f EXCEPT !.prepState = "PREPARE_FAILED", !.prep.lc = "FAILED", !.verify = -1]
           away == [s EXCEPT !.phase = "DISCOVER_FAST", !.verify = -1]
           exact == [s EXCEPT !.phase = "VERIFYING", !.verify = since]
<1>1. s \in State /\ s.prep.lc \in {"DISPATCHED", "RESULT_PENDING"} /\ Held(s.prep)
      /\ s.planState = "PLAN_READY"
  BY DEF Sound, Placed, Held
<1>2. \/ ObservePreparing(s, o) \in {Schedule(away, "tick", {}), Schedule(exact, "tick", {}), StopPreparation(s)}
      \/ s.prep.lc = "RESULT_PENDING" /\ ObservePreparing(s, o) \in {Classify(done, o), Schedule(failed, "health", {})}
  BY DEF ObservePreparing
<1>3. since \in -1..ProfileStability
  BY <1>1, Fields, BoundsAssumption
<1>4. /\ "COMPLETED" \in Terminal /\ "COMPLETED" \in Lifecycles
      /\ "FAILED" \in Terminal /\ "FAILED" \in Lifecycles
  BY DEF Terminal, Lifecycles, Failed
<1>5. r \in State /\ Alike(s, r) /\ f \in State /\ Alike(s, f)
  BY <1>1, <1>4, AppendTombstoneType, Fields, RecordsAlike
<1> HIDE DEF since, r, f
<1>6. \A t \in State :
        /\ t.phase = "VERIFYING" /\ \A x \in Watched \ {"phase", "verify", "prep"} : t[x] = s[x]
        => Keeps(s, t)
  <2> SUFFICES ASSUME NEW t \in State, t.phase = "VERIFYING",
                      \A x \in Watched \ {"phase", "verify", "prep"} : t[x] = s[x]
               PROVE Keeps(s, t)
    OBVIOUS
  <2>1. Confirmed(s, t)
    BY DEF Confirmed, FirstStart, Watched
  <2>2. Succeeded(s, t, Nobody) /\ Loads(s, t)
    BY DEF Succeeded, Loads, Loading, Watched
  <2>3. Plans(s, t) /\ s.seq <= t.seq
    BY <1>1, Fields DEF Plans, Counted, Used, Watched
  <2> QED
    BY <2>1, <2>2, <2>3 DEF Keeps, Continues, Proceeds, Watched
<1>7. CASE ObservePreparing(s, o) = Schedule(away, "tick", {})
  <2>1. away \in State
    BY <1>1, Named, NoneTyped, Set_phase, Set_verify
  <2>2. away.phase = "DISCOVER_FAST" /\ \A x \in Watched \ {"phase", "verify"} : away[x] = s[x]
    BY <1>1, WatchedFields DEF Watched
  <2> HIDE DEF away
  <2>3. Yields(s, away) /\ away.obs = s.obs
    BY <2>2 DEF Yields, Watched, Loading, Used, Proving
  <2> QED
    BY <1>1, <1>7, <2>1, <2>3, YieldsKeeps, ScheduleReacts DEF Delays
<1>8. CASE ObservePreparing(s, o) = Schedule(exact, "tick", {})
  <2>1. exact \in State
    BY <1>1, <1>3, Named, Set_phase, Set_verify
  <2>2. exact.phase = "VERIFYING" /\ \A x \in Watched \ {"phase", "verify"} : exact[x] = s[x]
    BY <1>1, WatchedFields DEF Watched
  <2> HIDE DEF exact
  <2>3. Keeps(s, exact)
    BY <1>6, <2>1, <2>2
  <2> QED
    BY <1>1, <1>8, <2>1, <2>3, ScheduleReacts DEF Delays
<1>9. CASE ObservePreparing(s, o) = StopPreparation(s)
  BY <1>1, <1>9, StopsReact
<1>10. CASE ObservePreparing(s, o) = Schedule(failed, "health", {})
  <2>1. failed \in State
    <3>1. [f EXCEPT !.prepState = "PREPARE_FAILED"] \in State
      BY <1>5, Set_prepState DEF PrepStates
    <3>2. [f EXCEPT !.prepState = "PREPARE_FAILED", !.prep.lc = "FAILED"] \in State
      BY <1>4, <3>1, SetLc
    <3> QED
      BY <3>2, NoneTyped, Set_verify
  <2>2. failed.verify = -1 /\ \A x \in Watched \ {"verify", "prep"} : failed[x] = f[x]
    BY <1>5, WatchedFields DEF Watched
  <2> HIDE DEF failed
  <2>3. failed.verify = -1 /\ \A x \in Watched \ {"verify", "prep"} : failed[x] = s[x]
    BY <1>5, <2>2 DEF Alike
  <2>4. Yields(s, failed) /\ failed.obs = s.obs
    BY <1>1, <2>3 DEF Yields, Watched, Loading, Used, Proving
  <2> QED
    BY <1>1, <1>10, <2>1, <2>4, YieldsKeeps, ScheduleReacts DEF Delays
<1>11. CASE s.prep.lc = "RESULT_PENDING" /\ ObservePreparing(s, o) = Classify(done, o)
  <2>1. done \in State
    <3>1. [r EXCEPT !.phase = "VERIFYING", !.verify = since, !.prepState = "PREPARED"] \in State
      BY <1>3, <1>5, Named, Set_phase, Set_verify, Set_prepState DEF PrepStates
    <3> DEFINE q == [r EXCEPT !.phase = "VERIFYING", !.verify = since, !.prepState = "PREPARED"]
    <3>2. [q EXCEPT !.prep.lc = "COMPLETED"] \in State
      BY <1>4, <3>1, SetLc
    <3>3. done = [q EXCEPT !.prep.lc = "COMPLETED"]
      OBVIOUS
    <3> QED
      BY <3>2, <3>3
  <2>2. done.phase = "VERIFYING" /\ \A x \in Watched \ {"phase", "verify", "prep"} : done[x] = r[x]
    BY <1>5, WatchedFields DEF Watched
  <2> HIDE DEF done
  <2>3. \A x \in Watched \ {"phase", "verify", "prep"} : done[x] = s[x]
    BY <1>5, <2>2 DEF Alike
  <2>4. Keeps(s, done)
    BY <1>6, <2>1, <2>2, <2>3
  <2>5. ~Loading(done)
    <3>1. Busy(s.prep) /\ "prep" \in Kinds /\ "app" \in Kinds
      BY <1>11 DEF Busy, InFlight, Kinds
    <3>2. ~Busy(s.app)
      BY <3>1 DEF Sound, Ids
    <3> QED
      BY <2>3, <3>2 DEF Loading, Busy, InFlight, Watched
  <2>6. Reacts(done, Classify(done, o)) /\ Classify(done, o) \in Decisions
    BY <2>1, <2>5, ClassifyReacts, ClassifyType
  <2> QED
    BY <1>1, <1>11, <2>1, <2>4, <2>6, ReactsOn
<1> QED
  BY <1>2, <1>7, <1>8, <1>9, <1>10, <1>11

\* A sample of the epoch.
LEMMA ObserveEpochReacts ==
    \A s : \A o \in Observations :
        Sound(s) /\ ~Stopping(s) /\ FirstStart(s) => Reacts(s, ObserveEpoch(s, o))
<1> SUFFICES ASSUME NEW s, NEW o \in Observations, Sound(s), ~Stopping(s), FirstStart(s)
             PROVE Reacts(s, ObserveEpoch(s, o))
  OBVIOUS
<1>1. s \in State
  BY DEF Sound
<1>2. CASE s.phase \in {"PROBING", "APPLYING"}
  BY <1>1, <1>2, KeepsSelf, ScheduleReacts DEF ObserveEpoch, Delays
<1>3. CASE s.phase = "FINALIZING"
  BY <1>1, <1>3, ObserveFinalizingReacts DEF ObserveEpoch
<1>4. CASE s.phase \notin {"PROBING", "APPLYING", "FINALIZING"} /\ s.prepState = "PREPARING"
  BY <1>4, ObservePreparingReacts DEF ObserveEpoch
<1>5. CASE s.phase \notin {"PROBING", "APPLYING", "FINALIZING"} /\ s.prepState # "PREPARING"
  <2>1. Calm(s)
    BY <1>5, LiveDispatched DEF Calm, Sound, Placed, Kinds, InFlight
  <2>2. Settled(s)
    BY <1>5, <2>1 DEF Settled
  <2> QED
    BY <1>5, <2>2, ClassifyObservationReacts DEF ObserveEpoch
<1> QED
  BY <1>2, <1>3, <1>4, <1>5

\* A changed token stops the worker that may still mutate.
LEMMA StopForTokenReacts == \A s : Sound(s) /\ MayMutate(s) => Reacts(s, StopForToken(s))
<1> SUFFICES ASSUME NEW s, Sound(s), MayMutate(s) PROVE Reacts(s, StopForToken(s))
  OBVIOUS
<1>1. s \in State
  BY DEF Sound
<1>2. CASE s.phase = "PROBING" /\ s.probe.lc = "DISPATCHED"
  BY <1>1, <1>2, StopsReact DEF StopForToken
<1>3. CASE s.phase = "APPLYING" /\ s.app.lc = "DISPATCHED"
  BY <1>1, <1>3, StopsReact DEF StopForToken
<1>4. CASE s.phase = "FINALIZING"
  <2> DEFINE f == FailFinalization(s)
             t == ClearProof(f)
  <2>1. f \in State /\ Yields(s, f) /\ f.obs = s.obs
    BY <1>1, FailFinalizationType, FailFinalizationYields
  <2>2. t \in State /\ Yields(f, t) /\ t.obs = f.obs
    BY <2>1, ClearProofType, ClearYields
  <2>3. StopForToken(s) \in {Schedule(t, "health", {}), StopFinalization(s)}
    BY <1>4 DEF StopForToken
  <2> HIDE DEF f, t
  <2>4. Keeps(s, t)
    BY <1>1, <2>1, <2>2, YieldsOn, YieldsKeeps
  <2> QED
    BY <1>1, <2>2, <2>3, <2>4, ScheduleReacts, StopsReact DEF Delays
<1>5. CASE s.phase # "FINALIZING" /\ s.prepState = "PREPARING"
  BY <1>1, <1>2, <1>3, <1>5, StopsReact DEF StopForToken, Sound, Placed, Held
<1> QED
  BY <1>2, <1>3, <1>4, <1>5 DEF MayMutate

\* The epoch a sample is of.
LEMMA EnterEpochKeeps ==
    \A s \in State : \A o \in Observations : \A prior :
        FirstStart(s) => Keeps(s, EnterEpoch(s, o, prior))
<1> SUFFICES ASSUME NEW s \in State, NEW o \in Observations, NEW prior, FirstStart(s)
             PROVE Keeps(s, EnterEpoch(s, o, prior))
  OBVIOUS
<1> DEFINE t == [s EXCEPT !.phase = "DISCOVER_FAST", !.aggr = AggressiveBudget, !.backoff = 0]
<1>1. EnterEpoch(s, o, prior) \in {ResetForEpoch(s, o), t, s}
  BY DEF EnterEpoch
<1>2. t.phase = "DISCOVER_FAST" /\ \A f \in Watched \ {"phase"} : t[f] = s[f]
  BY WatchedFields DEF Watched
<1>3. t \in State
  <2>1. AggressiveBudget \in -1..AggressiveBudget /\ 0 \in Nat
    BY BoundsAssumption
  <2> QED
    BY <2>1, Named, Set_phase, Set_aggr, Set_backoff
<1> HIDE DEF t
<1>4. Keeps(s, t)
  BY <1>2, <1>3, YieldsKeeps DEF Yields, Watched, Loading, Used, Proving
<1> QED
  BY <1>1, <1>4, ResetKeeps, KeepsSelf

\* A valid sample.
LEMMA ObserveValidReacts ==
    \A s : \A o \in Observations : \A prior :
        Sound(s) /\ FirstStart(s) => Reacts(s, ObserveValid(s, o, prior))
<1> SUFFICES ASSUME NEW s, NEW o \in Observations, NEW prior, Sound(s), FirstStart(s)
             PROVE Reacts(s, ObserveValid(s, o, prior))
  OBVIOUS
<1> DEFINE laptop == Evidence[o.key].external /\ s.app.profile \in InternalProfiles
                     /\ s.app.lc = "DISPATCHED"
           u == [s EXCEPT !.phase = "APPLYING", !.app.lc = "STOPPING",
                          !.cand = NoCandidate, !.verify = -1]
<1>1. s \in State /\ Pending(s)
  BY DEF Sound
<1>2. CASE laptop
  <2>1. u.phase = "APPLYING" /\ u.app = [s.app EXCEPT !.lc = "STOPPING"] /\ u.verify = -1
        /\ \A f \in Watched \ {"phase", "app", "verify"} : u[f] = s[f]
    BY <1>1, WatchedFields DEF Watched
  <2>2. u.app.lc = "STOPPING"
    BY <1>1, <2>1, Fields DEF Action
  <2>3. u \in State
    <3>1. [s EXCEPT !.phase = "APPLYING"] \in State
      BY <1>1, Named, Set_phase
    <3>2. [s EXCEPT !.phase = "APPLYING", !.app.lc = "STOPPING"] \in State
      BY <3>1, SetLc DEF Lifecycles, InFlight
    <3>3. [s EXCEPT !.phase = "APPLYING", !.app.lc = "STOPPING", !.cand = NoCandidate] \in State
      BY <3>2, NoneTyped, Set_cand
    <3> QED
      BY <3>3, NoneTyped, Set_verify
  <2>4. ObserveValid(s, o, prior) = Schedule(u, "tick", {"stop"})
    BY <1>2 DEF ObserveValid
  <2> HIDE DEF u
  <2>5. Yields(s, u) /\ u.obs = s.obs
    BY <2>1, <2>2 DEF Yields, Watched, Loading, Used, Proving
  <2> QED
    BY <1>1, <2>3, <2>4, <2>5, YieldsKeeps, ScheduleReacts DEF Delays
<1>3. CASE ~laptop /\ Stopping(s)
  BY <1>1, <1>3, KeepsSelf, ScheduleReacts DEF ObserveValid, Delays
<1>4. CASE ~laptop /\ ~Stopping(s) /\ s.token # Evidence[o.key].token /\ MayMutate(s)
  BY <1>4, StopForTokenReacts DEF ObserveValid
<1>5. CASE ~laptop /\ ~Stopping(s) /\ ~(s.token # Evidence[o.key].token /\ MayMutate(s))
  <2> DEFINE t == EnterEpoch(s, o, prior)
  <2>1. Sound(t) /\ ~Stopping(t) /\ Keeps(s, t)
    BY <1>1, <1>5, EnterEpochSound, EnterEpochKeeps
  <2>2. ObserveValid(s, o, prior) = ObserveEpoch(t, o)
    BY <1>5 DEF ObserveValid
  <2> HIDE DEF t
  <2>3. FirstStart(t)
    BY <2>1, FirstStartKept DEF Keeps, Continues
  <2>4. t \in State /\ ObserveEpoch(t, o) \in Decisions /\ Reacts(t, ObserveEpoch(t, o))
    BY <2>1, <2>3, ObserveEpochReacts, ObserveEpochType DEF Sound
  <2> QED
    BY <1>1, <2>1, <2>2, <2>4, ReactsOn
<1> QED
  BY <1>2, <1>3, <1>4, <1>5

\* Withdrawn admissions leave none to load.
LEMMA WithdrawYields ==
    \A s \in State : LET t == WithdrawAdmissions(s) IN
        t \in State /\ Yields(s, t) /\ t.obs = s.obs /\ t.app.lc # "ADMITTED"
<1> SUFFICES ASSUME NEW s \in State
             PROVE LET t == WithdrawAdmissions(s) IN
                     t \in State /\ Yields(s, t) /\ t.obs = s.obs /\ t.app.lc # "ADMITTED"
  OBVIOUS
<1>0. NoAction.lc = "ABSENT" /\ "CANCELLED" \in Terminal
  BY DEF NoAction, Terminal
<1>1. \A t \in State : LET u == WithdrawProbe(t) IN u \in State /\ Yields(t, u) /\ u.obs = t.obs
  BY <1>0, DropType, DropYields, KeepsSelf DEF WithdrawProbe
<1>2. \A t \in State : LET u == WithdrawApplication(t) IN
        u \in State /\ Yields(t, u) /\ u.obs = t.obs /\ u.app.lc # "ADMITTED"
  BY <1>0, DropType, DropYields, KeepsSelf DEF WithdrawApplication
<1>3. \A t \in State : LET u == WithdrawPreparation(t) IN
        u \in State /\ Yields(t, u) /\ u.obs = t.obs /\ u.app = t.app
  <2> SUFFICES ASSUME NEW t \in State
               PROVE LET u == WithdrawPreparation(t) IN
                       u \in State /\ Yields(t, u) /\ u.obs = t.obs /\ u.app = t.app
    OBVIOUS
  <2> DEFINE r == DropPreparation(t, "CANCELLED")
             u == [r EXCEPT !.phase = "DISCOVER_FAST"]
             w == DiscardPlanning(u)
  <2>1. r \in State /\ Yields(t, r) /\ r.obs = t.obs /\ r.app = t.app
    BY <1>0, DropType, DropYields, DropTouches DEF Replaces, Kinds
  <2> HIDE DEF r
  <2>2. u \in State /\ u.phase = "DISCOVER_FAST" /\ \A f \in Watched \ {"phase"} : u[f] = r[f]
    BY <2>1, Named, Set_phase, WatchedFields DEF Watched
  <2> HIDE DEF u
  <2>3. Yields(r, u)
    BY <2>2 DEF Yields, Watched, Loading, Used, Proving
  <2>4. w \in State /\ Yields(u, w) /\ w.obs = u.obs /\ w.app = u.app
    BY <2>2, DiscardPlanningType, DiscardYields DEF Watched
  <2> HIDE DEF w
  <2>5. WithdrawPreparation(t) \in {w, t}
    BY DEF WithdrawPreparation, w, u, r
  <2>6. Yields(t, w) /\ w.obs = t.obs /\ w.app = t.app
    BY <2>1, <2>2, <2>3, <2>4, YieldsOn DEF Watched
  <2> QED
    BY <2>4, <2>5, <2>6, KeepsSelf
<1>4. \A t \in State : LET u == WithdrawFinalization(t) IN
        u \in State /\ Yields(t, u) /\ u.obs = t.obs /\ u.app = t.app
  <2>1. \A t \in State : DropFinalization(t, "CANCELLED").app = t.app
    BY <1>0, DropTouches DEF Replaces, Kinds
  <2> QED
    BY <1>0, <2>1, DropType, DropYields, KeepsSelf DEF WithdrawFinalization
<1> DEFINE a == WithdrawProbe(s)
           b == WithdrawApplication(a)
           c == WithdrawPreparation(b)
           e == WithdrawFinalization(c)
<1>5. a \in State /\ Yields(s, a) /\ a.obs = s.obs
  BY <1>1
<1> HIDE DEF a
<1>6. b \in State /\ Yields(s, b) /\ b.obs = s.obs /\ b.app.lc # "ADMITTED"
  BY <1>2, <1>5, YieldsOn
<1> HIDE DEF b
<1>7. c \in State /\ Yields(s, c) /\ c.obs = s.obs /\ c.app.lc # "ADMITTED"
  BY <1>3, <1>6, YieldsOn
<1> HIDE DEF c
<1>8. e \in State /\ Yields(s, e) /\ e.obs = s.obs /\ e.app.lc # "ADMITTED"
  BY <1>4, <1>7, YieldsOn
<1> QED
  BY <1>8 DEF WithdrawAdmissions, e, c, b, a

\* A wait for a valid sample; with external hardware the laptop's load is stopped.
LEMMA AwaitValidYields ==
    \A s \in State : \A external \in BOOLEAN : LET d == AwaitValid(s, external) IN
        /\ d \in Decisions /\ Yields(s, d.st) /\ d.st.obs = s.obs
        /\ d.st.timer = "tick" /\ "discard" \notin d.fx
        /\ external = TRUE /\ s.app.lc # "ADMITTED" => ~Loading(d.st)
<1> SUFFICES ASSUME NEW s \in State, NEW external \in BOOLEAN
             PROVE LET d == AwaitValid(s, external) IN
                     /\ d \in Decisions /\ Yields(s, d.st) /\ d.st.obs = s.obs
                     /\ d.st.timer = "tick" /\ "discard" \notin d.fx
                     /\ external = TRUE /\ s.app.lc # "ADMITTED" => ~Loading(d.st)
  OBVIOUS
<1> DEFINE d == AwaitValid(s, external)
           b == [s.app EXCEPT !.lc = "STOPPING"]
<1>1. b.lc = "STOPPING"
  BY Fields DEF Action
<1> HIDE DEF b
<1>2. /\ d.st.timer = "tick" /\ "discard" \notin d.fx
      /\ d.st.phase \in {s.phase, "DISCOVER_FAST"}
      /\ \A f \in Watched \ {"phase", "app"} : d.st[f] = s[f]
      /\ d.st.app = b \/ (d.st.app = s.app /\ ~(external = TRUE /\ InternalLoadInFlight(s)))
  BY WatchedFields DEF AwaitValid, Schedule, Decision, StopEffect, Watched, b
<1>3. d \in Decisions
  BY AwaitValidType
<1> HIDE DEF d
<1>4. Yields(s, d.st) /\ d.st.obs = s.obs
  BY <1>1, <1>2 DEF Yields, Watched, Loading, Used, Proving
<1>5. external = TRUE /\ s.app.lc # "ADMITTED" => ~Loading(d.st)
  BY <1>1, <1>2 DEF Loading, InternalLoadInFlight
<1> QED
  BY <1>2, <1>3, <1>4, <1>5 DEF d

\* An invalid sample.
LEMMA ObserveInvalidReacts ==
    \A s \in State : \A o \in Observations : Reacts(s, ObserveInvalid(s, o))
<1> SUFFICES ASSUME NEW s \in State, NEW o \in Observations PROVE Reacts(s, ObserveInvalid(s, o))
  OBVIOUS
<1> DEFINE e == Evidence[o.key].external
           r == [s EXCEPT !.intent = @ \/ e, !.unplug = NoUnplug, !.verify = -1]
           t == WithdrawAdmissions(r)
           d == AwaitValid(t, e)
<1>1. e \in BOOLEAN /\ s.intent \in BOOLEAN
  BY EvidenceAssumption, ObservationType, Fields DEF Facts
<1> HIDE DEF e
<1>2. r \in State
  BY <1>1, NoneTyped, Set_intent, Set_unplug, Set_verify
<1>3. /\ r.intent = (s.intent \/ e) /\ r.verify = -1
      /\ \A f \in Watched \ {"intent", "verify"} : r[f] = s[f]
  BY WatchedFields DEF Watched
<1> HIDE DEF r
<1>4. t \in State /\ Yields(r, t) /\ t.app.lc # "ADMITTED"
  BY <1>2, WithdrawYields
<1> HIDE DEF t
<1>5. /\ d \in Decisions /\ Yields(t, d.st) /\ d.st.timer = "tick" /\ "discard" \notin d.fx
      /\ e = TRUE => ~Loading(d.st)
  BY <1>1, <1>4, AwaitValidYields
<1>6. ObserveInvalid(s, o) = d
  BY DEF ObserveInvalid, d, t, r, e
<1> HIDE DEF d
<1>7. d.st \in State /\ Yields(r, d.st)
  BY <1>4, <1>5, YieldsOn, DecisionParts
<1>8. Proceeds(s, r, Nobody)
  <2>1. Confirmed(s, r)
    BY <1>3 DEF Confirmed, FirstStart, Watched
  <2>2. Succeeded(s, r, Nobody)
    BY <1>3 DEF Succeeded, Watched
  <2>3. Plans(s, r) /\ s.seq <= r.seq
    BY <1>3, Fields DEF Plans, Counted, Used, Proving, Watched
  <2> QED
    BY <2>1, <2>2, <2>3 DEF Proceeds
<1>9. Proceeds(s, d.st, Nobody)
  BY <1>2, <1>7, <1>8, ProceedsYields
<1>10. Loads(s, d.st)
  <2>1. CASE e = TRUE
    BY <1>5, <2>1 DEF Loads
  <2>2. CASE e = FALSE
    <3>1. r.intent = s.intent
      BY <1>1, <1>3, <2>2
    <3> QED
      BY <1>3, <1>7, <3>1 DEF Loads, Yields, Loading, Watched
  <2> QED
    BY <1>1, <2>1, <2>2
<1> QED
  BY <1>5, <1>6, <1>9, <1>10, ArmedReacts DEF Continues

\* Recording a sample begins nothing.
LEMMA RecordYields ==
    \A s \in State : \A o \in Observations :
        Yields(s, RecordObservation(s, o)) /\ RecordObservation(s, o).obs = o.key
<1> SUFFICES ASSUME NEW s \in State, NEW o \in Observations
             PROVE Yields(s, RecordObservation(s, o)) /\ RecordObservation(s, o).obs = o.key
  OBVIOUS
<1> DEFINE t == RecordObservation(s, o)
<1>1. /\ t.obs = o.key /\ t.finalized \in {None, s.finalized}
      /\ \A f \in Watched \ {"obs", "finalized"} : t[f] = s[f]
  BY WatchedFields DEF RecordObservation, Watched
<1> HIDE DEF t
<1>2. Yields(s, t)
  BY <1>1 DEF Yields, Watched, Loading, Used, Proving
<1> QED
  BY <1>1, <1>2 DEF t

\* What an event does, if it is about the result of the worker x: a plan is discarded
\* only where nothing uses it, and a timer is armed unless there is nothing to do.
Wakes(s, d) == d = NoOp(s) \/ d.st.timer # "none" \/ Quiet(d.st)

Handles(s, d, x) ==
    /\ Continues(s, d.st, x)
    /\ "discard" \in d.fx => ~Used(d.st)
    /\ Wakes(s, d)

\* An event that does not fit changes nothing.
LEMMA NoOpHandles == \A s \in State : \A x : Handles(s, NoOp(s), x)
  BY KeepsSelf, YieldsContinues DEF Handles, Wakes, NoOp, Decision

\* A sample.
LEMMA ObservationCompletedHandles ==
    \A s : \A o \in Observations : \A dt \in Nat :
        Sound(s) /\ FirstStart(s) => Handles(s, ObservationCompleted(s, o, dt), Nobody)
<1> SUFFICES ASSUME NEW s, NEW o \in Observations, NEW dt \in Nat, Sound(s), FirstStart(s)
             PROVE Handles(s, ObservationCompleted(s, o, dt), Nobody)
  OBVIOUS
<1> DEFINE r == Elapse(s, dt)
           t == RecordObservation(r, o)
<1>1. s \in State /\ Pending(s)
  BY DEF Sound
<1>2. r \in State /\ Framed(s, r) /\ Pending(r) /\ Yields(s, r)
  BY <1>1, ElapseType, ElapseKeepsPending, RecordsTouch, ElapseYields
<1> HIDE DEF r
<1>3. t \in State /\ Framed(r, t) /\ Pending(t) /\ Yields(r, t) /\ t.obs = o.key
  BY <1>2, RecordObservationType, RecordKeepsPending, RecordTouches, RecordYields
<1>4. ObservationCompleted(s, o, dt) \in {NoOp(s), ObserveValid(t, o, s.obs), ObserveInvalid(t, o)}
  BY DEF ObservationCompleted, r
<1> HIDE DEF t
<1>5. Framed(s, t) /\ Yields(s, t)
  BY <1>2, <1>3, YieldsOn DEF Framed, Untouched
<1>6. Sound(t)
  BY <1>1, <1>3, <1>5, FramedSound DEF Sound
<1>7. Continues(s, t, Nobody)
  BY <1>1, <1>3, <1>5, YieldsContinues
<1>8. FirstStart(t)
  BY <1>7, FirstStartKept DEF Continues
<1>9. t.obs # None
  BY <1>3, ObservationType, NoneAssumption
<1>10. \A d \in {ObserveValid(t, o, s.obs), ObserveInvalid(t, o)} : d \in Decisions /\ Reacts(t, d)
  BY <1>3, <1>6, <1>8, ObserveValidReacts, ObserveValidType, ObserveInvalidReacts, ObserveInvalidType
<1>11. \A d \in Decisions : Reacts(t, d) => Handles(s, d, Nobody)
  <2> SUFFICES ASSUME NEW d \in Decisions, Reacts(t, d) PROVE Handles(s, d, Nobody)
    OBVIOUS
  <2>1. d.st \in State /\ Continues(t, d.st, Nobody)
    BY DecisionParts DEF Reacts
  <2>2. Continues(s, d.st, Nobody)
    BY <1>1, <1>3, <1>7, <2>1, ProceedsOn DEF Continues, Loads
  <2> QED
    BY <1>9, <2>2 DEF Reacts, Handles, Wakes
<1> QED
  BY <1>1, <1>4, <1>10, <1>11, NoOpHandles

-----------------------------------------------------------------------------
(* Hints, timers, failed samples and plans. *)

\* A decision that arms a timer and begins nothing.
LEMMA YieldsHandles ==
    \A s, t \in State : \A delay \in Delays : \A fx :
        Yields(s, t) /\ "discard" \notin fx => \A x : Handles(s, Schedule(t, delay, fx), x)
<1> SUFFICES ASSUME NEW s \in State, NEW t \in State, NEW delay \in Delays, NEW fx, NEW x,
                    Yields(s, t), "discard" \notin fx
             PROVE Handles(s, Schedule(t, delay, fx), x)
  OBVIOUS
<1> DEFINE d == Schedule(t, delay, fx)
<1>1. d.st \in State /\ Yields(t, d.st) /\ d.st.timer = delay /\ d.fx = fx
  BY ScheduleYields
<1> HIDE DEF d
<1>2. d.st.timer # "none"
  BY <1>1 DEF Delays
<1>3. Continues(s, d.st, x)
  BY <1>1, YieldsOn, YieldsContinues
<1> QED
  BY <1>1, <1>2, <1>3 DEF Handles, Wakes, d

\* A timer or a failed sample asks for another sample.
LEMMA TimerHandles ==
    \A s \in State : Handles(s, TimerFired(s), Nobody) /\ Handles(s, ObservationFailed(s), Nobody)
<1> SUFFICES ASSUME NEW s \in State
             PROVE Handles(s, TimerFired(s), Nobody) /\ Handles(s, ObservationFailed(s), Nobody)
  OBVIOUS
<1>1. TimerFired(s) = Schedule(s, "now", {"observe"})
  BY DEF TimerFired, Schedule
<1>2. ObservationFailed(s) = Schedule(s, "tick", StopEffect(s)) /\ "discard" \notin StopEffect(s)
  BY DEF ObservationFailed, StopEffect
<1> QED
  BY <1>1, <1>2, KeepsSelf, YieldsHandles DEF Delays

\* A hint ends a proof, and begins nothing.
LEMMA DisturbedYields ==
    \A s \in State : \A g, dt \in Nat : Yields(s, Disturbed(s, g, dt))
<1> SUFFICES ASSUME NEW s \in State, NEW g \in Nat, NEW dt \in Nat PROVE Yields(s, Disturbed(s, g, dt))
  OBVIOUS
<1> DEFINE r == Elapse(s, dt)
           t == Disturbed(s, g, dt)
<1>1. r \in State /\ Yields(s, r)
  BY ElapseType, ElapseYields
<1>2. t = [r EXCEPT !.egen = g, !.drm = 0, !.verify = -1, !.unplug = NoUnplug]
  BY DEF Disturbed
<1> HIDE DEF r, t
<1>3. t.verify = -1 /\ \A f \in Watched \ {"verify"} : t[f] = r[f]
  BY <1>1, <1>2, WatchedFields DEF Watched
<1>4. Yields(r, t)
  BY <1>3 DEF Yields, Watched, Loading, Used, Proving
<1> QED
  BY <1>1, <1>4, YieldsOn DEF t

\* The admission of a desktop action is withdrawn.
LEMMA WithdrawDesktopYields == \A s \in State : Yields(s, WithdrawDesktopAdmission(s))
<1> SUFFICES ASSUME NEW s \in State PROVE Yields(s, WithdrawDesktopAdmission(s))
  OBVIOUS
<1> DEFINE r == DropPreparation(s, "CANCELLED")
           t == IF s.prepState = "PREPARE_PENDING" THEN DiscardPlanning(r) ELSE s
           a == AppendTombstone(t, t.fin, "CANCELLED")
           u == [a EXCEPT !.fin = NoAction]
<1>1. r \in State /\ Yields(s, r)
  BY DropType, DropYields DEF Terminal
<1> HIDE DEF r
<1>2. t \in State /\ Yields(s, t)
  BY <1>1, DiscardPlanningType, DiscardYields, KeepsSelf, YieldsOn
<1>3. WithdrawDesktopAdmission(s) \in {u, t}
  BY DEF WithdrawDesktopAdmission, r
<1> HIDE DEF t
<1>4. u.fin = NoAction /\ NoAction.lc = "ABSENT" /\ \A f \in Watched \ {"fin"} : u[f] = t[f]
  BY <1>2, WatchedFields DEF AppendTombstone, Watched, NoAction
<1> HIDE DEF u
<1>5. Yields(t, u)
  BY <1>4 DEF Yields, Watched, Loading, Used, Proving
<1> QED
  BY <1>2, <1>3, <1>5, YieldsOn

\* A hint is followed by a sample.
LEMMA DrmHintHandles ==
    \A s \in State : \A g, dt \in Nat : Handles(s, DrmHintReceived(s, g, dt), Nobody)
<1> SUFFICES ASSUME NEW s \in State, NEW g \in Nat, NEW dt \in Nat
             PROVE Handles(s, DrmHintReceived(s, g, dt), Nobody)
  OBVIOUS
<1> DEFINE r == Disturbed(s, g, dt)
           t == WithdrawDesktopAdmission(r)
           u == [t EXCEPT !.phase = IF @ \in {"QUIESCENT", "VERIFYING", "UNSUPPORTED", "FINALIZE_PENDING"}
                                    THEN "DISCOVER_FAST" ELSE @]
<1>1. r \in State /\ Yields(s, r)
  BY DisturbedType, DisturbedYields
<1> HIDE DEF r
<1>2. t \in State /\ Yields(s, t)
  BY <1>1, WithdrawDesktopType, WithdrawDesktopYields, YieldsOn
<1>3. DrmHintReceived(s, g, dt) \in {NoOp(s), Schedule(u, "now", {"observe"})}
  BY DEF DrmHintReceived, r
<1> HIDE DEF t
<1>4. u \in State
  BY <1>2, Named, Set_phase, Fields
<1>5. u.phase \in {t.phase, "DISCOVER_FAST"} /\ \A f \in Watched \ {"phase"} : u[f] = t[f]
  BY <1>2, WatchedFields DEF Watched
<1> HIDE DEF u
<1>6. Yields(t, u)
  BY <1>5 DEF Yields, Watched, Loading, Used, Proving
<1>7. Handles(s, Schedule(u, "now", {"observe"}), Nobody)
  BY <1>2, <1>4, <1>6, YieldsOn, YieldsHandles DEF Delays
<1> QED
  BY <1>3, <1>7, NoOpHandles

\* So is an offer that a hint made stale.
LEMMA AdmissionDirtiedHandles ==
    \A s \in State : \A x, g, dt \in Nat : Handles(s, AdmissionDirtied(s, x, g, dt), Nobody)
<1> SUFFICES ASSUME NEW s \in State, NEW x \in Nat, NEW g \in Nat, NEW dt \in Nat
             PROVE Handles(s, AdmissionDirtied(s, x, g, dt), Nobody)
  OBVIOUS
<1> DEFINE r == Disturbed(s, g, dt)
           q == DropPreparation(r, "CANCELLED")
           p == [q EXCEPT !.phase = "DISCOVER_FAST"]
           t == WithdrawOffered(r, x)
<1>1. r \in State /\ Yields(s, r)
  BY DisturbedType, DisturbedYields
<1>2. AdmissionDirtied(s, x, g, dt) \in {NoOp(s), Schedule(t, "now", {"observe"})}
  BY DEF AdmissionDirtied
<1> HIDE DEF r
<1>3. t \in State
  BY <1>1, WithdrawOfferedType
<1>4. t \in {DiscardPlanning(p), DropFinalization(r, "CANCELLED"), r}
  BY DEF WithdrawOffered
<1>5. q \in State /\ Yields(r, q) /\ Yields(r, DropFinalization(r, "CANCELLED"))
  BY <1>1, DropType, DropYields DEF Terminal
<1> HIDE DEF q, t
<1>6. p \in State /\ p.phase = "DISCOVER_FAST" /\ \A f \in Watched \ {"phase"} : p[f] = q[f]
  BY <1>5, Named, Set_phase, WatchedFields DEF Watched
<1> HIDE DEF p
<1>7. Yields(q, p)
  BY <1>6 DEF Yields, Watched, Loading, Used, Proving
<1>8. Yields(r, DiscardPlanning(p))
  BY <1>5, <1>6, <1>7, DiscardYields, YieldsOn
<1>9. Yields(s, t)
  BY <1>1, <1>4, <1>5, <1>8, YieldsOn, KeepsSelf
<1>10. Handles(s, Schedule(t, "now", {"observe"}), Nobody)
  BY <1>3, <1>9, YieldsHandles DEF Delays
<1> QED
  BY <1>2, <1>10, NoOpHandles

\* A failure ends its action, and begins nothing.
LEMMA FailYields ==
    \A s \in State : \A x \in Nat : \A lc \in Failed :
        Numbered(s) /\ Counted(s) /\ x # 0 => Yields(s, FailAction(s, x, lc))
<1> SUFFICES ASSUME NEW s \in State, NEW x \in Nat, NEW lc \in Failed,
                    Numbered(s), Counted(s), x # 0
             PROVE Yields(s, FailAction(s, x, lc))
  OBVIOUS
<1> DEFINE t == [s EXCEPT !.tombs = {y \in @ : y.id # x} \cup {[id |-> x, lc |-> lc]}]
           u == FailAction(s, x, lc)
<1>1. lc \notin {"ABSENT", "ADMITTED", "DISPATCHED", "RESULT_PENDING"}
  BY DEF Failed
<1>2. \A a \in Action : [a EXCEPT !.lc = lc].lc = lc /\ [a EXCEPT !.lc = lc].id = a.id
  BY DEF Action
<1>3. s.probe \in Action /\ s.app \in Action /\ s.prep \in Action /\ s.fin \in Action /\ s.planning \in Action
  BY Fields
<1>4. \A f \in Watched : t[f] = s[f]
  BY WatchedFields DEF Watched
<1>5. DOMAIN t = DOMAIN s
  OBVIOUS
<1>6. u = IF s.planning.id = x
          THEN [t EXCEPT !.planState = "PLAN_FAILED", !.planning.lc = lc]
          ELSE IF s.probe.id = x THEN [t EXCEPT !.phase = "PROBE_FAILED", !.probe.lc = lc]
          ELSE IF s.app.id = x THEN [t EXCEPT !.phase = "APPLY_FAILED", !.app.lc = lc]
          ELSE IF s.prep.id = x THEN [t EXCEPT !.prepState = "PREPARE_FAILED", !.prep.lc = lc]
          ELSE [t EXCEPT !.phase = "FINALIZE_FAILED", !.fin.lc = lc]
  BY DEF FailAction
<1> HIDE DEF t, u
<1>7. CASE s.planning.id = x
  <2>1. /\ u.planState = "PLAN_FAILED" /\ u.planning = [s.planning EXCEPT !.lc = lc]
        /\ \A f \in Watched \ {"planState", "planning"} : u[f] = s[f]
    BY <1>4, <1>5, <1>6, <1>7, WatchedFields DEF Watched
  <2>2. Held(s.planning) /\ Held(u.planning) /\ u.planning.id = s.planning.id
    BY <1>1, <1>2, <1>3, <1>7, <2>1 DEF Counted, Held
  <2> QED
    BY <2>1, <2>2 DEF Yields, Watched, Loading, Used, Proving, u
<1>8. CASE s.planning.id # x /\ s.probe.id = x
  <2>1. u.phase = "PROBE_FAILED" /\ \A f \in Watched \ {"phase"} : u[f] = s[f]
    BY <1>4, <1>5, <1>6, <1>8, WatchedFields DEF Watched
  <2> QED
    BY <2>1 DEF Yields, Watched, Loading, Used, Proving, u
<1>9. CASE s.planning.id # x /\ s.probe.id # x /\ s.app.id = x
  <2>1. /\ u.phase = "APPLY_FAILED" /\ u.app = [s.app EXCEPT !.lc = lc]
        /\ \A f \in Watched \ {"phase", "app"} : u[f] = s[f]
    BY <1>4, <1>5, <1>6, <1>9, WatchedFields DEF Watched
  <2> QED
    BY <1>1, <1>2, <1>3, <2>1 DEF Yields, Watched, Loading, Used, Proving, u
<1>10. CASE s.planning.id # x /\ s.probe.id # x /\ s.app.id # x /\ s.prep.id = x
  <2>1. \A f \in Watched \ {"prep"} : u[f] = s[f]
    BY <1>4, <1>5, <1>6, <1>10, WatchedFields DEF Watched
  <2>2. Held(s.prep)
    BY <1>10 DEF Numbered, Kinds
  <2> QED
    BY <2>1, <2>2 DEF Yields, Watched, Loading, Used, Proving, u
<1>11. CASE s.planning.id # x /\ s.probe.id # x /\ s.app.id # x /\ s.prep.id # x
  <2>1. /\ u.phase = "FINALIZE_FAILED" /\ u.fin = [s.fin EXCEPT !.lc = lc]
        /\ \A f \in Watched \ {"phase", "fin"} : u[f] = s[f]
    BY <1>4, <1>5, <1>6, <1>11, WatchedFields DEF Watched
  <2> QED
    BY <1>1, <1>2, <1>3, <2>1 DEF Yields, Watched, Loading, Used, Proving, u
<1> QED
  BY <1>7, <1>8, <1>9, <1>10, <1>11

\* A rejected dispatch.
LEMMA DispatchRejectedHandles ==
    \A s \in State : \A x \in Nat :
        Numbered(s) /\ Counted(s) /\ x # 0 => Handles(s, DispatchRejected(s, x), Nobody)
<1>1. "FAILED" \in Failed
  BY DEF Failed
<1> QED
  BY <1>1, FailYields, FailActionType, YieldsHandles, NoOpHandles DEF DispatchRejected, Delays

\* A plan that is ready, or has failed.
LEMMA PlanEndsHandle ==
    \A s \in State : \A x \in Nat : \A retryable :
        Numbered(s) /\ Counted(s) /\ x # 0 =>
            Handles(s, PlanCompleted(s, x), Nobody) /\ Handles(s, PlanFailed(s, x, retryable), Nobody)
<1> SUFFICES ASSUME NEW s \in State, NEW x \in Nat, NEW retryable, Numbered(s), Counted(s), x # 0
             PROVE /\ Handles(s, PlanCompleted(s, x), Nobody)
                   /\ Handles(s, PlanFailed(s, x, retryable), Nobody)
  OBVIOUS
<1>1. Handles(s, PlanCompleted(s, x), Nobody)
  <2> DEFINE r == AppendTombstone(s, s.planning, "COMPLETED")
             t == [r EXCEPT !.planState = "PLAN_READY", !.planning.lc = "COMPLETED"]
  <2>1. r \in State /\ Alike(s, r)
    BY Fields, AppendTombstoneType, RecordsAlike DEF Terminal
  <2>2. \/ PlanCompleted(s, x) = NoOp(s)
        \/ s.planning.id = x /\ PlanCompleted(s, x) = Schedule(t, "now", {"observe"})
    BY DEF PlanCompleted
  <2> HIDE DEF r
  <2>3. t \in State
    <3>1. [r EXCEPT !.planState = "PLAN_READY"] \in State
      BY <2>1, Set_planState DEF PlanStates
    <3> QED
      BY <3>1, SetLc DEF Lifecycles, Terminal
  <2>4. /\ t.planState = "PLAN_READY" /\ t.planning = [s.planning EXCEPT !.lc = "COMPLETED"]
        /\ \A f \in Watched \ {"planState", "planning"} : t[f] = s[f]
    BY <2>1, WatchedFields DEF Alike, Watched
  <2>5. t.planning.lc = "COMPLETED" /\ t.planning.id = s.planning.id
    BY <2>4, Fields DEF Action
  <2> HIDE DEF t
  <2>6. s.planning.id = x => Yields(s, t)
    BY <2>4, <2>5 DEF Yields, Watched, Loading, Used, Proving, Counted, Held
  <2> QED
    BY <2>2, <2>3, <2>6, YieldsHandles, NoOpHandles DEF Delays
<1>2. Handles(s, PlanFailed(s, x, retryable), Nobody)
  <2> DEFINE r == DiscardPlanning(s)
             t == [r EXCEPT !.phase = "DISCOVER_FAST", !.verify = -1]
  <2>1. r \in State /\ Yields(s, r)
    BY DiscardPlanningType, DiscardYields
  <2>2. PlanFailed(s, x, retryable) \in
          {NoOp(s), Schedule(t, "tick", {}), Schedule(FailAction(s, x, "FAILED"), "health", {})}
    BY DEF PlanFailed
  <2> HIDE DEF r
  <2>3. t \in State
    <3>1. [r EXCEPT !.phase = "DISCOVER_FAST"] \in State
      BY <2>1, Named, Set_phase
    <3> QED
      BY <3>1, NoneTyped, Set_verify
  <2>4. /\ t.phase = "DISCOVER_FAST" /\ t.verify = -1
        /\ \A f \in Watched \ {"phase", "verify"} : t[f] = r[f]
    BY <2>1, WatchedFields DEF Watched
  <2> HIDE DEF t
  <2>5. Yields(r, t)
    BY <2>4 DEF Yields, Watched, Loading, Used, Proving
  <2>6. Handles(s, Schedule(t, "tick", {}), Nobody)
    BY <2>1, <2>3, <2>5, YieldsOn, YieldsHandles DEF Delays
  <2>7. Handles(s, Schedule(FailAction(s, x, "FAILED"), "health", {}), Nobody)
    BY FailYields, FailActionType, YieldsHandles DEF Delays, Failed
  <2> QED
    BY <2>2, <2>6, <2>7, NoOpHandles
<1> QED
  BY <1>1, <1>2

-----------------------------------------------------------------------------
(* Dispatch and worker results. *)

\* An acknowledged dispatch begins nothing that was not admitted.
LEMMA DispatchedYields ==
    \A s \in State : \A x : Yields(s, Dispatched(s, x).st) /\ Dispatched(s, x).fx = {}
<1> SUFFICES ASSUME NEW s \in State, NEW x
             PROVE Yields(s, Dispatched(s, x).st) /\ Dispatched(s, x).fx = {}
  OBVIOUS
<1> DEFINE d == Dispatched(s, x)
           probing == [s EXCEPT !.phase = "PROBING", !.probe = AsDispatched(@),
                                !.probed = @ \cup {AttemptKey(s.probe)}, !.timer = "none"]
           applying == [s EXCEPT !.phase = "APPLYING", !.app = AsDispatched(@),
                                 !.applied = @ \cup {AttemptKey(s.app)}, !.timer = "none"]
           preparing == [s EXCEPT !.prepState = "PREPARING", !.prep = AsDispatched(@)]
           finalizing == [s EXCEPT !.phase = "FINALIZING", !.fin = AsDispatched(@)]
<1>1. /\ d.fx = {}
      /\ \/ d.st \in {s, probing, finalizing}
         \/ d.st = applying /\ s.app.lc = "ADMITTED"
         \/ d.st = preparing /\ s.prep.lc = "ADMITTED"
  BY DEF Dispatched, NoOp, Decision
<1>2. \A a \in Action : AsDispatched(a).lc = "DISPATCHED" /\ AsDispatched(a).profile = a.profile
  BY DEF AsDispatched, Action
<1>3. s.app \in Action /\ s.prep \in Action /\ s.fin \in Action
  BY Fields
<1>4. Yields(s, probing)
  <2>1. probing.phase = "PROBING" /\ \A f \in Watched \ {"phase"} : probing[f] = s[f]
    BY WatchedFields DEF Watched
  <2> HIDE DEF probing
  <2> QED
    BY <2>1 DEF Yields, Watched, Loading, Used, Proving
<1>5. s.app.lc = "ADMITTED" => Yields(s, applying)
  <2>1. /\ applying.phase = "APPLYING" /\ applying.app = AsDispatched(s.app)
        /\ \A f \in Watched \ {"phase", "app"} : applying[f] = s[f]
    BY WatchedFields DEF Watched
  <2> HIDE DEF applying
  <2> QED
    BY <1>2, <1>3, <2>1 DEF Yields, Watched, Loading, Used, Proving
<1>6. s.prep.lc = "ADMITTED" => Yields(s, preparing)
  <2>1. \A f \in Watched \ {"prep"} : preparing[f] = s[f]
    BY WatchedFields DEF Watched
  <2> HIDE DEF preparing
  <2> QED
    BY <2>1 DEF Yields, Watched, Loading, Used, Proving, Held
<1>7. Yields(s, finalizing)
  <2>1. /\ finalizing.phase = "FINALIZING" /\ finalizing.fin = AsDispatched(s.fin)
        /\ \A f \in Watched \ {"phase", "fin"} : finalizing[f] = s[f]
    BY WatchedFields DEF Watched
  <2> HIDE DEF finalizing
  <2> QED
    BY <1>2, <1>3, <2>1 DEF Yields, Watched, Loading, Used, Proving
<1> HIDE DEF probing, applying, preparing, finalizing
<1> QED
  BY <1>1, <1>4, <1>5, <1>6, <1>7, KeepsSelf DEF d

\* What it changes has a live action.
LEMMA DispatchedLives ==
    \A s \in State : \A x :
        LET t == Dispatched(s, x).st
        IN t = s \/ \E k \in Kinds : Live(t[k]) /\ t[k].id = x
<1> SUFFICES ASSUME NEW s \in State, NEW x, Offering(s, x)
             PROVE \E k \in Kinds : Live(Dispatched(s, x).st[k]) /\ Dispatched(s, x).st[k].id = x
  BY DispatchedReplaces
<1>1. PICK k \in Kinds : s[k].id = x /\ Replaces(s, Dispatched(s, x).st, k, AsDispatched(s[k]))
  BY DispatchedReplaces
<1> QED
  BY <1>1, KindsTyped, AsDispatchedLive DEF Replaces, Live

\* What a stop would have recorded may be cleared.
LEMMA AfterYields ==
    \A s \in State :
        /\ Yields(s, [s EXCEPT !.probe.after = None])
        /\ Yields(s, [s EXCEPT !.app.after = None])
        /\ Yields(s, [s EXCEPT !.prep.after = None])
        /\ Yields(s, [s EXCEPT !.fin.after = None])
<1> SUFFICES ASSUME NEW s \in State
             PROVE /\ Yields(s, [s EXCEPT !.probe.after = None])
                   /\ Yields(s, [s EXCEPT !.app.after = None])
                   /\ Yields(s, [s EXCEPT !.prep.after = None])
                   /\ Yields(s, [s EXCEPT !.fin.after = None])
  OBVIOUS
<1> DEFINE b(a) == [a EXCEPT !.after = None]
<1>1. \A a \in Action : b(a).lc = a.lc /\ b(a).id = a.id /\ b(a).profile = a.profile
  BY DEF Action
<1>2. s.app \in Action /\ s.prep \in Action /\ s.fin \in Action
  BY Fields
<1> HIDE DEF b
<1>3. Yields(s, [s EXCEPT !.probe.after = None])
  <2> DEFINE t == [s EXCEPT !.probe.after = None]
  <2>1. Alike(s, t)
    BY WatchedFields DEF Alike, Watched
  <2> QED
    BY <2>1, AlikeYields
<1>4. Yields(s, [s EXCEPT !.app.after = None])
  <2> DEFINE t == [s EXCEPT !.app.after = None]
  <2>1. t.app = b(s.app) /\ \A f \in Watched \ {"app"} : t[f] = s[f]
    BY WatchedFields DEF Watched, b
  <2> HIDE DEF t
  <2>2. Yields(s, t)
    BY <1>1, <1>2, <2>1, SameYields DEF Kinds
  <2> QED
    BY <2>2 DEF t
<1>5. Yields(s, [s EXCEPT !.prep.after = None])
  <2> DEFINE t == [s EXCEPT !.prep.after = None]
  <2>1. t.prep = b(s.prep) /\ \A f \in Watched \ {"prep"} : t[f] = s[f]
    BY WatchedFields DEF Watched, b
  <2> HIDE DEF t
  <2>2. Yields(s, t)
    BY <1>1, <1>2, <2>1, SameYields DEF Kinds
  <2> QED
    BY <2>2 DEF t
<1>6. Yields(s, [s EXCEPT !.fin.after = None])
  <2> DEFINE t == [s EXCEPT !.fin.after = None]
  <2>1. t.fin = b(s.fin) /\ \A f \in Watched \ {"fin"} : t[f] = s[f]
    BY WatchedFields DEF Watched, b
  <2> HIDE DEF t
  <2>2. Yields(s, t)
    BY <1>1, <1>2, <2>1, SameYields DEF Kinds
  <2> QED
    BY <2>2 DEF t
<1> QED
  BY <1>3, <1>4, <1>5, <1>6

\* A worker that failed.
LEMMA FailedHandles ==
    \A s \in State : \A x \in Nat :
        Numbered(s) /\ Counted(s) /\ x # 0 =>
            LET t == FailAction(s, x, "FAILED")
            IN \A u \in {[t EXCEPT !.probe.after = None], [t EXCEPT !.app.after = None],
                         [t EXCEPT !.prep.after = None], [t EXCEPT !.fin.after = None]} :
                  \A y : Handles(s, Schedule(u, "health", {}), y)
<1> SUFFICES ASSUME NEW s \in State, NEW x \in Nat, Numbered(s), Counted(s), x # 0
             PROVE LET t == FailAction(s, x, "FAILED")
                   IN \A u \in {[t EXCEPT !.probe.after = None], [t EXCEPT !.app.after = None],
                                [t EXCEPT !.prep.after = None], [t EXCEPT !.fin.after = None]} :
                         \A y : Handles(s, Schedule(u, "health", {}), y)
  OBVIOUS
<1> DEFINE t == FailAction(s, x, "FAILED")
<1>1. t \in State /\ Yields(s, t)
  BY FailActionType, FailYields DEF Failed
<1> HIDE DEF t
<1> DEFINE U == {[t EXCEPT !.probe.after = None], [t EXCEPT !.app.after = None],
                 [t EXCEPT !.prep.after = None], [t EXCEPT !.fin.after = None]}
<1>2. \A u \in U : u \in State /\ Yields(s, u)
  <2>1. \A u \in U : u \in State
    BY <1>1, SetAfter
  <2>2. \A u \in U : Yields(t, u)
    BY <1>1, AfterYields
  <2> HIDE DEF U
  <2> QED
    BY <1>1, <2>1, <2>2, YieldsOn
<1> HIDE DEF U
<1>3. \A u \in U : \A y : Handles(s, Schedule(u, "health", {}), y)
  BY <1>2, YieldsHandles DEF Delays
<1> QED
  BY <1>3 DEF t, U

\* The end of a probe.
LEMMA ProbeFinishedHandles ==
    \A s \in State : \A x \in Nat : \A outcome \in Outcomes : \A y :
        Numbered(s) /\ Counted(s) /\ x # 0 => Handles(s, ProbeFinished(s, x, outcome), y)
<1> SUFFICES ASSUME NEW s \in State, NEW x \in Nat, NEW outcome \in Outcomes, NEW y,
                    Numbered(s), Counted(s), x # 0
             PROVE Handles(s, ProbeFinished(s, x, outcome), y)
  OBVIOUS
<1> DEFINE t == DropProbe(s, EndedLifecycle(outcome))
           u == [FailAction(s, x, "FAILED") EXCEPT !.probe.after = None]
<1>1. ProbeFinished(s, x, outcome) \in
        {NoOp(s), Schedule(s, "tick", {"stop"}), Schedule(u, "health", {}), Schedule(t, "now", {"observe"})}
  BY DEF ProbeFinished
<1>2. t \in State /\ Yields(s, t) /\ Yields(s, s)
  BY EndedType, DropType, DropYields, KeepsSelf
<1>3. Handles(s, Schedule(u, "health", {}), y)
  BY FailedHandles
<1> HIDE DEF t, u
<1> QED
  BY <1>1, <1>2, <1>3, YieldsHandles, NoOpHandles DEF Delays

\* The end of an application.
LEMMA ApplicationFinishedHandles ==
    \A s \in State : \A x \in Nat : \A outcome \in Outcomes : \A y :
        Numbered(s) /\ Counted(s) /\ x # 0 => Handles(s, ApplicationFinished(s, x, outcome), y)
<1> SUFFICES ASSUME NEW s \in State, NEW x \in Nat, NEW outcome \in Outcomes, NEW y,
                    Numbered(s), Counted(s), x # 0
             PROVE Handles(s, ApplicationFinished(s, x, outcome), y)
  OBVIOUS
<1> DEFINE r == DropApplication(s, EndedLifecycle(outcome))
           t == [r EXCEPT !.verify = IF outcome = "SUCCEEDED" THEN -1 ELSE @]
           u == [FailAction(s, x, "FAILED") EXCEPT !.app.after = None]
<1>1. ApplicationFinished(s, x, outcome) \in
        {NoOp(s), Schedule(s, "tick", {"stop"}), Schedule(u, "health", {}), Schedule(t, "now", {"observe"})}
  BY DEF ApplicationFinished
<1>2. r \in State /\ Yields(s, r) /\ Yields(s, s)
  BY EndedType, DropType, DropYields, KeepsSelf
<1>3. Handles(s, Schedule(u, "health", {}), y)
  BY FailedHandles
<1> HIDE DEF r, u
<1>4. t \in State
  BY <1>2, Fields, NoneTyped, Set_verify
<1>5. t.verify \in {r.verify, -1} /\ \A f \in Watched \ {"verify"} : t[f] = r[f]
  BY <1>2, WatchedFields DEF Watched
<1> HIDE DEF t
<1>6. Yields(r, t)
  BY <1>5 DEF Yields, Watched, Loading, Used, Proving
<1>7. Yields(s, t)
  BY <1>2, <1>6, YieldsOn
<1> QED
  BY <1>1, <1>2, <1>3, <1>4, <1>7, YieldsHandles, NoOpHandles DEF Delays

\* The end of a preparation.
LEMMA PreparationFinishedHandles ==
    \A s \in State : \A x \in Nat : \A outcome \in Outcomes : \A h, y :
        Numbered(s) /\ Counted(s) /\ x # 0 => Handles(s, PreparationFinished(s, x, outcome, h), y)
<1> SUFFICES ASSUME NEW s \in State, NEW x \in Nat, NEW outcome \in Outcomes, NEW h, NEW y,
                    Numbered(s), Counted(s), x # 0
             PROVE Handles(s, PreparationFinished(s, x, outcome, h), y)
  OBVIOUS
<1> DEFINE r == DropPreparation(s, "CANCELLED")
           t == [r EXCEPT !.phase = "DISCOVER_FAST"]
           u == [FailAction(s, x, "FAILED") EXCEPT !.prep.after = None]
           v == [s EXCEPT !.prep.lc = "RESULT_PENDING", !.prep.after = None]
<1>1. \/ PreparationFinished(s, x, outcome, h) \in
           {NoOp(s), Schedule(s, "tick", {"stop"}), Schedule(u, "health", {}), Schedule(t, "now", {"observe"})}
      \/ /\ PreparationFinished(s, x, outcome, h) = Schedule(v, "now", {"observe"})
         /\ Live(s.prep)
  BY DEF PreparationFinished, Live
<1>2. r \in State /\ Yields(s, r) /\ Yields(s, s)
  BY DropType, DropYields, KeepsSelf DEF Terminal
<1>3. Handles(s, Schedule(u, "health", {}), y)
  BY FailedHandles
<1> HIDE DEF r, u
<1>4. t \in State /\ t.phase = "DISCOVER_FAST" /\ \A f \in Watched \ {"phase"} : t[f] = r[f]
  BY <1>2, Named, Set_phase, WatchedFields DEF Watched
<1> HIDE DEF t
<1>5. Yields(r, t)
  BY <1>4 DEF Yields, Watched, Loading, Used, Proving
<1>6. Yields(s, t)
  BY <1>2, <1>5, YieldsOn
<1>7. v \in State /\ \A f \in Watched \ {"prep"} : v[f] = s[f]
  BY ResultPendingType, WatchedFields DEF Watched
<1> HIDE DEF v
<1>8. Live(s.prep) => Yields(s, v)
  BY <1>7 DEF Yields, Watched, Loading, Used, Proving, Held, Live
<1> QED
  BY <1>1, <1>2, <1>3, <1>4, <1>6, <1>7, <1>8, YieldsHandles, NoOpHandles DEF Delays

\* The end of a finalization: its success is the result of its worker.
LEMMA FinalizationFinishedHandles ==
    \A s \in State : \A x \in Nat : \A outcome \in Outcomes :
        Numbered(s) /\ Counted(s) /\ x # 0 =>
            Handles(s, FinalizationFinished(s, x, outcome), IF outcome = "SUCCEEDED" THEN x ELSE Nobody)
<1> SUFFICES ASSUME NEW s \in State, NEW x \in Nat, NEW outcome \in Outcomes,
                    Numbered(s), Counted(s), x # 0
             PROVE Handles(s, FinalizationFinished(s, x, outcome),
                           IF outcome = "SUCCEEDED" THEN x ELSE Nobody)
  OBVIOUS
<1> DEFINE y == IF outcome = "SUCCEEDED" THEN x ELSE Nobody
           r == DropFinalization(s, "CANCELLED")
           t == [r EXCEPT !.verify = -1]
           u == [FailAction(s, x, "FAILED") EXCEPT !.fin.after = None]
           v == [s EXCEPT !.fin.lc = "RESULT_PENDING", !.fin.after = None, !.phase = "FINALIZING"]
<1>1. \/ FinalizationFinished(s, x, outcome) \in
           {NoOp(s), Schedule(s, "tick", {"stop"}), Schedule(u, "health", {}), Schedule(t, "now", {"observe"})}
      \/ /\ FinalizationFinished(s, x, outcome) = Schedule(v, "now", {"observe"})
         /\ s.fin.id = x /\ y = x
  BY DEF FinalizationFinished
<1>2. r \in State /\ Yields(s, r) /\ Yields(s, s)
  BY DropType, DropYields, KeepsSelf DEF Terminal
<1>3. Handles(s, Schedule(u, "health", {}), y)
  BY FailedHandles
<1> HIDE DEF r, u, y
<1>4. t \in State /\ t.verify = -1 /\ \A f \in Watched \ {"verify"} : t[f] = r[f]
  BY <1>2, NoneTyped, Set_verify, WatchedFields DEF Watched
<1> HIDE DEF t
<1>5. Yields(r, t)
  BY <1>4 DEF Yields, Watched, Loading, Used, Proving
<1>6. Yields(s, t)
  BY <1>2, <1>5, YieldsOn
<1>7. /\ v \in State /\ v.phase = "FINALIZING" /\ v.fin = [s.fin EXCEPT !.lc = "RESULT_PENDING", !.after = None]
      /\ \A f \in Watched \ {"phase", "fin"} : v[f] = s[f]
  BY ResultPendingType, WatchedFields, Fields DEF Watched, Action
<1> HIDE DEF v
<1>8. v.fin.id = s.fin.id
  BY <1>7, Fields, NewLc
<1>9. s.fin.id = x /\ y = x => Handles(s, Schedule(v, "now", {"observe"}), y)
  <2> SUFFICES ASSUME s.fin.id = x, y = x PROVE Handles(s, Schedule(v, "now", {"observe"}), y)
    OBVIOUS
  <2> DEFINE d == Schedule(v, "now", {"observe"})
  <2>1. d.st \in State /\ Alike(v, d.st) /\ d.st.timer = "now" /\ d.fx = {"observe"}
    BY <1>7, ScheduleYields DEF Delays
  <2> HIDE DEF d
  <2>2. d.st.phase = "FINALIZING" /\ d.st.fin.id = x
    BY <1>7, <1>8, <2>1 DEF Alike, Watched
  <2>3. \A f \in Watched \ {"phase", "fin"} : d.st[f] = s[f]
    BY <1>7, <2>1 DEF Alike
  <2>4. Confirmed(s, d.st)
    BY <2>2, <2>3 DEF Confirmed, FirstStart, Watched
  <2>5. Succeeded(s, d.st, y) /\ Loads(s, d.st)
    BY <2>2, <2>3 DEF Succeeded, Loads, Loading, Watched
  <2>6. Plans(s, d.st) /\ s.seq <= d.st.seq
    BY <2>2, <2>3, Fields DEF Plans, Counted, Used, Proving, Watched
  <2> QED
    BY <2>1, <2>4, <2>5, <2>6 DEF Handles, Wakes, Continues, Proceeds, d
<1>10. Handles(s, FinalizationFinished(s, x, outcome), y)
  BY <1>1, <1>2, <1>3, <1>4, <1>6, <1>9, YieldsHandles, NoOpHandles DEF Delays
<1> QED
  BY <1>10 DEF y

\* The end of a worker.
LEMMA FinishedHandles ==
    \A s \in State : \A x \in Nat : \A outcome \in Outcomes : \A h :
        Numbered(s) /\ Counted(s) /\ x # 0 =>
            Handles(s, Finished(s, x, outcome, h), IF outcome = "SUCCEEDED" THEN x ELSE Nobody)
  BY ProbeFinishedHandles, ApplicationFinishedHandles, PreparationFinishedHandles,
     FinalizationFinishedHandles, NoOpHandles DEF Finished

-----------------------------------------------------------------------------
(* Uncertain and stopped workers. *)

\* An event after one that begins nothing.
LEMMA ContinuesOn ==
    \A s, t, u \in State : \A x : Yields(s, t) /\ Continues(t, u, x) => Continues(s, u, x)
<1> SUFFICES ASSUME NEW s \in State, NEW t \in State, NEW u \in State, NEW x,
                    Yields(s, t), Continues(t, u, x)
             PROVE Continues(s, u, x)
  OBVIOUS
<1>1. Continues(s, t, Nobody)
  BY YieldsContinues
<1> QED
  BY <1>1, ProceedsOn DEF Continues, Loads

\* An uncertain worker is stopped.
LEMMA UncertainHandles ==
    \A s \in State : \A x \in Nat : \A v \in {"UNKNOWN", "TIMED_OUT"} :
        Numbered(s) /\ x # 0 =>
            /\ Yields(s, WorkerUncertain(s, x, v).st)
            /\ \A y : Handles(s, WorkerUncertain(s, x, v), y)
<1> SUFFICES ASSUME NEW s \in State, NEW x \in Nat, NEW v \in {"UNKNOWN", "TIMED_OUT"},
                    Numbered(s), x # 0
             PROVE /\ Yields(s, WorkerUncertain(s, x, v).st)
                   /\ \A y : Handles(s, WorkerUncertain(s, x, v), y)
  OBVIOUS
<1> DEFINE d == StopUncertainMutator(s, x, v)
           fx == IF Stopping(s) THEN {} ELSE {"stop"}
           probing == [s EXCEPT !.phase = "PROBING", !.probe = AsStopping(@, v)]
           applying == [s EXCEPT !.phase = "APPLYING", !.app = AsStopping(@, v)]
           preparing == [s EXCEPT !.phase = "DISCOVER_FAST", !.prepState = "PREPARE_STOPPING",
                                  !.prep = AsStopping(@, v), !.verify = -1]
           finalizing == [s EXCEPT !.phase = "FINALIZE_STOPPING",
                                   !.fin = AsStopping(@, v), !.verify = -1]
<1>1. \/ \E t \in {probing, applying, finalizing} : d = Schedule(t, "tick", fx)
      \/ s.prep.id = x /\ d = Schedule(preparing, "tick", fx)
  BY DEF StopUncertainMutator
<1>2. "discard" \notin fx
  OBVIOUS
<1>3. s.probe \in Action /\ s.app \in Action /\ s.prep \in Action /\ s.fin \in Action
  BY Fields
<1>4. /\ probing \in State /\ applying \in State /\ preparing \in State /\ finalizing \in State
  <2>1. /\ AsStopping(s.probe, v) \in Action /\ AsStopping(s.app, v) \in Action
        /\ AsStopping(s.prep, v) \in Action /\ AsStopping(s.fin, v) \in Action
    BY <1>3, AsStoppingType
  <2>2. probing \in State /\ applying \in State /\ finalizing \in State
    BY <2>1, Named, NoneTyped, Set_phase, Set_probe, Set_app, Set_fin, Set_verify
  <2>3. preparing \in State
    BY <2>1, Named, NoneTyped, Set_phase, Set_prepState, Set_prep, Set_verify DEF PrepStates
  <2> QED
    BY <2>2, <2>3
<1>5. Yields(s, probing)
  <2>1. probing.phase = "PROBING" /\ \A f \in Watched \ {"phase"} : probing[f] = s[f]
    BY WatchedFields DEF Watched
  <2> HIDE DEF probing
  <2> QED
    BY <2>1 DEF Yields, Watched, Loading, Used, Proving
<1>6. Yields(s, applying)
  <2>1. /\ applying.phase = "APPLYING" /\ applying.app = AsStopping(s.app, v)
        /\ \A f \in Watched \ {"phase", "app"} : applying[f] = s[f]
    BY WatchedFields DEF Watched
  <2> HIDE DEF applying
  <2> QED
    BY <1>3, <2>1, AsStoppingLive DEF Yields, Watched, Loading, Used, Proving
<1>7. s.prep.id = x => Yields(s, preparing)
  <2>1. /\ preparing.phase = "DISCOVER_FAST" /\ preparing.verify = -1
        /\ \A f \in Watched \ {"phase", "prep", "verify"} : preparing[f] = s[f]
    BY WatchedFields DEF Watched
  <2>2. s.prep.id = x => Held(s.prep)
    BY DEF Numbered, Kinds
  <2> HIDE DEF preparing
  <2> QED
    BY <2>1, <2>2 DEF Yields, Watched, Loading, Used, Proving
<1>8. Yields(s, finalizing)
  <2>1. /\ finalizing.phase = "FINALIZE_STOPPING" /\ finalizing.verify = -1
        /\ finalizing.fin = AsStopping(s.fin, v)
        /\ \A f \in Watched \ {"phase", "fin", "verify"} : finalizing[f] = s[f]
    BY WatchedFields DEF Watched
  <2> HIDE DEF finalizing
  <2> QED
    BY <1>3, <2>1, AsStoppingLive DEF Yields, Watched, Loading, Used, Proving
<1> HIDE DEF probing, applying, preparing, finalizing, fx
<1>9. PICK t \in State : Yields(s, t) /\ d = Schedule(t, "tick", fx)
  BY <1>1, <1>4, <1>5, <1>6, <1>7, <1>8
<1>10. Yields(s, d.st) /\ \A y : Handles(s, d, y)
  BY <1>2, <1>9, ScheduleYields, YieldsOn, YieldsHandles DEF Delays
<1>11. WorkerUncertain(s, x, v) \in {d, NoOp(s)}
  BY DEF WorkerUncertain
<1>12. Yields(s, NoOp(s).st) /\ \A y : Handles(s, NoOp(s), y)
  BY KeepsSelf, NoOpHandles DEF NoOp, Decision
<1> HIDE DEF d
<1> QED
  BY <1>10, <1>11, <1>12

\* The completion of an application that a stop came too late for: the load is over.
LEMMA ResumeApplicationHandles ==
    \A s \in State : Ids(s) /\ Counted(s) /\ s.app.lc = "STOPPING" =>
        \A y : Handles(s, ResumeCompletion(s, s.app.id), y)
<1> SUFFICES ASSUME NEW s \in State, Ids(s), Counted(s), s.app.lc = "STOPPING", NEW y
             PROVE Handles(s, ResumeCompletion(s, s.app.id), y)
  OBVIOUS
<1> DEFINE x == s.app.id
           b == [s.app EXCEPT !.lc = "DISPATCHED", !.after = None]
           t == [s EXCEPT !.phase = "APPLYING", !.app = b]
           r == DropApplication(t, "COMPLETED")
           u == [r EXCEPT !.verify = -1]
<1>1. s.probe.id # x
  BY LiveFirst DEF Busy, InFlight, Kinds
<1>2. b.lc = "DISPATCHED" /\ b.id = x /\ b \in Action
  <2>1. b.lc = "DISPATCHED" /\ b.id = x
    BY Fields, NewLc
  <2>2. b \in Action
    BY Fields, SetActionLc, SetActionAfter DEF Lifecycles, InFlight
  <2> QED
    BY <2>1, <2>2
<1>3. ResumeCompletion(s, x) = Finished(t, x, "SUCCEEDED", TRUE)
  BY <1>1 DEF ResumeCompletion
<1> HIDE DEF b
<1>4. t \in State
  BY <1>2, Named, Set_phase, Set_app
<1>5. /\ t.phase = "APPLYING" /\ t.app = b /\ t.probe = s.probe
      /\ \A f \in Watched \ {"phase", "app"} : t[f] = s[f]
  BY WatchedFields DEF Watched
<1> HIDE DEF t
<1>6. Finished(t, x, "SUCCEEDED", TRUE) = ApplicationFinished(t, x, "SUCCEEDED")
  BY <1>1, <1>2, <1>5 DEF Finished, Held
<1>7. ApplicationFinished(t, x, "SUCCEEDED") = Schedule(u, "now", {"observe"})
  BY <1>2, <1>5 DEF ApplicationFinished, EndedLifecycle
<1>8. r \in State /\ Yields(t, r) /\ r.app = NoAction
  BY <1>4, DropType, DropYields DEF Terminal
<1> HIDE DEF r
<1>9. u \in State /\ u.verify = -1 /\ \A f \in Watched \ {"verify"} : u[f] = r[f]
  BY <1>8, NoneTyped, Set_verify, WatchedFields DEF Watched
<1> HIDE DEF u
<1>10. Yields(r, u)
  BY <1>9 DEF Yields, Watched, Loading, Used, Proving
<1>11. Yields(t, u)
  BY <1>8, <1>10, YieldsOn
<1>12. ~Loading(u) /\ ~Proving(u)
  BY <1>8, <1>9 DEF Watched, Loading, Proving, NoAction
<1>13. Used(u) => Used(s)
  BY <1>5, <1>11 DEF Yields, Used, Proving, Watched
<1>14. u.phase # "RECOVERING"
  BY <1>5, <1>11 DEF Yields
<1>15. Yields(s, u)
  BY <1>5, <1>11, <1>12, <1>13, <1>14 DEF Yields, Watched
<1>16. Handles(s, Schedule(u, "now", {"observe"}), y)
  BY <1>9, <1>15, YieldsHandles DEF Delays
<1> QED
  BY <1>3, <1>6, <1>7, <1>16 DEF x

\* A completion that a stop came too late for is the result of its worker.
LEMMA ResumeHandles ==
    \A s \in State : \A k \in Kinds : Ids(s) /\ Counted(s) /\ s[k].lc = "STOPPING" =>
        Handles(s, ResumeCompletion(s, s[k].id), s[k].id)
<1> SUFFICES ASSUME NEW s \in State, NEW k \in Kinds, Ids(s), Counted(s), s[k].lc = "STOPPING", k # "app"
             PROVE Handles(s, ResumeCompletion(s, s[k].id), s[k].id)
  BY ResumeApplicationHandles
<1> DEFINE x == s[k].id
           b == [s[k] EXCEPT !.lc = "DISPATCHED", !.after = None]
           probing == [s EXCEPT !.phase = "PROBING", !.probe = [@ EXCEPT !.lc = "DISPATCHED", !.after = None]]
           preparing == [s EXCEPT !.prepState = "PREPARING", !.prep = [@ EXCEPT !.lc = "DISPATCHED", !.after = None]]
           finalizing == [s EXCEPT !.phase = "FINALIZING", !.fin = [@ EXCEPT !.lc = "DISPATCHED", !.after = None]]
<1>1. /\ s.probe.id = x <=> k = "probe"
      /\ s.app.id = x <=> k = "app"
      /\ s.prep.id = x <=> k = "prep"
      /\ s.fin.id = x <=> k = "fin"
  BY LiveFirst DEF Busy, InFlight
<1>2. Busy(s[k]) /\ s[k] \in Action /\ x \in Nat /\ x # 0
  BY KindsTyped DEF Busy, InFlight, Held, Ids, Numbered
<1>3. b.lc = "DISPATCHED" /\ b.id = x /\ b \in Action
  <2>1. b.lc = "DISPATCHED" /\ b.id = x
    BY <1>2, NewLc
  <2>2. \A a \in Action : [a EXCEPT !.lc = "DISPATCHED", !.after = None] \in Action
    BY SetActionLc, SetActionAfter DEF Lifecycles, InFlight
  <2> QED
    BY <1>2, <2>1, <2>2
<1>4. \E t \in State : /\ ResumeCompletion(s, x) = Finished(t, x, "SUCCEEDED", TRUE)
                       /\ Replaces(s, t, k, b) /\ Yields(s, t)
                       /\ \E w \in State :
                             Finished(t, x, "SUCCEEDED", TRUE) = Schedule(w, "now", {"observe"})
  <2>1. CASE k = "probe"
    <3>1. ResumeCompletion(s, x) = Finished(probing, x, "SUCCEEDED", TRUE)
      BY <1>1, <2>1 DEF ResumeCompletion
    <3>2. probing \in State /\ Replaces(s, probing, k, b)
      BY <1>3, <2>1, Shape, Set_phase, Set_probe, Named DEF Replaces, Kinds
    <3>3. probing.phase = "PROBING" /\ \A f \in Watched \ {"phase"} : probing[f] = s[f]
      BY WatchedFields DEF Watched
    <3> HIDE DEF probing
    <3>4. Yields(s, probing)
      BY <3>3 DEF Yields, Watched, Loading, Used, Proving
    <3>5. probing.probe = b
      BY <2>1, Shape DEF probing
    <3>6. Finished(probing, x, "SUCCEEDED", TRUE)
            = Schedule(DropProbe(probing, "COMPLETED"), "now", {"observe"})
      BY <1>3, <3>3, <3>5 DEF Finished, ProbeFinished, EndedLifecycle, Held
    <3>7. DropProbe(probing, "COMPLETED") \in State
      BY <3>2, DropType DEF Terminal
    <3> QED
      BY <3>1, <3>2, <3>4, <3>6, <3>7
  <2>2. CASE k = "prep"
    <3>1. ResumeCompletion(s, x) = Finished(preparing, x, "SUCCEEDED", TRUE)
      BY <1>1, <2>2 DEF ResumeCompletion
    <3>2. preparing \in State /\ Replaces(s, preparing, k, b)
      BY <1>3, <2>2, Shape, Set_prepState, Set_prep DEF Replaces, Kinds, PrepStates
    <3>3. \A f \in Watched \ {"prep"} : preparing[f] = s[f]
      BY WatchedFields DEF Watched
    <3> HIDE DEF preparing
    <3>4. Yields(s, preparing)
      BY <2>2, <3>3 DEF Yields, Watched, Loading, Used, Proving, Held
    <3>5. preparing.prep = b /\ preparing.prepState = "PREPARING" /\ preparing.probe = s.probe /\ preparing.app = s.app
      BY <2>2, Shape DEF preparing
    <3> DEFINE w == [preparing EXCEPT !.prep.lc = "RESULT_PENDING", !.prep.after = None]
    <3>6. Finished(preparing, x, "SUCCEEDED", TRUE) = Schedule(w, "now", {"observe"})
      BY <1>1, <1>3, <2>2, <3>5 DEF Finished, PreparationFinished, Held
    <3>7. w \in State
      BY <3>2, ResultPendingType
    <3> HIDE DEF w
    <3> QED
      BY <3>1, <3>2, <3>4, <3>6, <3>7
  <2>3. CASE k = "fin"
    <3>1. ResumeCompletion(s, x) = Finished(finalizing, x, "SUCCEEDED", TRUE)
      BY <1>1, <2>3 DEF ResumeCompletion
    <3>2. finalizing \in State /\ Replaces(s, finalizing, k, b)
      BY <1>3, <2>3, Shape, Set_phase, Set_fin, Named DEF Replaces, Kinds
    <3>3. finalizing.phase = "FINALIZING" /\ \A f \in Watched \ {"phase", "fin"} : finalizing[f] = s[f]
      BY WatchedFields DEF Watched
    <3>4. finalizing.fin = b /\ finalizing.probe = s.probe /\ finalizing.app = s.app /\ finalizing.prep = s.prep
      BY <2>3, Shape
    <3> HIDE DEF finalizing
    <3>5. Yields(s, finalizing)
      BY <1>3, <3>3, <3>4 DEF Yields, Watched, Loading, Used, Proving
    <3> DEFINE w == [finalizing EXCEPT !.fin.lc = "RESULT_PENDING", !.fin.after = None, !.phase = "FINALIZING"]
    <3>6. Finished(finalizing, x, "SUCCEEDED", TRUE) = Schedule(w, "now", {"observe"})
      BY <1>1, <1>3, <2>3, <3>3, <3>4 DEF Finished, FinalizationFinished, Held
    <3>7. w \in State
      BY <3>2, ResultPendingType
    <3> HIDE DEF w
    <3> QED
      BY <3>1, <3>2, <3>5, <3>6, <3>7
  <2> QED
    BY <2>1, <2>2, <2>3 DEF Kinds
<1> HIDE DEF b
<1>5. PICK t \in State : /\ ResumeCompletion(s, x) = Finished(t, x, "SUCCEEDED", TRUE)
                         /\ Replaces(s, t, k, b) /\ Yields(s, t)
                         /\ \E w \in State :
                               Finished(t, x, "SUCCEEDED", TRUE) = Schedule(w, "now", {"observe"})
  BY <1>4
<1>6. Ids(t)
  <2>1. Busy(b)
    BY <1>3 DEF Busy, InFlight
  <2> QED
    BY <1>2, <1>3, <1>5, <2>1, ReplacesIds
<1>7. Counted(t)
  BY <1>5, YieldsContinues DEF Continues, Proceeds, Plans
<1> DEFINE d == Finished(t, x, "SUCCEEDED", TRUE)
<1>8. Handles(t, d, x) /\ d \in Decisions
  BY <1>2, <1>6, <1>7, FinishedHandles, FinishedType DEF Ids, Outcomes
<1> HIDE DEF d
<1>9. Continues(s, d.st, x)
  BY <1>5, <1>8, DecisionParts, ContinuesOn DEF Handles
<1>10. d.st.timer = "now" /\ d.fx = {"observe"}
  <2>1. PICK w \in State : d = Schedule(w, "now", {"observe"})
    BY <1>5 DEF d
  <2>2. "now" \in Delays
    BY DEF Delays
  <2> QED
    BY <2>1, <2>2, ScheduleYields
<1> QED
  BY <1>5, <1>8, <1>9, <1>10 DEF Handles, Wakes, d

\* A failure that is acknowledged.
LEMMA FailureHandles ==
    \A s \in State : \A k \in Kinds : \A lc \in Failed :
        Ids(s) /\ Counted(s) /\ s[k].lc = "STOPPING" =>
            \A y : Handles(s, AcknowledgeFailure(s, s[k].id, lc), y)
<1> SUFFICES ASSUME NEW s \in State, NEW k \in Kinds, NEW lc \in Failed,
                    Ids(s), Counted(s), s[k].lc = "STOPPING", NEW y
             PROVE Handles(s, AcknowledgeFailure(s, s[k].id, lc), y)
  OBVIOUS
<1> DEFINE x == s[k].id
           t == FailAction(s, x, lc)
           failed(a) == [a EXCEPT !.lc = lc, !.after = None]
           probe == [t EXCEPT !.probe = failed(@)]
           app == [t EXCEPT !.app = failed(@)]
           prep == [t EXCEPT !.prep = failed(@), !.phase = "DISCOVER_FAST"]
           fin == [t EXCEPT !.fin = failed(@)]
<1>1. x \in Nat /\ x # 0 /\ Numbered(s)
  BY KindsTyped DEF Held, Ids, Numbered
<1>2. t \in State /\ Yields(s, t)
  BY <1>1, FailActionType, FailYields
<1>3. s.prep.id = x => Held(t.prep)
  BY <1>1, FailKeeps DEF Numbered, Kinds
<1>4. \/ \E u \in {probe, app, fin} :
            AcknowledgeFailure(s, x, lc) \in {Schedule(u, "health", {}), Schedule(u, "now", {"observe"})}
      \/ /\ s.prep.id = x
         /\ AcknowledgeFailure(s, x, lc) \in {Schedule(prep, "health", {}), Schedule(prep, "now", {"observe"})}
  BY DEF AcknowledgeFailure
<1> HIDE DEF t
<1>5. \A a \in Action : failed(a) \in Action /\ failed(a).lc = lc
  <2>1. lc \in Lifecycles
    BY DEF Lifecycles, Terminal
  <2>2. \A a \in Action : failed(a) \in Action
    BY <2>1, SetActionLc, SetActionAfter
  <2>3. \A a \in Action : failed(a).lc = lc
    BY NewLc
  <2> QED
    BY <2>2, <2>3
<1>6. lc \notin {"ADMITTED", "DISPATCHED", "RESULT_PENDING"}
  BY DEF Failed
<1>7. t.probe \in Action /\ t.app \in Action /\ t.prep \in Action /\ t.fin \in Action
  BY <1>2, Fields
<1> HIDE DEF failed
<1>8. probe \in State /\ app \in State /\ prep \in State /\ fin \in State
  BY <1>2, <1>5, <1>7, Named, Set_phase, Set_probe, Set_app, Set_prep, Set_fin
<1>9. Yields(t, probe)
  <2>1. Alike(t, probe)
    BY <1>2, WatchedFields DEF Alike, Watched
  <2> QED
    BY <2>1, AlikeYields
<1>10. Yields(t, app)
  <2>1. app.app = failed(t.app) /\ \A f \in Watched \ {"app"} : app[f] = t[f]
    BY <1>2, WatchedFields DEF Watched
  <2> HIDE DEF app
  <2> QED
    BY <1>5, <1>6, <1>7, <2>1 DEF Yields, Watched, Loading, Used, Proving
<1>11. s.prep.id = x => Yields(t, prep)
  <2>1. prep.phase = "DISCOVER_FAST" /\ \A f \in Watched \ {"phase", "prep"} : prep[f] = t[f]
    BY <1>2, WatchedFields DEF Watched
  <2> HIDE DEF prep
  <2> QED
    BY <1>3, <2>1 DEF Yields, Watched, Loading, Used, Proving
<1>12. Yields(t, fin)
  <2>1. fin.fin = failed(t.fin) /\ \A f \in Watched \ {"fin"} : fin[f] = t[f]
    BY <1>2, WatchedFields DEF Watched
  <2> HIDE DEF fin
  <2> QED
    BY <1>5, <1>6, <1>7, <2>1 DEF Yields, Watched, Loading, Used, Proving
<1> HIDE DEF probe, app, prep, fin, x
<1>13. PICK u \in State : /\ Yields(t, u)
                          /\ AcknowledgeFailure(s, x, lc) \in {Schedule(u, "health", {}),
                                                               Schedule(u, "now", {"observe"})}
  BY <1>4, <1>8, <1>9, <1>10, <1>11, <1>12
<1>14. Yields(s, u)
  BY <1>2, <1>13, YieldsOn
<1>15. Handles(s, AcknowledgeFailure(s, x, lc), y)
  BY <1>13, <1>14, YieldsHandles DEF Delays
<1> QED
  BY <1>15 DEF x

\* A cancellation that is acknowledged: a preparation leaves its plan unused.
LEMMA CancelledHandles ==
    \A s \in State : \A k \in Kinds : Ids(s) /\ s[k].lc = "STOPPING" =>
        \A y : Handles(s, AcknowledgeCancelled(s, s[k].id), y)
<1> SUFFICES ASSUME NEW s \in State, NEW k \in Kinds, Ids(s), s[k].lc = "STOPPING", NEW y
             PROVE Handles(s, AcknowledgeCancelled(s, s[k].id), y)
  OBVIOUS
<1> DEFINE x == s[k].id
           p == DropPreparation(s, "CANCELLED")
           f0 == DropFinalization(s, "CANCELLED")
           prep == [p EXCEPT !.phase = "DISCOVER_FAST"]
           fin == [f0 EXCEPT !.verify = -1]
<1>1. /\ s.probe.id = x <=> k = "probe"
      /\ s.app.id = x <=> k = "app"
      /\ s.prep.id = x <=> k = "prep"
      /\ s.fin.id = x <=> k = "fin"
  BY LiveFirst DEF Busy, InFlight
<1>2. /\ DropProbe(s, "CANCELLED") \in State /\ Yields(s, DropProbe(s, "CANCELLED"))
      /\ DropApplication(s, "CANCELLED") \in State /\ Yields(s, DropApplication(s, "CANCELLED"))
      /\ p \in State /\ Yields(s, p) /\ p.prep = NoAction
      /\ f0 \in State /\ Yields(s, f0)
  BY DropType, DropYields, DropTouches DEF Terminal, Replaces
<1>3. /\ k = "prep" => \E fx : AcknowledgeCancelled(s, x) = Schedule(prep, "now", fx)
      /\ k # "prep" => \E t \in {DropProbe(s, "CANCELLED"), DropApplication(s, "CANCELLED"), fin} :
                          AcknowledgeCancelled(s, x) = Schedule(t, "now", {"observe"})
  BY <1>1 DEF AcknowledgeCancelled, Kinds
<1> HIDE DEF p, f0, x
<1>4. /\ prep \in State /\ prep.phase = "DISCOVER_FAST"
      /\ \A f \in Watched \ {"phase"} : prep[f] = p[f]
  BY <1>2, Named, Set_phase, WatchedFields DEF Watched
<1>5. fin \in State /\ fin.verify = -1 /\ \A f \in Watched \ {"verify"} : fin[f] = f0[f]
  BY <1>2, NoneTyped, Set_verify, WatchedFields DEF Watched
<1> HIDE DEF prep, fin
<1>6. Yields(p, prep)
  BY <1>4 DEF Yields, Watched, Loading, Used, Proving
<1>7. Yields(f0, fin)
  BY <1>5 DEF Yields, Watched, Loading, Used, Proving
<1>8. Yields(s, prep) /\ Yields(s, fin)
  BY <1>2, <1>6, <1>7, YieldsOn
<1>9. CASE k # "prep"
  <2>1. Handles(s, AcknowledgeCancelled(s, x), y)
    BY <1>2, <1>3, <1>5, <1>8, <1>9, YieldsHandles DEF Delays
  <2> QED
    BY <2>1 DEF x
<1>10. CASE k = "prep"
  <2>1. PICK fx : AcknowledgeCancelled(s, x) = Schedule(prep, "now", fx)
    BY <1>3, <1>10
  <2> DEFINE d == Schedule(prep, "now", fx)
  <2>2. d.st \in State /\ Alike(prep, d.st) /\ Yields(prep, d.st) /\ d.st.timer = "now"
    BY <1>4, ScheduleYields DEF Delays
  <2> HIDE DEF d
  <2>3. ~Used(d.st)
    BY <1>2, <1>4, <2>2, NoActionStage DEF Alike, Watched, Used, Proving
  <2>4. Continues(s, d.st, y)
    BY <1>8, <2>2, YieldsOn, YieldsContinues
  <2>5. Handles(s, AcknowledgeCancelled(s, x), y)
    BY <2>1, <2>2, <2>3, <2>4 DEF Handles, Wakes, d
  <2> QED
    BY <2>5 DEF x
<1> QED
  BY <1>9, <1>10

\* The result of the worker x, if it succeeded.
Success(x, lc) == IF lc = "COMPLETED" THEN x ELSE Nobody

\* The end of a stop.
LEMMA AcknowledgedHandles ==
    \A s \in State : \A x, lc : Ids(s) /\ Counted(s) =>
        Handles(s, WorkerCancellationAcknowledged(s, x, lc), Success(x, lc))
<1> SUFFICES ASSUME NEW s \in State, NEW x, NEW lc, Ids(s), Counted(s)
             PROVE Handles(s, WorkerCancellationAcknowledged(s, x, lc), Success(x, lc))
  OBVIOUS
<1>1. CASE \E a \in Mutators(s) : a.id = x /\ a.lc = "STOPPING"
  <2>1. PICK k \in Kinds : s[k].id = x /\ s[k].lc = "STOPPING"
    BY <1>1 DEF Mutators, Kinds
  <2>2. WorkerCancellationAcknowledged(s, x, lc) =
          IF lc = "COMPLETED" THEN ResumeCompletion(s, x)
          ELSE IF lc \in Failed THEN AcknowledgeFailure(s, x, lc)
          ELSE AcknowledgeCancelled(s, x)
    BY <1>1 DEF WorkerCancellationAcknowledged
  <2>3. Handles(s, ResumeCompletion(s, x), x)
    BY <2>1, ResumeHandles
  <2>4. lc \in Failed => Handles(s, AcknowledgeFailure(s, x, lc), Nobody)
    BY <2>1, FailureHandles
  <2>5. Handles(s, AcknowledgeCancelled(s, x), Nobody)
    BY <2>1, CancelledHandles
  <2> QED
    BY <2>2, <2>3, <2>4, <2>5 DEF Success
<1>2. CASE ~\E a \in Mutators(s) : a.id = x /\ a.lc = "STOPPING"
  BY <1>2, NoOpHandles DEF WorkerCancellationAcknowledged
<1> QED
  BY <1>1, <1>2

-----------------------------------------------------------------------------
(* Start and recovery. *)

\* A starting controller runs no proof, begins nothing and looks at the desktop.
LEMMA StartedYields ==
    \A s \in State :
        LET d == ControllerStarted(s)
        IN Yields(s, d.st) /\ ~Proving(d.st) /\ d.st.timer # "none" /\ "discard" \notin d.fx
<1> SUFFICES ASSUME NEW s \in State
             PROVE LET d == ControllerStarted(s)
                   IN /\ Yields(s, d.st) /\ ~Proving(d.st)
                      /\ d.st.timer # "none" /\ "discard" \notin d.fx
  OBVIOUS
<1> DEFINE p == DropPreparation(s, "CANCELLED")
           r == DiscardPlanning(p)
           u == [r EXCEPT !.phase = "DISCOVER_FAST", !.verify = -1]
           v == [s EXCEPT !.phase = "DISCOVER_FAST", !.fin = NoAction, !.verify = -1]
           c == IF s.phase = "VERIFYING" THEN ClearProof(s) ELSE s
<1>1. \E t \in {u, v, c} : \E delay \in {"tick", "now"} : \E fx \in {{}, {"observe"}} :
        ControllerStarted(s) = Schedule(t, delay, fx)
  BY DEF ControllerStarted
<1>2. p \in State /\ Yields(s, p)
  BY DropType, DropYields DEF Terminal
<1> HIDE DEF p
<1>3. r \in State /\ Yields(s, r)
  BY <1>2, DiscardPlanningType, DiscardYields, YieldsOn
<1> HIDE DEF r
<1>4. u \in State /\ Yields(s, u) /\ ~Proving(u)
  <2>1. u \in State
    BY <1>3, Named, NoneTyped, Set_phase, Set_verify
  <2>2. u.phase = "DISCOVER_FAST" /\ u.verify = -1 /\ \A f \in Watched \ {"phase", "verify"} : u[f] = r[f]
    BY <1>3, WatchedFields DEF Watched
  <2> HIDE DEF u
  <2>3. Yields(r, u) /\ ~Proving(u)
    BY <2>2 DEF Yields, Watched, Loading, Used, Proving
  <2> QED
    BY <1>3, <2>1, <2>3, YieldsOn
<1>5. v \in State /\ Yields(s, v) /\ ~Proving(v)
  <2>1. v \in State
    BY Named, NoneTyped, Set_phase, Set_fin, Set_verify
  <2>2. /\ v.phase = "DISCOVER_FAST" /\ v.verify = -1 /\ v.fin = NoAction
        /\ \A f \in Watched \ {"phase", "verify", "fin"} : v[f] = s[f]
    BY WatchedFields DEF Watched
  <2> HIDE DEF v
  <2>3. Yields(s, v) /\ ~Proving(v)
    BY <2>2 DEF Yields, Watched, Loading, Used, Proving, NoAction
  <2> QED
    BY <2>1, <2>3
<1>6. c \in State /\ Yields(s, c) /\ ~Proving(c)
  BY ClearProofType, ClearYields, KeepsSelf DEF Proving
<1> HIDE DEF u, v, c
<1>7. PICK t \in State, delay \in {"tick", "now"}, fx \in {{}, {"observe"}} :
        Yields(s, t) /\ ~Proving(t) /\ ControllerStarted(s) = Schedule(t, delay, fx)
  BY <1>1, <1>4, <1>5, <1>6
<1> DEFINE d == Schedule(t, delay, fx)
<1>8. d.st \in State /\ Alike(t, d.st) /\ Yields(t, d.st) /\ d.st.timer = delay /\ d.fx = fx
  BY ScheduleYields DEF Delays
<1> HIDE DEF d
<1>9. ~Proving(d.st)
  BY <1>7, <1>8 DEF Alike, Watched, Proving
<1>10. Yields(s, d.st) /\ d.st.timer # "none" /\ "discard" \notin d.fx
  BY <1>7, <1>8, YieldsOn
<1> QED
  BY <1>7, <1>9, <1>10 DEF d

\* Another boot or session keeps the sequence and must finalize the desktop again.
LEMMA FreshContinues ==
    \A s \in State :
        /\ Continues(s, BootChanged(s).st, Nobody)
        /\ BootChanged(s).st.timer = "now" /\ BootChanged(s).fx = {"observe"}
        /\ Continues(s, NewSessionState(s), Nobody)
<1> SUFFICES ASSUME NEW s \in State
             PROVE /\ Continues(s, BootChanged(s).st, Nobody)
                   /\ BootChanged(s).st.timer = "now" /\ BootChanged(s).fx = {"observe"}
                   /\ Continues(s, NewSessionState(s), Nobody)
  OBVIOUS
<1> DEFINE fresh(t) ==
             /\ t.phase = "RECOVERING" /\ t.required = TRUE /\ t.baseline = FALSE
             /\ t.finalized = None /\ t.seq = s.seq /\ t.verify = -1
             /\ t.app = NoAction /\ t.prep = NoAction /\ t.fin = NoAction
             /\ t.planning = NoAction /\ t.planState = "PLAN_IDLE"
<1>1. NoAction.lc = "ABSENT" /\ NoAction.id = 0
  BY DEF NoAction
<1>2. \A t : fresh(t) => Continues(s, t, Nobody)
  <2> SUFFICES ASSUME NEW t, fresh(t) PROVE Continues(s, t, Nobody)
    OBVIOUS
  <2>1. Confirmed(s, t)
    BY DEF Confirmed, FirstStart
  <2>2. Succeeded(s, t, Nobody) /\ Loads(s, t)
    BY <1>1 DEF Succeeded, Loads, Loading
  <2>3. Plans(s, t) /\ s.seq <= t.seq
    BY <1>1, Fields DEF Plans, Counted, Used, Proving, Held
  <2> QED
    BY <2>1, <2>2, <2>3 DEF Continues, Proceeds
<1>3. fresh(BootChanged(s).st) /\ BootChanged(s).st.timer = "now"
  BY DEF BootChanged, Decision, InitialState
<1>4. fresh(NewSessionState(s))
  BY DEF NewSessionState, InitialState
<1>5. BootChanged(s).fx = {"observe"}
  BY DEF BootChanged, Decision
<1> HIDE DEF fresh
<1> QED
  BY <1>2, <1>3, <1>4, <1>5

\* A replayed end is the result of its worker.
LEMMA ReplayContinues ==
    \A s \in State : \A u \in Units : Ids(s) /\ Counted(s) /\ u.outcome # None /\ u.id # 0 =>
        ReplayEnd(s, u) \in State /\ Continues(s, ReplayEnd(s, u), Success(u.id, u.outcome))
<1> SUFFICES ASSUME NEW s \in State, NEW u \in Units, Ids(s), Counted(s), u.outcome # None, u.id # 0
             PROVE ReplayEnd(s, u) \in State /\ Continues(s, ReplayEnd(s, u), Success(u.id, u.outcome))
  OBVIOUS
<1> DEFINE x == u.id
           t == WorkerUncertain(s, x, "UNKNOWN").st
           stopping == ActionForId(s, x).lc = "STOPPING"
<1>1. x \in Nat /\ x # 0 /\ u.outcome \in Terminal /\ Numbered(s)
  BY DEF Units, Ids
<1> HIDE DEF x
<1>2. t \in State /\ Ids(t) /\ Yields(s, t)
  BY <1>1, WorkerUncertainType, DecisionParts, UncertainEvolves, UncertainHandles
<1>3. \A r \in State : Ids(r) /\ Counted(r) =>
        LET d == WorkerCancellationAcknowledged(r, x, u.outcome)
        IN d.st \in State /\ Continues(r, d.st, Success(x, u.outcome))
  BY <1>1, AcknowledgedHandles, CancellationAcknowledgedType, DecisionParts DEF Handles
<1>4. CASE stopping
  BY <1>3, <1>4 DEF ReplayEnd, x
<1>5. CASE ~stopping /\ u.outcome \in {"UNKNOWN", "TIMED_OUT"}
  <2>1. ReplayEnd(s, u) = WorkerCancellationAcknowledged(t, x, u.outcome).st
    BY <1>5 DEF ReplayEnd, x
  <2>2. Counted(t)
    BY <1>2, YieldsContinues DEF Continues, Proceeds, Plans
  <2> HIDE DEF t
  <2> QED
    BY <1>2, <1>3, <2>1, <2>2, ContinuesOn DEF x
<1>6. CASE ~stopping /\ u.outcome \notin {"UNKNOWN", "TIMED_OUT"}
  <2> DEFINE o == EventOutcome(u.outcome)
             d == Finished(s, x, o, TRUE)
  <2>1. ReplayEnd(s, u) = d.st
    BY <1>6 DEF ReplayEnd, x
  <2>2. o \in Outcomes /\ (o = "SUCCEEDED" <=> u.outcome = "COMPLETED")
    BY <1>1, <1>6, EventOutcomeType DEF EventOutcome, Terminal, Failed
  <2> HIDE DEF o
  <2>3. d \in Decisions /\ Handles(s, d, Success(x, u.outcome))
    BY <1>1, <2>2, FinishedType, FinishedHandles DEF Success
  <2> HIDE DEF d
  <2> QED
    BY <2>1, <2>3, DecisionParts DEF Handles, x
<1> QED
  BY <1>4, <1>5, <1>6

\* What recovery makes of a saved state is the result of a worker it finds.
LEMMA ReconciledContinues ==
    \A s \in State : \A us \in SUBSET Units :
        Ids(s) /\ Counted(s) /\ (\A u \in us : u.id # 0) =>
            \/ Reconciled(s, us) = s
            \/ \E u \in us : Continues(s, Reconciled(s, us), Success(u.id, u.outcome))
<1> SUFFICES ASSUME NEW s \in State, NEW us \in SUBSET Units, Ids(s), Counted(s),
                    \A u \in us : u.id # 0, Missed(s, us) # {}
             PROVE \E u \in us : Continues(s, Reconciled(s, us), Success(u.id, u.outcome))
  BY DEF Reconciled
<1>1. PICK u \in Missed(s, us) : Reconciled(s, us) = ApplyVerifiedResult(s, u)
  BY DEF Reconciled
<1>2. u \in us /\ u \in Units /\ u.outcome # None /\ u.id # 0 /\ u.id \in Nat
  BY DEF Missed, Results, Units
<1> DEFINE d == Dispatched(s, u.id).st
           t == IF ActionForId(s, u.id).lc = "ADMITTED" THEN d ELSE s
<1>3. d \in State /\ Ids(d) /\ Yields(s, d)
  BY <1>2, DispatchedType, DecisionParts, DispatchedEvolves, DispatchedYields
<1>4. t \in State /\ Ids(t) /\ Yields(s, t)
  BY <1>3, KeepsSelf
<1>5. Reconciled(s, us) = ReplayEnd(t, u)
  BY <1>1 DEF ApplyVerifiedResult
<1> HIDE DEF t
<1>6. Counted(t)
  BY <1>4, YieldsContinues DEF Continues, Proceeds, Plans
<1>7. ReplayEnd(t, u) \in State /\ Continues(t, ReplayEnd(t, u), Success(u.id, u.outcome))
  BY <1>2, <1>4, <1>6, ReplayContinues
<1> QED
  BY <1>2, <1>4, <1>5, <1>7, ContinuesOn

\* A plan that is asked for is the one that is pending.
LEMMA PlanRequestedContinues ==
    \A s \in State : \A x :
        LET t == PlanRequested(s, x).st
        IN /\ PlanRequested(s, x).fx = {}
           /\ Counted(s) /\ (s.planState = "PLAN_PENDING" => Held(s.planning)) => Counted(t)
           /\ t.planning.id = s.planning.id /\ t.timer = s.timer /\ t.stable = s.stable
           /\ \A f \in Watched \ {"planState", "planning"} : t[f] = s[f]
<1> SUFFICES ASSUME NEW s \in State, NEW x
             PROVE LET t == PlanRequested(s, x).st
                   IN /\ PlanRequested(s, x).fx = {}
                      /\ Counted(s) /\ (s.planState = "PLAN_PENDING" => Held(s.planning)) => Counted(t)
                      /\ t.planning.id = s.planning.id /\ t.timer = s.timer /\ t.stable = s.stable
                      /\ \A f \in Watched \ {"planState", "planning"} : t[f] = s[f]
  OBVIOUS
<1>1. CASE PlanRequested(s, x) = NoOp(s)
  BY <1>1 DEF NoOp, Decision
<1>2. CASE PlanRequested(s, x) # NoOp(s)
  <2> DEFINE t == [s EXCEPT !.planState = "PLANNING", !.planning.lc = "DISPATCHED"]
  <2>1. PlanRequested(s, x) = Decision(t, {})
    BY <1>2 DEF PlanRequested
  <2>2. s.planState = "PLAN_PENDING"
    BY <1>2 DEF PlanRequested
  <2>3. /\ t.planning = [s.planning EXCEPT !.lc = "DISPATCHED"]
        /\ t.timer = s.timer /\ t.stable = s.stable
        /\ \A f \in Watched \ {"planState", "planning"} : t[f] = s[f]
    BY WatchedFields DEF Watched
  <2> HIDE DEF t
  <2>4. PlanRequested(s, x).st = t /\ PlanRequested(s, x).fx = {}
    BY <2>1 DEF Decision
  <2>5. t.planning.id = s.planning.id /\ t.planning.lc = "DISPATCHED"
    BY <2>3, Fields, NewLc
  <2>6. Counted(s) /\ (s.planState = "PLAN_PENDING" => Held(s.planning)) => Counted(t)
    BY <2>2, <2>5 DEF Counted, Held
  <2> QED
    BY <2>3, <2>4, <2>5, <2>6
<1> QED
  BY <1>1, <1>2

-----------------------------------------------------------------------------
(* One sample admits an application or a plan, not both, and prepares the      *)
(* desktop only outside the phases of an application.                          *)

Applies == {"APPLY_PENDING", "APPLYING", "APPLY_FAILED"}

Picks(s, t) ==
    /\ t.app.id \in {0, s.app.id} \/ t.planning.id \in {0, s.planning.id}
    /\ t.phase \in Applies => t.prep.id \in {0, s.prep.id}

\* A transition that admits nothing, alone or before one that may.
LEMMA EvolvesPicks ==
    \A s, t, x : Evolves(s, t, x) =>
        /\ Picks(s, t)
        /\ \A u : t.planning.id \in {0, s.planning.id} /\ Picks(t, u) => Picks(s, u)
<1> SUFFICES ASSUME NEW s, NEW t, NEW x, Evolves(s, t, x)
             PROVE /\ Picks(s, t)
                   /\ \A u : t.planning.id \in {0, s.planning.id} /\ Picks(t, u) => Picks(s, u)
  OBVIOUS
<1>1. t.app.id \in {0, s.app.id} /\ t.prep.id \in {0, s.prep.id}
  BY DEF Evolves, Descends, Kinds
<1> QED
  BY <1>1 DEF Picks

\* One that touches no mutator.
LEMMA UntouchedPicks == \A s, t : Untouched(s, t) => Picks(s, t)
  BY UntouchedEvolves, EvolvesPicks

\* One that keeps or drops the application, outside of its phases or with the
\* preparation.
LEMMA InheritsPicks ==
    \A s, t, new : Inherits(s, t, new) /\ "app" \notin new
                   /\ ("prep" \notin new \/ t.phase \notin Applies) => Picks(s, t)
  BY NoActionStage DEF Inherits, Picks, Kinds

\* A proof leaves the phases of an application alone.
LEMMA VerificationPhase ==
    \A s \in State : \A o \in Observations : s.phase \notin Applies =>
        /\ \A fx : CompleteVerification(s, o, fx).st.phase \notin Applies
        /\ \A fx : AdvanceVerification(s, o, fx).st.phase \notin Applies
        /\ \A p \in Profiles : PlanVerification(s, o, p).st.phase \notin Applies
<1>0. /\ \A s \in State : Quiesce(s).st.phase = "QUIESCENT"
      /\ \A s \in State : \A delay, fx : Schedule(s, delay, fx).st.phase = s.phase
  BY Shape DEF Quiesce, Schedule, Decision
<1>1. \A s \in State : \A o \in Observations : \A fx :
        s.phase \notin Applies => CompleteVerification(s, o, fx).st.phase \notin Applies
  <2> SUFFICES ASSUME NEW s \in State, NEW o \in Observations, NEW fx, s.phase \notin Applies
               PROVE CompleteVerification(s, o, fx).st.phase \notin Applies
    OBVIOUS
  <2> DEFINE profile == s.cand.profile
             settled == [ResetApplicationRecovery(DiscardPlanning(s), profile) EXCEPT
                           !.stable = profile, !.baseline = FALSE]
             adopted == [ResetApplicationRecovery(s, profile) EXCEPT
                           !.stable = profile, !.finalized = profile, !.baseline = FALSE]
             fin == [s EXCEPT !.phase = "FINALIZE_PENDING", !.seq = @ + 1,
                              !.fin = Allocated(s, o.gen, profile, o.key, s.prep.plan, None),
                              !.timer = "now"]
  <2>1. CompleteVerification(s, o, fx).st \in
          {Quiesce(settled).st, Quiesce(adopted).st, fin,
           Schedule(s, "health", fx).st, Schedule(s, "tick", fx).st}
    BY DEF CompleteVerification, Decision
  <2>2. fin.phase = "FINALIZE_PENDING"
    BY Shape
  <2>3. "phase" \in DOMAIN settled /\ "phase" \in DOMAIN adopted
    <3>1. DiscardPlanning(s) \in State
      BY DiscardPlanningType
    <3> QED
      BY <3>1, Shape DEF ResetApplicationRecovery
  <2> HIDE DEF settled, adopted, fin
  <2>4. Quiesce(settled).st.phase = "QUIESCENT" /\ Quiesce(adopted).st.phase = "QUIESCENT"
    BY <2>3 DEF Quiesce, Decision
  <2> QED
    BY <1>0, <2>1, <2>2, <2>4 DEF Applies
<1>2. \A s \in State : \A o \in Observations : \A fx :
        s.phase \notin Applies => AdvanceVerification(s, o, fx).st.phase \notin Applies
  <2> SUFFICES ASSUME NEW s \in State, NEW o \in Observations, NEW fx, s.phase \notin Applies
               PROVE AdvanceVerification(s, o, fx).st.phase \notin Applies
    OBVIOUS
  <2> DEFINE t == WithPreparation(s, o)
  <2>1. \/ AdvanceVerification(s, o, fx) = EnterWait(s)
        \/ \E r \in {s, t} : \E f : AdvanceVerification(s, o, fx) = CompleteVerification(r, o, f)
    BY DEF AdvanceVerification
  <2>2. t \in State /\ t.phase = s.phase
    BY WithPreparationType, Shape DEF WithPreparation
  <2> HIDE DEF t
  <2>3. EnterWait(s).st.phase \in {"DISCOVER_FAST", "WAIT_SLOW"}
    <3> DEFINE c == [ClearProof(s) EXCEPT !.aggr = IF @ = -1 THEN AggressiveBudget ELSE @,
                                          !.backoff = IF s.aggr = -1 THEN 0 ELSE @]
    <3>1. "phase" \in DOMAIN c
      BY Shape DEF ClearProof
    <3>2. \E b : EnterWait(s).st \in
            {[[c EXCEPT !.phase = "DISCOVER_FAST", !.backoff = b] EXCEPT !.timer = "fast"],
             [[c EXCEPT !.phase = "WAIT_SLOW", !.backoff = b] EXCEPT !.timer = "slow"]}
      BY DEF EnterWait, Schedule, Decision
    <3> HIDE DEF c
    <3> QED
      BY <3>1, <3>2
  <2> QED
    BY <1>1, <2>1, <2>2, <2>3 DEF Applies
<1>3. \A s \in State : \A o \in Observations : \A p \in Profiles :
        s.phase \notin Applies => PlanVerification(s, o, p).st.phase \notin Applies
  <2> SUFFICES ASSUME NEW s \in State, NEW o \in Observations, NEW p \in Profiles, s.phase \notin Applies
               PROVE PlanVerification(s, o, p).st.phase \notin Applies
    OBVIOUS
  <2> DEFINE t == AdmitPlan(s, o, p)
  <2>1. \E r \in {s, t} : \E f : PlanVerification(s, o, p) = AdvanceVerification(r, o, f)
    BY DEF PlanVerification
  <2>2. t \in State /\ t.phase = s.phase
    BY AdmitPlanType, Shape DEF AdmitPlan
  <2> HIDE DEF t
  <2> QED
    BY <1>2, <2>1, <2>2
<1> QED
  BY <1>1, <1>2, <1>3

\* An exact, current profile.
LEMMA ClassifyExactPicks ==
    \A s \in State : \A o \in Observations : \A p \in Profiles : Picks(s, ClassifyExact(s, o, p).st)
<1> SUFFICES ASSUME NEW s \in State, NEW o \in Observations, NEW p \in Profiles
             PROVE Picks(s, ClassifyExact(s, o, p).st)
  OBVIOUS
<1> DEFINE r == [s EXCEPT !.unknown = NoUnknown]
           t == RearmAchievedApplication(r, p)
           begins(q, v, c) == [q EXCEPT !.phase = "VERIFYING", !.verify = v, !.cand = c]
<1>1. r \in State
  BY NoneTyped, Set_unknown
<1>2. t \in State
  BY <1>1, RearmType
<1>3. ClassifyExact(s, o, p) \in {Quiesce(t), StartVerification(t, o, p)}
  BY DEF ClassifyExact
<1> HIDE DEF r, t
<1>4. Quiesce(t).st.phase \notin Applies
  BY <1>2, Shape DEF Quiesce, Decision, Applies
<1>5. PICK q \in {t, DiscardPlanning(t)} :
        \E v \in {q.verify, 0} : \E c \in {q.cand, Candidate(t, o.key, p)} :
            StartVerification(t, o, p) = PlanVerification(begins(q, v, c), o, p)
  BY DEF StartVerification
<1>6. PICK v \in {q.verify, 0}, c \in {q.cand, Candidate(t, o.key, p)} :
         StartVerification(t, o, p) = PlanVerification(begins(q, v, c), o, p)
  BY <1>5
<1>7. q \in State
  BY <1>2, <1>5, DiscardPlanningType
<1>8. v \in -1..ProfileStability /\ c \in Candidates
  BY <1>2, <1>6, <1>7, Fields, NoneTyped, CandidateType, ObservationType, BoundsAssumption
<1>9. begins(q, v, c) \in State
  BY <1>7, <1>8, Named, Set_phase, Set_verify, Set_cand
<1>10. begins(q, v, c).phase \notin Applies
  BY <1>7, Shape DEF Applies
<1>11. StartVerification(t, o, p).st.phase \notin Applies
  BY <1>6, <1>9, <1>10, VerificationPhase
<1> QED
  BY <1>3, <1>4, <1>11, ClassifyExactInherits, InheritsPicks

\* The admission of an application keeps the plan and the preparation.
LEMMA AdmitApplicationPicks ==
    \A s \in State : \A o \in Observations : \A p \in Profiles : Picks(s, AdmitApplication(s, o, p).st)
<1> SUFFICES ASSUME NEW s \in State, NEW o \in Observations, NEW p \in Profiles
             PROVE Picks(s, AdmitApplication(s, o, p).st)
  OBVIOUS
<1> DEFINE app == Allocated(s, o.gen, p, o.key, 0, None)
           t == [s EXCEPT !.cand = Candidate(s, o.key, p), !.baseline = FALSE]
           u == [t EXCEPT !.applied = @ \ {AttemptKey(app)}, !.phase = "APPLY_PENDING",
                          !.seq = @ + 1, !.app = app, !.timer = "now"]
<1>1. AdmitApplication(s, o, p).st = EnterWait(t).st \/ AdmitApplication(s, o, p).st = u
  BY DEF AdmitApplication, Decision
<1>2. t \in State
  BY CandidateType, ObservationType, Set_cand, Set_baseline
<1>3. Untouched(s, t) /\ u.planning = s.planning /\ u.prep = s.prep
  BY Shape DEF Untouched, Kinds, State
<1> HIDE DEF t, u
<1>4. Untouched(s, EnterWait(t).st)
  BY <1>2, <1>3, WaitTouches DEF Untouched
<1> QED
  BY <1>1, <1>3, <1>4, UntouchedEvolves, EvolvesPicks DEF Picks

\* The classification of a sample.
LEMMA ClassifyTargetPicks ==
    \A s \in State : \A o \in Observations : Picks(s, ClassifyTarget(s, o).st)
<1> SUFFICES ASSUME NEW s \in State, NEW o \in Observations PROVE Picks(s, ClassifyTarget(s, o).st)
  OBVIOUS
<1> DEFINE t == [s EXCEPT !.unknown = NoUnknown]
<1>1. UniqueTarget(o.key) \in Profiles \cup {None}
  BY UniqueTargetType, ObservationType
<1>2. t \in State /\ Untouched(s, t)
  BY NoneTyped, Set_unknown, ClassifyTouches DEF Framed
<1>2a. t.planning = s.planning
  BY WatchedFields DEF Watched
<1> HIDE DEF t
<1>3. \/ ClassifyTarget(s, o) \in {DeferWhileAsleep(t), AdmitProbe(t, o),
                                   ClassifyUnknown(s, o), EnterWait(s)}
      \/ \E p \in Profiles : ClassifyTarget(s, o) \in {ClassifyExact(s, o, p), AdmitApplication(t, o, p)}
  BY <1>1 DEF ClassifyTarget, t
<1>4. \A u : Picks(t, u) => Picks(s, u)
  BY <1>2, <1>2a, UntouchedEvolves, EvolvesPicks
<1>5. Picks(t, AdmitProbe(t, o).st)
  BY <1>2, AdmitProbeInherits, InheritsPicks
<1>6. \A p \in Profiles : Picks(t, AdmitApplication(t, o, p).st)
  BY <1>2, AdmitApplicationPicks
<1>7. \A p \in Profiles : Picks(s, ClassifyExact(s, o, p).st)
  BY ClassifyExactPicks
<1>8. /\ Picks(t, DeferWhileAsleep(t).st) /\ Picks(s, ClassifyUnknown(s, o).st)
      /\ Picks(s, EnterWait(s).st)
  BY <1>2, WaitTouches, ClassifyTouches, UntouchedPicks
<1> QED
  BY <1>3, <1>4, <1>5, <1>6, <1>7, <1>8

\* _classify_observation without a pending admission.
LEMMA ClassifyPicks ==
    \A s \in State : \A o \in Observations : Still(s) => Picks(s, Classify(s, o).st)
<1> SUFFICES ASSUME NEW s \in State, NEW o \in Observations, Still(s) PROVE Picks(s, Classify(s, o).st)
  OBVIOUS
<1>1. PICK t \in {RetainExternalIntent(s), HandleUnplug(s, o).st} :
        Classify(s, o) \in {AwaitUnplug(t), Schedule(t, "health", {}), ClassifyTarget(DropFailure(t), o)}
  BY DEF Classify
<1>2. t \in State /\ Untouched(s, t)
  <2>1. RetainExternalIntent(s) \in State /\ Untouched(s, RetainExternalIntent(s))
    BY RetainIntentType, ClassifyTouches DEF Framed
  <2>2. HandleUnplug(s, o).st \in State /\ Untouched(s, HandleUnplug(s, o).st)
    BY HandleUnplugType, ClassifyTouches DEF Framed
  <2> QED
    BY <1>1, <2>1, <2>2
<1>3. t.planning = s.planning
  BY <1>1, WatchedFields DEF Watched, RetainExternalIntent, HandleUnplug
<1>4. \A u : Picks(t, u) => Picks(s, u)
  BY <1>2, <1>3, UntouchedEvolves, EvolvesPicks
<1> DEFINE r == DropFailure(t)
<1>5. r \in State
  BY <1>2, DropFailureType
<1>5a. r.planning = t.planning
  BY <1>2, WatchedFields DEF Watched, DropFailure
<1>6. Inherits(t, r, {}) /\ r.seq = t.seq
  BY <1>2, FailureDropped, Shape DEF DropFailure
<1> HIDE DEF r
<1>7. Picks(r, ClassifyTarget(r, o).st)
  BY <1>5, ClassifyTargetPicks
<1>8. r.app.id \in {0, t.app.id} /\ r.prep.id \in {0, t.prep.id}
  BY <1>6, NoActionStage DEF Inherits, Kinds
<1>9. Picks(t, ClassifyTarget(r, o).st)
  BY <1>5a, <1>7, <1>8 DEF Picks
<1>10. Picks(t, AwaitUnplug(t).st)
  BY <1>2, FailureDropped, InheritsPicks
<1>11. Picks(t, Schedule(t, "health", {}).st)
  BY <1>2, ScheduleTouches, UntouchedEvolves, EvolvesPicks DEF Framed
<1> QED
  BY <1>1, <1>4, <1>9, <1>10, <1>11 DEF r

\* A new epoch keeps no plan.
LEMMA ResetPlanless == \A s \in State : \A o : ResetForEpoch(s, o).planning.id = 0
<1> SUFFICES ASSUME NEW s \in State, NEW o PROVE ResetForEpoch(s, o).planning.id = 0
  OBVIOUS
<1> DEFINE d == DiscardPlanning(s)
<1>1. d \in State
  BY DiscardPlanningType
<1>1a. d.planning = NoAction
  BY WatchedFields DEF Watched, DiscardPlanning, AppendTombstone
<1>2. \A tombs, epoch, token, cand, aggr, baseline :
        [d EXCEPT !.tombs = tombs, !.phase = "DISCOVER_FAST", !.epoch = epoch,
                  !.token = token, !.cand = cand, !.aggr = aggr, !.backoff = 0, !.verify = -1,
                  !.stable = None, !.probed = {}, !.applied = {}, !.retried = {},
                  !.probe = NoAction, !.app = NoAction, !.fin = NoAction,
                  !.unknown = NoUnknown, !.unplug = NoUnplug, !.baseline = baseline].planning = d.planning
  BY <1>1 DEF State
<1>3. ResetForEpoch(s, o).planning = d.planning
  BY <1>2 DEF ResetForEpoch
<1> HIDE DEF d
<1> QED
  BY <1>1a, <1>3, NoActionStage

\* _classify_observation.
LEMMA ClassifyObservationPicks ==
    \A s : \A o \in Observations : Settled(s) => Picks(s, ClassifyObservation(s, o).st)
<1> SUFFICES ASSUME NEW s, NEW o \in Observations, Settled(s)
             PROVE Picks(s, ClassifyObservation(s, o).st)
  OBVIOUS
<1> DEFINE kind == PendingAdmission(s)
           t == CancelAdmission(s)
           u == SameEpoch(t, o)
<1>1. s \in State
  BY DEF Settled, Sound
<1>2. kind \in Kinds \cup {"none"}
  BY DEF PendingAdmission, Kinds
<1>3. CASE StillAuthorized(s, o)
  <2>1. kind \in Kinds
    BY <1>2, <1>3 DEF StillAuthorized
  <2>2. ClassifyObservation(s, o).st = [[s EXCEPT ![kind].gen = o.gen] EXCEPT !.timer = "now"]
    BY <1>3 DEF ClassifyObservation, Offered, Decision
  <2> HIDE DEF kind
  <2>3. ClassifyObservation(s, o).st.planning = s.planning
    BY <1>1, <2>1, <2>2 DEF Kinds, State
  <2>4. \A k \in Kinds : [s[k] EXCEPT !.gen = o.gen].id = s[k].id
    BY <1>1, KindsTyped DEF Action
  <2>5. ClassifyObservation(s, o).st.prep \in {s.prep, [s[kind] EXCEPT !.gen = o.gen]}
        /\ (kind # "prep" => ClassifyObservation(s, o).st.prep = s.prep)
    BY <1>1, <2>1, <2>2, Shape DEF Kinds
  <2> QED
    BY <2>1, <2>3, <2>4, <2>5 DEF Picks
<1>4. CASE ~StillAuthorized(s, o) /\ kind = "none"
  BY <1>1, <1>4, CancelStill, ClassifyPicks DEF ClassifyObservation
<1>5. CASE ~StillAuthorized(s, o) /\ kind # "none"
  <2>1. t \in State /\ Still(t) /\ Evolves(s, t, Nobody) /\ t.planning.id \in {0, s.planning.id}
    BY <1>1, <1>5, CancelAdmissionType, CancelStill, CancelYields DEF Yields
  <2>2. ClassifyObservation(s, o) = Classify(u, o)
    BY <1>5 DEF ClassifyObservation
  <2>3. u \in State
    BY <2>1, SameEpochType
  <2>4. u = t \/ u = ResetForEpoch(t, o)
    BY DEF SameEpoch
  <2> HIDE DEF t, u
  <2>5. Calm(t)
    BY <2>1, Stages DEF Still, Calm
  <2>6. Still(u) /\ Evolves(t, u, Nobody) /\ u.planning.id \in {0, t.planning.id}
    <3>1. CASE u = t
      BY <2>1, <3>1, UntouchedEvolves DEF Untouched
    <3>2. CASE u = ResetForEpoch(t, o)
      BY <2>1, <2>3, <2>5, <3>2, ResetEmpty, EmptySound, ResetEvolves, ResetPlanless
    <3> QED
      BY <2>4, <3>1, <3>2
  <2>7. Picks(u, Classify(u, o).st)
    BY <2>3, <2>6, ClassifyPicks
  <2>8. Picks(t, Classify(u, o).st)
    BY <2>6, <2>7, EvolvesPicks
  <2> QED
    BY <2>1, <2>2, <2>8, EvolvesPicks
<1> QED
  BY <1>3, <1>4, <1>5

\* A sample during a preparation.
LEMMA ObservePreparingPicks ==
    \A s : \A o \in Observations :
        Sound(s) /\ s.prepState = "PREPARING" => Picks(s, ObservePreparing(s, o).st)
<1> SUFFICES ASSUME NEW s, NEW o \in Observations, Sound(s), s.prepState = "PREPARING"
             PROVE Picks(s, ObservePreparing(s, o).st)
  OBVIOUS
<1> DEFINE since == IF s.verify = -1 THEN 0 ELSE s.verify
           r == AppendTombstone(s, s.prep, "COMPLETED")
           done == [r EXCEPT !.phase = "VERIFYING", !.verify = since,
                             !.prepState = "PREPARED", !.prep.lc = "COMPLETED"]
           failed == [AppendTombstone(s, s.prep, "FAILED") EXCEPT
                        !.prepState = "PREPARE_FAILED", !.prep.lc = "FAILED", !.verify = -1]
           away == [s EXCEPT !.phase = "DISCOVER_FAST", !.verify = -1]
           exact == [s EXCEPT !.phase = "VERIFYING", !.verify = since]
<1>1. s \in State /\ s.prep.lc \in {"DISPATCHED", "RESULT_PENDING"}
  BY DEF Sound, Placed
<1>2. \/ ObservePreparing(s, o) \in {Schedule(away, "tick", {}), Schedule(exact, "tick", {}), StopPreparation(s)}
      \/ s.prep.lc = "RESULT_PENDING" /\ ObservePreparing(s, o) \in {Classify(done, o), Schedule(failed, "health", {})}
  BY DEF ObservePreparing
<1>3. Picks(s, StopPreparation(s).st)
  BY <1>1, StopsEvolve, EvolvesPicks DEF InFlight
<1>4. Untouched(s, Schedule(away, "tick", {}).st) /\ Untouched(s, Schedule(exact, "tick", {}).st)
  BY <1>1, Shape DEF Schedule, Decision, Untouched, Kinds
<1>5. CASE ObservePreparing(s, o) \in {Schedule(away, "tick", {}), Schedule(exact, "tick", {}), StopPreparation(s)}
  BY <1>3, <1>4, <1>5, UntouchedEvolves, EvolvesPicks
<1>6. CASE s.prep.lc = "RESULT_PENDING" /\ ObservePreparing(s, o) = Schedule(failed, "health", {})
  <2>1. Replaces(s, Schedule(failed, "health", {}).st, "prep", [s.prep EXCEPT !.lc = "FAILED"])
    BY <1>1, Shape DEF AppendTombstone, Schedule, Decision, Replaces, Kinds
  <2> HIDE DEF failed
  <2> QED
    BY <1>1, <1>6, <2>1, PreparationEnds, EvolvesPicks
<1>7. CASE s.prep.lc = "RESULT_PENDING" /\ ObservePreparing(s, o) = Classify(done, o)
  <2>1. Replaces(s, done, "prep", [s.prep EXCEPT !.lc = "COMPLETED"])
    BY <1>1, Shape DEF AppendTombstone, Replaces, Kinds
  <2>2. "COMPLETED" \in Terminal /\ "COMPLETED" \in Lifecycles
    BY DEF Terminal, Lifecycles
  <2>3. r \in State /\ r.planning = s.planning
    BY <1>1, <2>2, AppendTombstoneType, Fields DEF AppendTombstone, State
  <2>4. done \in State /\ done.planning = s.planning
    <3>1. since \in -1..ProfileStability
      BY <1>1, Fields, BoundsAssumption
    <3> HIDE DEF since, r
    <3>3. [r EXCEPT !.phase = "VERIFYING", !.verify = since, !.prepState = "PREPARED"] \in State
      BY <2>3, <3>1, Named, Set_phase, Set_verify, Set_prepState DEF PrepStates
    <3> DEFINE q == [r EXCEPT !.phase = "VERIFYING", !.verify = since, !.prepState = "PREPARED"]
    <3>4. [q EXCEPT !.prep.lc = "COMPLETED"] \in State
      BY <2>2, <3>3, SetLc
    <3>5. done = [q EXCEPT !.prep.lc = "COMPLETED"]
      OBVIOUS
    <3>6. done.planning = r.planning
      BY <2>3 DEF State
    <3> QED
      BY <2>3, <3>4, <3>5, <3>6
  <2> HIDE DEF done
  <2>5. Evolves(s, done, Nobody)
    BY <1>1, <1>7, <2>1, <2>2, PreparationEnds
  <2>6. Still(done)
    <3>1. Busy(s.prep) /\ "prep" \in Kinds
      BY <1>7 DEF Busy, InFlight, Kinds
    <3>2. \A k \in Kinds : k # "prep" => ~Busy(s[k])
      BY <3>1 DEF Sound, Ids
    <3>3. [s.prep EXCEPT !.lc = "COMPLETED"].lc = "COMPLETED"
      BY <1>1, Fields, NewLc
    <3>4. ~Busy(done.prep)
      BY <2>1, <3>3 DEF Replaces, Busy, InFlight
    <3> QED
      BY <2>1, <3>2, <3>4 DEF Still, Replaces
  <2> QED
    BY <1>7, <2>4, <2>5, <2>6, ClassifyPicks, EvolvesPicks
<1> QED
  BY <1>2, <1>5, <1>6, <1>7

\* A sample of the epoch.
LEMMA ObserveEpochPicks ==
    \A s : \A o \in Observations : Sound(s) /\ ~Stopping(s) => Picks(s, ObserveEpoch(s, o).st)
<1> SUFFICES ASSUME NEW s, NEW o \in Observations, Sound(s), ~Stopping(s)
             PROVE Picks(s, ObserveEpoch(s, o).st)
  OBVIOUS
<1>1. s \in State
  BY DEF Sound
<1>2. CASE s.phase \in {"PROBING", "APPLYING"}
  BY <1>1, <1>2, ScheduleTouches, UntouchedPicks DEF ObserveEpoch, Framed
<1>3. CASE s.phase = "FINALIZING"
  BY <1>1, <1>3, ObserveFinalizingEvolves, EvolvesPicks DEF ObserveEpoch
<1>4. CASE s.phase \notin {"PROBING", "APPLYING", "FINALIZING"} /\ s.prepState = "PREPARING"
  BY <1>4, ObservePreparingPicks DEF ObserveEpoch
<1>5. CASE s.phase \notin {"PROBING", "APPLYING", "FINALIZING"} /\ s.prepState # "PREPARING"
  <2>1. Calm(s)
    BY <1>5, LiveDispatched DEF Calm, Sound, Placed, Kinds, InFlight
  <2> QED
    BY <1>5, <2>1, ClassifyObservationPicks DEF ObserveEpoch, Settled
<1> QED
  BY <1>2, <1>3, <1>4, <1>5

\* A valid sample.
LEMMA ObserveValidPicks ==
    \A s : \A o \in Observations : \A prior : Sound(s) => Picks(s, ObserveValid(s, o, prior).st)
<1> SUFFICES ASSUME NEW s, NEW o \in Observations, NEW prior, Sound(s)
             PROVE Picks(s, ObserveValid(s, o, prior).st)
  OBVIOUS
<1> DEFINE laptop == Evidence[o.key].external /\ s.app.profile \in InternalProfiles
                     /\ s.app.lc = "DISPATCHED"
           stopped == Schedule([s EXCEPT !.phase = "APPLYING", !.app.lc = "STOPPING",
                                         !.cand = NoCandidate, !.verify = -1],
                               "tick", {"stop"})
<1>1. s \in State
  BY DEF Sound
<1>2. CASE laptop
  <2>1. stopped.st.planning = s.planning /\ stopped.st.prep = s.prep
    BY <1>1 DEF Schedule, Decision, State
  <2>2. ObserveValid(s, o, prior) = stopped
    BY <1>2 DEF ObserveValid
  <2> HIDE DEF stopped
  <2> QED
    BY <2>1, <2>2 DEF Picks
<1>3. CASE ~laptop /\ Stopping(s)
  BY <1>1, <1>3, ScheduleTouches, UntouchedPicks DEF ObserveValid, Framed
<1>4. CASE ~laptop /\ ~Stopping(s) /\ s.token # Evidence[o.key].token /\ MayMutate(s)
  BY <1>1, <1>4, StopForTokenEvolves, EvolvesPicks DEF ObserveValid
<1>5. CASE ~laptop /\ ~Stopping(s) /\ ~(s.token # Evidence[o.key].token /\ MayMutate(s))
  <2> DEFINE t == EnterEpoch(s, o, prior)
  <2>1. Sound(t) /\ ~Stopping(t) /\ Evolves(s, t, Nobody)
    BY <1>5, EnterEpochSound
  <2>2. ObserveValid(s, o, prior) = ObserveEpoch(t, o)
    BY <1>5 DEF ObserveValid
  <2>3. t.planning.id \in {0, s.planning.id}
    <3>1. [s EXCEPT !.phase = "DISCOVER_FAST", !.aggr = AggressiveBudget, !.backoff = 0].planning = s.planning
      BY <1>1 DEF State
    <3> QED
      BY <1>1, <3>1, ResetPlanless DEF EnterEpoch
  <2> HIDE DEF t
  <2> QED
    BY <2>1, <2>2, <2>3, ObserveEpochPicks, EvolvesPicks
<1> QED
  BY <1>2, <1>3, <1>4, <1>5

\* A sample.
LEMMA ObservationCompletedPicks ==
    \A s : \A o \in Observations : \A dt \in Nat :
        Sound(s) => Picks(s, ObservationCompleted(s, o, dt).st)
<1> SUFFICES ASSUME NEW s, NEW o \in Observations, NEW dt \in Nat, Sound(s)
             PROVE Picks(s, ObservationCompleted(s, o, dt).st)
  OBVIOUS
<1> DEFINE r == Elapse(s, dt)
           t == RecordObservation(r, o)
<1>1. s \in State /\ Pending(s)
  BY DEF Sound
<1>2. r \in State /\ Framed(s, r) /\ Pending(r) /\ Yields(s, r)
  BY <1>1, ElapseType, ElapseKeepsPending, RecordsTouch, ElapseYields
<1> HIDE DEF r
<1>3. t \in State /\ Framed(r, t) /\ Pending(t) /\ Yields(r, t)
  BY <1>2, RecordObservationType, RecordKeepsPending, RecordTouches, RecordYields
<1>4. ObservationCompleted(s, o, dt) \in {NoOp(s), ObserveValid(t, o, s.obs), ObserveInvalid(t, o)}
  BY DEF ObservationCompleted, r
<1> HIDE DEF t
<1>5. Framed(s, t) /\ t.planning.id \in {0, s.planning.id}
  BY <1>2, <1>3, YieldsOn DEF Framed, Untouched, Yields
<1>6. Sound(t)
  BY <1>1, <1>3, <1>5, FramedSound DEF Sound
<1>7. \A u : Picks(t, u) => Picks(s, u)
  BY <1>5, UntouchedEvolves, EvolvesPicks DEF Framed
<1>8. Picks(t, ObserveValid(t, o, s.obs).st) /\ Picks(t, ObserveInvalid(t, o).st)
  BY <1>3, <1>6, ObserveValidPicks, ObserveInvalidEvolves, EvolvesPicks
<1>9. Picks(s, NoOp(s).st)
  BY UntouchedEvolves, EvolvesPicks DEF NoOp, Decision, Untouched
<1> QED
  BY <1>4, <1>7, <1>8, <1>9

=============================================================================
