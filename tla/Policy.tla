------------------------------- MODULE Policy -------------------------------
(***************************************************************************)
(* The data of the monitor controller's reducer (model.py) and the helpers *)
(* that every transition of reducer.py is written with.                    *)
(*                                                                         *)
(* The reducer is a pure function from a state and an event to a decision: *)
(* a new state and the effects to perform.  A state is a record here as it *)
(* is a frozen dataclass there; a decision is [st, fx].                    *)
(*                                                                         *)
(* Abstractions.                                                           *)
(*  - An observation key is a digest of everything a sample shows except   *)
(*    the time, the screens' power state and the hashes of the planning    *)
(*    configuration (observer/snapshot.py), so the facts of a sample are a *)
(*    function of its key: the constant Evidence.                          *)
(*  - Times are ages: verify, drm, unplug.age and unknown.age are the time *)
(*    from the recorded instant to the latest observation, saturated at    *)
(*    the threshold they are compared with; aggr is what is left of the    *)
(*    aggressive budget.  The reducer only compares times while it handles *)
(*    an observation, so time passes between observations and hints only.  *)
(*  - A timer is the class of the delay it was armed with.                 *)
(*  - An absent optional value is None, -1 or NoAction.                    *)
(*  - A transition id and the hash of its plan stand and fall with the     *)
(*    planning action that made them: they are its id.                     *)
(*  - Tombstones of actions the state no longer holds are read only by     *)
(*    recovery, so a state keeps those of the actions it holds.            *)
(***************************************************************************)
EXTENDS Integers, FiniteSets

CONSTANTS
    Profiles,             \* autorandr profiles
    InternalProfiles,     \* those whose scope is internal_only (the laptop alone)
    Keys,                 \* observation keys
    Evidence,             \* [Keys -> facts of a sample]
    Tokens,               \* physical tokens (DRM connector topology)
    Configs,              \* planning configuration hashes
    None,                 \* the absent profile, key or token
    AggressiveBudget,     \* AGGRESSIVE_BUDGET_MS
    FastDelays,           \* len(FAST_DELAYS_MS)
    SlowDelays,           \* len(SLOW_DELAYS_MS)
    PreparationStability, \* PREPARATION_STABILITY_MS
    ProfileStability,     \* PROFILE_STABILITY_MS
    EventQuiet,           \* EVENT_QUIET_MS
    UnknownStability,     \* UNKNOWN_STABILITY_MS
    UnplugStability,      \* UNPLUG_STABILITY_MS
    UnplugSamples         \* UNPLUG_REQUIRED_SAMPLES

\* What one sample shows.  "unavailable" marks an invalid sample whose reason
\* is a command timeout or a parse failure; "uncertain" holds the profiles whose
\* outputs are all still connected and active but for one of which the EDID is
\* absent or broken (what _preparation_observation_status tolerates).
Facts ==
    [token: Tokens, valid: BOOLEAN, unavailable: BOOLEAN, external: BOOLEAN,
     eligible: SUBSET Profiles, exact: Profiles \cup {None},
     current: SUBSET Profiles, probe: Profiles \cup {None},
     identified: BOOLEAN, uncertain: SUBSET Profiles]

\* CanonicalObservation.__post_init__: the consistency every sample has.
ConsistentSample(f) ==
    /\ ~f.valid => f.exact = None /\ f.probe = None
    /\ f.valid => ~f.unavailable
    /\ f.exact # None => f.exact \in f.eligible \cap f.current
    /\ f.exact \in InternalProfiles => ~f.external
    /\ f.probe # None => f.external /\ f.eligible = {}
    /\ f.uncertain \subseteq f.current

ASSUME NoneAssumption ==
    None \notin Profiles /\ None \notin Keys /\ None \notin Tokens

ASSUME EvidenceAssumption ==
    /\ Evidence \in [Keys -> Facts]
    /\ \A k \in Keys : ConsistentSample(Evidence[k])

ASSUME ScopeAssumption == InternalProfiles \subseteq Profiles

ASSUME BoundsAssumption ==
    /\ AggressiveBudget \in Nat \ {0}
    /\ FastDelays \in Nat \ {0}
    /\ SlowDelays \in Nat \ {0}
    /\ PreparationStability \in Nat
    /\ ProfileStability \in Nat
    /\ PreparationStability <= ProfileStability
    /\ EventQuiet \in Nat
    /\ UnknownStability \in Nat
    /\ UnplugStability \in Nat
    /\ UnplugSamples \in Nat \ {0}

-----------------------------------------------------------------------------
(* The enumerations of model.py. *)

Phases ==
    {"RECOVERING", "QUIESCENT", "DISCOVER_FAST", "PROBE_PENDING", "PROBING",
     "PROBE_FAILED", "APPLY_PENDING", "APPLYING", "APPLY_FAILED", "VERIFYING",
     "WAIT_SLOW", "UNSUPPORTED", "FINALIZE_PENDING", "FINALIZING",
     "FINALIZE_STOPPING", "FINALIZE_FAILED"}

PlanStates == {"PLAN_IDLE", "PLAN_PENDING", "PLANNING", "PLAN_READY", "PLAN_FAILED"}

PrepStates ==
    {"PREPARE_IDLE", "PREPARE_PENDING", "PREPARING", "PREPARED",
     "PREPARE_STOPPING", "PREPARE_FAILED"}

Failed == {"FAILED", "UNKNOWN", "TIMED_OUT"}
Terminal == Failed \cup {"COMPLETED", "CANCELLED"}
InFlight == {"DISPATCHED", "STOPPING", "RESULT_PENDING"}
Lifecycles == {"ABSENT", "ADMITTED"} \cup InFlight \cup Terminal

Delays == {"now", "tick", "fast", "slow", "health", "asleep"}
Effects == {"observe", "stop", "plan", "dispatch", "discard"}
Outcomes == {"SUCCEEDED", "FAILED", "CANCELLED"}

-----------------------------------------------------------------------------
(* Actions, candidates and the state record. *)

\* One record for the five kinds of ActionRecord.  "plan" is the id of the plan
\* a preparation or finalization uses, "cfg" the configuration a plan was made
\* from, "after" terminal_after_stop, "unit" whether a worker unit is recorded.
Action ==
    [id: Nat, lc: Lifecycles, unit: BOOLEAN, after: Failed \cup {None}, gen: Nat,
     epoch: Nat, profile: Profiles \cup {None}, key: Keys \cup {None},
     plan: Nat, cfg: Configs \cup {None}]

NoAction ==
    [id |-> 0, lc |-> "ABSENT", unit |-> FALSE, after |-> None, gen |-> 0,
     epoch |-> 0, profile |-> None, key |-> None, plan |-> 0, cfg |-> None]

Held(a) == a.lc # "ABSENT"

AttemptKeys == [epoch: Nat, profile: Profiles \cup {None}, key: Keys \cup {None}]
AttemptKey(a) == [epoch |-> a.epoch, profile |-> a.profile, key |-> a.key]

Candidates == [profile: Profiles \cup {None}, key: Keys \cup {None}, epoch: Nat]
NoCandidate == [profile |-> None, key |-> None, epoch |-> 0]

State ==
    [phase: Phases, planState: PlanStates, prepState: PrepStates,
     obs: Keys \cup {None}, obsGen: Nat, egen: Nat,
     epoch: Nat, token: Tokens \cup {None}, cand: Candidates,
     aggr: -1..AggressiveBudget, timer: Delays \cup {"none"}, backoff: Nat,
     verify: -1..ProfileStability, drm: 0..EventQuiet,
     stable: Profiles \cup {None}, finalized: Profiles \cup {None},
     required: BOOLEAN, intent: BOOLEAN, baseline: BOOLEAN,
     probed: SUBSET AttemptKeys, applied: SUBSET AttemptKeys,
     retried: SUBSET Profiles,
     probe: Action, app: Action, planning: Action, prep: Action, fin: Action,
     unknown: [key: Keys \cup {None}, age: 0..UnknownStability],
     unplug: [n: 0..UnplugSamples, age: 0..UnplugStability],
     seq: Nat, tombs: SUBSET [id: Nat, lc: Terminal]]

NoUnknown == [key |-> None, age |-> 0]
NoUnplug == [n |-> 0, age |-> 0]

\* State(): the defaults a first start begins from.
InitialState ==
    [phase |-> "RECOVERING", planState |-> "PLAN_IDLE", prepState |-> "PREPARE_IDLE",
     obs |-> None, obsGen |-> 0, egen |-> 0, epoch |-> 0, token |-> None,
     cand |-> NoCandidate, aggr |-> -1, timer |-> "none", backoff |-> 0,
     verify |-> -1, drm |-> EventQuiet, stable |-> None, finalized |-> None,
     required |-> FALSE, intent |-> FALSE, baseline |-> FALSE,
     probed |-> {}, applied |-> {}, retried |-> {}, probe |-> NoAction,
     app |-> NoAction, planning |-> NoAction, prep |-> NoAction, fin |-> NoAction,
     unknown |-> NoUnknown, unplug |-> NoUnplug, seq |-> 0, tombs |-> {}]

\* CanonicalObservation, as the reducer receives it.
Observations == [key: Keys, gen: Nat, asleep: BOOLEAN, cfg: Configs]

-----------------------------------------------------------------------------
(* Decisions and the small helpers of reducer.py. *)

Decision(s, fx) == [st |-> s, fx |-> fx]

Schedule(s, delay, fx) == Decision([s EXCEPT !.timer = delay], fx)

Quiesce(s) == Decision([s EXCEPT !.phase = "QUIESCENT", !.timer = "none"], {})

Mutators(s) == {s.probe, s.app, s.prep, s.fin}
Actions(s) == {a \in Mutators(s) \cup {s.planning} : Held(a)}

Admitted(s) == {a \in Mutators(s) : a.lc = "ADMITTED"}
Stopping(s) == \E a \in Mutators(s) : a.lc = "STOPPING"
StopEffect(s) == IF Stopping(s) THEN {"stop"} ELSE {}

AppendTombstone(s, a, lc) ==
    [s EXCEPT !.tombs = {t \in @ : t.id # a.id} \cup {[id |-> a.id, lc |-> lc]}]

\* bound_action_tombstones never drops the tombstone of an action still held.
RetainedTombstones(s) == {t \in s.tombs : \E a \in Actions(s) : a.id = t.id}

\* _allocate_action, for the action that is then stored in the state.
Allocated(s, gen, profile, key, plan, cfg) ==
    [id |-> s.seq + 1, lc |-> "ADMITTED", unit |-> FALSE, after |-> None,
     gen |-> gen, epoch |-> s.epoch, profile |-> profile, key |-> key,
     plan |-> plan, cfg |-> cfg]

\* _unique_target: the exact profile, else the only eligible one.
UniqueTarget(key) ==
    LET f == Evidence[key] IN
    IF f.exact # None THEN f.exact
    ELSE IF \E p \in Profiles : f.eligible = {p}
         THEN CHOOSE p \in Profiles : f.eligible = {p}
         ELSE None

Candidate(s, key, profile) ==
    [profile |-> profile, key |-> key, epoch |-> s.epoch]

\* A key of this epoch and profile is forgotten ...
ForgetAttempts(s, profile) ==
    {k \in s.applied : k.epoch # s.epoch \/ k.profile # profile}

\* ... once, when a proven profile later regresses ...
RearmAchievedApplication(s, profile) ==
    IF profile \in s.retried \/ ForgetAttempts(s, profile) = s.applied
    THEN s
    ELSE [s EXCEPT !.applied = ForgetAttempts(s, profile),
                   !.retried = @ \cup {profile}]

\* ... and again after a complete stability proof.
ResetApplicationRecovery(s, profile) ==
    [s EXCEPT !.applied = ForgetAttempts(s, profile),
              !.retried = @ \ {profile}]

ClearProof(s) == [s EXCEPT !.verify = -1]

\* What time does to the recorded instants between two samples.
Least(a, b) == IF a <= b THEN a ELSE b

\* Mutants of Elapse: a clock that is never stopped, and one that never runs.
ElapseUnsaturated(s, dt) == [s EXCEPT !.verify = IF @ = -1 THEN -1 ELSE @ + dt]
ElapseNever(s, dt) == s

Elapse(s, dt) ==
    [s EXCEPT
        !.aggr = IF @ <= dt THEN Least(@, 0) ELSE @ - dt,
        !.verify = IF @ = -1 THEN -1 ELSE Least(@ + dt, ProfileStability),
        !.drm = Least(@ + dt, EventQuiet),
        !.unknown = [key |-> s.unknown.key,
                     age |-> IF s.unknown.key = None THEN 0
                             ELSE Least(s.unknown.age + dt, UnknownStability)],
        !.unplug = [n |-> s.unplug.n,
                    age |-> IF s.unplug.n = 0 THEN 0
                            ELSE Least(s.unplug.age + dt, UnplugStability)]]

\* Mutant of DiscardPlanning: the preparation outlives its plan.
DiscardPlanningOnly(s) == [s EXCEPT !.planState = "PLAN_IDLE", !.planning = NoAction]

DiscardPlanning(s) ==
    LET t == IF s.planning.lc \in {"ADMITTED", "DISPATCHED"}
             THEN AppendTombstone(s, s.planning, "CANCELLED")
             ELSE s
    IN [t EXCEPT !.planState = "PLAN_IDLE", !.prepState = "PREPARE_IDLE",
                 !.planning = NoAction, !.prep = NoAction]

\* An action leaves the state with a terminal lifecycle.
DropProbe(s, lc) ==
    [AppendTombstone(s, s.probe, lc) EXCEPT
        !.phase = "DISCOVER_FAST", !.probe = NoAction]

DropApplication(s, lc) ==
    [AppendTombstone(s, s.app, lc) EXCEPT
        !.phase = "DISCOVER_FAST", !.app = NoAction]

DropPreparation(s, lc) ==
    [AppendTombstone(s, s.prep, lc) EXCEPT
        !.prepState = "PREPARE_IDLE", !.prep = NoAction]

DropFinalization(s, lc) ==
    [AppendTombstone(s, s.fin, lc) EXCEPT
        !.phase = "DISCOVER_FAST", !.fin = NoAction]

=============================================================================
