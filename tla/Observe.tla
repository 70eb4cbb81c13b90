------------------------------- MODULE Observe -------------------------------
(***************************************************************************)
(* What the reducer does with a completed observation: _observe of         *)
(* reducer.py and everything it calls.  Each operator takes the state, with *)
(* its times already advanced to the sample, and returns a decision.       *)
(***************************************************************************)
EXTENDS Policy

(* Waiting. *)

EnterWait(s) ==
    LET t == [ClearProof(s) EXCEPT
                 !.aggr = IF @ = -1 THEN AggressiveBudget ELSE @,
                 !.backoff = IF s.aggr = -1 THEN 0 ELSE @]
        index(phase) == IF t.phase = phase THEN t.backoff ELSE 0
        next(i, n) == Least(Least(i, n - 1) + 1, n - 1)
    IN IF t.aggr > 0
       THEN Schedule([t EXCEPT !.phase = "DISCOVER_FAST",
                               !.backoff = next(index("DISCOVER_FAST"), FastDelays)],
                     "fast", {})
       ELSE Schedule([t EXCEPT !.phase = "WAIT_SLOW",
                               !.backoff = next(index("WAIT_SLOW"), SlowDelays)],
                     "slow", {})

DeferWhileAsleep(s) ==
    Schedule([ClearProof(s) EXCEPT !.phase = "WAIT_SLOW"], "asleep", {})

-----------------------------------------------------------------------------
(* Admission of a probe, an application, a plan. *)

AdmitProbe(s, o) ==
    LET profile == Evidence[o.key].probe
        probe == Allocated(s, o.gen, profile, o.key, 0, None)
    IN IF AttemptKey(probe) \in s.probed
       THEN EnterWait(s)
       ELSE Decision([DiscardPlanning(s) EXCEPT
                         !.phase = "PROBE_PENDING", !.cand = NoCandidate,
                         !.seq = @ + 1, !.probe = probe, !.baseline = FALSE,
                         !.verify = -1, !.timer = "now"],
                     {"dispatch"})

SlowRetryDue(s) == s.phase = "WAIT_SLOW" /\ s.backoff >= SlowDelays - 1

AdmitApplication(s, o, profile) ==
    LET app == Allocated(s, o.gen, profile, o.key, 0, None)
        t == [s EXCEPT !.cand = Candidate(s, o.key, profile), !.baseline = FALSE]
    IN IF AttemptKey(app) \in s.applied /\ ~SlowRetryDue(s)
       THEN EnterWait(t)
       ELSE Decision([t EXCEPT !.applied = @ \ {AttemptKey(app)},
                               !.phase = "APPLY_PENDING", !.seq = @ + 1,
                               !.app = app, !.timer = "now"],
                     {"dispatch"})

AdmitPlan(s, o, profile) ==
    [s EXCEPT !.seq = @ + 1, !.planState = "PLAN_PENDING",
              !.planning = Allocated(s, 0, profile, o.key, s.seq + 1, o.cfg)]

-----------------------------------------------------------------------------
(* Verification of an exact, current profile. *)

\* The preparation AdvanceVerification may admit on its way.
WithPreparation(s, o) ==
    [s EXCEPT !.seq = @ + 1, !.prepState = "PREPARE_PENDING",
              !.prep = Allocated(s, o.gen, s.cand.profile, o.key, s.planning.id, None)]

\* The proof after that preparation: complete, or looked at again.
CompleteVerification(s, o, fx) ==
    LET profile == s.cand.profile
        complete == s.verify >= ProfileStability /\ s.drm >= EventQuiet
    IN IF complete /\ s.finalized = profile
       THEN Quiesce([ResetApplicationRecovery(DiscardPlanning(s), profile) EXCEPT
                        !.stable = profile, !.baseline = FALSE])
       ELSE IF complete /\ s.baseline
       THEN Quiesce([ResetApplicationRecovery(s, profile) EXCEPT
                        !.stable = profile, !.finalized = profile, !.baseline = FALSE])
       ELSE IF complete /\ s.prepState = "PREPARED" /\ ~Held(s.fin)
       THEN Decision([s EXCEPT !.phase = "FINALIZE_PENDING", !.seq = @ + 1,
                               !.fin = Allocated(s, o.gen, profile, o.key, s.prep.plan, None),
                               !.timer = "now"],
                     {"dispatch"})
       ELSE IF complete /\ (s.planState = "PLAN_FAILED" \/ s.prepState = "PREPARE_FAILED")
       THEN Schedule(s, "health", fx)
       ELSE Schedule(s, "tick", fx)

AdvanceVerification(s, o, fx) ==
    LET prepares == /\ s.verify >= PreparationStability
                    /\ s.finalized # s.cand.profile
                    /\ ~s.baseline
                    /\ s.planState = "PLAN_READY"
                    /\ s.prepState = "PREPARE_IDLE"
    IN IF s.verify = -1 \/ s.cand.profile = None
       THEN EnterWait(s)
       ELSE CompleteVerification(IF prepares THEN WithPreparation(s, o) ELSE s, o,
                                 IF prepares THEN fx \cup {"dispatch"} ELSE fx)

\* A plan is asked for as soon as a proof begins.
PlanVerification(s, o, profile) ==
    LET plans == s.finalized # profile /\ ~s.baseline /\ s.planState = "PLAN_IDLE"
    IN AdvanceVerification(IF plans THEN AdmitPlan(s, o, profile) ELSE s, o,
                           IF plans THEN {"plan"} ELSE {})

\* Mutant of StartVerification: a plan of the same inputs is used again, although
\* the proof it was made under has ended.
StartVerificationOnOldPlan(s, o, profile) ==
    PlanVerification([s EXCEPT !.phase = "VERIFYING", !.cand = Candidate(s, o.key, profile),
                               !.verify = IF @ = -1 THEN 0 ELSE @],
                     o, profile)

StartVerification(s, o, profile) ==
    LET sameProof == /\ s.phase = "VERIFYING"
                     /\ s.cand.profile = profile
                     /\ s.cand.key = o.key
                     /\ s.verify # -1
        samePlan == /\ s.planning.epoch = s.epoch
                    /\ s.planning.profile = profile
                    /\ s.planning.key = o.key
                    /\ s.planning.cfg = o.cfg
        t == IF sameProof /\ (Held(s.planning) => samePlan)
             THEN s
             ELSE DiscardPlanning(s)
    IN PlanVerification(
         [t EXCEPT !.phase = "VERIFYING",
                   !.verify = IF sameProof THEN @ ELSE 0,
                   !.cand = IF sameProof THEN @ ELSE Candidate(s, o.key, profile)],
         o, profile)

SameExactFinalization(s, o) ==
    /\ Held(s.fin)
    /\ s.token = Evidence[o.key].token
    /\ Evidence[o.key].exact = s.fin.profile
    /\ s.fin.profile \in Evidence[o.key].current
    /\ o.key = s.fin.key

-----------------------------------------------------------------------------
(* Classification of a valid sample with no worker to wait for. *)

\* _handle_unplug: the state, and whether the external intent is gone.
HandleUnplug(s, o) ==
    LET proof == [n |-> Least(s.unplug.n + 1, UnplugSamples), age |-> s.unplug.age]
        complete == proof.n >= UnplugSamples /\ proof.age >= UnplugStability
                    /\ o.gen = s.egen
    IN IF ~s.intent THEN [st |-> [s EXCEPT !.unplug = NoUnplug], done |-> TRUE]
       ELSE IF complete
       THEN [st |-> [s EXCEPT !.intent = FALSE, !.unplug = NoUnplug], done |-> TRUE]
       ELSE [st |-> [s EXCEPT !.unplug = proof, !.verify = -1], done |-> FALSE]

\* A terminal failure of the old topology is dropped while unplug is proven.
AwaitUnplug(s) ==
    Schedule([s EXCEPT
                !.phase = "DISCOVER_FAST",
                !.probe = IF s.phase = "PROBE_FAILED" THEN NoAction ELSE @,
                !.app = IF s.phase = "APPLY_FAILED" THEN NoAction ELSE @,
                !.fin = IF s.phase = "FINALIZE_FAILED" THEN NoAction ELSE @],
             "tick", {})

RetainExternalIntent(s) ==
    LET laptop == s.cand.profile \in InternalProfiles
    IN [s EXCEPT !.intent = TRUE, !.unplug = NoUnplug,
                 !.cand = IF laptop THEN NoCandidate ELSE @,
                 !.verify = IF laptop THEN -1 ELSE @]

\* The evidence a terminal failure was recorded for is still the same.
SameFailure(s, o) ==
    \/ /\ s.phase = "PROBE_FAILED"
       /\ Evidence[o.key].probe # None
       /\ Evidence[o.key].probe = s.probe.profile
       /\ o.key = s.probe.key
    \/ /\ s.phase = "APPLY_FAILED"
       /\ UniqueTarget(o.key) # None
       /\ UniqueTarget(o.key) = s.app.profile
       /\ o.key = s.app.key
    \/ s.phase = "FINALIZE_FAILED" /\ SameExactFinalization(s, o)

DropFailure(s) ==
    [s EXCEPT
        !.phase = IF @ \in {"PROBE_FAILED", "APPLY_FAILED", "FINALIZE_FAILED"}
                  THEN "DISCOVER_FAST" ELSE @,
        !.probe = IF s.phase = "PROBE_FAILED" THEN NoAction ELSE @,
        !.app = IF s.phase = "APPLY_FAILED" THEN NoAction ELSE @,
        !.fin = IF s.phase = "FINALIZE_FAILED" THEN NoAction ELSE @]

\* A fully identified external topology that matches no profile.
ClassifyUnknown(s, o) ==
    LET since == IF s.unknown.key = o.key THEN s.unknown.age ELSE 0
        t == [s EXCEPT !.unknown = [key |-> o.key, age |-> since], !.verify = -1]
    IN IF since >= UnknownStability
       THEN Schedule([t EXCEPT !.phase = "UNSUPPORTED"], "health", {})
       ELSE Schedule([t EXCEPT !.phase = "DISCOVER_FAST"], "tick", {})

\* A profile that is exact and current: quiescence or (more) verification.
ClassifyExact(s, o, profile) ==
    LET t == RearmAchievedApplication([s EXCEPT !.unknown = NoUnknown], profile)
    IN IF /\ t.phase = "QUIESCENT"
          /\ t.stable = profile
          /\ t.finalized = profile
          /\ t.cand = Candidate(t, o.key, profile)
       THEN Quiesce(t)
       ELSE StartVerification(t, o, profile)

ClassifyTarget(s, o) ==
    LET f == Evidence[o.key]
        found == UniqueTarget(o.key)
        target == IF f.external /\ found \in InternalProfiles THEN None ELSE found
        known == [s EXCEPT !.unknown = NoUnknown]
    IN IF f.probe # None
       THEN IF o.asleep THEN DeferWhileAsleep(known) ELSE AdmitProbe(known, o)
       ELSE IF target # None /\ f.exact = target /\ target \in f.current
       THEN ClassifyExact(s, o, target)
       ELSE IF target # None
       THEN IF o.asleep THEN DeferWhileAsleep(known) ELSE AdmitApplication(known, o, target)
       ELSE IF f.external /\ f.identified
       THEN ClassifyUnknown(s, o)
       ELSE EnterWait(s)

\* _classify_observation, when no admission is pending.
Classify(s, o) ==
    LET unplugged == HandleUnplug(s, o)
        t == IF Evidence[o.key].external THEN RetainExternalIntent(s) ELSE unplugged.st
    IN IF ~Evidence[o.key].external /\ ~unplugged.done THEN AwaitUnplug(t)
       ELSE IF SameFailure(t, o) THEN Schedule(t, "health", {})
       ELSE ClassifyTarget(DropFailure(t), o)

-----------------------------------------------------------------------------
(* A new physical epoch. *)

ResetForEpoch(s, o) ==
    LET t == DiscardPlanning(s)
        admitted == {a \in {t.probe, t.app, t.fin} : a.lc = "ADMITTED"}
        ids == {a.id : a \in admitted}
    IN [t EXCEPT
          !.tombs = {x \in @ : x.id \notin ids}
                    \cup {[id |-> i, lc |-> "CANCELLED"] : i \in ids},
          !.phase = "DISCOVER_FAST", !.epoch = @ + 1,
          !.token = Evidence[o.key].token, !.cand = NoCandidate,
          !.aggr = AggressiveBudget, !.backoff = 0, !.verify = -1,
          !.stable = None, !.probed = {}, !.applied = {}, !.retried = {},
          !.probe = NoAction, !.app = NoAction, !.fin = NoAction,
          !.unknown = NoUnknown, !.unplug = NoUnplug,
          !.baseline = t.phase = "RECOVERING" /\ t.finalized = None /\ ~t.required]

SameEpoch(s, o) == IF s.token = Evidence[o.key].token THEN s ELSE ResetForEpoch(s, o)

-----------------------------------------------------------------------------
(* _observe_pending_action: an admission that was not dispatched yet is     *)
(* offered again at the sample's generation if the sample still authorizes *)
(* it, and is cancelled otherwise.                                         *)

PendingAdmission(s) ==
    IF s.phase = "PROBE_PENDING" THEN "probe"
    ELSE IF s.phase = "APPLY_PENDING" THEN "app"
    ELSE IF s.prepState = "PREPARE_PENDING" THEN "prep"
    ELSE IF s.phase = "FINALIZE_PENDING" THEN "fin"
    ELSE "none"

StillAuthorized(s, o) ==
    LET kind == PendingAdmission(s)
        f == Evidence[o.key]
    IN /\ kind # "none"
       /\ s.token = f.token
       /\ s[kind].key = o.key
       /\ s[kind].profile # None
       /\ kind = "probe" => s.probe.profile = f.probe
       /\ kind = "app" => s.app.profile = UniqueTarget(o.key)
       /\ kind \in {"prep", "fin"} =>
             s[kind].profile = f.exact /\ s[kind].profile \in f.current

Offered(s) == Decision([s EXCEPT !.timer = "now"], {"dispatch"})

\* What is left of the state once its pending admission is cancelled.
CancelAdmission(s) ==
    LET kind == PendingAdmission(s) IN
    IF kind = "probe" THEN DropProbe(s, "CANCELLED")
    ELSE IF kind = "app" THEN DropApplication(s, "CANCELLED")
    ELSE IF kind = "prep" THEN [DropPreparation(s, "CANCELLED") EXCEPT !.verify = -1]
    ELSE [DropFinalization(s, "CANCELLED") EXCEPT !.verify = -1]

\* _classify_observation.  At most one admission is ever pending, so what is
\* left after it is cancelled is classified as if none had been.
ClassifyObservation(s, o) ==
    IF StillAuthorized(s, o)
    THEN Offered([s EXCEPT ![PendingAdmission(s)].gen = o.gen])
    ELSE Classify(IF PendingAdmission(s) = "none" THEN s ELSE SameEpoch(CancelAdmission(s), o), o)

=============================================================================
