----------------------------- MODULE Invariants -----------------------------
(***************************************************************************)
(* The checks every decision passes before it may be saved:                *)
(* assert_controller_invariants (invariants.py), the stricter relations of *)
(* the state codec (codec.py) and State.__post_init__ (model.py).  A state *)
(* that fails one raises, and the decision is lost with the process.       *)
(***************************************************************************)
EXTENDS Reducer

\* An action is held exactly in the phases that name it, with a lifecycle of
\* that phase.
Matches(a, phase, table) ==
    IF phase \in DOMAIN table THEN a.lc \in table[phase] ELSE ~Held(a)

PhaseRelationships(s) ==
    \/ s.phase = "RECOVERING"
    \/ /\ Matches(s.probe, s.phase,
                  [PROBE_PENDING |-> {"ADMITTED"}, PROBING |-> InFlight,
                   PROBE_FAILED |-> Failed])
       /\ Matches(s.app, s.phase,
                  [APPLY_PENDING |-> {"ADMITTED"}, APPLYING |-> InFlight,
                   APPLY_FAILED |-> Failed])
       /\ Matches(s.fin, s.phase,
                  [FINALIZE_PENDING |-> {"ADMITTED"},
                   FINALIZING |-> {"DISPATCHED", "RESULT_PENDING"},
                   FINALIZE_STOPPING |-> {"STOPPING"}, FINALIZE_FAILED |-> Failed])

PlanningRelationships(s) ==
    \/ s.phase = "RECOVERING"
    \/ /\ Matches(s.planning, s.planState,
                  [PLAN_PENDING |-> {"ADMITTED"}, PLANNING |-> {"DISPATCHED"},
                   PLAN_READY |-> {"COMPLETED"}, PLAN_FAILED |-> Failed])
       /\ Matches(s.prep, s.prepState,
                  [PREPARE_PENDING |-> {"ADMITTED"},
                   PREPARING |-> {"DISPATCHED", "RESULT_PENDING"},
                   PREPARED |-> {"COMPLETED"}, PREPARE_STOPPING |-> {"STOPPING"},
                   PREPARE_FAILED |-> Failed])
       /\ Held(s.prep) => /\ s.planState = "PLAN_READY"
                          /\ s.prep.plan = s.planning.id
                          /\ s.prep.profile = s.planning.profile
       /\ s.baseline => s.planState = "PLAN_IDLE" /\ s.prepState = "PREPARE_IDLE"

ActionIdentities(s) ==
    /\ \A a, b \in Actions(s) : a.id = b.id => a = b
    /\ \A a \in Actions(s) : a.id <= s.seq /\ a.plan <= s.seq
    /\ \A t, u \in s.tombs : t.id = u.id => t = u
    /\ \A a \in Actions(s) : a.lc \in Terminal => [id |-> a.id, lc |-> a.lc] \in s.tombs
    /\ \A a \in Actions(s), t \in s.tombs : a.id = t.id => a.lc = t.lc

MutatorsInFlight(s) == {a \in Mutators(s) : a.lc \in InFlight}

WorkerAcknowledgements(s) ==
    /\ \A a, b \in MutatorsInFlight(s) : a = b
    /\ \A a \in MutatorsInFlight(s) : a.unit

Unresolved(s) ==
    /\ s.obs # None
    /\ Evidence[s.obs].valid
    /\ Evidence[s.obs].external
    /\ Evidence[s.obs].exact = None
    /\ s.phase \in {"DISCOVER_FAST", "WAIT_SLOW", "PROBE_FAILED", "APPLY_FAILED"}

ObservationAuthority(s) ==
    s.obs # None =>
        /\ s.egen >= s.obsGen
        /\ s.cand.profile # None => s.cand.epoch = s.epoch
        /\ ~(Evidence[s.obs].external /\ s.cand.profile \in InternalProfiles)
        /\ Unresolved(s) => s.timer # "none"

\* The latest sample is valid, is the one the action was admitted on and has
\* the generation the admission has.
FreshEvidence(s, a) ==
    s.obs # None /\ Evidence[s.obs].valid /\ s.obs = a.key /\ s.obsGen = a.gen

ExactEvidence(s, a) ==
    /\ FreshEvidence(s, a)
    /\ Evidence[s.obs].exact = a.profile
    /\ a.profile \in Evidence[s.obs].current

LaptopLoadAuthorized(s) ==
    ~(s.obs # None /\ Evidence[s.obs].external /\ Held(s.app)
      /\ s.app.profile \in InternalProfiles)

ActionAuthorization(s) ==
    /\ \A a \in Mutators(s) : a.gen <= s.egen
    /\ (s.phase = "APPLY_PENDING" /\ s.app.gen = s.egen) =>
          FreshEvidence(s, s.app) /\ s.app.epoch = s.epoch
    /\ (s.phase = "PROBE_PENDING" /\ s.probe.gen = s.egen) =>
          /\ FreshEvidence(s, s.probe)
          /\ s.probe.epoch = s.epoch
          /\ Evidence[s.obs].probe = s.probe.profile
    /\ (s.prepState = "PREPARE_PENDING" /\ s.prep.gen = s.egen) =>
          ExactEvidence(s, s.prep) /\ s.verify >= PreparationStability
    /\ Held(s.fin) => /\ s.prepState = "PREPARED"
                      /\ s.prep.lc = "COMPLETED"
                      /\ s.prep.plan = s.fin.plan
                      /\ s.prep.profile = s.fin.profile
    /\ (s.phase = "FINALIZE_PENDING" /\ s.fin.gen = s.egen) =>
          /\ ExactEvidence(s, s.fin)
          /\ s.verify >= ProfileStability
          /\ ~s.baseline

NumberedSafetyRules(s) ==
    /\ (Held(s.probe) /\ s.phase # "RECOVERING") =>
          /\ s.cand.profile = None
          /\ ~Held(s.planning) /\ ~Held(s.prep) /\ ~Held(s.fin)
    /\ (s.phase = "VERIFYING" /\ s.verify # -1) =>
          /\ s.obs # None
          /\ Evidence[s.obs].valid
          /\ s.cand.profile # None
          /\ Evidence[s.obs].exact = s.cand.profile
          /\ s.cand.profile \in Evidence[s.obs].current
          /\ s.obs = s.cand.key
    /\ Held(s.fin) => s.fin.profile # s.finalized
    /\ s.unplug.n > 0 => s.intent

AttemptHistory(s) ==
    /\ (Held(s.probe) /\ s.probe.lc # "ADMITTED" /\ s.probe.unit) =>
          AttemptKey(s.probe) \in s.probed
    /\ (Held(s.app) /\ s.app.lc # "ADMITTED" /\ s.app.unit) =>
          AttemptKey(s.app) \in s.applied

\* What the codec demands beyond the invariants.
PersistenceRelationships(s) ==
    /\ s.phase = "RECOVERING" => /\ Actions(s) = {}
                                 /\ s.planState = "PLAN_IDLE"
                                 /\ s.prepState = "PREPARE_IDLE"
    /\ \A a \in Mutators(s) : /\ a.lc = "ADMITTED" => ~a.unit
                              /\ a.lc = "DISPATCHED" => a.unit
    /\ s.probe.lc = "ADMITTED" => AttemptKey(s.probe) \notin s.probed
    /\ s.app.lc = "ADMITTED" => AttemptKey(s.app) \notin s.applied
    /\ \A k \in s.probed \cup s.applied : k.epoch = s.epoch

\* _validate_desktop_finalization_requirement
FinalizationRequirement(s) == s.required => s.finalized = None /\ ~s.baseline

\* The names of the checks a state fails.
FailedChecks(s) ==
    (IF PhaseRelationships(s) THEN {} ELSE {"phase"}) \cup
    (IF PlanningRelationships(s) THEN {} ELSE {"planning"}) \cup
    (IF ActionIdentities(s) THEN {} ELSE {"identities"}) \cup
    (IF WorkerAcknowledgements(s) THEN {} ELSE {"one_mutation"}) \cup
    (IF ObservationAuthority(s) THEN {} ELSE {"observation"}) \cup
    (IF LaptopLoadAuthorized(s) THEN {} ELSE {"laptop_load"}) \cup
    (IF ActionAuthorization(s) THEN {} ELSE {"authorization"}) \cup
    (IF NumberedSafetyRules(s) THEN {} ELSE {"numbered"}) \cup
    (IF AttemptHistory(s) THEN {} ELSE {"attempts"}) \cup
    (IF PersistenceRelationships(s) THEN {} ELSE {"persistence"}) \cup
    (IF FinalizationRequirement(s) THEN {} ELSE {"requirement"})

Checks ==
    {"phase", "planning", "identities", "one_mutation", "observation", "laptop_load",
     "authorization", "numbered", "attempts", "persistence", "requirement"}

=============================================================================
