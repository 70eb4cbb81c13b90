-------------------------- MODULE ControllerProof --------------------------
(***************************************************************************)
(* The controller for every set of profiles, samples, tokens and           *)
(* configurations and every threshold, whatever hints, crashes, restarts   *)
(* and lost answers come in between: its types, the mutual exclusion of    *)
(* its workers, what becomes of plans, loads, results and wake-ups, and    *)
(* that a restart whose workers have ended is granted a start.             *)
(***************************************************************************)
EXTENDS Controller, ReducerProof

-----------------------------------------------------------------------------
(* Type correctness. *)


\* A state that passes assert_controller_invariants and the codec holds the
\* admission its pending phase names.
LEMMA CheckedPending == \A s \in State : FailedChecks(s) = {} => Pending(s)
<1> SUFFICES ASSUME NEW s \in State, FailedChecks(s) = {} PROVE Pending(s)
  OBVIOUS
<1>1. PhaseRelationships(s) /\ PlanningRelationships(s) /\ PersistenceRelationships(s)
  BY DEF FailedChecks
<1>2. s.phase = "RECOVERING" => s.prepState = "PREPARE_IDLE"
  BY <1>1 DEF PersistenceRelationships
<1>3. s.phase = "PROBE_PENDING" => s.probe.lc = "ADMITTED"
  BY <1>1 DEF PhaseRelationships, Matches
<1>4. s.phase = "APPLY_PENDING" => s.app.lc = "ADMITTED"
  BY <1>1 DEF PhaseRelationships, Matches
<1>5. s.phase = "FINALIZE_PENDING" => s.fin.lc = "ADMITTED"
  BY <1>1 DEF PhaseRelationships, Matches
<1>6. s.prepState = "PREPARE_PENDING" => s.prep.lc = "ADMITTED"
  BY <1>1, <1>2 DEF PlanningRelationships, Matches
<1> QED
  BY <1>3, <1>4, <1>5, <1>6 DEF Pending

\* A failed check is one of the checks.
LEMMA ChecksNamed == \A s : FailedChecks(s) \in SUBSET Checks
  BY DEF FailedChecks, Checks

\* TypeOK is not inductive: an admission that is offered again must be there,
\* which the checks of the saved state guarantee.
TypeInv == TypeOK /\ Pending(st)

\* The next offer is one: a dispatch is only ever asked for with an admission.
LEMMA OfferType ==
    \A open \in Offers : \A s \in State : \A fx \in SUBSET Effects :
        ("dispatch" \in fx => Admitted(s) # {}) => NextOffer(open, s, fx) \in Offers
<1> SUFFICES ASSUME NEW open \in Offers, NEW s \in State, NEW fx \in SUBSET Effects,
                    "dispatch" \in fx => Admitted(s) # {}
             PROVE NextOffer(open, s, fx) \in Offers
  OBVIOUS
<1> DEFINE a == CHOOSE a \in Admitted(s) : TRUE
<1>1. Admitted(s) \subseteq Action
  BY Fields DEF Admitted, Mutators
<1>2. "dispatch" \in fx => a \in Action
  BY <1>1
<1> HIDE DEF a
<1>3. "dispatch" \in fx => [id |-> a.id, gen |-> a.gen, dirty |-> FALSE] \in Offers
  BY <1>2 DEF Action, Offers
<1>4. NoOffer \in Offers
  BY DEF NoOffer, Offers
<1> QED
  BY <1>3, <1>4 DEF NextOffer, a

\* Saving a checked decision keeps the type invariant.
LEMMA SavesType ==
    ASSUME TypeInv, NEW d \in Decisions, NEW open \in Offers, NEW us \in SUBSET Units,
           NEW generation \in Nat, FailedChecks(d.st) = {}, Saves(d, open, us, generation)
    PROVE  TypeInv'
<1> DEFINE s == [d.st EXCEPT !.tombs = RetainedTombstones(d.st)]
<1>1. d.st \in State /\ d.fx \in SUBSET Effects /\ Pending(d.st)
  BY DecisionParts, CheckedPending
<1>2. RetainedTombstones(d.st) \in SUBSET [id: Nat, lc: Terminal]
  BY <1>1, Fields DEF RetainedTombstones
<1>3. s \in State
  BY <1>1, <1>2, Set_tombs
<1>4. /\ s.phase = d.st.phase /\ s.prepState = d.st.prepState /\ s.probe = d.st.probe
      /\ s.app = d.st.app /\ s.prep = d.st.prep /\ s.fin = d.st.fin
  BY <1>1 DEF State
<1> HIDE DEF s
<1>5. Pending(s)
  BY <1>1, <1>4 DEF Pending
<1>6. "dispatch" \in d.fx => Admitted(s) # {}
  BY <1>4 DEF Decisions, Admitted, Mutators
<1>7. NextOffer(open, s, d.fx) \in Offers
  BY <1>1, <1>3, <1>6, OfferType
<1>8. NextChore(d.fx) \in Chores
  BY DEF NextChore, Chores
<1>9. s.planning.id \in Nat
  BY <1>3, Fields DEF Action
<1>10. KeptUnits(s, us) \in SUBSET Units
  BY DEF KeptUnits
<1>11. /\ st' = s /\ up' = TRUE /\ raised' = {} /\ gen' = generation
       /\ chore' = NextChore(d.fx)
       /\ since' \in {generation, 0}
       /\ offer' = NextOffer(open, s, d.fx)
       /\ task' \in {s.planning.id, 0}
       /\ discarded' \in {s.planning.id, discarded, 0}
       /\ units' = KeptUnits(s, us)
  BY DEF Saves, s
<1> QED
  BY <1>3, <1>5, <1>7, <1>8, <1>9, <1>10, <1>11 DEF TypeInv, TypeOK

\* The end of the process keeps the type invariant.
LEMMA EndsType ==
    ASSUME TypeInv, Ends, raised' \in SUBSET Checks, units' \in SUBSET Units PROVE TypeInv'
<1>1. st.egen \in Nat
  BY Fields DEF TypeInv, TypeOK
<1>2. NoOffer \in Offers /\ "none" \in Chores
  BY DEF NoOffer, Offers, Chores
<1>3. Pending(st)'
  BY DEF TypeInv, Ends, Pending
<1> QED
  BY <1>1, <1>2, <1>3 DEF TypeInv, TypeOK, Ends

\* _process_event keeps the type invariant, whether or not it raises.
LEMMA CommitType ==
    ASSUME TypeInv, NEW d \in Decisions, NEW open \in Offers, NEW us \in SUBSET Units,
           NEW generation \in Nat, Commit(d, open, us, generation)
    PROVE  TypeInv'
<1>1. CASE FailedChecks(d.st) = {} /\ Saves(d, open, us, generation)
  BY <1>1, SavesType
<1>2. CASE Ends /\ raised' = FailedChecks(d.st) /\ units' = us
  BY <1>2, ChecksNamed, EndsType
<1> QED
  BY <1>1, <1>2 DEF Commit, SavesUnless

\* No offer is an offer.
LEMMA NoOfferType == NoOffer \in Offers
  BY DEF NoOffer, Offers

\* The action with an id is an action.
LEMMA ActionForIdType == \A s \in State : \A id \in Nat : ActionForId(s, id) \in Action
<1> SUFFICES ASSUME NEW s \in State, NEW id \in Nat PROVE ActionForId(s, id) \in Action
  OBVIOUS
<1>1. Mutators(s) \subseteq Action
  BY Fields DEF Mutators
<1> QED
  BY <1>1, NoneTyped DEF ActionForId

\* Every step of the controller, its workers and its crashes keeps the type
\* invariant.
LEMMA StepType == ASSUME TypeInv, Next PROVE TypeInv'
<1> USE ControllerAssumption
<1>0. /\ st \in State /\ Pending(st) /\ gen \in Nat /\ since \in Nat /\ offer \in Offers
      /\ units \in SUBSET Units /\ task \in Nat /\ discarded \in Nat
      /\ up \in BOOLEAN /\ raised \in SUBSET Checks /\ chore \in Chores
  BY DEF TypeInv, TypeOK
<1>0a. st.egen \in Nat /\ st.egen + 1 \in Nat /\ st.planning.id \in Nat /\ offer.id \in Nat
  BY <1>0, Fields DEF Action, Offers
<1>0b. \A a \in Mutators(st) : a.id \in Nat
  BY <1>0, Fields DEF Mutators, Action
<1>0c. \A d \in Decisions : Process(d) => TypeInv'
  BY <1>0, CommitType DEF Process
<1>0d. \A u \in units : u \in Units /\ u.id \in Nat /\ u.outcome \in Terminal \cup {None}
  BY <1>0 DEF Units
<1>1. CASE NotifyDrmHint
  BY <1>0, <1>1 DEF NotifyDrmHint, TypeInv, TypeOK, Pending
<1>2. CASE ProcessDrmHint
  BY <1>0, <1>0a, <1>0c, <1>2, DrmHintReceivedType DEF ProcessDrmHint
<1>3. CASE ProcessTimer
  BY <1>0, <1>0c, <1>3, TimerFiredType DEF ProcessTimer
<1>4. CASE CompleteObservation
  <2>1. PICK k \in Keys, g \in since..gen, asleep \in Power, c \in Configs, dt \in Steps :
          Process(ObservationCompleted(st, [key |-> k, gen |-> g, asleep |-> asleep, cfg |-> c], dt))
    BY <1>4 DEF CompleteObservation, ProcessBounded
  <2>2. [key |-> k, gen |-> g, asleep |-> asleep, cfg |-> c] \in Observations
    BY <1>0 DEF Observations
  <2> QED
    BY <1>0, <1>0c, <2>1, <2>2, ObservationCompletedType
<1>5. CASE FailObservation
  BY <1>0, <1>0c, <1>5, ObservationFailedType DEF FailObservation
<1>6. CASE ObserveBootChange
  BY <1>0, <1>6, BootChangedType, CommitType DEF ObserveBootChange
<1>7. CASE RequestPlan
  BY <1>0, <1>0a, <1>0c, <1>7, PlanRequestedType DEF RequestPlan
<1>8. CASE CompletePlan
  BY <1>0, <1>0c, <1>8, PlanCompletedType DEF CompletePlan
<1>9. CASE FailPlan
  BY <1>0, <1>0c, <1>9, PlanFailedType DEF FailPlan
<1>10. CASE FenceDirtied
  <2>1. [offer EXCEPT !.dirty = TRUE] \in Offers
    BY <1>0 DEF Offers
  <2>2. PICK dt \in Steps : Commit(AdmissionDirtied(st, offer.id, gen, dt),
                                   [offer EXCEPT !.dirty = TRUE], units, gen)
    BY <1>10 DEF FenceDirtied
  <2>3. AdmissionDirtied(st, offer.id, gen, dt) \in Decisions
    BY <1>0, <1>0a, AdmissionDirtiedType
  <2> QED
    BY <1>0, <2>1, <2>2, <2>3, CommitType
<1>11. CASE FenceStale
  BY <1>0, <1>11, NoOfferType DEF FenceStale, TypeInv, TypeOK, Pending
<1>12. \A alive \in BOOLEAN : \A outcome \in Terminal \cup {None} : \A next \in Chores :
         Submit([id |-> offer.id, alive |-> alive, outcome |-> outcome], next) => TypeInv'
  <2> SUFFICES ASSUME NEW alive \in BOOLEAN, NEW outcome \in Terminal \cup {None},
                      NEW next \in Chores,
                      Submit([id |-> offer.id, alive |-> alive, outcome |-> outcome], next)
               PROVE  TypeInv'
    OBVIOUS
  <2>1. [id |-> offer.id, alive |-> alive, outcome |-> outcome] \in Units
    BY <1>0a DEF Units
  <2> QED
    BY <1>0, <2>1 DEF Submit, TypeInv, TypeOK, Pending
<1>13. CASE SubmitAccepted
  BY <1>12, <1>13 DEF SubmitAccepted, Chores
<1>14. CASE SubmitLost
  BY <1>12, <1>14 DEF SubmitLost, Chores
<1>15. CASE SubmitRefused
  BY <1>12, <1>15 DEF SubmitRefused, Chores, Terminal, Failed
<1>16. CASE RejectDispatch
  BY <1>0, <1>0a, <1>16, DispatchRejectedType, NoOfferType, CommitType DEF RejectDispatch
<1>17. CASE AcknowledgeDispatch
  BY <1>0, <1>0a, <1>17, DispatchedType, NoOfferType, CommitType DEF AcknowledgeDispatch
<1>18. Dispatched(st, offer.id).st \in State
  BY <1>0, <1>0a, DispatchedType, DecisionParts
<1>19. CASE MarkDispatchUncertain
  <2>1. WorkerUncertain(Dispatched(st, offer.id).st, offer.id, "UNKNOWN") \in Decisions
    BY <1>0a, <1>18, WorkerUncertainType
  <2> QED
    BY <1>0, <1>19, <2>1, NoOfferType, CommitType DEF MarkDispatchUncertain
<1>20. CASE CompleteRefusedStart
  <2>1. Finished(Dispatched(st, offer.id).st, offer.id, "FAILED", TRUE) \in Decisions
    BY <1>0a, <1>18, FinishedType DEF Outcomes
  <2> QED
    BY <1>0, <1>20, <2>1, NoOfferType, CommitType DEF CompleteRefusedStart
<1>21. CASE WorkerEnds
  <2>1. PICK u \in units, outcome \in WorkerOutcomes :
          units' = (units \ {u}) \cup {[u EXCEPT !.alive = FALSE, !.outcome = outcome]}
    BY <1>21 DEF WorkerEnds
  <2>2. [u EXCEPT !.alive = FALSE, !.outcome = outcome] \in Units
    BY <1>0d DEF Units
  <2>3. units' \in SUBSET Units
    BY <1>0, <2>1, <2>2
  <2> QED
    BY <1>0, <1>21, <2>3 DEF WorkerEnds, TypeInv, TypeOK, Pending
<1>22. CASE ReportWorker
  <2>1. PICK u \in units :
          Process(IF u.outcome \in {None, "UNKNOWN"}
                  THEN WorkerUncertain(st, u.id, "UNKNOWN")
                  ELSE IF u.outcome = "TIMED_OUT"
                  THEN WorkerUncertain(st, u.id, "TIMED_OUT")
                  ELSE Finished(st, u.id, EventOutcome(u.outcome), TRUE))
    BY <1>22 DEF ReportWorker
  <2>2. CASE u.outcome \in {None, "UNKNOWN"}
    BY <1>0, <1>0c, <1>0d, <2>1, <2>2, WorkerUncertainType
  <2>3. CASE u.outcome \notin {None, "UNKNOWN"} /\ u.outcome = "TIMED_OUT"
    BY <1>0, <1>0c, <1>0d, <2>1, <2>3, WorkerUncertainType
  <2>4. CASE u.outcome \notin {None, "UNKNOWN", "TIMED_OUT"}
    BY <1>0, <1>0c, <1>0d, <2>1, <2>4, FinishedType, EventOutcomeType
  <2> QED
    BY <2>2, <2>3, <2>4
<1>23. CASE DoubtWorker
  BY <1>0, <1>0b, <1>0c, <1>23, WorkerUncertainType DEF DoubtWorker
<1>24. CASE StopAcknowledged
  BY <1>0, <1>0c, <1>0d, <1>24, CancellationAcknowledgedType DEF StopAcknowledged
<1>25. CASE StopDoubted
  BY <1>0, <1>0b, <1>0c, <1>25, WorkerUncertainType DEF StopDoubted
<1>26. CASE StopIneffective
  BY <1>0, <1>0c, <1>26, NoOpType DEF StopIneffective
<1>27. CASE Crash
  BY <1>0, <1>27, EndsType DEF Crash
<1>28. CASE Restart
  BY <1>0, <1>0a, <1>28, ReconciledType, ControllerStartedType, NoOfferType, CommitType DEF Restart
<1>29. CASE RefuseStart
  BY <1>0, <1>29 DEF RefuseStart, vars, TypeInv, TypeOK, Pending
<1>30. CASE NewSession
  BY <1>0, <1>30, NewSessionType, ControllerStartedType, NoOfferType, CommitType DEF NewSession
<1> QED
  BY <1>1, <1>2, <1>3, <1>4, <1>5, <1>6, <1>7, <1>8, <1>9, <1>10, <1>11, <1>13, <1>14, <1>15,
     <1>16, <1>17, <1>19, <1>20, <1>21, <1>22, <1>23, <1>24, <1>25, <1>26, <1>27, <1>28, <1>29,
     <1>30 DEF Next

\* A first start satisfies the type invariant.
LEMMA InitType == Init => TypeInv
<1> SUFFICES ASSUME Init PROVE TypeInv
  OBVIOUS
<1>1. st \in State
  BY InitialStateType, Set_baseline DEF Init
<1>2. st.phase = "RECOVERING" /\ st.prepState = "PREPARE_IDLE"
  BY DEF Init, InitialState
<1>3. Pending(st)
  BY <1>2 DEF Pending
<1> QED
  BY <1>1, <1>3, NoOfferType DEF Init, TypeInv, TypeOK, Chores

\* The saved state, the offer and the units keep their types in every behaviour:
\* whatever order hints, samples, results and restarts come in, no decision leaves
\* the domain the state codec can read back, no age leaves its range, and no
\* dispatch is asked for without an admission to dispatch.
THEOREM TypeCorrect == Spec => []TypeOK
<1>1. Init => TypeInv
  BY InitType
<1>2. TypeInv /\ [Next]_vars => TypeInv'
  <2> SUFFICES ASSUME TypeInv, [Next]_vars PROVE TypeInv'
    OBVIOUS
  <2>1. CASE Next
    BY <2>1, StepType
  <2>2. CASE UNCHANGED vars
    BY <2>2 DEF vars, TypeInv, TypeOK, Pending
  <2> QED
    BY <2>1, <2>2
<1>3. TypeInv => TypeOK
  BY DEF TypeInv
<1> QED
  BY <1>1, <1>2, <1>3, PTL DEF Spec

-----------------------------------------------------------------------------
(* The inductive invariant. *)

HasLive(s, id) == \E k \in Kinds : Live(s[k]) /\ s[k].id = id
HasAdmitted(s, id) == \E k \in Kinds : s[k].lc = "ADMITTED" /\ s[k].id = id

\* A unit was submitted and its dispatch is not yet acknowledged.
Submitted == chore \in {"ack", "doubt", "refused"}

\* A plan that is pending is no live mutator.
PlanApart(s) ==
    s.planning.lc = "ADMITTED" => \A k \in Kinds : Live(s[k]) => s[k].id # s.planning.id

\* A unit belongs to an action that was numbered, and is the only one of it.
UnitsNumbered(us, n) ==
    /\ \A u \in us : u.id # 0 /\ u.id <= n
    /\ \A u, v \in us : u.id = v.id => u = v

\* A unit that may run has its action live in the state, or was just submitted
\* for the admitted one, or was when the process ended.
Covered ==
    \A u \in units : u.alive => \/ HasLive(st, u.id)
                                \/ chore = "ack" /\ u.id = offer.id
                                \/ ~up /\ HasAdmitted(st, u.id)

\* An admitted action has no unit but the one submitted for it.
Unsubmitted == up /\ ~Submitted => \A u \in units : ~HasAdmitted(st, u.id)

ExclusionInv ==
    /\ TypeInv
    /\ Ids(st)
    /\ Placed(st)
    /\ PlanApart(st)
    /\ UnitsNumbered(units, st.seq)
    /\ ~up => chore = "none"
    /\ Submitted => HasAdmitted(st, offer.id)
    /\ Covered
    /\ Unsubmitted

-----------------------------------------------------------------------------
(* The action that an id names. *)

\* The mutator an id names is one of the state.
LEMMA NamedBusy ==
    \A s, id : Held(ActionForId(s, id)) =>
        \E k \in Kinds : s[k] = ActionForId(s, id) /\ s[k].id = id
<1> SUFFICES ASSUME NEW s, NEW id, Held(ActionForId(s, id))
             PROVE \E k \in Kinds : s[k] = ActionForId(s, id) /\ s[k].id = id
  OBVIOUS
<1>1. ActionForId(s, id) \in Mutators(s) /\ ActionForId(s, id).id = id
  BY NoActionStage DEF ActionForId
<1> QED
  BY <1>1 DEF Mutators, Kinds

\* Where an action is admitted none is live, and no other is admitted.
LEMMA AdmittedAlone ==
    \A s, i, j : Ids(s) /\ HasAdmitted(s, i) =>
        /\ ~HasLive(s, j)
        /\ HasAdmitted(s, j) => i = j
  BY Stages DEF HasAdmitted, HasLive, Ids

-----------------------------------------------------------------------------
(* Saving a decision, and the end of the process. *)

\* What a decision must keep for the units that are left: those that may run
\* stay live, and none belongs to an admitted action.
Fits(t, us) ==
    /\ Numbered(t)
    /\ Apart(t)
    /\ st.seq <= t.seq
    /\ \A u \in us : u.alive => HasLive(t, u.id)
    /\ \A u \in us : ~HasAdmitted(t, u.id)

\* The checks that saved states pass, with what they leave open.
LEMMA CheckedSound ==
    \A s \in State : FailedChecks(s) = {} /\ Numbered(s) /\ Apart(s) => Sound(s) /\ PlanApart(s)
<1> SUFFICES ASSUME NEW s \in State, FailedChecks(s) = {}, Numbered(s), Apart(s)
             PROVE Sound(s) /\ PlanApart(s)
  OBVIOUS
<1>1. Sound(s)
  BY CheckedIds, CheckedPlaced, CheckedPending DEF Sound
<1>2. ASSUME NEW k \in Kinds, s.planning.lc = "ADMITTED", Live(s[k]), s[k].id = s.planning.id
      PROVE FALSE
  <2>1. ActionIdentities(s)
    BY DEF FailedChecks
  <2>2. s.planning \in Actions(s) /\ s[k] \in Actions(s)
    BY <1>2, Stages DEF Actions, Mutators, Kinds, Held
  <2>3. s.planning = s[k]
    BY <1>2, <2>1, <2>2 DEF ActionIdentities
  <2> QED
    BY <1>2, <2>3 DEF Live
<1> QED
  BY <1>1, <1>2 DEF PlanApart

\* A checked decision that fits is saved.
LEMMA SavesExclusion ==
    ASSUME ExclusionInv, NEW d \in Decisions, NEW open \in Offers, NEW us \in SUBSET units,
           NEW generation \in Nat, FailedChecks(d.st) = {}, Saves(d, open, us, generation),
           Fits(d.st, us)
    PROVE  ExclusionInv'
<1> DEFINE s == [d.st EXCEPT !.tombs = RetainedTombstones(d.st)]
<1>1. TypeInv'
  BY SavesType DEF ExclusionInv, TypeInv, TypeOK
<1>2. d.st \in State /\ Sound(d.st) /\ PlanApart(d.st)
  BY DecisionParts, CheckedSound DEF Fits
<1>3. Framed(d.st, s) /\ s.planning = d.st.planning
  BY <1>2, Shape DEF Framed, Untouched, Kinds, State
<1>4. st' = s /\ up' = TRUE /\ chore' = NextChore(d.fx) /\ units' \subseteq us
  BY DEF Saves, KeptUnits
<1>5. ~Submitted'
  BY <1>4 DEF Submitted, NextChore
<1> HIDE DEF s
<1>6. Ids(s) /\ Placed(s)
  BY <1>2, <1>3, FramedSound DEF Sound
<1>7. PlanApart(s)
  BY <1>2, <1>3 DEF PlanApart, Framed, Untouched
<1>8. \A id : (HasLive(s, id) <=> HasLive(d.st, id)) /\ (HasAdmitted(s, id) <=> HasAdmitted(d.st, id))
  BY <1>3 DEF HasLive, HasAdmitted, Framed, Untouched
<1>9. UnitsNumbered(units', s.seq)
  <2>1. s.seq = d.st.seq /\ st.seq <= d.st.seq
    BY <1>3 DEF Framed, Untouched, Fits
  <2>2. st.seq \in Nat /\ d.st.seq \in Nat /\ \A u \in us : u.id \in Nat
    BY <1>2, KindsTyped DEF ExclusionInv, TypeInv, TypeOK, Units
  <2>3. \A u \in us : u.id # 0 /\ u.id <= st.seq
    BY DEF ExclusionInv, UnitsNumbered
  <2>4. \A u, v \in us : u.id = v.id => u = v
    BY DEF ExclusionInv, UnitsNumbered
  <2> QED
    BY <1>4, <2>1, <2>2, <2>3, <2>4 DEF UnitsNumbered
<1>10. Covered'
  BY <1>4, <1>8 DEF Covered, Fits
<1>11. Unsubmitted'
  BY <1>4, <1>8 DEF Unsubmitted, Fits
<1>12. Ids(st)' /\ Placed(st)' /\ PlanApart(st)' /\ UnitsNumbered(units, st.seq)'
  BY <1>4, <1>6, <1>7, <1>9
<1> QED
  BY <1>1, <1>4, <1>5, <1>10, <1>11, <1>12 DEF ExclusionInv

\* A process that ends leaves its units to what the state says of them.
LEMMA EndsExclusion ==
    ASSUME ExclusionInv, Ends, TypeInv', units' \in SUBSET units PROVE ExclusionInv'
<1>1. st' = st /\ up' = FALSE /\ chore' = "none"
  BY DEF Ends
<1>2. Ids(st)' /\ Placed(st)' /\ PlanApart(st)'
  BY <1>1 DEF ExclusionInv
<1>3. UnitsNumbered(units, st.seq)'
  BY <1>1 DEF ExclusionInv, UnitsNumbered
<1>4. \A u \in units : u.alive => HasLive(st, u.id) \/ HasAdmitted(st, u.id)
  BY DEF ExclusionInv, Covered, Submitted
<1>5. Covered'
  BY <1>1, <1>4 DEF Covered
<1>6. Unsubmitted' /\ ~Submitted'
  BY <1>1 DEF Unsubmitted, Submitted
<1> QED
  BY <1>1, <1>2, <1>3, <1>5, <1>6 DEF ExclusionInv

\* _process_event keeps the invariant if what it decides fits, or raises.
LEMMA CommitExclusion ==
    ASSUME ExclusionInv, NEW d \in Decisions, NEW open \in Offers, NEW us \in SUBSET units,
           NEW generation \in Nat, Commit(d, open, us, generation), Fits(d.st, us)
    PROVE  ExclusionInv'
<1>1. us \in SUBSET Units
  BY DEF ExclusionInv, TypeInv, TypeOK
<1>2. TypeInv'
  BY <1>1, CommitType DEF ExclusionInv
<1>3. CASE FailedChecks(d.st) = {} /\ Saves(d, open, us, generation)
  BY <1>3, SavesExclusion
<1>4. CASE Ends /\ units' = us
  BY <1>2, <1>4, EndsExclusion
<1> QED
  BY <1>3, <1>4 DEF Commit, SavesUnless

-----------------------------------------------------------------------------
(* What the events leave for the units. *)

\* An ordinary event, about an action with no unit that may run.
LEMMA OrdinaryFits ==
    ASSUME ExclusionInv, up, ~Submitted, NEW t \in State, NEW x, Advances(st, t, x),
           \A u \in units : u.alive => u.id # x
    PROVE  Fits(t, units)
<1>1. st \in State /\ Ids(st)
  BY DEF ExclusionInv, TypeInv, TypeOK
<1>2. Numbered(t) /\ Apart(t) /\ st.seq <= t.seq
  BY <1>1, AdvancesNumbered DEF Advances
<1>3. ASSUME NEW u \in units, u.alive PROVE HasLive(t, u.id)
  <2>1. HasLive(st, u.id) /\ u.id # x
    BY <1>3 DEF ExclusionInv, Covered, Submitted
  <2>2. PICK k \in Kinds : Live(st[k]) /\ st[k].id = u.id
    BY <2>1 DEF HasLive
  <2>3. Follows(st[k], t[k], st.seq, x)
    BY DEF Advances
  <2> QED
    BY <2>1, <2>2, <2>3 DEF Follows, HasLive
<1>4. ASSUME NEW u \in units, HasAdmitted(t, u.id) PROVE FALSE
  <2>1. PICK k \in Kinds : t[k].lc = "ADMITTED" /\ t[k].id = u.id
    BY <1>4 DEF HasAdmitted
  <2>2. (st[k].lc = "ADMITTED" /\ st[k].id = u.id) \/ u.id > st.seq
    BY <2>1 DEF Advances, Follows
  <2>3. ~HasAdmitted(st, u.id)
    BY DEF ExclusionInv, Unsubmitted
  <2>4. u.id <= st.seq /\ u.id \in Nat /\ st.seq \in Nat
    BY <1>1, KindsTyped DEF ExclusionInv, UnitsNumbered, TypeInv, TypeOK, Units
  <2> QED
    BY <2>2, <2>3, <2>4 DEF HasAdmitted
<1> QED
  BY <1>2, <1>3, <1>4 DEF Fits

\* An event that is about no action.
LEMMA QuietFits ==
    ASSUME ExclusionInv, up, ~Submitted, NEW t \in State, Advances(st, t, Nobody)
    PROVE  Fits(t, units)
<1>1. \A u \in units : u.id # Nobody
  BY DEF ExclusionInv, TypeInv, TypeOK, Units, Nobody
<1> QED
  BY <1>1, OrdinaryFits

\* A transition about no action keeps what is live, and admits nothing.
LEMMA EvolvesKeeps ==
    \A s \in State : \A t, id : Evolves(s, t, Nobody) =>
        /\ HasLive(s, id) => HasLive(t, id)
        /\ HasAdmitted(t, id) => HasAdmitted(s, id)
<1> SUFFICES ASSUME NEW s \in State, NEW t, NEW id, Evolves(s, t, Nobody)
             PROVE /\ HasLive(s, id) => HasLive(t, id)
                   /\ HasAdmitted(t, id) => HasAdmitted(s, id)
  OBVIOUS
<1>1. ASSUME NEW k \in Kinds PROVE Descends(s[k], t[k], Nobody) /\ s[k].id # Nobody
  BY KindsTyped DEF Evolves, Nobody
<1>2. ASSUME NEW k \in Kinds, Live(s[k]) PROVE Live(t[k]) /\ t[k].id = s[k].id
  BY <1>1, <1>2, Stages DEF Descends
<1>3. ASSUME NEW k \in Kinds, t[k].lc = "ADMITTED" PROVE s[k].lc = "ADMITTED" /\ s[k].id = t[k].id
  BY <1>1, <1>3, Stages DEF Descends
<1> QED
  BY <1>2, <1>3 DEF HasLive, HasAdmitted

\* The dispatch that was submitted becomes live, whatever is known of its worker.
LEMMA DispatchFits ==
    ASSUME ExclusionInv, Submitted, NEW t \in State, Evolves(st, t, offer.id), Ids(t),
           HasLive(t, offer.id)
    PROVE  Fits(t, units)
<1>1. st \in State /\ Ids(st)
  BY DEF ExclusionInv, TypeInv, TypeOK
<1>2. Numbered(t) /\ Apart(t) /\ st.seq <= t.seq
  BY <1>1, EvolvesAdvances, AdvancesNumbered DEF Advances
<1>3. ASSUME NEW u \in units, u.alive PROVE HasLive(t, u.id)
  <2>1. HasLive(st, u.id) \/ u.id = offer.id
    BY <1>3 DEF ExclusionInv, Covered, Submitted
  <2>2. ~HasLive(st, u.id)
    BY <1>1, AdmittedAlone DEF ExclusionInv
  <2> QED
    BY <2>1, <2>2
<1>4. \A id : ~HasAdmitted(t, id)
  BY AdmittedAlone
<1> QED
  BY <1>2, <1>3, <1>4 DEF Fits

\* The submitted dispatch, acknowledged.
LEMMA SubmittedLive ==
    ASSUME ExclusionInv, Submitted
    PROVE  LET t == Dispatched(st, offer.id).st
           IN t \in State /\ Evolves(st, t, offer.id) /\ Ids(t) /\ HasLive(t, offer.id)
<1> DEFINE t == Dispatched(st, offer.id).st
<1>1. st \in State /\ Sound(st) /\ Ids(st) /\ offer.id \in Nat
  BY DEF ExclusionInv, TypeInv, TypeOK, Sound, Offers
<1>2. t \in State /\ Evolves(st, t, offer.id) /\ Ids(t)
  BY <1>1, DispatchedType, DecisionParts, DispatchedEvolves
<1>3. PICK k \in Kinds : st[k].lc = "ADMITTED" /\ st[k].id = offer.id
  BY DEF ExclusionInv, HasAdmitted
<1>4. \E j \in Kinds : Live(t[j]) /\ t[j].id = offer.id
  BY <1>1, <1>3, DispatchedLive
<1> QED
  BY <1>2, <1>4 DEF HasLive

\* A start that was refused fails its action, which was alone.
LEMMA RefusedFits ==
    ASSUME ExclusionInv, chore = "refused"
    PROVE  Fits(Finished(Dispatched(st, offer.id).st, offer.id, "FAILED", TRUE).st, units)
<1> DEFINE d == Dispatched(st, offer.id).st
           t == Finished(d, offer.id, "FAILED", TRUE).st
<1>1. st \in State /\ Ids(st) /\ HasAdmitted(st, offer.id) /\ offer.id \in Nat
  BY DEF ExclusionInv, TypeInv, TypeOK, Submitted, Offers
<1>2. d \in State /\ Evolves(st, d, offer.id) /\ Ids(d) /\ HasLive(d, offer.id)
  BY <1>1, SubmittedLive DEF Submitted
<1>3. offer.id # 0
  BY <1>2, Stages DEF HasLive, Ids, Numbered
<1> HIDE DEF d
<1>4. t \in State /\ Evolves(d, t, offer.id)
  BY <1>1, <1>2, <1>3, FinishedType, DecisionParts, FinishedEvolves DEF Ids, Outcomes
<1> HIDE DEF t
<1>5. Numbered(t) /\ Apart(t) /\ st.seq <= t.seq
  <2>1. Advances(st, t, offer.id)
    BY <1>1, <1>2, <1>4, EvolvesOn, EvolvesAdvances
  <2> QED
    BY <1>1, <1>4, <2>1, AdvancesNumbered DEF Advances
<1>6. \A u \in units : ~u.alive
  BY <1>1, AdmittedAlone DEF ExclusionInv, Covered
<1>7. ASSUME NEW id, HasAdmitted(t, id) PROVE FALSE
  <2>1. PICK k \in Kinds : t[k].lc = "ADMITTED"
    BY <1>7 DEF HasAdmitted
  <2>2. d[k].lc = "ADMITTED"
    BY <1>4, <2>1 DEF Evolves, Descends
  <2>3. HasAdmitted(d, d[k].id)
    BY <2>2 DEF HasAdmitted
  <2> QED
    BY <1>2, <2>3, AdmittedAlone
<1>8. Fits(t, units)
  BY <1>5, <1>6, <1>7 DEF Fits
<1> QED
  BY <1>8 DEF t, d

\* Another boot or session leaves no units.
LEMMA FreshFits ==
    ASSUME ExclusionInv
    PROVE  Fits(BootChanged(st).st, {}) /\ Fits(ControllerStarted(NewSessionState(st)).st, {})
<1> DEFINE b == BootChanged(st).st
           n == NewSessionState(st)
           t == ControllerStarted(n).st
<1>1. st \in State /\ st.seq \in Nat
  BY KindsTyped DEF ExclusionInv, TypeInv, TypeOK
<1>2. b.seq = st.seq /\ \A k \in Kinds : b[k] = NoAction
  BY <1>1, FreshStarts
<1>3. Sound(n) /\ n.seq = st.seq
  BY <1>1, FreshStarts
<1> HIDE DEF b, n
<1>4. Numbered(b) /\ Apart(b) /\ st.seq <= b.seq
  BY <1>1, <1>2, NoActionStage DEF Numbered, Apart, Kinds
<1>5. n \in State /\ Ids(n) /\ t \in State /\ Evolves(n, t, Nobody)
  BY <1>3, ControllerStartedType, DecisionParts, StartedEvolves DEF Sound
<1>6. Numbered(t) /\ Apart(t) /\ st.seq <= t.seq
  BY <1>3, <1>5, EvolvesAdvances, AdvancesNumbered DEF Advances
<1>7. Fits(b, {}) /\ Fits(t, {})
  BY <1>4, <1>6 DEF Fits
<1> QED
  BY <1>7 DEF b, n, t

\* A start that is granted has every unit that may run live in what it reconciled,
\* and no unit for an action it might dispatch.
LEMMA RestartFits ==
    ASSUME ExclusionInv, Granted(st, units)
    PROVE  Fits(ControllerStarted(Reconciled(st, units)).st, units)
<1> DEFINE r == Reconciled(st, units)
           t == ControllerStarted(r).st
<1>1. /\ st \in State /\ Ids(st) /\ units \in SUBSET Units
      /\ \A u \in units : u.id # 0
  BY DEF ExclusionInv, TypeInv, TypeOK, UnitsNumbered
<1>2. Accounted(st, r, units)
  BY DEF Granted
<1>3. r \in State
  BY <1>1, ReconciledType
<1>4. \E x : Evolves(st, r, x)
  <2>1. r = st => Evolves(st, r, Nobody)
    BY UntouchedEvolves DEF Untouched
  <2> QED
    BY <1>1, <2>1, ReconciledEvolves
<1>5. PICK x : Evolves(st, r, x)
  BY <1>4
<1> HIDE DEF r
<1>6. Sound(r)
  <2>1. Numbered(r) /\ Apart(r)
    BY <1>1, <1>3, <1>5, EvolvesAdvances, AdvancesNumbered
  <2>2. FailedChecks(r) = {}
    BY <1>2 DEF Accounted
  <2> QED
    BY <1>3, <2>1, <2>2, CheckedSound
<1>7. t \in State /\ Evolves(r, t, Nobody)
  BY <1>3, <1>6, ControllerStartedType, DecisionParts, StartedEvolves
<1> HIDE DEF t
<1>8. Numbered(t) /\ Apart(t) /\ st.seq <= t.seq
  <2>1. Advances(st, t, x)
    BY <1>1, <1>3, <1>5, <1>7, EvolvesAny, EvolvesOn, EvolvesAdvances
  <2> QED
    BY <1>1, <1>7, <2>1, AdvancesNumbered DEF Advances
<1>9. ASSUME NEW u \in units, u.alive PROVE HasLive(t, u.id)
  <2>1. ActionForId(r, u.id).lc \in {"DISPATCHED", "STOPPING"}
    BY <1>2, <1>9 DEF Accounted
  <2>2. HasLive(r, u.id)
    BY <2>1, NamedBusy DEF Held, HasLive, Live
  <2> QED
    BY <1>3, <1>7, <2>2, EvolvesKeeps
<1>10. ASSUME NEW u \in units, HasAdmitted(t, u.id) PROVE FALSE
  <2>1. PICK k \in Kinds : r[k].lc = "ADMITTED" /\ r[k].id = u.id
    BY <1>3, <1>7, <1>10, EvolvesKeeps DEF HasAdmitted
  <2>2. st[k].lc = "ADMITTED" /\ st[k].id = u.id
    BY <1>5, <2>1, Stages DEF Evolves, Descends
  <2>3. Busy(r[k]) /\ Busy(st[k])
    BY <2>1, <2>2 DEF Busy
  <2>4. ActionForId(r, u.id) = r[k] /\ ActionForId(st, u.id) = st[k]
    BY <1>1, <1>6, <2>1, <2>2, <2>3, BusyNamed DEF Sound
  <2>5. ~u.alive /\ u.outcome # None
    BY <1>2, <2>1, <2>4 DEF Accounted
  <2>6. u \in Results(units) /\ Held(ActionForId(st, u.id))
    BY <2>2, <2>4, <2>5 DEF Results, Held
  <2>7. Represented(r, u)
    BY <1>2, <2>6 DEF Accounted
  <2> QED
    BY <2>1, <2>4, <2>7 DEF Represented, Held, Failed
<1>11. Fits(t, units)
  BY <1>8, <1>9, <1>10 DEF Fits
<1> QED
  BY <1>11 DEF t, r

-----------------------------------------------------------------------------
(* Every step. *)

\* A unit for the admitted action: the only one, as no other has its id.
LEMMA SubmitExclusion ==
    ASSUME ExclusionInv, NEW alive \in BOOLEAN, NEW outcome \in Terminal \cup {None},
           NEW next \in {"ack", "doubt", "refused"}, alive => next = "ack", TypeInv',
           Submit([id |-> offer.id, alive |-> alive, outcome |-> outcome], next)
    PROVE  ExclusionInv'
<1> DEFINE n == [id |-> offer.id, alive |-> alive, outcome |-> outcome]
<1>1. /\ up /\ ~Submitted /\ EffectIsCurrent
      /\ units' = units \cup {n} /\ chore' = next
      /\ UNCHANGED <<st, up, offer>>
  BY DEF Submit, Fencing, FencePasses, Idle, Submitted
<1>2. HasAdmitted(st, offer.id)
  BY <1>1 DEF EffectIsCurrent, Admitted, Mutators, HasAdmitted, Kinds
<1>3. offer.id # 0 /\ offer.id <= st.seq
  BY <1>2, Stages DEF HasAdmitted, ExclusionInv, Ids, Numbered
<1>4. \A u \in units : u.id # offer.id
  BY <1>1, <1>2 DEF ExclusionInv, Unsubmitted
<1>5. n.id = offer.id /\ n.alive = alive
  OBVIOUS
<1> HIDE DEF n
<1>6. UnitsNumbered(units \cup {n}, st.seq)
  BY <1>3, <1>4, <1>5 DEF ExclusionInv, UnitsNumbered
<1>7. \A u \in units : u.alive => HasLive(st, u.id)
  BY <1>1 DEF ExclusionInv, Covered, Submitted
<1>8. Covered'
  BY <1>1, <1>5, <1>7 DEF Covered
<1>9. Submitted' /\ Unsubmitted' /\ up'
  BY <1>1 DEF Submitted, Unsubmitted
<1>10. Ids(st)' /\ Placed(st)' /\ PlanApart(st)' /\ UnitsNumbered(units, st.seq)'
  BY <1>1, <1>6 DEF ExclusionInv
<1>11. HasAdmitted(st, offer.id)'
  BY <1>1, <1>2
<1> QED
  BY <1>8, <1>9, <1>10, <1>11 DEF ExclusionInv

\* What touches neither the state nor the units.
LEMMA AsideExclusion ==
    ASSUME ExclusionInv, TypeInv', UNCHANGED <<st, up, chore, units>>,
           UNCHANGED offer \/ ~Submitted
    PROVE  ExclusionInv'
<1>1. Ids(st)' /\ Placed(st)' /\ PlanApart(st)' /\ UnitsNumbered(units, st.seq)'
  BY DEF ExclusionInv
<1>2. Submitted' = Submitted
  BY DEF Submitted
<1>3. Submitted' => HasAdmitted(st, offer.id)'
  BY <1>2 DEF ExclusionInv
<1>4. Covered' /\ Unsubmitted'
  BY <1>2 DEF ExclusionInv, Covered, Unsubmitted, Submitted
<1> QED
  BY <1>1, <1>3, <1>4 DEF ExclusionInv

\* A worker that ends is a unit that may not run any more.
LEMMA WorkerEndsExclusion == ASSUME ExclusionInv, TypeInv', WorkerEnds PROVE ExclusionInv'
<1>1. PICK u \in units, outcome \in WorkerOutcomes :
        units' = (units \ {u}) \cup {[u EXCEPT !.alive = FALSE, !.outcome = outcome]}
  BY DEF WorkerEnds
<1> DEFINE e == [u EXCEPT !.alive = FALSE, !.outcome = outcome]
<1>2. e.id = u.id /\ ~e.alive
  BY DEF ExclusionInv, TypeInv, TypeOK, Units
<1>3. units' = (units \ {u}) \cup {e}
  BY <1>1
<1> HIDE DEF e
<1>4. UNCHANGED <<st, up, chore, offer>>
  BY DEF WorkerEnds
<1>5. Ids(st)' /\ Placed(st)' /\ PlanApart(st)'
  BY <1>4 DEF ExclusionInv
<1>6. UnitsNumbered(units', st.seq)
  BY <1>2, <1>3 DEF ExclusionInv, UnitsNumbered
<1>7. Submitted' = Submitted
  BY <1>4 DEF Submitted
<1>8. Covered' /\ Unsubmitted'
  BY <1>2, <1>3, <1>4, <1>7 DEF ExclusionInv, Covered, Unsubmitted
<1>9. Submitted' => HasAdmitted(st, offer.id)'
  BY <1>4, <1>7 DEF ExclusionInv
<1> QED
  BY <1>4, <1>5, <1>6, <1>8, <1>9 DEF ExclusionInv

\* Every step of the controller, its workers and its crashes keeps the invariant.
LEMMA StepExclusion == ASSUME ExclusionInv, Next PROVE ExclusionInv'
<1> USE ControllerAssumption
<1>0. /\ st \in State /\ Sound(st) /\ Ids(st) /\ gen \in Nat /\ since \in Nat /\ offer \in Offers
      /\ units \in SUBSET Units /\ task \in Nat /\ offer.id \in Nat
  BY DEF ExclusionInv, TypeInv, TypeOK, Sound, Offers
<1>0a. st.egen \in Nat /\ st.egen + 1 \in Nat /\ st.planning.id \in Nat
  BY <1>0, Fields DEF Action
<1>0b. TypeInv'
  BY StepType DEF ExclusionInv
<1>0c. ASSUME NEW d \in Decisions, up, ~Submitted, Advances(st, d.st, Nobody), Process(d)
       PROVE ExclusionInv'
  BY <1>0, <1>0c, DecisionParts, QuietFits, CommitExclusion DEF Process
<1>0d. ASSUME NEW d \in Decisions, up, ~Submitted, Evolves(st, d.st, Nobody), Process(d)
       PROVE ExclusionInv'
  BY <1>0, <1>0c, <1>0d, EvolvesAdvances
<1>0e. \A u \in units : u.id \in Nat /\ u.id # 0 /\ u.outcome \in Terminal \cup {None}
  BY <1>0 DEF Units, ExclusionInv, UnitsNumbered
<1>0f. chore # "none" => up
  BY DEF ExclusionInv
<1>0g. ASSUME NEW d \in Decisions, NEW u \in units, up, ~Submitted, ~u.alive,
              Evolves(st, d.st, u.id), Process(d)
       PROVE ExclusionInv'
  <2>1. \A v \in units : v.alive => v.id # u.id
    BY <1>0g DEF ExclusionInv, UnitsNumbered
  <2>2. Fits(d.st, units)
    BY <1>0, <1>0g, <2>1, DecisionParts, EvolvesAdvances, OrdinaryFits
  <2> QED
    BY <1>0, <1>0g, <2>2, CommitExclusion DEF Process
<1>0h. \A a \in Mutators(st) : a.id \in Nat
  BY <1>0, Fields DEF Mutators, Action
<1>0i. \A d, open : open \in Offers /\ d \in Decisions /\ Fits(d.st, units) /\ Commit(d, open, units, gen)
         => ExclusionInv'
  BY <1>0, CommitExclusion
<1>0j. NoOffer \in Offers
  BY NoOfferType
<1>1. CASE NotifyDrmHint
  BY <1>0b, <1>1, AsideExclusion DEF NotifyDrmHint
<1>2. CASE ProcessDrmHint
  <2>1. PICK dt \in Steps : Process(DrmHintReceived(st, st.egen + 1, dt))
    BY <1>2 DEF ProcessDrmHint
  <2>2. /\ DrmHintReceived(st, st.egen + 1, dt) \in Decisions
        /\ Evolves(st, DrmHintReceived(st, st.egen + 1, dt).st, Nobody)
    BY <1>0, <1>0a, DrmHintReceivedType, DrmHintEvolves
  <2>3. up /\ ~Submitted
    BY <1>2 DEF ProcessDrmHint, Idle, Submitted
  <2> QED
    BY <1>0d, <2>1, <2>2, <2>3
<1>3. CASE ProcessTimer
  <2>1. Process(TimerFired(st)) /\ up /\ ~Submitted
    BY <1>3 DEF ProcessTimer, Idle, Submitted
  <2>2. TimerFired(st) \in Decisions /\ Evolves(st, TimerFired(st).st, Nobody)
    BY <1>0, TimerFiredType, QuietEvents
  <2> QED
    BY <1>0d, <2>1, <2>2
<1>4. CASE CompleteObservation
  <2>1. PICK k \in Keys, g \in since..gen, asleep \in Power, c \in Configs, dt \in Steps :
          Process(ObservationCompleted(st, [key |-> k, gen |-> g, asleep |-> asleep, cfg |-> c], dt))
    BY <1>4 DEF CompleteObservation, ProcessBounded
  <2> DEFINE o == [key |-> k, gen |-> g, asleep |-> asleep, cfg |-> c]
  <2>2. o \in Observations
    BY <1>0 DEF Observations
  <2>3. up /\ ~Submitted
    BY <1>0f, <1>4 DEF CompleteObservation, Submitted
  <2> HIDE DEF o
  <2>4. ObservationCompleted(st, o, dt) \in Decisions /\ Advances(st, ObservationCompleted(st, o, dt).st, Nobody)
    BY <1>0, <2>2, ObservationCompletedType, ObservationCompletedAdvances DEF Sound
  <2> QED
    BY <1>0c, <2>1, <2>3, <2>4 DEF o
<1>5. CASE FailObservation
  <2>1. Process(ObservationFailed(st)) /\ up /\ ~Submitted
    BY <1>0f, <1>5 DEF FailObservation, Submitted
  <2>2. ObservationFailed(st) \in Decisions /\ Evolves(st, ObservationFailed(st).st, Nobody)
    BY <1>0, ObservationFailedType, QuietEvents
  <2> QED
    BY <1>0d, <2>1, <2>2
<1>6. CASE ObserveBootChange
  <2>1. Commit(BootChanged(st), offer, {}, 0)
    BY <1>6 DEF ObserveBootChange
  <2>2. BootChanged(st) \in Decisions /\ Fits(BootChanged(st).st, {}) /\ {} \in SUBSET units
    BY <1>0, BootChangedType, FreshFits
  <2> QED
    BY <1>0, <2>1, <2>2, CommitExclusion
<1>7. CASE RequestPlan
  <2>1. Process(PlanRequested(st, st.planning.id)) /\ up /\ ~Submitted
    BY <1>0f, <1>7 DEF RequestPlan, Submitted
  <2>2. /\ PlanRequested(st, st.planning.id) \in Decisions
        /\ Evolves(st, PlanRequested(st, st.planning.id).st, Nobody)
    BY <1>0, <1>0a, PlanRequestedType, QuietEvents
  <2> QED
    BY <1>0d, <2>1, <2>2
<1>8. CASE CompletePlan
  <2>1. Process(PlanCompleted(st, task)) /\ up /\ ~Submitted
    BY <1>8 DEF CompletePlan, Idle, Submitted
  <2>2. PlanCompleted(st, task) \in Decisions /\ Evolves(st, PlanCompleted(st, task).st, Nobody)
    BY <1>0, PlanCompletedType, QuietEvents
  <2> QED
    BY <1>0d, <2>1, <2>2
<1>9. CASE FailPlan
  <2>1. PICK retryable \in BOOLEAN : Process(PlanFailed(st, task, retryable))
    BY <1>9 DEF FailPlan
  <2>2. up /\ ~Submitted /\ task # 0
    BY <1>9 DEF FailPlan, Idle, Submitted
  <2>3. PlanFailed(st, task, retryable) \in Decisions /\ Evolves(st, PlanFailed(st, task, retryable).st, Nobody)
    BY <1>0, <2>2, PlanFailedType, PlanFailedEvolves
  <2> QED
    BY <1>0d, <2>1, <2>2, <2>3
<1>10. CASE FenceDirtied
  <2>1. [offer EXCEPT !.dirty = TRUE] \in Offers
    BY <1>0 DEF Offers
  <2>2. PICK dt \in Steps : Commit(AdmissionDirtied(st, offer.id, gen, dt),
                                   [offer EXCEPT !.dirty = TRUE], units, gen)
    BY <1>10 DEF FenceDirtied
  <2> DEFINE d == AdmissionDirtied(st, offer.id, gen, dt)
  <2>3. d \in Decisions /\ Evolves(st, d.st, offer.id)
    BY <1>0, AdmissionDirtiedType, AdmissionDirtiedEvolves
  <2>4. up /\ ~Submitted
    BY <1>10 DEF FenceDirtied, Fencing, Idle, Submitted
  <2>5. Fits(d.st, units)
    <3>1. CASE \E a \in Actions(st) : a.id = offer.id /\ a.lc = "ADMITTED"
      <4>1. ~HasLive(st, offer.id)
        <5>1. CASE HasAdmitted(st, offer.id)
          BY <1>0, <5>1, AdmittedAlone
        <5>2. CASE st.planning.id = offer.id /\ st.planning.lc = "ADMITTED"
          BY <5>2 DEF ExclusionInv, PlanApart, HasLive
        <5> QED
          BY <3>1, <5>1, <5>2 DEF Actions, Mutators, HasAdmitted, Kinds
      <4>2. \A u \in units : u.alive => u.id # offer.id
        BY <2>4, <4>1 DEF ExclusionInv, Covered, Submitted
      <4> QED
        BY <1>0, <2>3, <2>4, <4>2, DecisionParts, EvolvesAdvances, OrdinaryFits
    <3>2. CASE ~\E a \in Actions(st) : a.id = offer.id /\ a.lc = "ADMITTED"
      <4>1. d = NoOp(st)
        BY <3>2 DEF AdmissionDirtied
      <4>2. Advances(st, d.st, Nobody)
        BY <1>0, <4>1, QuietEvents, EvolvesAdvances
      <4> QED
        BY <2>3, <2>4, <4>2, DecisionParts, QuietFits
    <3> QED
      BY <3>1, <3>2
  <2> HIDE DEF d
  <2> QED
    BY <1>0i, <2>1, <2>2, <2>3, <2>5 DEF d
<1>11. CASE FenceStale
  BY <1>0b, <1>11, AsideExclusion DEF FenceStale, Fencing, Idle, Submitted
<1>13. CASE SubmitAccepted
  BY <1>0b, <1>13, SubmitExclusion DEF SubmitAccepted
<1>14. CASE SubmitLost
  BY <1>0b, <1>14, SubmitExclusion DEF SubmitLost
<1>15. CASE SubmitRefused
  BY <1>0b, <1>15, SubmitExclusion DEF SubmitRefused, Terminal, Failed
<1>16. CASE RejectDispatch
  <2> DEFINE d == DispatchRejected(st, offer.id)
  <2>1. up /\ ~Submitted /\ EffectIsCurrent /\ Commit(d, NoOffer, units, gen)
    BY <1>16 DEF RejectDispatch, Fencing, Idle, Submitted
  <2>2. HasAdmitted(st, offer.id)
    BY <2>1 DEF EffectIsCurrent, Admitted, Mutators, HasAdmitted, Kinds
  <2>3. offer.id # 0
    BY <1>0, <2>2, Stages DEF HasAdmitted, Ids, Numbered
  <2>4. d \in Decisions /\ Evolves(st, d.st, offer.id)
    BY <1>0, <2>3, DispatchRejectedType, DispatchRejectedEvolves
  <2>5. \A u \in units : u.alive => u.id # offer.id
    BY <1>0, <2>1, <2>2, AdmittedAlone DEF ExclusionInv, Covered, Submitted
  <2>6. Fits(d.st, units)
    BY <1>0, <2>1, <2>4, <2>5, DecisionParts, EvolvesAdvances, OrdinaryFits
  <2> QED
    BY <1>0i, <1>0j, <2>1, <2>4, <2>6
<1>17. CASE AcknowledgeDispatch
  <2>1. Submitted /\ Commit(Dispatched(st, offer.id), NoOffer, units, gen)
    BY <1>17 DEF AcknowledgeDispatch, Submitted
  <2>2. Dispatched(st, offer.id) \in Decisions
    BY <1>0, DispatchedType
  <2>3. Fits(Dispatched(st, offer.id).st, units)
    BY <2>1, SubmittedLive, DispatchFits
  <2> QED
    BY <1>0i, <1>0j, <2>1, <2>2, <2>3
<1>19. CASE MarkDispatchUncertain
  <2> DEFINE t == Dispatched(st, offer.id).st
             d == WorkerUncertain(t, offer.id, "UNKNOWN")
  <2>1. Submitted /\ Commit(d, NoOffer, units, gen)
    BY <1>19 DEF MarkDispatchUncertain, Submitted
  <2>2. t \in State /\ Evolves(st, t, offer.id) /\ Ids(t) /\ HasLive(t, offer.id)
    BY <2>1, SubmittedLive
  <2> HIDE DEF t
  <2>3. d \in Decisions /\ Evolves(t, d.st, Nobody) /\ Ids(d.st)
    BY <1>0, <2>2, WorkerUncertainType, UncertainEvolves
  <2>4. Evolves(st, d.st, offer.id) /\ HasLive(d.st, offer.id)
    BY <2>2, <2>3, EvolvesAny, EvolvesOn, EvolvesKeeps
  <2>5. Fits(d.st, units)
    BY <2>1, <2>3, <2>4, DecisionParts, DispatchFits
  <2> QED
    BY <1>0i, <1>0j, <2>1, <2>3, <2>5
<1>20. CASE CompleteRefusedStart
  <2> DEFINE d == Finished(Dispatched(st, offer.id).st, offer.id, "FAILED", TRUE)
  <2>1. Commit(d, NoOffer, units, gen) /\ Fits(d.st, units)
    BY <1>20, RefusedFits DEF CompleteRefusedStart
  <2>2. d \in Decisions
    BY <1>0, DispatchedType, DecisionParts, FinishedType DEF Outcomes
  <2> QED
    BY <1>0i, <1>0j, <2>1, <2>2
<1>21. CASE WorkerEnds
  BY <1>0b, <1>21, WorkerEndsExclusion
<1>22. CASE ReportWorker
  <2>1. PICK u \in units :
          /\ ~u.alive
          /\ Process(IF u.outcome \in {None, "UNKNOWN"}
                     THEN WorkerUncertain(st, u.id, "UNKNOWN")
                     ELSE IF u.outcome = "TIMED_OUT"
                     THEN WorkerUncertain(st, u.id, "TIMED_OUT")
                     ELSE Finished(st, u.id, EventOutcome(u.outcome), TRUE))
    BY <1>22 DEF ReportWorker
  <2>2. up /\ ~Submitted
    BY <1>22 DEF ReportWorker, Idle, Submitted
  <2>3. \A lc \in {"UNKNOWN", "TIMED_OUT"} :
          /\ WorkerUncertain(st, u.id, lc) \in Decisions
          /\ Evolves(st, WorkerUncertain(st, u.id, lc).st, Nobody)
    BY <1>0, <1>0e, WorkerUncertainType, UncertainEvolves
  <2>4. CASE u.outcome \in {None, "UNKNOWN"}
    BY <1>0d, <2>1, <2>2, <2>3, <2>4
  <2>5. CASE u.outcome \notin {None, "UNKNOWN"} /\ u.outcome = "TIMED_OUT"
    BY <1>0d, <2>1, <2>2, <2>3, <2>5
  <2>6. CASE u.outcome \notin {None, "UNKNOWN", "TIMED_OUT"}
    <3> DEFINE d == Finished(st, u.id, EventOutcome(u.outcome), TRUE)
    <3>1. EventOutcome(u.outcome) \in Outcomes
      BY <1>0e, <2>6, EventOutcomeType
    <3>2. d \in Decisions /\ Evolves(st, d.st, u.id)
      BY <1>0, <1>0e, <3>1, FinishedType, FinishedEvolves DEF Ids
    <3>3. Process(d)
      BY <2>1, <2>6
    <3> HIDE DEF d
    <3> QED
      BY <1>0g, <2>1, <2>2, <3>2, <3>3
  <2> QED
    BY <2>4, <2>5, <2>6
<1>23. CASE DoubtWorker
  <2>1. PICK a \in Mutators(st), lc \in {"UNKNOWN", "TIMED_OUT"} : Process(WorkerUncertain(st, a.id, lc))
    BY <1>23 DEF DoubtWorker
  <2>2. up /\ ~Submitted
    BY <1>23 DEF DoubtWorker, Idle, Submitted
  <2>3. WorkerUncertain(st, a.id, lc) \in Decisions /\ Evolves(st, WorkerUncertain(st, a.id, lc).st, Nobody)
    BY <1>0, <1>0h, WorkerUncertainType, UncertainEvolves
  <2> QED
    BY <1>0d, <2>1, <2>2, <2>3
<1>24. CASE StopAcknowledged
  <2>1. PICK u \in units : /\ ~u.alive /\ u.outcome # None
                           /\ Process(WorkerCancellationAcknowledged(st, u.id, u.outcome))
    BY <1>24 DEF StopAcknowledged
  <2>2. up /\ ~Submitted
    BY <1>0f, <1>24 DEF StopAcknowledged, Submitted
  <2>3. /\ WorkerCancellationAcknowledged(st, u.id, u.outcome) \in Decisions
        /\ Evolves(st, WorkerCancellationAcknowledged(st, u.id, u.outcome).st, u.id)
    BY <1>0, <1>0e, <2>1, CancellationAcknowledgedType, AcknowledgedEvolves
  <2> QED
    BY <1>0g, <2>1, <2>2, <2>3
<1>25. CASE StopDoubted
  <2>1. PICK a \in Mutators(st) : Process(WorkerUncertain(st, a.id, "UNKNOWN"))
    BY <1>25 DEF StopDoubted
  <2>2. up /\ ~Submitted
    BY <1>0f, <1>25 DEF StopDoubted, Submitted
  <2>3. /\ WorkerUncertain(st, a.id, "UNKNOWN") \in Decisions
        /\ Evolves(st, WorkerUncertain(st, a.id, "UNKNOWN").st, Nobody)
    BY <1>0, <1>0h, WorkerUncertainType, UncertainEvolves
  <2> QED
    BY <1>0d, <2>1, <2>2, <2>3
<1>26. CASE StopIneffective
  <2>1. Process(NoOp(st)) /\ up /\ ~Submitted
    BY <1>0f, <1>26 DEF StopIneffective, Submitted
  <2>2. NoOp(st) \in Decisions /\ Evolves(st, NoOp(st).st, Nobody)
    BY <1>0, NoOpType, QuietEvents
  <2> QED
    BY <1>0d, <2>1, <2>2
<1>27. CASE Crash
  BY <1>0b, <1>27, EndsExclusion DEF Crash
<1>28. CASE Restart
  <2> DEFINE d == ControllerStarted(Reconciled(st, units))
  <2>1. Commit(d, NoOffer, units, st.egen) /\ Fits(d.st, units)
    BY <1>28, RestartFits DEF Restart
  <2>2. d \in Decisions
    BY <1>0, ReconciledType, ControllerStartedType
  <2> QED
    BY <1>0a, <1>0j, <2>1, <2>2, CommitExclusion
<1>29. CASE RefuseStart
  BY <1>0b, <1>29, AsideExclusion DEF RefuseStart, vars
<1>30. CASE NewSession
  <2> DEFINE d == ControllerStarted(NewSessionState(st))
  <2>1. Commit(d, NoOffer, {}, 0) /\ Fits(d.st, {}) /\ {} \in SUBSET units
    BY <1>30, FreshFits DEF NewSession
  <2>2. d \in Decisions
    BY <1>0, NewSessionType, ControllerStartedType
  <2> QED
    BY <1>0j, <2>1, <2>2, CommitExclusion
<1> QED
  BY <1>1, <1>2, <1>3, <1>4, <1>5, <1>6, <1>7, <1>8, <1>9, <1>10, <1>11, <1>13, <1>14, <1>15,
     <1>16, <1>17, <1>19, <1>20, <1>21, <1>22, <1>23, <1>24, <1>25, <1>26, <1>27, <1>28, <1>29,
     <1>30 DEF Next

\* A first start satisfies the invariant: it has no action and no unit.
LEMMA InitExclusion == Init => ExclusionInv
<1> SUFFICES ASSUME Init PROVE ExclusionInv
  OBVIOUS
<1>1. TypeInv /\ units = {} /\ chore = "none"
  BY InitType DEF Init
<1>2. st.probe = NoAction /\ st.app = NoAction /\ st.prep = NoAction /\ st.fin = NoAction
      /\ st.planning = NoAction /\ st.phase = "RECOVERING" /\ st.prepState = "PREPARE_IDLE"
  BY DEF Init, InitialState
<1>3. Ids(st) /\ Placed(st)
  BY <1>2, EmptySound DEF Kinds
<1>4. PlanApart(st)
  BY <1>2, NoActionStage DEF PlanApart
<1> QED
  BY <1>1, <1>3, <1>4 DEF ExclusionInv, UnitsNumbered, Submitted, Covered, Unsubmitted

\* The invariant holds in every reachable state.
THEOREM ExclusionHolds == Spec => []ExclusionInv
<1>1. Init => ExclusionInv
  BY InitExclusion
<1>2. ExclusionInv /\ [Next]_vars => ExclusionInv'
  <2> SUFFICES ASSUME ExclusionInv, [Next]_vars PROVE ExclusionInv'
    OBVIOUS
  <2>1. CASE Next
    BY <2>1, StepExclusion
  <2>2. CASE UNCHANGED vars
    <3>1. TypeInv'
      BY <2>2 DEF vars, ExclusionInv, TypeInv, TypeOK, Pending
    <3> QED
      BY <2>2, <3>1, AsideExclusion DEF vars
  <2> QED
    BY <2>1, <2>2
<1> QED
  BY <1>1, <1>2, PTL DEF Spec

\* A unit that may run belongs to a busy mutator of the saved state.
LEMMA AliveBusy ==
    ASSUME ExclusionInv, NEW u \in units, u.alive
    PROVE  \E k \in Kinds : Busy(st[k]) /\ st[k].id = u.id
<1>1. HasLive(st, u.id) \/ HasAdmitted(st, u.id)
  BY DEF ExclusionInv, Covered, Submitted
<1> QED
  BY <1>1, Stages DEF HasLive, HasAdmitted

\* "One display mutation boundary": two workers never run at once, for every set
\* of profiles and samples, and however the controller is crashed and restarted
\* between the submission of a unit and the acknowledgement of its dispatch.
THEOREM WorkersExclude == Spec => []OneLiveWorker
<1>1. ExclusionInv => OneLiveWorker
  <2> SUFFICES ASSUME ExclusionInv, NEW u \in units, NEW v \in units, u.alive, v.alive
               PROVE u = v
    BY DEF OneLiveWorker
  <2>1. PICK k \in Kinds : Busy(st[k]) /\ st[k].id = u.id
    BY AliveBusy
  <2>2. PICK j \in Kinds : Busy(st[j]) /\ st[j].id = v.id
    BY AliveBusy
  <2>3. u.id = v.id
    BY <2>1, <2>2 DEF ExclusionInv, Ids
  <2> QED
    BY <2>3 DEF ExclusionInv, UnitsNumbered
<1> QED
  BY <1>1, ExclusionHolds, PTL

\* A worker that may still run is the one the saved state excludes others for, or
\* is being acknowledged, or is one that recover_state refuses to dispatch beside.
THEOREM WorkersExcluded == Spec => []LiveWorkerExcluded
<1>1. ExclusionInv => LiveWorkerExcluded
  <2> SUFFICES ASSUME ExclusionInv, NEW u \in units, u.alive
               PROVE \/ ActionForId(st, u.id).lc \in {"DISPATCHED", "STOPPING"}
                     \/ chore = "ack" /\ u.id = offer.id
                     \/ ~up /\ ~Granted(st, units)
    BY DEF LiveWorkerExcluded
  <2>0. st \in State /\ Ids(st) /\ units \in SUBSET Units /\ \A v \in units : v.id # 0
    BY DEF ExclusionInv, TypeInv, TypeOK, UnitsNumbered
  <2>1. CASE HasLive(st, u.id)
    BY <2>0, <2>1, BusyNamed, Stages DEF HasLive, Live
  <2>2. CASE chore = "ack" /\ u.id = offer.id
    BY <2>2
  <2>3. CASE ~up /\ HasAdmitted(st, u.id)
    <3> SUFFICES ASSUME Granted(st, units) PROVE FALSE
      BY <2>3
    <3>1. PICK k \in Kinds : st[k].lc = "ADMITTED" /\ st[k].id = u.id
      BY <2>3 DEF HasAdmitted
    <3>2. ActionForId(st, u.id).lc = "ADMITTED"
      BY <2>0, <3>1, BusyNamed DEF Busy
    <3>3. Missed(st, units) = {}
      <4> SUFFICES ASSUME NEW v \in Missed(st, units) PROVE FALSE
        OBVIOUS
      <4>1. v \in units /\ ~v.alive /\ ActionForId(st, v.id).lc \in {"ADMITTED", "DISPATCHED", "STOPPING"}
        BY DEF Missed, Results
      <4>2. PICK j \in Kinds : st[j] = ActionForId(st, v.id) /\ st[j].id = v.id
        BY <4>1, NamedBusy DEF Held
      <4>3. Busy(st[j]) /\ Busy(st[k])
        BY <3>1, <4>1, <4>2 DEF Busy, InFlight
      <4>4. v.id = u.id
        BY <2>0, <3>1, <4>2, <4>3 DEF Ids
      <4> QED
        BY <4>1, <4>4 DEF ExclusionInv, UnitsNumbered
    <3>4. Reconciled(st, units) = st
      BY <3>3 DEF Reconciled
    <3> QED
      BY <3>2, <3>4 DEF Granted, Accounted
  <2> QED
    BY <2>1, <2>2, <2>3 DEF ExclusionInv, Covered
<1> QED
  BY <1>1, ExclusionHolds, PTL

-----------------------------------------------------------------------------
(* The invariant of proofs, plans, loads, results and wake-ups. *)

\* A plan that is held has an id; one that is pending, or that a preparation was
\* made for, is held.
Planned(s) ==
    /\ Counted(s) /\ s.planning.id <= s.seq
    /\ s.planState = "PLAN_PENDING" => Held(s.planning)
    /\ Held(s.prep) => Held(s.planning) /\ s.prep.plan = s.planning.id

\* A timer is armed, nothing is left to do, or a worker will report.
Awake(s, us) == s.timer # "none" \/ Quiet(s) \/ \E u \in us : HasLive(s, u.id)

\* A finalization that waits for its confirmation had a worker that succeeded.
Backed(s, us) ==
    s.fin.lc = "RESULT_PENDING" => \E u \in us : u.id = s.fin.id /\ u.outcome = "COMPLETED"

ProgressInv ==
    /\ FirstStart(st)
    /\ Planned(st)
    /\ discarded # 0 => st.planning.id = discarded /\ ~Used(st)
    /\ Backed(st, units)
    /\ \A u \in units : u.alive => u.outcome = None
    /\ Submitted => \E u \in units : u.id = offer.id
    /\ up => Awake(st, units)
    /\ NoOrphanPlan
    /\ NoLaptopLoadUnderIntent

\* What a step leaves: a desktop that a worker or an adoption finalized, and the
\* plan that there was, none or a new one.
Renumbers(s, t) == t.planning.id \in {0, s.planning.id} \/ t.planning.id > s.seq

Carries(s, t) == Confirmed(s, t) /\ Renumbers(s, t)

\* What a decision must bring for the invariant to hold once it is saved.
Warrants(d, us) ==
    /\ Confirmed(st, d.st)
    /\ Loads(st, d.st)
    /\ Counted(d.st)
    /\ \/ d.st.planning.id = 0
       \/ d.st.planning.id > st.seq
       \/ d.st.planning.id = st.planning.id /\ (Used(d.st) => Used(st))
    /\ "discard" \in d.fx => ~Used(d.st)
    /\ Proving(d.st) /\ d.st.planState = "PLANNING" => chore = "plan" \/ task = d.st.planning.id
    /\ Backed(d.st, us)
    /\ Awake(d.st, us)

\* The checks tie plans and preparations together.
LEMMA CheckedPlanned ==
    \A s \in State : FailedChecks(s) = {} /\ Counted(s) => Planned(s)
<1> SUFFICES ASSUME NEW s \in State, FailedChecks(s) = {}, Counted(s) PROVE Planned(s)
  OBVIOUS
<1>1. PlanningRelationships(s) /\ PersistenceRelationships(s) /\ ActionIdentities(s)
  BY DEF FailedChecks
<1>2. s.seq \in Nat /\ s.planning.id \in Nat
  BY Fields DEF Action
<1>3. s.planning.id <= s.seq
  <2>1. CASE Held(s.planning)
    <3>1. s.planning \in Actions(s)
      BY <2>1 DEF Actions
    <3> QED
      BY <1>1, <3>1 DEF ActionIdentities
  <2>2. CASE ~Held(s.planning)
    BY <1>2, <2>2 DEF Counted
  <2> QED
    BY <2>1, <2>2
<1>4. CASE s.phase = "RECOVERING"
  <2>1. s.planState = "PLAN_IDLE" /\ ~Held(s.prep)
    BY <1>1, <1>4 DEF PersistenceRelationships, Actions, Mutators
  <2> QED
    BY <1>3, <2>1 DEF Planned
<1>5. CASE s.phase # "RECOVERING"
  <2>1. s.planState = "PLAN_PENDING" => s.planning.lc = "ADMITTED"
    BY <1>1, <1>5 DEF PlanningRelationships, Matches
  <2>2. s.planState = "PLAN_READY" => s.planning.lc = "COMPLETED"
    BY <1>1, <1>5 DEF PlanningRelationships, Matches
  <2>3. Held(s.prep) => s.planState = "PLAN_READY" /\ s.prep.plan = s.planning.id
    BY <1>1, <1>5 DEF PlanningRelationships
  <2> QED
    BY <1>3, <2>1, <2>2, <2>3 DEF Planned, Held
<1> QED
  BY <1>4, <1>5

\* What the invariant reads of a state.
Reads(s, t) == \A f \in Watched \cup {"timer", "stable", "probe"} : t[f] = s[f]

\* Pruning the tombstones changes none of it.
LEMMA PrunedReads ==
    \A s \in State : Reads(s, [s EXCEPT !.tombs = RetainedTombstones(s)])
  BY WatchedFields DEF Reads, Watched

\* States that agree on it satisfy the same.
LEMMA ReadsSame ==
    ASSUME NEW s, NEW t, Reads(s, t)
    PROVE  /\ FirstStart(s) <=> FirstStart(t)
           /\ Planned(s) <=> Planned(t)
           /\ Used(s) <=> Used(t)
           /\ Proving(s) <=> Proving(t)
           /\ Loading(s) <=> Loading(t)
           /\ \A us : Awake(s, us) <=> Awake(t, us)
           /\ \A us : Backed(s, us) <=> Backed(t, us)
           /\ \A r : Confirmed(r, s) <=> Confirmed(r, t)
<1>1. \A f \in Watched \cup {"timer", "stable", "probe"} : t[f] = s[f]
  BY DEF Reads
<1>2. FirstStart(s) <=> FirstStart(t)
  BY <1>1 DEF Watched, FirstStart
<1>3. Planned(s) <=> Planned(t)
  BY <1>1 DEF Watched, Planned, Counted
<1>4. (Used(s) <=> Used(t)) /\ (Proving(s) <=> Proving(t)) /\ (Loading(s) <=> Loading(t))
  BY <1>1 DEF Watched, Used, Proving, Loading
<1>5. \A us : Awake(s, us) <=> Awake(t, us)
  <2>1. Quiet(s) <=> Quiet(t)
    BY <1>1 DEF Watched, Quiet
  <2>2. \A k \in Kinds : t[k] = s[k]
    BY <1>1 DEF Watched, Kinds
  <2>3. \A id : HasLive(s, id) <=> HasLive(t, id)
    BY <2>2 DEF HasLive
  <2>4. t.timer = s.timer
    BY <1>1
  <2> QED
    BY <2>1, <2>3, <2>4 DEF Awake
<1>6. \A us : Backed(s, us) <=> Backed(t, us)
  BY <1>1 DEF Watched, Backed
<1>7. \A r : Confirmed(r, s) <=> Confirmed(r, t)
  BY <1>1, <1>2 DEF Watched, Confirmed
<1> QED
  BY <1>2, <1>3, <1>4, <1>5, <1>6, <1>7

\* The units that are kept include those of live actions and of awaited results.
LEMMA KeptUseful ==
    \A s, us : Ids(s) =>
        /\ Awake(s, us) => Awake(s, KeptUnits(s, us))
        /\ Backed(s, us) => Backed(s, KeptUnits(s, us))
<1> SUFFICES ASSUME NEW s, NEW us, Ids(s)
             PROVE /\ Awake(s, us) => Awake(s, KeptUnits(s, us))
                   /\ Backed(s, us) => Backed(s, KeptUnits(s, us))
  OBVIOUS
<1>1. ASSUME NEW k \in Kinds, Busy(s[k]), NEW u \in us, u.id = s[k].id PROVE u \in KeptUnits(s, us)
  <2>1. ActionForId(s, u.id) = s[k] /\ Held(s[k])
    BY <1>1, BusyNamed, Stages
  <2> QED
    BY <2>1 DEF KeptUnits
<1>2. Awake(s, us) => Awake(s, KeptUnits(s, us))
  BY <1>1, Stages DEF Awake, HasLive
<1>3. Backed(s, us) => Backed(s, KeptUnits(s, us))
  BY <1>1 DEF Backed, Kinds, Busy, InFlight
<1> QED
  BY <1>2, <1>3

\* A decision that warrants it is saved, and its desktop is finalized by a worker.
LEMMA SavesProgress ==
    ASSUME ExclusionInv, ProgressInv, ExclusionInv', NEW d \in Decisions, NEW open,
           NEW us \in SUBSET units, NEW generation, FailedChecks(d.st) = {},
           Saves(d, open, us, generation), Warrants(d, us)
    PROVE  ProgressInv' /\ Carries(st, st')
<1> DEFINE s == [d.st EXCEPT !.tombs = RetainedTombstones(d.st)]
<1>1. d.st \in State /\ st \in State
  BY DecisionParts DEF ExclusionInv, TypeInv, TypeOK
<1>2. Reads(d.st, s)
  BY <1>1, PrunedReads
<1>3. /\ st' = s /\ up' = TRUE /\ chore' = NextChore(d.fx)
      /\ task' = IF s.planState = "PLANNING" /\ (chore = "plan" \/ task = s.planning.id)
                 THEN s.planning.id ELSE 0
      /\ discarded' = IF "discard" \in d.fx THEN s.planning.id
                      ELSE IF s.planning.id = discarded THEN discarded ELSE 0
      /\ units' = KeptUnits(s, us)
  BY DEF Saves
<1> HIDE DEF s
<1>4. ~Submitted'
  BY <1>3 DEF Submitted, NextChore
<1>5. Confirmed(st, s) /\ FirstStart(s) /\ Planned(s)
  <2>1. FirstStart(d.st) /\ Planned(d.st)
    BY <1>1, CheckedPlanned DEF Warrants, ProgressInv, Confirmed
  <2> QED
    BY <1>2, <2>1, ReadsSame DEF Warrants
<1>6. /\ s.planning = d.st.planning /\ s.planState = d.st.planState /\ s.intent = d.st.intent
      /\ (Used(s) <=> Used(d.st)) /\ (Proving(s) <=> Proving(d.st)) /\ (Loading(s) <=> Loading(d.st))
  BY <1>2, ReadsSame DEF Reads, Watched
<1>7. discarded' # 0 => s.planning.id = discarded' /\ ~Used(s)
  <2>1. st.seq \in Nat /\ st.planning.id \in Nat /\ s.planning.id \in Nat
    BY <1>1, <1>6, Fields DEF Action
  <2>2. CASE "discard" \in d.fx
    BY <1>3, <1>6, <2>2 DEF Warrants
  <2>3. CASE "discard" \notin d.fx /\ discarded' # 0
    <3>1. s.planning.id = discarded' /\ discarded' = discarded
      BY <1>3, <2>3
    <3>2. st.planning.id = discarded /\ ~Used(st) /\ st.planning.id <= st.seq
      BY <2>3, <3>1 DEF ProgressInv, Planned
    <3>3. Used(d.st) => Used(st)
      BY <1>6, <2>1, <2>3, <3>1, <3>2 DEF Warrants
    <3> QED
      BY <1>6, <3>1, <3>2, <3>3
  <2> QED
    BY <2>2, <2>3
<1>8. Awake(s, units') /\ Backed(s, units')
  <2>1. Ids(s)
    BY <1>3 DEF ExclusionInv
  <2>2. Awake(s, us) /\ Backed(s, us)
    BY <1>2, ReadsSame DEF Warrants
  <2> QED
    BY <1>3, <2>1, <2>2, KeptUseful
<1>9. \A u \in units' : u.alive => u.outcome = None
  BY <1>3 DEF KeptUnits, ProgressInv
<1>10. Proving(s) /\ s.planState = "PLANNING" => task' = s.planning.id
  BY <1>3, <1>6 DEF Warrants
<1>11. Loading(s) => ~s.intent
  <2>1. st.intent \in BOOLEAN /\ s.intent \in BOOLEAN
    BY <1>1, <1>6, Fields
  <2>2. ~(Loading(st) /\ st.intent = TRUE)
    BY DEF ProgressInv, NoLaptopLoadUnderIntent, Loading
  <2> QED
    BY <1>6, <2>1, <2>2 DEF Warrants, Loads
<1>12. NoOrphanPlan' /\ NoLaptopLoadUnderIntent'
  BY <1>3, <1>10, <1>11 DEF NoOrphanPlan, NoLaptopLoadUnderIntent, Proving, Loading
<1>13. FirstStart(st)' /\ Planned(st)' /\ (discarded # 0 => st.planning.id = discarded /\ ~Used(st))'
  BY <1>3, <1>5, <1>7
<1>14. Backed(st, units)' /\ Awake(st, units)'
  BY <1>3, <1>8
<1>15. Carries(st, st')
  BY <1>3, <1>5, <1>6 DEF Warrants, Carries, Renumbers
<1> QED
  BY <1>3, <1>4, <1>9, <1>12, <1>13, <1>14, <1>15 DEF ProgressInv

\* What leaves the state alone, and every unit or a successor of it.
LEMMA AsideProgress ==
    ASSUME ExclusionInv, ProgressInv, UNCHANGED <<st, discarded>>,
           \A u \in units : \E v \in units' : v.id = u.id /\ (u.outcome # None => v.outcome = u.outcome),
           \A u \in units' : u.alive => u.outcome = None,
           Submitted' => \E u \in units' : u.id = offer.id',
           up' => up /\ task' = task
    PROVE  ProgressInv' /\ Carries(st, st')
<1>1. st' = st /\ discarded' = discarded
  OBVIOUS
<1>2. FirstStart(st)' /\ Planned(st)' /\ (discarded # 0 => st.planning.id = discarded /\ ~Used(st))'
  BY <1>1 DEF ProgressInv
<1>3. "COMPLETED" # None
  BY OutcomeAssumption DEF Terminal
<1>4. Backed(st, units)'
  BY <1>1, <1>3 DEF ProgressInv, Backed
<1>5. up' => Awake(st, units)'
  BY <1>1 DEF ProgressInv, Awake
<1>6. NoOrphanPlan' /\ NoLaptopLoadUnderIntent'
  BY <1>1 DEF ProgressInv, NoOrphanPlan, NoLaptopLoadUnderIntent
<1>7. Carries(st, st')
  BY <1>1 DEF Carries, Confirmed, Renumbers
<1> QED
  BY <1>2, <1>4, <1>5, <1>6, <1>7 DEF ProgressInv

\* A state that holds nothing and has seen nothing.
Blank(t) ==
    /\ t.phase = "RECOVERING" /\ t.planState = "PLAN_IDLE" /\ t.prepState = "PREPARE_IDLE"
    /\ t.obs = None /\ t.egen = 0 /\ t.verify = -1 /\ t.finalized = None /\ t.unplug = NoUnplug
    /\ t.required = TRUE => t.baseline = FALSE
    /\ t.required \in BOOLEAN
    /\ t.tombs = {} /\ t.probed = {} /\ t.applied = {}
    /\ t.planning = NoAction /\ \A k \in Kinds : t[k] = NoAction

\* It passes the checks.
LEMMA BlankPasses == ASSUME NEW t, Blank(t) PROVE FailedChecks(t) = {}
<1> USE DEF Blank
<1>1. NoAction.lc = "ABSENT" /\ NoAction.gen = 0 /\ NoUnplug.n = 0
  BY DEF NoAction, NoUnplug
<1>2. ~Held(NoAction) /\ Mutators(t) = {NoAction} /\ Actions(t) = {} /\ MutatorsInFlight(t) = {}
  BY <1>1 DEF Held, Mutators, Actions, MutatorsInFlight, InFlight, Kinds
<1>3. t.probe = NoAction /\ t.app = NoAction /\ t.prep = NoAction /\ t.fin = NoAction
  BY DEF Kinds
<1>4. PhaseRelationships(t) /\ PlanningRelationships(t) /\ WorkerAcknowledgements(t)
  BY <1>2 DEF PhaseRelationships, PlanningRelationships, WorkerAcknowledgements
<1>5. ActionIdentities(t)
  BY <1>2 DEF ActionIdentities
<1>6. ObservationAuthority(t) /\ LaptopLoadAuthorized(t) /\ FinalizationRequirement(t)
  BY DEF ObservationAuthority, LaptopLoadAuthorized, FinalizationRequirement
<1>7. ActionAuthorization(t)
  BY <1>1, <1>2, <1>3 DEF ActionAuthorization
<1>8. NumberedSafetyRules(t)
  BY <1>1, <1>2, <1>3 DEF NumberedSafetyRules
<1>9. AttemptHistory(t)
  BY <1>2, <1>3 DEF AttemptHistory
<1>10. PersistenceRelationships(t)
  BY <1>1, <1>2, <1>3 DEF PersistenceRelationships
<1> QED
  BY <1>4, <1>5, <1>6, <1>7, <1>8, <1>9, <1>10 DEF FailedChecks

\* A state of another boot or session passes the checks.
LEMMA FreshPasses ==
    \A s \in State : /\ Blank(BootChanged(s).st)
                     /\ Blank(ControllerStarted(NewSessionState(s)).st)
                     /\ FailedChecks(BootChanged(s).st) = {}
                     /\ FailedChecks(ControllerStarted(NewSessionState(s)).st) = {}
<1> SUFFICES ASSUME NEW s \in State
             PROVE /\ Blank(BootChanged(s).st)
                   /\ Blank(ControllerStarted(NewSessionState(s)).st)
  BY BlankPasses
<1>1. Blank(BootChanged(s).st)
  BY FreshStarts DEF Blank, BootChanged, Decision, InitialState
<1>2. Blank(NewSessionState(s))
  BY DEF Blank, NewSessionState, InitialState, Kinds
<1>3. \E delay : ControllerStarted(NewSessionState(s)).st = [NewSessionState(s) EXCEPT !.timer = delay]
  BY <1>2 DEF Blank, ControllerStarted, Schedule, Decision
<1>4. NewSessionState(s) \in State
  BY NewSessionType
<1>5. Blank(ControllerStarted(NewSessionState(s)).st)
  BY <1>2, <1>3, <1>4 DEF Blank, Kinds, State
<1> QED
  BY <1>1, <1>5

\* A process that ends leaves the state and its units.
LEMMA EndsProgress ==
    ASSUME ExclusionInv, ProgressInv, Ends, units' = units PROVE ProgressInv' /\ Carries(st, st')
<1>1. UNCHANGED <<st, discarded>> /\ up' = FALSE /\ chore' = "none"
  BY DEF Ends
<1>2. ~Submitted'
  BY <1>1 DEF Submitted
<1> QED
  BY <1>1, <1>2, AsideProgress DEF ProgressInv

\* _process_event keeps the invariant if what it decides warrants it, or raises.
LEMMA CommitProgress ==
    ASSUME ExclusionInv, ProgressInv, ExclusionInv', NEW d \in Decisions, NEW open,
           NEW us \in SUBSET units, us = units \/ FailedChecks(d.st) = {}, NEW generation,
           Commit(d, open, us, generation), Warrants(d, us)
    PROVE  ProgressInv' /\ Carries(st, st')
<1>1. CASE FailedChecks(d.st) = {} /\ Saves(d, open, us, generation)
  BY <1>1, SavesProgress
<1>2. CASE FailedChecks(d.st) # {} /\ Ends /\ units' = us
  BY <1>2, EndsProgress
<1> QED
  BY <1>1, <1>2 DEF Commit, SavesUnless

\* A result is backed if the event is about a worker that succeeded.
LEMMA ContinuesBacked ==
    ASSUME ProgressInv, NEW t \in State, NEW x, Succeeded(st, t, x),
           x = Nobody \/ \E u \in units : u.id = x /\ u.outcome = "COMPLETED"
    PROVE  Backed(t, units)
<1>1. t.fin.id # Nobody
  BY Fields DEF Action, Nobody
<1> QED
  BY <1>1 DEF Succeeded, Backed, ProgressInv

\* A transition of a running controller, with what wakes it.
LEMMA ContinuesWarrants ==
    ASSUME ExclusionInv, ProgressInv, up, NEW d \in Decisions, NEW x, Continues(st, d.st, x),
           x = Nobody \/ \E u \in units : u.id = x /\ u.outcome = "COMPLETED",
           "discard" \in d.fx => ~Used(d.st), Awake(d.st, units)
    PROVE  Warrants(d, units)
<1>1. d.st \in State
  BY DecisionParts
<1>2. Confirmed(st, d.st) /\ Succeeded(st, d.st, x) /\ Plans(st, d.st) /\ Loads(st, d.st)
  BY DEF Continues, Proceeds
<1>3. Backed(d.st, units)
  BY <1>1, <1>2, ContinuesBacked
<1>4. Proving(d.st) /\ d.st.planState = "PLANNING" => task = d.st.planning.id
  BY <1>2 DEF Plans, Proving, ProgressInv, NoOrphanPlan
<1>5. Counted(d.st)
  BY <1>2 DEF Plans, ProgressInv, Planned
<1> QED
  BY <1>2, <1>3, <1>4, <1>5 DEF Warrants, Plans

\* An event that is handled.
LEMMA HandlesWarrants ==
    ASSUME ExclusionInv, ProgressInv, up, NEW d \in Decisions, NEW x, Handles(st, d, x),
           x = Nobody \/ \E u \in units : u.id = x /\ u.outcome = "COMPLETED"
    PROVE  Warrants(d, units)
<1>1. d = NoOp(st) => d.st = st
  BY DEF NoOp, Decision
<1>2. Awake(d.st, units)
  BY <1>1 DEF Handles, Wakes, ProgressInv, Awake
<1> QED
  BY <1>2, ContinuesWarrants DEF Handles

\* The submitted dispatch has its unit, which will report.
LEMMA DispatchAwake ==
    ASSUME ExclusionInv, ProgressInv, Submitted
    PROVE  LET t == Dispatched(st, offer.id).st IN Yields(st, t) /\ Awake(t, units) /\ Counted(t)
<1> DEFINE t == Dispatched(st, offer.id).st
<1>1. st \in State /\ t \in State /\ HasLive(t, offer.id)
  BY SubmittedLive DEF ExclusionInv, TypeInv, TypeOK
<1>2. Yields(st, t)
  BY <1>1, DispatchedYields
<1> HIDE DEF t
<1>3. Awake(t, units)
  BY <1>1 DEF Awake, ProgressInv
<1>4. Counted(t)
  BY <1>1, <1>2, YieldsContinues DEF Continues, Proceeds, Plans, ProgressInv, Planned
<1> QED
  BY <1>2, <1>3, <1>4 DEF t

\* What is decided about the submitted dispatch.
LEMMA DispatchWarrants ==
    ASSUME ExclusionInv, ProgressInv, Submitted, NEW d \in Decisions,
           Handles(Dispatched(st, offer.id).st, d, Nobody)
    PROVE  Warrants(d, units)
<1> DEFINE t == Dispatched(st, offer.id).st
<1>1. st \in State /\ up
  BY DEF ExclusionInv, TypeInv, TypeOK, Submitted
<1>2. t \in State /\ Yields(st, t) /\ Awake(t, units)
  BY SubmittedLive, DispatchAwake
<1>3. Handles(t, d, Nobody)
  OBVIOUS
<1> HIDE DEF t
<1>4. Continues(st, d.st, Nobody)
  BY <1>1, <1>2, <1>3, DecisionParts, ContinuesOn DEF Handles
<1>5. d = NoOp(t) => d.st = t
  BY DEF NoOp, Decision
<1>6. Awake(d.st, units)
  BY <1>2, <1>3, <1>5 DEF Handles, Wakes, Awake
<1> QED
  BY <1>1, <1>3, <1>4, <1>6, ContinuesWarrants DEF Handles

\* A start resumes no proof, and arms a timer.
LEMMA StartWarrants ==
    ASSUME ExclusionInv, ProgressInv, NEW r \in State, NEW us, NEW x, Continues(st, r, x),
           Backed(r, us)
    PROVE  Warrants(ControllerStarted(r), us)
<1> DEFINE d == ControllerStarted(r)
<1>1. st \in State /\ d.st \in State
  BY ControllerStartedType, DecisionParts DEF ExclusionInv, TypeInv, TypeOK
<1>2. Yields(r, d.st) /\ ~Proving(d.st) /\ d.st.timer # "none" /\ "discard" \notin d.fx
  BY StartedYields
<1> HIDE DEF d
<1>3. Proceeds(st, d.st, x)
  BY <1>1, <1>2, ProceedsYields DEF Continues
<1>4. Loads(st, d.st)
  BY <1>2 DEF Continues, Loads, Yields
<1>5. Counted(d.st)
  BY <1>3 DEF Proceeds, Plans, ProgressInv, Planned
<1>6. Backed(d.st, us)
  BY <1>2 DEF Yields, Backed
<1> QED
  BY <1>2, <1>3, <1>4, <1>5, <1>6 DEF Proceeds, Plans, Warrants, Awake, d

\* What a start reconciles.
LEMMA ReconciledWarrants ==
    ASSUME ExclusionInv, ProgressInv PROVE Warrants(ControllerStarted(Reconciled(st, units)), units)
<1> DEFINE r == Reconciled(st, units)
<1>1. /\ st \in State /\ Ids(st) /\ units \in SUBSET Units /\ Counted(st)
      /\ \A u \in units : u.id # 0
  BY DEF ExclusionInv, TypeInv, TypeOK, UnitsNumbered, ProgressInv, Planned
<1>2. r \in State
  BY <1>1, ReconciledType
<1>3. r = st \/ \E u \in units : Continues(st, r, Success(u.id, u.outcome))
  BY <1>1, ReconciledContinues
<1> HIDE DEF r
<1>4. CASE r = st
  <2>1. Continues(st, r, Nobody) /\ Backed(r, units)
    BY <1>1, <1>4, KeepsSelf, YieldsContinues DEF ProgressInv
  <2> QED
    BY <1>2, <2>1, StartWarrants DEF r
<1>5. CASE \E u \in units : Continues(st, r, Success(u.id, u.outcome))
  <2>1. PICK u \in units : Continues(st, r, Success(u.id, u.outcome))
    BY <1>5
  <2>2. Success(u.id, u.outcome) = Nobody \/ (Success(u.id, u.outcome) = u.id /\ u.outcome = "COMPLETED")
    BY DEF Success
  <2>3. Backed(r, units)
    BY <1>2, <2>1, <2>2, ContinuesBacked DEF Continues, Proceeds
  <2> QED
    BY <1>2, <2>1, <2>3, StartWarrants DEF r
<1> QED
  BY <1>3, <1>4, <1>5

\* Another boot or session: nothing is held.
LEMMA FreshWarrants ==
    ASSUME ExclusionInv, ProgressInv
    PROVE  Warrants(BootChanged(st), {}) /\ Warrants(ControllerStarted(NewSessionState(st)), {})
<1> DEFINE b == BootChanged(st)
           n == NewSessionState(st)
<1>1. st \in State /\ n \in State
  BY NewSessionType DEF ExclusionInv, TypeInv, TypeOK
<1>2. b.st.fin = NoAction /\ n.fin = NoAction
  BY <1>1, FreshStarts DEF Kinds
<1>3. /\ Continues(st, b.st, Nobody) /\ b.st.timer = "now" /\ b.fx = {"observe"}
      /\ Continues(st, n, Nobody)
  BY <1>1, FreshContinues
<1>4. ~Proving(b.st)
  BY DEF BootChanged, Decision, InitialState, Proving
<1> HIDE DEF b, n
<1>5. NoAction.lc = "ABSENT"
  BY DEF NoAction
<1>6. Backed(b.st, {}) /\ Backed(n, {})
  BY <1>2, <1>5 DEF Backed
<1>7. Counted(b.st)
  BY <1>3 DEF Continues, Proceeds, Plans, ProgressInv, Planned
<1>8. Warrants(b, {})
  BY <1>3, <1>4, <1>6, <1>7 DEF Warrants, Continues, Proceeds, Plans, Awake
<1>9. Warrants(ControllerStarted(n), {})
  BY <1>1, <1>3, <1>6, StartWarrants
<1> QED
  BY <1>8, <1>9 DEF b, n

\* The plan that is asked for is made from now on.
LEMMA PlanWarrants ==
    ASSUME ExclusionInv, ProgressInv, chore = "plan"
    PROVE  Warrants(PlanRequested(st, st.planning.id), units)
<1> DEFINE d == PlanRequested(st, st.planning.id)
<1>1. st \in State /\ st.planning.id \in Nat /\ up
  BY Fields DEF ExclusionInv, TypeInv, TypeOK, Action
<1>2. /\ d.fx = {} /\ Counted(d.st)
      /\ d.st.planning.id = st.planning.id /\ d.st.timer = st.timer /\ d.st.stable = st.stable
      /\ \A f \in Watched \ {"planState", "planning"} : d.st[f] = st[f]
  BY <1>1, PlanRequestedContinues DEF ProgressInv, Planned
<1>3. d \in Decisions /\ Evolves(st, d.st, Nobody)
  BY <1>1, PlanRequestedType, QuietEvents DEF ExclusionInv, Sound
<1> HIDE DEF d
<1>4. Confirmed(st, d.st) /\ Loads(st, d.st)
  BY <1>2 DEF Watched, Confirmed, FirstStart, Loads, Loading
<1>5. Used(d.st) => Used(st)
  BY <1>2 DEF Watched, Used, Proving
<1>6. Backed(d.st, units)
  BY <1>2 DEF Watched, Backed, ProgressInv
<1>7. Awake(d.st, units)
  <2>1. Quiet(st) => Quiet(d.st)
    BY <1>2 DEF Watched, Quiet
  <2>2. \A id : HasLive(st, id) => HasLive(d.st, id)
    BY <1>1, <1>3, EvolvesKeeps
  <2> QED
    BY <1>1, <1>2, <2>1, <2>2 DEF ProgressInv, Awake
<1> QED
  BY <1>2, <1>4, <1>5, <1>6, <1>7 DEF Warrants, d

\* A unit is submitted, and nothing else changes.
LEMMA SubmitProgress ==
    ASSUME ExclusionInv, ProgressInv, NEW alive \in BOOLEAN, NEW outcome, NEW next,
           alive => outcome = None,
           Submit([id |-> offer.id, alive |-> alive, outcome |-> outcome], next)
    PROVE  ProgressInv' /\ Carries(st, st')
<1> DEFINE n == [id |-> offer.id, alive |-> alive, outcome |-> outcome]
<1>1. units' = units \cup {n} /\ UNCHANGED <<st, up, offer, task, discarded>>
  BY DEF Submit
<1>2. n.id = offer.id /\ n.alive = alive /\ n.outcome = outcome
  OBVIOUS
<1> HIDE DEF n
<1>3. \A u \in units' : u.alive => u.outcome = None
  BY <1>1, <1>2 DEF ProgressInv
<1>4. \E u \in units' : u.id = offer.id'
  BY <1>1, <1>2
<1> QED
  BY <1>1, <1>3, <1>4, AsideProgress

\* A worker that ends had no outcome, so it backed no result yet.
LEMMA WorkerEndsProgress ==
    ASSUME ExclusionInv, ProgressInv, WorkerEnds PROVE ProgressInv' /\ Carries(st, st')
<1>1. PICK u \in units, outcome \in WorkerOutcomes :
        u.alive /\ units' = (units \ {u}) \cup {[u EXCEPT !.alive = FALSE, !.outcome = outcome]}
  BY DEF WorkerEnds
<1> DEFINE e == [u EXCEPT !.alive = FALSE, !.outcome = outcome]
<1>2. e.id = u.id /\ ~e.alive
  BY DEF ExclusionInv, TypeInv, TypeOK, Units
<1>3. units' = (units \ {u}) \cup {e}
  BY <1>1
<1> HIDE DEF e
<1>4. u.outcome = None
  BY <1>1 DEF ProgressInv
<1>5. UNCHANGED <<st, up, chore, offer, task, discarded>>
  BY DEF WorkerEnds
<1>6. \A v \in units : \E w \in units' : w.id = v.id /\ (v.outcome # None => w.outcome = v.outcome)
  BY <1>2, <1>3, <1>4
<1>7. \A v \in units' : v.alive => v.outcome = None
  BY <1>2, <1>3 DEF ProgressInv
<1>8. Submitted' => \E v \in units' : v.id = offer.id'
  BY <1>5, <1>6 DEF ProgressInv, Submitted
<1> QED
  BY <1>5, <1>6, <1>7, <1>8, AsideProgress

\* What touches neither the state nor the units.
LEMMA StillProgress ==
    ASSUME ExclusionInv, ProgressInv, UNCHANGED <<st, up, chore, task, discarded, units>>,
           UNCHANGED offer \/ ~Submitted
    PROVE  ProgressInv' /\ Carries(st, st')
<1>1. Submitted' => Submitted /\ offer' = offer
  BY DEF Submitted
<1> QED
  BY <1>1, AsideProgress DEF ProgressInv

\* Every step keeps the invariant, and finalizes a desktop only by a worker or by
\* adoption.
LEMMA StepProgress ==
    ASSUME ExclusionInv, ProgressInv, Next PROVE ProgressInv' /\ Carries(st, st')
<1> USE ControllerAssumption
<1>0. /\ st \in State /\ Sound(st) /\ Ids(st) /\ Numbered(st) /\ gen \in Nat /\ since \in Nat
      /\ offer \in Offers /\ units \in SUBSET Units /\ task \in Nat /\ offer.id \in Nat
      /\ FirstStart(st) /\ Counted(st)
  BY DEF ExclusionInv, TypeInv, TypeOK, Sound, Offers, Ids, ProgressInv, Planned
<1>0a. st.egen \in Nat /\ st.egen + 1 \in Nat /\ st.planning.id \in Nat
  BY <1>0, Fields DEF Action
<1>0b. ExclusionInv'
  BY StepExclusion
<1>0c. \A d, open : d \in Decisions /\ Commit(d, open, units, gen) /\ Warrants(d, units)
                    => ProgressInv' /\ Carries(st, st')
  BY <1>0b, CommitProgress
<1>0d. \A d : d \in Decisions /\ up /\ Handles(st, d, Nobody) => Warrants(d, units)
  BY HandlesWarrants
<1>0e. \A u \in units : u.id \in Nat /\ u.id # 0 /\ u.outcome \in Terminal \cup {None}
  BY <1>0 DEF Units, ExclusionInv, UnitsNumbered
<1>0f. chore # "none" => up
  BY DEF ExclusionInv
<1>0g. \A a \in Mutators(st) : a.id \in Nat
  BY <1>0, Fields DEF Mutators, Action
<1>0h. \A d : d \in Decisions /\ Process(d) /\ up /\ Handles(st, d, Nobody)
              => ProgressInv' /\ Carries(st, st')
  BY <1>0c, <1>0d DEF Process
<1>0i. ASSUME NEW x \in Nat, x # 0, NEW lc \in {"UNKNOWN", "TIMED_OUT"}
       PROVE WorkerUncertain(st, x, lc) \in Decisions /\ Handles(st, WorkerUncertain(st, x, lc), Nobody)
  BY <1>0, <1>0i, WorkerUncertainType, UncertainHandles
<1>0j. ASSUME NEW d \in Decisions, NEW u \in units, NEW x \in {u.id, Nobody},
              x = Nobody \/ u.outcome = "COMPLETED", up, Handles(st, d, x), Process(d)
       PROVE ProgressInv' /\ Carries(st, st')
  <2>1. Warrants(d, units)
    BY <1>0j, HandlesWarrants
  <2> QED
    BY <1>0c, <1>0j, <2>1 DEF Process
<1>1. CASE NotifyDrmHint
  BY <1>1, StillProgress DEF NotifyDrmHint
<1>2. CASE ProcessDrmHint
  <2>1. PICK dt \in Steps : Process(DrmHintReceived(st, st.egen + 1, dt))
    BY <1>2 DEF ProcessDrmHint
  <2>2. /\ DrmHintReceived(st, st.egen + 1, dt) \in Decisions
        /\ Handles(st, DrmHintReceived(st, st.egen + 1, dt), Nobody)
    BY <1>0, <1>0a, DrmHintReceivedType, DrmHintHandles
  <2>3. up
    BY <1>2 DEF ProcessDrmHint, Idle
  <2> QED
    BY <1>0h, <2>1, <2>2, <2>3
<1>3. CASE ProcessTimer
  BY <1>0, <1>0h, <1>3, TimerFiredType, TimerHandles DEF ProcessTimer, Idle
<1>4. CASE CompleteObservation
  <2>1. PICK k \in Keys, g \in since..gen, asleep \in Power, c \in Configs, dt \in Steps :
          Process(ObservationCompleted(st, [key |-> k, gen |-> g, asleep |-> asleep, cfg |-> c], dt))
    BY <1>4 DEF CompleteObservation, ProcessBounded
  <2> DEFINE o == [key |-> k, gen |-> g, asleep |-> asleep, cfg |-> c]
  <2>2. o \in Observations
    BY <1>0 DEF Observations
  <2>3. up
    BY <1>0f, <1>4 DEF CompleteObservation
  <2> HIDE DEF o
  <2>4. ObservationCompleted(st, o, dt) \in Decisions /\ Handles(st, ObservationCompleted(st, o, dt), Nobody)
    BY <1>0, <2>2, ObservationCompletedType, ObservationCompletedHandles DEF Sound
  <2> QED
    BY <1>0h, <2>1, <2>3, <2>4 DEF o
<1>5. CASE FailObservation
  BY <1>0, <1>0f, <1>0h, <1>5, ObservationFailedType, TimerHandles DEF FailObservation
<1>6. CASE ObserveBootChange
  <2>1. Commit(BootChanged(st), offer, {}, 0)
    BY <1>6 DEF ObserveBootChange
  <2>2. BootChanged(st) \in Decisions /\ FailedChecks(BootChanged(st).st) = {} /\ {} \in SUBSET units
    BY <1>0, BootChangedType, FreshPasses
  <2> QED
    BY <1>0b, <2>1, <2>2, FreshWarrants, CommitProgress
<1>7. CASE RequestPlan
  BY <1>0, <1>0a, <1>0c, <1>7, PlanRequestedType, PlanWarrants DEF RequestPlan, Process
<1>8. CASE CompletePlan
  <2>1. PlanCompleted(st, task) \in Decisions /\ Handles(st, PlanCompleted(st, task), Nobody)
    BY <1>0, <1>8, PlanCompletedType, PlanEndsHandle DEF CompletePlan
  <2> QED
    BY <1>0h, <1>8, <2>1 DEF CompletePlan, Idle
<1>9. CASE FailPlan
  <2>1. PICK retryable \in BOOLEAN : Process(PlanFailed(st, task, retryable))
    BY <1>9 DEF FailPlan
  <2>2. /\ PlanFailed(st, task, retryable) \in Decisions
        /\ Handles(st, PlanFailed(st, task, retryable), Nobody)
    BY <1>0, <1>9, PlanFailedType, PlanEndsHandle DEF FailPlan
  <2> QED
    BY <1>0h, <1>9, <2>1, <2>2 DEF FailPlan, Idle
<1>10. CASE FenceDirtied
  <2>1. PICK dt \in Steps : Commit(AdmissionDirtied(st, offer.id, gen, dt),
                                   [offer EXCEPT !.dirty = TRUE], units, gen)
    BY <1>10 DEF FenceDirtied
  <2>2. /\ AdmissionDirtied(st, offer.id, gen, dt) \in Decisions
        /\ Handles(st, AdmissionDirtied(st, offer.id, gen, dt), Nobody)
    BY <1>0, AdmissionDirtiedType, AdmissionDirtiedHandles
  <2> QED
    BY <1>0c, <1>0d, <1>10, <2>1, <2>2 DEF FenceDirtied, Fencing, Idle
<1>11. CASE FenceStale
  BY <1>11, StillProgress DEF FenceStale, Fencing, Idle, Submitted
<1>12. CASE SubmitAccepted
  BY <1>12, SubmitProgress DEF SubmitAccepted
<1>13. CASE SubmitLost
  BY <1>13, SubmitProgress DEF SubmitLost
<1>14. CASE SubmitRefused
  BY <1>14, SubmitProgress DEF SubmitRefused
<1>15. CASE RejectDispatch
  <2>1. up /\ EffectIsCurrent /\ Commit(DispatchRejected(st, offer.id), NoOffer, units, gen)
    BY <1>15 DEF RejectDispatch, Fencing, Idle
  <2>2. HasAdmitted(st, offer.id)
    BY <2>1 DEF EffectIsCurrent, Admitted, Mutators, HasAdmitted, Kinds
  <2>3. offer.id # 0
    BY <1>0, <2>2, Stages DEF HasAdmitted, Numbered
  <2>4. DispatchRejected(st, offer.id) \in Decisions /\ Handles(st, DispatchRejected(st, offer.id), Nobody)
    BY <1>0, <2>3, DispatchRejectedType, DispatchRejectedHandles
  <2> QED
    BY <1>0c, <1>0d, <2>1, <2>4
<1>16. Submitted => offer.id # 0
  BY <1>0, Stages DEF ExclusionInv, HasAdmitted, Numbered
<1>17. CASE AcknowledgeDispatch
  <2> DEFINE d == Dispatched(st, offer.id)
  <2>1. Submitted /\ up /\ Commit(d, NoOffer, units, gen)
    BY <1>0f, <1>17 DEF AcknowledgeDispatch, Submitted
  <2>2. d \in Decisions /\ d.st \in State /\ d.fx = {} /\ Yields(st, d.st) /\ Awake(d.st, units)
    BY <1>0, <2>1, DispatchedType, DecisionParts, DispatchedYields, DispatchAwake
  <2> HIDE DEF d
  <2>3. Continues(st, d.st, Nobody)
    BY <1>0, <2>2, YieldsContinues
  <2>4. Warrants(d, units)
    BY <2>1, <2>2, <2>3, ContinuesWarrants
  <2> QED
    BY <1>0c, <2>1, <2>2, <2>4
<1>18. CASE MarkDispatchUncertain
  <2> DEFINE t == Dispatched(st, offer.id).st
             d == WorkerUncertain(t, offer.id, "UNKNOWN")
  <2>1. Submitted /\ Commit(d, NoOffer, units, gen)
    BY <1>18 DEF MarkDispatchUncertain, Submitted
  <2>2. t \in State /\ Numbered(t)
    BY <2>1, SubmittedLive DEF Ids
  <2>3. d \in Decisions /\ Handles(t, d, Nobody)
    BY <1>0, <1>16, <2>1, <2>2, WorkerUncertainType, UncertainHandles
  <2>4. Warrants(d, units)
    BY <2>1, <2>3, DispatchWarrants
  <2> QED
    BY <1>0c, <2>1, <2>3, <2>4
<1>19. CASE CompleteRefusedStart
  <2> DEFINE t == Dispatched(st, offer.id).st
             d == Finished(t, offer.id, "FAILED", TRUE)
  <2>1. Submitted /\ Commit(d, NoOffer, units, gen)
    BY <1>19 DEF CompleteRefusedStart, Submitted
  <2>2. t \in State /\ Numbered(t) /\ Counted(t)
    BY <2>1, SubmittedLive, DispatchAwake DEF Ids
  <2>3. d \in Decisions /\ Handles(t, d, IF "FAILED" = "SUCCEEDED" THEN offer.id ELSE Nobody)
    BY <1>0, <1>16, <2>1, <2>2, FinishedType, FinishedHandles DEF Outcomes
  <2>4. Warrants(d, units)
    BY <2>1, <2>3, DispatchWarrants
  <2> QED
    BY <1>0c, <2>1, <2>3, <2>4
<1>20. CASE WorkerEnds
  BY <1>20, WorkerEndsProgress
<1>21. CASE ReportWorker
  <2>1. PICK u \in units :
          Process(IF u.outcome \in {None, "UNKNOWN"}
                  THEN WorkerUncertain(st, u.id, "UNKNOWN")
                  ELSE IF u.outcome = "TIMED_OUT"
                  THEN WorkerUncertain(st, u.id, "TIMED_OUT")
                  ELSE Finished(st, u.id, EventOutcome(u.outcome), TRUE))
    BY <1>21 DEF ReportWorker
  <2>2. up
    BY <1>21 DEF ReportWorker, Idle
  <2>3. CASE u.outcome \in {None, "UNKNOWN"}
    BY <1>0e, <1>0h, <1>0i, <2>1, <2>2, <2>3
  <2>4. CASE u.outcome \notin {None, "UNKNOWN"} /\ u.outcome = "TIMED_OUT"
    BY <1>0e, <1>0h, <1>0i, <2>1, <2>2, <2>4
  <2>5. CASE u.outcome \notin {None, "UNKNOWN", "TIMED_OUT"}
    <3> DEFINE d == Finished(st, u.id, EventOutcome(u.outcome), TRUE)
               x == IF EventOutcome(u.outcome) = "SUCCEEDED" THEN u.id ELSE Nobody
    <3>1. EventOutcome(u.outcome) \in Outcomes
      BY <1>0e, <2>5, EventOutcomeType
    <3>2. d \in Decisions /\ Handles(st, d, x)
      BY <1>0, <1>0e, <3>1, FinishedType, FinishedHandles
    <3>3. EventOutcome(u.outcome) = "SUCCEEDED" => u.outcome = "COMPLETED"
      BY <1>0e, <2>5 DEF EventOutcome, Terminal, Failed
    <3>4. x \in {u.id, Nobody} /\ (x = Nobody \/ u.outcome = "COMPLETED")
      BY <3>3
    <3>5. Process(d)
      BY <2>1, <2>5
    <3> HIDE DEF d, x
    <3> QED
      BY <1>0j, <2>2, <3>2, <3>4, <3>5
  <2> QED
    BY <2>3, <2>4, <2>5
<1>22. CASE DoubtWorker
  <2>1. PICK a \in Mutators(st), lc \in {"UNKNOWN", "TIMED_OUT"} :
          Supervised(a.id) /\ Process(WorkerUncertain(st, a.id, lc))
    BY <1>22 DEF DoubtWorker
  <2>2. a.id # 0
    BY <1>0, <2>1, NamedBusy DEF Supervised, Held, Numbered
  <2> QED
    BY <1>0g, <1>0h, <1>0i, <1>22, <2>1, <2>2 DEF DoubtWorker, Idle
<1>23. CASE StopAcknowledged
  <2>1. PICK u \in units : /\ u.outcome # None
                           /\ Process(WorkerCancellationAcknowledged(st, u.id, u.outcome))
    BY <1>23 DEF StopAcknowledged
  <2> DEFINE d == WorkerCancellationAcknowledged(st, u.id, u.outcome)
             x == Success(u.id, u.outcome)
  <2>2. d \in Decisions /\ Handles(st, d, x)
    BY <1>0, <1>0e, <2>1, CancellationAcknowledgedType, AcknowledgedHandles
  <2>3. x \in {u.id, Nobody} /\ (x = Nobody \/ u.outcome = "COMPLETED")
    BY DEF Success
  <2>4. up
    BY <1>0f, <1>23 DEF StopAcknowledged
  <2>5. Process(d)
    BY <2>1
  <2> HIDE DEF d, x
  <2> QED
    BY <1>0j, <2>2, <2>3, <2>4, <2>5
<1>24. CASE StopDoubted
  <2>1. PICK a \in Mutators(st) : a.lc = "STOPPING" /\ Process(WorkerUncertain(st, a.id, "UNKNOWN"))
    BY <1>24 DEF StopDoubted
  <2>2. a.id # 0
    BY <1>0, <2>1 DEF Mutators, Numbered, Held, Kinds
  <2> QED
    BY <1>0f, <1>0g, <1>0h, <1>0i, <1>24, <2>1, <2>2 DEF StopDoubted
<1>25. CASE StopIneffective
  BY <1>0, <1>0f, <1>0h, <1>25, NoOpType, NoOpHandles DEF StopIneffective
<1>26. CASE Crash
  BY <1>26, EndsProgress DEF Crash
<1>27. CASE Restart
  <2> DEFINE d == ControllerStarted(Reconciled(st, units))
  <2>1. Commit(d, NoOffer, units, st.egen) /\ Warrants(d, units)
    BY <1>27, ReconciledWarrants DEF Restart
  <2>2. d \in Decisions
    BY <1>0, ReconciledType, ControllerStartedType
  <2> QED
    BY <1>0b, <2>1, <2>2, CommitProgress
<1>28. CASE RefuseStart
  BY <1>28, StillProgress DEF RefuseStart, vars
<1>29. CASE NewSession
  <2> DEFINE d == ControllerStarted(NewSessionState(st))
  <2>1. Commit(d, NoOffer, {}, 0) /\ Warrants(d, {}) /\ {} \in SUBSET units
    BY <1>29, FreshWarrants DEF NewSession
  <2>2. d \in Decisions /\ FailedChecks(d.st) = {}
    BY <1>0, NewSessionType, ControllerStartedType, FreshPasses
  <2> QED
    BY <1>0b, <2>1, <2>2, CommitProgress
<1> QED
  BY <1>1, <1>2, <1>3, <1>4, <1>5, <1>6, <1>7, <1>8, <1>9, <1>10, <1>11, <1>12, <1>13, <1>14,
     <1>15, <1>17, <1>18, <1>19, <1>20, <1>21, <1>22, <1>23, <1>24, <1>25, <1>26, <1>27, <1>28,
     <1>29 DEF Next

\* A first start satisfies the invariant: it holds no plan and may adopt the desktop.
LEMMA InitProgress == Init => ProgressInv
<1> SUFFICES ASSUME Init PROVE ProgressInv
  OBVIOUS
<1>1. /\ st.phase = "RECOVERING" /\ st.baseline = TRUE /\ st.planState = "PLAN_IDLE" /\ st.seq = 0
      /\ st.planning = NoAction /\ st.prep = NoAction /\ st.fin = NoAction /\ st.app = NoAction
  BY DEF Init, InitialState
<1>2. NoAction.lc = "ABSENT" /\ NoAction.id = 0
  BY DEF NoAction
<1>3. FirstStart(st) /\ Planned(st) /\ Backed(st, units)
  BY <1>1, <1>2 DEF FirstStart, Planned, Counted, Held, Backed
<1>4. NoOrphanPlan /\ NoLaptopLoadUnderIntent
  BY <1>1, <1>2 DEF NoOrphanPlan, NoLaptopLoadUnderIntent
<1> QED
  BY <1>3, <1>4 DEF ProgressInv, Init, Submitted

\* One step, stuttering included.
LEMMA NextProgress ==
    ASSUME ExclusionInv, ProgressInv, [Next]_vars PROVE ProgressInv' /\ Carries(st, st')
<1>1. CASE Next
  BY <1>1, StepProgress
<1>2. CASE UNCHANGED vars
  BY <1>2, StillProgress DEF vars
<1> QED
  BY <1>1, <1>2

\* The invariant holds in every reachable state.
THEOREM ProgressHolds == Spec => []ProgressInv
<1>1. Init => ProgressInv
  BY InitProgress
<1>2. ExclusionInv /\ ProgressInv /\ [Next]_vars => ProgressInv'
  BY NextProgress
<1> QED
  BY <1>1, <1>2, ExclusionHolds, PTL DEF Spec

\* "No implicit abandonment": while the process runs and has not come to rest, a
\* timer is armed, an effect is being carried out or a worker will report, whatever
\* was crashed, lost, refused or withdrawn before.
THEOREM WakeupsKept == Spec => []NoLostWakeup
<1>1. ExclusionInv /\ ProgressInv => NoLostWakeup
  <2> SUFFICES ASSUME ExclusionInv, ProgressInv, up, NEW u \in units, HasLive(st, u.id)
               PROVE ActionForId(st, u.id).lc \in {"DISPATCHED", "STOPPING"}
    BY DEF ProgressInv, Awake, Quiet, NoLostWakeup
  <2>1. PICK k \in Kinds : Live(st[k]) /\ st[k].id = u.id
    BY DEF HasLive
  <2>2. ActionForId(st, u.id) = st[k]
    BY <2>1, BusyNamed, Stages DEF ExclusionInv
  <2> QED
    BY <2>1, <2>2 DEF Live
<1> QED
  BY <1>1, ExclusionHolds, ProgressHolds, PTL

\* A running stability proof never waits for a plan that nobody makes, although
\* plans are made in memory and a crash loses them.
THEOREM PlansAwaited == Spec => []NoOrphanPlan
<1>1. ProgressInv => NoOrphanPlan
  BY DEF ProgressInv
<1> QED
  BY <1>1, ProgressHolds, PTL

\* A preparation is never admitted or started from a plan whose file a cancelled
\* preparation has discarded.
THEOREM PlansLive == Spec => []PreparesFromLivePlan
<1>1. ProgressInv => PreparesFromLivePlan
  <2> SUFFICES ASSUME ProgressInv, st.prep.lc \in {"ADMITTED", "DISPATCHED"}
               PROVE st.prep.plan # discarded
    BY DEF PreparesFromLivePlan
  <2>1. Held(st.prep) /\ Used(st)
    BY DEF Held, Used
  <2>2. st.prep.plan # 0
    BY <2>1 DEF ProgressInv, Planned, Counted
  <2> QED
    BY <2>1, <2>2 DEF ProgressInv
<1> QED
  BY <1>1, ProgressHolds, PTL

\* "No laptop fallback with external hardware present": the laptop's profile is never
\* admitted or started while external hardware is known or remembered.
THEOREM LaptopLoadsSafe == Spec => []NoLaptopLoadUnderIntent
<1>1. ProgressInv => NoLaptopLoadUnderIntent
  BY DEF ProgressInv
<1> QED
  BY <1>1, ProgressHolds, PTL

\* "Independent desktop state": the desktop comes to count as finalized for a profile
\* only by a finalization worker for that profile that succeeded, or by adoption of
\* what a first start finds.
THEOREM FinalizationsEarned == Spec => FinalizedByWorker
<1>1. ExclusionInv /\ ProgressInv /\ [Next]_vars =>
        [st'.finalized \notin {None, st.finalized} =>
            \/ st.baseline
            \/ \E u \in units : /\ u.id = st.fin.id
                                /\ u.outcome = "COMPLETED"
                                /\ st.fin.profile = st'.finalized]_vars
  <2> SUFFICES ASSUME ExclusionInv, ProgressInv, [Next]_vars, st'.finalized \notin {None, st.finalized}
               PROVE  \/ st.baseline
                      \/ \E u \in units : /\ u.id = st.fin.id
                                          /\ u.outcome = "COMPLETED"
                                          /\ st.fin.profile = st'.finalized
    OBVIOUS
  <2>1. Carries(st, st')
    BY NextProgress
  <2> QED
    BY <2>1 DEF Carries, Confirmed, ProgressInv, Backed
<1> QED
  BY <1>1, ExclusionHolds, ProgressHolds, PTL DEF Spec, FinalizedByWorker

-----------------------------------------------------------------------------
(* The news of one worker: what they change of a state, and that a state      *)
(* which passed the checks passes them again.                                 *)

\* What no news of a worker changes.
Steady ==
    {"obs", "obsGen", "egen", "epoch", "token", "cand", "finalized", "required", "intent",
     "baseline", "planState", "planning", "unplug", "seq"}

\* An action is the same one, whatever its lifecycle.
SameAction(a, b) ==
    \A f \in {"id", "gen", "epoch", "profile", "key", "plan"} : b[f] = a[f]

\* The phase or preparation state says what became of the mutator.
Stands(t, k) ==
    \/ /\ k = "probe"
       /\ \/ t.phase = "PROBING" /\ Live(t.probe)
          \/ t.phase = "PROBE_FAILED" /\ t.probe.lc \in Failed
          \/ t.phase = "DISCOVER_FAST" /\ t.probe = NoAction
    \/ /\ k = "app"
       /\ \/ t.phase = "APPLYING" /\ Live(t.app)
          \/ t.phase = "APPLY_FAILED" /\ t.app.lc \in Failed
          \/ t.phase = "DISCOVER_FAST" /\ t.app = NoAction
    \/ /\ k = "prep"
       /\ \/ t.prepState = "PREPARING" /\ t.prep.lc \in {"DISPATCHED", "RESULT_PENDING"}
          \/ t.prepState = "PREPARE_STOPPING" /\ t.prep.lc = "STOPPING"
          \/ t.prepState = "PREPARE_FAILED" /\ t.prep.lc \in Failed
          \/ t.prepState = "PREPARE_IDLE" /\ t.prep = NoAction
    \/ /\ k = "fin"
       /\ \/ t.phase = "FINALIZING" /\ t.fin.lc \in {"DISPATCHED", "RESULT_PENDING"}
          \/ t.phase = "FINALIZE_STOPPING" /\ t.fin.lc = "STOPPING"
          \/ t.phase = "FINALIZE_FAILED" /\ t.fin.lc \in Failed
          \/ t.phase = "DISCOVER_FAST" /\ t.fin = NoAction

\* A tombstone is set when the mutator is no longer busy.
Buries(s, t, k) ==
    IF Busy(t[k]) THEN t.tombs = s.tombs
    ELSE \E lc \in Terminal :
            /\ t.tombs = {x \in s.tombs : x.id # s[k].id} \cup {[id |-> s[k].id, lc |-> lc]}
            /\ Held(t[k]) => lc = t[k].lc

\* A dispatch is remembered as an attempt.
Attempts(a, b, old, new) ==
    /\ new \in {old, old \cup {AttemptKey(a)}}
    /\ b.unit => a.unit \/ AttemptKey(a) \in new

Turn(s, t, k) ==
    /\ \A f \in Steady : t[f] = s[f]
    /\ \A j \in Kinds \ {k} : t[j] = s[j]
    /\ t.verify \in {s.verify, -1}
    /\ k # "prep" => t.prepState = s.prepState
    /\ k = "prep" => t.phase \in {s.phase, "DISCOVER_FAST"}
    /\ Stands(t, k)
    /\ Held(t[k]) => SameAction(s[k], t[k])
    /\ t[k].lc \in InFlight => t[k].unit
    /\ Buries(s, t, k)
    /\ IF k = "probe" THEN Attempts(s.probe, t.probe, s.probed, t.probed) ELSE t.probed = s.probed
    /\ IF k = "app" THEN Attempts(s.app, t.app, s.applied, t.applied) ELSE t.applied = s.applied
    /\ \/ t.timer # "none"
       \/ t.timer = s.timer /\ t.phase = s.phase
       \/ t.phase \in {"PROBING", "APPLYING", "FINALIZING"}

\* A state has the fields that a turn reads.
LEMMA TurnFields ==
    \A s \in State : Steady \cup Kinds \cup {"verify", "prepState", "phase", "tombs", "probed",
                                             "applied", "timer"} \subseteq DOMAIN s
  BY DEF State, Steady, Kinds

\* Two turns of a mutator that stays busy in between are one.
LEMMA TurnOn ==
    \A s, t, u : \A k \in Kinds : Turn(s, t, k) /\ Turn(t, u, k) /\ Busy(t[k]) => Turn(s, u, k)
<1> SUFFICES ASSUME NEW s, NEW t, NEW u, NEW k \in Kinds, Turn(s, t, k), Turn(t, u, k), Busy(t[k])
             PROVE Turn(s, u, k)
  OBVIOUS
<1>1. Held(t[k]) /\ SameAction(s[k], t[k]) /\ t.tombs = s.tombs
  BY Stages DEF Turn, Buries
<1>2. AttemptKey(t[k]) = AttemptKey(s[k]) /\ t[k].id = s[k].id
  BY <1>1 DEF SameAction, AttemptKey
<1>3. Buries(s, u, k)
  BY <1>1, <1>2 DEF Turn, Buries
<1>4. Held(u[k]) => SameAction(s[k], u[k])
  BY <1>1 DEF Turn, SameAction
<1>5. IF k = "probe" THEN Attempts(s.probe, u.probe, s.probed, u.probed) ELSE u.probed = s.probed
  BY <1>2 DEF Turn, Attempts
<1>6. IF k = "app" THEN Attempts(s.app, u.app, s.applied, u.applied) ELSE u.applied = s.applied
  BY <1>2 DEF Turn, Attempts
<1>7. /\ \A f \in Steady : u[f] = s[f]
      /\ \A j \in Kinds \ {k} : u[j] = s[j]
      /\ u.verify \in {s.verify, -1}
      /\ k # "prep" => u.prepState = s.prepState
      /\ k = "prep" => u.phase \in {s.phase, "DISCOVER_FAST"}
      /\ Stands(u, k)
      /\ u[k].lc \in InFlight => u[k].unit
  BY DEF Turn
<1>8. \/ u.timer # "none"
      \/ u.timer = s.timer /\ u.phase = s.phase
      \/ u.phase \in {"PROBING", "APPLYING", "FINALIZING"}
  BY DEF Turn
<1> QED
  BY <1>3, <1>4, <1>5, <1>6, <1>7, <1>8 DEF Turn


\* A preparation at work is alone but for what is over.
Lonely(s) == Busy(s.prep) => ~Held(s.app)

\* What a state must be for the news of a busy mutator to pass the checks.
Fit(s, k) ==
    /\ s \in State
    /\ FailedChecks(s) = {}
    /\ Ids(s)
    /\ Busy(s[k])
    /\ Lonely(s)
    /\ s.planning.id # s[k].id
    /\ k \in {"probe", "app"} /\ s[k].lc = "ADMITTED" => s[k].epoch = s.epoch

\* The checks, by name.
LEMMA ChecksSplit ==
    \A s : FailedChecks(s) = {} <=>
        /\ PhaseRelationships(s) /\ PlanningRelationships(s) /\ ActionIdentities(s)
        /\ WorkerAcknowledgements(s) /\ ObservationAuthority(s) /\ LaptopLoadAuthorized(s)
        /\ ActionAuthorization(s) /\ NumberedSafetyRules(s) /\ AttemptHistory(s)
        /\ PersistenceRelationships(s) /\ FinalizationRequirement(s)
  BY DEF FailedChecks

\* A busy mutator names the phase, and excludes the others.
LEMMA FitAlone ==
    ASSUME NEW s, NEW k \in Kinds, Fit(s, k)
    PROVE  /\ s.phase # "RECOVERING"
           /\ \A j \in Kinds \ {k} : ~Busy(s[j]) /\ s[j].id # s[k].id
           /\ k = "probe" => ~Held(s.app) /\ ~Held(s.fin) /\ ~Held(s.prep)
           /\ k = "app" => ~Held(s.probe) /\ ~Held(s.fin)
           /\ k = "fin" => ~Held(s.probe) /\ ~Held(s.app)
           /\ k = "prep" => ~Held(s.probe) /\ ~Held(s.app) /\ ~Held(s.fin)
           /\ s[k].lc \in InFlight => s[k].unit
           /\ ~s.baseline \/ k # "prep"
<1>0. /\ PhaseRelationships(s) /\ PlanningRelationships(s) /\ WorkerAcknowledgements(s)
      /\ ActionAuthorization(s) /\ NumberedSafetyRules(s) /\ PersistenceRelationships(s)
  BY ChecksSplit DEF Fit
<1>1. Busy(s[k]) /\ Held(s[k]) /\ s[k] \in Mutators(s) /\ s[k] \in Actions(s)
  BY Stages DEF Fit, Mutators, Actions, Kinds
<1>2. s.phase # "RECOVERING"
  BY <1>0, <1>1 DEF PersistenceRelationships
<1>3. \A j \in Kinds \ {k} : ~Busy(s[j]) /\ s[j].id # s[k].id
  BY <1>1 DEF Fit, Ids
<1>4. /\ Matches(s.probe, s.phase,
                 [PROBE_PENDING |-> {"ADMITTED"}, PROBING |-> InFlight, PROBE_FAILED |-> Failed])
      /\ Matches(s.app, s.phase,
                 [APPLY_PENDING |-> {"ADMITTED"}, APPLYING |-> InFlight, APPLY_FAILED |-> Failed])
      /\ Matches(s.fin, s.phase,
                 [FINALIZE_PENDING |-> {"ADMITTED"}, FINALIZING |-> {"DISPATCHED", "RESULT_PENDING"},
                  FINALIZE_STOPPING |-> {"STOPPING"}, FINALIZE_FAILED |-> Failed])
  BY <1>0, <1>2 DEF PhaseRelationships
<1>5. /\ Held(s.probe) => s.phase \in {"PROBE_PENDING", "PROBING", "PROBE_FAILED"}
      /\ Held(s.app) => s.phase \in {"APPLY_PENDING", "APPLYING", "APPLY_FAILED"}
      /\ Held(s.fin) => s.phase \in {"FINALIZE_PENDING", "FINALIZING", "FINALIZE_STOPPING", "FINALIZE_FAILED"}
  BY <1>4 DEF Matches
<1>6. Held(s.probe) => ~Held(s.prep)
  BY <1>0, <1>2 DEF NumberedSafetyRules
<1>7. k = "prep" => ~Held(s.probe) /\ ~Held(s.app) /\ ~Held(s.fin)
  <2>1. Held(s.fin) => s.prep.lc = "COMPLETED"
    BY <1>0 DEF ActionAuthorization
  <2> QED
    BY <1>1, <1>6, <2>1 DEF Fit, Lonely, Busy, InFlight
<1>8. s[k].lc \in InFlight => s[k].unit
  BY <1>0, <1>1 DEF WorkerAcknowledgements, MutatorsInFlight
<1>9. ~s.baseline \/ k # "prep"
  <2>1. s.baseline => s.prepState = "PREPARE_IDLE"
    BY <1>0, <1>2 DEF PlanningRelationships
  <2>2. s.prepState = "PREPARE_IDLE" => ~Held(s.prep)
    BY <1>0, <1>2 DEF PlanningRelationships, Matches
  <2> QED
    BY <1>1, <2>1, <2>2
<1> QED
  BY <1>1, <1>2, <1>3, <1>5, <1>6, <1>7, <1>8, <1>9


\* The mutators after a turn: the others are over, and are what they were.
LEMMA TurnKinds ==
    ASSUME NEW s, NEW k \in Kinds, Fit(s, k), NEW t \in State, Turn(s, t, k)
    PROVE  /\ t.phase # "RECOVERING"
           /\ \A j \in Kinds \ {k} : t[j] = s[j] /\ ~Busy(t[j]) /\ t[j].id # s[k].id
           /\ k = "probe" => ~Held(t.app) /\ ~Held(t.fin) /\ ~Held(t.prep)
           /\ k = "app" => ~Held(t.probe) /\ ~Held(t.fin)
           /\ k = "fin" => ~Held(t.probe) /\ ~Held(t.app)
           /\ k = "prep" => ~Held(t.probe) /\ ~Held(t.app) /\ ~Held(t.fin)
           /\ Held(t[k]) => t[k].lc \in InFlight \cup Failed /\ t[k].id = s[k].id
           /\ ~Held(t[k]) => t[k] = NoAction
<1>1. /\ s.phase # "RECOVERING"
      /\ \A j \in Kinds \ {k} : t[j] = s[j] /\ ~Busy(t[j]) /\ t[j].id # s[k].id
      /\ k = "probe" => ~Held(s.app) /\ ~Held(s.fin) /\ ~Held(s.prep)
      /\ k = "app" => ~Held(s.probe) /\ ~Held(s.fin)
      /\ k = "fin" => ~Held(s.probe) /\ ~Held(s.app)
      /\ k = "prep" => ~Held(s.probe) /\ ~Held(s.app) /\ ~Held(s.fin)
  BY FitAlone DEF Turn
<1>2. Stands(t, k) /\ (k = "prep" => t.phase \in {s.phase, "DISCOVER_FAST"})
  BY DEF Turn
<1>3. t.phase # "RECOVERING"
  BY <1>1, <1>2 DEF Stands
<1>4. (Held(t[k]) => t[k].lc \in InFlight \cup Failed) /\ (~Held(t[k]) => t[k] = NoAction)
  BY <1>2, NoActionStage DEF Stands, Live, InFlight, Failed, Held
<1>5. Held(t[k]) => t[k].id = s[k].id
  BY DEF Turn, SameAction
<1> QED
  BY <1>1, <1>3, <1>4, <1>5 DEF Kinds

\* The relations of phases and actions.
LEMMA TurnPhases ==
    ASSUME NEW s, NEW k \in Kinds, Fit(s, k), NEW t \in State, Turn(s, t, k)
    PROVE  PhaseRelationships(t) /\ PlanningRelationships(t)
<1>1. /\ t.phase # "RECOVERING" /\ s.phase # "RECOVERING"
      /\ \A j \in Kinds \ {k} : t[j] = s[j]
      /\ k = "probe" => ~Held(t.app) /\ ~Held(t.fin) /\ ~Held(t.prep)
      /\ k = "app" => ~Held(t.probe) /\ ~Held(t.fin)
      /\ k = "fin" => ~Held(t.probe) /\ ~Held(t.app)
      /\ k = "prep" => ~Held(t.probe) /\ ~Held(t.app) /\ ~Held(t.fin)
  BY TurnKinds, FitAlone
<1>2. Stands(t, k) /\ (k = "prep" => t.phase \in {s.phase, "DISCOVER_FAST"})
  BY DEF Turn
<1>3. ~Held(NoAction)
  BY NoActionStage
<1>4. PhaseRelationships(s) /\ PlanningRelationships(s)
  BY ChecksSplit DEF Fit
<1>5. /\ Matches(t.probe, t.phase,
                 [PROBE_PENDING |-> {"ADMITTED"}, PROBING |-> InFlight, PROBE_FAILED |-> Failed])
      /\ Matches(t.app, t.phase,
                 [APPLY_PENDING |-> {"ADMITTED"}, APPLYING |-> InFlight, APPLY_FAILED |-> Failed])
      /\ Matches(t.fin, t.phase,
                 [FINALIZE_PENDING |-> {"ADMITTED"}, FINALIZING |-> {"DISPATCHED", "RESULT_PENDING"},
                  FINALIZE_STOPPING |-> {"STOPPING"}, FINALIZE_FAILED |-> Failed])
  <2>1. CASE k = "probe"
    BY <1>1, <1>2, <1>3, <2>1 DEF Stands, Matches, Live, InFlight
  <2>2. CASE k = "app"
    BY <1>1, <1>2, <1>3, <2>2 DEF Stands, Matches, Live, InFlight
  <2>3. CASE k = "fin"
    BY <1>1, <1>2, <1>3, <2>3 DEF Stands, Matches, Live, InFlight
  <2>4. CASE k = "prep" /\ t.phase = s.phase
    BY <1>1, <1>4, <2>4 DEF PhaseRelationships, Kinds
  <2>5. CASE k = "prep" /\ t.phase = "DISCOVER_FAST"
    BY <1>1, <2>5 DEF Matches
  <2> QED
    BY <1>2, <2>1, <2>2, <2>3, <2>4, <2>5 DEF Kinds
<1>6. PhaseRelationships(t)
  BY <1>5 DEF PhaseRelationships
<1>7. t.planning = s.planning /\ t.planState = s.planState /\ t.baseline = s.baseline
  BY DEF Turn, Steady
<1>8. Matches(t.prep, t.prepState,
              [PREPARE_PENDING |-> {"ADMITTED"}, PREPARING |-> {"DISPATCHED", "RESULT_PENDING"},
               PREPARED |-> {"COMPLETED"}, PREPARE_STOPPING |-> {"STOPPING"}, PREPARE_FAILED |-> Failed])
  <2>1. CASE k = "prep"
    BY <1>2, <1>3, <2>1 DEF Stands, Matches
  <2>2. CASE k # "prep"
    <3>1. t.prep = s.prep /\ t.prepState = s.prepState
      BY <1>1, <2>2 DEF Turn, Kinds
    <3> QED
      BY <1>1, <1>4, <3>1 DEF PlanningRelationships
  <2> QED
    BY <2>1, <2>2
<1>9. Held(t.prep) => /\ t.planState = "PLAN_READY"
                      /\ t.prep.plan = t.planning.id
                      /\ t.prep.profile = t.planning.profile
  <2>1. Held(t.prep) => Held(s.prep) /\ t.prep.plan = s.prep.plan /\ t.prep.profile = s.prep.profile
    <3>1. CASE k = "prep"
      BY <3>1, Stages DEF Turn, SameAction, Fit
    <3>2. CASE k # "prep"
      BY <1>1, <3>2 DEF Kinds
    <3> QED
      BY <3>1, <3>2
  <2> QED
    BY <1>1, <1>4, <1>7, <2>1 DEF PlanningRelationships
<1>10. t.baseline => t.planState = "PLAN_IDLE" /\ t.prepState = "PREPARE_IDLE"
  BY <1>1, <1>4, <1>7, FitAlone DEF PlanningRelationships, Turn
<1> QED
  BY <1>1, <1>4, <1>6, <1>7, <1>8, <1>9, <1>10 DEF PlanningRelationships


\* The relations of ids and tombstones.
LEMMA TurnIdentities ==
    ASSUME NEW s, NEW k \in Kinds, Fit(s, k), NEW t \in State, Turn(s, t, k)
    PROVE  ActionIdentities(t)
<1> DEFINE x == s[k].id
           others == {a \in Actions(s) : a.id # x}
<1>1. /\ \A j \in Kinds \ {k} : t[j] = s[j] /\ t[j].id # x
      /\ Held(t[k]) => t[k].lc \in InFlight \cup Failed /\ t[k].id = x
  BY TurnKinds
<1>2. /\ t.planning = s.planning /\ s.planning.id # x /\ t.seq = s.seq
      /\ Held(t[k]) => SameAction(s[k], t[k])
      /\ Buries(s, t, k) /\ Busy(s[k]) /\ Held(s[k])
  BY Stages DEF Turn, Steady, Fit
<1>3. ActionIdentities(s)
  BY ChecksSplit DEF Fit
<1>4. \A a \in Actions(t) : a \in others \/ (a = t[k] /\ Held(t[k]))
  BY <1>1, <1>2 DEF Actions, Mutators, Kinds
<1>5. s[k] \in Actions(s)
  BY <1>2 DEF Actions, Mutators, Kinds
<1>6. \A a \in Actions(t) : \E b \in Actions(s) : b.id = a.id /\ b.plan = a.plan
  BY <1>2, <1>4, <1>5 DEF SameAction
<1>7. \A a, b \in Actions(t) : a.id = b.id => a = b
  BY <1>1, <1>3, <1>4 DEF ActionIdentities
<1>8. \A a \in Actions(t) : a.id <= t.seq /\ a.plan <= t.seq
  BY <1>2, <1>3, <1>6 DEF ActionIdentities
<1>9. CASE Busy(t[k])
  <2>1. t.tombs = s.tombs
    BY <1>2, <1>9 DEF Buries
  <2>2. \A y \in s.tombs : y.id # x
    <3>1. \A y \in s.tombs : y.lc \in Terminal
      BY Fields DEF Fit
    <3> QED
      BY <1>2, <1>3, <1>5, <3>1, Stages DEF ActionIdentities
  <2>3. t[k].lc \notin Terminal
    BY <1>9, Stages
  <2>4. \A a \in Actions(t) : a.lc \in Terminal => [id |-> a.id, lc |-> a.lc] \in t.tombs
    BY <1>3, <1>4, <2>1, <2>3 DEF ActionIdentities
  <2>5. \A a \in Actions(t), y \in t.tombs : a.id = y.id => a.lc = y.lc
    BY <1>1, <1>3, <1>4, <2>1, <2>2 DEF ActionIdentities
  <2> QED
    BY <1>3, <1>7, <1>8, <2>1, <2>4, <2>5 DEF ActionIdentities
<1>10. CASE ~Busy(t[k])
  <2>1. PICK lc \in Terminal :
            /\ t.tombs = {y \in s.tombs : y.id # x} \cup {[id |-> x, lc |-> lc]}
            /\ Held(t[k]) => lc = t[k].lc
    BY <1>2, <1>10 DEF Buries
  <2>2. \A y \in t.tombs : (y.id # x /\ y \in s.tombs) \/ y = [id |-> x, lc |-> lc]
    BY <2>1
  <2>3. \A y, z \in t.tombs : y.id = z.id => y = z
    BY <1>3, <2>2 DEF ActionIdentities
  <2>4. \A a \in Actions(t) : a.lc \in Terminal => [id |-> a.id, lc |-> a.lc] \in t.tombs
    BY <1>1, <1>3, <1>4, <2>1 DEF ActionIdentities
  <2>5. \A a \in Actions(t), y \in t.tombs : a.id = y.id => a.lc = y.lc
    BY <1>1, <1>3, <1>4, <2>1, <2>2 DEF ActionIdentities
  <2> QED
    BY <1>7, <1>8, <2>3, <2>4, <2>5 DEF ActionIdentities
<1> QED
  BY <1>9, <1>10

\* The relations of workers, attempts and what the codec demands.
LEMMA TurnHistory ==
    ASSUME NEW s, NEW k \in Kinds, Fit(s, k), NEW t \in State, Turn(s, t, k)
    PROVE  WorkerAcknowledgements(t) /\ AttemptHistory(t) /\ PersistenceRelationships(t)
<1>1. /\ t.phase # "RECOVERING"
      /\ \A j \in Kinds \ {k} : t[j] = s[j] /\ ~Busy(t[j])
      /\ Held(t[k]) => t[k].lc \in InFlight \cup Failed
      /\ ~Held(t[k]) => t[k] = NoAction
  BY TurnKinds
<1>2. /\ t[k].lc \in InFlight => t[k].unit
      /\ Held(t[k]) => SameAction(s[k], t[k])
      /\ t.epoch = s.epoch
  BY DEF Turn, Steady
<1>3. \A a \in Mutators(t) : \E j \in Kinds : a = t[j]
  BY DEF Mutators, Kinds
<1>4. \A a \in Mutators(t) : a.lc \in InFlight => a = t[k]
  BY <1>1, <1>3 DEF Busy
<1>5. WorkerAcknowledgements(t)
  BY <1>2, <1>4 DEF WorkerAcknowledgements, MutatorsInFlight
<1>6. \A a \in Mutators(t) : a.lc # "ADMITTED" /\ (a.lc = "DISPATCHED" => a.unit)
  <2>1. t[k].lc # "ADMITTED"
    BY <1>1, NoActionStage DEF InFlight, Failed
  <2> QED
    BY <1>1, <1>2, <1>3, <1>4, <2>1 DEF Busy, InFlight
<1>7. AttemptHistory(s) /\ PersistenceRelationships(s)
  BY ChecksSplit DEF Fit
<1>8. s[k].lc \in InFlight => s[k].unit
  BY FitAlone
<1>9. s[k].lc = "ADMITTED" => ~s[k].unit
  BY <1>7 DEF PersistenceRelationships, Mutators, Kinds
<1>10. Held(t[k]) => AttemptKey(t[k]) = AttemptKey(s[k])
  BY <1>2 DEF SameAction, AttemptKey
<1>11. Busy(s[k]) /\ Held(s[k])
  BY Stages DEF Fit
<1>12. AttemptKey(s[k]).epoch = s[k].epoch
  BY DEF AttemptKey
<1>13. k = "probe" => AttemptKey(s.probe).epoch = s.epoch
  BY <1>7, <1>8, <1>11, <1>12 DEF Fit, Busy, AttemptHistory, PersistenceRelationships, InFlight
<1>14. k = "app" => AttemptKey(s.app).epoch = s.epoch
  BY <1>7, <1>8, <1>11, <1>12 DEF Fit, Busy, AttemptHistory, PersistenceRelationships, InFlight
<1>15. \A y \in t.probed \cup t.applied : y.epoch = t.epoch
  BY <1>2, <1>7, <1>13, <1>14 DEF Turn, Attempts, PersistenceRelationships
<1>16. PersistenceRelationships(t)
  BY <1>1, <1>6, <1>15 DEF PersistenceRelationships, Mutators
<1>17. Held(t.probe) /\ t.probe.lc # "ADMITTED" /\ t.probe.unit => AttemptKey(t.probe) \in t.probed
  <2>1. CASE k = "probe"
    BY <1>7, <1>9, <1>10, <1>11, <2>1 DEF AttemptHistory, Turn, Attempts
  <2>2. CASE k # "probe"
    BY <1>1, <1>7, <2>2 DEF AttemptHistory, Turn, Kinds
  <2> QED
    BY <2>1, <2>2
<1>18. Held(t.app) /\ t.app.lc # "ADMITTED" /\ t.app.unit => AttemptKey(t.app) \in t.applied
  <2>1. CASE k = "app"
    BY <1>7, <1>9, <1>10, <1>11, <2>1 DEF AttemptHistory, Turn, Attempts
  <2>2. CASE k # "app"
    BY <1>1, <1>7, <2>2 DEF AttemptHistory, Turn, Kinds
  <2> QED
    BY <2>1, <2>2
<1> QED
  BY <1>5, <1>16, <1>17, <1>18 DEF AttemptHistory


\* The relations of samples, authority and the numbered rules.
LEMMA TurnAuthority ==
    ASSUME NEW s, NEW k \in Kinds, Fit(s, k), NEW t \in State, Turn(s, t, k)
    PROVE  /\ ObservationAuthority(t) /\ LaptopLoadAuthorized(t) /\ ActionAuthorization(t)
           /\ NumberedSafetyRules(t) /\ FinalizationRequirement(t)
<1>1. /\ t.phase # "RECOVERING"
      /\ \A j \in Kinds \ {k} : t[j] = s[j] /\ ~Busy(t[j])
      /\ k = "probe" => ~Held(t.app) /\ ~Held(t.fin) /\ ~Held(t.prep)
      /\ k = "app" => ~Held(t.probe) /\ ~Held(t.fin)
      /\ k = "fin" => ~Held(t.probe) /\ ~Held(t.app)
      /\ k = "prep" => ~Held(t.probe) /\ ~Held(t.app) /\ ~Held(t.fin)
      /\ Held(t[k]) => t[k].lc \in InFlight \cup Failed
      /\ ~Held(t[k]) => t[k] = NoAction
  BY TurnKinds
<1>2. /\ t.obs = s.obs /\ t.obsGen = s.obsGen /\ t.egen = s.egen /\ t.epoch = s.epoch
      /\ t.cand = s.cand /\ t.finalized = s.finalized /\ t.required = s.required
      /\ t.intent = s.intent /\ t.baseline = s.baseline /\ t.planning = s.planning
      /\ t.unplug = s.unplug
  BY DEF Turn, Steady
<1>3. /\ ObservationAuthority(s) /\ LaptopLoadAuthorized(s) /\ ActionAuthorization(s)
      /\ NumberedSafetyRules(s) /\ FinalizationRequirement(s) /\ s.phase # "RECOVERING"
  BY ChecksSplit, FitAlone DEF Fit
<1>4. ASSUME NEW j \in Kinds, Held(t[j])
      PROVE  /\ Held(s[j]) /\ t[j].gen = s[j].gen /\ t[j].profile = s[j].profile
             /\ t[j].plan = s[j].plan
  <2>1. CASE j = k
    BY <1>4, <2>1, Stages DEF Turn, SameAction, Fit
  <2>2. CASE j # k
    BY <1>1, <1>4, <2>2
  <2> QED
    BY <2>1, <2>2
<1>5. Stands(t, k) /\ (k = "prep" => t.phase \in {s.phase, "DISCOVER_FAST"})
  BY DEF Turn
<1>6. ObservationAuthority(t)
  <2>1. Unresolved(t) => t.timer # "none"
    <3> SUFFICES ASSUME Unresolved(t), t.timer = "none" PROVE FALSE
      OBVIOUS
    <3>1. t.timer = s.timer /\ t.phase = s.phase
      BY DEF Unresolved, Turn
    <3>2. Unresolved(s)
      BY <1>2, <3>1 DEF Unresolved
    <3> QED
      BY <1>3, <3>1, <3>2 DEF ObservationAuthority, Unresolved
  <2> QED
    BY <1>2, <1>3, <2>1 DEF ObservationAuthority
<1>7. LaptopLoadAuthorized(t) /\ FinalizationRequirement(t)
  BY <1>2, <1>3, <1>4 DEF LaptopLoadAuthorized, FinalizationRequirement, Kinds
<1>8. t.phase \notin {"APPLY_PENDING", "PROBE_PENDING", "FINALIZE_PENDING"}
  <2>1. CASE k = "prep"
    <3>1. PhaseRelationships(s)
      BY ChecksSplit DEF Fit
    <3>2. ~Held(s.probe) /\ ~Held(s.app) /\ ~Held(s.fin)
      BY <2>1, FitAlone
    <3>3. s.phase \notin {"APPLY_PENDING", "PROBE_PENDING", "FINALIZE_PENDING"}
      BY <1>3, <3>1, <3>2 DEF PhaseRelationships, Matches, Held
    <3> QED
      BY <1>5, <2>1, <3>3
  <2>2. CASE k # "prep"
    BY <1>5, <2>2 DEF Stands
  <2> QED
    BY <2>1, <2>2
<1>9. t.prepState # "PREPARE_PENDING"
  <2>1. t.prep.lc # "ADMITTED"
    BY <1>1, NoActionStage DEF Kinds, Busy, InFlight, Failed
  <2>2. PlanningRelationships(t)
    BY TurnPhases
  <2> QED
    BY <1>1, <2>1, <2>2 DEF PlanningRelationships, Matches
<1>10. \A a \in Mutators(t) : a.gen <= t.egen
  <2>1. ASSUME NEW j \in Kinds PROVE t[j].gen <= t.egen
    <3>1. s[j].gen <= s.egen
      BY <1>3 DEF ActionAuthorization, Mutators, Kinds
    <3>2. NoAction.gen = 0 /\ s.egen \in Nat
      BY Fields DEF NoAction, Fit
    <3>3. CASE j = k /\ ~Held(t[k])
      BY <1>1, <1>2, <3>2, <3>3
    <3>4. CASE j = k /\ Held(t[k])
      BY <1>2, <1>4, <3>1, <3>4
    <3>5. CASE j # k
      BY <1>1, <1>2, <3>1, <3>5
    <3> QED
      BY <3>3, <3>4, <3>5
  <2> QED
    BY <2>1 DEF Mutators, Kinds
<1>11. Held(t.fin) => /\ t.prepState = "PREPARED"
                      /\ t.prep.lc = "COMPLETED"
                      /\ t.prep.plan = t.fin.plan
                      /\ t.prep.profile = t.fin.profile
  <2> SUFFICES ASSUME Held(t.fin)
               PROVE  /\ t.prepState = "PREPARED"
                      /\ t.prep.lc = "COMPLETED"
                      /\ t.prep.plan = t.fin.plan
                      /\ t.prep.profile = t.fin.profile
    OBVIOUS
  <2>1. k = "fin" /\ Held(s.fin) /\ t.fin.plan = s.fin.plan /\ t.fin.profile = s.fin.profile
    BY <1>1, <1>4 DEF Kinds
  <2>2. t.prep = s.prep /\ t.prepState = s.prepState
    BY <1>1, <2>1 DEF Turn, Kinds
  <2> QED
    BY <1>3, <2>1, <2>2 DEF ActionAuthorization
<1>12. ActionAuthorization(t)
  BY <1>8, <1>9, <1>10, <1>11 DEF ActionAuthorization
<1>13. NumberedSafetyRules(t)
  <2>1. Held(t.probe) => t.cand.profile = None /\ ~Held(t.planning) /\ ~Held(t.prep) /\ ~Held(t.fin)
    <3>1. Held(t.probe) => k = "probe" /\ Held(s.probe)
      BY <1>1, <1>4 DEF Kinds
    <3> QED
      BY <1>1, <1>2, <1>3, <3>1 DEF NumberedSafetyRules
  <2>2. t.phase = "VERIFYING" /\ t.verify # -1 => s.phase = "VERIFYING" /\ s.verify # -1
    BY <1>5 DEF Stands, Turn
  <2>3. Held(t.fin) => t.fin.profile # t.finalized
    BY <1>2, <1>3, <1>4 DEF NumberedSafetyRules, Kinds
  <2> QED
    BY <1>2, <1>3, <2>1, <2>2, <2>3 DEF NumberedSafetyRules
<1> QED
  BY <1>6, <1>7, <1>12, <1>13

\* So a state that was fit for the news of a worker passes the checks with them.
LEMMA TurnChecked ==
    ASSUME NEW s, NEW k \in Kinds, Fit(s, k), NEW t \in State, Turn(s, t, k)
    PROVE  FailedChecks(t) = {}
  BY TurnPhases, TurnIdentities, TurnHistory, TurnAuthority, ChecksSplit


-----------------------------------------------------------------------------
(* The news, one by one. *)

\* An action with another lifecycle is the same action.
LEMMA SameForms ==
    \A a \in Action : \A lc, v :
        LET b == [a EXCEPT !.lc = lc]
            c == [a EXCEPT !.lc = lc, !.after = v]
        IN /\ SameAction(a, b) /\ b.lc = lc /\ b.unit = a.unit
           /\ SameAction(a, c) /\ c.lc = lc /\ c.unit = a.unit
           /\ SameAction(a, AsStopping(a, v)) /\ AsStopping(a, v).lc = "STOPPING"
           /\ AsStopping(a, v).unit = a.unit
           /\ SameAction(a, AsDispatched(a)) /\ AsDispatched(a).lc = "DISPATCHED"
           /\ AsDispatched(a).unit = TRUE
           /\ SameAction(a, a)
  BY DEF Action, SameAction, AsStopping, AsDispatched

\* An acknowledged dispatch.
LEMMA DispatchTurns ==
    \A s \in State : \A k \in Kinds : Ids(s) /\ Placed(s) /\ s[k].lc = "ADMITTED" =>
        LET t == Dispatched(s, s[k].id).st
        IN Turn(s, t, k) /\ t[k].lc = "DISPATCHED" /\ t[k].id = s[k].id
<1> SUFFICES ASSUME NEW s \in State, NEW k \in Kinds, Ids(s), Placed(s), s[k].lc = "ADMITTED"
             PROVE LET t == Dispatched(s, s[k].id).st
                   IN Turn(s, t, k) /\ t[k].lc = "DISPATCHED" /\ t[k].id = s[k].id
  OBVIOUS
<1> DEFINE x == s[k].id
           b == AsDispatched(s[k])
           probing == [s EXCEPT !.phase = "PROBING", !.probe = AsDispatched(@),
                                !.probed = @ \cup {AttemptKey(s.probe)}, !.timer = "none"]
           applying == [s EXCEPT !.phase = "APPLYING", !.app = AsDispatched(@),
                                 !.applied = @ \cup {AttemptKey(s.app)}, !.timer = "none"]
           preparing == [s EXCEPT !.prepState = "PREPARING", !.prep = AsDispatched(@)]
           finalizing == [s EXCEPT !.phase = "FINALIZING", !.fin = AsDispatched(@)]
<1>1. SameAction(s[k], b) /\ b.lc = "DISPATCHED" /\ b.unit = TRUE /\ b.id = x
  BY KindsTyped, SameForms DEF SameAction
<1>2. Live(b) /\ Busy(b) /\ b.lc \in InFlight
  BY <1>1 DEF Live, Busy, InFlight
<1>3. /\ s.probe.id = x <=> k = "probe"
      /\ s.app.id = x <=> k = "app"
      /\ s.prep.id = x <=> k = "prep"
      /\ s.fin.id = x <=> k = "fin"
  BY Stages, LiveFirst
<1> HIDE DEF x
<1>4. CASE k = "probe"
  <2>1. Dispatched(s, x).st = probing
    BY <1>3, <1>4 DEF Dispatched, Decision, Placed
  <2>2. probing.probe = b /\ probing.phase = "PROBING" /\ probing.probed = s.probed \cup {AttemptKey(s.probe)}
        /\ probing.tombs = s.tombs
    BY <1>4, TurnFields DEF Kinds
  <2>3. Turn(s, probing, k)
    BY <1>1, <1>2, <1>4, <2>2, TurnFields DEF Turn, Steady, Kinds, Stands, Buries, Attempts
  <2> QED
    BY <1>1, <1>4, <2>1, <2>2, <2>3 DEF x
<1>5. CASE k = "app"
  <2>1. Dispatched(s, x).st = applying
    BY <1>3, <1>5 DEF Dispatched, Decision, Placed
  <2>2. applying.app = b /\ applying.phase = "APPLYING" /\ applying.applied = s.applied \cup {AttemptKey(s.app)}
        /\ applying.tombs = s.tombs
    BY <1>5, TurnFields DEF Kinds
  <2>3. Turn(s, applying, k)
    BY <1>1, <1>2, <1>5, <2>2, TurnFields DEF Turn, Steady, Kinds, Stands, Buries, Attempts
  <2> QED
    BY <1>1, <1>5, <2>1, <2>2, <2>3 DEF x
<1>6. CASE k = "prep"
  <2>1. Dispatched(s, x).st = preparing
    BY <1>3, <1>6 DEF Dispatched, Decision, Placed
  <2>2. preparing.prep = b /\ preparing.prepState = "PREPARING" /\ preparing.tombs = s.tombs
    BY <1>6, TurnFields DEF Kinds
  <2>3. Turn(s, preparing, k)
    BY <1>1, <1>2, <1>6, <2>2, TurnFields DEF Turn, Steady, Kinds, Stands, Buries
  <2> QED
    BY <1>1, <1>6, <2>1, <2>2, <2>3 DEF x
<1>7. CASE k = "fin"
  <2>1. Dispatched(s, x).st = finalizing
    BY <1>3, <1>7 DEF Dispatched, Decision, Placed
  <2>2. finalizing.fin = b /\ finalizing.phase = "FINALIZING" /\ finalizing.tombs = s.tombs
    BY <1>7, TurnFields DEF Kinds
  <2>3. Turn(s, finalizing, k)
    BY <1>1, <1>2, <1>7, <2>2, TurnFields DEF Turn, Steady, Kinds, Stands, Buries
  <2> QED
    BY <1>1, <1>7, <2>1, <2>2, <2>3 DEF x
<1> QED
  BY <1>4, <1>5, <1>6, <1>7 DEF Kinds


\* A worker that runs: its mutator is live, and no plan has its id.
Runs(s, k) ==
    /\ s \in State /\ Ids(s) /\ Live(s[k]) /\ s[k].unit /\ Stands(s, k)
    /\ s.planning.id # s[k].id

\* What a worker's outcome makes of its mutator: a failure is held, a result is
\* awaited for a desktop action, and any other end leaves a tombstone.
Ended(s, t, k, lc) ==
    LET gone == ~Held(t[k]) /\ [id |-> s[k].id, lc |-> lc] \in t.tombs
    IN /\ Turn(s, t, k)
       /\ lc \in Failed => t[k].lc = lc
       /\ lc = "CANCELLED" => gone
       /\ lc = "COMPLETED" => IF k \in {"prep", "fin"} THEN t[k].lc = "RESULT_PENDING" ELSE gone

\* A mutator that is live after a turn runs.
LEMMA TurnRuns ==
    \A s, t \in State : \A k \in Kinds :
        Ids(s) /\ Busy(s[k]) /\ s.planning.id # s[k].id /\ Turn(s, t, k) /\ Live(t[k]) => Runs(t, k)
<1> SUFFICES ASSUME NEW s \in State, NEW t \in State, NEW k \in Kinds, Ids(s), Busy(s[k]),
                    s.planning.id # s[k].id, Turn(s, t, k), Live(t[k])
             PROVE Runs(t, k)
  OBVIOUS
<1>1. Busy(t[k]) /\ Held(t[k]) /\ t[k].lc \in InFlight
  BY Stages DEF Live, InFlight
<1>2. t[k].id = s[k].id /\ t.planning = s.planning /\ t.seq = s.seq /\ t[k].unit /\ Stands(t, k)
  BY <1>1 DEF Turn, Steady, SameAction
<1>3. Replaces(s, t, k, t[k])
  BY <1>2 DEF Turn, Replaces
<1>4. Ids(t)
  BY <1>1, <1>2, <1>3, ReplacesIds
<1> QED
  BY <1>2, <1>4 DEF Runs

\* The first mutator with the id of one that runs is that one, in its phase.
LEMMA RunsFirst ==
    ASSUME NEW s, NEW k \in Kinds, Runs(s, k)
    PROVE  LET x == s[k].id
           IN /\ s.planning.id # x /\ s \in State /\ s[k] \in Action /\ Held(s[k]) /\ Busy(s[k])
              /\ s.probe.id = x <=> k = "probe"
              /\ s.app.id = x <=> k = "app"
              /\ s.prep.id = x <=> k = "prep"
              /\ s.fin.id = x <=> k = "fin"
              /\ k = "probe" => s.phase = "PROBING"
              /\ k = "app" => s.phase = "APPLYING"
              /\ k = "prep" => s.prepState = IF s.prep.lc = "STOPPING" THEN "PREPARE_STOPPING" ELSE "PREPARING"
              /\ k = "fin" => s.phase = IF s.fin.lc = "STOPPING" THEN "FINALIZE_STOPPING" ELSE "FINALIZING"
<1>1. s \in State /\ Ids(s) /\ Live(s[k]) /\ Stands(s, k) /\ s.planning.id # s[k].id
  BY DEF Runs
<1>2. Busy(s[k]) /\ Held(s[k]) /\ s[k] \in Action
  BY <1>1, Stages, KindsTyped
<1>3. s[k] # NoAction /\ s[k].lc \notin Failed /\ s[k].lc # "RESULT_PENDING"
  BY <1>1, NoActionStage DEF Live, Failed
<1> QED
  BY <1>1, <1>2, <1>3, LiveFirst DEF Stands

\* An uncertain worker is stopped.
LEMMA UncertainTurns ==
    ASSUME NEW s, NEW k \in Kinds, Runs(s, k), NEW v
    PROVE  LET t == WorkerUncertain(s, s[k].id, v).st IN Turn(s, t, k) /\ t[k].lc = "STOPPING"
<1> DEFINE x == s[k].id
           t == WorkerUncertain(s, x, v).st
           b == AsStopping(s[k], v)
<1>1. /\ s \in State /\ s[k] \in Action /\ Ids(s) /\ Live(s[k]) /\ s[k].unit
      /\ s.probe.id = x <=> k = "probe"
      /\ s.app.id = x <=> k = "app"
      /\ s.prep.id = x <=> k = "prep"
      /\ s.fin.id = x <=> k = "fin"
  BY RunsFirst DEF Runs
<1>2. SameAction(s[k], b) /\ b.lc = "STOPPING" /\ b.unit = s[k].unit
  BY <1>1, SameForms
<1>3. Live(b) /\ Busy(b) /\ b.lc \in InFlight
  BY <1>2 DEF Live, Busy, InFlight
<1>4. WorkerUncertain(s, x, v) = StopUncertainMutator(s, x, v)
  BY <1>1 DEF WorkerUncertain, Mutators, Live, Kinds
<1> HIDE DEF x, b
<1>5. CASE k = "probe"
  <2>1. t = [[s EXCEPT !.phase = "PROBING",
                       !.probe = AsStopping(@, v)] EXCEPT !.timer = "tick"]
    BY <1>1, <1>4, <1>5 DEF StopUncertainMutator, Schedule, Decision
  <2> HIDE DEF t
  <2>2. t.probe = b /\ t.phase = "PROBING" /\ t.tombs = s.tombs /\ t.timer = "tick"
    BY <1>1, <1>5, <2>1, TurnFields DEF Kinds, b
  <2>3. Turn(s, t, k)
    BY <1>1, <1>2, <1>3, <1>5, <2>1, <2>2, TurnFields DEF Turn, Steady, Kinds, Stands, Buries, Attempts
  <2> QED
    BY <1>2, <1>5, <2>2, <2>3 DEF t, x
<1>6. CASE k = "app"
  <2>1. t = [[s EXCEPT !.phase = "APPLYING",
                       !.app = AsStopping(@, v)] EXCEPT !.timer = "tick"]
    BY <1>1, <1>4, <1>6 DEF StopUncertainMutator, Schedule, Decision
  <2> HIDE DEF t
  <2>2. t.app = b /\ t.phase = "APPLYING" /\ t.tombs = s.tombs /\ t.timer = "tick"
    BY <1>1, <1>6, <2>1, TurnFields DEF Kinds, b
  <2>3. Turn(s, t, k)
    BY <1>1, <1>2, <1>3, <1>6, <2>1, <2>2, TurnFields DEF Turn, Steady, Kinds, Stands, Buries, Attempts
  <2> QED
    BY <1>2, <1>6, <2>2, <2>3 DEF t, x
<1>7. CASE k = "prep"
  <2>1. t = [[s EXCEPT !.phase = "DISCOVER_FAST", !.prepState = "PREPARE_STOPPING",
                       !.prep = AsStopping(@, v), !.verify = -1] EXCEPT !.timer = "tick"]
    BY <1>1, <1>4, <1>7 DEF StopUncertainMutator, Schedule, Decision
  <2> HIDE DEF t
  <2>2. t.prep = b /\ t.prepState = "PREPARE_STOPPING" /\ t.tombs = s.tombs /\ t.timer = "tick"
    BY <1>1, <1>7, <2>1, TurnFields DEF Kinds, b
  <2>3. Turn(s, t, k)
    BY <1>1, <1>2, <1>3, <1>7, <2>1, <2>2, TurnFields DEF Turn, Steady, Kinds, Stands, Buries, Attempts
  <2> QED
    BY <1>2, <1>7, <2>2, <2>3 DEF t, x
<1>8. CASE k = "fin"
  <2>1. t = [[s EXCEPT !.phase = "FINALIZE_STOPPING",
                       !.fin = AsStopping(@, v), !.verify = -1] EXCEPT !.timer = "tick"]
    BY <1>1, <1>4, <1>8 DEF StopUncertainMutator, Schedule, Decision
  <2> HIDE DEF t
  <2>2. t.fin = b /\ t.phase = "FINALIZE_STOPPING" /\ t.tombs = s.tombs /\ t.timer = "tick"
    BY <1>1, <1>8, <2>1, TurnFields DEF Kinds, b
  <2>3. Turn(s, t, k)
    BY <1>1, <1>2, <1>3, <1>8, <2>1, <2>2, TurnFields DEF Turn, Steady, Kinds, Stands, Buries, Attempts
  <2> QED
    BY <1>2, <1>8, <2>2, <2>3 DEF t, x
<1> QED
  BY <1>5, <1>6, <1>7, <1>8 DEF Kinds


\* The lifecycle a reported outcome ends in.
LEMMA OutcomeEnds ==
    /\ EndedLifecycle("SUCCEEDED") = "COMPLETED" /\ EndedLifecycle("CANCELLED") = "CANCELLED"
    /\ EndedLifecycle("FAILED") = "FAILED"
  BY DEF EndedLifecycle

\* The end of a dispatched worker, as it is reported.
LEMMA FinishedTurns ==
    ASSUME NEW s, NEW k \in Kinds, Runs(s, k), s[k].lc = "DISPATCHED", NEW outcome \in Outcomes
    PROVE  Ended(s, Finished(s, s[k].id, outcome, TRUE).st, k, EndedLifecycle(outcome))
<1> DEFINE x == s[k].id
           t == Finished(s, x, outcome, TRUE).st
           T(lc) == {y \in s.tombs : y.id # x} \cup {[id |-> x, lc |-> lc]}
           b == [[s[k] EXCEPT !.lc = "FAILED"] EXCEPT !.after = None]
           c == [s[k] EXCEPT !.lc = "RESULT_PENDING", !.after = None]
<1>1. /\ s \in State /\ s[k] \in Action /\ Held(s[k]) /\ s[k].unit
      /\ s.planning.id # x
      /\ s.probe.id = x <=> k = "probe"
      /\ s.app.id = x <=> k = "app"
      /\ s.prep.id = x <=> k = "prep"
      /\ s.fin.id = x <=> k = "fin"
      /\ k = "probe" => s.phase = "PROBING"
      /\ k = "app" => s.phase = "APPLYING"
      /\ k = "prep" => s.prepState = "PREPARING"
      /\ k = "fin" => s.phase = "FINALIZING"
  BY RunsFirst DEF Runs
<1>2. /\ SameAction(s[k], b) /\ b.lc = "FAILED"
      /\ SameAction(s[k], c) /\ c.lc = "RESULT_PENDING" /\ c.unit = s[k].unit
  <2>1. s[k] \in Action
    BY <1>1
  <2>2. SameAction(s[k], b) /\ b.lc = "FAILED"
    BY <2>1 DEF Action, SameAction
  <2>3. SameAction(s[k], c) /\ c.lc = "RESULT_PENDING" /\ c.unit = s[k].unit
    BY <2>1 DEF Action, SameAction
  <2> QED
    BY <2>2, <2>3
<1>3. /\ ~Busy(b) /\ Held(b) /\ b.lc \in Failed /\ b.lc \in Terminal /\ b.lc \notin InFlight
      /\ Busy(c) /\ Held(c) /\ ~Live(c)
  BY <1>2 DEF Busy, InFlight, Failed, Terminal, Held, Live
<1>4. /\ ~Held(NoAction) /\ ~Busy(NoAction) /\ NoAction.lc \notin InFlight
      /\ "COMPLETED" \in Terminal /\ "CANCELLED" \in Terminal
      /\ "COMPLETED" \notin Failed /\ "CANCELLED" \notin Failed
  BY DEF NoAction, Held, Busy, InFlight, Terminal, Failed
<1>5. outcome \in {"SUCCEEDED", "FAILED", "CANCELLED"}
  BY DEF Outcomes
<1> HIDE DEF x, b, c, T
<1>6. CASE k = "probe"
  <2>1. CASE outcome = "FAILED"
    <3>1. t = [[[[s EXCEPT !.tombs = T("FAILED")] EXCEPT !.phase = "PROBE_FAILED", !.probe.lc = "FAILED"]
                   EXCEPT !.probe.after = None] EXCEPT !.timer = "health"]
      BY <1>1, <1>6, <2>1 DEF Finished, ProbeFinished, FailAction, Schedule, Decision, T
    <3> HIDE DEF t
    <3>2. t.probe = b /\ t.phase = "PROBE_FAILED" /\ t.tombs = T("FAILED") /\ t.timer = "health"
      BY <1>1, <1>6, <3>1, TurnFields DEF Kinds, b
    <3>3. Buries(s, t, k)
      BY <1>2, <1>3, <1>6, <3>2 DEF Buries, T, x
    <3>4. Turn(s, t, k)
      BY <1>1, <1>2, <1>3, <1>6, <3>1, <3>2, <3>3, TurnFields DEF Turn, Steady, Kinds, Stands, Attempts
    <3> QED
      BY <1>2, <1>6, <2>1, <3>2, <3>4, OutcomeEnds DEF Ended, t, x
  <2>2. CASE outcome = "CANCELLED"
    <3>0. DropProbe(s, "CANCELLED") = [[s EXCEPT !.tombs = T("CANCELLED")] EXCEPT !.phase = "DISCOVER_FAST", !.probe = NoAction]
      BY <1>1, <1>6 DEF DropProbe, AppendTombstone, T
    <3> HIDE DEF T
    <3>1. t = [[[s EXCEPT !.tombs = T("CANCELLED")] EXCEPT !.phase = "DISCOVER_FAST", !.probe = NoAction]
                 EXCEPT !.timer = "now"]
      <4>1. t = [DropProbe(s, "CANCELLED") EXCEPT !.timer = "now"]
        BY <1>1, <1>6, <2>2, OutcomeEnds DEF Finished, ProbeFinished, Schedule, Decision
      <4> QED
        BY <3>0, <4>1
    <3> HIDE DEF t
    <3>2. t.probe = NoAction /\ t.phase = "DISCOVER_FAST" /\ t.tombs = T("CANCELLED") /\ t.timer = "now"
      BY <1>1, <1>6, <3>1, TurnFields DEF Kinds
    <3>3. Buries(s, t, k)
      BY <1>4, <1>6, <3>2 DEF Buries, T, x
    <3>4. Turn(s, t, k)
      BY <1>1, <1>4, <1>6, <3>1, <3>2, <3>3, TurnFields DEF Turn, Steady, Kinds, Stands, Attempts
    <3>5. [id |-> s[k].id, lc |-> "CANCELLED"] \in t.tombs
      BY <3>2 DEF T, x
    <3> QED
      BY <1>4, <1>6, <2>2, <3>2, <3>4, <3>5, OutcomeEnds DEF Ended, t, x
  <2>3. CASE outcome = "SUCCEEDED"
    <3>0. DropProbe(s, "COMPLETED") = [[s EXCEPT !.tombs = T("COMPLETED")] EXCEPT !.phase = "DISCOVER_FAST", !.probe = NoAction]
      BY <1>1, <1>6 DEF DropProbe, AppendTombstone, T
    <3> HIDE DEF T
    <3>1. t = [[[s EXCEPT !.tombs = T("COMPLETED")] EXCEPT !.phase = "DISCOVER_FAST", !.probe = NoAction]
                 EXCEPT !.timer = "now"]
      <4>1. t = [DropProbe(s, "COMPLETED") EXCEPT !.timer = "now"]
        BY <1>1, <1>6, <2>3, OutcomeEnds DEF Finished, ProbeFinished, Schedule, Decision
      <4> QED
        BY <3>0, <4>1
    <3> HIDE DEF t
    <3>2. t.probe = NoAction /\ t.phase = "DISCOVER_FAST" /\ t.tombs = T("COMPLETED") /\ t.timer = "now"
      BY <1>1, <1>6, <3>1, TurnFields DEF Kinds
    <3>3. Buries(s, t, k)
      BY <1>4, <1>6, <3>2 DEF Buries, T, x
    <3>4. Turn(s, t, k)
      BY <1>1, <1>4, <1>6, <3>1, <3>2, <3>3, TurnFields DEF Turn, Steady, Kinds, Stands, Attempts
    <3>5. [id |-> s[k].id, lc |-> "COMPLETED"] \in t.tombs
      BY <3>2 DEF T, x
    <3> QED
      BY <1>4, <1>6, <2>3, <3>2, <3>4, <3>5, OutcomeEnds DEF Ended, t, x
  <2> QED
    BY <1>5, <2>1, <2>2, <2>3
<1>7. CASE k = "app"
  <2>1. CASE outcome = "FAILED"
    <3>1. t = [[[[s EXCEPT !.tombs = T("FAILED")] EXCEPT !.phase = "APPLY_FAILED", !.app.lc = "FAILED"]
                   EXCEPT !.app.after = None] EXCEPT !.timer = "health"]
      BY <1>1, <1>7, <2>1 DEF Finished, ApplicationFinished, FailAction, Schedule, Decision, T
    <3> HIDE DEF t
    <3>2. t.app = b /\ t.phase = "APPLY_FAILED" /\ t.tombs = T("FAILED") /\ t.timer = "health"
      BY <1>1, <1>7, <3>1, TurnFields DEF Kinds, b
    <3>3. Buries(s, t, k)
      BY <1>2, <1>3, <1>7, <3>2 DEF Buries, T, x
    <3>4. Turn(s, t, k)
      BY <1>1, <1>2, <1>3, <1>7, <3>1, <3>2, <3>3, TurnFields DEF Turn, Steady, Kinds, Stands, Attempts
    <3> QED
      BY <1>2, <1>7, <2>1, <3>2, <3>4, OutcomeEnds DEF Ended, t, x
  <2>2. CASE outcome = "CANCELLED"
    <3>0. DropApplication(s, "CANCELLED") = [[s EXCEPT !.tombs = T("CANCELLED")] EXCEPT !.phase = "DISCOVER_FAST", !.app = NoAction]
      BY <1>1, <1>7 DEF DropApplication, AppendTombstone, T
    <3> HIDE DEF T
    <3>1. t = [[[[s EXCEPT !.tombs = T("CANCELLED")] EXCEPT !.phase = "DISCOVER_FAST", !.app = NoAction] EXCEPT !.verify = IF outcome = "SUCCEEDED" THEN -1 ELSE @]
                 EXCEPT !.timer = "now"]
      <4>1. t = [[DropApplication(s, "CANCELLED") EXCEPT !.verify = IF outcome = "SUCCEEDED" THEN -1 ELSE @] EXCEPT !.timer = "now"]
        BY <1>1, <1>7, <2>2, OutcomeEnds DEF Finished, ApplicationFinished, Schedule, Decision
      <4> QED
        BY <3>0, <4>1
    <3> HIDE DEF t
    <3>2. t.app = NoAction /\ t.phase = "DISCOVER_FAST" /\ t.tombs = T("CANCELLED") /\ t.timer = "now"
      BY <1>1, <1>7, <3>1, TurnFields DEF Kinds
    <3>3. Buries(s, t, k)
      BY <1>4, <1>7, <3>2 DEF Buries, T, x
    <3>4. Turn(s, t, k)
      BY <1>1, <1>4, <1>7, <3>1, <3>2, <3>3, TurnFields DEF Turn, Steady, Kinds, Stands, Attempts
    <3>5. [id |-> s[k].id, lc |-> "CANCELLED"] \in t.tombs
      BY <3>2 DEF T, x
    <3> QED
      BY <1>4, <1>7, <2>2, <3>2, <3>4, <3>5, OutcomeEnds DEF Ended, t, x
  <2>3. CASE outcome = "SUCCEEDED"
    <3>0. DropApplication(s, "COMPLETED") = [[s EXCEPT !.tombs = T("COMPLETED")] EXCEPT !.phase = "DISCOVER_FAST", !.app = NoAction]
      BY <1>1, <1>7 DEF DropApplication, AppendTombstone, T
    <3> HIDE DEF T
    <3>1. t = [[[[s EXCEPT !.tombs = T("COMPLETED")] EXCEPT !.phase = "DISCOVER_FAST", !.app = NoAction] EXCEPT !.verify = IF outcome = "SUCCEEDED" THEN -1 ELSE @]
                 EXCEPT !.timer = "now"]
      <4>1. t = [[DropApplication(s, "COMPLETED") EXCEPT !.verify = IF outcome = "SUCCEEDED" THEN -1 ELSE @] EXCEPT !.timer = "now"]
        BY <1>1, <1>7, <2>3, OutcomeEnds DEF Finished, ApplicationFinished, Schedule, Decision
      <4> QED
        BY <3>0, <4>1
    <3> HIDE DEF t
    <3>2. t.app = NoAction /\ t.phase = "DISCOVER_FAST" /\ t.tombs = T("COMPLETED") /\ t.timer = "now"
      BY <1>1, <1>7, <3>1, TurnFields DEF Kinds
    <3>3. Buries(s, t, k)
      BY <1>4, <1>7, <3>2 DEF Buries, T, x
    <3>4. Turn(s, t, k)
      BY <1>1, <1>4, <1>7, <3>1, <3>2, <3>3, TurnFields DEF Turn, Steady, Kinds, Stands, Attempts
    <3>5. [id |-> s[k].id, lc |-> "COMPLETED"] \in t.tombs
      BY <3>2 DEF T, x
    <3> QED
      BY <1>4, <1>7, <2>3, <3>2, <3>4, <3>5, OutcomeEnds DEF Ended, t, x
  <2> QED
    BY <1>5, <2>1, <2>2, <2>3
<1>8. CASE k = "prep"
  <2>1. CASE outcome = "FAILED"
    <3>1. t = [[[[s EXCEPT !.tombs = T("FAILED")] EXCEPT !.prepState = "PREPARE_FAILED", !.prep.lc = "FAILED"]
                   EXCEPT !.prep.after = None] EXCEPT !.timer = "health"]
      BY <1>1, <1>8, <2>1 DEF Finished, PreparationFinished, FailAction, Schedule, Decision, T
    <3> HIDE DEF t
    <3>2. t.prep = b /\ t.prepState = "PREPARE_FAILED" /\ t.tombs = T("FAILED") /\ t.timer = "health"
      BY <1>1, <1>8, <3>1, TurnFields DEF Kinds, b
    <3>3. Buries(s, t, k)
      BY <1>2, <1>3, <1>8, <3>2 DEF Buries, T, x
    <3>4. Turn(s, t, k)
      BY <1>1, <1>2, <1>3, <1>8, <3>1, <3>2, <3>3, TurnFields DEF Turn, Steady, Kinds, Stands, Attempts
    <3> QED
      BY <1>2, <1>8, <2>1, <3>2, <3>4, OutcomeEnds DEF Ended, t, x
  <2>2. CASE outcome = "CANCELLED"
    <3>0. DropPreparation(s, "CANCELLED") = [[s EXCEPT !.tombs = T("CANCELLED")] EXCEPT !.prepState = "PREPARE_IDLE", !.prep = NoAction]
      BY <1>1, <1>8 DEF DropPreparation, AppendTombstone, T
    <3> HIDE DEF T
    <3>1. t = [[[[s EXCEPT !.tombs = T("CANCELLED")] EXCEPT !.prepState = "PREPARE_IDLE", !.prep = NoAction] EXCEPT !.phase = "DISCOVER_FAST"]
                 EXCEPT !.timer = "now"]
      <4>1. t = [[DropPreparation(s, "CANCELLED") EXCEPT !.phase = "DISCOVER_FAST"] EXCEPT !.timer = "now"]
        BY <1>1, <1>8, <2>2, OutcomeEnds DEF Finished, PreparationFinished, Schedule, Decision
      <4> QED
        BY <3>0, <4>1
    <3> HIDE DEF t
    <3>2. t.prep = NoAction /\ t.prepState = "PREPARE_IDLE" /\ t.tombs = T("CANCELLED") /\ t.timer = "now"
      BY <1>1, <1>8, <3>1, TurnFields DEF Kinds
    <3>3. Buries(s, t, k)
      BY <1>4, <1>8, <3>2 DEF Buries, T, x
    <3>4. Turn(s, t, k)
      BY <1>1, <1>4, <1>8, <3>1, <3>2, <3>3, TurnFields DEF Turn, Steady, Kinds, Stands, Attempts
    <3>5. [id |-> s[k].id, lc |-> "CANCELLED"] \in t.tombs
      BY <3>2 DEF T, x
    <3> QED
      BY <1>4, <1>8, <2>2, <3>2, <3>4, <3>5, OutcomeEnds DEF Ended, t, x
  <2>3. CASE outcome = "SUCCEEDED"
    <3>1. t = [[s EXCEPT !.prep.lc = "RESULT_PENDING", !.prep.after = None] EXCEPT !.timer = "now"]
      BY <1>1, <1>8, <2>3 DEF Finished, PreparationFinished, Schedule, Decision
    <3> HIDE DEF t
    <3>2. t.prep = c /\ t.prepState = "PREPARING" /\ t.tombs = s.tombs /\ t.timer = "now"
      BY <1>1, <1>8, <3>1, TurnFields DEF Kinds, c
    <3>3. Buries(s, t, k)
      BY <1>3, <1>8, <3>2 DEF Buries
    <3>4. Turn(s, t, k)
      BY <1>1, <1>2, <1>3, <1>8, <3>1, <3>2, <3>3, TurnFields DEF Turn, Steady, Kinds, Stands, Attempts
    <3> QED
      BY <1>2, <1>4, <1>8, <2>3, <3>2, <3>4, OutcomeEnds DEF Ended, t, x
  <2> QED
    BY <1>5, <2>1, <2>2, <2>3
<1>9. CASE k = "fin"
  <2>1. CASE outcome = "FAILED"
    <3>1. t = [[[[s EXCEPT !.tombs = T("FAILED")] EXCEPT !.phase = "FINALIZE_FAILED", !.fin.lc = "FAILED"]
                   EXCEPT !.fin.after = None] EXCEPT !.timer = "health"]
      BY <1>1, <1>9, <2>1 DEF Finished, FinalizationFinished, FailAction, Schedule, Decision, T
    <3> HIDE DEF t
    <3>2. t.fin = b /\ t.phase = "FINALIZE_FAILED" /\ t.tombs = T("FAILED") /\ t.timer = "health"
      BY <1>1, <1>9, <3>1, TurnFields DEF Kinds, b
    <3>3. Buries(s, t, k)
      BY <1>2, <1>3, <1>9, <3>2 DEF Buries, T, x
    <3>4. Turn(s, t, k)
      BY <1>1, <1>2, <1>3, <1>9, <3>1, <3>2, <3>3, TurnFields DEF Turn, Steady, Kinds, Stands, Attempts
    <3> QED
      BY <1>2, <1>9, <2>1, <3>2, <3>4, OutcomeEnds DEF Ended, t, x
  <2>2. CASE outcome = "CANCELLED"
    <3>0. DropFinalization(s, "CANCELLED") = [[s EXCEPT !.tombs = T("CANCELLED")] EXCEPT !.phase = "DISCOVER_FAST", !.fin = NoAction]
      BY <1>1, <1>9 DEF DropFinalization, AppendTombstone, T
    <3> HIDE DEF T
    <3>1. t = [[[[s EXCEPT !.tombs = T("CANCELLED")] EXCEPT !.phase = "DISCOVER_FAST", !.fin = NoAction] EXCEPT !.verify = -1]
                 EXCEPT !.timer = "now"]
      <4>1. t = [[DropFinalization(s, "CANCELLED") EXCEPT !.verify = -1] EXCEPT !.timer = "now"]
        BY <1>1, <1>9, <2>2, OutcomeEnds DEF Finished, FinalizationFinished, Schedule, Decision
      <4> QED
        BY <3>0, <4>1
    <3> HIDE DEF t
    <3>2. t.fin = NoAction /\ t.phase = "DISCOVER_FAST" /\ t.tombs = T("CANCELLED") /\ t.timer = "now"
      BY <1>1, <1>9, <3>1, TurnFields DEF Kinds
    <3>3. Buries(s, t, k)
      BY <1>4, <1>9, <3>2 DEF Buries, T, x
    <3>4. Turn(s, t, k)
      BY <1>1, <1>4, <1>9, <3>1, <3>2, <3>3, TurnFields DEF Turn, Steady, Kinds, Stands, Attempts
    <3>5. [id |-> s[k].id, lc |-> "CANCELLED"] \in t.tombs
      BY <3>2 DEF T, x
    <3> QED
      BY <1>4, <1>9, <2>2, <3>2, <3>4, <3>5, OutcomeEnds DEF Ended, t, x
  <2>3. CASE outcome = "SUCCEEDED"
    <3>1. t = [[s EXCEPT !.fin.lc = "RESULT_PENDING", !.fin.after = None, !.phase = "FINALIZING"] EXCEPT !.timer = "now"]
      BY <1>1, <1>9, <2>3 DEF Finished, FinalizationFinished, Schedule, Decision
    <3> HIDE DEF t
    <3>2. t.fin = c /\ t.phase = "FINALIZING" /\ t.tombs = s.tombs /\ t.timer = "now"
      BY <1>1, <1>9, <3>1, TurnFields DEF Kinds, c
    <3>3. Buries(s, t, k)
      BY <1>3, <1>9, <3>2 DEF Buries
    <3>4. Turn(s, t, k)
      BY <1>1, <1>2, <1>3, <1>9, <3>1, <3>2, <3>3, TurnFields DEF Turn, Steady, Kinds, Stands, Attempts
    <3> QED
      BY <1>2, <1>4, <1>9, <2>3, <3>2, <3>4, OutcomeEnds DEF Ended, t, x
  <2> QED
    BY <1>5, <2>1, <2>2, <2>3
<1> QED
  BY <1>6, <1>7, <1>8, <1>9 DEF Kinds


\* The end of a worker goes on from a turn of its mutator.
LEMMA EndedOn ==
    \A s, t, u, lc : \A k \in Kinds : Turn(s, t, k) /\ Ended(t, u, k, lc) /\ Busy(t[k]) => Ended(s, u, k, lc)
<1> SUFFICES ASSUME NEW s, NEW t, NEW u, NEW lc, NEW k \in Kinds, Turn(s, t, k), Ended(t, u, k, lc), Busy(t[k])
             PROVE Ended(s, u, k, lc)
  OBVIOUS
<1>1. Turn(s, u, k)
  BY TurnOn DEF Ended
<1>2. t[k].id = s[k].id
  BY Stages DEF Turn, SameAction
<1> QED
  BY <1>1, <1>2 DEF Ended

\* A stopped worker that had succeeded is taken up again.
LEMMA ResumeTurns ==
    ASSUME NEW s, NEW k \in Kinds, Runs(s, k)
    PROVE  Ended(s, ResumeCompletion(s, s[k].id).st, k, "COMPLETED")
<1> DEFINE x == s[k].id
           b == [s[k] EXCEPT !.lc = "DISPATCHED", !.after = None]
<1>1. /\ s \in State /\ s[k] \in Action /\ Held(s[k]) /\ s[k].unit /\ x \in Nat
      /\ s.planning.id # x
      /\ s.probe.id = x <=> k = "probe"
      /\ s.app.id = x <=> k = "app"
      /\ s.prep.id = x <=> k = "prep"
      /\ s.fin.id = x <=> k = "fin"
  BY RunsFirst, KindsTyped DEF Runs
<1>2. SameAction(s[k], b) /\ b.lc = "DISPATCHED" /\ b.unit = s[k].unit /\ b.id = x /\ b \in Action
  <2>1. SameAction(s[k], b) /\ b.lc = "DISPATCHED" /\ b.unit = s[k].unit /\ b.id = x
    BY <1>1 DEF Action, SameAction
  <2>2. \A a \in Action : [a EXCEPT !.lc = "DISPATCHED", !.after = None] \in Action
    BY SetActionLc, SetActionAfter DEF Lifecycles, InFlight
  <2> QED
    BY <1>1, <2>1, <2>2
<1>3. Live(b) /\ Busy(b) /\ b.lc \in InFlight
  BY <1>2 DEF Live, Busy, InFlight
<1> HIDE DEF x
<1>4. \E t \in State : /\ ResumeCompletion(s, x) = Finished(t, x, "SUCCEEDED", TRUE)
                       /\ Turn(s, t, k) /\ t[k] = b
  <2>1. CASE k = "probe"
    <3> DEFINE t == [s EXCEPT !.phase = "PROBING", !.probe = [@ EXCEPT !.lc = "DISPATCHED", !.after = None]]
    <3>1. ResumeCompletion(s, x) = Finished(t, x, "SUCCEEDED", TRUE)
      BY <1>1, <2>1 DEF ResumeCompletion
    <3>2. t \in State
      BY <1>1, <1>2, <2>1, Set_phase, Set_probe, Named DEF PrepStates
    <3>3. t.probe = b /\ t.phase = "PROBING" /\ t.tombs = s.tombs /\ t.timer = s.timer
      BY <1>1, <2>1, TurnFields DEF Kinds
    <3> HIDE DEF b
    <3>4. Turn(s, t, k)
      BY <1>1, <1>2, <1>3, <2>1, <3>3, TurnFields DEF Turn, Steady, Kinds, Stands, Buries, Attempts
    <3> QED
      BY <2>1, <3>1, <3>2, <3>3, <3>4
  <2>2. CASE k = "app"
    <3> DEFINE t == [s EXCEPT !.phase = "APPLYING", !.app = [@ EXCEPT !.lc = "DISPATCHED", !.after = None]]
    <3>1. ResumeCompletion(s, x) = Finished(t, x, "SUCCEEDED", TRUE)
      BY <1>1, <2>2 DEF ResumeCompletion
    <3>2. t \in State
      BY <1>1, <1>2, <2>2, Set_phase, Set_app, Named DEF PrepStates
    <3>3. t.app = b /\ t.phase = "APPLYING" /\ t.tombs = s.tombs /\ t.timer = s.timer
      BY <1>1, <2>2, TurnFields DEF Kinds
    <3> HIDE DEF b
    <3>4. Turn(s, t, k)
      BY <1>1, <1>2, <1>3, <2>2, <3>3, TurnFields DEF Turn, Steady, Kinds, Stands, Buries, Attempts
    <3> QED
      BY <2>2, <3>1, <3>2, <3>3, <3>4
  <2>3. CASE k = "prep"
    <3> DEFINE t == [s EXCEPT !.prepState = "PREPARING", !.prep = [@ EXCEPT !.lc = "DISPATCHED", !.after = None]]
    <3>1. ResumeCompletion(s, x) = Finished(t, x, "SUCCEEDED", TRUE)
      BY <1>1, <2>3 DEF ResumeCompletion
    <3>2. t \in State
      BY <1>1, <1>2, <2>3, Set_prepState, Set_prep, Named DEF PrepStates
    <3>3. t.prep = b /\ t.prepState = "PREPARING" /\ t.tombs = s.tombs /\ t.timer = s.timer
      BY <1>1, <2>3, TurnFields DEF Kinds
    <3> HIDE DEF b
    <3>4. Turn(s, t, k)
      BY <1>1, <1>2, <1>3, <2>3, <3>3, TurnFields DEF Turn, Steady, Kinds, Stands, Buries, Attempts
    <3> QED
      BY <2>3, <3>1, <3>2, <3>3, <3>4
  <2>4. CASE k = "fin"
    <3> DEFINE t == [s EXCEPT !.phase = "FINALIZING", !.fin = [@ EXCEPT !.lc = "DISPATCHED", !.after = None]]
    <3>1. ResumeCompletion(s, x) = Finished(t, x, "SUCCEEDED", TRUE)
      BY <1>1, <2>4 DEF ResumeCompletion
    <3>2. t \in State
      BY <1>1, <1>2, <2>4, Set_phase, Set_fin, Named DEF PrepStates
    <3>3. t.fin = b /\ t.phase = "FINALIZING" /\ t.tombs = s.tombs /\ t.timer = s.timer
      BY <1>1, <2>4, TurnFields DEF Kinds
    <3> HIDE DEF b
    <3>4. Turn(s, t, k)
      BY <1>1, <1>2, <1>3, <2>4, <3>3, TurnFields DEF Turn, Steady, Kinds, Stands, Buries, Attempts
    <3> QED
      BY <2>4, <3>1, <3>2, <3>3, <3>4
  <2> QED
    BY <2>1, <2>2, <2>3, <2>4 DEF Kinds
<1> HIDE DEF b
<1>5. PICK t \in State : /\ ResumeCompletion(s, x) = Finished(t, x, "SUCCEEDED", TRUE)
                         /\ Turn(s, t, k) /\ t[k] = b
  BY <1>4
<1>6. Runs(t, k)
  BY <1>1, <1>3, <1>5, TurnRuns, Stages DEF Runs, x
<1>7. Ended(t, Finished(t, x, "SUCCEEDED", TRUE).st, k, "COMPLETED")
  BY <1>2, <1>5, <1>6, FinishedTurns, OutcomeEnds DEF Outcomes
<1> QED
  BY <1>3, <1>5, <1>7, EndedOn DEF x

\* A stopped worker that had failed.
LEMMA FailureTurns ==
    ASSUME NEW s, NEW k \in Kinds, Runs(s, k), NEW lc \in Failed
    PROVE  Ended(s, AcknowledgeFailure(s, s[k].id, lc).st, k, lc)
<1> DEFINE x == s[k].id
           t == AcknowledgeFailure(s, x, lc).st
           T == {y \in s.tombs : y.id # x} \cup {[id |-> x, lc |-> lc]}
           b == [[s[k] EXCEPT !.lc = lc] EXCEPT !.lc = lc, !.after = None]
<1>1. /\ s \in State /\ s[k] \in Action /\ Held(s[k]) /\ s[k].unit /\ x \in Nat
      /\ s.planning.id # x
      /\ s.probe.id = x <=> k = "probe"
      /\ s.app.id = x <=> k = "app"
      /\ s.prep.id = x <=> k = "prep"
      /\ s.fin.id = x <=> k = "fin"
  BY RunsFirst, KindsTyped DEF Runs
<1>2. SameAction(s[k], b) /\ b.lc = lc
  BY <1>1 DEF Action, SameAction
<1>3. /\ ~Busy(b) /\ Held(b) /\ b.lc \in Failed /\ b.lc \in Terminal /\ b.lc \notin InFlight
      /\ lc # "CANCELLED" /\ lc # "COMPLETED"
  BY <1>2 DEF Busy, InFlight, Failed, Terminal, Held
<1> HIDE DEF x, b, T
<1>4. CASE k = "probe"
  <2>1. FailAction(s, x, lc) = [[s EXCEPT !.tombs = T] EXCEPT !.phase = "PROBE_FAILED", !.probe.lc = lc]
    BY <1>1, <1>4 DEF FailAction, T
  <2> DEFINE u == [FailAction(s, x, lc) EXCEPT !.probe = [@ EXCEPT !.lc = lc, !.after = None]]
  <2>2. \E d \in {"health", "now"} : t = [u EXCEPT !.timer = d]
    BY <1>1, <1>4 DEF AcknowledgeFailure, Schedule, Decision
  <2>3. PICK d \in {"health", "now"} : t = [u EXCEPT !.timer = d]
    BY <2>2
  <2>4. u = [[[s EXCEPT !.tombs = T] EXCEPT !.phase = "PROBE_FAILED", !.probe.lc = lc]
               EXCEPT !.probe = [@ EXCEPT !.lc = lc, !.after = None]]
    BY <2>1
  <2> HIDE DEF t, u
  <2>5. t.probe = b /\ t.phase = "PROBE_FAILED" /\ t.tombs = T /\ t.timer # "none"
    BY <1>1, <1>4, <2>3, <2>4, TurnFields DEF Kinds, b
  <2>6. Buries(s, t, k)
    BY <1>2, <1>3, <1>4, <2>5 DEF Buries, T, x
  <2>7. /\ \A f \in Steady : t[f] = s[f]
        /\ t.verify = s.verify /\ t.prepState = s.prepState
        /\ t.app = s.app /\ t.prep = s.prep /\ t.fin = s.fin
        /\ t.probed = s.probed /\ t.applied = s.applied
    BY <1>1, <2>3, <2>4, TurnFields DEF Steady, Kinds
  <2>8. Turn(s, t, k)
    BY <1>1, <1>2, <1>3, <1>4, <2>5, <2>6, <2>7 DEF Turn, Kinds, Stands, Attempts
  <2> QED
    BY <1>2, <1>3, <1>4, <2>5, <2>8 DEF Ended, t, x
<1>5. CASE k = "app"
  <2>1. FailAction(s, x, lc) = [[s EXCEPT !.tombs = T] EXCEPT !.phase = "APPLY_FAILED", !.app.lc = lc]
    BY <1>1, <1>5 DEF FailAction, T
  <2> DEFINE u == [FailAction(s, x, lc) EXCEPT !.app = [@ EXCEPT !.lc = lc, !.after = None]]
  <2>2. \E d \in {"health", "now"} : t = [u EXCEPT !.timer = d]
    BY <1>1, <1>5 DEF AcknowledgeFailure, Schedule, Decision
  <2>3. PICK d \in {"health", "now"} : t = [u EXCEPT !.timer = d]
    BY <2>2
  <2>4. u = [[[s EXCEPT !.tombs = T] EXCEPT !.phase = "APPLY_FAILED", !.app.lc = lc]
               EXCEPT !.app = [@ EXCEPT !.lc = lc, !.after = None]]
    BY <2>1
  <2> HIDE DEF t, u
  <2>5. t.app = b /\ t.phase = "APPLY_FAILED" /\ t.tombs = T /\ t.timer # "none"
    BY <1>1, <1>5, <2>3, <2>4, TurnFields DEF Kinds, b
  <2>6. Buries(s, t, k)
    BY <1>2, <1>3, <1>5, <2>5 DEF Buries, T, x
  <2>7. /\ \A f \in Steady : t[f] = s[f]
        /\ t.verify = s.verify /\ t.prepState = s.prepState
        /\ t.probe = s.probe /\ t.prep = s.prep /\ t.fin = s.fin
        /\ t.probed = s.probed /\ t.applied = s.applied
    BY <1>1, <2>3, <2>4, TurnFields DEF Steady, Kinds
  <2>8. Turn(s, t, k)
    BY <1>1, <1>2, <1>3, <1>5, <2>5, <2>6, <2>7 DEF Turn, Kinds, Stands, Attempts
  <2> QED
    BY <1>2, <1>3, <1>5, <2>5, <2>8 DEF Ended, t, x
<1>6. CASE k = "prep"
  <2>1. FailAction(s, x, lc) = [[s EXCEPT !.tombs = T] EXCEPT !.prepState = "PREPARE_FAILED", !.prep.lc = lc]
    BY <1>1, <1>6 DEF FailAction, T
  <2> DEFINE u == [FailAction(s, x, lc) EXCEPT !.prep = [@ EXCEPT !.lc = lc, !.after = None], !.phase = "DISCOVER_FAST"]
  <2>2. \E d \in {"health", "now"} : t = [u EXCEPT !.timer = d]
    BY <1>1, <1>6 DEF AcknowledgeFailure, Schedule, Decision
  <2>3. PICK d \in {"health", "now"} : t = [u EXCEPT !.timer = d]
    BY <2>2
  <2>4. u = [[[s EXCEPT !.tombs = T] EXCEPT !.prepState = "PREPARE_FAILED", !.prep.lc = lc]
               EXCEPT !.prep = [@ EXCEPT !.lc = lc, !.after = None], !.phase = "DISCOVER_FAST"]
    BY <2>1
  <2> HIDE DEF t, u
  <2>5. t.prep = b /\ t.prepState = "PREPARE_FAILED" /\ t.tombs = T /\ t.timer # "none"
    BY <1>1, <1>6, <2>3, <2>4, TurnFields DEF Kinds, b
  <2>6. Buries(s, t, k)
    BY <1>2, <1>3, <1>6, <2>5 DEF Buries, T, x
  <2>7. /\ \A f \in Steady : t[f] = s[f]
        /\ t.verify = s.verify /\ t.phase = "DISCOVER_FAST"
        /\ t.probe = s.probe /\ t.app = s.app /\ t.fin = s.fin
        /\ t.probed = s.probed /\ t.applied = s.applied
    BY <1>1, <2>3, <2>4, TurnFields DEF Steady, Kinds
  <2>8. Turn(s, t, k)
    BY <1>2, <1>3, <1>6, <2>5, <2>6, <2>7 DEF Turn, Kinds, Stands
  <2> QED
    BY <1>2, <1>3, <1>6, <2>5, <2>8 DEF Ended, t, x
<1>7. CASE k = "fin"
  <2>1. FailAction(s, x, lc) = [[s EXCEPT !.tombs = T] EXCEPT !.phase = "FINALIZE_FAILED", !.fin.lc = lc]
    BY <1>1, <1>7 DEF FailAction, T
  <2> DEFINE u == [FailAction(s, x, lc) EXCEPT !.fin = [@ EXCEPT !.lc = lc, !.after = None]]
  <2>2. \E d \in {"health", "now"} : t = [u EXCEPT !.timer = d]
    BY <1>1, <1>7 DEF AcknowledgeFailure, Schedule, Decision
  <2>3. PICK d \in {"health", "now"} : t = [u EXCEPT !.timer = d]
    BY <2>2
  <2>4. u = [[[s EXCEPT !.tombs = T] EXCEPT !.phase = "FINALIZE_FAILED", !.fin.lc = lc]
               EXCEPT !.fin = [@ EXCEPT !.lc = lc, !.after = None]]
    BY <2>1
  <2> HIDE DEF t, u
  <2>5. t.fin = b /\ t.phase = "FINALIZE_FAILED" /\ t.tombs = T /\ t.timer # "none"
    BY <1>1, <1>7, <2>3, <2>4, TurnFields DEF Kinds, b
  <2>6. Buries(s, t, k)
    BY <1>2, <1>3, <1>7, <2>5 DEF Buries, T, x
  <2>7. /\ \A f \in Steady : t[f] = s[f]
        /\ t.verify = s.verify /\ t.prepState = s.prepState
        /\ t.probe = s.probe /\ t.app = s.app /\ t.prep = s.prep
        /\ t.probed = s.probed /\ t.applied = s.applied
    BY <1>1, <2>3, <2>4, TurnFields DEF Steady, Kinds
  <2>8. Turn(s, t, k)
    BY <1>1, <1>2, <1>3, <1>7, <2>5, <2>6, <2>7 DEF Turn, Kinds, Stands
  <2> QED
    BY <1>2, <1>3, <1>7, <2>5, <2>8 DEF Ended, t, x
<1> QED
  BY <1>4, <1>5, <1>6, <1>7 DEF Kinds

\* A stopped worker that had done nothing, or was stopped in time.
LEMMA CancelledTurns ==
    ASSUME NEW s, NEW k \in Kinds, Runs(s, k)
    PROVE  Ended(s, AcknowledgeCancelled(s, s[k].id).st, k, "CANCELLED")
<1> DEFINE x == s[k].id
           t == AcknowledgeCancelled(s, x).st
           T == {y \in s.tombs : y.id # x} \cup {[id |-> x, lc |-> "CANCELLED"]}
<1>1. /\ s \in State /\ s[k] \in Action /\ Held(s[k]) /\ s[k].unit /\ x \in Nat
      /\ s.planning.id # x
      /\ s.probe.id = x <=> k = "probe"
      /\ s.app.id = x <=> k = "app"
      /\ s.prep.id = x <=> k = "prep"
      /\ s.fin.id = x <=> k = "fin"
  BY RunsFirst, KindsTyped DEF Runs
<1>2. /\ ~Held(NoAction) /\ ~Busy(NoAction) /\ NoAction.lc \notin InFlight
      /\ "CANCELLED" \in Terminal /\ "CANCELLED" \notin Failed
  BY DEF NoAction, Held, Busy, InFlight, Terminal, Failed
<1> HIDE DEF x, T
<1>3. CASE k = "probe"
  <2>1. DropProbe(s, "CANCELLED") = [[s EXCEPT !.tombs = T] EXCEPT !.phase = "DISCOVER_FAST", !.probe = NoAction]
    BY <1>1, <1>3 DEF DropProbe, AppendTombstone, T
  <2>2. t = [DropProbe(s, "CANCELLED") EXCEPT !.timer = "now"]
    BY <1>1, <1>3 DEF AcknowledgeCancelled, Schedule, Decision
  <2>3. t = [[[s EXCEPT !.tombs = T] EXCEPT !.phase = "DISCOVER_FAST", !.probe = NoAction] EXCEPT !.timer = "now"]
    BY <2>1, <2>2
  <2> HIDE DEF t
  <2>4. t.probe = NoAction /\ t.phase = "DISCOVER_FAST" /\ t.tombs = T /\ t.timer = "now"
    BY <1>1, <1>3, <2>3, TurnFields DEF Kinds
  <2>5. Buries(s, t, k)
    BY <1>2, <1>3, <2>4 DEF Buries, T, x
  <2>6. Turn(s, t, k)
    BY <1>1, <1>2, <1>3, <2>3, <2>4, <2>5, TurnFields DEF Turn, Steady, Kinds, Stands, Attempts
  <2>7. [id |-> s[k].id, lc |-> "CANCELLED"] \in t.tombs
    BY <2>4 DEF T, x
  <2> QED
    BY <1>2, <1>3, <2>4, <2>6, <2>7 DEF Ended, t, x
<1>4. CASE k = "app"
  <2>1. DropApplication(s, "CANCELLED") = [[s EXCEPT !.tombs = T] EXCEPT !.phase = "DISCOVER_FAST", !.app = NoAction]
    BY <1>1, <1>4 DEF DropApplication, AppendTombstone, T
  <2>2. t = [DropApplication(s, "CANCELLED") EXCEPT !.timer = "now"]
    BY <1>1, <1>4 DEF AcknowledgeCancelled, Schedule, Decision
  <2>3. t = [[[s EXCEPT !.tombs = T] EXCEPT !.phase = "DISCOVER_FAST", !.app = NoAction] EXCEPT !.timer = "now"]
    BY <2>1, <2>2
  <2> HIDE DEF t
  <2>4. t.app = NoAction /\ t.phase = "DISCOVER_FAST" /\ t.tombs = T /\ t.timer = "now"
    BY <1>1, <1>4, <2>3, TurnFields DEF Kinds
  <2>5. Buries(s, t, k)
    BY <1>2, <1>4, <2>4 DEF Buries, T, x
  <2>6. Turn(s, t, k)
    BY <1>1, <1>2, <1>4, <2>3, <2>4, <2>5, TurnFields DEF Turn, Steady, Kinds, Stands, Attempts
  <2>7. [id |-> s[k].id, lc |-> "CANCELLED"] \in t.tombs
    BY <2>4 DEF T, x
  <2> QED
    BY <1>2, <1>4, <2>4, <2>6, <2>7 DEF Ended, t, x
<1>5. CASE k = "prep"
  <2>1. DropPreparation(s, "CANCELLED") = [[s EXCEPT !.tombs = T] EXCEPT !.prepState = "PREPARE_IDLE", !.prep = NoAction]
    BY <1>1, <1>5 DEF DropPreparation, AppendTombstone, T
  <2>2. t = [[DropPreparation(s, "CANCELLED") EXCEPT !.phase = "DISCOVER_FAST"] EXCEPT !.timer = "now"]
    BY <1>1, <1>5 DEF AcknowledgeCancelled, Schedule, Decision
  <2>3. t = [[[[s EXCEPT !.tombs = T] EXCEPT !.prepState = "PREPARE_IDLE", !.prep = NoAction] EXCEPT !.phase = "DISCOVER_FAST"] EXCEPT !.timer = "now"]
    BY <2>1, <2>2
  <2> HIDE DEF t
  <2>4. t.prep = NoAction /\ t.prepState = "PREPARE_IDLE" /\ t.tombs = T /\ t.timer = "now"
    BY <1>1, <1>5, <2>3, TurnFields DEF Kinds
  <2>5. Buries(s, t, k)
    BY <1>2, <1>5, <2>4 DEF Buries, T, x
  <2>6. Turn(s, t, k)
    BY <1>1, <1>2, <1>5, <2>3, <2>4, <2>5, TurnFields DEF Turn, Steady, Kinds, Stands, Attempts
  <2>7. [id |-> s[k].id, lc |-> "CANCELLED"] \in t.tombs
    BY <2>4 DEF T, x
  <2> QED
    BY <1>2, <1>5, <2>4, <2>6, <2>7 DEF Ended, t, x
<1>6. CASE k = "fin"
  <2>1. DropFinalization(s, "CANCELLED") = [[s EXCEPT !.tombs = T] EXCEPT !.phase = "DISCOVER_FAST", !.fin = NoAction]
    BY <1>1, <1>6 DEF DropFinalization, AppendTombstone, T
  <2>2. t = [[DropFinalization(s, "CANCELLED") EXCEPT !.verify = -1] EXCEPT !.timer = "now"]
    BY <1>1, <1>6 DEF AcknowledgeCancelled, Schedule, Decision
  <2>3. t = [[[[s EXCEPT !.tombs = T] EXCEPT !.phase = "DISCOVER_FAST", !.fin = NoAction] EXCEPT !.verify = -1] EXCEPT !.timer = "now"]
    BY <2>1, <2>2
  <2> HIDE DEF t
  <2>4. t.fin = NoAction /\ t.phase = "DISCOVER_FAST" /\ t.tombs = T /\ t.timer = "now"
    BY <1>1, <1>6, <2>3, TurnFields DEF Kinds
  <2>5. Buries(s, t, k)
    BY <1>2, <1>6, <2>4 DEF Buries, T, x
  <2>6. Turn(s, t, k)
    BY <1>1, <1>2, <1>6, <2>3, <2>4, <2>5, TurnFields DEF Turn, Steady, Kinds, Stands, Attempts
  <2>7. [id |-> s[k].id, lc |-> "CANCELLED"] \in t.tombs
    BY <2>4 DEF T, x
  <2> QED
    BY <1>2, <1>6, <2>4, <2>6, <2>7 DEF Ended, t, x
<1> QED
  BY <1>3, <1>4, <1>5, <1>6 DEF Kinds

\* The proof that a worker stopped, with what became of it.
LEMMA AcknowledgedTurns ==
    ASSUME NEW s, NEW k \in Kinds, Runs(s, k), s[k].lc = "STOPPING", NEW lc \in Terminal
    PROVE  Ended(s, WorkerCancellationAcknowledged(s, s[k].id, lc).st, k, lc)
<1>1. \E a \in Mutators(s) : a.id = s[k].id /\ a.lc = "STOPPING"
  BY DEF Mutators, Kinds
<1> QED
  BY <1>1, ResumeTurns, FailureTurns, CancelledTurns DEF WorkerCancellationAcknowledged, Terminal, Failed

\* A live mutator of a checked state runs.
LEMMA PlacedRuns ==
    \A s \in State : \A k \in Kinds :
        /\ Ids(s) /\ Placed(s) /\ Live(s[k]) /\ s[k].unit /\ s.planning.id # s[k].id
        => Runs(s, k)
<1> SUFFICES ASSUME NEW s \in State, NEW k \in Kinds, Placed(s), Live(s[k]) PROVE Stands(s, k)
  BY DEF Runs
<1>1. s[k].lc \in {"DISPATCHED", "STOPPING"} /\ s[k].lc \in InFlight
  BY DEF Live, InFlight
<1> QED
  BY <1>1 DEF Stands, Placed, Kinds

\* The replayed end of a worker that ran.
LEMMA ReplayTurns ==
    ASSUME NEW s, NEW k \in Kinds, Runs(s, k), NEW u \in Units, u.id = s[k].id, u.outcome \in Terminal
    PROVE  Ended(s, ReplayEnd(s, u), k, u.outcome)
<1> DEFINE t == WorkerUncertain(s, u.id, "UNKNOWN").st
<1>1. /\ s \in State /\ Ids(s) /\ Live(s[k]) /\ Busy(s[k]) /\ s.planning.id # s[k].id
      /\ u.id \in Nat /\ ActionForId(s, u.id) = s[k]
  BY BusyNamed, Stages DEF Runs, Units
<1>2. t \in State /\ Turn(s, t, k) /\ t[k].lc = "STOPPING"
  <2>1. t \in State
    BY <1>1, WorkerUncertainType, DecisionParts
  <2> QED
    BY <2>1, UncertainTurns
<1>3. CASE s[k].lc = "STOPPING"
  BY <1>1, <1>3, AcknowledgedTurns DEF ReplayEnd
<1>4. CASE s[k].lc # "STOPPING" /\ u.outcome \in {"UNKNOWN", "TIMED_OUT"}
  <2>1. ReplayEnd(s, u) = WorkerCancellationAcknowledged(t, u.id, u.outcome).st
    BY <1>1, <1>4 DEF ReplayEnd
  <2> HIDE DEF t
  <2>2. Live(t[k]) /\ Busy(t[k]) /\ Held(t[k]) /\ t[k].id = u.id
    BY <1>2, Stages DEF Live, Turn, SameAction
  <2>3. Runs(t, k)
    BY <1>1, <1>2, <2>2, TurnRuns
  <2>4. Ended(t, ReplayEnd(s, u), k, u.outcome)
    BY <1>2, <2>1, <2>2, <2>3, AcknowledgedTurns
  <2> QED
    BY <1>2, <2>2, <2>4, EndedOn
<1>5. CASE s[k].lc # "STOPPING" /\ u.outcome \notin {"UNKNOWN", "TIMED_OUT"}
  <2>1. ReplayEnd(s, u) = Finished(s, s[k].id, EventOutcome(u.outcome), TRUE).st
    BY <1>1, <1>5 DEF ReplayEnd
  <2>2. s[k].lc = "DISPATCHED"
    BY <1>1, <1>5 DEF Live
  <2>3. EventOutcome(u.outcome) \in Outcomes /\ EndedLifecycle(EventOutcome(u.outcome)) = u.outcome
    BY <1>5 DEF EventOutcome, EndedLifecycle, Outcomes, Terminal, Failed
  <2>4. Ended(s, ReplayEnd(s, u), k, EndedLifecycle(EventOutcome(u.outcome)))
    BY <2>1, <2>2, <2>3, FinishedTurns
  <2> QED
    BY <2>3, <2>4
<1> QED
  BY <1>3, <1>4, <1>5

\* The result of a worker, taken by a state that missed it.
LEMMA ResultTurns ==
    ASSUME NEW s \in State, NEW k \in Kinds, Ids(s), Placed(s), s.planning.id # s[k].id,
           s[k].lc \in {"ADMITTED", "DISPATCHED", "STOPPING"}, s[k].lc \in InFlight => s[k].unit,
           NEW u \in Units, u.id = s[k].id, u.outcome \in Terminal
    PROVE  Ended(s, ApplyVerifiedResult(s, u), k, u.outcome)
<1>1. Busy(s[k]) /\ u.id \in Nat
  BY DEF Busy, InFlight, Units
<1>2. ActionForId(s, u.id) = s[k]
  BY <1>1, BusyNamed
<1>3. CASE s[k].lc = "ADMITTED"
  <2> DEFINE t == Dispatched(s, u.id).st
  <2>1. t \in State
    BY <1>1, DispatchedType, DecisionParts
  <2>2. Turn(s, t, k) /\ t[k].lc = "DISPATCHED" /\ t[k].id = u.id
    BY <1>3, DispatchTurns
  <2>3. ApplyVerifiedResult(s, u) = ReplayEnd(t, u)
    BY <1>2, <1>3 DEF ApplyVerifiedResult
  <2> HIDE DEF t
  <2>4. Live(t[k]) /\ Busy(t[k])
    BY <2>2, Stages DEF Live
  <2>5. Runs(t, k)
    BY <1>1, <2>1, <2>2, <2>4, TurnRuns
  <2> QED
    BY <2>2, <2>3, <2>4, <2>5, ReplayTurns, EndedOn
<1>4. CASE s[k].lc # "ADMITTED"
  <2>1. Runs(s, k)
    BY <1>4, PlacedRuns DEF Live, InFlight
  <2>2. ApplyVerifiedResult(s, u) = ReplayEnd(s, u)
    BY <1>2, <1>4 DEF ApplyVerifiedResult
  <2> QED
    BY <2>1, <2>2, ReplayTurns
<1> QED
  BY <1>3, <1>4

-----------------------------------------------------------------------------
(* Events that leave the mutators nearly alone. *)

\* An offer that is withdrawn keeps every action or drops it.
LEMMA DirtiedKeeps ==
    \A s \in State : \A x, g, dt \in Nat : \A k \in Kinds :
        AdmissionDirtied(s, x, g, dt).st[k] \in {s[k], NoAction}
<1> SUFFICES ASSUME NEW s \in State, NEW x \in Nat, NEW g \in Nat, NEW dt \in Nat, NEW k \in Kinds
             PROVE AdmissionDirtied(s, x, g, dt).st[k] \in {s[k], NoAction}
  OBVIOUS
<1> DEFINE r == Disturbed(s, g, dt)
           t == WithdrawOffered(r, x)
<1>1. r \in State /\ Untouched(s, r)
  BY DisturbedType, DisturbedTouches DEF Framed
<1>2. AdmissionDirtied(s, x, g, dt) \in {NoOp(s), Schedule(t, "now", {"observe"})}
  BY DEF AdmissionDirtied
<1> HIDE DEF r
<1>3. t \in State
  BY <1>1, WithdrawOfferedType
<1>4. "CANCELLED" \in Terminal
  BY DEF Terminal
<1>5. t[k] \in {r[k], NoAction}
  <2> DEFINE q == DropPreparation(r, "CANCELLED")
             u == [q EXCEPT !.phase = "DISCOVER_FAST"]
  <2>1. q \in State /\ Replaces(r, q, "prep", NoAction) /\ Replaces(r, DropFinalization(r, "CANCELLED"), "fin", NoAction)
    BY <1>1, <1>4, DropType, DropTouches
  <2>2. t \in {DiscardPlanning(u), DropFinalization(r, "CANCELLED"), r}
    BY DEF WithdrawOffered
  <2> HIDE DEF q
  <2>3. u \in State /\ Replaces(r, u, "prep", NoAction)
    BY <2>1, Named, Set_phase, Shape DEF Replaces, Kinds
  <2> HIDE DEF u
  <2>4. Replaces(r, DiscardPlanning(u), "prep", NoAction)
    BY <2>3, DiscardTouches DEF Replaces
  <2> QED
    BY <2>1, <2>2, <2>4 DEF Replaces
<1> HIDE DEF t
<1>6. Untouched(t, Schedule(t, "now", {"observe"}).st)
  BY <1>3, ScheduleTouches DEF Framed
<1>7. NoOp(s).st = s
  BY DEF NoOp, Decision
<1> QED
  BY <1>1, <1>2, <1>5, <1>6, <1>7 DEF Untouched

\* A dispatch that is rejected keeps every other action, and its own or its failure.
LEMMA RejectedKeeps ==
    \A s \in State : \A x \in Nat : \A k \in Kinds :
        DispatchRejected(s, x).st[k].lc \in {s[k].lc, "FAILED"}
<1> SUFFICES ASSUME NEW s \in State, NEW x \in Nat, NEW k \in Kinds
             PROVE DispatchRejected(s, x).st[k].lc \in {s[k].lc, "FAILED"}
  OBVIOUS
<1> DEFINE t == FailAction(s, x, "FAILED")
<1>1. t \in State /\ t[k].lc \in {s[k].lc, "FAILED"}
  BY FailActionType, FailKeeps DEF Failed
<1>2. DispatchRejected(s, x) \in {NoOp(s), Schedule(t, "health", {})}
  BY DEF DispatchRejected
<1> HIDE DEF t
<1>3. Untouched(t, Schedule(t, "health", {}).st)
  BY <1>1, ScheduleTouches DEF Framed
<1>4. NoOp(s).st = s
  BY DEF NoOp, Decision
<1> QED
  BY <1>1, <1>2, <1>3, <1>4 DEF Untouched

\* The end of a worker that is being stopped waits for the stop to be acknowledged.
LEMMA StoppingWaits ==
    ASSUME NEW s, NEW k \in Kinds, Runs(s, k), s[k].lc = "STOPPING", NEW outcome
    PROVE  Untouched(s, Finished(s, s[k].id, outcome, TRUE).st)
<1>1. /\ s \in State /\ Held(s[k])
      /\ s.probe.id = s[k].id <=> k = "probe"
      /\ s.app.id = s[k].id <=> k = "app"
      /\ s.prep.id = s[k].id <=> k = "prep"
      /\ s.fin.id = s[k].id <=> k = "fin"
      /\ k = "probe" => s.phase = "PROBING"
      /\ k = "app" => s.phase = "APPLYING"
      /\ k = "prep" => s.prepState = "PREPARE_STOPPING"
      /\ k = "fin" => s.phase = "FINALIZE_STOPPING"
  BY RunsFirst
<1>2. Finished(s, s[k].id, outcome, TRUE) = Schedule(s, "tick", {"stop"})
  <2>1. CASE k = "probe"
    BY <1>1, <2>1 DEF Finished, ProbeFinished
  <2>2. CASE k = "app"
    BY <1>1, <2>2 DEF Finished, ApplicationFinished
  <2>3. CASE k = "prep"
    BY <1>1, <2>3 DEF Finished, PreparationFinished
  <2>4. CASE k = "fin"
    BY <1>1, <2>4 DEF Finished, FinalizationFinished
  <2> QED
    BY <2>1, <2>2, <2>3, <2>4 DEF Kinds
<1>3. Framed(s, Schedule(s, "tick", {"stop"}).st)
  BY <1>1, ScheduleTouches
<1> QED
  BY <1>2, <1>3 DEF Framed

\* Pruning the tombstones of actions that are not held passes the same checks.
LEMMA PrunedPasses ==
    \A s \in State : FailedChecks(s) = {} => FailedChecks([s EXCEPT !.tombs = RetainedTombstones(s)]) = {}
<1> SUFFICES ASSUME NEW s \in State, FailedChecks(s) = {}
             PROVE FailedChecks([s EXCEPT !.tombs = RetainedTombstones(s)]) = {}
  OBVIOUS
<1> DEFINE t == [s EXCEPT !.tombs = RetainedTombstones(s)]
<1>1. t.tombs = RetainedTombstones(s)
  BY Shape
<1>2. /\ t.phase = s.phase /\ t.planState = s.planState /\ t.prepState = s.prepState
      /\ t.obs = s.obs /\ t.obsGen = s.obsGen /\ t.egen = s.egen /\ t.epoch = s.epoch
      /\ t.cand = s.cand /\ t.timer = s.timer /\ t.verify = s.verify
      /\ t.finalized = s.finalized /\ t.required = s.required /\ t.intent = s.intent
      /\ t.baseline = s.baseline /\ t.probed = s.probed /\ t.applied = s.applied
      /\ t.unplug = s.unplug /\ t.seq = s.seq
  BY Shape
<1>3. /\ t.probe = s.probe /\ t.app = s.app /\ t.prep = s.prep /\ t.fin = s.fin
      /\ t.planning = s.planning
  BY Shape
<1> HIDE DEF t
<1>4. Mutators(t) = Mutators(s) /\ Actions(t) = Actions(s)
  BY <1>3 DEF Mutators, Actions
<1>5. MutatorsInFlight(t) = MutatorsInFlight(s)
  BY <1>4 DEF MutatorsInFlight
<1>6. PhaseRelationships(t) /\ PlanningRelationships(t)
  BY <1>2, <1>3, ChecksSplit DEF PhaseRelationships, PlanningRelationships
<1>7. ActionIdentities(t)
  <2>1. ActionIdentities(s)
    BY ChecksSplit
  <2> QED
    BY <1>1, <1>2, <1>4, <2>1 DEF ActionIdentities, RetainedTombstones
<1>8. WorkerAcknowledgements(t)
  BY <1>5, ChecksSplit DEF WorkerAcknowledgements
<1>9. ObservationAuthority(t) /\ LaptopLoadAuthorized(t) /\ FinalizationRequirement(t)
  BY <1>2, <1>3, ChecksSplit DEF ObservationAuthority, Unresolved, LaptopLoadAuthorized, FinalizationRequirement
<1>10. ActionAuthorization(t)
  BY <1>2, <1>3, <1>4, ChecksSplit DEF ActionAuthorization, FreshEvidence, ExactEvidence
<1>11. NumberedSafetyRules(t) /\ AttemptHistory(t)
  BY <1>2, <1>3, ChecksSplit DEF NumberedSafetyRules, AttemptHistory
<1>12. PersistenceRelationships(t)
  BY <1>2, <1>3, <1>4, ChecksSplit DEF PersistenceRelationships
<1>13. FailedChecks(t) = {}
  BY <1>6, <1>7, <1>8, <1>9, <1>10, <1>11, <1>12, ChecksSplit
<1> QED
  BY <1>13 DEF t

-----------------------------------------------------------------------------
(* What a restart finds: the saved state passes the checks, and its workers'  *)
(* units bear out what it says of them.                                       *)

\* What the unit of an action with this lifecycle must say.  A preparation or
\* finalization that succeeded may have failed by the sample after it.
Tells(k, lc, u) ==
    /\ lc \in {"RESULT_PENDING", "COMPLETED"} => ~u.alive /\ u.outcome = "COMPLETED"
    /\ lc \in Failed => /\ ~u.alive
                        /\ \/ u.outcome = lc
                           \/ u.outcome = "COMPLETED" /\ lc = "FAILED" /\ k \in {"prep", "fin"}

\* An action that was dispatched and has not ended has a unit; its units bear it
\* out; and only a preparation or finalization waits for its confirmation.
Vouched(k, a, us) ==
    /\ a.lc \in InFlight => \E u \in us : u.id = a.id
    /\ \A u \in us : u.id = a.id => Tells(k, a.lc, u)
    /\ k \in {"probe", "app"} => a.lc # "RESULT_PENDING"

\* A plan that is held beside an application is another action.
Spaced(s) == Held(s.planning) /\ Held(s.app) => s.planning.id # s.app.id

Rests(s, us) ==
    /\ FailedChecks(s) = {}
    /\ \A k \in Kinds : Held(s[k]) => Vouched(k, s[k], us)
    /\ Lonely(s)
    /\ Spaced(s)

\* The units bear out what a state says of the action x.
Reported(s, x, us) == \A k \in Kinds : Held(s[k]) /\ s[k].id = x => Vouched(k, s[k], us)

\* A saved state rests on its units; an action is admitted for the epoch its unit
\* was submitted in; and a start that was refused left a unit that failed.
RestInv ==
    /\ Rests(st, units)
    /\ \A u \in units : \A k \in {"probe", "app"} :
          st[k].lc = "ADMITTED" /\ st[k].id = u.id => st[k].epoch = st.epoch
    /\ chore = "refused" =>
          \A u \in units : u.id = offer.id => ~u.alive /\ u.outcome = "FAILED"

\* A held action has an id that was given out.
LEMMA HeldNumbered ==
    \A s \in State : FailedChecks(s) = {} /\ Numbered(s) =>
        \A k \in Kinds : s[k].id <= s.seq /\ s[k].id \in Nat
<1> SUFFICES ASSUME NEW s \in State, FailedChecks(s) = {}, Numbered(s), NEW k \in Kinds
             PROVE s[k].id <= s.seq /\ s[k].id \in Nat
  OBVIOUS
<1>1. s[k].id \in Nat /\ s.seq \in Nat
  BY KindsTyped
<1>2. CASE Held(s[k])
  <2>1. s[k] \in Actions(s)
    BY <1>2 DEF Actions, Mutators, Kinds
  <2>2. ActionIdentities(s)
    BY ChecksSplit
  <2> QED
    BY <1>1, <2>1, <2>2 DEF ActionIdentities
<1>3. CASE ~Held(s[k])
  BY <1>1, <1>3 DEF Numbered
<1> QED
  BY <1>2, <1>3

\* What passes by itself stays borne out by the same units.
LEMMA VouchedOn ==
    \A a, b, us : \A k \in Kinds :
        Vouched(k, a, us) /\ b.id = a.id /\ Passes(a.lc, b.lc) => Vouched(k, b, us)
<1> SUFFICES ASSUME NEW a, NEW b, NEW us, NEW k \in Kinds, Vouched(k, a, us), b.id = a.id, Passes(a.lc, b.lc)
             PROVE Vouched(k, b, us)
  OBVIOUS
<1>1. CASE b.lc = a.lc
  BY <1>1 DEF Vouched
<1>2. CASE a.lc \in InFlight /\ b.lc = "STOPPING"
  BY <1>2 DEF Vouched, Tells, Failed
<1>3. CASE a.lc = "RESULT_PENDING" /\ b.lc \in {"COMPLETED", "FAILED"}
  <2>1. k \in {"prep", "fin"} /\ b.lc \notin InFlight /\ b.lc # "RESULT_PENDING"
    BY <1>3 DEF Vouched, Kinds, InFlight
  <2>2. \A u \in us : u.id = a.id => ~u.alive /\ u.outcome = "COMPLETED"
    BY <1>3 DEF Vouched, Tells
  <2> QED
    BY <1>3, <2>1, <2>2 DEF Vouched, Tells
<1> QED
  BY <1>1, <1>2, <1>3 DEF Passes

\* An admission needs no unit.
LEMMA AdmittedVouched == \A a, us : \A k \in Kinds : a.lc = "ADMITTED" => Vouched(k, a, us)
  BY DEF Vouched, Tells, InFlight, Failed

\* An application is held only in its phases.
LEMMA AppliesHeld ==
    \A s \in State : FailedChecks(s) = {} /\ Held(s.app) => s.phase \in Applies
<1> SUFFICES ASSUME NEW s \in State, FailedChecks(s) = {}, Held(s.app) PROVE s.phase \in Applies
  OBVIOUS
<1>1. PhaseRelationships(s) /\ PersistenceRelationships(s)
  BY ChecksSplit
<1>2. s.phase # "RECOVERING"
  BY <1>1 DEF PersistenceRelationships, Actions, Mutators
<1> QED
  BY <1>1, <1>2 DEF PhaseRelationships, Matches, Applies

\* A state that follows one at rest is at rest, if it passes the checks and if the
\* units bear out what it says of the action the event is about.
LEMMA RestsOn ==
    ASSUME NEW s \in State, NEW t \in State, NEW us, NEW x, Ids(s), Counted(s), Counted(t),
           s.planning.id <= s.seq, Rests(s, us), FailedChecks(t) = {}, Advances(s, t, x),
           x = Nobody \/ Evolves(s, t, x), Picks(s, t), Renumbers(s, t), Reported(t, x, us)
    PROVE  Rests(t, us)
<1>1. /\ s.seq \in Nat /\ s.planning.id \in Nat /\ t.planning.id \in Nat
      /\ \A k \in Kinds : s[k].id \in Nat /\ t[k].id \in Nat /\ s[k].id <= s.seq
  BY KindsTyped, Fields, HeldNumbered DEF Action, Ids, Rests
<1>2. Numbered(t) /\ Apart(t) /\ Numbered(s)
  BY AdvancesNumbered DEF Ids
<1>3. ASSUME NEW k \in Kinds, Held(t[k]) PROVE Vouched(k, t[k], us)
  <2>1. CASE t[k].id = x
    BY <1>3, <2>1 DEF Reported
  <2>2. CASE t[k].id # x
    <3>1. (t[k].id = s[k].id /\ Passes(s[k].lc, t[k].lc)) \/ t[k].lc = "ADMITTED"
      BY <1>3, <2>2 DEF Advances, Follows
    <3>2. CASE t[k].id = s[k].id /\ Passes(s[k].lc, t[k].lc)
      <4>1. Held(s[k])
        BY <1>3, <3>2 DEF Passes, Held, InFlight
      <4> QED
        BY <3>2, <4>1, VouchedOn DEF Rests
    <3> QED
      BY <3>1, <3>2, AdmittedVouched
  <2> QED
    BY <2>1, <2>2
<1>4. Lonely(t)
  <2> SUFFICES ASSUME Busy(t.prep), Held(t.app) PROVE FALSE
    BY DEF Lonely
  <2>0. Follows(s.prep, t.prep, s.seq, x) /\ Follows(s.app, t.app, s.seq, x)
    BY DEF Advances, Kinds
  <2>1. CASE Evolves(s, t, x)
    <3>1. Busy(s.prep) /\ Held(s.app)
      BY <2>1 DEF Evolves, Descends, Kinds
    <3> QED
      BY <3>1 DEF Rests, Lonely
  <2>2. CASE x = Nobody
    <3>1. t.phase \in Applies
      BY AppliesHeld
    <3>2. t.prep.id # 0 /\ Held(t.prep)
      BY <1>2, Stages DEF Numbered, Kinds
    <3>3. t.prep.id = s.prep.id
      BY <3>1, <3>2 DEF Picks
    <3>4. t.prep.id # x /\ t.app.id # x /\ t.prep.id <= s.seq /\ t.prep.id \in Nat
      BY <1>1, <2>2, <3>3 DEF Nobody, Kinds
    <3>5. Passes(s.prep.lc, t.prep.lc)
      BY <1>1, <2>0, <3>2, <3>4 DEF Follows
    <3>6. Busy(s.prep)
      BY <3>5 DEF Passes, Busy, InFlight
    <3>7. ~Held(s.app)
      BY <3>6 DEF Rests, Lonely
    <3>8. t.app.lc = "ADMITTED"
      BY <2>0, <3>4, <3>7 DEF Follows, Passes, Held, InFlight
    <3> QED
      BY <1>2, <3>8 DEF Apart, Busy
  <2> QED
    BY <2>1, <2>2
<1>5. Spaced(t)
  <2> SUFFICES ASSUME Held(t.planning), Held(t.app), t.planning.id = t.app.id PROVE FALSE
    BY DEF Spaced
  <2>1. t.app.id # 0 /\ s.app.id <= s.seq /\ s.app.id \in Nat /\ t.app.id \in Nat
    BY <1>1, <1>2 DEF Numbered, Kinds
  <2>2. (Held(s.app) /\ t.app.id = s.app.id) \/ t.app.id > s.seq
    BY DEF Advances, Follows, Kinds
  <2>3. CASE Held(s.app) /\ t.app.id = s.app.id
    <3>1. t.planning.id = s.planning.id
      BY <1>1, <2>1, <2>3 DEF Renumbers
    <3>2. Held(s.planning)
      BY <2>1, <3>1 DEF Counted
    <3> QED
      BY <2>3, <3>1, <3>2 DEF Rests, Spaced
  <2>4. CASE t.app.id > s.seq
    <3>1. t.planning.id \in {0, s.planning.id}
      BY <1>1, <2>1, <2>4 DEF Picks
    <3> QED
      BY <1>1, <2>1, <2>4, <3>1
  <2> QED
    BY <2>2, <2>3, <2>4
<1> QED
  BY <1>3, <1>4, <1>5 DEF Rests

\* The plan is not the busy mutator.
LEMMA RestsApart ==
    ASSUME NEW s \in State, NEW us, Ids(s), Counted(s), Rests(s, us), NEW k \in Kinds, Busy(s[k])
    PROVE  s.planning.id # s[k].id
<1>1. Held(s[k]) /\ s[k].id # 0
  BY Stages DEF Ids, Numbered
<1>2. CASE ~Held(s.planning)
  BY <1>1, <1>2 DEF Counted
<1>3. CASE Held(s.planning)
  <2>1. /\ PlanningRelationships(s) /\ PersistenceRelationships(s) /\ ActionIdentities(s)
        /\ NumberedSafetyRules(s) /\ ActionAuthorization(s)
    BY ChecksSplit DEF Rests
  <2>2. s[k] \in Actions(s) /\ s.planning \in Actions(s)
    BY <1>1, <1>3 DEF Actions, Mutators, Kinds
  <2>3. s.phase # "RECOVERING"
    BY <2>1, <2>2 DEF PersistenceRelationships
  <2>4. s.planning.id = s[k].id => s.planning = s[k]
    BY <2>1, <2>2 DEF ActionIdentities
  <2>5. CASE k = "app"
    BY <1>1, <1>3, <2>5 DEF Rests, Spaced
  <2>6. CASE k = "probe"
    BY <1>1, <1>3, <2>1, <2>3, <2>6 DEF NumberedSafetyRules
  <2>7. CASE k \in {"prep", "fin"}
    <3>1. Held(s.prep)
      BY <1>1, <2>1, <2>7 DEF ActionAuthorization, Held
    <3>2. s.planning.lc = "COMPLETED"
      BY <2>1, <2>3, <3>1 DEF PlanningRelationships, Matches
    <3> QED
      BY <2>4, <3>2 DEF Busy, InFlight
  <2> QED
    BY <2>5, <2>6, <2>7 DEF Kinds
<1> QED
  BY <1>2, <1>3

\* A busy mutator of a state at rest is one a worker may bring news of.
LEMMA RestsFit ==
    ASSUME NEW s \in State, NEW us, Ids(s), Counted(s), Rests(s, us), NEW k \in Kinds, Busy(s[k]),
           k \in {"probe", "app"} /\ s[k].lc = "ADMITTED" => s[k].epoch = s.epoch
    PROVE  Fit(s, k) /\ (s[k].lc \in InFlight => s[k].unit)
<1>1. Fit(s, k)
  BY RestsApart DEF Fit, Rests
<1> QED
  BY <1>1, FitAlone

\* A worker that is live, or whose end is replayed, has its action borne out.
LEMMA TurnReported ==
    ASSUME NEW s, NEW t, NEW us, Ids(s), NEW k \in Kinds, Busy(s[k]), Turn(s, t, k), Live(t[k]),
           \E u \in us : u.id = s[k].id
    PROVE  Reported(t, s[k].id, us)
<1> SUFFICES ASSUME NEW j \in Kinds, Held(t[j]), t[j].id = s[k].id PROVE Vouched(j, t[j], us)
  BY DEF Reported
<1>1. j = k
  BY DEF Turn, Ids
<1> QED
  BY <1>1 DEF Vouched, Tells, Live, Failed

\* An end that the unit records is borne out by it.
LEMMA EndedReported ==
    ASSUME NEW s, NEW t, NEW us, Ids(s), NEW k \in Kinds, Busy(s[k]), NEW u \in us,
           u.id = s[k].id, ~u.alive, u.outcome \in Terminal, Ended(s, t, k, u.outcome),
           \A v \in us : v.id = u.id => v = u
    PROVE  Reported(t, u.id, us)
<1> SUFFICES ASSUME NEW j \in Kinds, Held(t[j]), t[j].id = s[k].id PROVE Vouched(j, t[j], us)
  BY DEF Reported
<1>1. j = k
  BY DEF Ended, Turn, Ids
<1>2. CASE u.outcome \in Failed
  <2>1. t[k].lc = u.outcome
    BY <1>2 DEF Ended
  <2> QED
    BY <1>1, <1>2, <2>1 DEF Vouched, Tells, Failed, InFlight
<1>3. CASE u.outcome = "CANCELLED"
  BY <1>1, <1>3 DEF Ended
<1>4. CASE u.outcome = "COMPLETED"
  <2>1. k \in {"prep", "fin"} /\ t[k].lc = "RESULT_PENDING"
    BY <1>1, <1>4 DEF Ended
  <2> QED
    BY <1>1, <1>4, <2>1 DEF Vouched, Tells, Failed
<1> QED
  BY <1>2, <1>3, <1>4 DEF Terminal

\* What no longer holds the action x, or holds it as before, stays borne out.
LEMMA KeptReported ==
    ASSUME NEW s, NEW t, NEW us, NEW x, Rests(s, us), \A k \in Kinds : t[k] = s[k] \/ ~Held(t[k])
    PROVE  Reported(t, x, us)
  BY DEF Reported, Rests

\* No unit is about nobody.
LEMMA NobodyReported == \A t \in State : \A us : Reported(t, Nobody, us)
  BY KindsTyped DEF Reported, Nobody

-----------------------------------------------------------------------------
(* Saving a decision. *)

\* A state at rest is saved with the units it rests on.
LEMMA SavesRest ==
    ASSUME ExclusionInv', NEW d \in Decisions, NEW open, NEW us, NEW generation,
           Saves(d, open, us, generation), Rests(d.st, us)
    PROVE  RestInv'
<1> DEFINE s == [d.st EXCEPT !.tombs = RetainedTombstones(d.st)]
<1>1. d.st \in State
  BY DecisionParts
<1>2. st' = s /\ up' = TRUE /\ chore' = NextChore(d.fx) /\ units' = KeptUnits(s, us)
  BY DEF Saves
<1>3. s.planning = d.st.planning /\ s.app = d.st.app /\ s.prep = d.st.prep
      /\ \A k \in Kinds : s[k] = d.st[k]
  BY <1>1, Shape DEF Kinds
<1>4. FailedChecks(s) = {}
  BY <1>1, PrunedPasses DEF Rests
<1> HIDE DEF s
<1>5. Ids(s)
  BY <1>2 DEF ExclusionInv
<1>6. ASSUME NEW k \in Kinds, Held(s[k]) PROVE Vouched(k, s[k], units')
  <2>1. Vouched(k, s[k], us)
    BY <1>3, <1>6 DEF Rests
  <2>2. ASSUME NEW u \in us, s[k].lc \in InFlight, u.id = s[k].id PROVE u \in units'
    BY <1>2, <1>5, <1>6, <2>2, BusyNamed DEF Busy, KeptUnits
  <2>3. units' \in SUBSET us
    BY <1>2 DEF KeptUnits
  <2> QED
    BY <2>1, <2>2, <2>3 DEF Vouched
<1>7. Rests(s, units')
  BY <1>3, <1>4, <1>6 DEF Rests, Lonely, Spaced
<1>8. chore' \notin {"ack", "doubt", "refused"}
  BY <1>2 DEF NextChore
<1>9. \A u \in units' : ~HasAdmitted(s, u.id)
  BY <1>2, <1>8 DEF ExclusionInv, Unsubmitted, Submitted
<1>10. \A u \in units' : \A k \in {"probe", "app"} : ~(s[k].lc = "ADMITTED" /\ s[k].id = u.id)
  BY <1>9 DEF HasAdmitted, Kinds
<1> QED
  BY <1>2, <1>7, <1>8, <1>10 DEF RestInv

\* A process that ends leaves the state and its units.
LEMMA EndsRest == ASSUME RestInv, Ends, units' = units PROVE RestInv'
<1>1. st' = st /\ chore' = "none"
  BY DEF Ends
<1> QED
  BY <1>1 DEF RestInv

\* _process_event saves a state at rest, or raises.
LEMMA CommitRest ==
    ASSUME RestInv, ExclusionInv', NEW d \in Decisions, NEW open, NEW us, NEW generation,
           us = units \/ FailedChecks(d.st) = {}, Commit(d, open, us, generation),
           FailedChecks(d.st) = {} /\ Saves(d, open, us, generation) => Rests(d.st, us)
    PROVE  RestInv'
<1>1. CASE FailedChecks(d.st) = {} /\ Saves(d, open, us, generation)
  BY <1>1, SavesRest
<1>2. CASE FailedChecks(d.st) # {} /\ Ends /\ units' = us
  BY <1>2, EndsRest
<1> QED
  BY <1>1, <1>2 DEF Commit, SavesUnless

\* What a decision renumbers is what is saved.
LEMMA SavesNumbers ==
    ASSUME ProgressInv', Carries(st, st'), NEW d \in Decisions, NEW open, NEW us, NEW generation,
           Saves(d, open, us, generation)
    PROVE  Counted(d.st) /\ Renumbers(st, d.st)
<1>1. d.st \in State
  BY DecisionParts
<1>2. st'.planning = d.st.planning
  BY <1>1, Shape DEF Saves
<1>3. Counted(st')
  BY DEF ProgressInv, Planned
<1> QED
  BY <1>2, <1>3 DEF Carries, Renumbers, Counted

\* A decision about the action x, or about none.
LEMMA FollowsRest ==
    ASSUME ExclusionInv, ProgressInv, RestInv, ExclusionInv', ProgressInv', Carries(st, st'),
           NEW d \in Decisions, NEW open, NEW generation, Commit(d, open, units, generation),
           NEW x, Advances(st, d.st, x), x = Nobody \/ Evolves(st, d.st, x), Picks(st, d.st),
           FailedChecks(d.st) = {} => Reported(d.st, x, units)
    PROVE  RestInv'
<1>1. d.st \in State /\ st \in State /\ Ids(st) /\ Counted(st) /\ st.planning.id <= st.seq
  BY DecisionParts DEF ExclusionInv, TypeInv, TypeOK, ProgressInv, Planned
<1>2. ASSUME FailedChecks(d.st) = {}, Saves(d, open, units, generation) PROVE Rests(d.st, units)
  BY <1>1, <1>2, SavesNumbers, RestsOn DEF RestInv
<1> QED
  BY <1>2, CommitRest

\* A decision about a worker x whose news are borne out.
LEMMA EvolvesRest ==
    ASSUME ExclusionInv, ProgressInv, RestInv, ExclusionInv', ProgressInv', Carries(st, st'),
           NEW d \in Decisions, NEW open, NEW generation, Commit(d, open, units, generation),
           NEW x, Evolves(st, d.st, x), Reported(d.st, x, units)
    PROVE  RestInv'
<1>1. st \in State
  BY DEF ExclusionInv, TypeInv, TypeOK
<1> QED
  BY <1>1, EvolvesAdvances, EvolvesPicks, FollowsRest

\* A state that holds nothing rests on any units.
LEMMA BlankRests == \A s, us : Blank(s) => Rests(s, us)
  BY BlankPasses, NoActionStage DEF Blank, Rests, Lonely, Spaced, Kinds

-----------------------------------------------------------------------------
(* Steps that save nothing. *)

\* A unit that is submitted belongs to the admitted action, on a proof that its
\* epoch is the state's.
LEMMA SubmitRest ==
    ASSUME ExclusionInv, RestInv, NEW alive, NEW outcome, NEW next \in {"ack", "doubt", "refused"},
           next = "refused" => ~alive /\ outcome = "FAILED",
           Submit([id |-> offer.id, alive |-> alive, outcome |-> outcome], next)
    PROVE  RestInv'
<1> DEFINE n == [id |-> offer.id, alive |-> alive, outcome |-> outcome]
<1>1. /\ up /\ ~Submitted /\ EffectIsCurrent /\ ContextProven(st, ActionForId(st, offer.id))
      /\ units' = units \cup {n} /\ chore' = next
      /\ st' = st /\ offer' = offer /\ Ids(st)
  BY DEF Submit, Fencing, FencePasses, Idle, Submitted, ExclusionInv
<1>2. n.id = offer.id /\ n.alive = alive /\ n.outcome = outcome
  OBVIOUS
<1> HIDE DEF n
<1>3. PICK j \in Kinds : st[j].lc = "ADMITTED" /\ st[j].id = offer.id
  BY <1>1 DEF EffectIsCurrent, Admitted, Mutators, Kinds
<1>4. \A u \in units : ~HasAdmitted(st, u.id) /\ u.id # offer.id
  BY <1>1, <1>3 DEF ExclusionInv, Unsubmitted, HasAdmitted
<1>5. ASSUME NEW k \in Kinds, st[k].id = offer.id PROVE k = j
  BY <1>1, <1>3, <1>5, LiveUnique DEF Busy
<1>6. ASSUME NEW k \in Kinds, Held(st[k]) PROVE Vouched(k, st[k], units')
  <2>1. CASE st[k].id = offer.id
    BY <1>3, <1>5, <2>1, AdmittedVouched
  <2>2. CASE st[k].id # offer.id
    <3>1. Vouched(k, st[k], units)
      BY <1>6 DEF RestInv, Rests
    <3> QED
      BY <1>1, <1>2, <2>2, <3>1 DEF Vouched
  <2> QED
    BY <2>1, <2>2
<1>7. ASSUME NEW u \in units', NEW k \in {"probe", "app"}, st[k].lc = "ADMITTED", st[k].id = u.id
      PROVE st[k].epoch = st.epoch
  <2>1. k \in Kinds /\ Busy(st[k])
    BY <1>7 DEF Kinds, Busy
  <2>2. u.id = offer.id
    BY <1>1, <1>2, <1>4, <1>7, <2>1 DEF HasAdmitted
  <2>3. ActionForId(st, offer.id) = st[k]
    BY <1>1, <1>7, <2>1, <2>2, BusyNamed
  <2> QED
    BY <1>1, <1>7, <2>3 DEF ContextProven
<1>8. Rests(st, units')
  BY <1>6 DEF RestInv, Rests
<1>9. chore' = "refused" => \A u \in units' : u.id = offer.id => ~u.alive /\ u.outcome = "FAILED"
  BY <1>1, <1>2, <1>4
<1> QED
  BY <1>1, <1>7, <1>8, <1>9 DEF RestInv

\* A worker ends only while nothing is said of its end.
LEMMA WorkerEndsRest == ASSUME ExclusionInv, RestInv, WorkerEnds PROVE RestInv'
<1>1. PICK u \in units, outcome \in WorkerOutcomes :
        u.alive /\ units' = (units \ {u}) \cup {[u EXCEPT !.alive = FALSE, !.outcome = outcome]}
  BY DEF WorkerEnds
<1> DEFINE e == [u EXCEPT !.alive = FALSE, !.outcome = outcome]
<1>2. e.id = u.id /\ ~e.alive
  BY DEF ExclusionInv, TypeInv, TypeOK, Units
<1>3. units' = (units \ {u}) \cup {e}
  BY <1>1
<1> HIDE DEF e
<1>4. st' = st /\ chore' = chore /\ offer' = offer
  BY DEF WorkerEnds
<1>5. ASSUME NEW k \in Kinds, Held(st[k]) PROVE Vouched(k, st[k], units')
  <2>1. Vouched(k, st[k], units)
    BY <1>5 DEF RestInv, Rests
  <2>2. u.id = st[k].id => Tells(k, st[k].lc, e)
    BY <1>1, <2>1 DEF Vouched, Tells
  <2>3. \A v \in units : \E w \in units' : w.id = v.id
    BY <1>2, <1>3
  <2>4. \A v \in units' : v.id = st[k].id => Tells(k, st[k].lc, v)
    BY <1>2, <1>3, <2>1, <2>2 DEF Vouched
  <2> QED
    BY <2>1, <2>3, <2>4 DEF Vouched
<1>6. Rests(st, units')
  BY <1>5 DEF RestInv, Rests
<1>7. \A v \in units' : \E w \in units : w.id = v.id
  BY <1>2, <1>3
<1>8. chore = "refused" => \A v \in units' : v.id = offer.id => ~v.alive /\ v.outcome = "FAILED"
  BY <1>1, <1>2, <1>3 DEF RestInv
<1> QED
  BY <1>4, <1>6, <1>7, <1>8 DEF RestInv

\* What touches neither the state nor the units.
LEMMA AsideRest ==
    ASSUME RestInv, UNCHANGED <<st, units>>,
           chore' = "refused" => chore = "refused" /\ offer' = offer
    PROVE  RestInv'
<1>1. st' = st /\ units' = units
  OBVIOUS
<1> QED
  BY <1>1 DEF RestInv

-----------------------------------------------------------------------------
(* News of workers. *)

\* The action of a unit may have news.
LEMMA UnitFits ==
    ASSUME ExclusionInv, ProgressInv, RestInv, NEW u \in units, NEW k \in Kinds, Busy(st[k]),
           st[k].id = u.id
    PROVE  /\ Fit(st, k) /\ st.planning.id # st[k].id /\ (st[k].lc \in InFlight => st[k].unit)
           /\ Live(st[k]) => Runs(st, k)
<1>1. st \in State /\ Ids(st) /\ Placed(st) /\ Counted(st) /\ Rests(st, units)
  BY DEF ExclusionInv, TypeInv, TypeOK, ProgressInv, Planned, RestInv
<1>2. Fit(st, k) /\ st.planning.id # st[k].id /\ (st[k].lc \in InFlight => st[k].unit)
  BY <1>1, RestsFit, RestsApart DEF RestInv
<1>3. ASSUME Live(st[k]) PROVE Runs(st, k)
  BY <1>1, <1>2, <1>3, PlacedRuns DEF Live, InFlight
<1> QED
  BY <1>2, <1>3

\* The action that was submitted is dispatched by its acknowledgement.
LEMMA SubmittedTurns ==
    ASSUME ExclusionInv, ProgressInv, RestInv, Submitted
    PROVE  \E k \in Kinds : /\ Busy(st[k]) /\ st[k].id = offer.id
                            /\ Turn(st, Dispatched(st, offer.id).st, k)
                            /\ Runs(Dispatched(st, offer.id).st, k)
                            /\ Dispatched(st, offer.id).st[k].lc = "DISPATCHED"
                            /\ Dispatched(st, offer.id).st[k].id = offer.id
<1> DEFINE t == Dispatched(st, offer.id).st
<1>1. st \in State /\ Ids(st) /\ Placed(st)
  BY DEF ExclusionInv, TypeInv, TypeOK
<1>2. PICK k \in Kinds : st[k].lc = "ADMITTED" /\ st[k].id = offer.id
  BY DEF ExclusionInv, HasAdmitted
<1>3. Busy(st[k])
  BY <1>2 DEF Busy
<1>4. st.planning.id # st[k].id
  BY <1>2, <1>3, UnitFits DEF ProgressInv
<1>5. t \in State
  BY SubmittedLive
<1>6. Turn(st, t, k) /\ t[k].lc = "DISPATCHED" /\ t[k].id = offer.id
  BY <1>1, <1>2, DispatchTurns
<1> HIDE DEF t
<1>7. Runs(t, k)
  BY <1>1, <1>3, <1>4, <1>5, <1>6, TurnRuns DEF Live
<1> QED
  BY <1>2, <1>3, <1>6, <1>7 DEF t

\* The submitted dispatch is acknowledged, or its worker is not known to run.
LEMMA DispatchReported ==
    ASSUME ExclusionInv, ProgressInv, RestInv, Submitted, NEW v
    PROVE  /\ Reported(Dispatched(st, offer.id).st, offer.id, units)
           /\ Reported(WorkerUncertain(Dispatched(st, offer.id).st, offer.id, v).st, offer.id, units)
<1> DEFINE t == Dispatched(st, offer.id).st
           q == WorkerUncertain(t, offer.id, v).st
<1>1. PICK k \in Kinds : /\ Busy(st[k]) /\ st[k].id = offer.id
                         /\ Turn(st, t, k) /\ Runs(t, k) /\ t[k].lc = "DISPATCHED" /\ t[k].id = offer.id
  BY SubmittedTurns
<1> HIDE DEF t
<1>2. Turn(t, q, k) /\ q[k].lc = "STOPPING"
  BY <1>1, UncertainTurns
<1> HIDE DEF q
<1>3. Busy(t[k]) /\ Live(t[k]) /\ Live(q[k])
  BY <1>1, <1>2 DEF Busy, Live, InFlight
<1>4. Turn(st, q, k)
  BY <1>1, <1>2, <1>3, TurnOn
<1>5. Ids(st) /\ \E u \in units : u.id = st[k].id
  BY <1>1 DEF ExclusionInv, ProgressInv
<1>6. Reported(t, offer.id, units) /\ Reported(q, offer.id, units)
  BY <1>1, <1>3, <1>4, <1>5, TurnReported
<1> QED
  BY <1>6 DEF t, q

\* A start that was refused is the failure its unit records.
LEMMA RefusedReported ==
    ASSUME ExclusionInv, ProgressInv, RestInv, chore = "refused"
    PROVE  LET q == Finished(Dispatched(st, offer.id).st, offer.id, "FAILED", TRUE).st
           IN Evolves(st, q, offer.id) /\ Reported(q, offer.id, units)
<1> DEFINE t == Dispatched(st, offer.id).st
           q == Finished(t, offer.id, "FAILED", TRUE).st
<1>1. PICK k \in Kinds : /\ Busy(st[k]) /\ st[k].id = offer.id
                         /\ Turn(st, t, k) /\ Runs(t, k) /\ t[k].lc = "DISPATCHED" /\ t[k].id = offer.id
  BY SubmittedTurns DEF Submitted
<1>2. t \in State /\ Evolves(st, t, offer.id) /\ Ids(t) /\ HasLive(t, offer.id) /\ offer.id \in Nat
  BY SubmittedLive DEF Submitted, ExclusionInv, TypeInv, TypeOK, Offers
<1>3. offer.id # 0
  BY <1>2, Stages DEF HasLive, Ids, Numbered
<1> HIDE DEF t
<1>4. Evolves(st, q, offer.id)
  BY <1>2, <1>3, FinishedEvolves, EvolvesOn DEF Ids, Outcomes
<1>5. Ended(t, q, k, "FAILED")
  BY <1>1, FinishedTurns, OutcomeEnds DEF Outcomes
<1> HIDE DEF q
<1>6. Ended(st, q, k, "FAILED")
  BY <1>1, <1>5, EndedOn DEF Busy, InFlight
<1>7. PICK u \in units : u.id = offer.id
  BY DEF ProgressInv, Submitted
<1>8. ~u.alive /\ u.outcome = "FAILED" /\ \A v \in units : v.id = u.id => v = u
  BY <1>7 DEF RestInv, ExclusionInv, UnitsNumbered
<1>9. Ids(st) /\ u.outcome \in Terminal
  BY <1>8 DEF ExclusionInv, Terminal, Failed
<1>10. Reported(q, offer.id, units)
  BY <1>1, <1>6, <1>7, <1>8, <1>9, EndedReported
<1> QED
  BY <1>4, <1>10 DEF q, t

\* The end of a supervised worker is what its unit records; one that is being
\* stopped waits for its acknowledgement.
LEMMA FinishedReported ==
    ASSUME ExclusionInv, ProgressInv, RestInv, NEW u \in units, ~u.alive, Supervised(u.id),
           u.outcome \in Terminal \ {"UNKNOWN", "TIMED_OUT"}
    PROVE  Reported(Finished(st, u.id, EventOutcome(u.outcome), TRUE).st, u.id, units)
<1> DEFINE q == Finished(st, u.id, EventOutcome(u.outcome), TRUE).st
<1>1. PICK k \in Kinds : st[k].id = u.id /\ Live(st[k])
  BY NamedBusy DEF Supervised, Held, Live
<1>2. Busy(st[k]) /\ Runs(st, k)
  BY <1>1, UnitFits, Stages
<1>3. Ids(st) /\ \A v \in units : v.id = u.id => v = u
  BY DEF ExclusionInv, UnitsNumbered
<1>4. CASE st[k].lc = "STOPPING"
  <2>1. Untouched(st, q)
    BY <1>1, <1>2, <1>4, StoppingWaits
  <2> QED
    BY <2>1, KeptReported DEF Untouched, RestInv
<1>5. CASE st[k].lc = "DISPATCHED"
  <2>1. EventOutcome(u.outcome) \in Outcomes
    BY EventOutcomeType
  <2>2. EndedLifecycle(EventOutcome(u.outcome)) = u.outcome
    BY DEF EndedLifecycle, EventOutcome, Terminal, Failed
  <2>3. Ended(st, q, k, u.outcome)
    BY <1>1, <1>2, <1>5, <2>1, <2>2, FinishedTurns
  <2> HIDE DEF q
  <2> QED
    BY <1>1, <1>2, <1>3, <2>3, EndedReported DEF q
<1> QED
  BY <1>1, <1>4, <1>5 DEF Live

\* A stop that is acknowledged ends its action the way the unit records.
LEMMA AcknowledgedReported ==
    ASSUME ExclusionInv, ProgressInv, RestInv, NEW u \in units, ~u.alive, u.outcome \in Terminal,
           ActionForId(st, u.id).lc = "STOPPING"
    PROVE  Reported(WorkerCancellationAcknowledged(st, u.id, u.outcome).st, u.id, units)
<1> DEFINE q == WorkerCancellationAcknowledged(st, u.id, u.outcome).st
<1>1. PICK k \in Kinds : st[k].id = u.id /\ st[k].lc = "STOPPING"
  BY NamedBusy DEF Held
<1>2. Busy(st[k]) /\ Runs(st, k)
  BY <1>1, UnitFits, Stages DEF Live
<1>3. Ids(st) /\ \A v \in units : v.id = u.id => v = u
  BY DEF ExclusionInv, UnitsNumbered
<1>4. Ended(st, q, k, u.outcome)
  BY <1>1, <1>2, AcknowledgedTurns
<1> HIDE DEF q
<1> QED
  BY <1>1, <1>2, <1>3, <1>4, EndedReported DEF q

-----------------------------------------------------------------------------
(* The restart. *)

\* News of a worker that its unit bears out leave a state at rest.
LEMMA TurnRests ==
    ASSUME NEW s, NEW t \in State, NEW us, NEW k \in Kinds, Fit(s, k), Turn(s, t, k), Rests(s, us),
           Reported(t, s[k].id, us)
    PROVE  Rests(t, us)
<1>1. FailedChecks(t) = {}
  BY TurnChecked
<1>2. /\ \A j \in Kinds \ {k} : t[j] = s[j] /\ ~Busy(t[j])
      /\ k = "prep" => ~Held(t.app)
      /\ Held(t[k]) => t[k].id = s[k].id
  BY TurnKinds
<1>3. ASSUME NEW j \in Kinds, Held(t[j]) PROVE Vouched(j, t[j], us)
  BY <1>2, <1>3 DEF Reported, Rests
<1>4. Lonely(t)
  BY <1>2 DEF Lonely, Kinds
<1>5. Spaced(t)
  <2>1. t.planning = s.planning
    BY DEF Turn, Steady
  <2>2. Held(t.app) => t.app.id = s.app.id /\ Held(s.app)
    <3>1. CASE k = "app"
      BY <1>2, <3>1, Stages DEF Fit
    <3>2. CASE k # "app"
      BY <1>2, <3>2 DEF Kinds
    <3> QED
      BY <3>1, <3>2
  <2> QED
    BY <2>1, <2>2 DEF Rests, Spaced
<1> QED
  BY <1>1, <1>3, <1>4, <1>5 DEF Rests

\* What recovery replays is the end of one worker, as its unit records it.
LEMMA ReconciledEnds ==
    ASSUME ExclusionInv, ProgressInv, RestInv, Missed(st, units) # {}
    PROVE  \E u \in Missed(st, units) : \E k \in Kinds :
              /\ Busy(st[k]) /\ st[k].id = u.id /\ Fit(st, k)
              /\ Ended(st, Reconciled(st, units), k, u.outcome)
<1> DEFINE u == CHOOSE u \in Missed(st, units) : TRUE
<1>1. u \in Missed(st, units)
  OBVIOUS
<1>2. Reconciled(st, units) = ApplyVerifiedResult(st, u)
  BY DEF Reconciled
<1> HIDE DEF u
<1>3. /\ u \in units /\ u \in Units /\ u.outcome \in Terminal
      /\ ActionForId(st, u.id).lc \in {"ADMITTED", "DISPATCHED", "STOPPING"}
  BY <1>1 DEF Missed, Results, Units, ExclusionInv, TypeInv, TypeOK
<1>4. PICK k \in Kinds : st[k].id = u.id /\ st[k].lc \in {"ADMITTED", "DISPATCHED", "STOPPING"}
  BY <1>3, NamedBusy DEF Held
<1>5. Busy(st[k])
  BY <1>4 DEF Busy, InFlight
<1>6. Fit(st, k) /\ st.planning.id # st[k].id /\ (st[k].lc \in InFlight => st[k].unit)
  BY <1>3, <1>4, <1>5, UnitFits
<1>7. st \in State /\ Ids(st) /\ Placed(st)
  BY DEF ExclusionInv, TypeInv, TypeOK
<1>8. Ended(st, ApplyVerifiedResult(st, u), k, u.outcome)
  BY <1>3, <1>4, <1>6, <1>7, ResultTurns
<1> QED
  BY <1>1, <1>2, <1>4, <1>5, <1>6, <1>8

\* What recovery reconciles is at rest.
LEMMA ReconciledRests ==
    ASSUME ExclusionInv, ProgressInv, RestInv
    PROVE  LET r == Reconciled(st, units)
           IN /\ Sound(r) /\ Rests(r, units) /\ r.planning = st.planning /\ r.seq = st.seq
<1> DEFINE r == Reconciled(st, units)
<1>1. /\ st \in State /\ Ids(st) /\ Placed(st) /\ units \in SUBSET Units /\ Sound(st)
      /\ \A u \in units : u.id # 0
      /\ \A u, v \in units : v.id = u.id => v = u
  BY DEF ExclusionInv, TypeInv, TypeOK, UnitsNumbered, Sound
<1>2. CASE Missed(st, units) = {}
  <2>1. r = st
    BY <1>2 DEF Reconciled
  <2> QED
    BY <1>1, <2>1 DEF RestInv
<1>3. CASE Missed(st, units) # {}
  <2>1. PICK u \in Missed(st, units), k \in Kinds :
          Busy(st[k]) /\ st[k].id = u.id /\ Fit(st, k) /\ Ended(st, r, k, u.outcome)
    BY <1>3, ReconciledEnds
  <2>2. u \in units /\ ~u.alive /\ u.outcome \in Terminal
    BY <1>1 DEF Missed, Results, Units
  <2>3. r \in State
    BY <1>1, ReconciledType
  <2>4. \E x : Evolves(st, r, x)
    BY <1>1, <1>3, ReconciledEvolves
  <2> HIDE DEF r
  <2>5. Turn(st, r, k)
    BY <2>1 DEF Ended
  <2>6. Rests(r, units)
    BY <1>1, <2>1, <2>2, <2>3, <2>5, EndedReported, TurnRests DEF RestInv
  <2>7. Numbered(r) /\ Apart(r)
    BY <1>1, <2>3, <2>4, EvolvesAdvances, AdvancesNumbered
  <2>8. Sound(r)
    BY <2>3, <2>6, <2>7, CheckedSound DEF Rests
  <2>9. r.planning = st.planning /\ r.seq = st.seq
    BY <2>5 DEF Turn, Steady
  <2> QED
    BY <2>6, <2>8, <2>9 DEF r
<1> QED
  BY <1>2, <1>3

\* A restart leaves a state at rest.
LEMMA RestartRest ==
    ASSUME ExclusionInv, ProgressInv, RestInv, ExclusionInv', ProgressInv', Carries(st, st'),
           NEW open, NEW generation, Commit(ControllerStarted(Reconciled(st, units)), open, units, generation)
    PROVE  RestInv'
<1> DEFINE r == Reconciled(st, units)
           d == ControllerStarted(r)
<1>1. Sound(r) /\ Rests(r, units) /\ r.planning = st.planning /\ r.seq = st.seq
  BY ReconciledRests
<1> HIDE DEF r
<1>2. r \in State /\ Ids(r) /\ Counted(r) /\ r.planning.id <= r.seq
  BY <1>1 DEF Sound, ProgressInv, Planned, Counted
<1>3. d \in Decisions /\ d.st \in State /\ Evolves(r, d.st, Nobody) /\ Yields(r, d.st)
  BY <1>1, <1>2, ControllerStartedType, DecisionParts, StartedEvolves, StartedYields
<1> HIDE DEF d
<1>4. Counted(d.st) /\ Renumbers(r, d.st)
  BY <1>2, <1>3 DEF Yields, Counted, Renumbers
<1>5. FailedChecks(d.st) = {} => Rests(d.st, units)
  BY <1>1, <1>2, <1>3, <1>4, EvolvesAdvances, EvolvesPicks, NobodyReported, RestsOn
<1> QED
  BY <1>3, <1>5, CommitRest DEF d, r

-----------------------------------------------------------------------------
(* Every step. *)

\* Every step of the controller, its workers and its crashes leaves a state at rest.
LEMMA StepRest ==
    ASSUME ExclusionInv, ProgressInv, RestInv, Next PROVE RestInv'
<1> USE ControllerAssumption
<1>0. /\ st \in State /\ Sound(st) /\ Ids(st) /\ gen \in Nat /\ since \in Nat
      /\ units \in SUBSET Units /\ task \in Nat /\ offer.id \in Nat
  BY DEF ExclusionInv, TypeInv, TypeOK, Sound, Offers
<1>0a. st.egen \in Nat /\ st.egen + 1 \in Nat /\ st.planning.id \in Nat
  BY <1>0, Fields DEF Action
<1>0b. ExclusionInv' /\ ProgressInv' /\ Carries(st, st')
  BY StepExclusion, StepProgress
<1>0c. ASSUME NEW d \in Decisions, Evolves(st, d.st, Nobody), Process(d) PROVE RestInv'
  BY <1>0b, <1>0c, DecisionParts, NobodyReported, EvolvesRest DEF Process
<1>0d. ASSUME NEW d \in Decisions, NEW x, Evolves(st, d.st, x), Reported(d.st, x, units), NEW open,
              Commit(d, open, units, gen)
       PROVE RestInv'
  BY <1>0b, <1>0d, EvolvesRest
<1>0e. \A u \in units : u.id \in Nat /\ u.id # 0 /\ u.outcome \in Terminal \cup {None}
  BY <1>0 DEF Units, ExclusionInv, UnitsNumbered
<1>0f. \A a \in Mutators(st) : a.id \in Nat
  BY <1>0, Fields DEF Mutators, Action
<1>0g. ASSUME NEW x \in Nat, NEW lc \in {"UNKNOWN", "TIMED_OUT"}, Process(WorkerUncertain(st, x, lc))
       PROVE RestInv'
  BY <1>0, <1>0c, <1>0g, WorkerUncertainType, UncertainEvolves
<1>1. CASE NotifyDrmHint
  BY <1>1, AsideRest DEF NotifyDrmHint
<1>2. CASE ProcessDrmHint
  <2>1. PICK dt \in Steps : Process(DrmHintReceived(st, st.egen + 1, dt))
    BY <1>2 DEF ProcessDrmHint
  <2>2. /\ DrmHintReceived(st, st.egen + 1, dt) \in Decisions
        /\ Evolves(st, DrmHintReceived(st, st.egen + 1, dt).st, Nobody)
    BY <1>0, <1>0a, DrmHintReceivedType, DrmHintEvolves
  <2> QED
    BY <1>0c, <2>1, <2>2
<1>3. CASE ProcessTimer
  BY <1>0, <1>0c, <1>3, TimerFiredType, QuietEvents DEF ProcessTimer
<1>4. CASE CompleteObservation
  <2>1. PICK k \in Keys, g \in since..gen, asleep \in Power, c \in Configs, dt \in Steps :
          Process(ObservationCompleted(st, [key |-> k, gen |-> g, asleep |-> asleep, cfg |-> c], dt))
    BY <1>4 DEF CompleteObservation, ProcessBounded
  <2> DEFINE o == [key |-> k, gen |-> g, asleep |-> asleep, cfg |-> c]
             d == ObservationCompleted(st, o, dt)
  <2>2. o \in Observations
    BY <1>0 DEF Observations
  <2> HIDE DEF o
  <2>3. d \in Decisions /\ d.st \in State /\ Advances(st, d.st, Nobody) /\ Picks(st, d.st)
    BY <1>0, <2>2, ObservationCompletedType, DecisionParts, ObservationCompletedAdvances,
       ObservationCompletedPicks DEF Sound
  <2>4. Commit(d, offer, units, gen)
    BY <2>1 DEF o, Process
  <2> HIDE DEF d
  <2> QED
    BY <1>0b, <2>3, <2>4, NobodyReported, FollowsRest
<1>5. CASE FailObservation
  BY <1>0, <1>0c, <1>5, ObservationFailedType, QuietEvents DEF FailObservation
<1>6. CASE ObserveBootChange
  <2>1. Commit(BootChanged(st), offer, {}, 0)
    BY <1>6 DEF ObserveBootChange
  <2>2. /\ BootChanged(st) \in Decisions /\ FailedChecks(BootChanged(st).st) = {}
        /\ Rests(BootChanged(st).st, {})
    BY <1>0, BootChangedType, FreshPasses, BlankRests
  <2> QED
    BY <1>0b, <2>1, <2>2, CommitRest
<1>7. CASE RequestPlan
  BY <1>0, <1>0a, <1>0c, <1>7, PlanRequestedType, QuietEvents DEF RequestPlan
<1>8. CASE CompletePlan
  BY <1>0, <1>0c, <1>8, PlanCompletedType, QuietEvents DEF CompletePlan
<1>9. CASE FailPlan
  <2>1. PICK retryable \in BOOLEAN : Process(PlanFailed(st, task, retryable))
    BY <1>9 DEF FailPlan
  <2>2. PlanFailed(st, task, retryable) \in Decisions /\ Evolves(st, PlanFailed(st, task, retryable).st, Nobody)
    BY <1>0, <1>9, PlanFailedType, PlanFailedEvolves DEF FailPlan
  <2> QED
    BY <1>0c, <2>1, <2>2
<1>10. CASE FenceDirtied
  <2>1. PICK dt \in Steps : Commit(AdmissionDirtied(st, offer.id, gen, dt),
                                   [offer EXCEPT !.dirty = TRUE], units, gen)
    BY <1>10 DEF FenceDirtied
  <2> DEFINE d == AdmissionDirtied(st, offer.id, gen, dt)
  <2>2. d \in Decisions /\ Evolves(st, d.st, offer.id)
    BY <1>0, AdmissionDirtiedType, AdmissionDirtiedEvolves
  <2>3. \A k \in Kinds : d.st[k] = st[k] \/ ~Held(d.st[k])
    <3>1. st \in State /\ offer.id \in Nat /\ gen \in Nat /\ dt \in Nat
      BY <1>0
    <3>2. \A k \in Kinds : d.st[k] \in {st[k], NoAction}
      BY <3>1, DirtiedKeeps
    <3>3. ~Held(NoAction)
      BY NoActionStage
    <3> QED
      BY <3>2, <3>3
  <2> HIDE DEF d
  <2>4. Reported(d.st, offer.id, units)
    BY <2>3, KeptReported DEF RestInv
  <2> QED
    BY <1>0d, <2>1, <2>2, <2>4 DEF d
<1>11. CASE FenceStale
  BY <1>11, AsideRest DEF FenceStale, Fencing, Idle
<1>12. CASE SubmitAccepted
  BY <1>12, SubmitRest DEF SubmitAccepted
<1>13. CASE SubmitLost
  BY <1>13, SubmitRest DEF SubmitLost
<1>14. CASE SubmitRefused
  BY <1>14, SubmitRest DEF SubmitRefused
<1>15. CASE RejectDispatch
  <2> DEFINE d == DispatchRejected(st, offer.id)
  <2>1. up /\ ~Submitted /\ EffectIsCurrent /\ Commit(d, NoOffer, units, gen)
    BY <1>15 DEF RejectDispatch, Fencing, Idle, Submitted
  <2>2. PICK j \in Kinds : st[j].lc = "ADMITTED" /\ st[j].id = offer.id
    BY <2>1 DEF EffectIsCurrent, Admitted, Mutators, Kinds
  <2>3. offer.id # 0 /\ \A u \in units : u.id # offer.id
    BY <1>0, <2>1, <2>2, Stages DEF HasAdmitted, Ids, Numbered, ExclusionInv, Unsubmitted
  <2>4. d \in Decisions /\ Evolves(st, d.st, offer.id)
    BY <1>0, <2>3, DispatchRejectedType, DispatchRejectedEvolves
  <2>5. \A k \in Kinds : d.st[k].lc \in {st[k].lc, "FAILED"}
    BY <1>0, RejectedKeeps
  <2> HIDE DEF d
  <2>6. ASSUME NEW k \in Kinds, Held(d.st[k]), d.st[k].id = offer.id PROVE Vouched(k, d.st[k], units)
    <3>1. st[k].id = offer.id
      BY <2>4, <2>6 DEF Evolves, Descends
    <3>2. k = j
      BY <1>0, <2>2, <3>1, LiveUnique DEF Busy
    <3>3. d.st[k].lc \in {"ADMITTED", "FAILED"}
      BY <2>2, <2>5, <3>2
    <3> QED
      BY <2>3, <2>6, <3>3 DEF Vouched, InFlight
  <2>7. Reported(d.st, offer.id, units)
    BY <2>6 DEF Reported
  <2> QED
    BY <1>0d, <2>1, <2>4, <2>7
<1>16. CASE AcknowledgeDispatch
  <2>1. Submitted /\ Commit(Dispatched(st, offer.id), NoOffer, units, gen)
    BY <1>16 DEF AcknowledgeDispatch, Submitted
  <2>2. /\ Dispatched(st, offer.id) \in Decisions
        /\ Evolves(st, Dispatched(st, offer.id).st, offer.id)
        /\ Reported(Dispatched(st, offer.id).st, offer.id, units)
    BY <1>0, <2>1, DispatchedType, SubmittedLive, DispatchReported
  <2> QED
    BY <1>0d, <2>1, <2>2
<1>17. CASE MarkDispatchUncertain
  <2> DEFINE t == Dispatched(st, offer.id).st
             d == WorkerUncertain(t, offer.id, "UNKNOWN")
  <2>1. Submitted /\ Commit(d, NoOffer, units, gen)
    BY <1>17 DEF MarkDispatchUncertain, Submitted
  <2>2. t \in State /\ Evolves(st, t, offer.id) /\ Ids(t)
    BY <2>1, SubmittedLive
  <2>3. Reported(d.st, offer.id, units)
    BY <2>1, DispatchReported
  <2> HIDE DEF t
  <2>4. d \in Decisions /\ Evolves(t, d.st, Nobody)
    BY <1>0, <2>2, WorkerUncertainType, UncertainEvolves
  <2>5. Evolves(st, d.st, offer.id)
    BY <2>2, <2>4, EvolvesAny, EvolvesOn
  <2> HIDE DEF d
  <2> QED
    BY <1>0d, <2>1, <2>3, <2>4, <2>5
<1>18. CASE CompleteRefusedStart
  <2> DEFINE d == Finished(Dispatched(st, offer.id).st, offer.id, "FAILED", TRUE)
  <2>1. Commit(d, NoOffer, units, gen) /\ Evolves(st, d.st, offer.id) /\ Reported(d.st, offer.id, units)
    BY <1>18, RefusedReported DEF CompleteRefusedStart
  <2>2. d \in Decisions
    BY <1>0, DispatchedType, DecisionParts, FinishedType DEF Outcomes
  <2> HIDE DEF d
  <2> QED
    BY <1>0d, <2>1, <2>2
<1>19. CASE WorkerEnds
  BY <1>19, WorkerEndsRest
<1>20. CASE ReportWorker
  <2>1. PICK u \in units :
          /\ ~u.alive /\ Supervised(u.id)
          /\ Process(IF u.outcome \in {None, "UNKNOWN"}
                     THEN WorkerUncertain(st, u.id, "UNKNOWN")
                     ELSE IF u.outcome = "TIMED_OUT"
                     THEN WorkerUncertain(st, u.id, "TIMED_OUT")
                     ELSE Finished(st, u.id, EventOutcome(u.outcome), TRUE))
    BY <1>20 DEF ReportWorker
  <2>2. CASE u.outcome \in {None, "UNKNOWN"}
    BY <1>0e, <1>0g, <2>1, <2>2
  <2>3. CASE u.outcome \notin {None, "UNKNOWN"} /\ u.outcome = "TIMED_OUT"
    BY <1>0e, <1>0g, <2>1, <2>3
  <2>4. CASE u.outcome \notin {None, "UNKNOWN", "TIMED_OUT"}
    <3> DEFINE d == Finished(st, u.id, EventOutcome(u.outcome), TRUE)
    <3>1. u.outcome \in Terminal \ {"UNKNOWN", "TIMED_OUT"}
      BY <1>0e, <2>4
    <3>2. d \in Decisions /\ Evolves(st, d.st, u.id)
      BY <1>0, <1>0e, <3>1, EventOutcomeType, FinishedType, FinishedEvolves DEF Ids
    <3>3. Reported(d.st, u.id, units)
      BY <2>1, <3>1, FinishedReported
    <3>4. Commit(d, offer, units, gen)
      BY <2>1, <2>4 DEF Process
    <3> HIDE DEF d
    <3> QED
      BY <1>0d, <3>2, <3>3, <3>4
  <2> QED
    BY <2>2, <2>3, <2>4
<1>21. CASE DoubtWorker
  BY <1>0f, <1>0g, <1>21 DEF DoubtWorker
<1>22. CASE StopAcknowledged
  <2>1. PICK u \in units : /\ ~u.alive /\ u.outcome # None /\ ActionForId(st, u.id).lc = "STOPPING"
                           /\ Process(WorkerCancellationAcknowledged(st, u.id, u.outcome))
    BY <1>22 DEF StopAcknowledged
  <2> DEFINE d == WorkerCancellationAcknowledged(st, u.id, u.outcome)
  <2>2. d \in Decisions /\ Evolves(st, d.st, u.id)
    BY <1>0, <1>0e, <2>1, CancellationAcknowledgedType, AcknowledgedEvolves
  <2>3. Reported(d.st, u.id, units)
    BY <1>0e, <2>1, AcknowledgedReported
  <2>4. Commit(d, offer, units, gen)
    BY <2>1 DEF Process
  <2> HIDE DEF d
  <2> QED
    BY <1>0d, <2>2, <2>3, <2>4
<1>23. CASE StopDoubted
  BY <1>0f, <1>0g, <1>23 DEF StopDoubted
<1>24. CASE StopIneffective
  BY <1>0, <1>0c, <1>24, NoOpType, QuietEvents DEF StopIneffective
<1>25. CASE Crash
  BY <1>25, EndsRest DEF Crash
<1>26. CASE Restart
  BY <1>0b, <1>26, RestartRest DEF Restart
<1>27. CASE RefuseStart
  BY <1>27, AsideRest DEF RefuseStart, vars
<1>28. CASE NewSession
  <2> DEFINE d == ControllerStarted(NewSessionState(st))
  <2>1. Commit(d, NoOffer, {}, 0)
    BY <1>28 DEF NewSession
  <2>2. d \in Decisions /\ FailedChecks(d.st) = {} /\ Rests(d.st, {})
    BY <1>0, NewSessionType, ControllerStartedType, FreshPasses, BlankRests
  <2> QED
    BY <1>0b, <2>1, <2>2, CommitRest
<1> QED
  BY <1>1, <1>2, <1>3, <1>4, <1>5, <1>6, <1>7, <1>8, <1>9, <1>10, <1>11, <1>12, <1>13, <1>14,
     <1>15, <1>16, <1>17, <1>18, <1>19, <1>20, <1>21, <1>22, <1>23, <1>24, <1>25, <1>26, <1>27,
     <1>28 DEF Next

\* A first start holds nothing.
LEMMA InitRest == Init => RestInv
<1> SUFFICES ASSUME Init PROVE RestInv
  OBVIOUS
<1>1. Blank(st)
  BY DEF Init, InitialState, Blank, Kinds
<1> QED
  BY <1>1, BlankRests DEF RestInv, Init

\* Every state that is saved, and every state a crash leaves, is at rest.
THEOREM RestHolds == Spec => []RestInv
<1>1. Init => RestInv
  BY InitRest
<1>2. ExclusionInv /\ ProgressInv /\ RestInv /\ [Next]_vars => RestInv'
  <2> SUFFICES ASSUME ExclusionInv, ProgressInv, RestInv, [Next]_vars PROVE RestInv'
    OBVIOUS
  <2>1. CASE Next
    BY <2>1, StepRest
  <2>2. CASE UNCHANGED vars
    BY <2>2, AsideRest DEF vars
  <2> QED
    BY <2>1, <2>2
<1> QED
  BY <1>1, <1>2, ExclusionHolds, ProgressHolds, PTL DEF Spec

-----------------------------------------------------------------------------
(* The grant. *)

\* In a state that passes the checks an id names the mutator that holds it.
LEMMA HeldNamed ==
    ASSUME NEW s, FailedChecks(s) = {}, NEW k \in Kinds, Held(s[k])
    PROVE  ActionForId(s, s[k].id) = s[k]
<1>1. s[k] \in Mutators(s)
  BY DEF Mutators, Kinds
<1>2. \A a \in Mutators(s) : Held(a) /\ a.id = s[k].id => a = s[k]
  BY <1>1, ChecksSplit DEF ActionIdentities, Actions
<1> QED
  BY <1>1, <1>2 DEF ActionForId

\* The lifecycles in which a mutator is held.
LEMMA HeldStages ==
    ASSUME NEW s, FailedChecks(s) = {}, NEW k \in Kinds, Held(s[k])
    PROVE  /\ s[k].lc \in {"ADMITTED", "COMPLETED"} \cup InFlight \cup Failed
           /\ s[k].lc = "COMPLETED" => k \in {"prep", "fin"}
<1>1. PhaseRelationships(s) /\ PlanningRelationships(s) /\ PersistenceRelationships(s)
  BY ChecksSplit
<1>2. s.phase # "RECOVERING"
  BY <1>1 DEF PersistenceRelationships, Actions, Mutators, Kinds
<1>3. CASE k = "prep"
  BY <1>1, <1>2, <1>3 DEF PlanningRelationships, Matches, InFlight
<1>4. CASE k \in {"probe", "app", "fin"}
  BY <1>1, <1>2, <1>4 DEF PhaseRelationships, Matches, InFlight, Failed
<1> QED
  BY <1>3, <1>4 DEF Kinds, Failed

\* A result the state holds is represented, if it is the one the lifecycle tells.
LEMMA HeldRepresented ==
    ASSUME NEW s \in State, FailedChecks(s) = {}, NEW k \in Kinds, Held(s[k]), NEW u, u.id = s[k].id,
           \/ /\ s[k].lc \in {"RESULT_PENDING", "COMPLETED"} /\ k \in {"prep", "fin"}
              /\ u.outcome = "COMPLETED"
           \/ s[k].lc \in Failed /\ u.outcome = s[k].lc
    PROVE  Represented(s, u)
<1>1. ActionForId(s, u.id) = s[k]
  BY HeldNamed
<1>2. s[k] \in Actions(s) /\ ActionIdentities(s)
  BY ChecksSplit DEF Actions, Mutators, Kinds
<1>3. \A t \in s.tombs : t.id = u.id => t.lc = s[k].lc /\ t.lc \in Terminal
  BY <1>2, Fields DEF ActionIdentities
<1>4. s[k].lc \in Terminal => [id |-> u.id, lc |-> s[k].lc] \in s.tombs
  BY <1>2 DEF ActionIdentities
<1>5. CASE s[k].lc = "RESULT_PENDING" /\ k \in {"prep", "fin"} /\ u.outcome = "COMPLETED"
  <2>1. ~\E t \in s.tombs : t.id = u.id
    BY <1>3, <1>5 DEF Terminal, Failed
  <2> QED
    BY <1>1, <1>5, <2>1 DEF Represented
<1>6. CASE s[k].lc = "COMPLETED" /\ k \in {"prep", "fin"} /\ u.outcome = "COMPLETED"
  <2>1. [id |-> u.id, lc |-> u.outcome] \in s.tombs
    BY <1>4, <1>6 DEF Terminal
  <2> QED
    BY <1>1, <1>6, <2>1 DEF Represented
<1>7. CASE s[k].lc \in Failed /\ u.outcome = s[k].lc
  <2>1. [id |-> u.id, lc |-> u.outcome] \in s.tombs
    BY <1>4, <1>7 DEF Terminal
  <2>2. u.outcome # "COMPLETED"
    BY <1>7 DEF Failed
  <2> QED
    BY <1>1, <1>7, <2>1, <2>2 DEF Represented
<1> QED
  BY <1>5, <1>6, <1>7

\* A result whose action is gone is represented by its tombstone.
LEMMA GoneRepresented ==
    ASSUME NEW s, NEW u, u.outcome \in {"COMPLETED", "CANCELLED"},
           \A k \in Kinds : ~(Held(s[k]) /\ s[k].id = u.id),
           [id |-> u.id, lc |-> u.outcome] \in s.tombs
    PROVE  Represented(s, u)
<1>1. ~Held(ActionForId(s, u.id))
  BY NamedBusy
<1>2. u.outcome \notin Failed
  BY DEF Failed
<1> QED
  BY <1>1, <1>2 DEF Represented

\* The result that recovery replays is represented.
LEMMA EndedRepresented ==
    ASSUME NEW s, NEW t \in State, NEW k \in Kinds, Fit(s, k), NEW u, u.id = s[k].id,
           u.outcome \in Terminal, Ended(s, t, k, u.outcome), FailedChecks(t) = {}
    PROVE  Represented(t, u)
<1>1. /\ \A j \in Kinds \ {k} : t[j].id # s[k].id
      /\ Held(t[k]) => t[k].id = s[k].id
  BY TurnKinds DEF Ended
<1>2. CASE u.outcome \in Failed
  <2>1. t[k].lc = u.outcome /\ Held(t[k])
    BY <1>2 DEF Ended, Failed, Held
  <2> QED
    BY <1>1, <1>2, <2>1, HeldRepresented
<1>3. CASE u.outcome = "COMPLETED" /\ k \in {"prep", "fin"}
  <2>1. t[k].lc = "RESULT_PENDING" /\ Held(t[k])
    BY <1>3 DEF Ended, Held
  <2> QED
    BY <1>1, <1>3, <2>1, HeldRepresented
<1>4. CASE u.outcome = "CANCELLED" \/ (u.outcome = "COMPLETED" /\ k \notin {"prep", "fin"})
  <2>1. ~Held(t[k]) /\ [id |-> u.id, lc |-> u.outcome] \in t.tombs
    BY <1>4 DEF Ended
  <2> QED
    BY <1>1, <1>4, <2>1, GoneRepresented
<1> QED
  BY <1>2, <1>3, <1>4 DEF Terminal

\* When the workers have ended with known outcomes, recovery finds every result the
\* state holds represented, but for a success that its confirmation failed.
LEMMA KnownRepresented ==
    ASSUME ExclusionInv, ProgressInv, RestInv, NEW u \in Results(units),
           Held(ActionForId(st, u.id)), ~ConfirmationFailed(u)
    PROVE  Represented(Reconciled(st, units), u)
<1> DEFINE r == Reconciled(st, units)
<1>1. Sound(r) /\ Rests(r, units)
  BY ReconciledRests
<1>2. r \in State /\ FailedChecks(r) = {} /\ st \in State /\ Ids(st)
  BY <1>1 DEF Sound, Rests, ExclusionInv, TypeInv, TypeOK
<1>3. u \in units /\ u.outcome \in Terminal /\ ~u.alive
  BY DEF Results, ExclusionInv, TypeInv, TypeOK, Units
<1>4. PICK j \in Kinds : st[j] = ActionForId(st, u.id) /\ st[j].id = u.id /\ Held(st[j])
  BY NamedBusy
<1>5. CASE u \in Missed(st, units)
  <2>1. PICK v \in Missed(st, units), k \in Kinds :
          Busy(st[k]) /\ st[k].id = v.id /\ Fit(st, k) /\ Ended(st, r, k, v.outcome)
    BY <1>5, ReconciledEnds
  <2>2. Busy(st[j])
    BY <1>4, <1>5 DEF Missed, Busy, InFlight
  <2>3. v \in units /\ j = k
    BY <1>2, <2>1, <2>2 DEF Missed, Results, Ids
  <2>4. v = u
    BY <1>3, <1>4, <2>1, <2>3 DEF ExclusionInv, UnitsNumbered
  <2> HIDE DEF r
  <2> QED
    BY <1>2, <1>3, <2>1, <2>4, EndedRepresented DEF r
<1>6. CASE u \notin Missed(st, units)
  <2>1. st[j].lc \notin {"ADMITTED", "DISPATCHED", "STOPPING"}
    BY <1>4, <1>6 DEF Missed
  <2>2. r[j] = st[j]
    <3>1. CASE Missed(st, units) = {}
      BY <3>1 DEF Reconciled
    <3>2. CASE Missed(st, units) # {}
      <4>1. PICK v \in Missed(st, units), k \in Kinds :
              Busy(st[k]) /\ st[k].id = v.id /\ Ended(st, r, k, v.outcome)
        BY <3>2, ReconciledEnds
      <4>2. j # k
        BY <1>3, <1>4, <1>6, <4>1 DEF Missed, Results, ExclusionInv, UnitsNumbered
      <4> QED
        BY <4>1, <4>2 DEF Ended, Turn
    <3> QED
      BY <3>1, <3>2
  <2> HIDE DEF r
  <2>3. FailedChecks(st) = {} /\ Vouched(j, st[j], units)
    BY <1>4 DEF RestInv, Rests
  <2>4. Tells(j, st[j].lc, u) /\ (j \in {"probe", "app"} => st[j].lc # "RESULT_PENDING")
    BY <1>3, <1>4, <2>3 DEF Vouched
  <2>5. /\ st[j].lc \in {"RESULT_PENDING", "COMPLETED"} \cup Failed
        /\ st[j].lc = "COMPLETED" => j \in {"prep", "fin"}
    BY <1>4, <2>1, <2>3, HeldStages DEF InFlight
  <2>6. CASE st[j].lc \in {"RESULT_PENDING", "COMPLETED"}
    <3>1. u.outcome = "COMPLETED" /\ j \in {"prep", "fin"}
      BY <2>4, <2>5, <2>6 DEF Tells, Kinds
    <3> QED
      BY <1>2, <1>4, <2>2, <2>6, <3>1, HeldRepresented DEF r
  <2>7. CASE st[j].lc \in Failed
    <3>1. u.outcome = st[j].lc \/ (u.outcome = "COMPLETED" /\ st[j].lc = "FAILED" /\ j \in {"prep", "fin"})
      BY <2>4, <2>7 DEF Tells
    <3>2. u.outcome = st[j].lc
      BY <1>4, <3>1 DEF ConfirmationFailed
    <3> QED
      BY <1>2, <1>4, <2>2, <2>7, <3>2, HeldRepresented DEF r
  <2> QED
    BY <2>5, <2>6, <2>7
<1> QED
  BY <1>5, <1>6

\* No crash strands the displays until the next boot: when every worker has ended with
\* a known outcome, recover_state grants a starting controller its authority, whatever
\* was lost between a submission, its acknowledgement, its result and the crash; but
\* for a preparation or finalization whose success the next sample turned into a failure.
THEOREM RestartsGranted == Spec => []RestartIsGrantedOtherwise
<1>1. ExclusionInv /\ ProgressInv /\ RestInv => RestartIsGrantedOtherwise
  <2> SUFFICES ASSUME ExclusionInv, ProgressInv, RestInv, \A u \in units : ~u.alive /\ u.outcome # None,
                      \A u \in units : ~ConfirmationFailed(u)
               PROVE Accounted(st, Reconciled(st, units), units)
    BY DEF RestartIsGrantedOtherwise, Granted
  <2> DEFINE r == Reconciled(st, units)
  <2>1. Rests(r, units)
    BY ReconciledRests
  <2>2. ASSUME NEW u \in Results(units), Held(ActionForId(st, u.id)) \/ u \in Missed(st, units)
        PROVE Represented(r, u)
    BY <2>2, KnownRepresented DEF Missed, Results, Held
  <2> HIDE DEF r
  <2>3. \A a \in Mutators(r) : a.lc \in InFlight => \E u \in units : u.id = a.id
    <3> SUFFICES ASSUME NEW k \in Kinds, r[k].lc \in InFlight PROVE \E u \in units : u.id = r[k].id
      BY DEF Mutators, Kinds
    <3>1. Held(r[k])
      BY DEF Held, InFlight
    <3> QED
      BY <2>1, <3>1 DEF Rests, Vouched
  <2>4. Accounted(st, r, units)
    BY <2>1, <2>2, <2>3 DEF Accounted, Rests
  <2> QED
    BY <2>4 DEF r
<1> QED
  BY <1>1, ExclusionHolds, ProgressHolds, RestHolds, PTL

=============================================================================
