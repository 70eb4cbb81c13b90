------------------------------ MODULE Recovery ------------------------------
(***************************************************************************)
(* recover_state (runtime/recovery.py): what a starting controller makes   *)
(* of the state it saved and of the worker units it finds, and whether it  *)
(* is granted the authority to dispatch.                                   *)
(*                                                                         *)
(* A unit is what the service manager and the transaction directory tell   *)
(* of one submitted action: whether its processes may still run, and, once *)
(* they do not, the outcome recorded for it (None: nothing was recorded).  *)
(***************************************************************************)
EXTENDS Invariants

Units == [id: Nat, alive: BOOLEAN, outcome: Terminal \cup {None}]

\* No outcome is none of the outcomes.
ASSUME OutcomeAssumption == None \notin Terminal

\* The held mutator with this id, or NoAction.
ActionForId(s, id) ==
    IF \E a \in Mutators(s) : Held(a) /\ a.id = id
    THEN CHOOSE a \in Mutators(s) : Held(a) /\ a.id = id
    ELSE NoAction

EventOutcome(lc) == IF lc = "COMPLETED" THEN "SUCCEEDED" ELSE lc

\* _verified_result_is_represented: the state says what the result says.
Represented(s, u) ==
    LET a == ActionForId(s, u.id)
        entombed == \E t \in s.tombs : t.id = u.id
        desktop == a \in {s.prep, s.fin}
        same == [id |-> u.id, lc |-> u.outcome] \in s.tombs
    IN IF u.outcome = "COMPLETED" /\ Held(a) /\ desktop
       THEN \/ a.lc = "RESULT_PENDING" /\ ~entombed
            \/ a.lc = "COMPLETED" /\ same
       ELSE IF u.outcome \in Failed
       THEN Held(a) /\ a.lc = u.outcome /\ same
       ELSE ~Held(a) /\ same

\* Mutant of ApplyVerifiedResult: the dispatch nobody acknowledged is not replayed.
ApplyResultAsIs(s, u) == Finished(s, u.id, EventOutcome(u.outcome), TRUE).st

\* The end of a dispatched action, replayed: a worker that was stopped, or is
\* not known to have finished, is acknowledged as stopped.
ReplayEnd(s, u) ==
    LET stopping == ActionForId(s, u.id).lc = "STOPPING"
        uncertain == WorkerUncertain(s, u.id, "UNKNOWN").st
    IN IF stopping \/ u.outcome \in {"UNKNOWN", "TIMED_OUT"}
       THEN WorkerCancellationAcknowledged(IF stopping THEN s ELSE uncertain,
                                           u.id, u.outcome).st
       ELSE Finished(s, u.id, EventOutcome(u.outcome), TRUE).st

\* _apply_verified_result: the events the controller missed, replayed.
ApplyVerifiedResult(s, u) ==
    ReplayEnd(IF ActionForId(s, u.id).lc = "ADMITTED" THEN Dispatched(s, u.id).st ELSE s, u)

Results(units) == {u \in units : ~u.alive /\ u.outcome # None}

\* The results that are news to the state.  At most one action is past its
\* admission and not yet terminal, so there is at most one.
Missed(s, units) ==
    {u \in Results(units) :
        ActionForId(s, u.id).lc \in {"ADMITTED", "DISPATCHED", "STOPPING"}}

Reconciled(s, units) ==
    IF Missed(s, units) = {} THEN s
    ELSE ApplyVerifiedResult(s, CHOOSE u \in Missed(s, units) : TRUE)

\* No unit is beyond what the state accounts for, and no result contradicts it:
\* s as it was saved, t as it is once reconciled.
Accounted(s, t, units) ==
    LET known == {u \in Results(units) :
                    Held(ActionForId(s, u.id)) \/ u \in Missed(s, units)}
    IN /\ \A u \in units : ~u.alive => u.outcome # None
       /\ \A u \in units :
             u.alive => /\ ActionForId(t, u.id).lc \in {"DISPATCHED", "STOPPING"}
                        /\ ActionForId(t, u.id).unit
       /\ \A a \in Mutators(t) : a.lc \in InFlight => \E u \in units : u.id = a.id
       /\ \A u \in known : Represented(t, u)
       /\ FailedChecks(t) = {}

Granted(s, units) == Accounted(s, Reconciled(s, units), units)

\* Mutant of NewSessionState: the numbering starts again.
NewSessionStateUnnumbered(s) == [InitialState EXCEPT !.required = TRUE]

\* load_active_state of another boot or login: nothing but the requirement to
\* finalize the desktop again and the sequence numbers survives.
NewSessionState(s) ==
    [InitialState EXCEPT !.required = TRUE, !.seq = s.seq]

=============================================================================
