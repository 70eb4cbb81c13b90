---------------------------- MODULE StopIntents ----------------------------
(***************************************************************************)
(* The stop intents behind the controller's stops, and what the controller *)
(* must come to in the end.                                                *)
(*                                                                         *)
(* A stop first writes an intent beside the worker's request: the          *)
(* lifecycle the worker is to report if the stop ends it.  The file is     *)
(* created once.  A stop of the same lifecycle finds it and goes on; one   *)
(* of another lifecycle is refused before the manager is asked anything,   *)
(* and the controller takes the refusal for a failed stop.  Controller     *)
(* leaves the intents out: its StopDoubted covers the refusal.  Liveness   *)
(* depends on them.                                                        *)
(***************************************************************************)
EXTENDS Controller

VARIABLE intents    \* the stop intents of the workers the state holds

stopVars == <<vars, intents>>

StopTargets == {a \in Mutators(st) : a.lc = "STOPPING"}

\* The lifecycle a stop asks for.
StopLifecycle(a) == IF a.after = None THEN "CANCELLED" ELSE a.after

Asked == {[id |-> a.id, lc |-> StopLifecycle(a)] : a \in StopTargets}

\* The stop that is due meets an intent of another lifecycle.
Conflict == \E i \in intents, j \in Asked : i.id = j.id /\ i.lc # j.lc

\* An intent is read again only while the state holds its action.
Keep(is) == intents' = {i \in is : Held(ActionForId(st', i.id))}

\* The intent is there, or was created: the manager is asked.
StopAsked ==
    /\ chore = "stop"
    /\ ~Conflict
    /\ StopAcknowledged \/ StopIneffective \/ StopDoubted \/ Crash
    /\ Keep(intents \cup Asked)

\* The request was not readable, the intent could not be created or is another.
StopRefused ==
    /\ StopDoubted
    /\ Keep(intents)

Undisturbed ==
    /\ chore = "stop" => NotifyDrmHint \/ WorkerEnds \/ Crash
    /\ Next
    /\ Keep(intents)

StopInit == Init /\ intents = {}

StopNext == StopAsked \/ StopRefused \/ Undisturbed

StopSpec == StopInit /\ [][StopNext]_stopVars

-----------------------------------------------------------------------------
(* Fairness.  An action that disables itself is weakly fair exactly when it  *)
(* is not enabled for ever, so weak fairness is stated as what recurs.       *)

\* The consumer carries out each effect, takes each due event and finishes each
\* dispatch; a plan is made in finite time; a unit has a time limit, and one
\* that ended is looked at.
Progress ==
    /\ []<>(chore = "none")
    /\ []<>~(Idle /\ (st.timer # "none" \/ st.egen < gen))
    /\ []<>(offer = NoOffer)
    /\ []<>(task = 0)
    /\ []<>(\A u \in units : ~u.alive)
    /\ []<>~(\E u \in units : up /\ ~u.alive /\ ActionForId(st, u.id).lc = "DISPATCHED")

\* A stop that can be acknowledged: its intent is no obstacle, its worker has
\* ended and left a result.
StopAnswered ==
    /\ chore = "stop"
    /\ ~Conflict
    /\ \E u \in units :
          ~u.alive /\ u.outcome # None /\ ActionForId(st, u.id).lc = "STOPPING"

\* A sample and a stop may fail any number of times, but not every time.
FairSpec ==
    /\ StopSpec
    /\ Progress
    /\ <>[](chore # "observe") \/ []<><<CompleteObservation>>_vars
    /\ <>[]~StopAnswered \/ []<><<StopAcknowledged>>_vars

-----------------------------------------------------------------------------
(* What must happen. *)

Waiting ==
    \/ st.planState = "PLAN_FAILED"
    \/ st.prepState = "PREPARE_FAILED"
    \/ st.phase \in {"APPLY_FAILED", "PROBE_FAILED", "FINALIZE_FAILED"}

\* The displays show a known profile exactly and the process is up.
Calm(k) == up /\ st.obs = k

\* The three ways in which what follows fails.  The displays change token while a
\* preparation that succeeded awaits its confirmation: it is stopped, its success
\* resumes it, and the next sample stops it again.
PreparationOutrun ==
    /\ st.prep.lc \in {"RESULT_PENDING", "STOPPING"}
    /\ Evidence[st.obs].token # st.token
    /\ \E u \in units : u.id = st.prep.id /\ u.outcome = "COMPLETED"

\* A worker that is being stopped has ended without a result.
ResultLost == \E u \in units, a \in StopTargets : u.id = a.id /\ ~u.alive /\ u.outcome = None

\* When the samples stay exact and the same and the process stays up, the controller
\* comes to rest with the desktop finalized, unless a worker or a plan has failed,
\* whatever was interrupted before.  A preparation that is outrun for ever, a stop that
\* always meets an intent of another lifecycle and a lost result are the only ways in
\* which it never does.
SettlesWhenCalm ==
    \A k \in {e \in Keys : Evidence[e].exact # None} :
        <>[]Calm(k) => \/ <>[](st.phase = "QUIESCENT" \/ Waiting)
                       \/ <>[]PreparationOutrun
                       \/ <>[]Conflict
                       \/ <>[]ResultLost

\* A worker that is being stopped is accounted for in the end, unless the process keeps
\* crashing: stops are repeated, and repeating one is harmless, but for a stop that meets
\* an intent of another lifecycle, which is refused, and a lost result.
StopsAreResolved ==
    Stopping(st) ~> (~Stopping(st) \/ ~up \/ Conflict \/ ResultLost)

=============================================================================
