----------------------------- MODULE MCUnplug -----------------------------
(***************************************************************************)
(* The controller with a history variable: the run of samples without      *)
(* external hardware up to now, whatever the controller did with them.     *)
(***************************************************************************)
EXTENDS MCController

VARIABLE alone    \* that run: its length and its span

unplugVars == <<vars, alone>>

NoRun == [n |-> 0, span |-> 0]

\* The run with one more sample, dt after the one before.
Longer(dt) ==
    IF alone.n = 0 THEN [n |-> 1, span |-> 0]
    ELSE [alone EXCEPT !.n = Least(@ + 1, UnplugSamples),
                       !.span = Least(@ + dt, UnplugStability)]

\* A sample older than a hint that was processed is ignored, and one whose decision
\* fails its checks is lost with the process.
SampleTaken(k, g, dt) ==
    alone' = IF ~up' \/ (st.obs # None /\ g < st.egen) THEN alone
             ELSE IF Evidence[k].valid /\ ~Evidence[k].external THEN Longer(dt)
             ELSE NoRun

UnplugInit == Init /\ alone = NoRun

\* CompleteObservation with the sample named.
TakeSample ==
    /\ chore = "observe"
    /\ \E k \in Keys, g \in since..gen, asleep \in Power, c \in Configs, dt \in Steps :
          /\ ProcessBounded(ObservationCompleted(
                 st, [key |-> k, gen |-> g, asleep |-> asleep, cfg |-> c], dt))
          /\ SampleTaken(k, g, dt)

TakeHint ==
    /\ ProcessDrmHint \/ FenceDirtied
    /\ alone' = IF st'.egen > st.egen THEN NoRun ELSE alone

StartAnew ==
    /\ ObserveBootChange \/ NewSession
    /\ alone' = NoRun

GoOn ==
    /\ \/ NotifyDrmHint \/ ProcessTimer \/ FailObservation
       \/ RequestPlan \/ CompletePlan \/ FailPlan
       \/ FenceStale \/ SubmitAccepted \/ SubmitLost \/ SubmitRefused \/ RejectDispatch
       \/ AcknowledgeDispatch \/ MarkDispatchUncertain \/ CompleteRefusedStart
       \/ WorkerEnds \/ ReportWorker \/ DoubtWorker
       \/ StopAcknowledged \/ StopDoubted \/ StopIneffective
       \/ Crash \/ Restart \/ RefuseStart
    /\ UNCHANGED alone

UnplugNext == TakeSample \/ TakeHint \/ StartAnew \/ GoOn

UnplugSpec == UnplugInit /\ [][UnplugNext]_unplugVars

\* A sample makes the controller forget the external hardware.
ForgetsExternal == st.intent /\ ~st'.intent /\ st'.obs # None

\* The external hardware is forgotten only after enough samples in a row, over a
\* long enough time, showed none of it ("Explicit unplug proof"): one sample that
\* shows it, one torn sample and one hint that is processed, whatever the controller
\* is doing when they come, start the proof again, and a crash does not shorten it.  (A hint
\* that a later sample absorbs is never processed, and does not.)
UnplugIsProven ==
    [][ForgetsExternal => alone'.n >= UnplugSamples /\ alone'.span >= UnplugStability]_unplugVars

=============================================================================
