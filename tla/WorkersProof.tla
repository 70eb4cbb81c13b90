---------------------------- MODULE WorkersProof ----------------------------
(***************************************************************************)
(* The workers for any number of display changes and panels: which sample  *)
(* a command rests on, how late it can be, and what a completed desktop    *)
(* restart has reached.                                                    *)
(***************************************************************************)
EXTENDS Workers, TLAPS

(* The inductive invariant. *)

Places == BoundaryPlaces \cup CommandPlaces \cup OtherPlaces

\* The place a boundary leads to, or the command that runs.
Site == IF pc \in BoundaryPlaces \cup {"running"} THEN cont ELSE pc

\* The places of the three procedures.
FluxboxPlaces == {"health", "inplace", "panelwait", "full", "recovered"}
PanelPlaces == {"pids", "restart", "restarted", "ready", "unready"}
AppletPlaces == {"tray", "item", "current", "reprove", "traylate", "retry"}

TypeOK ==
    /\ kind \in WorkerKinds /\ step \in 1..Len(Plan[kind])
    /\ pc \in Places /\ cont \in Places
    /\ outcome \in Results \cup {"none", "STOPPED"}
    /\ misplaced \in {"none", "FAILED", "TIMED_OUT"}
    /\ heard \in BOOLEAN /\ intent \in BOOLEAN /\ term \in BOOLEAN /\ restartPanel \in BOOLEAN
    /\ basis \in [displays : BOOLEAN, hint : BOOLEAN]
    /\ late \in [Reasons -> 0..1]
    /\ born \in Nat

\* The place goes with the planned action.
Located ==
    /\ pc \in BoundaryPlaces => cont \notin BoundaryPlaces \cup {"running", "over"}
    /\ pc = "running" => cont \in CommandPlaces
    /\ Site \in FluxboxPlaces => kind = "finalize" /\ step = 3
    /\ Site \in PanelPlaces => kind = "finalize" /\ step = 4 /\ restartPanel
    /\ Site \in AppletPlaces => kind = "finalize" /\ step = 6
    /\ Site = "command" /\ kind = "finalize" => step \notin {3, 4}
    /\ Site = "evidence" => kind = "apply"
    /\ Site = "next" => kind \in {"prepare", "finalize"}
    /\ outcome # "none" => pc = "over"

\* Beyond a boundary the last sample was good, and for a finalizer no event had
\* been counted when it ended.
Fresh ==
    /\ heard => fence # "admitted"
    /\ basis.hint => heard
    /\ pc \notin {"drm", "xrandr", "end", "over"} => basis.displays
    /\ pc \notin {"drm", "xrandr", "end", "fence", "over"} /\ kind = "finalize" => ~basis.hint

\* A command that began too late is followed by a boundary that does not hold.
Late ==
    /\ late["displays"] # 0 =>
           hw # "admitted" /\ pc \in {"running", "next", "evidence", "drm", "xrandr", "end", "over"}
    /\ late["hint"] # 0 =>
           heard /\ kind = "finalize" /\ pc \in {"running", "next", "drm", "xrandr", "end", "fence", "over"}
    /\ late["stop"] # 0 => Cancelled /\ pc \in {"running", "next", "drm", "over"}

\* The planned actions up to the present one have reached their goals; a misplaced
\* window is remembered, and so is a panel that did not appear.
Finished(i) == i < step \/ (i = step /\ Site = "next")

Goal(i) ==
    \/ Plan[kind][i] \in done
    \/ Plan[kind][i] = "applet" /\ "deferred" \in done
    \/ Plan[kind][i] = "layout" /\ misplaced # "none"

Progress ==
    /\ \A i \in 1..Len(Plan[kind]) : Finished(i) => Goal(i)
    /\ Site = "panelwait" => "fluxbox" \in done
    /\ Site = "evidence" => "load" \in done
    /\ kind = "finalize" /\ Finished(3) /\ ~restartPanel => "panel" \in done

\* A stop that was seen leads out of the plan.
Stopped ==
    "stop" \in done =>
        /\ Cancelled
        /\ kind # "probe" => outcome # "COMPLETED" /\ pc \in {"next", "drm", "over"}
        /\ kind # "probe" /\ pc = "next" => step # Len(Plan[kind])

\* Panels are numbered from 1; the newest is alive and the windows are a live one's.
Panels ==
    /\ born \in live /\ live \subseteq 1..born
    /\ owner # 0 => owner \in live

\* No panel that ran at the restart can be taken for its replacement.
Replaced ==
    /\ Site = "restart" /\ pc # "running" => live \subseteq excluded \cup respawned
    /\ (Site = "restart" /\ pc = "running") \/ Site \in {"restarted", "ready", "unready"} =>
           before \subseteq excluded \cup respawned
    /\ 0 \notin before
    /\ accepted # 0 => pc = "over" \/ Finished(4)
    /\ accepted \in before => accepted \in respawned

\* The tray is the newest panel's, or the session replaced that panel by itself.
Settled == born \in respawned \/ (live = {born} /\ wrapper = born)

Tray ==
    /\ ~restartPanel \/ step < 4 => Settled
    /\ Site \in {"item", "current", "reprove"} => Settled
    /\ Site = "command" /\ kind = "finalize" /\ step = 6 => Settled
    /\ Site = "current" => applet = born \/ born \in respawned
    /\ kind = "finalize" /\ Finished(6) =>
           "deferred" \in done \/ applet = born \/ born \in respawned

WorkersInv ==
    /\ TypeOK /\ Located /\ Fresh /\ Late /\ Progress /\ Stopped /\ Panels /\ Replaced /\ Tray
    /\ CompletedIsWhole /\ AppletOnFinalTray

-----------------------------------------------------------------------------
(* It is inductive. *)

\* The plans, action by action.
LEMMA Plans ==
    /\ Len(Plan["probe"]) = 1 /\ Plan["probe"][1] = "activate"
    /\ Len(Plan["apply"]) = 1 /\ Plan["apply"][1] = "load"
    /\ Len(Plan["prepare"]) = 6
    /\ \A i \in 1..6 : Plan["prepare"][i] \notin {"fluxbox", "panel", "applet", "layout", "stop"}
    /\ Len(Plan["finalize"]) = 7
    /\ Plan["finalize"][1] = "configuration" /\ Plan["finalize"][2] = "keyboard"
    /\ Plan["finalize"][3] = "fluxbox" /\ Plan["finalize"][4] = "panel"
    /\ Plan["finalize"][5] = "layout" /\ Plan["finalize"][6] = "applet"
    /\ Plan["finalize"][7] = "diagnostics"
  BY DEF Plan

\* Four actions are treated apart, and only a finalizer has them; none is a stop.
LEMMA Procedures ==
    TypeOK =>
        /\ Action = "fluxbox" <=> kind = "finalize" /\ step = 3
        /\ Action = "panel" <=> kind = "finalize" /\ step = 4
        /\ Action = "layout" <=> kind = "finalize" /\ step = 5
        /\ Action = "applet" <=> kind = "finalize" /\ step = 6
        /\ Action # "stop"
<1> SUFFICES ASSUME TypeOK
             PROVE  /\ Action = "fluxbox" <=> kind = "finalize" /\ step = 3
                    /\ Action = "panel" <=> kind = "finalize" /\ step = 4
                    /\ Action = "layout" <=> kind = "finalize" /\ step = 5
                    /\ Action = "applet" <=> kind = "finalize" /\ step = 6
                    /\ Action # "stop"
  OBVIOUS
<1>1. CASE kind \in {"probe", "apply"}
  <2>1. step \in 1..1
    BY <1>1, Plans DEF TypeOK
  <2> QED
    BY <1>1, <2>1, Plans DEF Action
<1>2. CASE kind = "prepare"
  BY <1>2, Plans DEF TypeOK, Action
<1>3. CASE kind = "finalize"
  <2>1. step \in 1..7
    BY <1>3, Plans DEF TypeOK
  <2> QED
    BY <1>3, <2>1, Plans DEF Action
<1> QED
  BY <1>1, <1>2, <1>3 DEF TypeOK, WorkerKinds

\* Every plan has an end.
LEMMA PlanLength == TypeOK => Len(Plan[kind]) \in 1..7
  BY Plans DEF TypeOK, WorkerKinds

\* A boundary keeps the invariant.
LEMMA BoundariesKeep == WorkersInv /\ Boundaries => WorkersInv'
<1> SUFFICES ASSUME WorkersInv, Boundaries
             PROVE  WorkersInv'
  OBVIOUS
<1> USE Plans DEF WorkersInv, TypeOK, Located, Site, Places, BoundaryPlaces, CommandPlaces,
    OtherPlaces, FluxboxPlaces, PanelPlaces, AppletPlaces, WorkerKinds, Results, Cancelled,
    Stop, Go, Report, UnlessCancelled, Boundary, Quiet, displays, authority, panel,
    position, memory, history
<1>1. CASE RefuseRecords
  BY <1>1, SMTT(30) DEF RefuseRecords, Refusal, Fresh, Late, Reasons, Progress, Finished,
    Goal, Stopped, CompletedIsWhole, Panels, Replaced, Tray, Settled, AppletOnFinalTray
<1>2. CASE RefusePlan
  BY <1>2, SMTT(30) DEF RefusePlan, Refusal, Fresh, Late, Reasons, Progress, Finished, Goal,
    Stopped, CompletedIsWhole, Panels, Replaced, Tray, Settled, AppletOnFinalTray
<1>3. CASE RefusePrepared
  BY <1>3, SMTT(30) DEF RefusePrepared, Refusal, Fresh, Late, Reasons, Progress, Finished,
    Goal, Stopped, CompletedIsWhole, Panels, Replaced, Tray, Settled, AppletOnFinalTray
<1>4. CASE RefuseProfile
  BY <1>4, SMTT(30) DEF RefuseProfile, Refusal, Fresh, Late, Reasons, Progress, Finished,
    Goal, Stopped, CompletedIsWhole, Panels, Replaced, Tray, Settled, AppletOnFinalTray
<1>5. CASE RefuseTarget
  BY <1>5, SMTT(30) DEF RefuseTarget, Refusal, Fresh, Late, Reasons, Progress, Finished,
    Goal, Stopped, CompletedIsWhole, Panels, Replaced, Tray, Settled, AppletOnFinalTray
<1>6. CASE RefuseEvidence
  BY <1>6, SMTT(30) DEF RefuseEvidence, Refusal, Fresh, Late, Reasons, Progress, Finished,
    Goal, Stopped, CompletedIsWhole, Panels, Replaced, Tray, Settled, AppletOnFinalTray
<1>7. CASE RefuseManager
  BY <1>7, SMTT(30) DEF RefuseManager, Refusal, Fresh, Late, Reasons, Progress, Finished,
    Goal, Stopped, CompletedIsWhole, Panels, Replaced, Tray, Settled, AppletOnFinalTray
<1>8. CASE SampleDrm
  <2>1. TypeOK'
    BY <1>8, SMTT(30) DEF SampleDrm
  <2>2. Located'
    BY <1>8, SMTT(30) DEF SampleDrm
  <2>3. Fresh' /\ Late'
    BY <1>8 DEF SampleDrm, Fresh, Late, Reasons
  <2>4. Progress'
    BY <1>8, SMTT(30) DEF SampleDrm, Progress, Finished, Goal
  <2>5. CompletedIsWhole'
    BY <1>8 DEF SampleDrm, Progress, Finished, Goal, CompletedIsWhole
  <2>6. Stopped'
    BY <1>8 DEF SampleDrm, Stopped
  <2>7. Panels' /\ Replaced'
    BY <1>8, SMTT(30) DEF SampleDrm, Panels, Replaced, Finished
  <2>8. Tray' /\ AppletOnFinalTray'
    BY <1>8 DEF SampleDrm, Panels, Tray, Settled, Finished, AppletOnFinalTray
  <2> QED
    BY <2>1, <2>2, <2>3, <2>4, <2>5, <2>6, <2>7, <2>8
<1>9. CASE SampleX
  BY <1>9 DEF SampleX, Fresh, Late, Reasons, Progress, Finished, Goal, Stopped,
    CompletedIsWhole, Panels, Replaced, Tray, Settled, AppletOnFinalTray
<1>10. CASE EndSample
  <2>1. TypeOK'
    <3>1. pc' \in {"fence", "over", cont} /\ cont' = cont /\ outcome' \in {outcome, "FAILED"}
      BY <1>10 DEF EndSample, AfterSample
    <3>2. basis' \in [displays : BOOLEAN, hint : BOOLEAN]
      BY <1>10 DEF EndSample
    <3>3. UNCHANGED <<kind, step, heard, intent, term, restartPanel, misplaced, late, born>>
      BY <1>10 DEF EndSample
    <3> QED
      BY <3>1, <3>2, <3>3
  <2>2. Located'
    <3>1. UNCHANGED <<kind, step, cont, restartPanel>> /\ (outcome' = outcome \/ pc' = "over")
      BY <1>10 DEF EndSample
    <3>2. pc' \in {"fence", "over", cont}
      BY <1>10 DEF EndSample, AfterSample
    <3>3. Site' \in {Site, "over"}
      BY <1>10, <3>1, <3>2 DEF EndSample
    <3> QED
      BY <1>10, <3>1, <3>2, <3>3 DEF EndSample
  <2>3. Fresh' /\ Late'
    BY <1>10 DEF EndSample, IdentityHolds, SampleHolds, AfterSample, Fresh, Late, Reasons
  <2>4. Progress'
    <3>1. Site' \in {Site, "over"} /\ UNCHANGED <<kind, step, done, misplaced, restartPanel>>
      BY <1>10 DEF EndSample, AfterSample
    <3> QED
      BY <3>1 DEF Progress, Finished, Goal
  <2>5. CompletedIsWhole'
    BY <1>10 DEF EndSample, IdentityHolds, SampleHolds, AfterSample, Progress, Finished,
      Goal, CompletedIsWhole
  <2>6. Stopped'
    BY <1>10 DEF EndSample, IdentityHolds, SampleHolds, AfterSample, Stopped
  <2>7. Panels' /\ Replaced'
    BY <1>10, SMTT(30) DEF EndSample, IdentityHolds, SampleHolds, AfterSample, Panels,
      Replaced, Finished
  <2>8. Tray' /\ AppletOnFinalTray'
    BY <1>10, ZenonT(60) DEF EndSample, IdentityHolds, SampleHolds, AfterSample, Panels,
      Tray, Settled, Finished, AppletOnFinalTray
  <2> QED
    BY <2>1, <2>2, <2>3, <2>4, <2>5, <2>6, <2>7, <2>8
<1>11. CASE ReadFence
  <2>1. TypeOK'
    BY <1>11 DEF ReadFence
  <2>2. Located'
    BY <1>11, SMTT(30) DEF ReadFence
  <2>3. Fresh' /\ Late'
    BY <1>11 DEF ReadFence, Fresh, Late, Reasons
  <2>4. Progress'
    <3>1. Site' \in {Site, "over"} /\ UNCHANGED <<kind, step, done, misplaced, restartPanel>>
      BY <1>11 DEF ReadFence
    <3> QED
      BY <3>1 DEF Progress, Finished, Goal
  <2>5. CompletedIsWhole'
    BY <1>11 DEF ReadFence, Progress, Finished, Goal, CompletedIsWhole
  <2>6. Stopped'
    BY <1>11 DEF ReadFence, Stopped
  <2>7. Panels' /\ Replaced'
    BY <1>11, ZenonT(60) DEF ReadFence, Panels, Replaced, Finished
  <2>8. Tray' /\ AppletOnFinalTray'
    BY <1>11, ZenonT(60) DEF ReadFence, Panels, Tray, Settled, Finished, AppletOnFinalTray
  <2> QED
    BY <2>1, <2>2, <2>3, <2>4, <2>5, <2>6, <2>7, <2>8
<1>12. CASE AssertNoOtherMutator
  <2>1. TypeOK'
    BY <1>12, SMTT(30) DEF AssertNoOtherMutator
  <2>2. Located'
    BY <1>12, SMTT(30) DEF AssertNoOtherMutator
  <2>3. Fresh' /\ Late'
    BY <1>12 DEF AssertNoOtherMutator, Fresh, Late, Reasons
  <2>4. Progress'
    <3>1. Site' \in {Site, "over"} /\ UNCHANGED <<kind, step, done, misplaced, restartPanel>>
      BY <1>12 DEF AssertNoOtherMutator
    <3> QED
      BY <3>1 DEF Progress, Finished, Goal
  <2>5. CompletedIsWhole'
    BY <1>12 DEF AssertNoOtherMutator, Progress, Finished, Goal, CompletedIsWhole
  <2>6. Stopped'
    BY <1>12 DEF AssertNoOtherMutator, Stopped
  <2>7. Panels' /\ Replaced'
    BY <1>12, SMTT(30) DEF AssertNoOtherMutator, Panels, Replaced, Finished
  <2>8. Tray' /\ AppletOnFinalTray'
    BY <1>12, SMTT(30) DEF AssertNoOtherMutator, Panels, Tray, Settled, Finished,
      AppletOnFinalTray
  <2> QED
    BY <2>1, <2>2, <2>3, <2>4, <2>5, <2>6, <2>7, <2>8
<1> HIDE DEF WorkersInv
<1> QED
  BY <1>1, <1>2, <1>3, <1>4, <1>5, <1>6, <1>7, <1>8, <1>9, <1>10, <1>11, <1>12 DEF
    Boundaries

\* So does a command,
LEMMA CommandsKeep == WorkersInv /\ Commands => WorkersInv'
<1> SUFFICES ASSUME WorkersInv, Commands
             PROVE  WorkersInv'
  OBVIOUS
<1> USE Plans DEF WorkersInv, TypeOK, Located, Site, Places, BoundaryPlaces, CommandPlaces,
    OtherPlaces, FluxboxPlaces, PanelPlaces, AppletPlaces, WorkerKinds, Results, Cancelled,
    Stop, Go, Report, UnlessCancelled, Boundary, Quiet, displays, authority, panel,
    position, memory, history
<1>1. CASE Dispatch
  <2>1. TypeOK'
    <3>1. /\ pc' \in {"over", "health", "pids", "next", "tray", "item", "command"}
          /\ cont' = cont /\ outcome' \in {outcome, "STOPPED", "none"}
      BY <1>1 DEF Dispatch, AppletPlace
    <3> QED
      BY <1>1, <3>1 DEF Dispatch
  <2>2. Located'
    BY <1>1, Procedures DEF Dispatch, AppletPlace
  <2>3. Fresh' /\ Late'
    BY <1>1, Procedures DEF Dispatch, AppletPlace, Fresh, Late, Reasons
  <2>4. Progress'
    <3>1. CASE pc' = "next"
      <4>1. kind = "finalize" /\ step = 4 /\ ~restartPanel
        BY <1>1, <3>1, Procedures DEF Dispatch, AppletPlace
      <4>2. "panel" \in done
        BY <4>1 DEF Progress, Finished
      <4> QED
        BY <1>1, <3>1, <4>1, <4>2 DEF Dispatch, Progress, Finished, Goal
    <3>2. CASE pc' # "next"
      <4>1. Site' \notin {"next", "panelwait", "evidence"}
        BY <1>1, <3>2 DEF Dispatch, AppletPlace
      <4> QED
        BY <1>1, <4>1 DEF Dispatch, Progress, Finished, Goal
    <3> QED
      BY <3>1, <3>2
  <2>5. CompletedIsWhole'
    BY <1>1 DEF Dispatch, Action, AppletPlace, Progress, Finished, Goal, CompletedIsWhole
  <2>6. Stopped'
    BY <1>1, Procedures DEF Dispatch, AppletPlace, Stopped
  <2>7. Panels' /\ Replaced'
    BY <1>1, Procedures, ZenonT(60) DEF Dispatch, AppletPlace, Panels, Replaced, Finished
  <2>8. Tray' /\ AppletOnFinalTray'
    BY <1>1, Procedures, SMTT(30) DEF Dispatch, AppletPlace, Panels, Tray, Settled,
      Finished, AppletOnFinalTray
  <2> QED
    BY <2>1, <2>2, <2>3, <2>4, <2>5, <2>6, <2>7, <2>8
<1>2. CASE BeginCommand
  <2>1. TypeOK'
    BY <1>2, SMTT(30) DEF BeginCommand, Due, Late, Reasons
  <2>2. Located'
    BY <1>2, SMTT(30) DEF BeginCommand, Due
  <2>3. Fresh' /\ Late'
    BY <1>2 DEF BeginCommand, Due, Fresh, Late, Reasons
  <2>4. Progress'
    BY <1>2 DEF BeginCommand, Due, Progress, Finished, Goal
  <2>5. CompletedIsWhole'
    BY <1>2 DEF BeginCommand, Due, Progress, Finished, Goal, CompletedIsWhole
  <2>6. Stopped'
    BY <1>2 DEF BeginCommand, Due, Stopped
  <2>7. Panels' /\ Replaced'
    BY <1>2, SMTT(30) DEF BeginCommand, Due, Panels, Replaced, Finished
  <2>8. Tray' /\ AppletOnFinalTray'
    BY <1>2 DEF BeginCommand, Due, Panels, Tray, Settled, Finished, AppletOnFinalTray
  <2> QED
    BY <2>1, <2>2, <2>3, <2>4, <2>5, <2>6, <2>7, <2>8
<1>3. CASE Advance
  <2>1. TypeOK'
    <3>1. step' \in 1..Len(Plan[kind])
      BY <1>3, PlanLength DEF Advance
    <3>2. outcome' \in Results \cup {"none", "STOPPED"}
      BY <1>3 DEF Advance, Outcome
    <3> QED
      BY <1>3, <3>1, <3>2 DEF Advance
  <2>2. Located'
    BY <1>3, ZenonT(60) DEF Advance, Outcome
  <2>3. Fresh' /\ Late'
    BY <1>3 DEF Advance, Outcome, Fresh, Late, Reasons
  <2>4. Progress'
    BY <1>3, SMTT(30) DEF Advance, Outcome, Progress, Finished, Goal
  <2>5. CompletedIsWhole'
    <3>1. CASE step = Len(Plan[kind])
      <4>1. \A i \in 1..Len(Plan[kind]) : Goal(i)
        BY <1>3, <3>1, PlanLength DEF Advance, Progress, Finished
      <4>2. outcome' = Outcome /\ UNCHANGED <<kind, done>>
        BY <1>3, <3>1 DEF Advance
      <4>3. outcome' = "COMPLETED" => misplaced = "none"
        BY <4>2 DEF Outcome
      <4> QED
        BY <4>1, <4>2, <4>3 DEF CompletedIsWhole, Goal
    <3>2. CASE step # Len(Plan[kind])
      BY <1>3, <3>2 DEF Advance, CompletedIsWhole
    <3> QED
      BY <3>1, <3>2
  <2>6. Stopped'
    BY <1>3 DEF Advance, Outcome, Stopped
  <2>7. Panels' /\ Replaced'
    <3>1. pc' = "over" \/ (Finished(4) => Finished(4)')
      BY <1>3 DEF Advance, Finished
    <3>2. Site' \in {"over", "dispatch"} /\ UNCHANGED <<panel, excluded, before, accepted>>
      BY <1>3 DEF Advance
    <3> QED
      BY <1>3, <3>1, <3>2 DEF Advance, Panels, Replaced
  <2>8. Tray' /\ AppletOnFinalTray'
    <3>1. Finished(6)' => Finished(6)
      BY <1>3 DEF Advance, Finished
    <3>2. kind = "finalize" /\ outcome' = "COMPLETED" => Finished(6)
      BY <1>3 DEF Advance, Finished
    <3>3. step' < 4 => step < 4
      BY <1>3 DEF Advance
    <3>4. Site' \in {"over", "dispatch"} /\ UNCHANGED <<panel, restartPanel, kind, done>>
      BY <1>3 DEF Advance
    <3> QED
      BY <3>1, <3>2, <3>3, <3>4 DEF Tray, Settled, AppletOnFinalTray
  <2> QED
    BY <2>1, <2>2, <2>3, <2>4, <2>5, <2>6, <2>7, <2>8
<1>4. CASE EndActivate
  BY <1>4, SMTT(30) DEF EndActivate, Action, Running, Reached, Fresh, Late, Reasons,
    Progress, Finished, Goal, Stopped, CompletedIsWhole, Panels, Replaced, Tray, Settled,
    AppletOnFinalTray
<1>5. CASE EndLoad
  BY <1>5, SMTT(30) DEF EndLoad, Action, Running, Reached, Fresh, Late, Reasons, Progress,
    Finished, Goal, Stopped, CompletedIsWhole, Panels, Replaced, Tray, Settled,
    AppletOnFinalTray
<1>6. CASE ReadEvidence
  BY <1>6 DEF ReadEvidence, Fresh, Late, Reasons, Progress, Finished, Goal, Stopped,
    CompletedIsWhole, Panels, Replaced, Tray, Settled, AppletOnFinalTray
<1>7. CASE EndPrepareCommand
  <2>1. TypeOK'
    BY <1>7, Procedures DEF EndPrepareCommand, Running, Reached
  <2>2. Located'
    BY <1>7, Procedures, ZenonT(60) DEF EndPrepareCommand, Running, Reached
  <2>3. Fresh' /\ Late'
    BY <1>7, Procedures DEF EndPrepareCommand, Running, Reached, Fresh, Late, Reasons
  <2>4. Progress'
    BY <1>7, SMTT(30) DEF EndPrepareCommand, Action, Running, Reached, Progress, Finished,
      Goal
  <2>5. CompletedIsWhole'
    BY <1>7 DEF EndPrepareCommand, Action, Running, Reached, Progress, Finished, Goal,
      CompletedIsWhole
  <2>6. Stopped'
    <3>1. CASE Cancelled
      <4>1. pc' = "over" /\ outcome' # "COMPLETED"
        BY <1>7, <3>1 DEF EndPrepareCommand, Running
      <4> QED
        BY <1>7, <3>1, <4>1 DEF EndPrepareCommand, Stopped
    <3>2. CASE ~Cancelled
      <4>1. "stop" \notin done
        BY <3>2 DEF Stopped
      <4>2. "stop" \notin done'
        BY <1>7, <3>2, <4>1, Procedures DEF EndPrepareCommand, Reached
      <4> QED
        BY <4>2 DEF Stopped
    <3> QED
      BY <3>1, <3>2
  <2>7. Panels' /\ Replaced'
    BY <1>7, Procedures, ZenonT(60) DEF EndPrepareCommand, Running, Reached, Panels,
      Replaced, Finished
  <2>8. Tray' /\ AppletOnFinalTray'
    BY <1>7, Procedures DEF EndPrepareCommand, Running, Reached, Panels, Tray, Settled,
      Finished, AppletOnFinalTray
  <2> QED
    BY <2>1, <2>2, <2>3, <2>4, <2>5, <2>6, <2>7, <2>8
<1>8. CASE EndEmacsReload
  <2>1. TypeOK'
    BY <1>8, Procedures DEF EndEmacsReload, Running, Reached
  <2>2. Located'
    BY <1>8, Procedures DEF EndEmacsReload, Running, Reached
  <2>3. Fresh' /\ Late'
    BY <1>8, Procedures DEF EndEmacsReload, Running, Reached, Fresh, Late, Reasons
  <2>4. Progress'
    BY <1>8, SMTT(30) DEF EndEmacsReload, Action, Running, Reached, Progress, Finished, Goal
  <2>5. CompletedIsWhole'
    BY <1>8 DEF EndEmacsReload, Action, Running, Reached, Progress, Finished, Goal,
      CompletedIsWhole
  <2>6. Stopped'
    BY <1>8, Procedures DEF EndEmacsReload, Running, Reached, Stopped
  <2>7. Panels' /\ Replaced'
    BY <1>8, Procedures DEF EndEmacsReload, Running, Reached, Panels, Replaced, Finished
  <2>8. Tray' /\ AppletOnFinalTray'
    BY <1>8, Procedures DEF EndEmacsReload, Running, Reached, Panels, Tray, Settled,
      Finished, AppletOnFinalTray
  <2> QED
    BY <2>1, <2>2, <2>3, <2>4, <2>5, <2>6, <2>7, <2>8
<1>9. CASE RefuseLeaf
  BY <1>9 DEF RefuseLeaf, Action, Running, Fresh, Late, Reasons, Progress, Finished, Goal,
    Stopped, CompletedIsWhole, Panels, Replaced, Tray, Settled, AppletOnFinalTray
<1>10. CASE EndFinalizeCommand
  <2>1. TypeOK'
    BY <1>10, Procedures DEF EndFinalizeCommand, Running, Reached
  <2>2. Located'
    BY <1>10, Procedures, ZenonT(60) DEF EndFinalizeCommand, Running, Reached
  <2>3. Fresh' /\ Late'
    BY <1>10, Procedures DEF EndFinalizeCommand, Running, Reached, Fresh, Late, Reasons
  <2>4. Progress'
    <3>1. /\ kind = "finalize" /\ step \notin {3, 4} /\ pc' \in {"next", "over"}
          /\ UNCHANGED <<kind, step, restartPanel>> /\ done \subseteq done'
      BY <1>10 DEF EndFinalizeCommand, Running, Reached
    <3>2. misplaced # "none" => misplaced' # "none"
      BY <1>10 DEF EndFinalizeCommand
    <3>3. pc' = "next" => Action \in done' \/ (Action = "layout" /\ misplaced' # "none")
      BY <1>10 DEF EndFinalizeCommand, Reached
    <3>4. \A i \in 1..Len(Plan[kind]) : i < step => Goal(i)'
      BY <3>1, <3>2 DEF Progress, Finished, Goal
    <3>5. pc' = "next" => Goal(step)'
      BY <3>1, <3>3 DEF Goal, Action
    <3>6. \A i \in 1..Len(Plan[kind]) : Finished(i)' => Goal(i)'
      BY <3>1, <3>4, <3>5 DEF Finished
    <3>7. Site' \in {"next", "over"} /\ (Finished(3)' => Finished(3))
      BY <3>1 DEF Finished
    <3> QED
      BY <3>1, <3>6, <3>7 DEF Progress
  <2>5. CompletedIsWhole'
    BY <1>10 DEF EndFinalizeCommand, Action, Running, Reached, Progress, Finished, Goal,
      CompletedIsWhole
  <2>6. Stopped'
    <3>1. CASE Cancelled
      <4>1. pc' = "over" /\ outcome' # "COMPLETED"
        BY <1>10, <3>1 DEF EndFinalizeCommand, Running
      <4> QED
        BY <1>10, <3>1, <4>1 DEF EndFinalizeCommand, Stopped
    <3>2. CASE ~Cancelled
      <4>1. "stop" \notin done
        BY <3>2 DEF Stopped
      <4>2. "stop" \notin done'
        BY <1>10, <3>2, <4>1, Procedures DEF EndFinalizeCommand, Reached
      <4> QED
        BY <4>2 DEF Stopped
    <3> QED
      BY <3>1, <3>2
  <2>7. Panels' /\ Replaced'
    BY <1>10, Procedures DEF EndFinalizeCommand, Running, Reached, Panels, Replaced,
      Finished
  <2>8. Tray' /\ AppletOnFinalTray'
    BY <1>10, Procedures, SMTT(30) DEF EndFinalizeCommand, Running, Reached, Panels, Tray,
      Settled, Finished, AppletOnFinalTray
  <2> QED
    BY <2>1, <2>2, <2>3, <2>4, <2>5, <2>6, <2>7, <2>8
<1> HIDE DEF WorkersInv
<1> QED
  BY <1>1, <1>2, <1>3, <1>4, <1>5, <1>6, <1>7, <1>8, <1>9, <1>10 DEF Commands

\* the restart of Fluxbox and the panel,
LEMMA FluxboxKeeps == WorkersInv /\ Fluxbox => WorkersInv'
<1> SUFFICES ASSUME WorkersInv, Fluxbox
             PROVE  WorkersInv'
  OBVIOUS
<1> USE Plans DEF WorkersInv, TypeOK, Located, Site, Places, BoundaryPlaces, CommandPlaces,
    OtherPlaces, FluxboxPlaces, PanelPlaces, AppletPlaces, WorkerKinds, Results, Cancelled,
    Stop, Go, Report, UnlessCancelled, Boundary, Quiet, displays, authority, panel,
    position, memory, history
<1>1. CASE CheckPanel
  <2>1. TypeOK'
    BY <1>1 DEF CheckPanel, Mapped
  <2>2. Located'
    BY <1>1, ZenonT(60) DEF CheckPanel, Mapped
  <2>3. Fresh' /\ Late'
    BY <1>1 DEF CheckPanel, Mapped, Fresh, Late, Reasons
  <2>4. Progress'
    BY <1>1, ZenonT(60) DEF CheckPanel, Mapped, Progress, Finished, Goal
  <2>5. CompletedIsWhole'
    BY <1>1 DEF CheckPanel, Mapped, Progress, Finished, Goal, CompletedIsWhole
  <2>6. Stopped'
    BY <1>1 DEF CheckPanel, Mapped, Stopped
  <2>7. Panels' /\ Replaced'
    BY <1>1 DEF CheckPanel, Mapped, Panels, Replaced, Finished
  <2>8. Tray' /\ AppletOnFinalTray'
    BY <1>1 DEF CheckPanel, Mapped, Panels, Tray, Settled, Finished, AppletOnFinalTray
  <2> QED
    BY <2>1, <2>2, <2>3, <2>4, <2>5, <2>6, <2>7, <2>8
<1>2. CASE EndInPlace
  <2>1. TypeOK'
    BY <1>2 DEF EndInPlace, Running, Reached, AfterInPlace
  <2>2. Located'
    BY <1>2, ZenonT(60) DEF EndInPlace, Running, Reached, AfterInPlace
  <2>3. Fresh' /\ Late'
    BY <1>2 DEF EndInPlace, Running, Reached, AfterInPlace, Fresh, Late, Reasons
  <2>4. Progress'
    BY <1>2, SMTT(30) DEF EndInPlace, Running, Reached, AfterInPlace, Progress, Finished,
      Goal
  <2>5. CompletedIsWhole'
    BY <1>2 DEF EndInPlace, Running, Reached, AfterInPlace, Progress, Finished, Goal,
      CompletedIsWhole
  <2>6. Stopped'
    BY <1>2 DEF EndInPlace, Running, Reached, AfterInPlace, Stopped
  <2>7. Panels' /\ Replaced'
    BY <1>2 DEF EndInPlace, Running, Reached, AfterInPlace, Panels, Replaced, Finished
  <2>8. Tray' /\ AppletOnFinalTray'
    BY <1>2, SMTT(30) DEF EndInPlace, Running, Reached, AfterInPlace, Panels, Tray, Settled,
      Finished, AppletOnFinalTray
  <2> QED
    BY <2>1, <2>2, <2>3, <2>4, <2>5, <2>6, <2>7, <2>8
<1>3. CASE EndFull
  <2>1. TypeOK'
    BY <1>3 DEF EndFull, Running, Reached
  <2>2. Located'
    BY <1>3, ZenonT(60) DEF EndFull, Running, Reached
  <2>3. Fresh' /\ Late'
    BY <1>3 DEF EndFull, Running, Reached, Fresh, Late, Reasons
  <2>4. Progress'
    BY <1>3, SMTT(30) DEF EndFull, Running, Reached, Progress, Finished, Goal
  <2>5. CompletedIsWhole'
    BY <1>3 DEF EndFull, Running, Reached, Progress, Finished, Goal, CompletedIsWhole
  <2>6. Stopped'
    BY <1>3 DEF EndFull, Running, Reached, Stopped
  <2>7. Panels' /\ Replaced'
    BY <1>3 DEF EndFull, Running, Reached, Panels, Replaced, Finished
  <2>8. Tray' /\ AppletOnFinalTray'
    BY <1>3 DEF EndFull, Running, Reached, Panels, Tray, Settled, Finished,
      AppletOnFinalTray
  <2> QED
    BY <2>1, <2>2, <2>3, <2>4, <2>5, <2>6, <2>7, <2>8
<1>4. CASE RecoveryFailed
  BY <1>4, SMTT(30) DEF RecoveryFailed, Fresh, Late, Reasons, Progress, Finished, Goal,
    Stopped, CompletedIsWhole, Panels, Replaced, Tray, Settled, AppletOnFinalTray
<1>5. CASE WaitForPanel
  <2>1. TypeOK'
    <3>1. pc' \in {"drm", "over"} /\ cont' \in {cont, "next"}
      BY <1>5 DEF WaitForPanel
    <3>2. outcome' \in {outcome, "STOPPED", "none"}
      BY <1>5 DEF WaitForPanel
    <3>3. restartPanel' \in BOOLEAN
      BY <1>5, Zenon DEF WaitForPanel
    <3> QED
      BY <1>5, <3>1, <3>2, <3>3 DEF WaitForPanel
  <2>2. Located'
    BY <1>5, ZenonT(60) DEF WaitForPanel, Reached, Mapped, ExactPanel
  <2>3. Fresh' /\ Late'
    BY <1>5 DEF WaitForPanel, Reached, Mapped, ExactPanel, Fresh, Late, Reasons
  <2>4. Progress'
    <3>1. kind = "finalize" /\ step = 3 /\ "fluxbox" \in done /\ done \subseteq done'
      BY <1>5 DEF WaitForPanel, Reached, Progress
    <3>2. UNCHANGED <<kind, step, misplaced>> /\ Site' \in {"over", "next"}
      BY <1>5 DEF WaitForPanel
    <3>3. restartPanel' \/ "panel" \in done'
      BY <1>5 DEF WaitForPanel, Reached
    <3>4. \A i \in 1..Len(Plan[kind]) : Finished(i)' => Goal(i)'
      BY <3>1, <3>2 DEF Progress, Finished, Goal
    <3> QED
      BY <3>1, <3>2, <3>3, <3>4 DEF Progress, Finished
  <2>5. CompletedIsWhole'
    BY <1>5 DEF WaitForPanel, Reached, Mapped, ExactPanel, Progress, Finished, Goal,
      CompletedIsWhole
  <2>6. Stopped'
    BY <1>5 DEF WaitForPanel, Reached, Mapped, ExactPanel, Stopped
  <2>7. Panels' /\ Replaced'
    BY <1>5 DEF WaitForPanel, Reached, Mapped, ExactPanel, Panels, Replaced, Finished
  <2>8. Tray' /\ AppletOnFinalTray'
    <3>1. kind = "finalize" /\ step = 3
      BY <1>5 DEF WaitForPanel
    <3>2. UNCHANGED <<kind, step, panel>> /\ Site' \in {"over", "next"}
      BY <1>5 DEF WaitForPanel
    <3>3. outcome' # "COMPLETED"
      BY <1>5 DEF WaitForPanel
    <3> QED
      BY <3>1, <3>2, <3>3 DEF Tray, Settled, Finished, AppletOnFinalTray
  <2> QED
    BY <2>1, <2>2, <2>3, <2>4, <2>5, <2>6, <2>7, <2>8
<1>6. CASE ListPanels
  <2>1. TypeOK'
    <3>1. pc' \in {"drm", "over"} /\ cont' \in {cont, "restart"}
      BY <1>6 DEF ListPanels
    <3>2. outcome' \in {outcome, "STOPPED", "none", "FAILED"}
      BY <1>6 DEF ListPanels
    <3>3. UNCHANGED <<kind, step, heard, intent, term, restartPanel, misplaced, basis, late, born>>
      BY <1>6 DEF ListPanels
    <3> QED
      BY <3>1, <3>2, <3>3
  <2>2. Located'
    BY <1>6, ZenonT(60) DEF ListPanels
  <2>3. Fresh' /\ Late'
    BY <1>6 DEF ListPanels, Fresh, Late, Reasons
  <2>4. Progress'
    BY <1>6, ZenonT(60) DEF ListPanels, Progress, Finished, Goal
  <2>5. CompletedIsWhole'
    BY <1>6 DEF ListPanels, Progress, Finished, Goal, CompletedIsWhole
  <2>6. Stopped'
    BY <1>6 DEF ListPanels, Stopped
  <2>7. Panels' /\ Replaced'
    BY <1>6, ZenonT(60) DEF ListPanels, Panels, Replaced, Finished
  <2>8. Tray' /\ AppletOnFinalTray'
    BY <1>6, ZenonT(60) DEF ListPanels, Panels, Tray, Settled, Finished, AppletOnFinalTray
  <2> QED
    BY <2>1, <2>2, <2>3, <2>4, <2>5, <2>6, <2>7, <2>8
<1>7. CASE EndRestart
  <2>1. TypeOK'
    BY <1>7, SMTT(30) DEF EndRestart, Running
  <2>2. Located'
    BY <1>7, ZenonT(60) DEF EndRestart, Running
  <2>3. Fresh' /\ Late'
    BY <1>7 DEF EndRestart, Running, Fresh, Late, Reasons
  <2>4. Progress'
    BY <1>7, ZenonT(60) DEF EndRestart, Running, Progress, Finished, Goal
  <2>5. CompletedIsWhole'
    BY <1>7 DEF EndRestart, Running, Progress, Finished, Goal, CompletedIsWhole
  <2>6. Stopped'
    BY <1>7 DEF EndRestart, Running, Stopped
  <2>7. Panels' /\ Replaced'
    <3>1. Panels'
      <4>1. CASE UNCHANGED <<born, live>>
        BY <1>7, <4>1 DEF EndRestart, Panels
      <4>2. CASE born' = born + 1 /\ live' = live \cup {born + 1}
        <5>1. owner' = owner /\ \A p \in live' : p \in 1..(born + 1)
          BY <1>7, <4>2 DEF EndRestart, Panels
        <5> QED
          BY <4>2, <5>1 DEF Panels
      <4> QED
        BY <1>7, <4>1, <4>2 DEF EndRestart
    <3>2. Site = "restart" /\ pc = "running" /\ Site' \in {"over", "ready", "restarted"}
      BY <1>7 DEF EndRestart, Running
    <3>3. UNCHANGED <<kind, step, respawned, excluded, before, accepted>>
      BY <1>7 DEF EndRestart
    <3>4. accepted # 0 => Finished(4)
      BY <3>2 DEF Replaced
    <3>5. accepted = 0
      BY <3>2, <3>4 DEF Finished
    <3> QED
      BY <3>1, <3>2, <3>3, <3>5 DEF Replaced
  <2>8. Tray' /\ AppletOnFinalTray'
    BY <1>7, SMTT(30) DEF EndRestart, Running, Panels, Tray, Settled, Finished,
      AppletOnFinalTray
  <2> QED
    BY <2>1, <2>2, <2>3, <2>4, <2>5, <2>6, <2>7, <2>8
<1>8. CASE RestartFailed
  BY <1>8, SMTT(30) DEF RestartFailed, Fresh, Late, Reasons, Progress, Finished, Goal,
    Stopped, CompletedIsWhole, Panels, Replaced, Tray, Settled, AppletOnFinalTray
<1>9. CASE WaitForReplacement
  <2>1. TypeOK'
    <3>1. pc' \in {"drm", "over"} /\ cont' \in {cont, "next", "unready"}
      BY <1>9 DEF WaitForReplacement
    <3>2. outcome' \in {outcome, "STOPPED", "none"}
      BY <1>9 DEF WaitForReplacement
    <3>3. UNCHANGED <<kind, step, heard, intent, term, restartPanel, misplaced, basis, late, born>>
      BY <1>9 DEF WaitForReplacement
    <3> QED
      BY <3>1, <3>2, <3>3
  <2>2. Located'
    BY <1>9, ZenonT(60) DEF WaitForReplacement, Reached, ExactPanel
  <2>3. Fresh' /\ Late'
    BY <1>9 DEF WaitForReplacement, Reached, ExactPanel, Fresh, Late, Reasons
  <2>4. Progress'
    BY <1>9, SMTT(30) DEF WaitForReplacement, Reached, ExactPanel, Progress, Finished, Goal
  <2>5. CompletedIsWhole'
    BY <1>9 DEF WaitForReplacement, Reached, ExactPanel, Progress, Finished, Goal,
      CompletedIsWhole
  <2>6. Stopped'
    BY <1>9 DEF WaitForReplacement, Reached, ExactPanel, Stopped
  <2>7. Panels' /\ Replaced'
    BY <1>9 DEF WaitForReplacement, Reached, ExactPanel, Panels, Replaced, Finished
  <2>8. Tray' /\ AppletOnFinalTray'
    BY <1>9, SMTT(30) DEF WaitForReplacement, Reached, ExactPanel, Panels, Tray, Settled,
      Finished, AppletOnFinalTray
  <2> QED
    BY <2>1, <2>2, <2>3, <2>4, <2>5, <2>6, <2>7, <2>8
<1>10. CASE ReplacementFailed
  BY <1>10 DEF ReplacementFailed, Fresh, Late, Reasons, Progress, Finished, Goal, Stopped,
    CompletedIsWhole, Panels, Replaced, Tray, Settled, AppletOnFinalTray
<1> HIDE DEF WorkersInv
<1> QED
  BY <1>1, <1>2, <1>3, <1>4, <1>5, <1>6, <1>7, <1>8, <1>9, <1>10 DEF Fluxbox

\* the restoration of nm-applet,
LEMMA AppletKeeps == WorkersInv /\ Applet => WorkersInv'
<1> SUFFICES ASSUME WorkersInv, Applet
             PROVE  WorkersInv'
  OBVIOUS
<1> USE Plans DEF WorkersInv, TypeOK, Located, Site, Places, BoundaryPlaces, CommandPlaces,
    OtherPlaces, FluxboxPlaces, PanelPlaces, AppletPlaces, WorkerKinds, Results, Cancelled,
    Stop, Go, Report, UnlessCancelled, Boundary, Quiet, displays, authority, panel,
    position, memory, history
<1>1. CASE ProveTray
  <2>1. TypeOK'
    BY <1>1, SMTT(30) DEF ProveTray, StableTray
  <2>2. Located'
    BY <1>1, ZenonT(60) DEF ProveTray, StableTray
  <2>3. Fresh' /\ Late'
    BY <1>1 DEF ProveTray, StableTray, Fresh, Late, Reasons
  <2>4. Progress'
    BY <1>1 DEF ProveTray, StableTray, Progress, Finished, Goal
  <2>5. CompletedIsWhole'
    BY <1>1 DEF ProveTray, StableTray, Progress, Finished, Goal, CompletedIsWhole
  <2>6. Stopped'
    BY <1>1 DEF ProveTray, StableTray, Stopped
  <2>7. Panels' /\ Replaced'
    BY <1>1, ZenonT(60) DEF ProveTray, StableTray, Panels, Replaced, Finished
  <2>8. Tray' /\ AppletOnFinalTray'
    BY <1>1, SMTT(30) DEF ProveTray, StableTray, Panels, Tray, Settled, Finished,
      AppletOnFinalTray
  <2> QED
    BY <2>1, <2>2, <2>3, <2>4, <2>5, <2>6, <2>7, <2>8
<1>2. CASE JudgeItem
  <2>1. TypeOK'
    BY <1>2, SMTT(30) DEF JudgeItem
  <2>2. Located'
    BY <1>2, SMTT(30) DEF JudgeItem
  <2>3. Fresh' /\ Late'
    BY <1>2 DEF JudgeItem, Fresh, Late, Reasons
  <2>4. Progress'
    BY <1>2, SMTT(30) DEF JudgeItem, Progress, Finished, Goal
  <2>5. CompletedIsWhole'
    BY <1>2 DEF JudgeItem, Progress, Finished, Goal, CompletedIsWhole
  <2>6. Stopped'
    BY <1>2 DEF JudgeItem, Stopped
  <2>7. Panels' /\ Replaced'
    BY <1>2, ZenonT(60) DEF JudgeItem, Panels, Replaced, Finished
  <2>8. Tray' /\ AppletOnFinalTray'
    BY <1>2, ZenonT(60) DEF JudgeItem, Panels, Tray, Settled, Finished, AppletOnFinalTray
  <2> QED
    BY <2>1, <2>2, <2>3, <2>4, <2>5, <2>6, <2>7, <2>8
<1>3. CASE ItemCurrent
  <2>1. TypeOK'
    BY <1>3 DEF ItemCurrent, Reached
  <2>2. Located'
    BY <1>3 DEF ItemCurrent, Reached
  <2>3. Fresh' /\ Late'
    BY <1>3 DEF ItemCurrent, Reached, Fresh, Late, Reasons
  <2>4. Progress'
    BY <1>3, SMTT(30) DEF ItemCurrent, Reached, Progress, Finished, Goal
  <2>5. CompletedIsWhole'
    BY <1>3 DEF ItemCurrent, Reached, Progress, Finished, Goal, CompletedIsWhole
  <2>6. Stopped'
    <3>1. pc' = "next" /\ kind = "finalize" /\ step = 6 /\ outcome = "none"
      BY <1>3 DEF ItemCurrent
    <3>2. UNCHANGED <<kind, step, outcome, intent, term>> /\ step # Len(Plan[kind])
      BY <1>3, <3>1 DEF ItemCurrent
    <3>3. "stop" \in done' => Cancelled
      BY <1>3 DEF ItemCurrent, Reached, Stopped
    <3> QED
      BY <3>1, <3>2, <3>3 DEF Stopped
  <2>7. Panels' /\ Replaced'
    BY <1>3 DEF ItemCurrent, Reached, Panels, Replaced, Finished
  <2>8. Tray' /\ AppletOnFinalTray'
    BY <1>3 DEF ItemCurrent, Reached, Panels, Tray, Settled, Finished, AppletOnFinalTray
  <2> QED
    BY <2>1, <2>2, <2>3, <2>4, <2>5, <2>6, <2>7, <2>8
<1>4. CASE Reprove
  BY <1>4, SMTT(30) DEF Reprove, Fresh, Late, Reasons, Progress, Finished, Goal, Stopped,
    CompletedIsWhole, Panels, Replaced, Tray, Settled, AppletOnFinalTray
<1>5. CASE EndRetry
  <2>1. TypeOK'
    BY <1>5 DEF EndRetry, Running, Reached
  <2>2. Located'
    BY <1>5 DEF EndRetry, Running, Reached
  <2>3. Fresh' /\ Late'
    BY <1>5 DEF EndRetry, Running, Reached, Fresh, Late, Reasons
  <2>4. Progress'
    BY <1>5, SMTT(30) DEF EndRetry, Running, Reached, Progress, Finished, Goal
  <2>5. CompletedIsWhole'
    BY <1>5 DEF EndRetry, Running, Reached, Progress, Finished, Goal, CompletedIsWhole
  <2>6. Stopped'
    BY <1>5, SMTT(30) DEF EndRetry, Running, Reached, Stopped
  <2>7. Panels' /\ Replaced'
    BY <1>5 DEF EndRetry, Running, Reached, Panels, Replaced, Finished
  <2>8. Tray' /\ AppletOnFinalTray'
    BY <1>5 DEF EndRetry, Running, Reached, Panels, Tray, Settled, Finished,
      AppletOnFinalTray
  <2> QED
    BY <2>1, <2>2, <2>3, <2>4, <2>5, <2>6, <2>7, <2>8
<1> HIDE DEF WorkersInv
<1> QED
  BY <1>1, <1>2, <1>3, <1>4, <1>5 DEF Applet

\* and whatever happens around the worker.
LEMMA WorldKeeps == WorkersInv /\ World => WorkersInv'
<1> SUFFICES ASSUME WorkersInv, World
             PROVE  WorkersInv'
  OBVIOUS
<1> USE Plans DEF WorkersInv, TypeOK, Located, Site, Places, BoundaryPlaces, CommandPlaces,
    OtherPlaces, FluxboxPlaces, PanelPlaces, AppletPlaces, WorkerKinds, Others, Session,
    Worker, Cancelled, Quiet, displays, authority, panel, position, memory, history
<1>1. CASE Plug
  <2>1. TypeOK'
    <3>1. late' \in [Reasons -> 0..1]
      BY <1>1 DEF Plug, Reasons
    <3> QED
      BY <1>1, <3>1 DEF Plug
  <2>2. Located'
    BY <1>1 DEF Plug
  <2>3. Fresh' /\ Late'
    BY <1>1, SMTT(30) DEF Plug, Fresh, Late, Reasons
  <2>4. Progress'
    BY <1>1, SMTT(30) DEF Plug, Progress, Finished, Goal
  <2>5. CompletedIsWhole'
    BY <1>1 DEF Plug, Progress, Finished, Goal, CompletedIsWhole
  <2>6. Stopped'
    BY <1>1 DEF Plug, Stopped
  <2>7. Panels' /\ Replaced'
    BY <1>1, SMTT(30) DEF Plug, Panels, Replaced, Finished
  <2>8. Tray' /\ AppletOnFinalTray'
    BY <1>1, SMTT(30) DEF Plug, Panels, Tray, Settled, Finished, AppletOnFinalTray
  <2> QED
    BY <2>1, <2>2, <2>3, <2>4, <2>5, <2>6, <2>7, <2>8
<1>2. CASE Retrain
  BY <1>2, SMTT(30) DEF Retrain, Fresh, Late, Reasons, Progress, Finished, Goal, Stopped,
    CompletedIsWhole, Panels, Replaced, Tray, Settled, AppletOnFinalTray
<1>3. CASE XFollows
  BY <1>3, SMTT(30) DEF XFollows, Fresh, Late, Reasons, Progress, Finished, Goal, Stopped,
    CompletedIsWhole, Panels, Replaced, Tray, Settled, AppletOnFinalTray
<1>4. CASE Hint
  BY <1>4, SMTT(30) DEF Hint, Publish, Fresh, Late, Reasons, Progress, Finished, Goal,
    Stopped, CompletedIsWhole, Panels, Replaced, Tray, Settled, AppletOnFinalTray
<1>5. CASE StopIntent
  BY <1>5, SMTT(30) DEF StopIntent, Fresh, Late, Reasons, Progress, Finished, Goal, Stopped,
    CompletedIsWhole, Panels, Replaced, Tray, Settled, AppletOnFinalTray
<1>6. CASE Terminate
  BY <1>6, SMTT(30) DEF Terminate, Fresh, Late, Reasons, Progress, Finished, Goal, Stopped,
    CompletedIsWhole, Panels, Replaced, Tray, Settled, AppletOnFinalTray
<1>7. CASE RivalEnds
  BY <1>7, SMTT(30) DEF RivalEnds, Fresh, Late, Reasons, Progress, Finished, Goal, Stopped,
    CompletedIsWhole, Panels, Replaced, Tray, Settled, AppletOnFinalTray
<1>8. CASE Shutdown
  BY <1>8, SMTT(30) DEF Shutdown, Fresh, Late, Reasons, Progress, Finished, Goal, Stopped,
    CompletedIsWhole, Panels, Replaced, Tray, Settled, AppletOnFinalTray
<1>9. CASE PanelShows
  <2>1. TypeOK'
    BY <1>9, SMTT(30) DEF PanelShows
  <2>2. Located'
    BY <1>9, SMTT(30) DEF PanelShows
  <2>3. Fresh' /\ Late'
    BY <1>9, SMTT(30) DEF PanelShows, Fresh, Late, Reasons
  <2>4. Progress'
    BY <1>9, SMTT(30) DEF PanelShows, Progress, Finished, Goal
  <2>5. CompletedIsWhole'
    BY <1>9 DEF PanelShows, Progress, Finished, Goal, CompletedIsWhole
  <2>6. Stopped'
    BY <1>9 DEF PanelShows, Stopped
  <2>7. Panels' /\ Replaced'
    BY <1>9, SMTT(30) DEF PanelShows, Panels, Replaced, Finished
  <2>8. Tray' /\ AppletOnFinalTray'
    BY <1>9, SMTT(30) DEF PanelShows, Panels, Tray, Settled, Finished, AppletOnFinalTray
  <2> QED
    BY <2>1, <2>2, <2>3, <2>4, <2>5, <2>6, <2>7, <2>8
<1>10. CASE PanelFits
  BY <1>10, SMTT(30) DEF PanelFits, Fresh, Late, Reasons, Progress, Finished, Goal, Stopped,
    CompletedIsWhole, Panels, Replaced, Tray, Settled, AppletOnFinalTray
<1>11. CASE PanelHandsOver
  BY <1>11, SMTT(30) DEF PanelHandsOver, Fresh, Late, Reasons, Progress, Finished, Goal,
    Stopped, CompletedIsWhole, Panels, Replaced, Tray, Settled, AppletOnFinalTray
<1>12. CASE WrapperFollows
  BY <1>12, SMTT(30) DEF WrapperFollows, Fresh, Late, Reasons, Progress, Finished, Goal,
    Stopped, CompletedIsWhole, Panels, Replaced, Tray, Settled, AppletOnFinalTray
<1>13. CASE PanelRespawns
  BY <1>13, SMTT(30) DEF PanelRespawns, Fresh, Late, Reasons, Progress, Finished, Goal,
    Stopped, CompletedIsWhole, Panels, Replaced, Tray, Settled, AppletOnFinalTray
<1> HIDE DEF WorkersInv
<1> QED
  BY <1>1, <1>2, <1>3, <1>4, <1>5, <1>6, <1>7, <1>8, <1>9, <1>10, <1>11, <1>12, <1>13 DEF
    World

\* A worker that begins.
LEMMA WorkersInvInit == Init => WorkersInv
<1> SUFFICES ASSUME Init
             PROVE  WorkersInv
  OBVIOUS
<1> USE Plans DEF Init, Site, BoundaryPlaces, CommandPlaces, OtherPlaces, Places
<1>1. TypeOK
  <2>1. step \in 1..Len(Plan[kind])
    BY DEF WorkerKinds
  <2>2. /\ heard \in BOOLEAN /\ intent \in BOOLEAN /\ term \in BOOLEAN /\ restartPanel \in BOOLEAN
        /\ basis \in [displays : BOOLEAN, hint : BOOLEAN]
    BY Zenon
  <2>3. late \in [Reasons -> 0..1]
    BY DEF Reasons
  <2> QED
    BY <2>1, <2>2, <2>3 DEF TypeOK, Results
<1>2. Located
  BY DEF Located, FluxboxPlaces, PanelPlaces, AppletPlaces
<1>3. Fresh /\ Late
  BY DEF Fresh, Late, Reasons
<1>4. Progress /\ Stopped /\ CompletedIsWhole
  BY DEF Progress, Finished, Stopped, CompletedIsWhole
<1>5. Panels /\ Replaced
  BY DEF Panels, Replaced
<1>6. Tray /\ AppletOnFinalTray
  BY DEF Tray, Settled, Finished, AppletOnFinalTray
<1> QED
  BY <1>1, <1>2, <1>3, <1>4, <1>5, <1>6 DEF WorkersInv

LEMMA WorkersInvStep == WorkersInv /\ [Next]_vars => WorkersInv'
<1> SUFFICES ASSUME WorkersInv, [Next]_vars
             PROVE  WorkersInv'
  OBVIOUS
<1>1. CASE Interrupted
  BY <1>1
  DEF Interrupted, Stop, Report, Quiet, displays, authority, panel, memory, history,
      WorkersInv, TypeOK, Located, Site, Fresh, Late, Progress, Finished, Goal, Stopped, Panels,
      Replaced, Tray, Settled, CompletedIsWhole, AppletOnFinalTray, Places, BoundaryPlaces,
      OtherPlaces, FluxboxPlaces, PanelPlaces, AppletPlaces, Results, Cancelled
<1>2. CASE UNCHANGED vars
  BY <1>2
  DEF vars, displays, authority, panel, position, memory, history,
      WorkersInv, TypeOK, Located, Site, Fresh, Late, Progress, Finished, Goal, Stopped, Panels,
      Replaced, Tray, Settled, CompletedIsWhole, AppletOnFinalTray, Cancelled
<1> QED
  BY <1>1, <1>2, BoundariesKeep, CommandsKeep, FluxboxKeeps, AppletKeeps, WorldKeeps
  DEF Next, WorkerStep

-----------------------------------------------------------------------------

\* In every state of every worker.
THEOREM WorkersInvariant == Spec => []WorkersInv
  BY WorkersInvInit, WorkersInvStep, PTL DEF Spec

\* A command begins only behind a boundary that held.
THEOREM FreshSamples == Spec => []ActsOnFreshSample
<1>1. WorkersInv => ActsOnFreshSample
  BY DEF WorkersInv, Fresh, ActsOnFreshSample
<1> QED
  BY <1>1, WorkersInvariant, PTL

\* At most one command begins after its reason has gone.
THEOREM LateOnce == Spec => []OneLateCommand
<1>1. WorkersInv => OneLateCommand
  BY DEF WorkersInv, TypeOK, OneLateCommand
<1> QED
  BY <1>1, WorkersInvariant, PTL

\* A completed worker reached every goal of its plan.
THEOREM WholeWhenCompleted == Spec => []CompletedIsWhole
<1>1. WorkersInv => CompletedIsWhole
  BY DEF WorkersInv
<1> QED
  BY <1>1, WorkersInvariant, PTL

\* A stop that was there when a command returned is never reported as completion.
THEOREM StopWins == Spec => []StopBeatsCompletion
<1>1. WorkersInv => StopBeatsCompletion
  BY DEF WorkersInv, Stopped, StopBeatsCompletion
<1> QED
  BY <1>1, WorkersInvariant, PTL

\* The panel accepted after a restart did not run before it.
THEOREM NewReplacement == Spec => []ReplacementIsNew
<1>1. WorkersInv => ReplacementIsNew
  BY DEF WorkersInv, Replaced, ReplacementIsNew
<1> QED
  BY <1>1, WorkersInvariant, PTL

\* nm-applet is restored on the tray that stays.
THEOREM FinalTray == Spec => []AppletOnFinalTray
<1>1. WorkersInv => AppletOnFinalTray
  BY DEF WorkersInv
<1> QED
  BY <1>1, WorkersInvariant, PTL

=============================================================================
