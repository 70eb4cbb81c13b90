------------------------------ MODULE Workers ------------------------------
(***************************************************************************)
(* Inside a worker: the probe, apply, prepare and finalize workers run     *)
(* their commands one after the other, each behind a boundary that samples *)
(* the displays afresh.  Around them the world goes on: cables move, the X *)
(* server follows late, hints reach the controller and move the event      *)
(* fence, a stop intent or a SIGTERM arrives, panels restart and hand over.*)
(*                                                                         *)
(* Module Transactions says how a worker is started, stopped and reported; *)
(* this module says what it does between its claim and its report.         *)
(***************************************************************************)
EXTENDS Naturals, Sequences, FiniteSets

CONSTANTS
    MaxChanges,    \* How often the displays change or a panel dies.
    MaxPanels      \* How many panel processes are ever born.

WorkerKinds == {"probe", "apply", "prepare", "finalize"}

ASSUME BoundsAssumption == MaxChanges \in Nat /\ MaxPanels \in Nat

VARIABLES
    hw,            \* The connected displays: those of the request or others.
    x,             \* The same as the X server sees them.
    edid,          \* Can the kernel read the identity of the displays?
    changes,
    pending,       \* A DRM event the controller has not heard yet.
    alive,         \* Is the controller running?
    heard,         \* The controller counted an event after the admission.
    fence,         \* The generation on file, against the admitted one.
    rival,         \* Is the unit of another action still active?
    intent,        \* A stop intent is on disk.
    term           \* The worker got SIGTERM.

VARIABLES
    born,          \* Panel processes are numbered in order of birth.
    respawned,     \* Those the session started by itself.
    live,          \* Those that still run.
    owner,         \* The one whose windows are mapped, 0 if none are.
    exact,         \* Do the windows match the plan?
    wrapper,       \* The panel whose systray wrapper hosts the tray.
    applet         \* The wrapper that holds nm-applet's item, 0 if none does.

VARIABLES
    kind,
    pc,            \* Where the worker is.
    cont,          \* Where it goes on when the boundary holds.
    outcome,       \* What it reported, "none" if it ended without a report.
    step,          \* The planned action it is at.
    seen,          \* What the sample under way has read so far.
    restartPanel,
    excluded,      \* Panel processes that cannot prove a replacement.
    misplaced,     \* The failure of the window layout, which is not final.
    \* History: what the properties need to remember.
    basis,         \* What was so when the last sample ended.
    late,          \* Commands begun although a reason to stop was there.
    done,          \* The actions whose goal was reached.
    before,        \* The panels that ran when the restart was commanded.
    accepted       \* The panel accepted as its replacement.

displays == <<hw, x, edid, changes, pending>>
authority == <<alive, heard, fence, rival, intent, term>>
panel == <<born, respawned, live, owner, exact, wrapper, applet>>
position == <<pc, cont, outcome>>
memory == <<step, seen, restartPanel, excluded, misplaced>>
history == <<basis, late, done, before, accepted>>
vars == <<displays, authority, panel, kind, position, memory, history>>

\* The actions of a worker in their order.
Plan ==
    [probe |-> <<"activate">>,
     apply |-> <<"load">>,
     prepare |-> <<"overlay", "panels", "dpi", "terminals", "emacs", "keys">>,
     finalize |-> <<"configuration", "keyboard", "fluxbox", "panel",
                    "layout", "applet", "diagnostics">>]

Action == Plan[kind][step]

Results == {"COMPLETED", "FAILED", "TIMED_OUT"}

\* The places of a boundary, the places where a command is about to start,
\* and the others between them.
BoundaryPlaces == {"drm", "xrandr", "end", "fence", "mutators"}
CommandPlaces == {"command", "inplace", "full", "restart", "retry"}
OtherPlaces ==
    {"dispatch", "health", "recovered", "panelwait", "pids", "restarted",
     "ready", "unready", "tray", "item", "current", "reprove", "traylate",
     "next", "evidence", "running", "over"}

\* Reasons why a command should not begin any more.
Reasons == {"displays", "hint", "stop"}

Init ==
    /\ hw = "admitted" /\ x = "admitted" /\ edid \in {"read", "absent"}
    /\ changes = 0 /\ pending = FALSE
    /\ alive = TRUE /\ heard \in BOOLEAN
    /\ fence = IF heard THEN "newer" ELSE "admitted"
    /\ rival \in BOOLEAN /\ intent = FALSE /\ term = FALSE
    /\ born = 1 /\ respawned = {} /\ live = {1} /\ owner \in {0, 1} /\ exact \in BOOLEAN
    /\ wrapper = 1 /\ applet \in {0, 1}
    /\ kind \in WorkerKinds
    \* The fence, the other unit and the panel matter to a finalizer only.
    /\ kind # "finalize" =>
         fence = "admitted" /\ ~rival /\ owner = 1 /\ exact /\ applet = 1
    /\ pc = "drm" /\ cont = "dispatch" /\ outcome = "none"
    /\ step = 1 /\ seen = [drm |-> <<hw, edid>>, x |-> x]
    /\ restartPanel = FALSE /\ excluded = {} /\ misplaced = "none"
    /\ basis = [displays |-> FALSE, hint |-> FALSE]
    /\ late = [r \in Reasons |-> 0]
    /\ done = {} /\ before = {} /\ accepted = 0

-----------------------------------------------------------------------------
(* How the worker moves. *)

Go(place, next) == pc' = place /\ cont' = next /\ UNCHANGED outcome
Report(result) == pc' = "over" /\ outcome' = result /\ UNCHANGED cont

\* A finalizer only notes SIGTERM; in the others it raises where it strikes.
Cancelled == intent \/ (kind = "finalize" /\ term)

\* The lifecycle of the intent; without one the report is left to the helper.
Stop == Report(IF intent THEN "STOPPED" ELSE "none")

\* _raise_if_cancelled, then what follows it.
UnlessCancelled(place, next) == IF Cancelled THEN Stop ELSE Go(place, next)

Boundary(next) == UnlessCancelled("drm", next)

-----------------------------------------------------------------------------
(* The boundary. *)

\* A check that raises WorkerStartupError.
Refusal(places) ==
    /\ pc \in places
    /\ Report("FAILED")
    /\ UNCHANGED <<displays, authority, panel, kind, memory, history>>

\* The request or the claim cannot be read again or is not the worker's own.
RefuseRecords == Refusal({"drm"})

\* The staged plan is gone, has another hash or binds other guards.
RefusePlan == kind \in {"prepare", "finalize"} /\ Refusal({"drm"})

\* No completed preparation of the same transition authorizes this one.
RefusePrepared == kind = "finalize" /\ Refusal({"drm"})

\* The materialized profile is not the one of the request.
RefuseProfile == kind = "apply" /\ Refusal({"drm"})

\* The outputs, the identity or the mode to probe are not those of the request.
RefuseTarget == kind = "probe" /\ Refusal({"drm", "end"})

\* The evidence is incomplete, torn or contradictory.
RefuseEvidence == Refusal({"end"})

\* The user manager cannot tell the state of a unit.
RefuseManager == kind = "finalize" /\ Refusal({"mutators"})

\* The first kernel sample, after the records have been read.
SampleDrm ==
    /\ pc = "drm"
    /\ UnlessCancelled("xrandr", cont)
    /\ seen' = [seen EXCEPT !.drm = <<hw, edid>>]
    /\ UNCHANGED <<displays, authority, panel, kind, step, restartPanel,
                   excluded, misplaced, history>>

SampleX ==
    /\ pc = "xrandr"
    /\ Go("end", cont)
    /\ seen' = [seen EXCEPT !.x = x]
    /\ UNCHANGED <<displays, authority, panel, kind, step, restartPanel,
                   excluded, misplaced, history>>

\* Only preparation may go on while an identity is temporarily unreadable.
IdentityHolds == edid = "read" \/ kind = "prepare"

\* The two kernel samples agree with each other, with X and with the request.
SampleHolds ==
    /\ seen.drm = <<hw, edid>>
    /\ hw = "admitted" /\ seen.x = "admitted"
    /\ IdentityHolds

\* Only a finalizer has the fence and the mutators to read.
AfterSample == IF kind = "finalize" THEN "fence" ELSE cont

EndSample ==
    /\ pc = "end"
    /\ IF SampleHolds THEN Go(AfterSample, cont) ELSE Report("FAILED")
    /\ basis' = [basis EXCEPT !.displays = (hw = "admitted" /\ IdentityHolds),
                              !.hint = heard]
    /\ UNCHANGED <<displays, authority, panel, kind, memory,
                   late, done, before, accepted>>

\* current_event_generation: a missing fence refuses like a newer one.
ReadFence ==
    /\ pc = "fence"
    /\ IF fence = "admitted" THEN Go("mutators", cont) ELSE Report("FAILED")
    /\ UNCHANGED <<displays, authority, panel, kind, memory, history>>

AssertNoOtherMutator ==
    /\ pc = "mutators"
    /\ IF rival THEN Report("FAILED") ELSE UnlessCancelled(cont, cont)
    /\ UNCHANGED <<displays, authority, panel, kind, memory, history>>

-----------------------------------------------------------------------------
(* Commands. *)

Quiet == UNCHANGED <<displays, authority, kind>>

\* Mutant of AppletPlace: the item is judged before the tray is stable.
AppletPlaceUnproved == "item"

\* A restarted panel replaces the tray: only a stable tray can be judged.
AppletPlace == IF restartPanel THEN "tray" ELSE "item"

\* The planned action under way: most are one command; Fluxbox, the panel and
\* nm-applet have a procedure of their own.
Dispatch ==
    /\ pc = "dispatch"
    /\ \/ Action = "fluxbox" /\ UnlessCancelled("health", cont)
       \/ Action = "panel" /\ UnlessCancelled(IF restartPanel THEN "pids" ELSE "next", cont)
       \/ Action = "applet" /\ UnlessCancelled(AppletPlace, cont)
       \/ Action \notin {"fluxbox", "panel", "applet"} /\ UnlessCancelled("command", cont)
    /\ Quiet /\ UNCHANGED <<panel, memory, history>>

\* Is there a reason not to begin?
Due(reason) ==
    \/ reason = "displays" /\ hw # "admitted"
    \/ reason = "hint" /\ kind = "finalize" /\ heard
    \/ reason = "stop" /\ Cancelled

BeginCommand ==
    /\ pc \in CommandPlaces
    /\ Go("running", pc)
    /\ late' = [r \in Reasons |-> IF Due(r) THEN late[r] + 1 ELSE late[r]]
    /\ before' = IF pc = "restart" THEN live ELSE before
    /\ Quiet /\ UNCHANGED <<panel, memory, basis, done, accepted>>

Running(site) == pc = "running" /\ cont = site

\* History: the goal was reached, and whether a stop was there by then.
Reached(goal, result) ==
    done' = done \cup (IF result = "COMPLETED" THEN {goal} ELSE {})
                 \cup (IF Cancelled THEN {"stop"} ELSE {})

\* Mutant of Outcome: a misplaced window is forgotten.
OutcomeOfLast == "COMPLETED"

\* What a worker that finished its plan reports.
Outcome == IF misplaced = "none" THEN "COMPLETED" ELSE misplaced

\* The next planned action, behind a boundary of its own, or the report.
Advance ==
    /\ pc = "next"
    /\ IF step = Len(Plan[kind])
       THEN Report(Outcome) /\ UNCHANGED step
       ELSE Go("drm", "dispatch") /\ step' = step + 1
    /\ Quiet /\ UNCHANGED <<panel, seen, restartPanel, excluded, misplaced,
                            history>>

EndActivate ==
    /\ kind = "probe" /\ Running("command")
    /\ \E result \in Results : Report(result) /\ Reached(Action, result)
    /\ Quiet /\ UNCHANGED <<panel, memory, basis, late, before, accepted>>

EndLoad ==
    /\ kind = "apply" /\ Running("command")
    /\ \E result \in Results :
         /\ IF result = "COMPLETED" THEN UnlessCancelled("evidence", cont)
                                    ELSE Report(result)
         /\ Reached(Action, result)
    /\ Quiet /\ UNCHANGED <<panel, memory, basis, late, before, accepted>>

\* The enabled outputs that the postswitch hook left behind, if any.
ReadEvidence ==
    /\ pc = "evidence"
    /\ \E evidence \in {"none", "matching", "differing"} :
         Report(IF evidence = "differing" THEN "FAILED" ELSE "COMPLETED")
    /\ Quiet /\ UNCHANGED <<panel, memory, history>>

EndPrepareCommand ==
    /\ kind = "prepare" /\ Running("command") /\ Action # "emacs"
    /\ \E result \in Results :
         /\ IF result = "COMPLETED" THEN UnlessCancelled("next", cont)
                                    ELSE Report(result)
         /\ Reached(Action, result)
    /\ Quiet /\ UNCHANGED <<panel, memory, basis, late, before, accepted>>

\* Fonts are cosmetic: a failure to reload them counts as success.
EndEmacsReload ==
    /\ kind = "prepare" /\ Running("command") /\ Action = "emacs"
    /\ UnlessCancelled("next", cont)
    /\ Reached(Action, "COMPLETED")
    /\ Quiet /\ UNCHANGED <<panel, memory, basis, late, before, accepted>>

\* A helper script is no longer the one the plan captured.
RefuseLeaf ==
    /\ Running("command")
    /\ Action \in {"panels", "dpi", "terminals", "emacs"}
    /\ Report("FAILED")
    /\ Quiet /\ UNCHANGED <<panel, memory, history>>

\* Mutant of EndFinalizeCommand: a stop that came during the command is left
\* for the next boundary to notice.
EndFinalizeCommandUnchecked ==
    /\ kind = "finalize" /\ Running("command")
    /\ \E result \in Results :
         /\ IF result = "COMPLETED" \/ Action = "layout"
            THEN Go("next", cont) ELSE Report(result)
         /\ misplaced' = IF Action = "layout" /\ result # "COMPLETED"
                         THEN result ELSE misplaced
         /\ applet' = IF Action = "applet" /\ result = "COMPLETED"
                      THEN wrapper ELSE applet
         /\ Reached(Action, result)
    /\ Quiet /\ UNCHANGED <<born, respawned, live, owner, exact, wrapper, step, seen,
                            restartPanel, excluded, basis, late, before,
                            accepted>>

\* A stop wins once the command has returned.  A misplaced window does not
\* keep the tray and the applet from being restored.
EndFinalizeCommand ==
    /\ kind = "finalize" /\ Running("command")
    /\ \E result \in Results :
         /\ IF result = "COMPLETED" \/ Action = "layout" \/ Cancelled
            THEN UnlessCancelled("next", cont) ELSE Report(result)
         /\ misplaced' = IF Action = "layout" /\ result # "COMPLETED"
                         THEN result ELSE misplaced
         /\ applet' = IF Action = "applet" /\ result = "COMPLETED"
                      THEN wrapper ELSE applet
         /\ Reached(Action, result)
    /\ Quiet /\ UNCHANGED <<born, respawned, live, owner, exact, wrapper, step, seen,
                            restartPanel, excluded, basis, late, before,
                            accepted>>

-----------------------------------------------------------------------------
(* Fluxbox and the panel. *)

Mapped == IF owner = 0 THEN {} ELSE {owner}

\* check_panel_health before Fluxbox is touched: which panel was there?
CheckPanel ==
    /\ pc = "health"
    /\ Boundary("inplace")
    /\ excluded' = Mapped
    /\ Quiet /\ UNCHANGED <<panel, step, seen, restartPanel, misplaced, history>>

\* Mutant of AfterInPlace: recovery starts at once when the restart failed.
AfterInPlaceAtOnce(result) ==
    IF result = "COMPLETED" THEN Boundary("panelwait")
                            ELSE UnlessCancelled("full", cont)

AfterInPlace(result) ==
    Boundary(IF result = "COMPLETED" THEN "panelwait" ELSE "full")

EndInPlace ==
    /\ Running("inplace")
    /\ \E result \in Results : AfterInPlace(result) /\ Reached("fluxbox", result)
    /\ Quiet /\ UNCHANGED <<panel, memory, basis, late, before, accepted>>

\* Full recovery.  Its failure is final, but only if the boundary holds.
EndFull ==
    /\ Running("full")
    /\ \E result \in Results :
         /\ IF result = "COMPLETED" THEN Boundary("panelwait")
                                    ELSE Boundary("recovered")
         /\ Reached("fluxbox", result)
    /\ Quiet /\ UNCHANGED <<panel, memory, basis, late, before, accepted>>

RecoveryFailed ==
    /\ pc = "recovered"
    /\ \E result \in {"FAILED", "TIMED_OUT"} : Report(result)
    /\ Quiet /\ UNCHANGED <<panel, memory, history>>

ExactPanel(without) == owner # 0 /\ exact /\ owner \notin without

\* Mutant of WaitForPanel: the wait has no deadline.
WaitForPanelForever ==
    /\ pc = "panelwait"
    /\ ExactPanel({})
    /\ Boundary("next")
    /\ restartPanel' = FALSE
    /\ excluded' = excluded \cup Mapped
    /\ Reached("panel", "COMPLETED")
    /\ Quiet /\ UNCHANGED <<panel, step, seen, misplaced, basis, late, before,
                            accepted>>

\* wait_for_exact_panel after Fluxbox: the panel in place may do.  The wait
\* ends with an exact panel or at its deadline.
WaitForPanel ==
    /\ pc = "panelwait"
    /\ Boundary("next")
    /\ \/ /\ ExactPanel({})
          /\ restartPanel' = FALSE
          /\ Reached("panel", "COMPLETED")
       \/ /\ restartPanel' = TRUE
          /\ UNCHANGED done
    /\ excluded' = excluded \cup Mapped
    /\ Quiet /\ UNCHANGED <<panel, step, seen, misplaced, basis, late, before,
                            accepted>>

\* Mutant of ListPanels: only panels with mapped windows are excluded.
ListPanelsMapped ==
    /\ pc = "pids"
    /\ Boundary("restart")
    /\ UNCHANGED excluded
    /\ Quiet /\ UNCHANGED <<panel, step, seen, restartPanel, misplaced, history>>

\* panel_process_pids: every live panel process, mapped or not.
ListPanels ==
    /\ pc = "pids"
    /\ \/ /\ Boundary("restart")
          /\ excluded' = excluded \cup live
       \/ Report("FAILED") /\ UNCHANGED excluded
    /\ Quiet /\ UNCHANGED <<panel, step, seen, restartPanel, misplaced, history>>

\* xfce4-panel -r: a new process is born beside the old one.
EndRestart ==
    /\ Running("restart")
    /\ \/ /\ born < MaxPanels
          /\ Boundary("ready")
          /\ born' = born + 1 /\ live' = live \cup {born + 1}
       \/ Boundary("restarted") /\ UNCHANGED <<born, live>>
    /\ Quiet /\ UNCHANGED <<respawned, owner, exact, wrapper, applet, memory, history>>

RestartFailed ==
    /\ pc = "restarted"
    /\ \E result \in {"FAILED", "TIMED_OUT"} : Report(result)
    /\ Quiet /\ UNCHANGED <<panel, memory, history>>

\* wait_for_exact_panel again: now only a process that is not excluded will do.
WaitForReplacement ==
    /\ pc = "ready"
    /\ \/ /\ ExactPanel(excluded)
          /\ Boundary("next")
          /\ accepted' = owner
          /\ Reached("panel", "COMPLETED")
       \/ Boundary("unready") /\ UNCHANGED <<accepted, done>>
    /\ Quiet /\ UNCHANGED <<panel, memory, basis, late, before>>

ReplacementFailed ==
    /\ pc = "unready"
    /\ Report("FAILED")
    /\ Quiet /\ UNCHANGED <<panel, memory, history>>

-----------------------------------------------------------------------------
(* nm-applet. *)

\* Six equal samples outlast the outgoing wrapper of a restarted panel.
StableTray == owner # 0 /\ live = {owner} /\ wrapper = owner

\* wait_for_stable_tray; at its deadline the applet is left to the retry unit.
ProveTray ==
    /\ pc \in {"tray", "traylate"}
    /\ \/ /\ StableTray
          /\ IF pc = "tray" THEN Go("item", cont) ELSE Go("drm", "command")
       \/ Go("drm", "retry")
    /\ Quiet /\ UNCHANGED <<panel, memory, history>>

\* The applet needs no restart if the current wrapper holds its item.
JudgeItem ==
    /\ pc = "item"
    /\ \/ applet = wrapper /\ Boundary("current")
       \/ Boundary(IF restartPanel THEN "reprove" ELSE "traylate")
    /\ Quiet /\ UNCHANGED <<panel, memory, history>>

ItemCurrent ==
    /\ pc = "current"
    /\ Go("next", cont)
    /\ Reached("applet", "COMPLETED")
    /\ Quiet /\ UNCHANGED <<panel, memory, basis, late, before, accepted>>

\* The wait was read-only; a boundary of its own precedes the restart.
Reprove ==
    /\ pc = "reprove"
    /\ Go("drm", "command")
    /\ Quiet /\ UNCHANGED <<panel, memory, history>>

\* Whether the retry unit could be started is not looked at.
EndRetry ==
    /\ Running("retry")
    /\ Go("next", cont)
    /\ Reached("deferred", "COMPLETED")
    /\ Quiet /\ UNCHANGED <<panel, memory, basis, late, before, accepted>>

\* Where SIGTERM strikes a worker that has not deferred it; a command that
\* runs is killed with its session.
Interrupted ==
    /\ kind # "finalize" /\ term /\ pc # "over"
    /\ Stop
    /\ Quiet /\ UNCHANGED <<panel, memory, history>>

-----------------------------------------------------------------------------
(* The world around the worker. *)

Worker == <<kind, position, memory>>
Others == UNCHANGED <<panel, Worker, basis, done, before, accepted>>

\* A cable moves, or moves back.
Plug ==
    /\ changes < MaxChanges
    /\ hw' = IF hw = "admitted" THEN "other" ELSE "admitted"
    /\ changes' = changes + 1 /\ pending' = TRUE
    /\ late' = [late EXCEPT !["displays"] = 0]
    /\ Others /\ UNCHANGED <<x, edid, authority>>

\* The link is trained again: the identity goes, or comes back, with or without
\* an event.
Retrain ==
    /\ changes < MaxChanges
    /\ edid' = IF edid = "read" THEN "absent" ELSE "read"
    /\ changes' = changes + 1 /\ pending' \in {pending, TRUE}
    /\ Others /\ UNCHANGED <<hw, x, authority, late>>

XFollows ==
    /\ x # hw
    /\ x' = hw
    /\ Others /\ UNCHANGED <<hw, edid, changes, pending, authority, late>>

\* Mutant of Publish: a fence that cannot be replaced is left as it is.
PublishOrKeep == fence' \in {"newer", fence}

\* GenerationFencePublisher.publish: a failed write removes the fence.
Publish == fence' \in {"newer", "gone"}

\* The event reaches the controller, which counts it and publishes the count.
Hint ==
    /\ alive /\ pending
    /\ pending' = FALSE /\ heard' = TRUE
    /\ Publish
    /\ Others /\ UNCHANGED <<hw, x, edid, changes, alive, rival, intent, term, late>>

StopIntent ==
    /\ alive /\ ~intent
    /\ intent' = TRUE
    /\ Others /\ UNCHANGED <<displays, alive, heard, fence, rival, term, late>>

\* The manager stops the unit: for the intent, or at its own deadline.
Terminate ==
    /\ ~term
    /\ term' = TRUE
    /\ Others /\ UNCHANGED <<displays, alive, heard, fence, rival, intent, late>>

RivalEnds ==
    /\ rival
    /\ rival' = FALSE
    /\ Others /\ UNCHANGED <<displays, alive, heard, fence, intent, term, late>>

\* _release_active_resources withdraws the fence.  A controller that dies withdraws
\* nothing: it is one that takes no further step.
Shutdown ==
    /\ alive
    /\ alive' = FALSE /\ fence' = "gone"
    /\ Others /\ UNCHANGED <<displays, heard, rival, intent, term, late>>

\* The panel and the tray matter to a finalizer only.
Session == kind = "finalize" /\ UNCHANGED <<displays, authority, Worker, history>>

PanelShows ==
    /\ owner = 0
    /\ owner' \in live
    /\ Session /\ UNCHANGED <<born, respawned, live, exact, wrapper, applet>>

PanelFits ==
    /\ exact' = ~exact
    /\ Session /\ UNCHANGED <<born, respawned, live, owner, wrapper, applet>>

\* The old process of a restarted panel goes.
PanelHandsOver ==
    /\ Cardinality(live) > 1
    /\ live' = {born} /\ owner' = born
    /\ Session /\ UNCHANGED <<born, respawned, exact, wrapper, applet>>

\* ... and its systray wrapper after it.
WrapperFollows ==
    /\ owner # 0 /\ wrapper # owner
    /\ wrapper' = owner
    /\ Session /\ UNCHANGED <<born, respawned, live, owner, exact, applet>>

\* A panel dies and the session starts another.
PanelRespawns ==
    /\ kind = "finalize"
    /\ born < MaxPanels /\ changes < MaxChanges
    /\ changes' = changes + 1
    /\ born' = born + 1 /\ live' = {born + 1} /\ owner' \in {0, born + 1}
    /\ respawned' = respawned \cup {born + 1}
    /\ UNCHANGED <<hw, x, edid, pending, authority, Worker, history, exact, wrapper, applet>>

Boundaries ==
    \/ RefuseRecords \/ RefusePlan \/ RefusePrepared \/ RefuseProfile
    \/ RefuseTarget \/ RefuseEvidence \/ RefuseManager
    \/ SampleDrm \/ SampleX \/ EndSample \/ ReadFence
    \/ AssertNoOtherMutator

Commands ==
    \/ Dispatch \/ BeginCommand \/ Advance \/ EndActivate \/ EndLoad
    \/ ReadEvidence \/ EndPrepareCommand \/ EndEmacsReload \/ RefuseLeaf
    \/ EndFinalizeCommand

Fluxbox ==
    \/ CheckPanel \/ EndInPlace \/ EndFull \/ RecoveryFailed \/ WaitForPanel
    \/ ListPanels \/ EndRestart \/ RestartFailed \/ WaitForReplacement
    \/ ReplacementFailed

Applet == ProveTray \/ JudgeItem \/ ItemCurrent \/ Reprove \/ EndRetry

WorkerStep == Boundaries \/ Commands \/ Fluxbox \/ Applet \/ Interrupted

World ==
    \/ Plug \/ Retrain \/ XFollows \/ Hint \/ StopIntent \/ Terminate
    \/ RivalEnds \/ Shutdown \/ PanelShows \/ PanelFits
    \/ PanelHandsOver \/ WrapperFollows \/ PanelRespawns

Next == WorkerStep \/ World

Spec == Init /\ [][Next]_vars

\* A worker process runs: every command and every wait in it has a deadline.
FairSpec == Spec /\ WF_vars(WorkerStep)

-----------------------------------------------------------------------------
(* Properties. *)

\* A command begins only on a complete sample: when that sample ended the
\* displays were those of the request, with their identity proved as far as
\* this worker demands it, and for a finalizer the controller had not counted
\* an event since the admission, whether it could publish the count or not.
ActsOnFreshSample ==
    pc = "running" =>
        basis.displays /\ (kind = "finalize" => ~basis.hint)

\* Between a boundary and its command the world may move, so one command may
\* begin too late; no second one does: not on displays that stayed away, not
\* after a counted event, not after a stop.  A long desktop restart stops at
\* its first boundary.
OneLateCommand == \A r \in Reasons : late[r] <= 1

\* A worker that reports COMPLETED reached every goal of its plan: Fluxbox runs
\* again, an exact panel was seen, every window was placed, and nm-applet is
\* restored or left to the retry unit.  An interrupted or partly failed
\* desktop restart is never reported as completed.
CompletedIsWhole ==
    outcome = "COMPLETED" =>
        \A i \in 1..Len(Plan[kind]) :
            \/ Plan[kind][i] \in done
            \/ Plan[kind][i] = "applet" /\ "deferred" \in done

\* A stop that was there when a command returned is never followed by a
\* report of completion: not even after the last command of a plan.  (A probe
\* has a single short command and does not look again.)
StopBeatsCompletion ==
    "stop" \in done /\ kind # "probe" => outcome # "COMPLETED"

\* The panel accepted after a restart is none of those that ran when the
\* restart was commanded, whether their windows were mapped or not, unless the
\* session itself started it after the listing of the old ones.
ReplacementIsNew == accepted \in before => accepted \in respawned

\* When nm-applet is restored, it is restored on the wrapper of the panel that
\* stays, not on the outgoing one that still answers for a while; only a panel that
\* the session replaced again takes it away.
AppletOnFinalTray ==
    outcome = "COMPLETED" /\ "deferred" \notin done /\ kind = "finalize"
        => applet = born \/ born \in respawned

\* Every worker comes to an end, whatever panels, trays and commands do.
WorkerEnds == <>(pc = "over")

=============================================================================
