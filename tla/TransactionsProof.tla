------------------------- MODULE TransactionsProof -------------------------
(***************************************************************************)
(* The transaction protocol for any number of offers: an action is worked  *)
(* on once, a controller that has let go of it left no process behind, a   *)
(* restarted one can scan what it finds, and the whole implements the unit *)
(* that module WorkerUnit promises.                                        *)
(***************************************************************************)
EXTENDS Transactions, TLAPS

(* The inductive invariant. *)

Places == {"idle", "draft", "written", "offered", "discarding", "claiming", "claimed",
           "refused", "refusing", "watching", "stopping", "intending", "asking",
           "awaiting", "asked", "over", "down"}

\* Before the submission is claimed, while it is answered, and while it is watched.
Early == {"idle", "draft", "written", "offered", "discarding"}
Answering == {"claimed", "refused", "refusing"}
Attending == {"watching", "intending", "asking", "awaiting", "asked"}

Running == {"main", "term", "grace"}
Working == {"boot", "claiming", "guard", "mutate", "report", "reporting", "exit"}
Helping == {"help", "filling", "gone"}

TypeOK ==
    /\ draft \subseteq Complete /\ bundle \subseteq Complete
    /\ rec \in [Records -> {"absent", "linked", "installed"}]
    /\ intent \in StopLifecycles \cup {"none"}
    /\ outcome \in TerminalLifecycles \cup {"none"}
    /\ ctl \in Places /\ offers \in 0..MaxOffers
    /\ after \in StopLifecycles \cup {"none"}
    /\ told \in TerminalLifecycles \cup {"none"}
    /\ unit \in {"never", "queued", "post", "dead"} \cup Running
    /\ mres \in {"success", "timeout", "exit-code", "signal"}
    /\ seen \in BOOLEAN /\ starts \in 0..2
    /\ proc \in {"none"} \cup Working \cup Helping
    /\ exec \in TerminalLifecycles \cup {"none"}
    /\ works \in 0..1 /\ blind \in BOOLEAN

\* Where the controller is tells how far the submission claim is, and whether
\* a bundle can be incomplete.
Submission ==
    /\ ctl \in Early => Absent("submission")
    /\ ctl = "claiming" => Torn("submission")
    /\ ctl \in Answering \cup Attending => Readable("submission")
    /\ ctl \in {"written", "offered"} => bundle = Complete
    /\ ctl = "draft" => bundle = {}
    /\ bundle # {} => "dir" \in bundle
    /\ bundle # Complete => Absent("submission")

\* Without the claim there is no unit and no other record, and before the
\* manager answered there is no unit either.
Unsubmitted ==
    /\ ~Readable("submission") =>
           unit = "never" /\ Absent("execution") /\ Absent("stop") /\ Absent("result")
    /\ ctl \in Answering => unit = "never"
    /\ ctl \in {"claimed", "refused"} => Absent("result")
    /\ ctl = "refusing" => Torn("result") /\ outcome = "FAILED"

\* A stop has a lifecycle to end in, and its intent says so.
Stopping ==
    /\ ctl \in (Attending \cup {"stopping"}) \ {"watching"} => after # "none"
    /\ ctl = "intending" => Torn("stop")
    /\ ~Absent("stop") => intent # "none"

\* The manager's view of the unit goes with the process there is.
Processes ==
    /\ unit \in {"never", "queued", "dead"} => proc = "none"
    /\ unit \in Running => proc \in Working
    /\ unit = "post" => proc \in Helping
    /\ unit \in {"never", "queued"} => starts = 0
    /\ unit \in Running \cup {"post"} => starts # 0
    /\ seen => starts # 0
    /\ ~Absent("execution") => starts # 0

\* The claim of the execution is taken before the desktop is changed.
Executions ==
    /\ Absent("execution") => works = 0
    /\ proc \in {"claiming", "guard"} => works = 0 /\ ~Absent("execution")

\* Whoever writes the result has decided what it says, and a manager that saw
\* the worker succeed saw it complete.
Results ==
    /\ ~Absent("result") => outcome # "none"
    /\ proc = "boot" => exec = "none"
    /\ proc \in {"report", "reporting"} => exec # "none"
    /\ proc \in {"reporting", "filling"} => Torn("result")
    /\ proc = "reporting" => outcome = exec
    /\ proc = "exit" /\ exec = "COMPLETED" => Readable("result") /\ outcome = "COMPLETED"
    /\ unit \in {"post", "dead"} /\ seen /\ mres = "success" =>
           Readable("result") /\ outcome = "COMPLETED"
    /\ proc = "gone" /\ ~blind => Readable("result")
    /\ unit = "dead" /\ starts # 0 /\ ~blind => Readable("result")

\* What a controller that is done with the action has left behind.
Released ==
    ctl = "over" =>
        /\ Absent("submission") \/ Readable("result")
        /\ proc \in {"none", "boot", "exit", "help", "gone"}

TransactionInv ==
    /\ TypeOK
    /\ Submission /\ Unsubmitted /\ Stopping /\ Processes /\ Executions /\ Results /\ Released

-----------------------------------------------------------------------------
(* It is inductive. *)

\* Every step of the controller keeps the invariant.
LEMMA ControllerKeeps == TransactionInv /\ ControllerStep => TransactionInv'
<1> SUFFICES ASSUME TransactionInv, ControllerStep
             PROVE  TransactionInv'
  OBVIOUS
<1> USE OffersAssumption DEF TransactionInv, TypeOK, Submission, Unsubmitted, Stopping,
    Processes, Executions, Results, Released, Places, Early, Answering, Attending, Running,
    Working, Helping, Records, Complete, StopLifecycles, TerminalLifecycles, Readable, Torn,
    Absent, disk, controller, manager, worker
<1>1. CASE CreateRequest
  BY <1>1 DEF CreateRequest
<1>2. CASE MeetRequest
  <2>1. CASE RequestReadable /\ ArtifactsValid /\ ctl' = "written"
    <3>1. bundle = Complete
      BY <1>2, <2>1 DEF MeetRequest, RequestReadable, ArtifactsValid
    <3> QED
      BY <1>2, <2>1, <3>1 DEF MeetRequest
  <2>2. CASE ctl' = "over"
    BY <1>2, <2>2 DEF MeetRequest
  <2> QED
    BY <1>2, <2>1, <2>2 DEF MeetRequest
<1>3. CASE InstallPart
  BY <1>3 DEF InstallPart, NextPart
<1>4. CASE PublishBundle
  BY <1>4 DEF PublishBundle, Control
<1>5. CASE Preflight
  BY <1>5 DEF Preflight, Control, Active, NothingRecorded
<1>6. CASE PreflightFails
  BY <1>6 DEF PreflightFails, MarkDispatchUncertain
<1>7. CASE FenceRejects
  BY <1>7 DEF FenceRejects, Control
<1>8. CASE DiscardPart
  <2>1. bundle' \subseteq Complete /\ (bundle' # {} => "dir" \in bundle')
    <3>1. bundle' = bundle \ {LastPart(bundle)} /\ bundle \subseteq Complete
      BY <1>8 DEF DiscardPart
    <3>2. CASE LastPart(bundle) = "dir"
      <4>1. \A p \in bundle : p = "dir"
        BY <3>1, <3>2 DEF LastPart
      <4> QED
        BY <3>1, <3>2, <4>1
    <3>3. CASE LastPart(bundle) # "dir"
      BY <3>1, <3>3
    <3> QED
      BY <3>2, <3>3
  <2>2. ctl' \in {"idle", "discarding"}
    BY <1>8 DEF DiscardPart, Control
  <2> QED
    BY <1>8, <2>1, <2>2 DEF DiscardPart, Control
<1>9. CASE DiscardFails
  BY <1>9 DEF DiscardFails, Control
<1>10. CASE FencePasses
  BY <1>10 DEF FencePasses, Control, Link, Unlink
<1>11. CASE ClaimSubmission
  BY <1>11 DEF ClaimSubmission, Control, Unlink
<1>12. CASE StartAccepted
  BY <1>12 DEF StartAccepted, Control
<1>13. CASE StartRefused
  BY <1>13 DEF StartRefused, Control
<1>14. CASE StartUnanswered
  BY <1>14 DEF StartUnanswered, MarkDispatchUncertain
<1>15. CASE RecordRefusal
  BY <1>15 DEF RecordRefusal, Control, Link, Unlink
<1>16. CASE CompleteRefusedStart
  BY <1>16 DEF CompleteRefusedStart, Unlink
<1>17. CASE WatchCompletion
  BY <1>17 DEF WatchCompletion, Tell, BeginStop, Completion, Active, Contradicted
<1>18. CASE WatchLost
  BY <1>18 DEF WatchLost, BeginStop, Active, Completion, Contradicted
<1>19. CASE CreateStopIntent
  BY <1>19 DEF CreateStopIntent, Control, Link, Unlink
<1>20. CASE InstallStopIntent
  BY <1>20 DEF InstallStopIntent, Control, Unlink
<1>21. CASE MeetStopIntent
  BY <1>21 DEF MeetStopIntent, Control
<1>22. CASE StopInactive
  BY <1>22 DEF StopInactive, Control, Active
<1>23. CASE StopActive
  BY <1>23 DEF StopActive, Control, Active
<1>24. CASE StopReturns
  BY <1>24 DEF StopReturns, Control, Active
<1>25. CASE StopAcknowledged
  BY <1>25 DEF StopAcknowledged, Tell, Completion, Active, Contradicted
<1>26. CASE StopDoubted
  BY <1>26 DEF StopDoubted, Control, Completion, Active, Contradicted
<1>27. CASE RecoverUnsubmitted
  BY <1>27 DEF RecoverUnsubmitted, Control, Active, ScanAmbiguous, RequestReadable, Contradicted
<1>28. CASE RecoverActive
  BY <1>28 DEF RecoverActive, Control, Active, ScanAmbiguous, RequestReadable, Contradicted
<1>29. CASE RecoverEnded
  BY <1>29 DEF RecoverEnded, Tell, Active, ScanAmbiguous, RequestReadable, Contradicted
<1> HIDE DEF TransactionInv
<1> QED
  BY <1>1, <1>2, <1>3, <1>4, <1>5, <1>6, <1>7, <1>8, <1>9, <1>10, <1>11, <1>12, <1>13,
    <1>14, <1>15, <1>16, <1>17, <1>18, <1>19, <1>20, <1>21, <1>22, <1>23, <1>24, <1>25,
    <1>26, <1>27, <1>28, <1>29 DEF ControllerStep

\* So does every step of the manager,
LEMMA ManagerKeeps == TransactionInv /\ ManagerStep => TransactionInv'
<1> SUFFICES ASSUME TransactionInv, ManagerStep
             PROVE  TransactionInv'
  OBVIOUS
<1> USE OffersAssumption DEF TransactionInv, TypeOK, Submission, Unsubmitted, Stopping,
    Processes, Executions, Results, Released, Places, Early, Answering, Attending, Running,
    Working, Helping, Records, Complete, StopLifecycles, TerminalLifecycles, Readable, Torn,
    Absent, disk, controller, manager, worker
<1>1. CASE StartMain
  BY <1>1 DEF StartMain
<1>2. CASE MainExits
  BY <1>2 DEF MainExits, Fails
<1>3. CASE KillAtTimeout
  BY <1>3 DEF KillAtTimeout, Fails
<1>4. CASE HelperEnds
  BY <1>4 DEF HelperEnds
<1> HIDE DEF TransactionInv
<1> QED
  BY <1>1, <1>2, <1>3, <1>4 DEF ManagerStep

\* the worker,
LEMMA WorkerKeeps == TransactionInv /\ WorkerStep => TransactionInv'
<1> SUFFICES ASSUME TransactionInv, WorkerStep
             PROVE  TransactionInv'
  OBVIOUS
<1> USE OffersAssumption DEF TransactionInv, TypeOK, Submission, Unsubmitted, Stopping,
    Processes, Executions, Results, Released, Places, Early, Answering, Attending, Running,
    Working, Helping, Records, Complete, StopLifecycles, TerminalLifecycles, Readable, Torn,
    Absent, disk, controller, manager, worker
<1>1. CASE ClaimExecution
  BY <1>1 DEF ClaimExecution, Link, Unlink, Claimable, RequestReadable, ArtifactsValid
<1>2. CASE RejectInvocation
  BY <1>2 DEF RejectInvocation
<1>3. CASE ExecutionClaimed
  BY <1>3 DEF ExecutionClaimed, Unlink
<1>4. CASE PassGuard
  BY <1>4 DEF PassGuard, Conclude, Cancelled, ArtifactsValid
<1>5. CASE WriteResult
  BY <1>5 DEF WriteResult, Link, Unlink
<1>6. CASE ResultWritten
  BY <1>6 DEF ResultWritten, Unlink
<1> HIDE DEF TransactionInv
<1> QED
  BY <1>1, <1>2, <1>3, <1>4, <1>5, <1>6 DEF WorkerStep

\* the helper,
LEMMA HelperKeeps == TransactionInv /\ HelperStep => TransactionInv'
<1> SUFFICES ASSUME TransactionInv, HelperStep
             PROVE  TransactionInv'
  OBVIOUS
<1> USE OffersAssumption DEF TransactionInv, TypeOK, Submission, Unsubmitted, Stopping,
    Processes, Executions, Results, Released, Places, Early, Answering, Attending, Running,
    Working, Helping, Records, Complete, StopLifecycles, TerminalLifecycles, Readable, Torn,
    Absent, disk, controller, manager, worker
<1>1. CASE HelperFinds
  BY <1>1 DEF HelperFinds
<1>2. CASE HelperGivesUp
  BY <1>2 DEF HelperGivesUp
<1>3. CASE HelperFills
  BY <1>3 DEF HelperFills, Link, Unlink, Verdict
<1>4. CASE HelperFilled
  BY <1>4 DEF HelperFilled, Unlink
<1> HIDE DEF TransactionInv
<1> QED
  BY <1>1, <1>2, <1>3, <1>4 DEF HelperStep

\* and every fault.
LEMMA FaultKeeps == TransactionInv /\ Fault => TransactionInv'
<1> SUFFICES ASSUME TransactionInv, Fault
             PROVE  TransactionInv'
  OBVIOUS
<1> USE OffersAssumption DEF TransactionInv, TypeOK, Submission, Unsubmitted, Stopping,
    Processes, Executions, Results, Released, Places, Early, Answering, Attending, Running,
    Working, Helping, Records, Complete, StopLifecycles, TerminalLifecycles, Readable, Torn,
    Absent, disk, controller, manager, worker
<1>1. CASE AbandonDraft
  BY <1>1 DEF AbandonDraft, Control
<1>2. CASE Supersede
  BY <1>2 DEF Supersede, BeginStop
<1>3. CASE StopTimesOut
  BY <1>3 DEF StopTimesOut, Control
<1>4. CASE Crash
  BY <1>4 DEF Crash, Control
<1>5. CASE DropJob
  BY <1>5 DEF DropJob
<1>6. CASE KillFromOutside
  BY <1>6 DEF KillFromOutside, Fails
<1>7. CASE LoseHelper
  BY <1>7 DEF LoseHelper
<1>8. CASE Collect
  <2>1. ~seen' /\ seen' \in BOOLEAN
    BY <1>8, Zenon DEF Collect
  <2> QED
    BY <1>8, <2>1 DEF Collect
<1>9. CASE Reinvoke
  BY <1>9 DEF Reinvoke
<1>10. CASE StopAgain
  BY <1>10 DEF StopAgain, BeginStop
<1> HIDE DEF TransactionInv
<1> QED
  BY <1>1, <1>2, <1>3, <1>4, <1>5, <1>6, <1>7, <1>8, <1>9, <1>10 DEF Fault

\* Time and signals.
LEMMA SignalKeeps ==
    TransactionInv /\ (Deadline \/ FinishWork \/ Sigterm \/ SigtermDeferred) => TransactionInv'
<1> SUFFICES ASSUME TransactionInv, Deadline \/ FinishWork \/ Sigterm \/ SigtermDeferred
             PROVE  TransactionInv'
  OBVIOUS
<1> USE OffersAssumption DEF TransactionInv, TypeOK, Submission, Unsubmitted, Stopping,
    Processes, Executions, Results, Released, Places, Early, Answering, Attending, Running,
    Working, Helping, Records, Complete, StopLifecycles, TerminalLifecycles, Readable, Torn,
    Absent, disk, controller, manager, worker
<1>1. CASE Deadline
  BY <1>1 DEF Deadline, Fails
<1>2. CASE FinishWork
  BY <1>2 DEF FinishWork, Conclude, Cancelled
<1>3. CASE Sigterm
  <2>1. CASE proc \in {"boot", "claiming"}
    <3>1. unit = "term" /\ proc' = "help" /\ unit' = "post" /\ mres' # "success"
      BY <1>3, <2>1 DEF Sigterm, Fails
    <3>2. mres' \in {"timeout", "exit-code", "signal"}
      BY <1>3, <2>1 DEF Sigterm, Fails
    <3>3. UNCHANGED <<disk, exec, controller, seen, starts, works, blind>>
      BY <1>3, <2>1, Zenon DEF Sigterm
    <3> QED
      BY <2>1, <3>1, <3>2, <3>3
  <2>2. CASE proc \in {"guard", "mutate"}
    <3>1. unit = "term" /\ proc' = (IF exec' = "none" THEN "exit" ELSE "report") /\ unit' = "grace"
      BY <1>3, <2>2 DEF Sigterm
    <3>2. exec' \in StopLifecycles \cup {"none"}
      BY <1>3, <2>2 DEF Sigterm, InterruptedOutcome
    <3>3. UNCHANGED <<disk, mres, controller, seen, starts, works, blind>>
      BY <1>3, <2>2, Zenon DEF Sigterm
    <3> QED
      BY <2>2, <3>1, <3>2, <3>3
  <2>3. CASE proc = "report"
    <3>1. unit = "term" /\ exec' = "none" /\ proc' = "exit" /\ unit' = "grace"
      BY <1>3, <2>3 DEF Sigterm
    <3>2. UNCHANGED <<disk, mres, controller, seen, starts, works, blind>>
      BY <1>3, <2>3, Zenon DEF Sigterm
    <3> QED
      BY <2>3, <3>1, <3>2
  <2>4. CASE proc = "reporting"
    <3>1. /\ unit = "term" /\ exec' = "none" /\ proc' = "exit" /\ unit' = "grace"
          /\ Unlink("result")
      BY <1>3, <2>4 DEF Sigterm
    <3>2. UNCHANGED <<draft, bundle, intent, outcome, mres, controller, seen, starts, works, blind>>
      BY <1>3, <2>4, Zenon DEF Sigterm
    <3> QED
      BY <2>4, <3>1, <3>2 DEF Unlink
  <2> QED
    BY <1>3, <2>1, <2>2, <2>3, <2>4 DEF Sigterm
<1>4. CASE SigtermDeferred
  BY <1>4 DEF SigtermDeferred
<1> QED
  BY <1>1, <1>2, <1>3, <1>4

\* An empty home: no directory, no record, no unit.
LEMMA InvInit == Init => TransactionInv
<1> SUFFICES ASSUME Init
             PROVE  TransactionInv
  OBVIOUS
<1>1. ~seen /\ seen \in BOOLEAN /\ blind \in BOOLEAN
  BY Zenon DEF Init
<1> QED
  BY <1>1, OffersAssumption
  DEF Init, TransactionInv, TypeOK, Submission, Unsubmitted, Stopping, Processes, Executions,
      Results, Released, Places, Early, Answering, Attending, Running, Working, Helping, Records,
      Complete, StopLifecycles, TerminalLifecycles, Readable, Torn, Absent

LEMMA InvStep == TransactionInv /\ [Next]_vars => TransactionInv'
<1>1. TransactionInv /\ UNCHANGED vars => TransactionInv'
  BY DEF vars, disk, controller, manager, worker, TransactionInv, TypeOK, Submission, Unsubmitted,
         Stopping, Processes, Executions, Results, Released, Readable, Torn, Absent
<1> QED
  BY <1>1, ControllerKeeps, ManagerKeeps, WorkerKeeps, HelperKeeps, FaultKeeps, SignalKeeps DEF Next

-----------------------------------------------------------------------------
(* Safety. *)

\* In every state that can be reached.
THEOREM TransactionInvariant == Spec => []TransactionInv
  BY InvInit, InvStep, PTL DEF Spec

\* However often the manager is asked to start the unit, by the controller or by
\* somebody else, only the worker that took the execution claim mutates.
THEOREM WorkedOnce == Spec => []WorksOnce
<1>1. TransactionInv => WorksOnce
  BY DEF TransactionInv, TypeOK, WorksOnce
<1> QED
  BY <1>1, TransactionInvariant, PTL

\* A controller that offers the action anew never submitted it, and one that is
\* done with it saw its unit inactive with a result, which no later worker passes.
THEOREM QuietWhenReleased == Spec => []ReleasedIsQuiet
<1>1. TransactionInv => ReleasedIsQuiet
  <2> SUFFICES ASSUME TransactionInv, ctl \in {"idle", "over"}
               PROVE  proc \notin {"claiming", "guard", "mutate", "report"}
    BY DEF ReleasedIsQuiet
  <2>1. CASE ctl = "idle"
    BY <2>1 DEF TransactionInv, Submission, Unsubmitted, Processes, Early, Absent, Readable
  <2>2. CASE ctl = "over"
    BY <2>2 DEF TransactionInv, Released
  <2> QED
    BY <2>1, <2>2
<1> QED
  BY <1>1, TransactionInvariant, PTL

\* What denies a restarted controller its authority over an action whose unit is
\* inactive is one of the five damages that RestartableOtherwise names.
THEOREM RestartableUnlessDamaged == Spec => []RestartableOtherwise
<1>1. TransactionInv => RestartableOtherwise
  <2> SUFFICES ASSUME TransactionInv, ScanAmbiguous, ~Active,
                      \A r \in Records : ~Torn(r),
                      bundle # {} => RequestReadable,
                      ~(starts = 0 /\ Readable("submission")), ~blind
               PROVE  FALSE
    BY DEF RestartableOtherwise
  <2>1. bundle # {} /\ "request" \in bundle
    BY DEF ScanAmbiguous, RequestReadable
  <2>2. \A r \in {"submission", "execution", "result"} : ~Torn(r)
    BY DEF Records
  <2>3. unit \in {"never", "queued", "dead"}
    BY DEF TransactionInv, TypeOK, Active, Running
  <2>4. CASE Absent("result") /\ (Readable("submission") \/ Readable("execution") \/ seen)
    <3>1. starts # 0
      BY <2>4 DEF TransactionInv, Processes, Readable, Absent
    <3>2. unit = "dead" /\ Readable("result")
      BY <2>3, <3>1 DEF TransactionInv, Processes, Results
    <3> QED
      BY <2>4, <3>2 DEF Absent, Readable
  <2>5. CASE Readable("result") /\ Contradicted
    <3>1. seen /\ mres = "success" /\ outcome # "COMPLETED"
      BY <2>5 DEF Contradicted
    <3>2. unit = "dead"
      BY <2>3, <3>1 DEF TransactionInv, Processes
    <3> QED
      BY <3>1, <3>2 DEF TransactionInv, Results
  <2> QED
    BY <2>1, <2>2, <2>4, <2>5, Zenon DEF ScanAmbiguous
<1> QED
  BY <1>1, TransactionInvariant, PTL


-----------------------------------------------------------------------------
(* Refinement of WorkerUnit. *)

\* Every step of the controller is a step of the unit or none.
LEMMA ControllerSimulates == TransactionInv /\ ControllerStep => [Abstract!Next]_(Abstract!vars)
<1> SUFFICES ASSUME TransactionInv, ControllerStep
             PROVE  [Abstract!Next]_(Abstract!vars)
  OBVIOUS
<1> USE DEF TransactionInv, TypeOK, Submission, Unsubmitted, Processes, Results, Stopping,
    Early, Answering, Attending, Running, Working, Helping, Records, Places, StopLifecycles,
    TerminalLifecycles, Readable, Torn, Absent, Active, SubmittedPhase, disk, controller,
    manager, worker, Abstract!vars
<1>1. CASE CreateRequest
  BY <1>1 DEF CreateRequest
<1>2. CASE MeetRequest
  BY <1>2 DEF MeetRequest, RequestReadable, ArtifactsValid
<1>3. CASE InstallPart
  BY <1>3 DEF InstallPart, NextPart
<1>4. CASE PublishBundle
  BY <1>4 DEF PublishBundle, Control
<1>5. CASE Preflight
  BY <1>5 DEF Preflight, Control, NothingRecorded
<1>6. CASE PreflightFails
  BY <1>6 DEF PreflightFails, MarkDispatchUncertain
<1>7. CASE FenceRejects
  BY <1>7 DEF FenceRejects, Control
<1>8. CASE DiscardPart
  BY <1>8 DEF DiscardPart, Control, LastPart
<1>9. CASE DiscardFails
  BY <1>9 DEF DiscardFails, Control
<1>10. CASE FencePasses
  BY <1>10 DEF FencePasses, Control, Link, Unlink
<1>11. CASE ClaimSubmission
  BY <1>11 DEF ClaimSubmission, Control, Unlink
<1>12. CASE StartAccepted
  BY <1>12 DEF StartAccepted, Control, Abstract!Next, Abstract!Submit
<1>13. CASE StartRefused
  BY <1>13 DEF StartRefused, Control
<1>14. CASE StartUnanswered
  BY <1>14 DEF StartUnanswered, MarkDispatchUncertain, Abstract!Next, Abstract!Submit,
    Abstract!Lose
<1>15. CASE RecordRefusal
  BY <1>15 DEF RecordRefusal, Control, Link, Unlink
<1>16. CASE CompleteRefusedStart
  BY <1>16 DEF CompleteRefusedStart, Unlink, Abstract!Next, Abstract!Refuse
<1>17. CASE WatchCompletion
  BY <1>17 DEF WatchCompletion, Tell, BeginStop, Completion, Contradicted, Abstract!Next,
    Abstract!Tell
<1>18. CASE WatchLost
  BY <1>18 DEF WatchLost, BeginStop, Completion, Contradicted
<1>19. CASE CreateStopIntent
  BY <1>19 DEF CreateStopIntent, Control, Link, Unlink
<1>20. CASE InstallStopIntent
  BY <1>20 DEF InstallStopIntent, Control, Unlink
<1>21. CASE MeetStopIntent
  BY <1>21 DEF MeetStopIntent, Control
<1>22. CASE StopInactive
  BY <1>22 DEF StopInactive, Control
<1>23. CASE StopActive
  BY <1>23 DEF StopActive, Control, Abstract!Next, Abstract!End
<1>24. CASE StopReturns
  BY <1>24 DEF StopReturns, Control
<1>25. CASE StopAcknowledged
  BY <1>25 DEF StopAcknowledged, Tell, Completion, Contradicted, Abstract!Next,
    Abstract!Tell
<1>26. CASE StopDoubted
  BY <1>26 DEF StopDoubted, Control, Completion, Contradicted
<1>27. CASE RecoverUnsubmitted
  BY <1>27 DEF RecoverUnsubmitted, Control, ScanAmbiguous, RequestReadable, Contradicted
<1>28. CASE RecoverActive
  BY <1>28 DEF RecoverActive, Control, ScanAmbiguous, RequestReadable, Contradicted
<1>29. CASE RecoverEnded
  BY <1>29 DEF RecoverEnded, Tell, ScanAmbiguous, RequestReadable, Contradicted, Abstract!Next, Abstract!Tell
<1> QED
  BY <1>1, <1>2, <1>3, <1>4, <1>5, <1>6, <1>7, <1>8, <1>9, <1>10, <1>11, <1>12, <1>13,
    <1>14, <1>15, <1>16, <1>17, <1>18, <1>19, <1>20, <1>21, <1>22, <1>23, <1>24, <1>25,
    <1>26, <1>27, <1>28, <1>29, Zenon DEF ControllerStep

\* So is every step of the manager,
LEMMA ManagerSimulates == TransactionInv /\ ManagerStep => [Abstract!Next]_(Abstract!vars)
<1> SUFFICES ASSUME TransactionInv, ManagerStep
             PROVE  [Abstract!Next]_(Abstract!vars)
  OBVIOUS
<1> USE DEF TransactionInv, TypeOK, Submission, Unsubmitted, Processes, Results, Stopping,
    Early, Answering, Attending, Running, Working, Helping, Records, Places, StopLifecycles,
    TerminalLifecycles, Readable, Torn, Absent, Active, SubmittedPhase, disk, controller,
    manager, worker, Abstract!vars
<1>1. CASE StartMain
  BY <1>1 DEF StartMain
<1>2. CASE MainExits
  BY <1>2 DEF MainExits, Fails
<1>3. CASE KillAtTimeout
  BY <1>3 DEF KillAtTimeout, Fails
<1>4. CASE HelperEnds
  BY <1>4 DEF HelperEnds, Abstract!Next, Abstract!End
<1> QED
  BY <1>1, <1>2, <1>3, <1>4, Zenon DEF ManagerStep

\* the worker,
LEMMA WorkerSimulates == TransactionInv /\ WorkerStep => [Abstract!Next]_(Abstract!vars)
<1> SUFFICES ASSUME TransactionInv, WorkerStep
             PROVE  [Abstract!Next]_(Abstract!vars)
  OBVIOUS
<1> USE DEF TransactionInv, TypeOK, Submission, Unsubmitted, Processes, Results, Stopping,
    Early, Answering, Attending, Running, Working, Helping, Records, Places, StopLifecycles,
    TerminalLifecycles, Readable, Torn, Absent, Active, SubmittedPhase, disk, controller,
    manager, worker, Abstract!vars
<1>1. CASE ClaimExecution
  BY <1>1 DEF ClaimExecution, Link, Unlink, Claimable, RequestReadable, ArtifactsValid
<1>2. CASE RejectInvocation
  BY <1>2 DEF RejectInvocation, Claimable, RequestReadable, ArtifactsValid
<1>3. CASE ExecutionClaimed
  BY <1>3 DEF ExecutionClaimed, Unlink
<1>4. CASE PassGuard
  BY <1>4 DEF PassGuard, Conclude, Cancelled, ArtifactsValid
<1>5. CASE WriteResult
  BY <1>5 DEF WriteResult, Link, Unlink
<1>6. CASE ResultWritten
  BY <1>6 DEF ResultWritten, Unlink, Abstract!Next, Abstract!Report
<1> QED
  BY <1>1, <1>2, <1>3, <1>4, <1>5, <1>6, Zenon DEF WorkerStep

\* the helper,
LEMMA HelperSimulates == TransactionInv /\ HelperStep => [Abstract!Next]_(Abstract!vars)
<1> SUFFICES ASSUME TransactionInv, HelperStep
             PROVE  [Abstract!Next]_(Abstract!vars)
  OBVIOUS
<1> USE DEF TransactionInv, TypeOK, Submission, Unsubmitted, Processes, Results, Stopping,
    Early, Answering, Attending, Running, Working, Helping, Records, Places, StopLifecycles,
    TerminalLifecycles, Readable, Torn, Absent, Active, SubmittedPhase, disk, controller,
    manager, worker, Abstract!vars
<1>1. CASE HelperFinds
  BY <1>1 DEF HelperFinds
<1>2. CASE HelperGivesUp
  BY <1>2 DEF HelperGivesUp
<1>3. CASE HelperFills
  BY <1>3 DEF HelperFills, Link, Unlink, Verdict
<1>4. CASE HelperFilled
  BY <1>4 DEF HelperFilled, Unlink, Abstract!Next, Abstract!Report
<1> QED
  BY <1>1, <1>2, <1>3, <1>4, Zenon DEF HelperStep

\* and every fault.
LEMMA FaultSimulates == TransactionInv /\ Fault => [Abstract!Next]_(Abstract!vars)
<1> SUFFICES ASSUME TransactionInv, Fault
             PROVE  [Abstract!Next]_(Abstract!vars)
  OBVIOUS
<1> USE DEF TransactionInv, TypeOK, Submission, Unsubmitted, Processes, Results, Stopping,
    Early, Answering, Attending, Running, Working, Helping, Records, Places, StopLifecycles,
    TerminalLifecycles, Readable, Torn, Absent, Active, SubmittedPhase, disk, controller,
    manager, worker, Abstract!vars
<1>1. CASE AbandonDraft
  BY <1>1 DEF AbandonDraft, Control
<1>2. CASE Supersede
  BY <1>2 DEF Supersede, BeginStop
<1>3. CASE StopTimesOut
  BY <1>3 DEF StopTimesOut, Control
<1>4. CASE Crash
  BY <1>4 DEF Crash, Control, Abstract!Next, Abstract!Lose
<1>5. CASE DropJob
  BY <1>5 DEF DropJob, Abstract!Next, Abstract!End
<1>6. CASE KillFromOutside
  BY <1>6 DEF KillFromOutside, Fails
<1>7. CASE LoseHelper
  BY <1>7 DEF LoseHelper, Abstract!Next, Abstract!End
<1>8. CASE Collect
  BY <1>8 DEF Collect
<1>9. CASE Reinvoke
  BY <1>9 DEF Reinvoke, Abstract!Next, Abstract!Again
<1>10. CASE StopAgain
  BY <1>10 DEF StopAgain, BeginStop
<1> QED
  BY <1>1, <1>2, <1>3, <1>4, <1>5, <1>6, <1>7, <1>8, <1>9, <1>10, Zenon DEF Fault

\* Time and signals.
LEMMA SignalSimulates == TransactionInv /\ (Deadline \/ FinishWork \/ Sigterm \/ SigtermDeferred) => [Abstract!Next]_(Abstract!vars)
<1> SUFFICES ASSUME TransactionInv, (Deadline \/ FinishWork \/ Sigterm \/ SigtermDeferred)
             PROVE  [Abstract!Next]_(Abstract!vars)
  OBVIOUS
<1> USE DEF TransactionInv, TypeOK, Submission, Unsubmitted, Processes, Results, Stopping,
    Early, Answering, Attending, Running, Working, Helping, Records, Places, StopLifecycles,
    TerminalLifecycles, Readable, Torn, Absent, Active, SubmittedPhase, disk, controller,
    manager, worker, Abstract!vars
<1>1. CASE Deadline
  BY <1>1 DEF Deadline, Fails
<1>2. CASE FinishWork
  BY <1>2 DEF FinishWork, Conclude, Cancelled
<1>3. CASE Sigterm
  BY <1>3 DEF Sigterm, Unlink, Fails, InterruptedOutcome, Abstract!Next, Abstract!Report
<1>4. CASE SigtermDeferred
  BY <1>4 DEF SigtermDeferred
<1> QED
  BY <1>1, <1>2, <1>3, <1>4

\* The controller's four records, the manager and the two processes implement the
\* unit of module WorkerUnit: submitted once, one verdict, told when it has ended.
THEOREM TransactionIsWorkerUnit == Spec => ImplementsWorkerUnit
<1>1. Init => Abstract!Init
  BY DEF Init, Abstract!Init, SubmittedPhase, Active, Absent, Readable, Records
<1>2. TransactionInv /\ [Next]_vars => [Abstract!Next]_(Abstract!vars)
  <2>1. TransactionInv /\ UNCHANGED vars => UNCHANGED Abstract!vars
    BY DEF vars, disk, controller, manager, worker, Abstract!vars, SubmittedPhase, Active, Absent,
           Readable
  <2> QED
    BY <2>1, ControllerSimulates, ManagerSimulates, WorkerSimulates, HelperSimulates,
       FaultSimulates, SignalSimulates DEF Next
<1> QED
  BY <1>1, <1>2, TransactionInvariant, PTL DEF Spec, ImplementsWorkerUnit, Abstract!Spec

=============================================================================
