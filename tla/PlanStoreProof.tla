--------------------------- MODULE PlanStoreProof ---------------------------
(***************************************************************************)
(* The plan store keeps its promises for any number of crashes and reads.  *)
(***************************************************************************)
EXTENDS PlanStore, TLAPS

\* The publisher has not published, and never published before.
Early ==
    at["publisher"] \in {Idle} \cup
        {"plan"} \X {"load", "begin", "write", "written", "rename"}

Opened(t) == at[t][1] \in {"read", "discard"} /\ at[t][2] \notin {"check", "open"}
Removing(t) == at[t] = <<"discard", "remove">>

\* The controller's discard is over.
DiscardOver == Ended("controller") /\ ~At("controller", "ended", "unrevoked")

\* A bundle is whole before it is published.
WrittenWhole ==
    at["publisher"] \in {<<"plan", "written">>, <<"plan", "rename">>}
    => place = "temporary" /\ files = Files

\* What is to be published was never there for anybody to open.
NotYet == Early => place /= "published" /\ \A t \in Threads : ~Opened(t)

\* A thread that removes files has taken the directory from its name.
RemovesDetached == \A t \in Threads : Removing(t) => place /= "published"

\* Only a whole marker lets a discard begin.
DiscardsRevoked ==
    /\ \A t \in Threads : at[t][1] = "discard" => marker = "whole"
    /\ At("controller", "revoke", "revoked") => marker = "whole"
    /\ DiscardOver => marker = "whole"

\* The metadata a thread saw are still the directory's exactly while the plan
\* is published.
SeenIsPublished ==
    \A t \in Threads :
        /\ seen[t] <= version
        /\ Opened(t) /\ ~Removing(t) => (seen[t] = version <=> place = "published")

\* After the controller's discard a plan that is published has its publisher
\* about to take it back.
TakenBack ==
    DiscardOver /\ place = "published"
    => \/ At("publisher", "plan", "published")
       \/ at["publisher"][1] = "discard"

\* The inductive invariant.
StoreInv ==
    /\ TypeOK /\ PublishedIsWhole /\ WrittenWhole /\ NotYet /\ RemovesDetached
    /\ DiscardsRevoked /\ SeenIsPublished /\ TakenBack

----------------------------------------------------------------------------

\* The store starts empty.
LEMMA StoreInvInit == Init => StoreInv
<1> SUFFICES ASSUME Init
             PROVE  StoreInv
  OBVIOUS
<1> USE DEF Init, Idle
<1>1. \A t \in Threads : at[t] = Idle /\ seen[t] = 0
  OBVIOUS
<1>2. TypeOK
  <2>1. Idle \in Positions
    BY DEF Positions
  <2>2. at \in [Threads -> Positions] /\ seen \in [Threads -> Nat]
    <3> HIDE DEF Idle
    <3> QED
      BY <2>1
  <2>3. cancelled \in BOOLEAN /\ reported \in BOOLEAN
    BY Zenon
  <2>4. crashes \in 0..MaxCrashes /\ reads \in 0..MaxReads
    BY PlanStoreAssumption
  <2> QED
    BY <2>2, <2>3, <2>4 DEF TypeOK
<1>3. NotYet /\ RemovesDetached /\ SeenIsPublished
  BY <1>1 DEF NotYet, RemovesDetached, SeenIsPublished, Opened, Removing
<1>4. PublishedIsWhole /\ WrittenWhole
  BY <1>1 DEF PublishedIsWhole, WrittenWhole, Threads
<1>5. DiscardsRevoked /\ TakenBack
  BY <1>1 DEF DiscardsRevoked, TakenBack, DiscardOver,
     Threads, At, Ended
<1> QED
  BY <1>2, <1>3, <1>4, <1>5 DEF StoreInv

\* Reading, by whichever thread, disturbs nothing; and a thread that is about to
\* discard gives up only on a plan that is no longer published.
LEMMA ReadingKeeps ==
    ASSUME StoreInv, NEW t \in Threads, NEW activity,
           <<t, activity>> \in {<<"publisher", "read">>, <<"publisher", "discard">>,
                               <<"controller", "discard">>, <<"worker", "read">>},
           ReadPublished(t, activity)
    PROVE  StoreInv'
<1> USE PlanStoreAssumption
    DEF StoreInv, TypeOK, PublishedIsWhole, WrittenWhole, NotYet, RemovesDetached,
        DiscardsRevoked, SeenIsPublished, TakenBack, Early,
        Opened, Removing, DiscardOver, Threads, Positions, Goes, Ends, At, Ended,
        Idle, directory, counts
<1> USE DEF Missing
<1> UNCHANGED <<directory, marker, cancelled, reported, counts>>
  BY DEF ReadPublished
<1>1. CASE OpenPlan(t, activity)
  BY <1>1 DEF OpenPlan
<1>2. ASSUME NEW file \in Files, NEW next \in {"artifact", "list", "compare"},
             ReadFile(t, activity, file, next)
      PROVE  StoreInv'
  BY <1>2 DEF ReadFile, Files
<1>3. CASE ListFiles(t, activity)
  BY <1>3 DEF ListFiles
<1>4. CASE CompareDetails(t, activity)
  BY <1>4 DEF CompareDetails, Validated
<1> QED
  BY <1>1, <1>2, <1>3, <1>4 DEF ReadPublished, Files

\* Nor does a discard, whichever of the two threads makes it.
LEMMA DiscardKeeps ==
    ASSUME StoreInv, NEW t \in {"publisher", "controller"}, DiscardPublished(t)
    PROVE  StoreInv'
<1> USE PlanStoreAssumption
    DEF StoreInv, TypeOK, PublishedIsWhole, WrittenWhole, NotYet, RemovesDetached,
        DiscardsRevoked, SeenIsPublished, TakenBack, Early,
        Opened, Removing, DiscardOver, Threads, Positions, Goes, Ends, At, Ended,
        Idle, directory, counts
<1>1. CASE ReadPublished(t, "discard")
  <2> HIDE DEF StoreInv
  <2> QED
    BY <1>1, ReadingKeeps
<1>2. ASSUME OpenSource(t), UNCHANGED <<marker, seen, cancelled, reported, counts>>
      PROVE  StoreInv'
  BY <1>2 DEF OpenSource
<1>3. ASSUME Detach(t), UNCHANGED <<marker, seen, cancelled, reported, counts>>
      PROVE  StoreInv'
  BY <1>3 DEF Detach
<1>4. ASSUME RemoveTree(t), UNCHANGED <<marker, seen, cancelled, reported, counts>>
      PROVE  StoreInv'
  BY <1>4 DEF RemoveTree
<1> QED
  BY <1>1, <1>2, <1>3, <1>4 DEF DiscardPublished

\* The publisher.
LEMMA PublisherKeeps ==
    ASSUME StoreInv, Publisher
    PROVE  StoreInv'
<1> USE PlanStoreAssumption
    DEF StoreInv, TypeOK, PublishedIsWhole, WrittenWhole, NotYet, RemovesDetached,
        DiscardsRevoked, SeenIsPublished, TakenBack, Early,
        Opened, Removing, DiscardOver, Threads, Positions, Goes, Ends, At, Ended,
        Idle, directory, counts
<1>1. CASE LoadInputs
  BY <1>1 DEF LoadInputs
<1>2. CASE StageBegin
  BY <1>2 DEF StageBegin, Unrevoked
<1>3. CASE WriteBundle
  BY <1>3 DEF WriteBundle
<1>4. CASE CheckBeforePublication
  BY <1>4 DEF CheckBeforePublication, Unrevoked
<1>5. CASE RenameNoreplace
  BY <1>5 DEF RenameNoreplace
<1>6. CASE CheckAfterPublication
  <2>1. CASE marker = "none"
    BY <1>6, <2>1 DEF CheckAfterPublication, Staged
  <2>2. CASE marker = "partial"
    BY <1>6, <2>2 DEF CheckAfterPublication, Staged
  <2>3. CASE marker = "whole"
    BY <1>6, <2>3 DEF CheckAfterPublication, Staged
  <2> QED
    BY <2>1, <2>2, <2>3
<1>7. CASE VerifyStaged
  BY <1>7 DEF VerifyStaged, BeginRead
<1>8. CASE ReportPlan
  BY <1>8 DEF ReportPlan
<1>9. CASE DiscardPublished("publisher")
  <2> HIDE DEF StoreInv
  <2> QED
    BY <1>9, DiscardKeeps
<1>10. CASE ReadPublished("publisher", "read")
  <2> HIDE DEF StoreInv
  <2> QED
    BY <1>10, ReadingKeeps DEF Threads
<1> HIDE DEF StoreInv
<1> QED
  BY <1>1, <1>2, <1>3, <1>4, <1>5, <1>6, <1>7, <1>8, <1>9, <1>10 DEF Publisher

\* The controller.
LEMMA ControllerKeeps ==
    ASSUME StoreInv, Controller
    PROVE  StoreInv'
<1> USE PlanStoreAssumption
    DEF StoreInv, TypeOK, PublishedIsWhole, WrittenWhole, NotYet, RemovesDetached,
        DiscardsRevoked, SeenIsPublished, TakenBack, Early,
        Opened, Removing, DiscardOver, Threads, Positions, Goes, Ends, At, Ended,
        Idle, directory, counts
<1>1. CASE Revoke
  BY <1>1 DEF Revoke, Waited
<1>2. CASE WriteMarker
  BY <1>2 DEF WriteMarker
<1>3. CASE RevocationTimesOut
  BY <1>3 DEF RevocationTimesOut, Waited
<1>4. CASE CancelAndDiscard
  BY <1>4 DEF CancelAndDiscard
<1>5. CASE DiscardBegin
  BY <1>5 DEF DiscardBegin
<1>6. CASE DiscardPublished("controller")
  <2> HIDE DEF StoreInv
  <2> QED
    BY <1>6, DiscardKeeps
<1> HIDE DEF StoreInv
<1> QED
  BY <1>1, <1>2, <1>3, <1>4, <1>5, <1>6 DEF Controller

\* A worker.
LEMMA WorkerKeeps ==
    ASSUME StoreInv, Worker
    PROVE  StoreInv'
<1> USE PlanStoreAssumption
    DEF StoreInv, TypeOK, PublishedIsWhole, WrittenWhole, NotYet, RemovesDetached,
        DiscardsRevoked, SeenIsPublished, TakenBack, Early,
        Opened, Removing, DiscardOver, Threads, Positions, Goes, Ends, At, Ended,
        Idle, directory, counts
<1>1. CASE WorkerReads
  BY <1>1 DEF WorkerReads, BeginRead
<1>2. CASE ReadPublished("worker", "read")
  <2> HIDE DEF StoreInv
  <2> QED
    BY <1>2, ReadingKeeps DEF Threads
<1> HIDE DEF StoreInv
<1> QED
  BY <1>1, <1>2 DEF Worker

\* Requests, a planning that takes too long, and crashes.
LEMMA EventsKeep ==
    ASSUME StoreInv, RequestPlan \/ PlanningTimesOut \/ DiscardRequested \/ Crash
    PROVE  StoreInv'
<1> USE PlanStoreAssumption
    DEF StoreInv, TypeOK, PublishedIsWhole, WrittenWhole, NotYet, RemovesDetached,
        DiscardsRevoked, SeenIsPublished, TakenBack, Early,
        Opened, Removing, DiscardOver, Threads, Positions, Goes, Ends, At, Ended,
        Idle, directory, counts
<1>1. CASE RequestPlan
  BY <1>1 DEF RequestPlan
<1>2. CASE PlanningTimesOut
  BY <1>2 DEF PlanningTimesOut
<1>3. CASE DiscardRequested
  BY <1>3 DEF DiscardRequested
<1>4. CASE Crash
  BY <1>4 DEF Crash
<1> HIDE DEF StoreInv
<1> QED
  BY <1>1, <1>2, <1>3, <1>4

\* Every step keeps the invariant.
LEMMA StoreInvStep == StoreInv /\ [Next]_vars => StoreInv'
<1> SUFFICES ASSUME StoreInv, [Next]_vars
             PROVE  StoreInv'
  OBVIOUS
<1>1. CASE Next
  BY <1>1, PublisherKeeps, ControllerKeeps, WorkerKeeps, EventsKeep DEF Next
<1>2. CASE UNCHANGED vars
  BY <1>2
  DEF vars, StoreInv, TypeOK, PublishedIsWhole, WrittenWhole, NotYet,
      RemovesDetached, DiscardsRevoked, SeenIsPublished, TakenBack, Early,
      Opened, Removing, DiscardOver, At, Ended
<1> QED
  BY <1>1, <1>2

\* It always holds.
LEMMA StoreInvariant == Spec => []StoreInv
  BY StoreInvInit, StoreInvStep, PTL DEF Spec

----------------------------------------------------------------------------

\* The variables of the store keep their types.
THEOREM PlanStoreTypes == Spec => []TypeOK
<1>1. StoreInv => TypeOK
  BY DEF StoreInv
<1> QED
  BY <1>1, StoreInvariant, PTL

\* Nothing but a whole bundle ever stands under a plan's name, however staging,
\* discards (_discard_published) and crashes interleave.
THEOREM PlansAreWhole == Spec => []PublishedIsWhole
<1>1. StoreInv => PublishedIsWhole
  BY DEF StoreInv
<1> QED
  BY <1>1, StoreInvariant, PTL

\* When the controller's discard and the publisher's thread are over, a revoked
\* plan is not published, however late the publication came.
THEOREM RevokedPlansGo == Spec => []RevokedIsGone
<1>1. StoreInv => RevokedIsGone
  BY DEF StoreInv, TypeOK, Threads, TakenBack, DiscardOver, RevokedIsGone, Ended, At
<1> QED
  BY <1>1, StoreInvariant, PTL

\* A read that succeeds returns a plan that is published and whole at that moment:
\* from the comparison of the directory's metadata in
\* _read_published_with_identity.
THEOREM ReadsArePublished == Spec => ReadIsPublished
<1>1. ASSUME StoreInv, [Next]_vars,
             At("worker", "read", "compare"), At("worker", "ended", "read")'
      PROVE  place = "published" /\ files = Files
  <2> USE <1>1 DEF At, Goes, Ends, StoreInv, TypeOK, Threads
  <2>1. at'["worker"] /= at["worker"]
    OBVIOUS
  <2>2. ~ReadPublished("publisher", "read") /\ ~DiscardPublished("publisher")
    BY <2>1 DEF DiscardPublished, ReadPublished, OpenPlan, ReadFile, ListFiles,
       CompareDetails, Validated, Missing, OpenSource, Detach, RemoveTree
  <2>3. ~DiscardPublished("controller")
    BY <2>1 DEF DiscardPublished, ReadPublished, OpenPlan, ReadFile, ListFiles,
       CompareDetails, Validated, Missing, OpenSource, Detach, RemoveTree
  <2>4. ~Publisher
    BY <2>1, <2>2 DEF Publisher, LoadInputs, StageBegin, WriteBundle,
       CheckBeforePublication, RenameNoreplace, CheckAfterPublication, VerifyStaged,
       ReportPlan, Unrevoked, Staged, BeginRead
  <2>5. ~Controller
    BY <2>1, <2>3 DEF Controller, Revoke, WriteMarker, RevocationTimesOut,
       CancelAndDiscard, DiscardBegin
  <2>6. ~(RequestPlan \/ PlanningTimesOut \/ DiscardRequested \/ Crash)
    BY <2>1 DEF RequestPlan, PlanningTimesOut, DiscardRequested, Crash
  <2>7. Worker
    BY <2>1, <2>4, <2>5, <2>6 DEF Next, vars
  <2>8. CompareDetails("worker", "read")
    BY <2>7 DEF Worker, WorkerReads, Ended, Idle, ReadPublished, OpenPlan, ReadFile,
       ListFiles
  <2> QED
    BY <2>8 DEF CompareDetails, StoreInv, SeenIsPublished, PublishedIsWhole,
       Opened, Removing
<1> QED
  BY <1>1, StoreInvariant, PTL DEF Spec, ReadIsPublished

\* A published plan is taken away only after its revocation is whole, by whichever
\* thread: what AtomicPlanStore.discard and the last check of stage are for.
THEOREM DiscardsAreRevoked == Spec => DiscardsOnlyRevoked
<1>1. ASSUME StoreInv, [Next]_vars, place = "published", place' /= "published"
      PROVE  marker = "whole"
  <2> USE <1>1
  <2>1. ASSUME NEW t \in Threads, Detach(t)
        PROVE  marker = "whole"
    BY <2>1 DEF Detach, At, StoreInv, DiscardsRevoked
  <2>2. ASSUME NEW t \in Threads, RemoveTree(t)
        PROVE  FALSE
    BY <2>2 DEF RemoveTree, At, StoreInv, RemovesDetached, Removing
  <2>3. ~CheckBeforePublication /\ ~WriteBundle
    BY DEF CheckBeforePublication, WriteBundle, At, StoreInv, WrittenWhole, NotYet, Early,
       directory
  <2>4. \E t \in Threads : Detach(t) \/ RemoveTree(t)
    BY <2>3
    DEF Next, vars, Publisher, Controller, Worker, RequestPlan, PlanningTimesOut, LoadInputs,
        StageBegin, RenameNoreplace, CheckAfterPublication, VerifyStaged, ReportPlan,
        DiscardRequested, Revoke, WriteMarker, RevocationTimesOut, CancelAndDiscard,
        DiscardBegin, Crash, WorkerReads, DiscardPublished, ReadPublished, OpenSource,
        directory, Threads
  <2> QED
    BY <2>1, <2>2, <2>4
<1> QED
  BY <1>1, StoreInvariant, PTL DEF Spec, DiscardsOnlyRevoked

=============================================================================
