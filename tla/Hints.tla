------------------------------- MODULE Hints -------------------------------
(***************************************************************************)
(* What tells the controller of changes that raise no kernel event: the    *)
(* poller of the record that a manual autorandr leaves                     *)
(* (PostswitchNotificationMonitor of postswitch.py) and the poller of the  *)
(* screens' power (DisplayWakeMonitor of runtime/display_wake.py), with    *)
(* the observations they ask for (runtime/controller.py).                  *)
(*                                                                         *)
(* The hook that writes the record is another process: it may write        *)
(* between any two system calls of the poller.                             *)
(***************************************************************************)
EXTENDS Naturals

CONSTANTS
    MaxLoads,      \* bound on the manual loads
    MaxCrashes     \* bound on the restarts of the controller

ASSUME HintsAssumption == MaxLoads \in Nat /\ MaxCrashes \in Nat

VARIABLES
    loads,         \* the manual loads so far
    hook,          \* whether the hook of the last load has still to run
    announced,     \* the last load that left a valid record
    record,        \* the record file
    misfiled,      \* the last load whose valid record a malformed one took along
    poller,        \* what the poller has read and not yet taken away
    power,         \* the screens' power
    wake,          \* the sample for which power is being read: none, still
                   \* the latest, or an older one
    hinted,        \* whether the latest sample was hinted for
    due,           \* whether an observation is due
    sample,        \* the loads that a sample under way shows; none under way
    latest,        \* the power in the latest sample
    covered,       \* the loads the latest sample shows
    crashes
vars == <<loads, hook, announced, record, misfiled, poller, power, wake, hinted, due,
          sample, latest, covered, crashes>>
world == <<loads, hook, announced, power, crashes>>
samples == <<sample, latest, covered>>

NoSample == MaxLoads + 1

----------------------------------------------------------------------------
(* The user: a manual load and the hook it runs, and the screens.          *)

ManualLoad ==
    /\ loads < MaxLoads
    /\ ~hook
    /\ loads' = loads + 1
    /\ hook' = TRUE
    /\ UNCHANGED <<announced, record, misfiled, poller, power, wake, hinted, due, samples, crashes>>

\* The record replaces one that nobody has read.
HookWrites ==
    /\ hook
    /\ hook' = FALSE
    /\ record' \in {"valid", "malformed"}
    /\ announced' = IF record' = "valid" THEN loads ELSE announced
    /\ misfiled' = IF record' = "malformed" /\ record = "valid" /\ poller /= "valid"
                   THEN announced ELSE misfiled
    /\ UNCHANGED <<loads, poller, power, wake, hinted, due, samples, crashes>>

\* The hook has nowhere to write, or cannot: it says so and leaves no record.
HookDefers ==
    /\ hook
    /\ hook' = FALSE
    /\ UNCHANGED <<loads, announced, record, misfiled, poller, power, wake, hinted, due,
                   samples, crashes>>

ScreensChange ==
    /\ power' = IF power = "on" THEN "asleep" ELSE "on"
    /\ UNCHANGED <<loads, hook, announced, record, misfiled, poller, wake, hinted, due,
                   samples, crashes>>

----------------------------------------------------------------------------
(* The poller of the record: read_notification and poll_once.              *)

ReadRecord ==
    /\ poller = "idle"
    /\ record /= "none"
    /\ poller' = record
    /\ UNCHANGED <<world, record, misfiled, wake, hinted, due, samples>>

\* Whatever record is there now is removed, and the controller is told after.
Consume ==
    /\ poller = "valid"
    /\ poller' = "idle"
    /\ record' = "none"
    /\ due' = TRUE
    /\ UNCHANGED <<world, misfiled, wake, hinted, samples>>

\* _quarantine: whatever record is there now is moved aside; a move that fails
\* leaves it, to be read again.
Quarantine ==
    /\ poller = "malformed"
    /\ poller' = "idle"
    /\ \/ /\ record' = "none"
          /\ misfiled' = IF record = "valid" THEN announced ELSE misfiled
       \/ UNCHANGED <<record, misfiled>>
    /\ UNCHANGED <<world, wake, hinted, due, samples>>

\* Mutant of Postswitch: the controller is told of a record before it is removed.
PostswitchTellsFirst ==
    \/ /\ poller = "idle" /\ record /= "none"
       /\ poller' = record
       /\ due' = TRUE
       /\ UNCHANGED <<world, record, misfiled, wake, hinted, samples>>
    \/ /\ poller = "valid"
       /\ poller' = "idle" /\ record' = "none"
       /\ UNCHANGED <<world, misfiled, wake, hinted, due, samples>>
    \/ Quarantine

Postswitch == ReadRecord \/ Consume \/ Quarantine

----------------------------------------------------------------------------
(* The poller of the screens: poll_once.                                   *)

\* Mutant of StartPoll: the sample counts as hinted for as soon as it is seen.
StartPollHinted ==
    /\ wake = "none"
    /\ latest = "asleep"
    /\ ~hinted
    /\ wake' = "latest"
    /\ hinted' = TRUE
    /\ UNCHANGED <<world, record, misfiled, poller, due, samples>>

StartPoll ==
    /\ wake = "none"
    /\ latest = "asleep"
    /\ ~hinted
    /\ wake' = "latest"
    /\ UNCHANGED <<world, record, misfiled, poller, hinted, due, samples>>

\* The screens are on, or DPMS gives no readable answer, which counts as on.  The
\* answer may be about a sample that is no longer the latest.
ScreensOn ==
    /\ wake /= "none"
    /\ wake' = "none"
    /\ hinted' = (hinted \/ wake = "latest")
    /\ due' = TRUE
    /\ UNCHANGED <<world, record, misfiled, poller, samples>>

\* The screens sleep, or the command could not be run.
PollAgain ==
    /\ wake /= "none"
    /\ wake' = "none"
    /\ UNCHANGED <<world, record, misfiled, poller, hinted, due, samples>>

----------------------------------------------------------------------------
(* The controller: a hint leads to an observation, which takes time.       *)

StartObservation ==
    /\ due
    /\ sample = NoSample
    /\ due' = FALSE
    /\ sample' = loads
    /\ UNCHANGED <<world, record, misfiled, poller, wake, hinted, latest, covered>>

\* Power is read at some moment of the sample; an unreadable answer counts as on.
EndObservation ==
    /\ sample /= NoSample
    /\ sample' = NoSample
    /\ covered' = sample
    /\ latest' \in {power, "on"}
    /\ hinted' = FALSE
    /\ wake' = IF wake = "latest" THEN "older" ELSE wake
    /\ UNCHANGED <<world, record, misfiled, poller, due>>

\* A sample that fails is taken again.
FailObservation ==
    /\ sample /= NoSample
    /\ sample' = NoSample
    /\ due' = TRUE
    /\ UNCHANGED <<world, record, misfiled, poller, wake, hinted, latest, covered>>

\* The controller starts again with the state and the record it finds, and
\* observes.
Restart ==
    /\ crashes < MaxCrashes
    /\ crashes' = crashes + 1
    /\ poller' = "idle" /\ wake' = "none" /\ hinted' = FALSE
    /\ sample' = NoSample /\ due' = TRUE
    /\ UNCHANGED <<loads, hook, announced, record, misfiled, power, latest, covered>>

Init ==
    /\ loads = 0 /\ hook = FALSE /\ announced = 0 /\ record = "none" /\ misfiled = 0
    /\ poller = "idle"
    /\ power \in {"on", "asleep"}
    /\ wake = "none" /\ hinted = FALSE
    /\ due = TRUE /\ sample = NoSample
    /\ latest = "none" /\ covered = 0
    /\ crashes = 0

Next ==
    \/ ManualLoad \/ HookWrites \/ HookDefers \/ ScreensChange
    \/ Postswitch
    \/ StartPoll \/ ScreensOn \/ PollAgain
    \/ StartObservation \/ EndObservation \/ FailObservation
    \/ Restart

Spec == Init /\ [][Next]_vars

\* The pollers and the controller run on; a sample and a reading of screens that
\* are on, which may fail, do not fail for ever.
Fairness ==
    /\ WF_vars(Postswitch)
    /\ WF_vars(StartPoll) /\ SF_vars(ScreensOn /\ power = "on")
    /\ WF_vars(StartObservation) /\ SF_vars(EndObservation)

FairSpec == Spec /\ Fairness

----------------------------------------------------------------------------
(* Properties.                                                             *)

\* Every manual load that left a valid record is followed by a sample that shows
\* it, although a record may replace another unread, or be removed unread by the
\* poller that has just read the one before; except where a malformed record takes
\* it along: one that replaces it unread, or one whose quarantine, a moment after it
\* was read, moves the valid record aside in its stead.
ManualLoadIsSeen ==
    \A n \in 1..MaxLoads : announced >= n ~> (covered >= n \/ misfiled >= n)

\* Screens that stay on are seen on in the end: the hint given at most once for a
\* sample is enough, whatever samples, failures and restarts it meets.
WakeIsSeen == <>[](power = "on") => <>[](latest = "on")

=============================================================================
