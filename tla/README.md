# Monitor controller: a TLA+ verification project

The repository is a desktop configuration. Nearly all of its own program logic
is one service, the *monitor controller*
(`src/.local/lib/monitor-controller/monitor_controller`, about 31 000 lines of
Python): it watches the display hardware of a laptop, decides which autorandr
profile belongs to it, starts worker units that probe, apply, prepare and
finalize, and recovers its place after a crash, a restart or a reboot. This
project models the controller's core and the parts around it that share state with
it, checks them with TLC and proves part of them with TLAPS. Paths below are relative to that package unless they start with
`src/`.

## 1. Inventory

| Component | State it keeps | Operations | Talks to |
|---|---|---|---|
| reducer (`reducer.py`) | none: a pure function of `State` | `reduce(state, event)`, 20 events | called by the controller and by recovery |
| state model (`model.py`) | `State`: phase, plan and preparation state, latest sample, epoch, candidate, attempts, five actions, tombstones | constructors and their checks | everything |
| checks (`invariants.py`, `codec.py`) | none | `assert_controller_invariants`, the codec's relations | run on every decision before it is saved |
| controller (`runtime/controller.py`) | event queue, generation, the plan task, worker monitors, an open dispatch | start, process an event, perform each effect, close | observer, planner, dispatcher, store |
| scheduler (`runtime/scheduler.py`) | one deadline | replace, fire | controller |
| store (`runtime/persistence.py`) | the state file | load, save | controller |
| recovery (`runtime/recovery.py`) | none | `recover_state`: replay what was missed, grant or refuse authority | reducer, the scan of units |
| transactions (`runtime/transactions.py`) | one directory per action: request, claims, stop intent, result | create-once records | controller and worker |
| systemd adapter (`runtime/systemd.py`, `dispatcher.py`) | units | prepare, start, stop, query, scan | service manager |
| workers (`workers/*`) | their stage | guard, claim execution, mutate X or the desktop, record a result | X, autorandr, Fluxbox, panels |
| observer (`observer/*`) | the last planning capture | one canonical sample from xrandr, autorandr and sysfs | X, kernel |
| planner (`desktop/*`) | plan files | make, revoke, discard a plan | configuration |
| display wake (`runtime/display_wake.py`) | the sample it hinted for | poll DPMS while asleep | controller |
| postswitch (`postswitch.py`, `src/.config/autorandr/postswitch`) | the record a manual load leaves | write (hook), read, remove, quarantine | controller |
| authority locks (`active.py`, `composition.py`, `shadow.py`, `cutover.py`) | two locked files | look at the shadow's lock, acquire, release | every process that starts |
| shadow, cutover, CLI, simulation, audit | logs, traces | run without authority, report, replay | operator |
| dotfiles, older watchers (`src/bin/monitor-watcher*`) | none | | |

What makes it hard:

* **Interleaving.** One consumer handles events, but an effect that waits (a
  sample, a start, a stop) sees hints arrive and workers end meanwhile. A
  dispatch is offered, the queue is drained under the open offer, a last fence is
  checked, and only then is a unit submitted.
* **Crashes.** The state is saved before effects are performed. A crash may fall
  between a submission and its acknowledgement, after a worker ended and before
  its result was read, or while a plan is being made in memory.
* **Uncertain workers.** A start may time out, a status query may fail, a worker
  may pass its deadline, lose its result, or succeed just before a stop arrives.
* **Stale samples.** A sample takes many commands; its event generation may be
  older or newer than what the reducer has processed.
* **Create-once files.** Every hand-over between processes (bundles, claims, stop
  intents, results, plans, the state itself) is a file written elsewhere and then
  linked or renamed into place. Each has an instant in which it is neither absent
  nor readable, and several processes may write or remove the same one.
* **Torn samples.** A sample is eight readings of hardware and X that change
  meanwhile; a worker samples again before each command and may still be late.
* **Pollers.** Changes that raise no kernel event (a manual load, screens that wake)
  reach the controller only by polls that may race what they read.
* **Self-checking.** Every decision is checked after it is made; one that fails
  raises and ends the process. So a defect in the reducer is an outage.

What makes each component correct: the reducer decides every event with a state
that passes the checks; never two workers run at once, whatever is lost; the
laptop's profile is not loaded while a dock may be present; a desktop counts as
finalized only when a worker finalized it; recovery always ends, in authority or
in a refusal that a human must resolve; and a controller that is not at rest
always has something that will wake it. Around it: an action is worked on once and
its result is the one its controller is told; the state file is a durable register;
a worker acts on a fresh sample only and never calls a partial desktop complete; a
sample shows what was there; a plan is whole or absent; no hint is lost; and one
process at most has display authority.

## 2. Modules

```
Policy -> Observe -> Reducer -> Invariants -> Recovery -> Controller -> StopIntents
                                                 |             |
                                           ReducerProof -> ControllerProof
```

(each module extends the one to its left; `ReducerProof` extends `Recovery`, and
`ControllerProof` also `Controller`. `MCController` extends `Controller`, `MCStops` extends it and
`StopIntents`, and `MCUnplug` extends it with a history variable.)

The parts around the controller are modules of their own, each with the interface
that the modules next to it rely on:

```
Transactions --refines--> WorkerUnit      (the `units` of Controller)
Store        --refines--> Register        (the saved `st` of Controller)
Workers                                   (what happens inside a unit that is alive)
Snapshot -> Mapping <- MappingSearch      (where the facts of a sample come from)
PlanStore                                 (the plan file of Controller's `task`)
Hints                                     (where hints other than the kernel's come from)
Authority                                 (that there is one controller)
```

| Module | Models | Contents |
|---|---|---|
| `Policy` | `model.py`, the small helpers of `reducer.py` | the facts of a sample, actions, the state record, decisions, tombstones, time |
| `Observe` | the classification half of `_observe` | waiting, admission, verification, unplug proof, epochs, pending admissions |
| `Reducer` | the events of `reduce` | one operator per event: state and payload to decision |
| `Invariants` | `invariants.py`, `codec.py`, `State.__post_init__` | one predicate per check; `FailedChecks(s)` names those a state fails |
| `Recovery` | `runtime/recovery.py`, `load_active_state` | `Reconciled` (missed results replayed), `Granted` (authority) |
| `Controller` | `runtime/controller.py`, `scheduler.py`, crashes | the state machine: variables, actions, specification, safety properties |
| `StopIntents` | `create_stop_intent` of `runtime/transactions.py`, `SystemdDispatcher.stop`, `_stop_action` | the stop intents beside the controller; fairness and the liveness properties |
| `MCController`, `MCStops` | | the samples the runs choose from |
| `MCUnplug` | | a history of the samples without external hardware, and what the unplug proof must have seen |
| `ReducerProof` | | lemmas, one per reducer operator: types, what becomes of the mutators, then of proofs, plans, loads, the record of the finalized desktop and timers |
| `ControllerProof` | | theorems: type correctness, mutual exclusion of workers, what becomes of plans, loads, results and wake-ups, and that a restart is granted |
| `Transactions`, `TransactionsProof` | `runtime/transactions.py`, `runtime/systemd.py`, `workers/common.py`, the unit files | the records of one action; steps of controller, manager, worker and `ExecStopPost` helper; faults |
| `WorkerUnit` | | what that protocol promises: submitted once, one verdict, told the verdict |
| `Store`, `StoreProof` | `runtime/persistence.py` | the system calls of `save`, with power loss, kills and errors between any two |
| `Register` | | what the controller assumes of its saved state |
| `Workers`, `WorkersProof` | `workers/probe.py`, `apply.py`, `prepare.py`, `finalize.py`, `desktop_guard.py`, `desktop/panel.py`, `tray.py`, the fence of `active.py` | boundaries, commands and waits of the workers beside a changing desktop |
| `Snapshot`, `SnapshotProof` | `observer/snapshot.py`, `topology.py`, `drm.py`, `xrandr.py`, `autorandr.py` | the readings of a sample in order, and the observation derived from them |
| `Mapping` | `observer/mapping.py` | what `unique_bijection` returns: the only complete matching; used by `Snapshot` |
| `MappingSearch` | `observer/mapping.py` | the search that finds it, as a recursive operator (TLC only) |
| `PlanStore`, `PlanStoreProof` | `desktop/plan_codec.py`, `desktop/planner.py`, `safeio.py`, `_run_plan`/`_discard_plan` | staging, revocation, discarding and reading of a plan by three threads |
| `Hints` | `postswitch.py`, the hook, `runtime/display_wake.py` | the two pollers, the record, and the samples they ask for |
| `Authority`, `AuthorityProof` | `active.py`, `composition.py`, `shadow.py`, `cutover.py` | the two authority locks |
| `AuthorityHistory` | | `Authority` with a history of the shadows that ran when a process started |
| `MCSnapshot` | | connectors, screens and saved profiles of the run; the search against its definition |

### How the model corresponds to the code

*State.* `st` is the saved `State`; memory and file agree because the controller
saves each decision before it performs its effects and takes no event in between.
Actions, candidates and attempt keys are records with the fields the code
compares. `up` is the process, `gen` the runtime's event generation (ahead of
`st.egen` by the hints still queued), `chore` the effect being performed, `since`
the generation when the sample under way was requested, `offer` the dispatch
between `_dispatch` and its acknowledgement, `task` the plan being made,
`discarded` a plan whose file was discarded while the state still holds it, and
`units` the worker units that may run or whose result still matters.

*Decisions.* A reducer operator returns `[st, fx]`. `Commit` is `_process_event`:
a decision that passes `FailedChecks` is saved and its effects become `chore` and
`offer`; one that fails sets `raised` and ends the process with the old state
saved, as an exception in `assert_controller_invariants` does.

*Actions.* `NotifyDrmHint`, `ProcessDrmHint`, `ProcessTimer`,
`CompleteObservation`, `FailObservation`, `ObserveBootChange` (samples and
hints); `RequestPlan`, `CompletePlan`, `FailPlan`; `FenceDirtied`, `FenceStale`,
`SubmitAccepted`, `SubmitLost`, `SubmitRefused`, `RejectDispatch`,
`AcknowledgeDispatch`, `MarkDispatchUncertain`, `CompleteRefusedStart` (the
dispatch fence and its outcomes); `WorkerEnds`, `ReportWorker`, `DoubtWorker`,
`StopAcknowledged`, `StopDoubted`, `StopIneffective`; `Crash`, `Restart`,
`RefuseStart`, `NewSession`.

*Stop intents.* `Controller` leaves them out: a stop may be acknowledged, fail or have no
effect, and its `StopDoubted` covers one that is refused. That is enough for safety, and
too little for liveness: a controller that repeats a stop is only served if the stop can
succeed. `StopIntents` adds the intents, which are kept for as long as the state holds
their action, and splits the stop into `StopAsked` (the intent was created, or is the one
asked for) and `StopRefused`; all else is `Undisturbed`.

### Abstractions, and why they are sound

* **Samples.** An observation key is a digest of everything a sample shows but
  time, screen power and configuration hashes, so the facts are a function of the
  key: the constant `Evidence`, required to satisfy the consistency of
  `CanonicalObservation.__post_init__`.
* **Time.** The reducer compares times only when it handles a sample or a hint.
  Each recorded instant is an age, saturated at the threshold it is compared
  with. Timers are classes of delay; a due timer fires at any later moment.
* **Queue.** An event for an action the state no longer holds is ignored by the
  reducer, so late and duplicate events are stutters and need no queue. Hints are
  ordered by generation. A hint queued behind the timer is the same as one that
  arrives once the timer's event has been taken, hence the guard `st.egen = gen`
  of `ProcessTimer`.
* **Tombstones.** Only recovery reads them, and only for actions the state
  holds or units it finds; the others are dropped.
* **Units.** One record per submitted action: may it still run, and what result
  was recorded. `None` is a result that was lost. Then the action stays
  `STOPPING` and later starts are refused: the code fails closed, and so does the
  model.
* **Merged saves.** `MarkDispatchUncertain` and `CompleteRefusedStart` save the
  dispatch and its result as one step. A crash in between leaves a dispatched
  action with an ended unit, which other steps reach as well.
* **Plan hash.** The result of a preparation always carries the hash it was
  requested with: `hashed` is `TRUE` in every step of `Controller`.

* **Records** (`Transactions`). A record is absent, linked (two names, refused by
  every reader) or installed; a bundle is the set of its parts. Hashes and bindings
  always agree, since nobody else writes the private directory. The manager is
  external: a unit is queued, runs, is asked to stop, runs its helper, is dead, and
  may be forgotten; its time limits are those of the unit files.
* **Disk** (`Store`). After a power loss a synced entry or file is as it was synced;
  one that was not may have any value written since, or be torn. Versions stand for
  the contents of the state.
* **Desktop** (`Workers`). Displays are those of the request or others; X follows the
  hardware late. Panels are numbered by birth, and windows, tray and applet each
  belong to one of them. Removing the fence file is assumed to succeed, and the code
  does not look at the answer to the start of the retry unit.
* **Samples** (`Snapshot`). One reading of sysfs and one command is atomic; xrandr
  and autorandr make X look again, so X does not lag there; a kernel event is counted
  together with the change that caused it. X and the kernel may name outputs
  differently, and any command may fail or time out. Outputs, monitors, kernel names,
  the outputs with a connector id and with one preferred mode, and the catalogue of saved
  profiles are constants; of a profile it is assumed what `parse_saved_profile` establishes (`ParsedProfile`). Outputs that a profile saves as
  off and without a fingerprint are left out.
* **Plans** (`PlanStore`). One plan of one id, with three files; a directory's
  metadata are a counter that every change raises.
* **Locks** (`Authority`). A start is the look and the acquisition; what a process
  does while it holds its lock is in the other modules.

The reducer's operators were compared with the code itself: random walks of about 24 000
steps through the Python reducer, each step evaluated with the operators as well,
found no difference in state or effects.

## 3. Runs

| Run | Module | Question |
|---|---|---|
| `desk` | `MCController` | A docked screen, wrong then exact: apply, plan, prepare, finalize, with a hint, a changing configuration, workers that succeed, fail (a refused start), are cancelled, time out or lose their result, crashes and restarts at every step. Exclusion of workers, recovery, plans lost or withdrawn, action ids never used again. |
| `undock` | `MCController` | The dock goes and comes while workers run, with every kind of sample and sleeping screens. Totality, finalization by a worker. |
| `probe` | `MCUnplug` | A dock with a broken EDID that needs a probe and is unplugged, torn and unknown samples, sleeping screens, a hint, crashes. Totality, no lost wakeup, an unplug proof that is never shortened. |
| `settle` | `MCStops` | Types; under fairness, while the dock is pulled and plugged in again, the wrong profile is shown and workers succeed, time out or leave no result: exact samples lead to rest or a reported failure, and every stop is resolved, but for the three named cases. They do happen here, and the run shows that there are no others. |
| `failed_confirmation` | `MCController` | A state from which no restart is granted (see the finding). |
| `records` | `Transactions` | All faults, two offers. The work is done once; what is released leaves no process; when nothing runs, the directory can be scanned, but for named cases; under fairness what was started is reported and what is to be stopped is resolved; the protocol implements `WorkerUnit`. |
| `save` | `Store` | Power loss, kills and failing calls: the state file is never torn, and `save` implements `Register`: what it returned is not taken back. |
| `workers` | `Workers` | All kinds of worker. Fresh samples, one late command at most, completion only of the whole, a stop wins, the new panel is new, the applet is on its tray; under fairness every worker ends. |
| `sample` | `MCSnapshot` | What a sample calls eligible or exact was there; a known desk is never stranded nor guessed. |
| `plan` | `PlanStore` | Only revoked plans are taken away, revoked plans go, reads are of published plans; under fairness a discard is final. |
| `hints` | `Hints` | Under fairness: a manual load is seen, waking screens are seen. |
| `authority` | `AuthorityHistory` | One process past the active lock, no lock of a process that is gone, and nobody past it beside a shadow that ran before. |

`CHECK_DEADLOCK FALSE` stands where one action, plan, worker or sample is followed to
its end and then nothing is left to do.

*Bounds of the controller's runs.* Two profiles (`dock`, `laptop`), two physical
tokens, and the samples that the run's question needs. Thresholds are 1 or 2 ticks, so
that each proof takes several samples and can be interrupted between them. `MaxSeq`
(actions) is 3, enough for an application, a preparation and a finalization, the longest
chain of the protocol; `MaxGen` (hints) is 1: a hint at any moment (none in `undock` and
`settle`); `MaxEpoch` is 2 in `undock`, `probe` and `settle`, a change of hardware and what
follows. A behaviour of `settle` that the bounds block is not fair, since its sample is
never completed, so nothing is claimed of it.
They are guards, so they cut behaviours off and never change one. `Steps` is the time
between samples: one tick.

*Bounds of the others.* `MaxOffers` is 2: a first offer and one repeated after a
rejected fence. Starts are bounded by the model itself (the controller's and one from
outside). `MaxVersion` is 3: a version returned, one being written, one torn away.
`MaxChanges` is 1 for a worker, whose samples and boundaries fall before and after it,
and 2 for a sample: a change and its reversal, or a change and a failing command.
After the last of `MaxSamples` the world stands still, as nobody reads it any more.
`MaxPanels` is 3: the old one, its replacement and one that the session restarts.
`MaxLoads` is 2: a record that replaces or follows another. Two controllers, one
preflight and two shadows race for the locks, without the separation that systemd gives
(`Conflicts = FALSE`), which only removes behaviours. For the plan store one crash and
two reads suffice, as the threads of one plan are fixed.

*The search for mappings.* `MCSnapshot` also assumes, and TLC evaluates at the start of
the run, that the search (`Found`, with its cut-off at two solutions) gives what
`UniqueBijection` says for every graph of candidates between up to three saved and three live outputs and every set of
required ones (`SearchAssumption`).

*Properties of the controller.* `ReducerIsTotalOtherwise`: no decision fails a check but in the
three known situations. `LiveWorkerExcluded`, `OneLiveWorker`: a worker that may
run is covered by the saved state, by the offer being acknowledged or by a
refusal to start, and there is only one. `RestartIsGrantedOtherwise`: when all
workers have ended with a known outcome a restart is granted, but for the known
conflict. `NoOrphanPlan`, `PreparesFromLivePlan`: plans lost by a crash or
discarded are not waited for or used. `NoLostWakeup`: nothing is abandoned.
`FinalizedByWorker`: what counts as finalized. `ActionIdsAreNew`: an action id is never given out twice, whatever
boot, session or crash comes in between. `UnplugIsProven`: the external hardware is
forgotten only after `UNPLUG_REQUIRED_SAMPLES` samples in a row, over long enough, that
showed none; the history counts samples and knows nothing of the controller's own proof,
so it sees a proof that survives what should restart it. A failed observation is no sample
and does not restart the proof. `SettlesWhenCalm`, `StopsAreResolved`: liveness, with the three ways in which it fails as alternatives: a preparation that is
outrun (`PreparationOutrun`), an intent of another lifecycle (`Conflict`) and a worker
that left no result (`ResultLost`, where the code fails closed by design). Without any one
of them the run has a counterexample.

*Fairness.* `FairSpec` of `StopIntents` assumes: the consumer does not stall (an effect ends, a due
event is taken, an offer is resolved), a plan is made in finite time, units have
a time limit (`TimeoutStartSec` of the worker units) and an ended one is looked at
by its monitor; and, strongly, a sample that may fail does not fail for ever, nor does a
stop that can be answered: one whose intent is no obstacle and whose worker has ended with
a result. Nothing is assumed of hints, crashes or restarts. The assumptions are
written as what recurs (`[]<>...`): for an action that disables itself this is
weak fairness, and TLC evaluates it much faster than ENABLED.

The other modules state theirs with `WF_` and `SF_`. `Transactions`: the parties take
their next step (asyncio's loop and processes that are not stopped), and the manager
enforces its time limits. `Workers`: the worker runs on; each command and wait in it
has a deadline, so nothing is assumed of the desktop. `PlanStore`: the threads run on.
`Hints`: the pollers and the controller run on, weakly; a sample and a reading of the
power of lit screens may fail any number of times but not for ever, strongly. Nothing
is assumed of crashes, stops, users or hardware.

*Refinements.* `ImplementsWorkerUnit`: seen from the controller, directory, manager
and processes together are one unit that is unsubmitted, alive or ended, that leaves one
verdict or none, which never changes, and whose verdict is what is told once it ended.
`ImplementsRegister`: a save takes effect in the rename and is durable from its return
on; a power loss undoes only what has not returned, as long as the register is sound.

### Finding

`failed_confirmation`: a worker that succeeded but was failed by its confirming sample
leaves a result that contradicts the saved state. Every restart is refused until the
next boot, although a comment in `runtime/recovery.py:484-488` says of this very case
that the stricter verdict stands.

### Known limits of the code

The properties name the cases in which the code does less than they say. Each was met
as a counterexample of the property without its exception.

| Where | What happens | Exception in |
|---|---|---|
| `reducer.py:1227` | external hardware appears while the laptop's profile is loaded: the decision to stop the load keeps the application, which `_check_action_authorization` forbids; the process ends without the stop | `ReducerIsTotalOtherwise` |
| `reducer.py:1120` | a torn sample of external hardware clears the candidate under the preparation of the laptop's desktop, which the next exact sample resumes; the decision fails a check (reproduced with the Python code) | `ReducerIsTotalOtherwise` |
| `reducer.py:1848` | a retryable plan failure while an application is held moves the phase away from it; the decision fails a check | `ReducerIsTotalOtherwise` |
| `runtime/transactions.py:1957` | a record is linked and its temporary unlinked in two calls: a helper that reads in between ends with an error, and a kill in between leaves a record nobody can read | `RestartableOtherwise`, `StartedIsReported`, `StopIsResolved` |
| `runtime/systemd.py:517` | a crash after the manager refused a start and before the result was written leaves a submission without result | `RestartableOtherwise` |
| `runtime/controller.py:877` | an inspection that fails before the submission claim is treated as an uncertain start; its stop needs the claim and fails each time | `StopIsResolved` |
| `reducer.py:1286` | a preparation that succeeded and waits for its confirming sample is stopped when a sample has another token; its worker has ended, so the stop is acknowledged as completed, which puts it back to waiting (`reducer.py:2026-2059`), and the next sample stops it again, for ever. The transition table (`src/specs/monitor-watcher-state-machine-v2.md:378`) wants the plan discarded on that acknowledgement | `SettlesWhenCalm` |
| `runtime/transactions.py:729` | an action that was stopped for a doubt or a timeout, and had succeeded, goes on; stopped again as cancelled, it meets the immutable intent of the first stop and is refused before the manager or the result is looked at, each time, although cancellation is to be "keyed and idempotent" (`src/specs/monitor-controller-python-architecture.md:339`, `model.py:1853`) | `StopsAreResolved`, `SettlesWhenCalm`, `StopIsResolved` (`StopConflicts`) |
| `runtime/controller.py:1203` | a worker that is being stopped left no result: the stop is in doubt each time | `StopsAreResolved`, `SettlesWhenCalm` |
| `runtime/persistence.py:121` | a directory made by a killed process is taken for durable | `ImplementsRegister` (`sound`) and the theorem `ReturnsDurable` |
| `workers/finalize.py:985` | a panel that the session starts between the listing of ids and the restart command is accepted as the replacement | `ReplacementIsNew`, `AppletOnFinalTray` |
| `observer/snapshot.py:366` | a layout, or X's copy of an EDID, that changes between two commands without a kernel event is accepted as exact | `ExactIsShown` |
| `observer/snapshot.py:544` | autorandr compares a profile it did not detect with the layout without knowing which monitor is where; when the base identity makes that profile eligible the answer counts, and the same modes on exchanged screens are exact | `ExactIsShown` |
| `observer/snapshot.py:947` | a saved wildcard takes any output that is left, one without a readable EDID too: a profile is then eligible by what the other outputs show | `NeverGuessed` |
| `postswitch.py:184` | a record written between the reading of a malformed one and its quarantine is moved aside unread | `ManualLoadIsSeen` |

Four more are outside what the properties claim. The unplug proof asks whether the
sample's event generation is the state's (`reducer.py:903`), which was raised to it a moment
before: an event between two samples of the proof that the second one absorbs does not
restart it, which `src/specs/monitor-watcher-state-machine-v2.md:303-305` rules out
("with no queued event"); `UnplugIsProven` counts the hints that are processed. A killed controller leaves its
generation published and a surviving finalizer trusts it (`active.py:829`). A shadow that
is started outside its unit after the look at its lock joins the active controller
(`active.py:312`), and one whose lock file cannot be opened is not seen (`active.py:292`):
`NoElderShadow` is about those that ran before and could be looked at. And where
`src/specs/monitor-watcher-state-machine-v2.md` (line 576) demands a probe for a known base
identity with broken extensions, the code makes it eligible, as a test explains
(`test_snapshot.py:377-380`). For the same reason no sample of the run `sample` has a probe
candidate: a profile that could be one is eligible by its base identity first.

## 4. Proofs

`ControllerProof.TypeCorrect` : `Spec => []TypeOK`, for every set of profiles,
samples, tokens and configurations and every threshold. It rests on the named
assumptions of `Policy` and `Controller` (`None` is not a profile, key or token;
samples are consistent; thresholds are natural numbers), which TLC evaluates in
every run.

`TypeOK` is not inductive: an admission that a sample authorizes again is offered
again, and the offer is read from the admitted action, so the phase that says
"pending" must hold one. The inductive invariant adds exactly that, `Pending(st)`,
and it is the check before each save that establishes it (`CheckedPending`).
`ReducerProof` proves, operator by operator and bottom up, that the reducer is
closed: a state goes to a decision, and a dispatch comes only with an admission
(`Decisions`). The state record has 31 fields; its definition is opened only in the
lemmas that read the fields or replace one, and every longer update is a chain of
those. `StepType` has one step per action of `Next`.

`ControllerProof.WorkersExclude` : `Spec => []OneLiveWorker`, and
`WorkersExcluded` : `Spec => []LiveWorkerExcluded`, under the same assumptions and
for any number of actions, crashes and restarts.

Neither is inductive. The invariant `ExclusionInv` relates the units, which outlive
the process, to the saved state:

- *in the state* at most one mutator is busy (admitted, dispatched, stopping or with
  a result to confirm), its id is its own and has been allocated (`Ids`), and the
  phase names it (`Placed`); a pending plan shares no id with a live mutator;
- *of the units* each has an allocated id and no two have the same; one that may run
  is of a live mutator, or of the admitted one that is being acknowledged, or, when
  the process is gone, of an admitted one (`Covered`); and while no submission is
  open no unit belongs to an admitted action (`Unsubmitted`), so the next submission
  cannot repeat one.

The checks before a save give `Placed`, the ids, and every exclusion between two
kinds of mutators but one: no check keeps an application and a preparation apart
while one of them is only admitted. That (`Apart`) has to come from the reducer, and so does the fact
that a transition never forgets a live worker. `ReducerProof` proves both,
operator by operator, with two relations between the state before and after:
`Evolves(s, t, x)`, a transition that admits nothing and forgets no live mutator but
the one with id `x`, the one the event is about; and `Advances(s, t, x)`, which may
also admit mutators with new ids. Samples admit only where nothing is busy
(`Still`); the ends of workers, failures and acknowledged stops are about one id.
A restart needs no relation to the past: `Accounted` demands a live mutator for
each unit that may run, and `Represented` rules out a result of an admitted action.

`ControllerProof.WakeupsKept`, `PlansAwaited`, `PlansLive` and `LaptopLoadsSafe`
(`Spec => []NoLostWakeup`, `[]NoOrphanPlan`, `[]PreparesFromLivePlan`,
`[]NoLaptopLoadUnderIntent`) and the action property `FinalizationsEarned`
(`Spec => FinalizedByWorker`), again for any number of actions, crashes and restarts. One
inductive invariant, `ProgressInv`, carries all five on top of `ExclusionInv` (TLC checked
it in the runs `desk`, `undock` and `probe` before it was proved). What it adds, and why:

- *plans.* A held plan has an id, a preparation belongs to the plan that is held
  (`Planned`), and a discarded plan that the state still holds is in use by neither a proof
  nor a preparation. `PreparesFromLivePlan` alone says nothing of the proof whose next
  sample admits the preparation;
- *wake-ups.* While the process runs a timer is armed, nothing is left to do, or a unit of
  a live mutator exists (`Awake`), whatever effect is under way. `NoLostWakeup` also
  accepts the effect, and so does not say what is there when it ends. A submission that is
  being acknowledged has its unit;
- *results.* A finalization that waits for its confirmation has a unit that completed
  (`Backed`), and a unit that runs has no outcome yet;
- *first start.* A state that was never classified adopts the desktop or is required to
  finalize it (`FirstStart`).

`ReducerProof` proves what the reducer contributes, with relations between the states
before and after an event: `Confirmed` (how a desktop becomes finalized), `Succeeded` (how
a finalization comes to its result), `Plans` (a plan out of use does not come back into
use), `Loads` (no load of the laptop's profile begins under the intent) and, of decisions,
`Reacts` (they leave a timer or rest). Most operators begin nothing (`Yields`), and the
relations follow from that. `Warrants` collects what the decision of a step must bring, and
the proof of `StepProgress` shows it for each action. One assumption is added: `None` is
not an outcome (`OutcomeAssumption` of `Recovery`).

`ControllerProof.RestartsGranted` : `Spec => []RestartIsGrantedOtherwise`, for any number
of actions, crashes, restarts and lost answers: when every worker has ended with a known
outcome, recovery grants a start, but for the known conflict. Recovery replays the missed
results and then demands that the outcome passes every check and agrees with every unit, so
the proof has two halves.

- *What a restart finds.* `RestInv` (TLC checked it in `desk`, `undock` and `probe` before
  it was proved) says of the saved state that it passes the checks, that an action that was
  dispatched and has not ended has a unit, and that the units of held actions bear out
  their lifecycles (`Vouched`, `Tells`). To keep that, it also says that a preparation at
  work has no application beside it (`Lonely`) and a plan beside an application is another
  action (`Spaced`), neither of which a check demands; that a load or probe whose unit is
  there, though it is still only admitted, is of the present epoch; and that a submission
  the manager refused left a unit that failed. `StepRest` has one step per action of `Next`.
- *What the replay does.* The news of a worker (its dispatch, its end, an acknowledged
  stop) are a `Turn` of one action: all but its own fields, its phase and the record of
  attempts stay as they were. `TurnChecked` proves, check by check, that a turn of a state
  that is `Fit` for it passes all checks again, and `DispatchTurns`, `FinishedTurns`,
  `CancelledTurns` and the others that each event of a worker is a turn. The replay of a missed
  result is one too (`ResultTurns`), so the reconciled state passes the checks and
  represents every result (`KnownRepresented`).

So for the events that recovery replays the checks are proved to pass, and not only
assumed as a filter: a restart cannot fail on its own repair of the state.

`StoreProof`, for any number of versions (`VersionAssumption`: the bound is a natural
number) and any sequence of kills, failing calls and power losses. `StoreTypes`,
`StateIsNeverTorn` and `TemporariesAreSwept`: the invariant `SaveInv` says where in `save` there is a temporary and that its
data are synced before the rename (`Temporary`), that versions stay in range
(`Versions`) and that a directory exists before its parent is synced for it (`Made`).
`StoreIsRegister` is the refinement and `ReturnsDurable` the durability on return. They
add to the invariant that, unless a process left one behind that it had not synced, an
existing directory is durable but for the one just made (`DirectoriesDurable`), and that
all a power loss may leave lies between the version returned and the version read
(`Between`). `StepSimulation` maps each step to a write, a return, a loss or a stutter.

`PlanStoreProof`, for any number of crashes and reads: `PlanStoreTypes`,
`PlansAreWhole`, `RevokedPlansGo`, and the action properties `DiscardsAreRevoked` and
`ReadsArePublished`. The invariant `StoreInv` needs what ties the three threads
together: only a whole marker starts a discard (so `DiscardsAreRevoked`), the metadata a thread saw at its opening are the directory's exactly
while the plan is published (so the comparison at the end of a read detects a discard,
and two discards cannot both go on), and after the controller's discard a plan that is
published has its publisher about to take it back.

`AuthorityProof.AuthorityIsExclusive` : `HistorySpec => []SoleAuthority`, for any sets of
processes. A process past the active lock is its holder (`LockInv`); and a look at the
shadow's lock succeeds only when no shadow holds it, so a process that has looked has no
elders left (`ElderInv`).

`TransactionsProof`, for any number of offers (`OffersAssumption`) and whatever faults
come in between. `WorkedOnce`, `QuietWhenReleased` and `RestartableUnlessDamaged` follow
from the invariant `TransactionInv`, which ties four parties to the records:

- *the controller's place* tells how far the submission claim is and that a bundle it
  goes on with is complete (`Submission`); without the claim there is neither a unit nor
  another record (`Unsubmitted`), and a stop under way has its intent (`Stopping`);
- *the manager's view* of the unit goes with the process there is, and a claimed
  execution was started (`Processes`);
- *the worker* takes the execution claim before it changes anything (`Executions`);
- *results* are written by one party at a time with what that party decided, and a manager
  that saw the worker succeed saw a completed result (`Results`); a controller that is done
  left a result, or never submitted (`Released`).

`TransactionIsWorkerUnit` is the refinement `Spec => ImplementsWorkerUnit`, action by
action: the steps that `WorkerUnit` sees are those that submit the unit, end it, start it
again, write the verdict or tell the controller; all others are shown to stutter. It needs
`TransactionInv` for the one fact that is not local: a controller is told an outcome only
when the record it read is the verdict.

`WorkersProof`, for any number of display changes and panels: `FreshSamples`, `LateOnce`,
`WholeWhenCompleted`, `StopWins`, `NewReplacement` and `FinalTray`. In `WorkersInv` a
worker that is inside a boundary or a command is placed by where it continues (`Site`), so
that each procedure is known to belong to its planned action (`Located`). On that rest: a
good last sample beyond every boundary (`Fresh`); that a command which began too late is
on its way to a boundary that cannot hold (`Late`), which is why there is only one; that
the actions before the present one have reached their goals (`Progress`); that a stop once
seen leads out of the plan (`Stopped`); and, for the panel, that the ids excluded at the
restart cover every panel alive then but those the session started itself (`Replaced`) and
that the tray of the newest panel is settled where the applet is looked at (`Tray`).

`SnapshotProof`, for any outputs, monitors and saved profiles (`HardwareAssumption`: the
panel is not an external output, kernel names of renamed outputs are not X's, and monitors
are not called like the markers; `CatalogueAssumption`: profiles are as the parser leaves
them) and any number of changes and samples: `EligibleMonitorsAreThere`,
`NoScreenIsStranded`, `BaseIdentityNeverGuesses`, `ExactProfileIsShown` and
`ObservationIsBuilt`. It has two halves.

- *The readings.* `SampleInv` says what the sample holds after each step: while no event
  was counted and no command failed (`Undisturbed`), the fingerprints are those of the
  screens that are there, or garbage, and the last reading of sysfs is right but for the
  outputs it could not read (`SameScreens`); if nothing moved in X either, every answer is
  the one the command would give now (`SameAnswers`). A replug breaks the premise by its
  event, all else by `moved`. A sample for which `InvalidityReason` finds nothing is
  therefore `Coherent`.
- *The derivation.* For a coherent sample, outputs have one name for kernel and X
  (`SameOutputs`), and every fingerprint or base identity that matches is that of a
  monitor that matches (`EdgeSeen`), which gives the first theorem. That a sole matching
  by partial evidence is the sole matching of the monitors is an argument about exchanges
  (`Swapped`, `SameButOne`): two saved outputs that could change places leave no sole
  matching, so a profile with a sole matching has one wildcard at most and its other
  outputs are told apart by what was read (`UniqueFits`, `FallbackIsSole`); where all base
  blocks are read, the edges are those of the monitors (`FittingIsEligible`). For
  exactness, the way autorandr recognised the profile is the mapping that was chosen
  (`RecognisedIsEligible`, `ExactShown`).

*Only proved:* `NoLaptopLoadUnderIntent` and `ConstructionSucceeds`, which no run checks
any more since their theorems cover every instance.

*Only model-checked:* the liveness properties (temporal reasoning with fairness is out of
the prover's reach), which are those of `StopIntents`, all properties of `Hints` and
`DiscardIsFinal` of `PlanStore`; the action properties
`UnplugIsProven` and `ActionIdsAreNew`; the recursive search of `MappingSearch`; and one invariant of
`Controller`, `ReducerIsTotalOtherwise`. It claims that every decision passes the checks but
in the three known situations, while the proofs above take the checks as a filter: a decision
that fails one is not saved. `TurnChecked` settles it for the news of workers; samples, plans
and intents admit actions and move the candidate, and need such a lemma for each check and
operator.

## 5. Not modelled

The encodings (JSON state, plans, transactions) and the parsers of command output,
which are given by what they return; layouts and rendering; audit and journal output;
the command runner and safe file access, beyond their failures; what the operator's
commands print; simulation and replay, which are test tooling; the older watchers and
the rest of the desktop configuration. The inside of an autorandr or panel command is a
step with any of its outcomes. The eviction of planning captures
(`observer/snapshot.py:436`) is not modelled: captures that are gone make planning fail
for a retry, which is. Of the tombstones only those of held actions are kept, the bound
of `bound_action_tombstones` (`model.py:1243`) at its tightest.

## 6. Plan

1. The theorem `ReducerIsTotalOtherwise`: what `TurnChecked` does for the news of
   workers, for samples, plans and intents.
2. A composition of `Controller` and `Transactions` in which the units of the one are
   the records of the other, for one action at a time.
3. The eviction of captures, as a resource bound.
