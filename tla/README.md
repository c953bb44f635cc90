# Verification of the automation tool

The repository is a desktop product. It performs browser actions (browse, comment, direct
message) on Douyin for its user, publishes videos to Douyin and Bilibili, and edits videos
on the user's machine. A **Control Plane** (FastAPI, PostgreSQL) holds tasks, devices,
materials, timelines and jobs and authorizes actions; a **Local Executor** (a Python
process with a SQLite ledger and a leased browser) carries actions out and reports; a
**desktop shell** (Tauri, Rust) supervises the executor and drives the local **media
workers**. What has to be right is that an effect the platform sees happens at most once,
that nobody is told something that did not happen, that pause, cancel and emergency stop
mean what they say, that a person's approval covers exactly what is done in its name, and
that the parties end with the same story although processes die, connections drop and
commands are sent again.

The modules here are translations of that code. TLC checks them on small instances; TLAPS
proves most of what the runs check for all instances. `PROJECT.json` maps every definition
to its lines, and lists the components, hazards, runs, findings and theorems.

1. Inventory · 2. Modules and the code · 3. Runs, bounds and fairness · 4. Proofs ·
5. Only model-checked · 6. Findings · 7. Hazards without a property · 8. Not modelled ·
9. Plan

## 1. Inventory

| Part | State | Operations | Hard behaviour | What makes it correct |
|---|---|---|---|---|
| Executor ledger (`executor/ledger.py`) | commands received, checkpoints, admissions, side effects, emergency latch, outbox | receive, admit, prepare, begin dispatch, settle, commit outcome, project control, commit recovery | crash between any two transactions; wall clock set back | one dispatch permission per action; events contiguous; nothing dispatched behind a stop |
| Action gate and operations (`action_gate.py`, `action_operation.py`, `rpa/douyin/*`) | none beyond the ledger | admit, lease, act, confirm | the page acts and the confirmation fails | a success is one the platform saw |
| Command processor, runtime (`command_processor.py`, `runtime.py`) | the command in hand | handle, poll controls, connect, replay outbox | resent commands, lost connections, exits | a control received and acknowledged reaches a safe checkpoint |
| Crash recovery (`crash_recovery.py`, `side_effect_recovery.py`) | none beyond the ledger | settle, project | a crash during recovery; attempts closed meanwhile | no second click, no event for a closed attempt |
| Skill replay (`executor/skill_*.py`, `rpa/douyin/*`) | registry of signed skills, statistics, page | route, replay, verify, hand back, clean | a redesigned page; the driver dies in the one external act | results are true; a handback repeats and omits no step |
| Command delivery (`task_command_repository.py`, `task_command_delivery.py`) | `task_commands` | expire, claim, mark delivered, release, acknowledge | leases, resends, answers after the deadline | acknowledged only if answered; nothing lost for good |
| Controls (`task_controls.py`) | task and attempt status, commands | pause, resume, cancel, emergency stop | requests between any two transactions of the handler | a request is not a fact |
| Orchestration and authorization (`action_execution_orchestration_repository.py`, `action_risk_authorization_repository.py`) | `task_actions`, authorizations, circuits | fill gap, offer, authorize, enqueue, finalize | authorization and command are two transactions | one open action; final status truthful |
| Event convergence (`task_event_convergence_repository.py`) | task, attempt, action, circuit, `task_events` | converge, duplicate, reject | replays, reordering against controls | both rows agree; final is final |
| Discovery and confirmation (`task_discovery*.py`, `task_target_*.py`) | attempts, targets, exclusions, confirmations, the accumulator in memory | search, batch, accumulate, store, preview, exclude, confirm | resent batches, replaced connections, restarts; pages read one by one | stored is what was found; confirmed is what was shown |
| Platform commands (`platform_commands.py`, `publish_*`, `browser_surface*`) | publish dispatches, session row, surface lease, pending approval | login, preflight, approve, click, settle, take over | approvals answered late; browser shared with the main thread | a click presses what was approved, once |
| Connections and session health (`executor_websocket.py`, `executor_connection_registry.py`, `platform_session_health_*`) | registry, kept reports, stored health and gate | connect, register, replace, report, log out, shut down | handlers of two connections overlap; reports late, repeated, kept | the last connection serves; the gate opens only by a later login |
| Device access (`device_*`) | installations, credentials, sessions, challenges | register, rotate, exchange, authenticate, revoke | requests that overlap; the clock read before the lock | nothing alive under a revoked credential |
| Bilibili publishing (`bilibili_*`) | attempts, upload sessions, the platform's archives | prepare, upload parts, admit, submit, reconcile | lost and late answers, kills, second sessions | one archive per job, from a complete upload |
| Material library (`material_*`, `local_video_orchestrator.rs`) | rows, path registry, gate | import, remap, delete, status, preview | files edited meanwhile; late answer lines; compensation | a mapping shows the bytes of its row; outcomes are true |
| Smart edits (`smart_edit_*`) | generations, revisions, job directories | generate, commit, compensate, cancel | three processes, two-phase commit, every failure path its own undo | stored timelines stay playable; a cancelled run leaves nothing |
| Editing jobs (`editing_*`, `local_editing_runtime.rs`) | job rows, one render worker | submit, dispatch, monitor, import, settle | a second dispatch stops the first worker; lost answers | the row agrees with the artifact; jobs settle |
| Media analysis and planning (`material_probe.py`, `material_speech_pipeline.py`, `speech_paragraph_draft.py`, renderers) | none, pure stages | probe, choose frames, detect speech, match, assign, cut, compile | six validating layers; a greedy assignment; integer rounding | each stage agrees with its definition; no stage refuses its predecessor |
| Motion authoring (`motion_authoring/*`) | a workspace | ask, narrate, compose, assemble, measure, repair, accept | two sides derive frames from seconds | what is authored is accepted |
| Supervision (`executor_manager.rs`) | lifecycle slot | start, reconcile, stop | exit codes against signals | only an exit by signal asks for recovery |

Interaction: user requests and the WebSocket coroutine share PostgreSQL rows under row
locks; the coroutine and the executor exchange command frames, answers and events; the
executor's main thread, its controls, its platform-command worker and its recovery share
the SQLite ledger and one browser; the desktop shell starts the processes, with or without
recovery, and speaks to the media workers in lines of JSON.

## 2. Modules and the code

| Module | What it is | Instances | Proofs |
|---|---|---|---|
| `ExecutorLedger` | the executor: ledger rows, the command in hand, process life cycle, recovery; the Control Plane is its environment | `MCExecutorLedger` | `ExecutorLedgerProofs` |
| `SideEffectContract` | abstract specification: an effect is open, permitted once, performed at most once under the permission, and its verdict is final and true | implemented by the two ledger protocols | |
| `TaskDispatch` | one confirmed task between Control Plane and executor: rows, handler coroutine, both directions of the connection | `MCTaskDispatch` | `TaskDispatchProofs` |
| `TargetDiscovery` | how a task comes to be confirmed: search, batches, accumulation, storage, previews, exclusions, confirmation | `MCTargetDiscovery` | `TargetDiscoveryProofs` |
| `PlatformCommands` | the executor's second thread: logins, publish preflights and clicks, surface lease, session circuit | `MCPlatformCommands` | `PlatformCommandsProofs` |
| `ExecutorConnections` | WebSocket handlers, registry, session reports and the logout gate | `MCComponents` | `ComponentsProofs` |
| `DeviceAccess` | installations, credentials, sessions with requests in flight | `MCComponents` | `ComponentsProofs` |
| `SkillReplay` | the inside of one `action.execute`: routing, replay, evidence, handback, cleaning | `MCSkillReplay`, `MCComponents` | `ComponentsProofs` |
| `BilibiliPublishing` | attempt, upload, single admission, reconciliation | `MCBilibiliPublishing`, `MCStudio` | `StudioProofs` |
| `MaterialLibrary` | imports, remaps, deletes, previews over App, worker and Control Plane | `MCMaterialLibrary`, `MCStudio` | `StudioProofs` |
| `SmartEditing` | a smart-edit generation over its three processes | `MCSmartEditing` | `SmartEditingProofs` |
| `EditingJobs` | render jobs, dispatch, monitor and the one worker | `MCEditingJobs` | `EditingProofs` |
| `MediaAnalysis`, `EditPlanning`, `MediaToTimeline` | pure stages from a file to an ffmpeg command, most of them checked against declarative definitions; the third composes the other two | `MCMediaToTimeline` | `EditingProofs` |
| `MotionAuthoring` | one sentence to a film | `MCMotionAuthoring`, `MCComponents` | `ComponentsProofs` |
| `Absent` | the value of what is not there, shared by the modules composed in one run | | |

Components that share no state with each other (`MCComponents`, `MCStudio`) are explored in
one run, one at a time: an initial state picks the part that moves. `SideEffectContract` is
implemented twice, by `ExecutorLedger` and by `PlatformCommands`, each through its own
refinement mapping (`ImplementsContract`).

### ExecutorLedger

One step is one SQLite transaction, or the page's action. `op.stage` is the place in
`_handle` / `run`: `admit` → `inspect` → `admit_again` → `prepare` → `replay` → `act` →
`settle` → `commit` for a comment or a message, `start` for an offer or a discovery, `ack`
for a control. `Kill` loses `op` at any of them. `ReceiveReplay` is a command the Control
Plane sends again within its deadline, which it may do or not; one that comes later is
dropped (`command_processor.py:170`), a stutter. `AdvanceControl` is
`complete_task_control`, reached from the handler of the control and from the poll before
every receive; nothing but a kill falls between an acknowledgement and it. `Recover*` is the
pass of a supervised restart, `StartPlain` a start by the user after an exit,
`StartLocalEmergencyStop` the start with the local latch. `performed` counts what the
platform saw and is read by no guard.

Abstractions: comment and direct message share one flow; the page is a choice between
acting and confirming, acting without confirmation, and failing (its inside is
`SkillReplay`); fingerprints and identities are the action itself; discovery's candidate
chunks are in `TargetDiscovery`; rows that `outbox_for_command` only sends again are a
stutter; the clock is a small set of values that may be set to any other between two steps.

### TaskDispatch

`handler.pc` walks the loop of `connect_executor`: `advance` (`_prepare`, and through
`authorize` and `enqueue` the two later transactions), `expire`, `claim`/`mark` for each
command of `dispatch_current`, `receive` for one message. `CloseRejected` is a close with
1011 or 4406, which the executor does not retry: it exits, and its user starts it again.
`ConnectionLost` is the close it retries (1012 or none). `Connect` sends the whole outbox
first, as `recover_outbox` does. A command's sequence is its index; an outbox row's
ordinal is its index. `RowsAreStorable` names the CHECK and foreign-key constraints of the
tables, because a transaction that broke one would raise in the coroutine.

Abstractions: one installation, one task, one attempt; leases, acknowledgement timeouts,
retry delays, the interval between actions and the limit per day may or may not have run out
at any look, while the limit of a task's actions, a count nothing resets, is a guard
(`TaskLimitReached`); a deadline is a flag of the command that both sides see; installation,
session gate and health are satisfied (they are `DeviceAccess` and `ExecutorConnections`);
rows carry no message deadline; the clocks of both sides do not go back, so the `updated_at`
comparisons hold; the offer's event baseline is 0; the circuit starts closed; receipt,
acknowledgement and projection of a control are one step (the crash between them is in
`ExecutorLedger`); a killed executor is restarted with recovery; a handler whose connection
was replaced ends at once (that it may linger is `ExecutorConnections`).

### TargetDiscovery

The executor's search, its outbox rows (acceptance, batches, completion), the coroutine's
handling of one row split at each await, the in-memory accumulator that a restart forgets,
and the user's requests. A preview page is one READ COMMITTED statement, so a preview of
several pages sees several states; a request in flight carries the revision it was read at.
`Extract(rows)` is what the candidate policy keeps of the links of one page, in order and
without repetition, written as the one sequence with that property.

### PlatformCommands

One worker reads the App's commands one at a time; `worker` is the place inside a login, a
preflight or a dispatch, and the main thread borrows the same surface. Ledger rows
survive a kill; the pending approval, the window and the lease do not. `ResultWriter` picks
the writer a command's result goes through: the worker's own, with the approval terms, or
the one the production wiring passes in (section 6).

### ExecutorConnections, DeviceAccess

`ExecutorConnections`: one handler per connection, a step per await, the registry under its
lock; the executor's outbox of unsent reports, which survives a connection and not the
process. A session report takes two steps: the handler reads the clock (`ReadReport`), waits
for the row, and converges by the rules of the repository in their order (`ReceiveHealth`,
`RefuseHealth`; the installation is active, and two observations never share a time), so
handlers of two connections can pass each other in between. Of readings of the clock only
their order is kept. One clock serves the machine and is not set back. The end of a process
and its restart by the desktop are one step; a deadline may be late at any report.
`DeviceAccess`: a request reads the clock when it arrives and commits later, so requests are
in flight together; a holder may use whatever was issued, so a lost answer is an answer
nobody uses. No code sets `owner_user_id`, and `require_installation_owner` is false in
`app.py:318`, so ownership is left out.

### SkillReplay

A page is what a lookup sees at its deadline: for each anchor the distances of the visible
matches to the goal's context text. Steps, pre- and postconditions, parameters, evidence
and the one external step are those of the signed skills; a ledger call answers or refuses.
Statistics live as long as the process. `SeedsAssumption` (finite directories; a browse
skill has no external step; the post-condition or the evidence of every external step is
the success toast) is what `tests/unit/executor/test_douyin_skills.py` pins for the
committed seeds.

### BilibiliPublishing

HTTP requests are callers whose every await ends a step. The platform may carry out a
creation after its sender has given up. `SerialUploads` is the desktop's discipline of
sending one upload of a job at a time; the API does not enforce it (section 6).

### MaterialLibrary, SmartEditing, EditingJobs

The App, the worker's threads and the Control Plane's rows; a file is its identity (or a
version number), so an overwrite between two reads is a step. Answers of the worker are
lines in a queue, and the line of an abandoned command may still arrive. `SmartEditing` is
the saga of `run_generation` with every compensation; `EditingJobs` submission, dispatch,
monitor and settlement with compare-and-set on `updated_at`. Progress events are left out.

### MediaAnalysis, EditPlanning, MediaToTimeline, MotionAuthoring

Pure stages as operators in the code's integer milliseconds and frames; voice detection,
selection, assignment and the command stand beside a declarative definition of what they
should return; `MediaToTimeline` runs a file through all of them. A text (description, tag,
transcript) is its length and its form: plain, with a line break or a tab, or ill. A file
is described by a person before an edit, or by the model during one; then come the snapshot
of the enriched material, the matcher's candidate if the material has no speech of its own,
the shell's check and the writeback, each with its own rules.

`MotionAuthoring` has both sides of the hand-over: the process derives frames from seconds,
and the App derives them again from the answer. Seconds are floats in the code and whole
ticks in the model, `PerMs` of them in a millisecond: a beat may be of any length above
zero, the tiling checks have their tolerance of 1e-6 s (`Near`), and a
window is rounded to milliseconds as `round` does (`Rounded`).

## 3. Runs, bounds and fairness

| Run | Instance | Shows |
|---|---|---|
| `ledger` | two comments of one attempt, three commands, clock 0..1, lifetime and interval 1, every control, kill and restart; `FairSpec` | nothing performed twice; no false success; no effect behind a stop; closed attempts silent; refines `SideEffectContract`; a control received reaches its checkpoint, with the exceptions below |
| `dispatch` | two targets (symmetric), threshold 2, task limit 2, controls of any kind, kills, losses | both rows agree; converged means agreed; rows stay storable; failures hand over; ends are truthful; one authorized action at a time; final is final |
| `dispatch_live` | two targets, threshold 2, task limit 2, one disturbance, kills; `FairSpec` | the task finishes, is handed over or reaches its limit |
| `platform_commands` | two jobs, contents and approvals (symmetric), one identity, clock 0..1, two epochs, four commands or takeovers | a click covers what was approved; an approval that can be answered has its filled window; refines `SideEffectContract` |
| `target_discovery` | three accounts, one of them recently evaluated, pages and batches of one, limit 2, three attempts, two connections, two requests | stored targets are the candidates found; confirmed is seen; a confirmation stands while its execution is open |
| `components`: replay | threshold 2, four commands, small directories with two versions and a broken record | results are true; a handback resumes safely |
| `components`: access | one key, two installations, three credentials, one session, two requests in flight | nothing lives under a dead credential |
| `components`: link | two connections, three reports, one buffered frame, one stop | the last connection serves; fresh reports are taken unless passed at the row; the gate opens only by login |
| `components`: film | storyboards, lines and parts at the rounding boundaries of 30 fps and of a millisecond | what is authored is accepted, but for beats that vanish when rounded |
| `studio`: library | two paths, two digests (symmetric), two imports, three operations, one edit, one fault | mappings show their rows; outcomes are true |
| `studio`: upload | two jobs (two parts, a small file), two callers (symmetric), three sessions, five calls, one kill, one reconciliation round | one archive per job, from a whole upload |
| `smart_edit` | one video, two generations (symmetric), two revisions, one overwrite, two faults | timelines stay playable; analyses are of their bytes; cancelled leaves nothing |
| `editing_jobs` | two jobs, two revisions, one overwrite, two faults; fair | the outcome matches the artifact; jobs settle |
| `media_to_timeline` | one file at a time that varies one stage, small libraries, one recut | voice detection, selection, assignment and command agree with their definitions; no layer refuses the one before, but the matcher a tag with a line break; frame choice is exercised |

Every property of a passing run has a mutant: a plausible bug of the code (an unchecked
guard, a request taken for a fact, an off-by-one threshold, a reset left out) under which
TLC finds the property violated. `MCBilibiliPublishing` checks the upload plan and the
transition tables as assumptions over bounded inputs. Two further runs are findings
(section 6).

### Bounds, and why they are enough

* **Two of a kind.** What is to be excluded takes two actors: two actions, jobs, approvals,
  connections, generations or requests. Where the proofs of section 4 cover the property,
  the number is only TLC's. Symmetry is used only in runs without liveness, whose formulas
  treat the values alike.
* **Clock.** `MaxTime = 1` with lifetimes and intervals of 1 makes each of them both pass
  and not pass, and the clock may be set back between any two steps.
* **Commands and controls.** `MaxCommands = 3` gives an attempt its offer or an action,
  a control before, between or behind it, and a control behind a control. In `dispatch`
  one disturbance is any one control or passed deadline; `dispatch_live` has no controls,
  which `TaskFinishes` excludes, and one passed deadline.
  `MaxWire` bounds only how far the sender of commands may run ahead of frames underway.
* **Thresholds and limits.** `FailureThreshold = 2` opens the circuit at the last of two
  targets. `TaskActionLimit = 2` lets a task with two targets just through; with 1 the same
  run passes too, and the task ends at its limit (`AtTaskLimit`). `Threshold = 2` of the
  skill statistics stands for 3: one failure that does not demote and one that does.
* **Batches and pages.** Size one makes every candidate a batch and every target a page, so
  two candidates already give every order of batches, pages and requests between them.
* **Reports.** Three reports are login, logout, login: enough for one from before the gate.
* **Faults.** One lost answer, failing call or death at any point of a saga; two where a
  compensation can itself fail.
* **Media.** The code's 32 ms chunks, 15 s windows and minutes become tens of milliseconds
  in proportion: chunk 10 (32), three speech chunks (8), two silent ones (4), padding 10
  (64), primary speech 40 ms or 30 % (5,000), batches 50 (180,000), long scenes 30 (8,000),
  frame limits 2, 5, 6, 8 (6 to 60), descriptions 20 (2,000), tags 8 long (32) and two in
  number (32), two shots or segments (4,096), timelines 500 (600,000), three paragraphs (32).
  Each limit is reached and missed by the inputs. The films keep the code's 30 frames a
  second; `PerMs = 10` has lengths below, at and above half a millisecond.

`CHECK_DEADLOCK FALSE` stands where the system really stops: a finished job, a settled
task of discovery, a library nobody touches.

### Fairness

* Executor and Control Plane (`ledger`, `dispatch_live`): weak fairness of the handler's
  coroutine, of the executor's loop, of its reconnection and of recovery: each is a loop
  that always continues; a process that exited is started again by the supervisor or its
  user. In `ledger` nothing is assumed of resends: a control has one minute, and after it
  is neither claimed nor accepted (`task_controls.py:127`). In `dispatch_live`, strong
  fairness of `ClaimNext`: a command that is due again and again is claimed, because leases
  and timeouts run out. Strong fairness of `AuthorizeGranted`: the interval between actions
  and the limit per day pass; the limit per task is in its guard and never passes. Strong
  fairness of `ReceiveMessage`: the stream is read in order.
* `editing_jobs`: weak fairness of each job's command and monitor task and of the render:
  an async task runs on, the monitor polls on a timer, ffmpeg has its own time limit.

Liveness is claimed only for behaviours the code can be asked to serve. `ControlConverges`
holds of a control in the ledger when kills end, with two exceptions that it states: an
effect of the attempt is left dispatched, which pause and cancel wait for; or a kill fell
between the receipt and the acknowledgement (`Orphaned`), after which only the same command
sent again within its minute would have it acknowledged. It says nothing of a control that
never arrives. `TaskFinishes` holds when connections are lost finitely often, no control is
requested, no deadline passes and the executor is not killed (a killed one wedges on the
event of its recovery, section 6); a task with more targets than `TASK_ACTION_LIMIT` stays
running with its limit used up and every action settled, which the property states as the
third way to end. `JobSettles` holds unless a call of the job itself met a fault.

## 4. Proofs

TLAPS checks the proof modules for every value of the constants that satisfies the
assumptions of the base modules (each evaluated by TLC on every run): bounds are numbers,
sets of identifiers are what they are, and nothing else unless it is named below. There is
one invariant per module, a lemma per action or group of actions, and a last theorem that
combines them. No invariant below is inductive by itself; what follows says what has to be
added, and why. The invariants were checked by TLC before they were proved.

**`ExecutorLedgerProofs`** (`TypeCorrect`, `AtMostOnce`, `SuccessTrue`, `SilentAfterStop`,
`ClosedSilent`, `Contiguous`, `CancelledClean`, `PausedQuiet`, `AdmissionsStaySpaced`,
`Implementation`). At-most-once does not say that a handler about to act holds an unused
permission. `Inv` adds: memory is held only by a connected process and points into the
ledger (`OpOK`); before the permission nothing was performed, a handler in `act` has
`dispatched` and zero performances, a confirmed or verified effect has one (`EffectOK`).
`HistoryInv` adds what the handler's stage says of the attempt's rows (`StageOK`), that a
success in hand or in the outbox rests on a verified effect (`SuccessOK`), that a
cancellation waited for effects in doubt (`CancelOK`), and the numbering of events.
`Implementation` maps each step to an action of `SideEffectContract` or a stutter.

**`TaskDispatchProofs`** (`TypeCorrect`, `TaskAndAttemptAgree`, `TerminalStays`,
`ConvergedTasksAgree`, `FailuresAreHandedOver`, `OnlyAuthorizedRuns`, `EndsAreTruthful`,
`RowsStayStorable`). The argument goes in layers: rows and frames refer to what is stored
(`Stored`); the executor's log is ordered and its checkpoint is what it tells
(`LogOrdered`, `StateIsTold`); what the Control Plane accepted is a prefix-closed part of
that log and its state is that of the last accepted row, or a control's in between
(`ConvergenceInv`); one authorization is open at a time and a command in hand has no
accepted row of its own (`ScopeOK`, `ExecutionOK`); every verdict has its event and no
completion follows a failure (`VerdictOK`).

**`PlatformCommandsProofs`** (`ClicksAreCovered`, `PendingStaysLive`,
`BrowserStaysOwned`, `DispatchesStaySpaced`, `Implementation`). The worker's stage implies
what it holds: from the approval on, the approval was shown with the window's content and
is unspent, and the row of its job has the state of the stage; clicks are counted only on
dispatched rows; an approval that can still be answered has its filled window, held by the
publish operation, whose hold on the browser is the lock's.

**`TargetDiscoveryProofs`** (`TargetsFound`, `ConfirmedSeen`, `ConfirmationHolds`). One
attempt is open at most and the rows of its outbox are its acceptance, its batches in order
and its completion (`RunInv`); a frame on the wire, in a handler or in the accumulator is
one of them, and the accumulator holds a prefix (`FrameInv`); a view or request of the
current revision has seen what is selected (`ReadInv`). `Rejoined`: the batches put
together are the candidates.

**`ComponentsProofs`** proves four components that share no state. `DeviceAccess`
(`AccessTypeCorrect`, `SessionsLiveUnderLive`, `AccessReallyEnds`, `ChainHolds`,
`KeysHold`): references go to rows that exist; a fresh id is in no table. Then: a request
that arrived after a revocation carries a later clock or sees the stored row; the
credentials of an installation are one chain. `ExecutorConnections` (`RegistryServesLast`,
`FreshTaken`, `GateByLogin`): a connection not opened has no handler. Reports are ordered by
observation over the wires of the connections and then the outbox; none is newer than the
executor's row; what the current connection and the outbox hold is newer than the stored
row; a report from before the gate closed is of an epoch the executor had by then. A handler
that waits for the row and was not passed by another has a reading no older than the stored
one (`ReadingOK`), so `FreshTaken` leaves `received_before_last_update` as the only refusal,
and only of a handler that was passed.

`SkillReplay` (`ResultsAreTrue`, `HandbacksAreSafe`, `TriedOnce`): before the replay nothing
was touched; at step `k` the steps before `k` are done, the external step is attempted only
if it was permitted; something was posted only by an external step, and its confirmation is
the toast only the effect brings. Routing ends at a version, because the ranking of records
(fractions compared by cross multiplication) is total and transitive on a finite directory.
Rests on `SeedsAssumption` (section 2).

`MotionAuthoring` (`AuthoredFilmsAreAccepted`): the process may go through composing,
assembling and measuring twice, so the invariant says what each stage has of the workspace.
Files only grow until the run ends, the segments are those of the last assembly, and a
repair that is let through keeps identifiers, parts and times of the beats, which is why
the lines measured before it still belong to them. A shot's frames are derived from the
longest of line and motion, hence hold the line, and `FilmFits` is asked before any part is
copied; the assets of the brief are looked for last. A window is empty only if its length is
at most a millisecond (`RoundedGrows`), which is the exception in `AuthoredIsAccepted`.
Assumes what `StoryboardBeat` and the storyboard refuse otherwise: lengths are above zero
and beat identifiers unique.

**`StudioProofs`** proves two components that share no state. `BilibiliPublishing`
(`CreatedOnce`, `ArchivesWhole`): a job's creation is in one place (admitted, with a caller,
at the platform, settled) and nowhere before its single admission. The one upload under way
knows its recorded token and which parts are missing; `ArchivesWhole` assumes
`SerialUploads`, `CreatedOnce` does not.

`MaterialLibrary` (`LibraryInvariance`, `LibraryMappingShowsItsRow`, `LibraryOutcomeIsTrue`):
the App takes the next line of the worker for its answer, so the invariant must say which
lines can be outstanding. At most one answer is left over from a call that was given up, and
the next operation reads it and stops in doubt (`QueueOK`); past the first call of an import
nothing is outstanding but its own answer, and a delete can be owed a status line at most
(`OwedOK`). An answer that says yes is true of the document (`LineOK`): the thread compares
the file before and after it reads and publishes, identities are never reused, so a file
that is the approved one at the end was so all along and the digest is of its bytes
(`ThreadOK`). A mapping and a row differ only for a material in doubt, one left by an
operation without certainty or held by the import that is about to compensate (`RowsOK`
with `Doubt`). Assumes that `None` is no number, call or record.

**`EditingProofs`** proves render jobs and, apart from them, the media stages.

`EditingJobs` (`OutcomeMatches`, `ImportsAreOwn`): `PlaceOK` says of a job no
fault met, at each place of the desktop's command and monitor, which status its row has,
whether the row is as old as the task read it, and whether its artifact is imported; only
then does the compare-and-set always find what it expects. Imports need the other half: one
worker serves the jobs in turn and any monitor may stop or restart it, so the render thread
and every line not yet read must be of the job the worker serves now (`ThreadOK`,
`LinesOK`), from the request that job wrote (`RequestOK`), and an output stays what its
receipt says (`OutputOK`). What was read of the source is not younger than the source, so
a source that is still the approved one was the approved one when it was read.

`MediaToTimeline` (`DownstreamAcceptsHolds`, `SpeechIsWhereHeardHolds`,
`CommandMatchesCutHolds`): `MediaInv` keeps, beside the phase of a file, what was stated of
it so far in the words of every later check: the probed facts pass all three checks, found
speech lies in order within the sound and comes with its words, found shots lie in the
picture, a description and its tags are those of the file and were checked by whom they came
from (`Known`), and a material is changed by a model or by its speech only. What the
snapshot took, the shell takes (`ShellAgrees`), and the matcher too unless a tag is laid out
(`CandidateUnlessLaidOut`). The speech scan is a recursive function; its values are shown to
be sequences of segments by induction over the chunks (`Recursion`, `Induct`, from the
well-foundedness of the naturals). That they tell of exactly what is heard is an induction
over the same scan: what is behind the open candidate is told already and sealed, no speech
before it goes on after it (`Sealed` in `RightUpTo`); a candidate too short to be a run
holds none (`ShortIsNoRun`), and one that has its run adds itself, up to its last voiced
chunk, and joins nothing before it (`LongCovers`, `CandidateCloses`). `PlanInv` says that a
stored cut is laid out in numbers, its captions under its pictures, and that a compiled
command is of the stored cut and passed each check of the compiler. Every boundary is
rounded from absolute time, so the end of a clip and the start of the next, less their
overlap, are the same frame, and the composed picture is as long as the cut at every rate
(`ComposedIsCut`); the sources of filter chains are shown to be a bijection onto the inputs
(`ReadsAreInputs`). Assumes that measurements have their types (`Medium`, `Material`), that
the sound a tool reports fills its chunks, that rates are those the project accepts, and
that no name of a refusal is the absent value.

**`SmartEditingProofs`** (`SmartEditInvariance`, `SmartEditAnalysisIsOfContent`,
`SmartEditCancelledLeavesNothing`, `SmartEditTimelinePlayable`). What the thread, a result
document, the saga and a row hold of a material is of the version the row names, because
the file is compared with the approved one before it is read and after (`AnalysesOK`).
The saga's phase says what the worker may still be doing: outside the phases of a running
generation nothing of it runs, waits or is staged (`Quiet`), and until the commit is sent
nothing of it is stored (`Clean`, both in `PhaseOK`). One worker serves the generations in
turn and any line may be read late, so a line told is a fact about the generation it names:
each is started once and ends once (`StartedOnce` in `WorkerOK`). A generation's revision
stands where its save put it, and its narration keeps its file and its registry entry
(`SaveOK`); a material a revision refers to has a row (`RefsOK`, the foreign key). Assumes
that `None` is neither a number nor a row, which is what makes it an absent value.

## 5. Only model-checked

* Liveness under fairness (`ControlConverges`, `TaskFinishes`, `JobSettles`): outside the
  prover's reach.
* `SelectionIsFirst`: that an augmenting path is found whenever an assignment exists is a
  theorem about matchings over a recursive search; its proof is not attempted.

Frame choice (`Selected`, `Sought`) has no property of its own: the run exercises it as the
stage before understanding, and only `DownstreamAccepts` depends on what it finds.

## 6. Findings

Two runs state what a document says and find it violated by what the code does; each is in
`PROJECT.json` with the quotation:

* `recovery_rejected`: recovery's event is rejected by the Control Plane, because
  `step.started`, which moves the action to DISPATCHED, was never sent; the connection
  closes with 4406, and the same row comes first on the next one.
* `publish_terms_untold`: with the result writer of the production wiring a ready preflight
  is answered without the terms of the approval it wants.

Other things met while modelling; the formulas named here stand in the modules, and TLC
finds them violated, but no run repeats it:

* Executor. A command resent after a crash behind the click can be reported as `step.failed`
  (`FailedMeansNotPerformed`); a control stored but not acknowledged before a kill is lost
  if no resend comes within its minute (`Orphaned`); an admission is stamped with the time
  of the call, so a second one of the same action is rejected instead of replayed
  (`AdmissionReplayed`); a crash between receipt and acknowledgement of an emergency stop
  leaves it without its event (`EmergencyStopConverges`).
* Task. A task with more targets (up to 100) than `TASK_ACTION_LIMIT` (20) is told
  RATE_LIMITED in every later round and stays running (`AtTaskLimit`,
  `action_risk_authorization_repository.py:418`). A cancellation numbered behind an unsent
  action, or an action numbered behind a pause, is refused for ever (`CancelConverges`,
  `ResumeConverges`); an authorization older than its lifetime is rejected in every later
  round; a termination command that expires leaves CANCELLING; the failure circuit is
  cleared only by the resumption of a task that opening it has moved to AWAITING_HUMAN.
* Publishing. A job can be told as not dispatched though its click happened
  (`NotDispatchedNeverReached`, `platform_commands.py:758`). A login can be answered as
  healthy while its row says otherwise, because the page is read twice
  (`ToldHealthyIsStored`, `platform_commands.py:405`).
* Connections. A late hello of an older connection evicts the live one, and 4409 ends the
  executor's process; a report sent and lost is never sent again; a report past its 30 s
  deadline ends the process with 4406; so does a fresh one whose handler read the clock
  before another handler's report was stored (`received_before_last_update`,
  `platform_session_health.py:193`); a report two epochs late from before a logout opens
  the gate; an executor with a wiped ledger is refused for ever as going backwards.
* Devices. A revocation or rotation that read the clock before a concurrent session was
  created breaks `ck_device_sessions_revocation_time` and fails; a lost answer to a
  rotation locks the device out; nothing under `src/` calls `authenticate`.
* Skills. A version that succeeded once is never demoted; between the lookup of an anchor
  and the act on it the page may change; a cleaned trajectory is always version 1, with a
  path as its only evidence.
* Bilibili. Overlapping uploads of one job, which only the desktop's discipline excludes,
  produce an archive without all parts (`SerialUploads = FALSE`); a job told as failed may
  still appear on the platform (`FailedIsAbsent`); the reconciliation service is
  instantiated by tests only.
* Material library. Opening the registry for a preview sweeps the scratch file of a live
  write (`SweepSparesLiveWrites`, `material_probe.py:1809`); the App gives up on a command
  after 30 s whose probe may take minutes; the failed compensation of a remap forgets the
  mapping that was good.
* Smart edits. A save whose answer is lost and which another save overtakes is undone
  though it is stored, and the stored revision then names a narration without its file
  (the exception `Overtaken`); a late cancellation leaves a line for the next command.
* Editing jobs. Dispatching a second job while one renders stops the worker of the first,
  and its monitor may then stop whatever worker runs; a lost answer to `succeed` leaves a
  job running for ever; a crash between the link and the row makes recovery report
  OUTPUT_EXISTS, and the job fails though its video exists.
* Media. A tag with a line break or a tab is accepted of the model, by the material, the
  snapshot, the shell and the Control Plane, and refused by the matcher
  (`semantic_matching.py:150`) when the material has no speech, after the models were paid
  (the exception in `DownstreamAccepts`); a video with brief
  speech rejects a whole generation; a script may have 128 sentences where a draft takes
  32 paragraphs; a stored valid timeline with clips shorter than a frame is rejected only
  when it is rendered.
* Motion authoring. An exception nobody translates ends the process without the answer
  `entry.py:711` promises (`EveryFailureAnswers`); a template beat, or a part's motion, of
  less than a millisecond is authored (`agent.py:841`) with a window that rounds to nothing,
  and the App declines the film (`motion_video_studio.rs:2032`, the exception in
  `AuthoredIsAccepted`); twelve script beats against twenty-four
  storyboard beats; two shots of one part share one baseline.

## 7. Hazards without a property

`PROJECT.json` lists every hazard at its line with the properties that catch it. Without
one: a second admission of an action (`AdmissionReplayed` does not hold of the code); a
termination command that expires and leaves CANCELLING, which no modelled step leaves;
outbox rows past their message deadline; the two readings of a login page
(`ToldHealthyIsStored` does not hold of the code); an exception without an answer in motion
authoring (`EveryFailureAnswers` does not hold of the code).

## 8. Not modelled

* Message deadlines and the limits of the executor's outbox: modelled rows never expire.
* The supervisor's own slot, restart budget and backoff; heartbeat pacing and suspension
  detection; token authentication of the WebSocket.
* Task event stream, customer accounts and workbench: reads and single statements.
* Desktop updates: download, signature check and installation in one process.
* Deployment, packaging and release scripts: sequential tools outside the system.
* Pixels, audio samples, model answers and web pages are nondeterministic choices; the
  React interface and the desktop's bridge to it are input and output; vendored code is
  not the program's logic.

## 9. Plan

1. Message deadlines and the capacity of the outbox (`ledger.py:2436`, `:3155`), with the
   Control Plane's sequence check as its reader.
2. The supervisor's slot and restart budget, composed with the process states of
   `ExecutorLedger`.
