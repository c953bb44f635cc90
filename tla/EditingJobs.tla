----------------------------- MODULE EditingJobs -----------------------------
(***************************************************************************)
(* Rendering a stored timeline on the user's machine.                      *)
(*                                                                         *)
(*   control  one row per job, compare-and-set on updated_at; the          *)
(*   plane    timeline revisions of one project;                           *)
(*   desktop  submit_editing_job: submit, dispatch, then one monitor task  *)
(*            per job that polls the worker and settles the row;           *)
(*   worker   one process, at most one render thread, lines to the desktop.*)
(*                                                                         *)
(* Every await between two control plane calls or two visits to the worker *)
(* is a step boundary: timelines are saved, source files are overwritten,  *)
(* other jobs are dispatched and the worker dies between any two of them.  *)
(* The content of the source file is a version number; the identity the    *)
(* path registry approved is version 0.                                    *)
(***************************************************************************)
EXTENDS Naturals, Sequences, FiniteSets, Absent

CONSTANTS MaxJobs,      \* bound on the user's submissions
          MaxRevisions, \* bound on stored timeline revisions
          MaxEdits,     \* how often the source file may be overwritten
          MaxFaults     \* refused calls, lost answers, failed syncs, deaths of the worker
                        \* process and renders that outlast the monitor

ASSUME EditingAssumption ==
    /\ MaxJobs \in Nat /\ MaxRevisions \in Nat \ {0}
    /\ MaxEdits \in Nat /\ MaxFaults \in Nat
    /\ None \notin Nat

VARIABLES
    revision, \* control plane: the latest timeline revision
    rows,     \* control plane: editing_jobs
    ledger,   \* desktop: LocalEditingJobLedger, one checkpoint per job
    flow,     \* desktop: where the command and then the monitor of each job stand
    gate,     \* desktop: holder of the material library coordinator
    worker,   \* desktop: LocalVideoOrchestrator's entry for the Python worker
    thread,   \* worker: the render thread
    events,   \* lines the worker wrote and the desktop has not read
    disk,     \* source file, published outputs, imported artifacts
    hit,      \* ghost: jobs some step of which met a fault
    faults    \* faults left

\* Jobs are numbered in the order in which they are submitted.
Jobs == 1..MaxJobs

desktop == <<ledger, flow, gate>>
process == <<worker, thread, events>>
vars == <<revision, rows, ledger, flow, gate, worker, thread, events, disk, hit, faults>>

Terminal == {"succeeded", "failed", "cancelled"}

-----------------------------------------------------------------------------
(* The control plane *)

\* EditingJobStateMachine: cancellation has no producer, so cancelling is
\* never entered.
Allowed(status) == CASE status = "queued"  -> {"running", "failed"}
                     [] status = "running" -> {"succeeded", "failed"}
                     [] OTHER -> {}

\* EditingJob as submitted; ver stands for updated_at.
Queued(r) == [status |-> "queued", rev |-> r, ver |-> 0]

\* The partial unique index: one queued job per timeline revision.
RevisionQueued(r) == \E j \in Jobs : rows[j] # None /\ rows[j].rev = r /\ rows[j].status = "queued"

\* reconcile and the conditional UPDATE: refused as stale when the row moved
\* since the caller read it.
Accepts(j, seen, to) == rows[j].ver = seen /\ to \in Allowed(rows[j].status)
Moved(j, to) == [rows EXCEPT ![j] = [@ EXCEPT !.status = to, !.ver = rows[j].ver + 1]]

-----------------------------------------------------------------------------
(* Files *)

\* MaterialPathRegistry.resolve and require_source_unchanged: the file still
\* has the identity that was approved.
SourceApproved == disk.source = 0

-----------------------------------------------------------------------------
(* The worker process as the desktop holds it *)

Started(n) == [alive |-> TRUE, owner |-> None, restarts |-> n]

\* LocalVideoOrchestrator::status: a child found dead is restarted once, and
\* dropped when its restarts are used up.
StatusOf(w) == CASE w = None -> None
                 [] w # None /\ w.alive -> w
                 [] OTHER -> IF w.restarts < 1 THEN Started(w.restarts + 1) ELSE None

\* The pipe and the thread die with the process.
Fresh(w) == IF w # worker THEN thread' = None /\ events' = <<>> ELSE UNCHANGED <<thread, events>>

\* start_local_editing_job: the worker is idle and its child is alive.
CanStart(w) == w # None /\ w.alive /\ w.owner = None

RenderThread(j) == [job |-> j, at |-> "load", rev |-> 0, content |-> 0]
StartOn(w, j) ==
    /\ worker' = [w EXCEPT !.owner = j]
    /\ thread' = RenderThread(j)
    /\ events' = <<>>

StopWorker == worker' = None /\ thread' = None /\ events' = <<>>

-----------------------------------------------------------------------------
(* Control flow of the desktop command and monitor of one job *)

Began == [pc |-> "idle", rev |-> 0, seen |-> 0, after |-> "done"]

\* What a finished task knew is forgotten.
Goto(j, pc) == flow' = [flow EXCEPT ![j] = IF pc = "done" THEN [Began EXCEPT !.pc = "done"]
                                                         ELSE [@ EXCEPT !.pc = pc]]
GotoSeen(j, pc, v) == flow' = [flow EXCEPT ![j].pc = pc, ![j].seen = v]

\* fail_current_job, then the step named after.
FailThen(j, after) == flow' = [flow EXCEPT ![j].pc = "failget", ![j].after = after]

At(j, pc) == flow[j].pc = pc

\* A call to the control plane that fails for j: refused, or applied with
\* the answer lost.
Fault(j) ==
    /\ faults > 0
    /\ faults' = faults - 1
    /\ hit' = hit \cup {j}
Smooth == UNCHANGED <<hit, faults>>

-----------------------------------------------------------------------------
(* The user and the file system *)

SaveTimeline ==
    /\ revision < MaxRevisions
    /\ revision' = revision + 1
    /\ UNCHANGED <<rows, desktop, process, disk, hit, faults>>

OverwriteSource ==
    /\ disk.source < MaxEdits
    /\ disk' = [disk EXCEPT !.source = @ + 1]
    /\ UNCHANGED <<revision, rows, desktop, process, hit, faults>>

-----------------------------------------------------------------------------
(* submit_editing_job *)

\* EditingJobService.submit reads the latest revision in one transaction ...
ReadRevision(j) ==
    /\ At(j, "idle") /\ \A i \in 1..(j - 1) : ~At(i, "idle")
    /\ flow' = [flow EXCEPT ![j].pc = "submit", ![j].rev = revision]
    /\ UNCHANGED <<revision, rows, ledger, gate, process, disk, hit, faults>>

\* ... and inserts the job in another.  The index refuses a second queued
\* job of the revision; a lost answer leaves the row behind.
InsertJob(j) ==
    /\ At(j, "submit")
    /\ \/ /\ ~RevisionQueued(flow[j].rev)
          /\ rows' = [rows EXCEPT ![j] = Queued(flow[j].rev)]
          /\ \/ GotoSeen(j, "timeline", 0) /\ Smooth
             \/ Goto(j, "done") /\ Fault(j)
       \/ /\ RevisionQueued(flow[j].rev)
          /\ Goto(j, "done")
          /\ UNCHANGED rows /\ Smooth
    /\ UNCHANGED <<revision, ledger, gate, process, disk>>

-----------------------------------------------------------------------------
(* dispatch_submitted_job *)

\* The timeline the control plane now answers must be the submitted revision;
\* then the ledger entry and the render request are written.
LoadTimeline(j) ==
    /\ At(j, "timeline")
    /\ \/ /\ revision = rows[j].rev
          /\ ledger' = [ledger EXCEPT ![j] = [status |-> "queued", phase |-> 0, recoveries |-> 0,
                                              request |-> revision]]
          /\ Goto(j, "gate") /\ Smooth
       \/ /\ revision # rows[j].rev
          /\ FailThen(j, "done")
          /\ UNCHANGED ledger /\ Smooth
       \/ /\ FailThen(j, "done")
          /\ UNCHANGED ledger /\ Fault(j)
    /\ UNCHANGED <<revision, rows, gate, process, disk>>

\* The coordinator admits one holder; ensure_worker asks for the status,
\* which may restart a dead child, and starts a worker when none runs.
EnsureWorker(j) ==
    /\ At(j, "gate") /\ gate = None
    /\ gate' = j
    /\ LET w == IF StatusOf(worker) = None THEN Started(0) ELSE StatusOf(worker) IN
       worker' = w /\ Fresh(w)
    /\ Goto(j, "running")
    /\ UNCHANGED <<revision, rows, ledger, disk, hit, faults>>

\* reconcile to running; a failure stops the worker, whoever it serves.
ReconcileRunning(j) ==
    /\ At(j, "running")
    /\ \/ /\ Accepts(j, flow[j].seen, "running")
          /\ rows' = Moved(j, "running")
          /\ GotoSeen(j, "launch", flow[j].seen + 1)
          /\ UNCHANGED <<gate, process>> /\ Smooth
       \/ /\ \/ UNCHANGED rows
             \/ Accepts(j, flow[j].seen, "running") /\ rows' = Moved(j, "running")
          /\ StopWorker
          /\ gate' = None
          /\ FailThen(j, "done") /\ Fault(j)
    /\ UNCHANGED <<revision, ledger, disk>>

\* scheduler.dispatch: the ledger goes to running first; a worker that is
\* busy or dead fails it again.
Launch(j) ==
    /\ At(j, "launch")
    /\ LET w == StatusOf(worker) IN
       \/ /\ CanStart(w)
          /\ StartOn(w, j)
          /\ ledger' = [ledger EXCEPT ![j].status = "running"]
          /\ gate' = None
          /\ Goto(j, "monitor")
       \/ /\ ~CanStart(w)
          /\ worker' = w /\ Fresh(w)
          /\ ledger' = [ledger EXCEPT ![j].status = "failed"]
          /\ Goto(j, "refused")
          /\ UNCHANGED gate
    /\ UNCHANGED <<revision, rows, disk, hit, faults>>

\* dispatch refused: mark_failed, then stop the worker although another job
\* may own it.
LaunchRefused(j) ==
    /\ At(j, "refused")
    /\ \/ /\ Accepts(j, flow[j].seen, "failed")
          /\ rows' = Moved(j, "failed") /\ Smooth
       \/ UNCHANGED rows /\ Fault(j)
    /\ StopWorker
    /\ gate' = None
    /\ FailThen(j, "done")
    /\ UNCHANGED <<revision, ledger, disk>>

-----------------------------------------------------------------------------
(* fail_current_job: two calls *)

FailGet(j) ==
    /\ At(j, "failget")
    /\ \/ /\ IF rows[j].status \in {"queued", "running"}
             THEN GotoSeen(j, "failmark", rows[j].ver)
             ELSE Goto(j, flow[j].after)
          /\ Smooth
       \/ Goto(j, flow[j].after) /\ Fault(j)
    /\ UNCHANGED <<revision, rows, ledger, gate, process, disk>>

FailMark(j) ==
    /\ At(j, "failmark")
    /\ Goto(j, flow[j].after)
    /\ \/ /\ Accepts(j, flow[j].seen, "failed")
          /\ rows' = Moved(j, "failed") /\ Smooth
       \/ /\ ~Accepts(j, flow[j].seen, "failed")
          /\ UNCHANGED rows /\ Smooth
       \/ UNCHANGED rows /\ Fault(j)
    /\ UNCHANGED <<revision, ledger, gate, process, disk>>

-----------------------------------------------------------------------------
(* The worker's render thread *)

ThreadAt(step) == thread # None /\ worker # None /\ worker.alive /\ thread.at = step

PhaseNo(e) == IF e = "rendering" THEN 1 ELSE 2

\* execute_local_editing_job rejected: working output and caption overlays
\* are removed and worker.failed is written.
ThreadFails ==
    /\ \E step \in {"load", "encode", "publish"} : ThreadAt(step)
    /\ events' = Append(events, "failed")
    /\ thread' = None
    /\ UNCHANGED <<revision, rows, desktop, worker, disk, hit, faults>>

\* The render request checkpoint: the project, timeline and bindings the
\* desktop wrote at dispatch, parsed again by the worker.
LoadedRequest(j) == ledger[j].request

\* What the finished file holds: probed against the plan, sized, digested.
Receipt == [rev |-> thread.rev, content |-> thread.content]

\* A job renders into its outputs directory once; a published file is never
\* replaced.
OutputAbsent(j) == disk.output[j] = None

\* preparing and rendering are announced together, as one event here; the request must be of the
\* revision the command names; the plans are built, the sources resolved and
\* checked and the output must not exist.
ThreadLoads ==
    /\ ThreadAt("load")
    /\ SourceApproved
    /\ OutputAbsent(thread.job)
    /\ thread' = [thread EXCEPT !.at = "encode", !.rev = LoadedRequest(thread.job)]
    /\ events' = Append(events, "rendering")
    /\ UNCHANGED <<revision, rows, desktop, worker, disk, hit, faults>>

\* ffmpeg reads the source while it runs.
ThreadEncodes ==
    /\ ThreadAt("encode")
    /\ thread' = [thread EXCEPT !.at = "publish", !.content = disk.source]
    /\ UNCHANGED <<revision, rows, desktop, worker, events, disk, hit, faults>>

\* After the render: sources and captions unchanged, output probed against
\* the plan and digested, then os.link to the final name.
ThreadPublishes ==
    /\ ThreadAt("publish")
    /\ SourceApproved
    /\ OutputAbsent(thread.job)
    /\ disk' = [disk EXCEPT !.output[thread.job] = Receipt]
    /\ thread' = [thread EXCEPT !.at = "report"]
    /\ UNCHANGED <<revision, rows, desktop, worker, events, hit, faults>>

ThreadReports ==
    /\ ThreadAt("report")
    /\ events' = events \o <<"publishing", "succeeded">>
    /\ thread' = None
    /\ UNCHANGED <<revision, rows, desktop, worker, disk, hit, faults>>

WorkerCrash ==
    /\ worker # None /\ worker.alive /\ faults > 0
    /\ faults' = faults - 1
    /\ worker' = [worker EXCEPT !.alive = FALSE]
    /\ thread' = None
    /\ UNCHANGED <<revision, rows, desktop, events, disk, hit>>

-----------------------------------------------------------------------------
(* monitor: one poll_with_recovery per tick *)

\* apply_event: progress moves the phase forward, success needs the
\* publishing phase; a terminal event releases the worker.
PollEvent(j) ==
    /\ At(j, "monitor")
    /\ worker # None /\ worker.owner = j /\ events # <<>>
    /\ LET e == Head(events) IN
       \/ /\ e = "failed"
          /\ ledger' = [ledger EXCEPT ![j].status = "failed"]
          /\ worker' = [worker EXCEPT !.owner = None]
          /\ FailThen(j, "stop")
       \/ /\ e = "succeeded" /\ ledger[j].phase = PhaseNo("publishing")
          /\ ledger' = [ledger EXCEPT ![j].status = "succeeded"]
          /\ worker' = [worker EXCEPT !.owner = None]
          /\ Goto(j, "import")
       \/ /\ e \notin {"succeeded", "failed"} /\ PhaseNo(e) >= ledger[j].phase
          /\ ledger' = [ledger EXCEPT ![j].phase = PhaseNo(e)]
          /\ UNCHANGED <<worker, flow>>
    /\ events' = Tail(events)
    /\ UNCHANGED <<revision, rows, gate, thread, disk, hit, faults>>

\* The worker entry is missing, or its pipe ended: reconcile_loaded starts
\* the job again on a restarted worker once, else fails it as worker lost.
PollLost(j) ==
    /\ At(j, "monitor")
    /\ worker # None => worker.owner = j /\ ~worker.alive /\ events = <<>>
    /\ LET w == StatusOf(worker) IN
       \/ /\ CanStart(w) /\ ledger[j].recoveries < 1
          /\ StartOn(w, j)
          /\ ledger' = [ledger EXCEPT ![j].phase = 0, ![j].recoveries = @ + 1]
          /\ UNCHANGED flow
       \/ /\ ~CanStart(w) \/ ledger[j].recoveries = 1
          /\ worker' = w /\ Fresh(w)
          /\ ledger' = [ledger EXCEPT ![j].status = "failed"]
          /\ FailThen(j, "stop")
    /\ UNCHANGED <<revision, rows, gate, disk, hit, faults>>

\* Any other error ends the loop: here the worker serves someone else, or
\* was restarted for someone else.
PollForeign(j) ==
    /\ At(j, "monitor")
    /\ worker # None /\ worker.owner # j
    /\ Goto(j, "settle")
    /\ UNCHANGED <<revision, rows, ledger, gate, process, disk, hit, faults>>

\* The attempts are used up while the render, whose own limit is as long,
\* still runs.
PollExhausted(j) ==
    /\ At(j, "monitor") /\ faults > 0
    /\ faults' = faults - 1
    /\ Goto(j, "settle")
    /\ UNCHANGED <<revision, rows, ledger, gate, process, disk, hit>>

\* Mutant: the loop's end settles the local ledger only.
SettleLocally(j) ==
    /\ At(j, "settle")
    /\ ledger' = IF ledger[j].status = "running" THEN [ledger EXCEPT ![j].status = "failed"] ELSE ledger
    /\ Goto(j, "stop")
    /\ UNCHANGED <<revision, rows, gate, process, disk, hit, faults>>

\* settle_worker_lost: a ledger entry that is already terminal refuses.
Settle(j) ==
    /\ At(j, "settle")
    /\ ledger' = IF ledger[j].status = "running" THEN [ledger EXCEPT ![j].status = "failed"] ELSE ledger
    /\ FailThen(j, "stop")
    /\ UNCHANGED <<revision, rows, gate, process, disk, hit, faults>>

\* Mutant: a successful import falls through to the settlement of the loop.
ImportThenSettle(j) ==
    /\ At(j, "import")
    /\ disk' = [disk EXCEPT !.imported = @ \cup {j}]
    /\ Goto(j, "settle") /\ Smooth
    /\ UNCHANGED <<revision, rows, ledger, gate, process>>

\* import_output_with_id: copy, then rename; an error, which the last sync
\* can still raise after the rename, fails the job.
Import(j) ==
    /\ At(j, "import")
    /\ \/ /\ disk' = [disk EXCEPT !.imported = @ \cup {j}]
          /\ Goto(j, "succeedget") /\ Smooth
       \/ /\ disk' \in {disk, [disk EXCEPT !.imported = @ \cup {j}]}
          /\ FailThen(j, "settle") /\ Fault(j)
    /\ UNCHANGED <<revision, rows, ledger, gate, process>>

\* succeed_current_job: two calls whose errors are dropped.
SucceedGet(j) ==
    /\ At(j, "succeedget")
    /\ \/ /\ IF rows[j].status = "running" THEN GotoSeen(j, "succeedmark", rows[j].ver) ELSE Goto(j, "stop")
          /\ Smooth
       \/ Goto(j, "stop") /\ Fault(j)
    /\ UNCHANGED <<revision, rows, ledger, gate, process, disk>>

SucceedMark(j) ==
    /\ At(j, "succeedmark")
    /\ Goto(j, "stop")
    /\ \/ /\ Accepts(j, flow[j].seen, "succeeded")
          /\ rows' = Moved(j, "succeeded")
          /\ \/ Smooth
             \/ Fault(j)
       \/ UNCHANGED rows /\ Fault(j)
    /\ UNCHANGED <<revision, ledger, gate, process, disk>>

\* stop_worker at the end of every monitor, whoever the worker serves now.
Stop(j) ==
    /\ At(j, "stop")
    /\ StopWorker
    /\ Goto(j, "done")
    /\ UNCHANGED <<revision, rows, ledger, gate, disk, hit, faults>>

-----------------------------------------------------------------------------
Init ==
    /\ revision = 1
    /\ rows = [j \in Jobs |-> None]
    /\ ledger = [j \in Jobs |-> None]
    /\ flow = [j \in Jobs |-> Began]
    /\ gate = None
    /\ worker = None /\ thread = None /\ events = <<>>
    /\ disk = [source |-> 0, output |-> [j \in Jobs |-> None], imported |-> {}]
    /\ hit = {}
    /\ faults = MaxFaults

Command(j) == \/ InsertJob(j) \/ LoadTimeline(j) \/ EnsureWorker(j) \/ ReconcileRunning(j)
              \/ Launch(j) \/ LaunchRefused(j) \/ FailGet(j) \/ FailMark(j)
Monitor(j) == \/ PollEvent(j) \/ PollLost(j) \/ PollForeign(j) \/ Settle(j) \/ Import(j)
              \/ SucceedGet(j) \/ SucceedMark(j) \/ Stop(j)
Render == \/ ThreadLoads \/ ThreadEncodes \/ ThreadPublishes
          \/ ThreadReports \/ ThreadFails

Next == \/ SaveTimeline \/ OverwriteSource \/ Render \/ WorkerCrash
        \/ \E j \in Jobs : ReadRevision(j) \/ Command(j) \/ Monitor(j) \/ PollExhausted(j)

\* The desktop's tasks run to their end and the monitor polls on a timer; a
\* render either finishes or is cut off by its own time limit.
Fairness == /\ \A j \in Jobs : WF_vars(Command(j)) /\ WF_vars(Monitor(j))
            /\ WF_vars(Render)

Spec == Init /\ [][Next]_vars /\ Fairness

-----------------------------------------------------------------------------
(* Properties *)

\* When no call of the job met a fault, the row of a job its desktop is done
\* with is terminal and says succeeded exactly when an artifact was imported.
OutcomeMatchesArtifact ==
    \A j \in Jobs : rows[j] # None /\ At(j, "done") /\ j \notin hit =>
        /\ rows[j].status \in Terminal
        /\ rows[j].status = "succeeded" <=> j \in disk.imported

\* What was imported for a job, whatever met a fault, is the video of the revision
\* it was submitted for, made from the file that was approved: the worker's lines
\* are read for the job it serves, and a published output is never replaced.
ImportedIsOwn ==
    \A j \in disk.imported : disk.output[j] = [rev |-> rows[j].rev, content |-> 0]

\* A submitted job reaches a terminal status unless a call of its own met a
\* fault: a dead worker, a lost render, another job's stop_worker or an
\* exhausted monitor all end in a settled row.
JobSettles ==
    \A j \in Jobs : rows[j] # None ~> (rows[j] # None /\ rows[j].status \in Terminal) \/ j \in hit
=============================================================================
