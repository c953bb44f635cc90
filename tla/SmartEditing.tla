---------------------------- MODULE SmartEditing ----------------------------
(***************************************************************************)
(* A smart-edit generation across its three processes.                     *)
(*                                                                         *)
(*   desktop  run_generation: a saga over the material library, the        *)
(*            worker's two-phase job and the stored timeline, with         *)
(*            compensation on every failure path;                          *)
(*   worker   one command loop, one generation thread, one commit timer;   *)
(*            the protocol object admits one operation at a time;          *)
(*   control  the material rows and the timeline revisions of one project, *)
(*   plane    each request one transaction.                                *)
(*                                                                         *)
(* The narration material a generation synthesizes is named by the         *)
(* generation itself.  The content of a source file is a version number:   *)
(* the identity the registry and approve_source record and the digest the  *)
(* control plane keeps are both the version that was read.                 *)
(***************************************************************************)
EXTENDS Naturals, Sequences, SequencesExt, FiniteSets

CONSTANTS Gens,        \* generations a user may start
          Videos,      \* visual materials of the library
          MaxEdits,    \* how often a source file may be overwritten
          MaxRevisions,\* bound on stored timeline revisions
          MaxFaults,   \* lost answers, refused calls and crashes in a behaviour
          None

\* A row of the control plane; None stands for no row.
Row == [content : Nat \cup {None}, desc : {"none", "ai", "user"}, speech : BOOLEAN,
        seen : Nat \cup {None}, heard : Nat \cup {None}]

ASSUME SmartEditAssumption ==
    /\ MaxEdits \in Nat /\ MaxRevisions \in Nat /\ MaxFaults \in Nat
    /\ None \notin Gens \cup Videos \cup Nat \cup Row /\ Gens \cap Videos = {}

VARIABLES
    rows,      \* control plane: material rows of the installation
    timeline,  \* control plane: the project's timeline revisions
    gens,      \* desktop: generation snapshots of SmartEditRuntime
    saga,      \* desktop: the holder of the material library gate
    host,      \* desktop: LocalVideoOrchestrator's view of the worker
    worker,    \* worker: protocol state, cancel event, staging slot, timer
    thread,    \* worker: the generation thread
    cmds,      \* the worker's standard input
    events,    \* the worker's standard output
    disk,      \* files: sources, path registry, job and durable directories
    faults     \* faults left

vars == <<rows, timeline, gens, saga, host, worker, thread, cmds, events, disk, faults>>

Library == Videos \cup Gens

-----------------------------------------------------------------------------
(* Rows and files *)

\* A registered material: seen and heard are the content versions its
\* description and its speech analysis were computed from.
Registered(v) == [content |-> v, desc |-> "none", speech |-> FALSE,
                  seen |-> None, heard |-> None]

\* The material of a narration: audio that is all speech.
NarrationRow == [Registered(0) EXCEPT !.desc = "ai", !.speech = TRUE]

\* MaterialPathRegistry.resolve: the entry exists and the file still has
\* the identity that was registered.
Resolves(m) == /\ disk.registry[m] # None
               /\ m \in Videos => disk.content[m] = disk.registry[m]
               /\ m \in Gens => m \in disk.durable

\* Mutant: the file is not compared again after it was approved.
UnchangedUnchecked(m, approved) == TRUE

\* require_source_unchanged against the identity approve_source returned.
Unchanged(m, approved) == disk.content[m] = approved

\* _digest_stable_file: the digest of a file that held still while it was read.
Digest(m) == disk.content[m]

\* approve_source: the identity later steps compare the file with.
Approve(m) == disk.content[m]

\* probe_material: the facts of the file, its digest among them.
Probed(m) == Registered(Digest(m))

\* _facts_match: the probed file is the one the request carries.
FactsMatch(m) == Probed(m).content = thread.mats[m].content

NeedsUnderstanding(row) == row.desc = "none"

-----------------------------------------------------------------------------
(* The worker's protocol object *)

ActiveJob(g) == [gen |-> g, cancelling |-> FALSE, awaiting |-> FALSE, finalizing |-> None]

NoWorker == [up |-> FALSE, active |-> None, cancel |-> FALSE, staged |-> None,
             timer |-> FALSE, moving |-> None]

FreshWorker == [NoWorker EXCEPT !.up = TRUE]

Nothing == [m \in {} |-> None]

\* What is known of one more material.
With(f, m, x) == [n \in DOMAIN f \cup {m} |-> IF n \in DOMAIN f THEN f[n] ELSE x]

NoThread == [pc |-> "idle", gen |-> None, mats |-> Nothing, todo |-> {}, approved |-> Nothing,
             frames |-> Nothing, found |-> Nothing, narrated |-> FALSE, say |-> None]

\* _require_active for a smart-edit job.
IsActive(g) == worker.active # None /\ worker.active.gen = g

Event(kind, g) == [kind |-> kind, gen |-> g]

Command(kind, g) == [kind |-> kind, gen |-> g]

\* smart_edit_prepared: refused once the job is being cancelled.
MayPrepare(g) == IsActive(g) /\ ~worker.active.cancelling

Prepared == [worker.active EXCEPT !.awaiting = TRUE]

\* smart_edit_succeeded, _failed, _cancelled and _aborted close the operation.
Closed == [worker EXCEPT !.active = None]

\* The commit, abort and cancel commands the protocol admits.
FinalizeAdmitted(g) ==
    /\ IsActive(g)
    /\ worker.active.awaiting /\ worker.active.finalizing = None /\ ~worker.active.cancelling

CancelAdmitted(g) ==
    /\ IsActive(g)
    /\ ~worker.active.cancelling /\ ~worker.active.awaiting /\ worker.active.finalizing = None

NoSaga == [pc |-> "off", gen |-> None, rev |-> 0, mats |-> Nothing, result |-> None,
           committed |-> FALSE, after |-> None, end |-> None]

-----------------------------------------------------------------------------
Init ==
    /\ rows = [m \in Library |-> None]
    /\ timeline = <<>>
    /\ gens = [g \in Gens |-> [status |-> "none", cancel |-> FALSE]]
    /\ saga = NoSaga
    /\ host = [up |-> FALSE, job |-> None]
    /\ worker = NoWorker /\ thread = NoThread
    /\ cmds = <<>> /\ events = <<>>
    /\ disk = [content |-> [m \in Videos |-> 0], registry |-> [m \in Library |-> None],
               job |-> [g \in Gens |-> "absent"], result |-> [g \in Gens |-> None],
               durable |-> {}]
    /\ faults = MaxFaults

Fault == faults > 0 /\ faults' = faults - 1

NoFault == UNCHANGED faults

-----------------------------------------------------------------------------
(* The generation thread: prepare_smart_edit_job *)

\* A thread that leaves prepare_smart_edit_job without a staged result has
\* removed its job directory; the handler then closes the operation under
\* the protocol lock and prints the event after releasing it.
Leave(kind) ==
    /\ disk' = [disk EXCEPT !.job[thread.gen] = "absent"]
    /\ worker' = Closed
    /\ thread' = [thread EXCEPT !.pc = "say", !.say = Event(kind, thread.gen)]

\* A step of the pipeline: a requested cancellation is noticed before or
\* after the call, the call may be rejected, or it goes through.
Pipeline(step) ==
    /\ worker.up /\ NoFault
    /\ UNCHANGED <<rows, timeline, gens, saga, host, cmds, events>>
    /\ \/ worker.cancel /\ Leave("cancelled")
       \/ ~worker.cancel /\ step

Rejected == Leave("failed")

\* _request: the document parses and names this job and its materials.
RequestReadable(g) == disk.job[g] = "request"

\* Reads the request document and creates the private staging directory.
OpenJob ==
    /\ thread.pc = "open"
    /\ worker.up /\ NoFault
    /\ UNCHANGED <<rows, timeline, gens, saga, host, cmds, events>>
    /\ IF RequestReadable(thread.gen)
       THEN /\ disk' = [disk EXCEPT !.job[thread.gen] = "staging"]
            /\ thread' = [thread EXCEPT !.pc = "prove", !.todo = DOMAIN thread.mats]
            /\ UNCHANGED worker
       ELSE Rejected

\* The request's materials are all proved before any is analysed.
ProveSource(m) ==
    /\ thread.pc = "prove" /\ m \in thread.todo
    /\ Pipeline(IF Resolves(m) /\ FactsMatch(m)
                THEN /\ thread' = [thread EXCEPT !.todo = @ \ {m},
                                                 !.approved = With(@, m, Approve(m))]
                     /\ UNCHANGED <<worker, disk>>
                ELSE Rejected)

SourcesProved ==
    /\ thread.pc = "prove" /\ thread.todo = {}
    /\ Pipeline(/\ thread' = [thread EXCEPT !.pc = "frames",
                        !.todo = {m \in DOMAIN thread.mats : NeedsUnderstanding(thread.mats[m])}]
                /\ UNCHANGED <<worker, disk>>)

\* Frames are extracted from the file and kept; the file must not have
\* changed since it was approved.
PrepareFrames(m) ==
    /\ thread.pc = "frames" /\ m \in thread.todo
    /\ Pipeline(IF Unchanged(m, thread.approved[m])
                THEN /\ thread' = [thread EXCEPT !.todo = @ \ {m},
                                                 !.frames = With(@, m, disk.content[m])]
                     /\ UNCHANGED <<worker, disk>>
                ELSE Rejected)

FramesPrepared ==
    /\ thread.pc = "frames" /\ thread.todo = {}
    /\ Pipeline(/\ thread' = [thread EXCEPT !.pc = "understand", !.todo = DOMAIN thread.mats]
                /\ UNCHANGED <<worker, disk>>)

\* The model describes the frames; the file is compared before and after.
UnderstandIfNeeded(m) ==
    /\ thread.pc = "understand" /\ m \in thread.todo /\ m \notin DOMAIN thread.found
    /\ LET row == thread.mats[m]
           described == IF NeedsUnderstanding(row)
                        THEN [row EXCEPT !.desc = "ai", !.seen = thread.frames[m]]
                        ELSE row
       IN  Pipeline(IF NeedsUnderstanding(row) => Unchanged(m, thread.approved[m])
                    THEN /\ thread' = [thread EXCEPT !.found = With(@, m, described)]
                         /\ UNCHANGED <<worker, disk>>
                    ELSE Rejected)

\* The sound track is read from the file, which is compared afterwards.
AnalyzeSpeechIfNeeded(m) ==
    /\ thread.pc = "understand" /\ m \in thread.todo /\ m \in DOMAIN thread.found
    /\ \E speech \in BOOLEAN :
          Pipeline(IF thread.found[m].speech
                   THEN /\ thread' = [thread EXCEPT !.todo = @ \ {m}]
                        /\ UNCHANGED <<worker, disk>>
                   ELSE IF Unchanged(m, thread.approved[m])
                   THEN /\ thread' = [thread EXCEPT !.todo = @ \ {m},
                                        !.found[m].speech = speech,
                                        !.found[m].heard = disk.content[m]]
                        /\ UNCHANGED <<worker, disk>>
                   ELSE Rejected)

\* _require_prepared_materials: nothing but the analysis has changed.
MaterialsPrepared ==
    /\ thread.pc = "understand" /\ thread.todo = {}
    /\ LET silent == {m \in DOMAIN thread.found : ~thread.found[m].speech}
       IN  Pipeline(IF \A m \in DOMAIN thread.mats : thread.found[m].content = thread.mats[m].content
                    THEN /\ thread' = [thread EXCEPT
                                !.narrated = silent # {},
                                !.pc = IF silent # {} THEN "scripting" ELSE "selecting"]
                         /\ UNCHANGED <<worker, disk>>
                    ELSE Rejected)

\* segment, synthesize and match, in this order; a model call may be refused.
Script ==
    LET next == [scripting |-> "synthesizing", synthesizing |-> "matching", matching |-> "selecting"]
    IN  /\ thread.pc \in DOMAIN next
        /\ Pipeline(\/ thread' = [thread EXCEPT !.pc = next[thread.pc]] /\ UNCHANGED <<worker, disk>>
                    \/ Rejected)

\* The selection either finds paragraphs or returns a failure as a value;
\* the synthesized clips are then bound to new material identifiers.
Select ==
    /\ thread.pc = "selecting"
    /\ Pipeline(\/ thread' = [thread EXCEPT !.pc = IF thread.narrated THEN "binding" ELSE "publishing"]
                   /\ UNCHANGED <<worker, disk>>
                \/ Rejected)

BindNarration ==
    /\ thread.pc = "binding"
    /\ Pipeline(\/ thread' = [thread EXCEPT !.pc = "publishing"] /\ UNCHANGED <<worker, disk>>
                \/ Rejected)

\* _result_document: the analyses and the narration registrations.
ResultDocument == [found |-> thread.found, narrated |-> thread.narrated]

\* The result document is written once, flushed, and its digest kept.
WriteResult ==
    /\ thread.pc = "publishing"
    /\ Pipeline(/\ thread' = [thread EXCEPT !.pc = "check"]
                /\ disk' = [disk EXCEPT !.job[thread.gen] = "result",
                      !.result[thread.gen] = ResultDocument]
                /\ UNCHANGED worker)

\* smart_edit after prepare: the last look at the cancel event.
CheckCancelled ==
    /\ thread.pc = "check"
    /\ Pipeline(thread' = [thread EXCEPT !.pc = "stage"] /\ UNCHANGED <<worker, disk>>)

\* Under the state lock: the slot is taken, the protocol turns to awaiting
\* commit and the timer starts.  A cancellation admitted since the last look
\* makes smart_edit_prepared refuse, and the staged job is aborted.
Stage ==
    /\ thread.pc = "stage" /\ worker.up /\ NoFault /\ worker.moving = None
    /\ UNCHANGED <<rows, timeline, gens, saga, host, cmds, events>>
    /\ IF MayPrepare(thread.gen) /\ worker.staged = None
       THEN /\ worker' = [worker EXCEPT !.staged = thread.gen, !.timer = TRUE,
                                        !.active = Prepared]
            /\ thread' = [thread EXCEPT !.pc = "say", !.say = Event("prepared", thread.gen)]
            /\ UNCHANGED disk
       ELSE Rejected

\* emit: printed outside the protocol lock.
Say ==
    /\ thread.pc = "say" /\ worker.up
    /\ events' = Append(events, thread.say)
    /\ thread' = NoThread
    /\ UNCHANGED <<rows, timeline, gens, saga, host, worker, cmds, disk, faults>>

\* The commit timer.  It runs for two minutes, longer than printing a line.
ExpireStaged ==
    /\ worker.up /\ worker.timer /\ worker.staged # None /\ worker.moving = None
    /\ thread.pc = "idle"
    /\ disk' = [disk EXCEPT !.job[worker.staged] = "absent"]
    /\ events' = Append(events, Event("commit_failed", worker.staged))
    /\ worker' = [Closed EXCEPT !.staged = None, !.timer = FALSE]
    /\ UNCHANGED <<rows, timeline, gens, saga, host, thread, cmds, faults>>

-----------------------------------------------------------------------------
(* The command loop of the worker *)

Reading(kind) == /\ worker.up /\ worker.moving = None /\ cmds # <<>> /\ Head(cmds).kind = kind
                 /\ cmds' = Tail(cmds)
                 /\ UNCHANGED <<rows, timeline, gens, saga, host, faults>>

AcceptSmartEditStart ==
    /\ Reading("start")
    /\ IF worker.active = None
       THEN /\ worker' = [worker EXCEPT !.active = ActiveJob(Head(cmds).gen), !.cancel = FALSE]
            /\ thread' = [NoThread EXCEPT !.pc = "open", !.gen = Head(cmds).gen, !.mats = saga.mats]
       ELSE UNCHANGED <<worker, thread>>
    /\ UNCHANGED <<events, disk>>

\* A cancel no operation is there to take is answered by the older gateway
\* protocol, with an event no smart-edit job expects.
AcceptCancel ==
    /\ Reading("cancel")
    /\ LET g == Head(cmds).gen
       IN  /\ worker' = IF CancelAdmitted(g)
                        THEN [worker EXCEPT !.active.cancelling = TRUE, !.cancel = TRUE] ELSE worker
           /\ events' = IF worker.active = None THEN Append(events, Event("gateway", g)) ELSE events
    /\ UNCHANGED <<thread, disk>>

AcceptAbort ==
    /\ Reading("abort")
    /\ LET g == Head(cmds).gen
       IN  IF FinalizeAdmitted(g) /\ worker.staged = g
           THEN /\ disk' = [disk EXCEPT !.job[g] = "absent"]
                /\ worker' = [Closed EXCEPT !.staged = None, !.timer = FALSE]
                /\ events' = Append(events, Event("aborted", g))
           ELSE UNCHANGED <<disk, worker, events>>
    /\ UNCHANGED thread

\* _verify_staged_result and _verify_staged_narration: the staged files are
\* still the ones whose digests the job carries.
StagedIntact(g) == disk.job[g] = "result"

\* commit_smart_edit_job up to the rename: the staged files are verified and
\* moved to the durable directory of the generation.
AcceptCommit ==
    /\ Reading("commit")
    /\ LET g == Head(cmds).gen
       IN  IF ~(FinalizeAdmitted(g) /\ worker.staged = g)
           THEN UNCHANGED <<disk, worker, events>>
           ELSE IF StagedIntact(g) /\ disk.result[g].narrated
           THEN /\ disk' = [disk EXCEPT !.durable = @ \cup {g}]
                /\ worker' = [worker EXCEPT !.active.finalizing = "commit",
                                            !.timer = FALSE, !.moving = g]
                /\ UNCHANGED events
           ELSE /\ disk' = [disk EXCEPT !.job[g] = "absent"]
                /\ worker' = [Closed EXCEPT !.staged = None, !.timer = FALSE]
                /\ events' = Append(events, Event(IF StagedIntact(g) THEN "succeeded"
                                                  ELSE "commit_failed", g))
    /\ UNCHANGED thread

\* register_many writes the registry in one replace; if it cannot, the files
\* are moved back and the staged job is aborted.
CommitRegister ==
    /\ worker.up /\ worker.moving # None
    /\ LET g == worker.moving
       IN  /\ worker' = [Closed EXCEPT !.moving = None, !.staged = None]
           /\ \/ /\ disk' = [disk EXCEPT !.registry[g] = 0, !.job[g] = "absent"]
                 /\ events' = Append(events, Event("succeeded", g))
                 /\ NoFault
              \/ /\ Fault
                 /\ disk' = [disk EXCEPT !.durable = @ \ {g}, !.job[g] = "absent"]
                 /\ events' = Append(events, Event("commit_failed", g))
    /\ UNCHANGED <<rows, timeline, gens, saga, host, thread, cmds>>

\* worker.material.forget: admitted only while no operation is active.
AcceptForget ==
    /\ Reading("forget")
    /\ IF worker.active = None
       THEN /\ disk' = [disk EXCEPT !.registry[Head(cmds).gen] = None]
            /\ events' = Append(events, Event("forgotten", Head(cmds).gen))
       ELSE UNCHANGED <<disk, events>>
    /\ UNCHANGED <<worker, thread>>

\* The process dies; what it printed can still be read.
WorkerDies ==
    /\ worker.up /\ Fault
    /\ worker' = NoWorker /\ thread' = NoThread /\ cmds' = <<>>
    /\ UNCHANGED <<rows, timeline, gens, saga, host, events, disk>>

-----------------------------------------------------------------------------
(* The desktop: SmartEditRuntime and run_generation *)

HostJob(g) == [gen |-> g, cancelling |-> FALSE, prepared |-> FALSE, terminal |-> FALSE]

Goto(pc) == saga' = [saga EXCEPT !.pc = pc]

\* finish: the snapshot gets its final status and the gate is released.
Finish(status) ==
    /\ gens' = [gens EXCEPT ![saga.gen].status = status]
    /\ saga' = NoSaga

\* Mutant: the host forgets the job and leaves its directory.
EmergencyStopKeepsFiles ==
    /\ worker' = NoWorker /\ thread' = NoThread
    /\ cmds' = <<>> /\ events' = <<>>
    /\ host' = [up |-> FALSE, job |-> None]
    /\ UNCHANGED disk

\* emergency_stop_smart_edit_job: kill the worker, remove the job directory.
EmergencyStop ==
    /\ worker' = NoWorker /\ thread' = NoThread
    /\ cmds' = <<>> /\ events' = <<>>
    /\ host' = [up |-> FALSE, job |-> None]
    /\ disk' = [disk EXCEPT !.job[saga.gen] = "absent"]

UnchangedWorker == UNCHANGED <<worker, thread, cmds>>

Start(g) ==
    /\ saga.pc = "off" /\ gens[g].status = "none"
    /\ gens' = [gens EXCEPT ![g].status = "running"]
    /\ saga' = [saga EXCEPT !.pc = "timeline", !.gen = g]
    /\ UNCHANGED <<rows, timeline, host, worker, thread, cmds, events, disk, faults>>

Cancel(g) ==
    /\ gens[g].status = "running"
    /\ gens' = [gens EXCEPT ![g] = [status |-> "cancelling", cancel |-> TRUE]]
    /\ UNCHANGED <<rows, timeline, saga, host, worker, thread, cmds, events, disk, faults>>

CancelRequested == gens[saga.gen].cancel

\* The revision the generation starts from.
ReadTimeline ==
    /\ saga.pc = "timeline"
    /\ \/ NoFault /\ saga' = [saga EXCEPT !.pc = "materials", !.rev = Len(timeline)] /\ UNCHANGED gens
       \/ Fault /\ Finish("failed")
    /\ UNCHANGED <<rows, timeline, host, worker, thread, cmds, events, disk>>

\* load_visual_materials: every material that is not audio.
LoadMaterials ==
    /\ saga.pc = "materials"
    /\ LET visual == {m \in Videos : rows[m] # None}
       IN  \/ /\ NoFault
              /\ IF visual = {} THEN Finish("failed")
                 ELSE /\ saga' = [saga EXCEPT !.pc = "launch", !.mats = [m \in visual |-> rows[m]]]
                      /\ UNCHANGED gens
           \/ Fault /\ Finish("failed")
    /\ UNCHANGED <<rows, timeline, host, worker, thread, cmds, events, disk>>

\* ensure_smart_edit_worker keeps a running worker and its pipes; a job the
\* host still holds refuses the new one.
Launch ==
    /\ saga.pc = "launch" /\ NoFault
    /\ UNCHANGED <<rows, timeline>>
    /\ IF CancelRequested
       THEN /\ Finish("cancelled")
            /\ UNCHANGED <<host, worker, thread, cmds, events, disk>>
       ELSE LET running == host.up /\ worker.up
            IN  IF running /\ host.job # None
                THEN /\ Finish("failed")
                     /\ UNCHANGED <<host, worker, thread, cmds, events, disk>>
                ELSE /\ worker' = IF running THEN worker ELSE FreshWorker
                     /\ thread' = IF running THEN thread ELSE NoThread
                     /\ events' = IF running THEN events ELSE <<>>
                     /\ cmds' = Append(IF running THEN cmds ELSE <<>>, Command("start", saga.gen))
                     /\ host' = [up |-> TRUE, job |-> HostJob(saga.gen)]
                     /\ disk' = [disk EXCEPT !.job[saga.gen] = "request"]
                     /\ Goto("poll") /\ UNCHANGED gens

SendCancel ==
    /\ saga.pc = "poll" /\ CancelRequested /\ worker.up
    /\ ~host.job.cancelling /\ ~host.job.prepared /\ ~host.job.terminal
    /\ cmds' = Append(cmds, Command("cancel", saga.gen))
    /\ host' = [host EXCEPT !.job.cancelling = TRUE]
    /\ UNCHANGED <<rows, timeline, gens, saga, worker, thread, events, disk, faults>>

\* finish_smart_edit_job after a terminal event.
FinishJob ==
    /\ host' = [host EXCEPT !.job = None]
    /\ disk' = [disk EXCEPT !.job[saga.gen] = "absent"]

JobEvents == {Event(k, saga.gen) : k \in {"prepared", "failed", "commit_failed", "cancelled"}}

\* One event of the job; anything else stops the worker, and so do the end
\* of its output and the last polling attempt.
Poll ==
    /\ saga.pc = "poll" /\ UNCHANGED <<rows, timeline>>
    /\ \/ /\ events # <<>> /\ Head(events) = Event("prepared", saga.gen)
          /\ disk.job[saga.gen] = "result"
          /\ host' = [host EXCEPT !.job.prepared = TRUE]
          /\ saga' = [saga EXCEPT !.pc = "prepared", !.result = disk.result[saga.gen]]
          /\ events' = Tail(events)
          /\ UnchangedWorker /\ NoFault /\ UNCHANGED <<gens, disk>>
       \/ /\ events # <<>> /\ Head(events) \in JobEvents /\ Head(events).kind # "prepared"
          /\ FinishJob
          /\ Finish(IF Head(events).kind = "cancelled" THEN "cancelled" ELSE "failed")
          /\ events' = Tail(events)
          /\ UnchangedWorker /\ NoFault
       \/ /\ \/ events # <<>> /\ Head(events) \notin JobEvents
             \/ events # <<>> /\ Head(events).kind = "prepared" /\ disk.job[saga.gen] # "result"
             \/ events = <<>> /\ ~worker.up
          /\ EmergencyStop /\ Finish("failed") /\ NoFault
       \/ EmergencyStop /\ Finish("failed") /\ Fault

-----------------------------------------------------------------------------
(* The desktop: after the result *)

Compensate(committed, after, end) ==
    saga' = [saga EXCEPT !.pc = "undo", !.committed = committed, !.after = after, !.end = end]

\* Stops the saga with the job still staged in the worker.
AbortWith(end) == saga' = [saga EXCEPT !.pc = "abort", !.end = end]

UnchangedHost == UNCHANGED <<timeline, gens, host, worker, thread, cmds, events, disk>>

Updated == {m \in DOMAIN saga.result.found : saga.result.found[m] # saga.mats[m]}

\* A row takes an analysis of its own content, and an AI description never
\* replaces the user's.
MayUpdate(m) ==
    /\ rows[m] # None /\ rows[m].content = saga.result.found[m].content
    /\ (rows[m].desc = "user") = (saga.result.found[m].desc = "user")

\* SmartEditMaterialAnalysis: the fields an analysis may change.
Analysed(m) == LET found == saga.result.found[m]
               IN  [rows[m] EXCEPT !.desc = found.desc, !.speech = found.speech,
                                   !.seen = found.seen, !.heard = found.heard]

\* apply_smart_edit_writeback: every analysis and the narration, or nothing.
Written == [m \in Library |-> IF m \in Updated THEN Analysed(m)
                              ELSE IF m = saga.gen /\ saga.result.narrated THEN NarrationRow
                              ELSE rows[m]]

WritebackAdmitted == /\ \A m \in Updated : MayUpdate(m)
                     /\ saga.result.narrated => rows[saga.gen] = None

Writeback ==
    /\ saga.pc = "prepared" /\ UnchangedHost
    /\ \/ CancelRequested /\ AbortWith("cancelled") /\ NoFault /\ UNCHANGED rows
       \/ /\ ~CancelRequested
          /\ \/ /\ Updated = {} /\ ~saga.result.narrated
                /\ Goto("written") /\ NoFault /\ UNCHANGED rows
             \/ /\ Updated # {} \/ saga.result.narrated
                /\ \/ WritebackAdmitted /\ rows' = Written /\ Goto("written") /\ NoFault
                   \/ ~WritebackAdmitted /\ UNCHANGED rows /\ AbortWith("failed") /\ NoFault
                   \/ Fault /\ UNCHANGED rows /\ AbortWith("failed")
                   \/ /\ Fault /\ Compensate(FALSE, "abort", "failed")
                      /\ (UNCHANGED rows \/ (WritebackAdmitted /\ rows' = Written))

\* The last point where a cancellation is honoured.
SendCommit ==
    /\ saga.pc = "written" /\ NoFault
    /\ UNCHANGED <<rows, timeline, gens, host, worker, thread, events, disk>>
    /\ IF CancelRequested
       THEN Compensate(FALSE, "abort", "cancelled") /\ UNCHANGED cmds
       ELSE IF worker.up /\ ~host.job.cancelling
       THEN cmds' = Append(cmds, Command("commit", saga.gen)) /\ Goto("commitWait")
       ELSE Compensate(FALSE, "finish", "failed") /\ UNCHANGED cmds

\* One line is read, whatever it is; only the job's own failure ends the job.
CommitAnswer ==
    /\ saga.pc = "commitWait" /\ UnchangedWorker /\ UNCHANGED <<rows, timeline, gens>>
    /\ \/ /\ events # <<>> /\ Head(events) = Event("succeeded", saga.gen) /\ NoFault
          /\ FinishJob /\ Goto("latest") /\ events' = Tail(events)
       \/ /\ events # <<>> /\ Head(events) # Event("succeeded", saga.gen) /\ NoFault
          /\ host' = [host EXCEPT !.job.terminal = (Head(events) = Event("commit_failed", saga.gen))]
          /\ Compensate(FALSE, "finish", "failed") /\ events' = Tail(events) /\ UNCHANGED disk
       \/ /\ \/ events = <<>> /\ ~worker.up /\ NoFault
             \/ Fault
          /\ Compensate(FALSE, "finish", "failed") /\ UNCHANGED <<host, events, disk>>

\* The timeline must still be the one the generation started from.
ReadLatest ==
    /\ saga.pc = "latest" /\ UNCHANGED rows /\ UnchangedHost
    /\ \/ Len(timeline) = saga.rev /\ Goto("save") /\ NoFault
       \/ Len(timeline) # saga.rev /\ Compensate(TRUE, "end", "failed") /\ NoFault
       \/ Compensate(TRUE, "end", "failed") /\ Fault

Generated == [by |-> saga.gen,
              refs |-> DOMAIN saga.result.found \cup (IF saga.result.narrated THEN {saga.gen} ELSE {})]

\* TimelineService.save of a revision that references materials.
SaveAdmitted(expected, refs) ==
    /\ Len(timeline) = expected
    /\ \A m \in refs : rows[m] # None

\* A lost answer is followed by a second look at the timeline.
SaveTimeline ==
    /\ saga.pc = "save" /\ UNCHANGED <<rows, host, worker, thread, cmds, events, disk>>
    /\ LET admitted == SaveAdmitted(saga.rev, Generated.refs)
       IN  \/ /\ admitted /\ timeline' = Append(timeline, Generated)
              /\ Finish("succeeded") /\ NoFault
           \/ /\ ~admitted /\ UNCHANGED <<timeline, gens>>
              /\ Compensate(TRUE, "end", "failed") /\ NoFault
           \/ /\ Fault /\ UNCHANGED gens
              /\ \/ UNCHANGED timeline /\ Compensate(TRUE, "end", "failed")
                 \/ UNCHANGED timeline /\ Goto("confirm")
                 \/ admitted /\ timeline' = Append(timeline, Generated) /\ Goto("confirm")

ConfirmSaved ==
    /\ saga.pc = "confirm" /\ UNCHANGED <<rows, timeline, host, worker, thread, cmds, events, disk>>
    /\ LET confirmed == Len(timeline) = saga.rev + 1 /\ Last(timeline).by = saga.gen
       IN  \/ confirmed /\ Finish("succeeded") /\ NoFault
           \/ ~confirmed /\ Compensate(TRUE, "end", "failed") /\ UNCHANGED gens /\ NoFault
           \/ Finish("failed") /\ Fault

-----------------------------------------------------------------------------
(* Compensation *)

\* Mutant: only the latest revision protects its materials.
ReferencedByLatest(m) == timeline # <<>> /\ m \in Last(timeline).refs

\* The foreign key of the timeline's clips: a row any stored revision
\* references is not deleted.
Referenced(m) == \E i \in DOMAIN timeline : m \in timeline[i].refs

AfterUndo(deleted) ==
    IF ~saga.committed THEN Goto(saga.after)
    ELSE Goto(IF deleted THEN "forget" ELSE "drop")

\* The narration's row is looked up and deleted; only a confirmed deletion
\* is followed by forgetting the file.
UndoRow ==
    /\ saga.pc = "undo" /\ UnchangedHost
    /\ LET g == saga.gen
           present == saga.result.narrated /\ rows[g] # None
           gone == [rows EXCEPT ![g] = None]
       IN  \/ present /\ ~Referenced(g) /\ rows' = gone /\ AfterUndo(TRUE) /\ NoFault
           \/ /\ present => Referenced(g)
              /\ UNCHANGED rows /\ AfterUndo(FALSE) /\ NoFault
           \/ /\ present /\ Fault /\ AfterUndo(FALSE)
              /\ (UNCHANGED rows \/ (~Referenced(g) /\ rows' = gone))

\* forget_local_material writes the command if the worker still reads.
SendForget ==
    /\ saga.pc = "forget" /\ NoFault
    /\ UNCHANGED <<rows, timeline, gens, host, worker, thread, events, disk>>
    /\ IF worker.up
       THEN cmds' = Append(cmds, Command("forget", saga.gen)) /\ Goto("forgetWait")
       ELSE UNCHANGED cmds /\ Goto("drop")

\* The next line, right or wrong, is the answer.
ForgetAnswer ==
    /\ saga.pc = "forgetWait" /\ Goto("drop") /\ UnchangedWorker
    /\ \/ events # <<>> /\ events' = Tail(events) /\ NoFault
       \/ events = <<>> /\ ~worker.up /\ UNCHANGED events /\ NoFault
       \/ UNCHANGED events /\ Fault
    /\ UNCHANGED <<rows, timeline, gens, host, disk>>

\* rollback_committed_smart_edit removes the durable directory last,
\* whatever was deleted before it.
DropDurable ==
    /\ saga.pc = "drop" /\ NoFault /\ UNCHANGED <<rows, timeline, host, worker, thread, cmds, events>>
    /\ IF saga.committed
       THEN /\ disk' = [disk EXCEPT !.durable = IF host.up THEN @ \ {saga.gen} ELSE @]
            /\ Finish(saga.end)
       ELSE saga' = NoSaga /\ UNCHANGED <<disk, gens>>

\* abort_or_emergency: no line but the job's own aborted is accepted.
SendAbort ==
    /\ saga.pc = "abort" /\ NoFault /\ UNCHANGED <<rows, timeline>>
    /\ IF worker.up
       THEN /\ cmds' = Append(cmds, Command("abort", saga.gen)) /\ Goto("abortWait")
            /\ UNCHANGED <<gens, host, worker, thread, events, disk>>
       ELSE EmergencyStop /\ Finish(saga.end)

AbortAnswer ==
    /\ saga.pc = "abortWait" /\ UNCHANGED <<rows, timeline>> /\ Finish(saga.end)
    /\ \/ /\ events # <<>> /\ Head(events) = Event("aborted", saga.gen) /\ NoFault
          /\ FinishJob /\ events' = Tail(events) /\ UnchangedWorker
       \/ /\ \/ events # <<>> /\ Head(events) # Event("aborted", saga.gen) /\ NoFault
             \/ events = <<>> /\ ~worker.up /\ NoFault
             \/ Fault
          /\ EmergencyStop

\* finish_or_emergency and the paths with nothing left to undo in the worker.
FinishOrEmergency ==
    /\ saga.pc = "finish" /\ NoFault /\ UNCHANGED <<rows, timeline>> /\ Finish(saga.end)
    /\ IF host.job.terminal THEN FinishJob /\ UnchangedWorker /\ UNCHANGED events
       ELSE EmergencyStop

-----------------------------------------------------------------------------
(* The material library and the user *)

\* import_material: the worker registers the path and reports the facts.
ImportMaterial(m) ==
    /\ saga.pc = "off" /\ rows[m] = None
    /\ LET running == host.up /\ worker.up
       IN  /\ worker' = IF running THEN worker ELSE FreshWorker
           /\ thread' = IF running THEN thread ELSE NoThread
           /\ events' = IF running THEN events ELSE <<>>
           /\ cmds' = Append(IF running THEN cmds ELSE <<>>, Command("import", m))
           /\ host' = [up |-> TRUE, job |-> IF running THEN host.job ELSE None]
    /\ saga' = [saga EXCEPT !.pc = "importWait", !.gen = m]
    /\ UNCHANGED <<rows, timeline, gens, disk, faults>>

AcceptImport ==
    /\ Reading("import")
    /\ LET m == Head(cmds).gen
       IN  IF worker.active = None
           THEN /\ disk' = [disk EXCEPT !.registry[m] = Probed(m).content]
                /\ events' = Append(events, Event("imported", m))
           ELSE UNCHANGED <<disk, events>>
    /\ UNCHANGED <<worker, thread>>

ImportAnswer ==
    /\ saga.pc = "importWait" /\ UnchangedWorker
    /\ \/ /\ events # <<>> /\ events' = Tail(events) /\ NoFault
          /\ IF Head(events) = Event("imported", saga.gen) THEN Goto("register") ELSE saga' = NoSaga
       \/ /\ \/ events = <<>> /\ ~worker.up /\ NoFault
             \/ Fault
          /\ saga' = NoSaga /\ UNCHANGED events
    /\ UNCHANGED <<rows, timeline, gens, host, disk>>

\* The control plane's row carries the digest the worker reported.  When the
\* answer is lost the digest is looked up; a material that is not found, or
\* cannot be looked for, is forgotten again.
RegisterMaterial ==
    /\ saga.pc = "register" /\ UnchangedHost
    /\ LET m == saga.gen
           registered == [rows EXCEPT ![m] = Registered(disk.registry[m])]
       IN  \/ rows' = registered /\ saga' = NoSaga /\ NoFault
           \/ (UNCHANGED rows \/ rows' = registered) /\ Goto("forget") /\ Fault

\* delete_material: the row first, then the path.
DeleteMaterial(m) ==
    /\ saga.pc = "off" /\ rows[m] # None /\ host.up /\ host.job = None
    /\ \/ /\ ~Referenced(m) /\ NoFault
          /\ rows' = [rows EXCEPT ![m] = None]
          /\ saga' = [saga EXCEPT !.pc = "forget", !.gen = m]
       \/ /\ Fault /\ UNCHANGED saga
          /\ (UNCHANGED rows \/ (~Referenced(m) /\ rows' = [rows EXCEPT ![m] = None]))
    /\ UnchangedHost

\* The editor saves a revision made of material the latest one uses.
UserSaves ==
    /\ timeline # <<>> /\ Len(timeline) < MaxRevisions
    /\ \E refs \in SUBSET Last(timeline).refs :
          /\ SaveAdmitted(Len(timeline), refs)
          /\ timeline' = Append(timeline, [by |-> None, refs |-> refs])
    /\ UNCHANGED <<rows, gens, saga, host, worker, thread, cmds, events, disk, faults>>

UserDescribes(m) ==
    /\ rows[m] # None /\ rows[m].desc # "user"
    /\ rows' = [rows EXCEPT ![m].desc = "user", ![m].seen = None]
    /\ UNCHANGED saga /\ UNCHANGED faults /\ UnchangedHost

\* Another program overwrites a source file.
EditFile(m) ==
    /\ disk.content[m] < MaxEdits
    /\ disk' = [disk EXCEPT !.content[m] = @ + 1]
    /\ UNCHANGED <<rows, timeline, gens, saga, host, worker, thread, cmds, events, faults>>

-----------------------------------------------------------------------------
Next ==
    \/ OpenJob \/ SourcesProved \/ FramesPrepared \/ MaterialsPrepared \/ Script \/ Select
    \/ BindNarration \/ WriteResult \/ CheckCancelled \/ Stage \/ Say \/ ExpireStaged
    \/ \E m \in Videos : ProveSource(m) \/ PrepareFrames(m) \/ UnderstandIfNeeded(m)
                         \/ AnalyzeSpeechIfNeeded(m)
    \/ AcceptSmartEditStart \/ AcceptCancel \/ AcceptAbort \/ AcceptCommit \/ CommitRegister
    \/ AcceptForget \/ AcceptImport \/ WorkerDies
    \/ \E g \in Gens : Start(g) \/ Cancel(g)
    \/ ReadTimeline \/ LoadMaterials \/ Launch \/ SendCancel \/ Poll
    \/ Writeback \/ SendCommit \/ CommitAnswer \/ ReadLatest \/ SaveTimeline \/ ConfirmSaved
    \/ UndoRow \/ SendForget \/ ForgetAnswer \/ DropDurable \/ SendAbort \/ AbortAnswer
    \/ FinishOrEmergency
    \/ \E m \in Videos : ImportMaterial(m) \/ UserDescribes(m) \/ EditFile(m)
    \/ \E m \in Library : DeleteMaterial(m)
    \/ ImportAnswer \/ RegisterMaterial \/ UserSaves

Spec == Init /\ [][Next]_vars

-----------------------------------------------------------------------------
(* Properties *)

\* A generation whose save was not answered and whose revision was overtaken
\* before the saga looked again: the saga undoes it although it was stored.
Overtaken(g) == /\ gens[g].status # "succeeded"
                /\ \E i \in 1..(Len(timeline) - 1) : timeline[i].by = g

\* Every material a stored revision uses has its row, and every narration in
\* it also its file and its place in the path registry: the two-phase job,
\* the compensation and the foreign key together never leave a stored
\* timeline that cannot be played, except when an overtaken save is undone.
TimelinePlayable ==
    \A i \in DOMAIN timeline : \A m \in timeline[i].refs :
        /\ rows[m] # None
        /\ m \in Gens => Overtaken(m) \/ Resolves(m)

\* A description or a speech analysis kept with a row was computed from the
\* bytes whose digest the row carries, however the file, the row and the
\* analysis interleave (require_source_unchanged and the writeback's check).
AnalysisIsOfContent ==
    \A m \in Library : rows[m] # None => /\ rows[m].seen \in {None, rows[m].content}
                                         /\ rows[m].heard \in {None, rows[m].content}

\* What a cancelled generation leaves behind: no revision, no durable file,
\* no registry entry and no job directory.
CancelledLeavesNothing ==
    \A g \in Gens : gens[g].status = "cancelled" =>
        /\ \A i \in DOMAIN timeline : timeline[i].by # g
        /\ g \notin disk.durable /\ disk.registry[g] = None
        /\ disk.job[g] = "absent"

=============================================================================
