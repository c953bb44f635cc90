---------------------------- MODULE EditingProofs ----------------------------
(***************************************************************************)
(* From a file to a rendered cut, for files, libraries, cuts and jobs of    *)
(* any number and size.                                                     *)
(*                                                                          *)
(* Render jobs: the settled row agrees with the artifact, and the artifact  *)
(* is the job's own.  OutcomeMatchesArtifact speaks of jobs that are done.  *)
(* JobOK says what holds of a job at every place before: its row has the    *)
(* status the desktop's task believes, is as old as the task read it, and   *)
(* nothing is imported before the row can only become succeeded.            *)
(* ImportedIsOwn needs no such care but another one: the one worker serves  *)
(* several jobs in turn, so what its thread and its lines say must be of    *)
(* the job it serves (ThreadOK, LinesOK), from the request that job wrote   *)
(* (RequestOK), and an output is as it was reported (OutputOK).             *)
(*                                                                          *)
(* A file on its way: DownstreamAccepts follows from MediaInv, which keeps  *)
(* beside the phase what the probe and the analysis have stated so far, in  *)
(* the words of the checks that come after.  The speech scan is a recursive *)
(* function; Recursion gives its values their type.                         *)
(*                                                                          *)
(* SpeechIsWhereHeard is an induction over the chunks of the sound: behind  *)
(* the open candidate everything heard is told and no speech goes on        *)
(* (RightUpTo), and the candidate itself is either shorter than a run, and  *)
(* then no part of one, or heard wherever it is voiced (Short, Long).       *)
(*                                                                          *)
(* A cut on its way: CommandMatchesCut follows from PlanInv, the layout of  *)
(* the stored cut together with the checks the compiler has passed.  Frames *)
(* are differences of rounded absolute times, so the rounding of one clip   *)
(* is made good by the next and the composed picture ends where the cut     *)
(* ends, whatever the lengths and the rate (ComposedIsCut).                 *)
(***************************************************************************)
EXTENDS EditingJobs, MediaToTimeline, SequenceTheorems, FiniteSetTheorems, WellFoundedInduction, TLAPS

-----------------------------------------------------------------------------
(* Render jobs *)

Steps == {"idle", "submit", "timeline", "gate", "running", "launch", "refused", "monitor",
          "failget", "failmark", "settle", "import", "succeedget", "succeedmark", "stop", "done"}
RowType == [status : {"queued", "running", "succeeded", "failed"}, rev : Nat, ver : Nat]
FlowType == [pc : Steps, rev : Nat, seen : Nat, after : {"done", "stop", "settle"}]
LedgerType == [status : {"queued", "running", "succeeded", "failed"}, phase : Nat,
               recoveries : Nat, request : Nat]
WorkerType == [alive : BOOLEAN, owner : Jobs \cup {None}, restarts : Nat]
ThreadType == [job : Jobs, at : {"load", "encode", "publish", "report"}, rev : Nat, content : Nat]
Lines == {"rendering", "publishing", "succeeded", "failed"}
ReceiptType == [rev : Nat, content : Nat]

TypeOK ==
    /\ revision \in Nat
    /\ rows \in [Jobs -> {None} \cup RowType]
    /\ ledger \in [Jobs -> {None} \cup LedgerType]
    /\ flow \in [Jobs -> FlowType]
    /\ worker \in {None} \cup WorkerType
    /\ thread \in {None} \cup ThreadType
    /\ events \in Seq(Lines)
    /\ disk \in [source : Nat, output : [Jobs -> {None} \cup ReceiptType], imported : SUBSET Jobs]
    /\ hit \subseteq Jobs

Imported(j) == j \in disk.imported
RowIs(j, statuses) == rows[j] \in RowType /\ rows[j].status \in statuses
Fits(j) == rows[j].ver = flow[j].seen

(* A job no fault met: the row and the artifact at each place of its tasks.  *)
PlaceOK(j) ==
    /\ flow[j].pc \in {"idle", "submit"} => rows[j] = None /\ ~Imported(j)
    /\ flow[j].pc \in {"timeline", "gate", "running"} =>
           RowIs(j, {"queued"}) /\ Fits(j) /\ ~Imported(j)
    /\ flow[j].pc \in {"launch", "refused"} =>
           RowIs(j, {"running"}) /\ Fits(j) /\ ~Imported(j)
    /\ flow[j].pc \in {"monitor", "settle", "import"} => RowIs(j, {"running"}) /\ ~Imported(j)
    /\ flow[j].pc = "failget" =>
           /\ RowIs(j, {"queued", "running", "failed"}) /\ ~Imported(j)
           /\ flow[j].after \in {"done", "stop"}
    /\ flow[j].pc = "failmark" =>
           /\ RowIs(j, {"queued", "running"}) /\ Fits(j) /\ ~Imported(j)
           /\ flow[j].after \in {"done", "stop"}
    /\ flow[j].pc = "succeedget" => RowIs(j, {"running"}) /\ Imported(j)
    /\ flow[j].pc = "succeedmark" => RowIs(j, {"running"}) /\ Fits(j) /\ Imported(j)
    /\ flow[j].pc \in {"stop", "done"} =>
           \/ RowIs(j, {"succeeded"}) /\ Imported(j)
           \/ RowIs(j, {"failed"}) /\ ~Imported(j)
           \/ flow[j].pc = "done" /\ rows[j] = None /\ ~Imported(j)

JobOK == \A j \in Jobs : j \notin hit => PlaceOK(j)

(* The job's request has been written, for the revision it was submitted for. *)
Past(j) == flow[j].pc \notin {"idle", "submit", "timeline"}
Requested(j) ==
    /\ rows[j] \in RowType /\ ledger[j] \in LedgerType
    /\ ledger[j].request = rows[j].rev
    /\ Past(j)
Published(j) ==
    /\ disk.output[j] = [rev |-> rows[j].rev, content |-> 0]
    /\ rows[j] \in RowType /\ Past(j)

Writing == {"gate", "running", "launch", "refused", "monitor", "settle", "import"}

PlaceHasRequest(j) ==
    /\ flow[j].pc \notin {"idle", "submit", "done"} => rows[j] \in RowType
    /\ flow[j].pc \in Writing => Requested(j)
    /\ flow[j].pc \in {"failget", "failmark"} /\ flow[j].after = "settle" => Requested(j)

RequestOK == \A j \in Jobs : PlaceHasRequest(j)

OutputOK ==
    \A j \in Jobs :
        /\ disk.output[j] = None \/ Published(j)
        /\ flow[j].pc = "import" => Published(j)
        /\ Imported(j) => Published(j)

(* The thread renders for the job the worker serves, and has not ended.      *)
ThreadOK ==
    thread # None =>
        /\ thread \in ThreadType /\ worker \in WorkerType
        /\ worker.owner = thread.job
        /\ Requested(thread.job)
        /\ thread.at \in {"encode", "publish", "report"} => thread.rev = rows[thread.job].rev
        /\ thread.at = "publish" => thread.content <= disk.source
        /\ thread.at = "report" => Published(thread.job)
        /\ \A k \in 1..Len(events) : events[k] \notin {"succeeded", "failed"}

(* A line that tells of a success tells it of the job the worker serves.     *)
LinesOK ==
    worker # None =>
        /\ worker \in WorkerType
        /\ worker.owner \in Jobs => \A k \in 1..Len(events) :
               events[k] = "succeeded" => Published(worker.owner)

IInv == TypeOK /\ JobOK /\ RequestOK /\ OutputOK /\ ThreadOK /\ LinesOK

------------------------------------------------------------------------------
(* The parts of a step *)

(* Numbers that bound the jobs.                                              *)
LEMMA JobsAreNat == Jobs \subseteq Nat /\ None \notin Jobs
BY EditingAssumption DEF Jobs

(* A worker found dead is restarted as a worker or dropped.                  *)
LEMMA StatusType ==
    ASSUME worker \in {None} \cup WorkerType
    PROVE  StatusOf(worker) \in {None} \cup WorkerType
<1>1. CASE worker = None
  BY <1>1 DEF StatusOf
<1>2. CASE worker # None
  <2>1. worker \in WorkerType
    BY <1>2
  <2>2. Started(worker.restarts + 1) \in WorkerType
    BY <2>1 DEF Started, WorkerType
  <2>3. StatusOf(worker) \in {worker, Started(worker.restarts + 1), None}
    BY <1>2 DEF StatusOf
  <2> QED
    BY <2>1, <2>2, <2>3
<1> QED
  BY <1>1, <1>2

(* A worker that can start is there.                                         *)
LEMMA StartableType ==
    ASSUME worker \in {None} \cup WorkerType, CanStart(StatusOf(worker))
    PROVE  StatusOf(worker) \in WorkerType
BY StatusType DEF CanStart

(* A task goes on: its own place changes and no other.                       *)
LEMMA GotoMoves ==
    ASSUME flow \in [Jobs -> FlowType], NEW j \in Jobs, NEW pc \in Steps, Goto(j, pc)
    PROVE  /\ flow' \in [Jobs -> FlowType] /\ flow'[j].pc = pc
           /\ pc # "done" => flow'[j].after = flow[j].after /\ flow'[j].seen = flow[j].seen
           /\ \A i \in Jobs : i # j => flow'[i] = flow[i]
<1>1. flow[j] \in FlowType
  OBVIOUS
<1>2. [Began EXCEPT !.pc = "done"] \in FlowType /\ [Began EXCEPT !.pc = "done"].pc = "done"
  BY DEF Began, FlowType, Steps
<1>3. [flow[j] EXCEPT !.pc = pc] \in FlowType
  BY <1>1 DEF FlowType
<1>4. CASE pc = "done"
  <2>1. flow' = [flow EXCEPT ![j] = [Began EXCEPT !.pc = "done"]]
    BY <1>4 DEF Goto
  <2> QED
    BY <1>2, <1>4, <2>1
<1>5. CASE pc # "done"
  <2>1. flow' = [flow EXCEPT ![j] = [flow[j] EXCEPT !.pc = pc]]
    BY <1>5 DEF Goto
  <2>2. flow'[j] = [flow[j] EXCEPT !.pc = pc]
    BY <2>1
  <2> QED
    BY <1>1, <1>3, <2>1, <2>2 DEF FlowType
<1> QED
  BY <1>4, <1>5

(* So does a task that remembers what it read of the row.                    *)
LEMMA GotoSeenMoves ==
    ASSUME flow \in [Jobs -> FlowType], NEW j \in Jobs, NEW pc \in Steps, NEW v \in Nat,
           GotoSeen(j, pc, v)
    PROVE  /\ flow' \in [Jobs -> FlowType] /\ flow'[j].pc = pc /\ flow'[j].seen = v
           /\ flow'[j].after = flow[j].after
           /\ \A i \in Jobs : i # j => flow'[i] = flow[i]
<1>1. flow[j] \in FlowType
  OBVIOUS
<1>2. flow' = [flow EXCEPT ![j] = [flow[j] EXCEPT !.pc = pc, !.seen = v]]
  BY DEF GotoSeen
<1>3. flow'[j] = [flow[j] EXCEPT !.pc = pc, !.seen = v]
  BY <1>2
<1> QED
  BY <1>1, <1>2, <1>3 DEF FlowType

(* And a task that fails its job first.                                      *)
LEMMA FailMoves ==
    ASSUME flow \in [Jobs -> FlowType], NEW j \in Jobs, NEW after \in {"done", "stop", "settle"},
           FailThen(j, after)
    PROVE  /\ flow' \in [Jobs -> FlowType] /\ flow'[j].pc = "failget" /\ flow'[j].after = after
           /\ \A i \in Jobs : i # j => flow'[i] = flow[i]
<1>1. flow[j] \in FlowType
  OBVIOUS
<1>2. flow' = [flow EXCEPT ![j] = [flow[j] EXCEPT !.pc = "failget", !.after = after]]
  BY DEF FailThen
<1>3. flow'[j] = [flow[j] EXCEPT !.pc = "failget", !.after = after]
  BY <1>2
<1>4. flow'[j] \in FlowType
  BY <1>1, <1>3 DEF FlowType, Steps
<1> QED
  BY <1>1, <1>2, <1>3, <1>4 DEF FlowType

(* An accepted transition moves one row on.                                  *)
LEMMA RowMoves ==
    ASSUME rows \in [Jobs -> {None} \cup RowType], NEW j \in Jobs, rows[j] \in RowType,
           NEW to \in {"running", "succeeded", "failed"}, rows' = Moved(j, to)
    PROVE  /\ rows' \in [Jobs -> {None} \cup RowType]
           /\ rows'[j] \in RowType /\ rows'[j].status = to
           /\ rows'[j].ver = rows[j].ver + 1 /\ rows'[j].rev = rows[j].rev
           /\ \A i \in Jobs : i # j => rows'[i] = rows[i]
<1> DEFINE v == rows[j].ver + 1
<1>1. v \in Nat
  BY DEF RowType
<1>2. rows' = [rows EXCEPT ![j] = [rows[j] EXCEPT !.status = to, !.ver = v]]
  BY DEF Moved
<1> HIDE DEF v
<1>3. rows'[j] = [rows[j] EXCEPT !.status = to, !.ver = v]
  BY <1>2
<1>4. rows'[j] \in RowType /\ rows'[j].status = to /\ rows'[j].ver = v /\ rows'[j].rev = rows[j].rev
  BY <1>1, <1>3 DEF RowType
<1> QED
  BY <1>2, <1>4 DEF v

------------------------------------------------------------------------------
(* What a step of one job leaves of the others *)

(* A job's request and artifact once written stay what they are.             *)
Keeps ==
    \A i \in Jobs :
        /\ Requested(i) => Requested(i)' /\ rows'[i].rev = rows[i].rev
        /\ Published(i) => Published(i)'

Others(j) ==
    \A i \in Jobs : i # j =>
        rows'[i] = rows[i] /\ flow'[i] = flow[i] /\ ledger'[i] = ledger[i]

RowOn(j) ==
    Past(j) => /\ Past(j)'
               /\ rows[j] \in RowType => rows'[j] \in RowType /\ rows'[j].rev = rows[j].rev
               /\ ledger[j] \in LedgerType =>
                      ledger'[j] \in LedgerType /\ ledger'[j].request = ledger[j].request

(* What one job's task does to its own row and request is kept for all.      *)
LEMMA StepKeeps ==
    ASSUME NEW j \in Jobs, Others(j), RowOn(j), disk'.output = disk.output
    PROVE  Keeps
<1> SUFFICES ASSUME NEW i \in Jobs
             PROVE  /\ Requested(i) => Requested(i)' /\ rows'[i].rev = rows[i].rev
                    /\ Published(i) => Published(i)'
  BY DEF Keeps
<1>1. CASE i = j
  BY <1>1 DEF RowOn, Requested, Published
<1>2. CASE i # j
  BY <1>2 DEF Others, Requested, Published, Past
<1> QED
  BY <1>1, <1>2

(* The other jobs' places say of their rows what they said.                  *)
LEMMA JobsKept ==
    ASSUME JobOK, NEW j \in Jobs, Others(j), hit \subseteq hit',
           \A i \in Jobs : i # j => (Imported(i)' <=> Imported(i)),
           j \notin hit' => PlaceOK(j)'
    PROVE  JobOK'
<1> SUFFICES ASSUME NEW i \in Jobs, i \notin hit' PROVE PlaceOK(i)'
  BY DEF JobOK
<1>1. CASE i = j
  BY <1>1
<1>2. CASE i # j
  <2>1. PlaceOK(i)
    BY DEF JobOK
  <2>2. rows'[i] = rows[i] /\ flow'[i] = flow[i] /\ (Imported(i)' <=> Imported(i))
    BY <1>2 DEF Others
  <2> HIDE DEF Imported
  <2> QED
    BY <2>1, <2>2 DEF PlaceOK, RowIs, Fits
<1> QED
  BY <1>1, <1>2

(* So do the requests and the outputs.                                       *)
LEMMA RequestsKept ==
    ASSUME RequestOK, OutputOK, NEW j \in Jobs, Others(j), Keeps,
           disk'.output = disk.output,
           \A i \in Jobs : Imported(i)' => Imported(i) \/ (i = j /\ Published(j)),
           PlaceHasRequest(j)', flow'[j].pc = "import" => Published(j)
    PROVE  RequestOK' /\ OutputOK'
<1>1. ASSUME NEW i \in Jobs PROVE PlaceHasRequest(i)'
  <2>1. CASE i = j
    BY <2>1
  <2>2. CASE i # j
    <3>1. PlaceHasRequest(i) /\ (Requested(i) => Requested(i)')
      BY DEF RequestOK, Keeps
    <3> HIDE DEF Requested
    <3> QED
      BY <2>2, <3>1 DEF PlaceHasRequest, Others
  <2> QED
    BY <2>1, <2>2
<1>2. ASSUME NEW i \in Jobs
      PROVE  /\ disk'.output[i] = None \/ Published(i)'
             /\ flow'[i].pc = "import" => Published(i)'
             /\ Imported(i)' => Published(i)'
  <2>1. /\ disk.output[i] = None \/ Published(i)
        /\ flow[i].pc = "import" => Published(i)
        /\ Imported(i) => Published(i)
    BY DEF OutputOK
  <2>2. Published(i) => Published(i)'
    BY DEF Keeps
  <2>3. Imported(i)' => Imported(i) \/ Published(i)
    OBVIOUS
  <2>4. flow'[i].pc = "import" => Published(i)
    BY <2>1 DEF Others
  <2> HIDE DEF Published, Imported
  <2> QED
    BY <2>1, <2>2, <2>3, <2>4
<1> QED
  BY <1>1, <1>2 DEF RequestOK, OutputOK

------------------------------------------------------------------------------
(* What a step leaves of the worker *)

(* The thread and its lines speak of the job they spoke of.                  *)
LEMMA ProcessKept ==
    ASSUME TypeOK, ThreadOK, LinesOK, Keeps, UNCHANGED process,
           disk'.source \in Nat, disk.source <= disk'.source
    PROVE  ThreadOK' /\ LinesOK'
<1>1. worker' = worker /\ thread' = thread /\ events' = events
  BY DEF process
<1>2. ThreadOK'
  <2> SUFFICES ASSUME thread # None PROVE ThreadOK'
    BY <1>1 DEF ThreadOK
  <2>1. thread \in ThreadType /\ worker \in WorkerType
    BY DEF ThreadOK
  <2>2. PICK j \in Jobs : j = thread.job
    BY <2>1 DEF ThreadType
  <2>3. thread'.job = j
    BY <1>1, <2>2
  <2>4. Requested(j) /\ (thread.at = "report" => Published(j))
    BY <2>2 DEF ThreadOK, Requested, Published, Past
  <2>5. Requested(j)' /\ rows'[j].rev = rows[j].rev /\ (Published(j) => Published(j)')
    BY <2>4 DEF Keeps
  <2>6. Requested(thread.job)' /\ (thread.at = "report" => Published(thread.job)')
    BY <2>3, <2>4, <2>5 DEF Requested, Published, Past
  <2>7. thread.at \in {"encode", "publish", "report"} => thread'.rev = rows'[thread'.job].rev
    BY <1>1, <2>2, <2>5 DEF ThreadOK
  <2>8. thread.content \in Nat /\ disk.source \in Nat
    BY <2>1 DEF ThreadType, TypeOK
  <2>9. thread.at = "publish" => thread'.content <= disk'.source
    BY <1>1, <2>8 DEF ThreadOK
  <2> HIDE DEF Requested, Published
  <2> QED
    BY <1>1, <2>1, <2>6, <2>7, <2>9 DEF ThreadOK
<1>3. LinesOK'
  <2> SUFFICES ASSUME worker # None, worker.owner \in Jobs PROVE LinesOK'
    BY <1>1 DEF LinesOK
  <2>1. PICK j \in Jobs : j = worker.owner
    OBVIOUS
  <2>2. \A k \in 1..Len(events) : events[k] = "succeeded" => Published(j)
    BY <2>1 DEF LinesOK, Published, Past
  <2>3. Published(j) => Published(j)'
    BY DEF Keeps
  <2>4. worker'.owner = j /\ (Published(j)' => Published(worker.owner)')
    BY <1>1, <2>1 DEF Published, Past
  <2> HIDE DEF Published
  <2> QED
    BY <1>1, <2>2, <2>3, <2>4 DEF LinesOK
<1> QED
  BY <1>2, <1>3

(* A new child has no thread and has written nothing.                        *)
LEMMA FreshKept ==
    ASSUME TypeOK, ThreadOK, LinesOK, Keeps, NEW w \in {None} \cup WorkerType,
           worker' = w, Fresh(w), disk' = disk
    PROVE  /\ ThreadOK' /\ LinesOK'
           /\ worker' \in {None} \cup WorkerType
           /\ thread' \in {None} \cup ThreadType /\ events' \in Seq(Lines)
<1>1. CASE w = worker
  <2>1. UNCHANGED process
    BY <1>1 DEF Fresh, process
  <2>2. ThreadOK' /\ LinesOK'
    BY <2>1, ProcessKept DEF TypeOK
  <2> QED
    BY <2>1, <2>2 DEF TypeOK, process
<1>2. CASE w # worker
  <2>1. thread' = None /\ events' = <<>>
    BY <1>2 DEF Fresh
  <2>2. ThreadOK'
    BY <2>1 DEF ThreadOK
  <2>3. LinesOK'
    BY <2>1 DEF LinesOK
  <2> QED
    BY <2>1, <2>2, <2>3
<1> QED
  BY <1>1, <1>2

(* A stopped worker says nothing.                                            *)
LEMMA StopKept ==
    ASSUME StopWorker
    PROVE  /\ ThreadOK' /\ LinesOK'
           /\ worker' \in {None} \cup WorkerType
           /\ thread' \in {None} \cup ThreadType /\ events' \in Seq(Lines)
<1>1. worker' = None /\ thread' = None /\ events' = <<>>
  BY DEF StopWorker
<1> QED
  BY <1>1 DEF ThreadOK, LinesOK

(* A worker started for a job serves that job from its request.              *)
LEMMA StartKept ==
    ASSUME NEW w \in WorkerType, NEW j \in Jobs, StartOn(w, j), Requested(j)'
    PROVE  /\ ThreadOK' /\ LinesOK'
           /\ worker' \in {None} \cup WorkerType
           /\ thread' \in {None} \cup ThreadType /\ events' \in Seq(Lines)
<1>1. /\ worker' = [w EXCEPT !.owner = j] /\ events' = <<>>
      /\ thread' = [job |-> j, at |-> "load", rev |-> 0, content |-> 0]
  BY DEF StartOn, RenderThread
<1>2. worker' \in WorkerType /\ worker'.owner = j
  BY <1>1 DEF WorkerType
<1>3. thread' \in ThreadType /\ thread'.job = j /\ thread'.at = "load"
  BY <1>1 DEF ThreadType
<1>4. Requested(thread.job)'
  BY <1>3 DEF Requested, Past
<1> HIDE DEF Requested
<1>5. ThreadOK'
  BY <1>1, <1>2, <1>3, <1>4 DEF ThreadOK
<1>6. LinesOK'
  BY <1>1, <1>2 DEF LinesOK
<1> QED
  BY <1>1, <1>2, <1>3, <1>5, <1>6

(* The invariant after a step of one job's tasks.                            *)
LEMMA TaskStep ==
    ASSUME IInv, NEW j \in Jobs, TypeOK', Others(j), Keeps, hit \subseteq hit',
           disk'.output = disk.output,
           \A i \in Jobs : i # j => (Imported(i)' <=> Imported(i)),
           Imported(j)' => Imported(j) \/ Published(j),
           j \notin hit' => PlaceOK(j)',
           PlaceHasRequest(j)', flow'[j].pc = "import" => Published(j),
           ThreadOK', LinesOK'
    PROVE  IInv'
<1>1. JobOK'
  BY JobsKept DEF IInv
<1>2. \A i \in Jobs : Imported(i)' => Imported(i) \/ (i = j /\ Published(j))
  OBVIOUS
<1>3. RequestOK' /\ OutputOK'
  BY <1>2, RequestsKept DEF IInv
<1> QED
  BY <1>1, <1>3 DEF IInv

(* What the invariant says of the job that takes a step.                     *)
LEMMA AtPlace ==
    ASSUME IInv, NEW j \in Jobs
    PROVE  /\ flow \in [Jobs -> FlowType] /\ flow[j] \in FlowType
           /\ rows \in [Jobs -> {None} \cup RowType]
           /\ ledger \in [Jobs -> {None} \cup LedgerType]
           /\ j \notin hit => PlaceOK(j)
           /\ PlaceHasRequest(j)
           /\ flow[j].pc = "import" => Published(j)
BY DEF IInv, TypeOK, JobOK, RequestOK, OutputOK

(* A step that leaves the worker alone.                                      *)
LEMMA QuietStep ==
    ASSUME IInv, NEW j \in Jobs, TypeOK', Others(j), RowOn(j), hit \subseteq hit',
           UNCHANGED <<process, disk>>,
           j \notin hit' => PlaceOK(j)',
           PlaceHasRequest(j)', flow'[j].pc = "import" => Published(j)
    PROVE  IInv'
<1>1. Keeps
  BY StepKeeps
<1>2. ThreadOK' /\ LinesOK'
  BY <1>1, ProcessKept DEF IInv, TypeOK
<1>3. /\ \A i \in Jobs : i # j => (Imported(i)' <=> Imported(i))
      /\ Imported(j)' => Imported(j) \/ Published(j)
  BY DEF Imported
<1> QED
  BY <1>1, <1>2, <1>3, TaskStep

------------------------------------------------------------------------------
(* Submission and dispatch *)

(* submit reads the latest revision.                                         *)
LEMMA ReadRevisionHolds ==
    ASSUME IInv, NEW j \in Jobs, ReadRevision(j) PROVE IInv'
<1> USE AtPlace
<1>1. /\ flow[j].pc = "idle" /\ revision \in Nat
      /\ flow' = [flow EXCEPT ![j] = [flow[j] EXCEPT !.pc = "submit", !.rev = revision]]
      /\ UNCHANGED <<revision, rows, ledger, gate, process, disk, hit, faults>>
  BY DEF ReadRevision, At, IInv, TypeOK
<1>2. flow'[j] = [flow[j] EXCEPT !.pc = "submit", !.rev = revision]
  BY <1>1
<1>3. flow'[j] \in FlowType /\ flow'[j].pc = "submit"
  BY <1>1, <1>2 DEF FlowType, Steps
<1>4. flow' \in [Jobs -> FlowType]
  BY <1>1, <1>2, <1>3
<1>5. TypeOK'
  BY <1>1, <1>4 DEF IInv, TypeOK, process
<1>6. Others(j) /\ RowOn(j)
  BY <1>1 DEF Others, RowOn, Past
<1>7. j \notin hit' => PlaceOK(j)'
  BY <1>1, <1>3 DEF PlaceOK, RowIs, Fits, Imported
<1>8. PlaceHasRequest(j)'
  BY <1>3 DEF PlaceHasRequest, Writing
<1> QED
  BY <1>1, <1>3, <1>5, <1>6, <1>7, <1>8, QuietStep

(* submit inserts the row, or is refused.                                    *)
LEMMA InsertJobHolds ==
    ASSUME IInv, NEW j \in Jobs, InsertJob(j) PROVE IInv'
<1> USE AtPlace
<1>1. /\ flow[j].pc = "submit" /\ flow[j].rev \in Nat
      /\ UNCHANGED <<revision, ledger, gate, process, disk>>
  BY DEF InsertJob, At, FlowType
<1>2. CASE rows' = [rows EXCEPT ![j] = Queued(flow[j].rev)]
           /\ \/ GotoSeen(j, "timeline", 0) /\ Smooth
              \/ Goto(j, "done") /\ Fault(j)
  <2>1. Queued(flow[j].rev) \in RowType /\ Queued(flow[j].rev).status = "queued"
        /\ Queued(flow[j].rev).ver = 0
    BY <1>1 DEF Queued, RowType
  <2>2. rows' \in [Jobs -> {None} \cup RowType] /\ rows'[j] = Queued(flow[j].rev)
        /\ \A i \in Jobs : i # j => rows'[i] = rows[i]
    BY <1>2, <2>1
  <2>3. CASE GotoSeen(j, "timeline", 0) /\ Smooth
    <3>1. /\ flow' \in [Jobs -> FlowType] /\ flow'[j].pc = "timeline" /\ flow'[j].seen = 0
          /\ \A i \in Jobs : i # j => flow'[i] = flow[i]
      BY <2>3, GotoSeenMoves DEF Steps
    <3>2. hit' = hit
      BY <2>3 DEF Smooth
    <3>3. TypeOK'
      BY <1>1, <2>2, <3>1, <3>2 DEF IInv, TypeOK, process
    <3>4. Others(j) /\ RowOn(j)
      BY <1>1, <2>2, <3>1 DEF Others, RowOn, Past
    <3>5. j \notin hit' => PlaceOK(j)'
      BY <1>1, <2>1, <2>2, <3>1, <3>2 DEF PlaceOK, RowIs, Fits, Imported
    <3>6. PlaceHasRequest(j)'
      BY <2>1, <2>2, <3>1 DEF PlaceHasRequest, Writing
    <3> QED
      BY <1>1, <3>1, <3>2, <3>3, <3>4, <3>5, <3>6, QuietStep
  <2>4. CASE Goto(j, "done") /\ Fault(j)
    <3>1. /\ flow' \in [Jobs -> FlowType] /\ flow'[j].pc = "done"
          /\ \A i \in Jobs : i # j => flow'[i] = flow[i]
      BY <2>4, GotoMoves DEF Steps
    <3>2. hit' = hit \cup {j}
      BY <2>4 DEF Fault
    <3>3. TypeOK'
      BY <1>1, <2>2, <3>1, <3>2 DEF IInv, TypeOK, process
    <3>4. Others(j) /\ RowOn(j)
      BY <1>1, <2>2, <3>1 DEF Others, RowOn, Past
    <3>5. PlaceHasRequest(j)'
      BY <3>1 DEF PlaceHasRequest, Writing
    <3> QED
      BY <1>1, <3>1, <3>2, <3>3, <3>4, <3>5, QuietStep
  <2> QED
    BY <1>2, <2>3, <2>4
<1>3. CASE Goto(j, "done") /\ UNCHANGED rows /\ Smooth
  <2>1. /\ flow' \in [Jobs -> FlowType] /\ flow'[j].pc = "done"
        /\ \A i \in Jobs : i # j => flow'[i] = flow[i]
    BY <1>3, GotoMoves DEF Steps
  <2>2. hit' = hit
    BY <1>3 DEF Smooth
  <2>3. TypeOK'
    BY <1>1, <1>3, <2>1, <2>2 DEF IInv, TypeOK, process
  <2>4. Others(j) /\ RowOn(j)
    BY <1>1, <1>3, <2>1 DEF Others, RowOn, Past
  <2>5. j \notin hit' => PlaceOK(j)'
    BY <1>1, <1>3, <2>1, <2>2 DEF PlaceOK, RowIs, Fits, Imported
  <2>6. PlaceHasRequest(j)'
    BY <2>1 DEF PlaceHasRequest, Writing
  <2> QED
    BY <1>1, <2>1, <2>2, <2>3, <2>4, <2>5, <2>6, QuietStep
<1> QED
  BY <1>2, <1>3 DEF InsertJob

(* A step that leaves the files alone.                                       *)
LEMMA WorkerStep ==
    ASSUME IInv, NEW j \in Jobs, TypeOK', Others(j), RowOn(j), hit \subseteq hit',
           disk' = disk,
           j \notin hit' => PlaceOK(j)',
           PlaceHasRequest(j)', flow'[j].pc = "import" => Published(j),
           ThreadOK', LinesOK'
    PROVE  IInv'
<1>1. Keeps
  BY StepKeeps
<1>2. /\ \A i \in Jobs : i # j => (Imported(i)' <=> Imported(i))
      /\ Imported(j)' => Imported(j) \/ Published(j)
  BY DEF Imported
<1> QED
  BY <1>1, <1>2, TaskStep

(* The request is written for the revision the job was submitted for.        *)
LEMMA LoadTimelineHolds ==
    ASSUME IInv, NEW j \in Jobs, LoadTimeline(j) PROVE IInv'
<1> USE AtPlace
<1>1. /\ flow[j].pc = "timeline" /\ rows[j] \in RowType /\ revision \in Nat
      /\ UNCHANGED <<revision, rows, gate, process, disk>>
  BY DEF LoadTimeline, At, IInv, TypeOK, PlaceHasRequest
<1>2. CASE /\ revision = rows[j].rev
           /\ ledger' = [ledger EXCEPT ![j] = [status |-> "queued", phase |-> 0, recoveries |-> 0,
                                               request |-> revision]]
           /\ Goto(j, "gate") /\ Smooth
  <2> DEFINE entry == [status |-> "queued", phase |-> 0, recoveries |-> 0, request |-> revision]
  <2>1. entry \in LedgerType /\ entry.request = revision
    BY <1>1 DEF LedgerType
  <2>2. ledger' = [ledger EXCEPT ![j] = entry]
    BY <1>2
  <2> HIDE DEF entry
  <2>3. /\ ledger' \in [Jobs -> {None} \cup LedgerType] /\ ledger'[j] = entry
        /\ \A i \in Jobs : i # j => ledger'[i] = ledger[i]
    BY <2>1, <2>2
  <2>4. /\ flow' \in [Jobs -> FlowType] /\ flow'[j].pc = "gate" /\ flow'[j].seen = flow[j].seen
        /\ \A i \in Jobs : i # j => flow'[i] = flow[i]
    BY <1>2, GotoMoves DEF Steps
  <2>5. hit' = hit
    BY <1>2 DEF Smooth
  <2>6. TypeOK'
    BY <1>1, <2>3, <2>4, <2>5 DEF IInv, TypeOK, process
  <2>7. Others(j) /\ RowOn(j)
    BY <1>1, <2>3, <2>4 DEF Others, RowOn, Past
  <2>8. j \notin hit' => PlaceOK(j)'
    BY <1>1, <2>4, <2>5 DEF PlaceOK, RowIs, Fits, Imported
  <2>9. PlaceHasRequest(j)'
    BY <1>1, <1>2, <2>1, <2>3, <2>4 DEF PlaceHasRequest, Requested, Past
  <2> QED
    BY <1>1, <2>4, <2>5, <2>6, <2>7, <2>8, <2>9, QuietStep
<1>3. CASE FailThen(j, "done") /\ UNCHANGED ledger /\ (Smooth \/ Fault(j))
  <2>1. /\ flow' \in [Jobs -> FlowType] /\ flow'[j].pc = "failget" /\ flow'[j].after = "done"
        /\ \A i \in Jobs : i # j => flow'[i] = flow[i]
    BY <1>3, FailMoves
  <2>2. hit \subseteq hit' /\ hit' \subseteq Jobs
    BY <1>3 DEF Smooth, Fault, IInv, TypeOK
  <2>3. TypeOK'
    BY <1>1, <1>3, <2>1, <2>2 DEF IInv, TypeOK, process
  <2>4. Others(j) /\ RowOn(j)
    BY <1>1, <1>3, <2>1 DEF Others, RowOn, Past
  <2>5. j \notin hit' => PlaceOK(j)'
    BY <1>1, <2>1, <2>2 DEF PlaceOK, RowIs, Imported
  <2>6. PlaceHasRequest(j)'
    BY <1>1, <2>1 DEF PlaceHasRequest, Writing
  <2> QED
    BY <1>1, <2>1, <2>2, <2>3, <2>4, <2>5, <2>6, QuietStep
<1> QED
  BY <1>2, <1>3 DEF LoadTimeline

(* The coordinator admits the job and a worker is ensured.                   *)
LEMMA EnsureWorkerHolds ==
    ASSUME IInv, NEW j \in Jobs, EnsureWorker(j) PROVE IInv'
<1> USE AtPlace
<1> DEFINE w == IF StatusOf(worker) = None THEN Started(0) ELSE StatusOf(worker)
<1>1. /\ flow[j].pc = "gate" /\ worker' = w /\ Fresh(w) /\ Goto(j, "running")
      /\ UNCHANGED <<revision, rows, ledger, disk, hit, faults>>
  BY DEF EnsureWorker, At
<1>2. w \in {None} \cup WorkerType
  <2>1. Started(0) \in WorkerType
    BY DEF Started, WorkerType
  <2> QED
    BY <2>1, StatusType DEF IInv, TypeOK
<1> HIDE DEF w
<1>3. /\ flow' \in [Jobs -> FlowType] /\ flow'[j].pc = "running" /\ flow'[j].seen = flow[j].seen
      /\ \A i \in Jobs : i # j => flow'[i] = flow[i]
  BY <1>1, GotoMoves DEF Steps
<1>4. Others(j) /\ RowOn(j)
  BY <1>1, <1>3 DEF Others, RowOn, Past
<1>5. /\ ThreadOK' /\ LinesOK' /\ worker' \in {None} \cup WorkerType
      /\ thread' \in {None} \cup ThreadType /\ events' \in Seq(Lines)
  <2>1. Keeps
    BY <1>1, <1>4, StepKeeps
  <2> QED
    BY <1>1, <1>2, <2>1, FreshKept DEF IInv
<1>6. TypeOK'
  BY <1>1, <1>3, <1>5 DEF IInv, TypeOK
<1>7. j \notin hit' => PlaceOK(j)'
  BY <1>1, <1>3 DEF PlaceOK, RowIs, Fits, Imported
<1>8. PlaceHasRequest(j)'
  BY <1>1, <1>3 DEF PlaceHasRequest, Writing, Requested, Past
<1> QED
  BY <1>1, <1>3, <1>4, <1>5, <1>6, <1>7, <1>8, WorkerStep

(* The row goes to running, or the worker is stopped and the job failed.     *)
LEMMA ReconcileRunningHolds ==
    ASSUME IInv, NEW j \in Jobs, ReconcileRunning(j) PROVE IInv'
<1> USE AtPlace
<1>1. /\ flow[j].pc = "running" /\ rows[j] \in RowType /\ flow[j].seen \in Nat
      /\ UNCHANGED <<revision, ledger, disk>>
  BY DEF ReconcileRunning, At, PlaceHasRequest, FlowType
<1>2. CASE /\ Accepts(j, flow[j].seen, "running") /\ rows' = Moved(j, "running")
           /\ GotoSeen(j, "launch", flow[j].seen + 1)
           /\ UNCHANGED <<gate, process>> /\ Smooth
  <2>1. /\ rows' \in [Jobs -> {None} \cup RowType]
        /\ rows'[j] \in RowType /\ rows'[j].status = "running"
        /\ rows'[j].ver = rows[j].ver + 1 /\ rows'[j].rev = rows[j].rev
        /\ \A i \in Jobs : i # j => rows'[i] = rows[i]
    BY <1>1, <1>2, RowMoves
  <2>2. flow[j].seen + 1 \in Nat /\ rows[j].ver = flow[j].seen
    BY <1>1, <1>2 DEF Accepts
  <2>3. /\ flow' \in [Jobs -> FlowType] /\ flow'[j].pc = "launch"
        /\ flow'[j].seen = flow[j].seen + 1
        /\ \A i \in Jobs : i # j => flow'[i] = flow[i]
    BY <1>2, <2>2, GotoSeenMoves DEF Steps
  <2>4. hit' = hit
    BY <1>2 DEF Smooth
  <2>5. TypeOK'
    BY <1>1, <1>2, <2>1, <2>3, <2>4 DEF IInv, TypeOK, process
  <2>6. Others(j) /\ RowOn(j)
    BY <1>1, <2>1, <2>3 DEF Others, RowOn, Past
  <2>7. j \notin hit' => PlaceOK(j)'
    BY <1>1, <2>1, <2>2, <2>3, <2>4 DEF PlaceOK, RowIs, Fits, Imported
  <2>8. PlaceHasRequest(j)'
    BY <1>1, <2>1, <2>3 DEF PlaceHasRequest, Writing, Requested, Past
  <2> QED
    BY <1>1, <1>2, <2>3, <2>4, <2>5, <2>6, <2>7, <2>8, QuietStep
<1>3. CASE /\ \/ UNCHANGED rows
              \/ Accepts(j, flow[j].seen, "running") /\ rows' = Moved(j, "running")
           /\ StopWorker /\ FailThen(j, "done") /\ Fault(j)
  <2>1. /\ rows' \in [Jobs -> {None} \cup RowType]
        /\ rows'[j] \in RowType /\ rows'[j].rev = rows[j].rev
        /\ \A i \in Jobs : i # j => rows'[i] = rows[i]
    <3>1. CASE UNCHANGED rows
      BY <1>1, <3>1
    <3>2. CASE rows' = Moved(j, "running")
      BY <1>1, <3>2, RowMoves
    <3> QED
      BY <1>3, <3>1, <3>2
  <2>2. /\ flow' \in [Jobs -> FlowType] /\ flow'[j].pc = "failget" /\ flow'[j].after = "done"
        /\ \A i \in Jobs : i # j => flow'[i] = flow[i]
    BY <1>3, FailMoves
  <2>3. hit' = hit \cup {j}
    BY <1>3 DEF Fault
  <2>4. /\ ThreadOK' /\ LinesOK' /\ worker' \in {None} \cup WorkerType
        /\ thread' \in {None} \cup ThreadType /\ events' \in Seq(Lines)
    BY <1>3, StopKept
  <2>5. TypeOK'
    BY <1>1, <2>1, <2>2, <2>3, <2>4 DEF IInv, TypeOK
  <2>6. Others(j) /\ RowOn(j)
    BY <1>1, <2>1, <2>2 DEF Others, RowOn, Past
  <2>7. PlaceHasRequest(j)'
    BY <2>1, <2>2 DEF PlaceHasRequest, Writing
  <2> QED
    BY <1>1, <2>2, <2>3, <2>4, <2>5, <2>6, <2>7, WorkerStep
<1> QED
  BY <1>2, <1>3 DEF ReconcileRunning

(* The job is handed to the worker, or refused by a busy or dead one.        *)
LEMMA LaunchHolds ==
    ASSUME IInv, NEW j \in Jobs, Launch(j) PROVE IInv'
<1> USE AtPlace
<1>1. /\ flow[j].pc = "launch" /\ Requested(j)
      /\ worker \in {None} \cup WorkerType
      /\ UNCHANGED <<revision, rows, disk, hit, faults>>
  BY DEF Launch, At, PlaceHasRequest, Writing, IInv, TypeOK
<1>2. ASSUME NEW s \in {"running", "failed"}, ledger' = [ledger EXCEPT ![j].status = s]
      PROVE  /\ ledger' \in [Jobs -> {None} \cup LedgerType]
             /\ ledger'[j] \in LedgerType /\ ledger'[j].request = ledger[j].request
             /\ \A i \in Jobs : i # j => ledger'[i] = ledger[i]
  <2>1. ledger[j] \in LedgerType
    BY <1>1 DEF Requested
  <2>2. ledger'[j] = [ledger[j] EXCEPT !.status = s]
    BY <1>2
  <2>3. ledger'[j] \in LedgerType /\ ledger'[j].request = ledger[j].request
    BY <2>1, <2>2 DEF LedgerType
  <2> QED
    BY <1>2, <2>2, <2>3
<1>3. CASE /\ CanStart(StatusOf(worker)) /\ StartOn(StatusOf(worker), j)
           /\ ledger' = [ledger EXCEPT ![j].status = "running"] /\ Goto(j, "monitor")
  <2>1. /\ flow' \in [Jobs -> FlowType] /\ flow'[j].pc = "monitor"
        /\ \A i \in Jobs : i # j => flow'[i] = flow[i]
    BY <1>3, GotoMoves DEF Steps
  <2>2. Others(j) /\ RowOn(j)
    BY <1>1, <1>2, <1>3, <2>1 DEF Others, RowOn, Past
  <2>3. Requested(j)'
    BY <1>1, <1>2, <1>3, <2>1 DEF Requested, Past
  <2>4. StatusOf(worker) \in WorkerType
    BY <1>1, <1>3, StartableType
  <2>5. /\ ThreadOK' /\ LinesOK' /\ worker' \in {None} \cup WorkerType
        /\ thread' \in {None} \cup ThreadType /\ events' \in Seq(Lines)
    BY <1>3, <2>3, <2>4, StartKept
  <2>6. TypeOK'
    BY <1>1, <1>2, <1>3, <2>1, <2>5 DEF IInv, TypeOK
  <2>7. j \notin hit' => PlaceOK(j)'
    BY <1>1, <2>1 DEF PlaceOK, RowIs, Imported
  <2>8. PlaceHasRequest(j)'
    BY <2>1, <2>3 DEF PlaceHasRequest, Requested
  <2> QED
    BY <1>1, <2>1, <2>2, <2>5, <2>6, <2>7, <2>8, WorkerStep
<1>4. CASE /\ worker' = StatusOf(worker) /\ Fresh(StatusOf(worker))
           /\ ledger' = [ledger EXCEPT ![j].status = "failed"] /\ Goto(j, "refused")
  <2>1. /\ flow' \in [Jobs -> FlowType] /\ flow'[j].pc = "refused" /\ flow'[j].seen = flow[j].seen
        /\ \A i \in Jobs : i # j => flow'[i] = flow[i]
    BY <1>4, GotoMoves DEF Steps
  <2>2. Others(j) /\ RowOn(j)
    BY <1>1, <1>2, <1>4, <2>1 DEF Others, RowOn, Past
  <2>3. Requested(j)'
    BY <1>1, <1>2, <1>4, <2>1 DEF Requested, Past
  <2>4. StatusOf(worker) \in {None} \cup WorkerType
    BY <1>1, StatusType
  <2>5. /\ ThreadOK' /\ LinesOK' /\ worker' \in {None} \cup WorkerType
        /\ thread' \in {None} \cup ThreadType /\ events' \in Seq(Lines)
    <3>1. Keeps
      BY <1>1, <2>2, StepKeeps
    <3> QED
      BY <1>1, <1>4, <2>4, <3>1, FreshKept DEF IInv
  <2>6. TypeOK'
    BY <1>1, <1>2, <1>4, <2>1, <2>5 DEF IInv, TypeOK
  <2>7. j \notin hit' => PlaceOK(j)'
    BY <1>1, <2>1 DEF PlaceOK, RowIs, Fits, Imported
  <2>8. PlaceHasRequest(j)'
    BY <2>1, <2>3 DEF PlaceHasRequest, Requested
  <2> QED
    BY <1>1, <2>1, <2>2, <2>5, <2>6, <2>7, <2>8, WorkerStep
<1> QED
  BY <1>3, <1>4 DEF Launch

(* A refused job is marked and its worker stopped.                           *)
LEMMA LaunchRefusedHolds ==
    ASSUME IInv, NEW j \in Jobs, LaunchRefused(j) PROVE IInv'
<1> USE AtPlace
<1>1. /\ flow[j].pc = "refused" /\ rows[j] \in RowType
      /\ StopWorker /\ FailThen(j, "done")
      /\ UNCHANGED <<revision, ledger, disk>>
  BY DEF LaunchRefused, At, PlaceHasRequest
<1>2. /\ flow' \in [Jobs -> FlowType] /\ flow'[j].pc = "failget" /\ flow'[j].after = "done"
      /\ \A i \in Jobs : i # j => flow'[i] = flow[i]
  BY <1>1, FailMoves
<1>3. /\ rows' \in [Jobs -> {None} \cup RowType]
      /\ rows'[j] \in RowType /\ rows'[j].rev = rows[j].rev
      /\ \A i \in Jobs : i # j => rows'[i] = rows[i]
      /\ hit \subseteq hit' /\ hit' \subseteq Jobs
      /\ j \notin hit' => rows'[j].status = "failed"
  <2>1. CASE rows' = Moved(j, "failed") /\ Smooth
    <3>1. /\ rows' \in [Jobs -> {None} \cup RowType]
          /\ rows'[j] \in RowType /\ rows'[j].rev = rows[j].rev /\ rows'[j].status = "failed"
          /\ \A i \in Jobs : i # j => rows'[i] = rows[i]
      BY <1>1, <2>1, RowMoves
    <3> QED
      BY <2>1, <3>1 DEF Smooth, IInv, TypeOK
  <2>2. CASE UNCHANGED rows /\ Fault(j)
    BY <1>1, <2>2 DEF Fault, IInv, TypeOK
  <2> QED
    BY <2>1, <2>2 DEF LaunchRefused
<1>4. /\ ThreadOK' /\ LinesOK' /\ worker' \in {None} \cup WorkerType
      /\ thread' \in {None} \cup ThreadType /\ events' \in Seq(Lines)
  BY <1>1, StopKept
<1>5. TypeOK'
  BY <1>1, <1>2, <1>3, <1>4 DEF IInv, TypeOK
<1>6. Others(j) /\ RowOn(j)
  BY <1>1, <1>2, <1>3 DEF Others, RowOn, Past
<1>7. j \notin hit' => PlaceOK(j)'
  BY <1>1, <1>2, <1>3 DEF PlaceOK, RowIs, Imported
<1>8. PlaceHasRequest(j)'
  BY <1>2, <1>3 DEF PlaceHasRequest, Writing
<1> QED
  BY <1>1, <1>2, <1>3, <1>4, <1>5, <1>6, <1>7, <1>8, WorkerStep

------------------------------------------------------------------------------
(* Failing a job *)

(* The row is read before it is failed.                                      *)
LEMMA FailGetHolds ==
    ASSUME IInv, NEW j \in Jobs, FailGet(j) PROVE IInv'
<1> USE AtPlace
<1>1. /\ flow[j].pc = "failget" /\ rows[j] \in RowType /\ rows[j].ver \in Nat
      /\ flow[j].after \in {"done", "stop", "settle"}
      /\ UNCHANGED <<revision, rows, ledger, gate, process, disk>>
  BY DEF FailGet, At, PlaceHasRequest, FlowType, RowType
<1>2. CASE /\ rows[j].status \in {"queued", "running"}
           /\ GotoSeen(j, "failmark", rows[j].ver) /\ Smooth
  <2>1. /\ flow' \in [Jobs -> FlowType] /\ flow'[j].pc = "failmark"
        /\ flow'[j].seen = rows[j].ver /\ flow'[j].after = flow[j].after
        /\ \A i \in Jobs : i # j => flow'[i] = flow[i]
    BY <1>1, <1>2, GotoSeenMoves DEF Steps
  <2>2. hit' = hit
    BY <1>2 DEF Smooth
  <2>3. TypeOK'
    BY <1>1, <2>1, <2>2 DEF IInv, TypeOK, process
  <2>4. Others(j) /\ RowOn(j)
    BY <1>1, <2>1 DEF Others, RowOn, Past
  <2>5. j \notin hit' => PlaceOK(j)'
    BY <1>1, <1>2, <2>1, <2>2 DEF PlaceOK, RowIs, Fits, Imported
  <2>6. PlaceHasRequest(j)'
    BY <1>1, <2>1 DEF PlaceHasRequest, Writing, Requested, Past
  <2> QED
    BY <1>1, <2>1, <2>2, <2>3, <2>4, <2>5, <2>6, QuietStep
<1>3. CASE /\ Goto(j, flow[j].after)
           /\ \/ Smooth /\ rows[j].status \notin {"queued", "running"}
              \/ Fault(j)
  <2>1. /\ flow' \in [Jobs -> FlowType] /\ flow'[j].pc = flow[j].after
        /\ \A i \in Jobs : i # j => flow'[i] = flow[i]
    BY <1>1, <1>3, GotoMoves DEF Steps
  <2>2. hit \subseteq hit' /\ hit' \subseteq Jobs
    BY <1>3 DEF Smooth, Fault, IInv, TypeOK
  <2>3. TypeOK'
    BY <1>1, <2>1, <2>2 DEF IInv, TypeOK, process
  <2>4. Others(j) /\ RowOn(j)
    BY <1>1, <2>1 DEF Others, RowOn, Past
  <2>5. j \notin hit' => rows[j].status \notin {"queued", "running"}
    BY <1>3 DEF Fault
  <2>6. j \notin hit' => PlaceOK(j)'
    BY <1>1, <2>1, <2>2, <2>5 DEF PlaceOK, RowIs, Imported
  <2>7. PlaceHasRequest(j)'
    BY <1>1, <2>1 DEF PlaceHasRequest, Writing, Requested, Past
  <2> QED
    BY <1>1, <2>1, <2>2, <2>3, <2>4, <2>6, <2>7, QuietStep
<1> QED
  BY <1>2, <1>3 DEF FailGet

(* And failed if it is still as it was read.                                 *)
LEMMA FailMarkHolds ==
    ASSUME IInv, NEW j \in Jobs, FailMark(j) PROVE IInv'
<1> USE AtPlace
<1>1. /\ flow[j].pc = "failmark" /\ rows[j] \in RowType
      /\ flow[j].after \in {"done", "stop", "settle"} /\ Goto(j, flow[j].after)
      /\ UNCHANGED <<revision, ledger, gate, process, disk>>
  BY DEF FailMark, At, PlaceHasRequest, FlowType
<1>2. /\ flow' \in [Jobs -> FlowType] /\ flow'[j].pc = flow[j].after
      /\ \A i \in Jobs : i # j => flow'[i] = flow[i]
  BY <1>1, GotoMoves DEF Steps
<1>3. /\ rows' \in [Jobs -> {None} \cup RowType]
      /\ rows'[j] \in RowType /\ rows'[j].rev = rows[j].rev
      /\ \A i \in Jobs : i # j => rows'[i] = rows[i]
      /\ hit \subseteq hit' /\ hit' \subseteq Jobs
      /\ j \notin hit' => rows'[j].status = "failed"
  <2>1. CASE rows' = Moved(j, "failed") /\ Smooth
    <3>1. /\ rows' \in [Jobs -> {None} \cup RowType]
          /\ rows'[j] \in RowType /\ rows'[j].rev = rows[j].rev /\ rows'[j].status = "failed"
          /\ \A i \in Jobs : i # j => rows'[i] = rows[i]
      BY <1>1, <2>1, RowMoves
    <3> QED
      BY <2>1, <3>1 DEF Smooth, IInv, TypeOK
  <2>2. CASE ~Accepts(j, flow[j].seen, "failed") /\ UNCHANGED rows /\ Smooth
    <3>1. j \in hit
      BY <1>1, <2>2 DEF Accepts, Allowed, PlaceOK, RowIs, Fits
    <3> QED
      BY <1>1, <2>2, <3>1 DEF Smooth, IInv, TypeOK
  <2>3. CASE UNCHANGED rows /\ Fault(j)
    BY <1>1, <2>3 DEF Fault, IInv, TypeOK
  <2> QED
    BY <2>1, <2>2, <2>3 DEF FailMark
<1>4. TypeOK'
  BY <1>1, <1>2, <1>3 DEF IInv, TypeOK, process
<1>5. Others(j) /\ RowOn(j)
  BY <1>1, <1>2, <1>3 DEF Others, RowOn, Past
<1>6. j \notin hit' => PlaceOK(j)'
  BY <1>1, <1>2, <1>3 DEF PlaceOK, RowIs, Imported
<1>7. PlaceHasRequest(j)'
  BY <1>1, <1>2, <1>3 DEF PlaceHasRequest, Writing, Requested, Past
<1> QED
  BY <1>1, <1>2, <1>3, <1>4, <1>5, <1>6, <1>7, QuietStep

------------------------------------------------------------------------------
(* The monitor *)

(* A ledger entry that moves keeps its request.                              *)
LEMMA EntryMoves ==
    ASSUME ledger \in [Jobs -> {None} \cup LedgerType], NEW j \in Jobs, ledger[j] \in LedgerType,
           NEW s \in {"queued", "running", "succeeded", "failed"}, NEW p \in Nat,
           \/ ledger' = [ledger EXCEPT ![j].status = s]
           \/ ledger' = [ledger EXCEPT ![j].phase = p]
    PROVE  /\ ledger' \in [Jobs -> {None} \cup LedgerType]
           /\ ledger'[j] \in LedgerType /\ ledger'[j].request = ledger[j].request
           /\ \A i \in Jobs : i # j => ledger'[i] = ledger[i]
<1>1. \/ ledger' = [ledger EXCEPT ![j] = [ledger[j] EXCEPT !.status = s]]
      \/ ledger' = [ledger EXCEPT ![j] = [ledger[j] EXCEPT !.phase = p]]
  OBVIOUS
<1>2. \/ ledger'[j] = [ledger[j] EXCEPT !.status = s]
      \/ ledger'[j] = [ledger[j] EXCEPT !.phase = p]
  BY <1>1
<1>3. ledger'[j] \in LedgerType /\ ledger'[j].request = ledger[j].request
  BY <1>2 DEF LedgerType
<1> QED
  BY <1>1, <1>3

(* The first line is read, and the others move up.                           *)
LEMMA TailLines ==
    ASSUME events \in Seq(Lines), events # <<>>
    PROVE  /\ Head(events) = events[1] /\ 1 \in 1..Len(events) /\ Head(events) \in Lines
           /\ Tail(events) \in Seq(Lines)
           /\ \A k \in 1..Len(Tail(events)) :
                  k + 1 \in 1..Len(events) /\ Tail(events)[k] = events[k + 1]
OBVIOUS

(* A line of the worker moves its job's entry.                               *)
LEMMA PollEventHolds ==
    ASSUME IInv, NEW j \in Jobs, PollEvent(j) PROVE IInv'
<1> USE AtPlace
<1> DEFINE e == Head(events)
<1>1. /\ flow[j].pc = "monitor" /\ Requested(j)
      /\ worker # None /\ worker \in WorkerType /\ worker.owner = j
      /\ events # <<>> /\ events \in Seq(Lines) /\ events' = Tail(events)
      /\ UNCHANGED <<revision, rows, gate, thread, disk, hit, faults>>
  BY DEF PollEvent, At, PlaceHasRequest, Writing, IInv, TypeOK
<1>2. ledger[j] \in LedgerType
  BY <1>1 DEF Requested
<1>3. /\ e = events[1] /\ 1 \in 1..Len(events) /\ e \in Lines /\ events' \in Seq(Lines)
      /\ \A k \in 1..Len(events') : k + 1 \in 1..Len(events) /\ events'[k] = events[k + 1]
  BY <1>1, TailLines
<1> HIDE DEF e
<1>4. CASE /\ e = "failed"
           /\ ledger' = [ledger EXCEPT ![j].status = "failed"]
           /\ worker' = [worker EXCEPT !.owner = None] /\ FailThen(j, "stop")
  <2>1. /\ flow' \in [Jobs -> FlowType] /\ flow'[j].pc = "failget" /\ flow'[j].after = "stop"
        /\ \A i \in Jobs : i # j => flow'[i] = flow[i]
    BY <1>4, FailMoves
  <2>2. /\ ledger' \in [Jobs -> {None} \cup LedgerType]
        /\ ledger'[j] \in LedgerType /\ ledger'[j].request = ledger[j].request
        /\ \A i \in Jobs : i # j => ledger'[i] = ledger[i]
    BY <1>2, <1>4, EntryMoves
  <2>3. worker' \in WorkerType /\ worker'.owner = None
    BY <1>1, <1>4 DEF WorkerType
  <2>4. thread = None
    BY <1>3, <1>4 DEF IInv, ThreadOK
  <2>5. ThreadOK' /\ LinesOK'
    BY <1>1, <2>3, <2>4, JobsAreNat DEF ThreadOK, LinesOK
  <2>6. TypeOK'
    BY <1>1, <1>3, <2>1, <2>2, <2>3 DEF IInv, TypeOK
  <2>7. Others(j) /\ RowOn(j)
    BY <1>1, <2>1, <2>2 DEF Others, RowOn, Past
  <2>8. j \notin hit' => PlaceOK(j)'
    BY <1>1, <2>1 DEF PlaceOK, RowIs, Imported
  <2>9. PlaceHasRequest(j)'
    BY <1>1, <2>1 DEF PlaceHasRequest, Writing, Requested
  <2> QED
    BY <1>1, <2>1, <2>5, <2>6, <2>7, <2>8, <2>9, WorkerStep
<1>5. CASE /\ e = "succeeded"
           /\ ledger' = [ledger EXCEPT ![j].status = "succeeded"]
           /\ worker' = [worker EXCEPT !.owner = None] /\ Goto(j, "import")
  <2>1. /\ flow' \in [Jobs -> FlowType] /\ flow'[j].pc = "import"
        /\ \A i \in Jobs : i # j => flow'[i] = flow[i]
    BY <1>5, GotoMoves DEF Steps
  <2>2. /\ ledger' \in [Jobs -> {None} \cup LedgerType]
        /\ ledger'[j] \in LedgerType /\ ledger'[j].request = ledger[j].request
        /\ \A i \in Jobs : i # j => ledger'[i] = ledger[i]
    BY <1>2, <1>5, EntryMoves
  <2>3. worker' \in WorkerType /\ worker'.owner = None
    BY <1>1, <1>5 DEF WorkerType
  <2>4. thread = None
    BY <1>3, <1>5 DEF IInv, ThreadOK
  <2>5. ThreadOK' /\ LinesOK'
    BY <1>1, <2>3, <2>4, JobsAreNat DEF ThreadOK, LinesOK
  <2>6. Published(j)
    BY <1>1, <1>3, <1>5 DEF IInv, LinesOK
  <2>7. TypeOK'
    BY <1>1, <1>3, <2>1, <2>2, <2>3 DEF IInv, TypeOK
  <2>8. Others(j) /\ RowOn(j)
    BY <1>1, <2>1, <2>2 DEF Others, RowOn, Past
  <2>9. j \notin hit' => PlaceOK(j)'
    BY <1>1, <2>1 DEF PlaceOK, RowIs, Imported
  <2>10. PlaceHasRequest(j)'
    BY <1>1, <2>1, <2>2 DEF PlaceHasRequest, Writing, Requested, Past
  <2> QED
    BY <1>1, <2>5, <2>6, <2>7, <2>8, <2>9, <2>10, WorkerStep
<1>6. CASE /\ e \notin {"succeeded", "failed"}
           /\ ledger' = [ledger EXCEPT ![j].phase = PhaseNo(e)]
           /\ UNCHANGED <<worker, flow>>
  <2>1. PhaseNo(e) \in Nat
    BY DEF PhaseNo
  <2>2. /\ ledger' \in [Jobs -> {None} \cup LedgerType]
        /\ ledger'[j] \in LedgerType /\ ledger'[j].request = ledger[j].request
        /\ \A i \in Jobs : i # j => ledger'[i] = ledger[i]
    BY <1>2, <1>6, <2>1, EntryMoves
  <2>3. Others(j) /\ RowOn(j)
    BY <1>1, <1>6, <2>2 DEF Others, RowOn, Past
  <2>4. \A i \in Jobs : (Requested(i) => Requested(i)') /\ (Published(i) => Published(i)')
    BY <1>1, <2>3, StepKeeps DEF Keeps
  <2>5. ThreadOK'
    <3> SUFFICES ASSUME thread # None PROVE ThreadOK'
      BY <1>1 DEF ThreadOK
    <3>1. /\ thread \in ThreadType /\ thread.job = j /\ worker.owner = thread.job
          /\ \A k \in 1..Len(events) : events[k] \notin {"succeeded", "failed"}
      BY <1>1 DEF IInv, ThreadOK
    <3>2. Requested(thread.job)' /\ (Published(thread.job) => Published(thread.job)')
      BY <1>1, <2>4, <3>1 DEF Requested, Published, Past
    <3>3. \A k \in 1..Len(events') : events'[k] \notin {"succeeded", "failed"}
      BY <1>3, <3>1
    <3> HIDE DEF Requested, Published
    <3> QED
      BY <1>1, <1>6, <3>1, <3>2, <3>3 DEF IInv, ThreadOK
  <2>6. LinesOK'
    <3>1. \A k \in 1..Len(events) : events[k] = "succeeded" => Published(j)
      BY <1>1 DEF IInv, LinesOK, Published, Past
    <3>2. \A k \in 1..Len(events') : events'[k] = "succeeded" => Published(j)'
      BY <1>3, <2>4, <3>1
    <3>3. worker'.owner = j /\ (Published(j)' => Published(worker.owner)')
      BY <1>1, <1>6 DEF Published, Past
    <3> HIDE DEF Published
    <3> QED
      BY <1>1, <1>6, <3>2, <3>3 DEF LinesOK
  <2>7. TypeOK'
    BY <1>1, <1>3, <1>6, <2>2 DEF IInv, TypeOK
  <2>8. j \notin hit' => PlaceOK(j)'
    BY <1>1, <1>6 DEF PlaceOK, RowIs, Imported
  <2>9. PlaceHasRequest(j)'
    BY <1>1, <1>6, <2>4 DEF PlaceHasRequest, Requested
  <2> QED
    BY <1>1, <1>6, <2>3, <2>5, <2>6, <2>7, <2>8, <2>9, WorkerStep
<1> QED
  BY <1>4, <1>5, <1>6 DEF PollEvent, e

(* A lost worker is started for the job again once, else the job fails.      *)
LEMMA PollLostHolds ==
    ASSUME IInv, NEW j \in Jobs, PollLost(j) PROVE IInv'
<1> USE AtPlace
<1>1. /\ flow[j].pc = "monitor" /\ Requested(j) /\ ledger[j] \in LedgerType
      /\ worker \in {None} \cup WorkerType
      /\ UNCHANGED <<revision, rows, gate, disk, hit, faults>>
  BY DEF PollLost, At, PlaceHasRequest, Writing, Requested, IInv, TypeOK
<1>2. CASE /\ CanStart(StatusOf(worker)) /\ StartOn(StatusOf(worker), j)
           /\ ledger' = [ledger EXCEPT ![j].phase = 0, ![j].recoveries = @ + 1]
           /\ UNCHANGED flow
  <2> DEFINE n == ledger[j].recoveries + 1
  <2>1. n \in Nat
    BY <1>1 DEF LedgerType
  <2>2. ledger' = [ledger EXCEPT ![j] = [ledger[j] EXCEPT !.phase = 0, !.recoveries = n]]
    BY <1>2
  <2> HIDE DEF n
  <2>3. ledger'[j] = [ledger[j] EXCEPT !.phase = 0, !.recoveries = n]
    BY <1>1, <2>2
  <2>4. ledger'[j] \in LedgerType /\ ledger'[j].request = ledger[j].request
    <3> DEFINE new == ledger'[j]
               old == ledger[j]
    <3>1. old \in LedgerType /\ new = [old EXCEPT !.phase = 0, !.recoveries = n]
      BY <1>1, <2>3
    <3> HIDE DEF new, old
    <3>2. new \in LedgerType /\ new.request = old.request
      BY <2>1, <3>1 DEF LedgerType
    <3> QED
      BY <3>2 DEF new, old
  <2>5. /\ ledger' \in [Jobs -> {None} \cup LedgerType]
        /\ \A i \in Jobs : i # j => ledger'[i] = ledger[i]
    BY <2>2, <2>3, <2>4
  <2>6. Others(j) /\ RowOn(j)
    BY <1>1, <1>2, <2>4, <2>5 DEF Others, RowOn, Past
  <2>7. Requested(j)'
    BY <1>1, <1>2, <2>4 DEF Requested, Past
  <2>8. StatusOf(worker) \in WorkerType
    BY <1>1, <1>2, StartableType
  <2>9. /\ ThreadOK' /\ LinesOK' /\ worker' \in {None} \cup WorkerType
        /\ thread' \in {None} \cup ThreadType /\ events' \in Seq(Lines)
    BY <1>2, <2>7, <2>8, StartKept
  <2>10. TypeOK'
    BY <1>1, <1>2, <2>5, <2>9 DEF IInv, TypeOK
  <2>11. j \notin hit' => PlaceOK(j)'
    BY <1>1, <1>2 DEF PlaceOK, RowIs, Imported
  <2>12. PlaceHasRequest(j)'
    BY <1>1, <1>2, <2>7 DEF PlaceHasRequest, Requested
  <2> QED
    BY <1>1, <1>2, <2>6, <2>9, <2>10, <2>11, <2>12, WorkerStep
<1>3. CASE /\ worker' = StatusOf(worker) /\ Fresh(StatusOf(worker))
           /\ ledger' = [ledger EXCEPT ![j].status = "failed"]
           /\ FailThen(j, "stop")
  <2>1. /\ flow' \in [Jobs -> FlowType] /\ flow'[j].pc = "failget" /\ flow'[j].after = "stop"
        /\ \A i \in Jobs : i # j => flow'[i] = flow[i]
    BY <1>3, FailMoves
  <2>2. /\ ledger' \in [Jobs -> {None} \cup LedgerType]
        /\ ledger'[j] \in LedgerType /\ ledger'[j].request = ledger[j].request
        /\ \A i \in Jobs : i # j => ledger'[i] = ledger[i]
    BY <1>1, <1>3, EntryMoves
  <2>3. Others(j) /\ RowOn(j)
    BY <1>1, <2>1, <2>2 DEF Others, RowOn, Past
  <2>4. StatusOf(worker) \in {None} \cup WorkerType
    BY <1>1, StatusType
  <2>5. /\ ThreadOK' /\ LinesOK' /\ worker' \in {None} \cup WorkerType
        /\ thread' \in {None} \cup ThreadType /\ events' \in Seq(Lines)
    <3>1. Keeps
      BY <1>1, <2>3, StepKeeps
    <3> QED
      BY <1>1, <1>3, <2>4, <3>1, FreshKept DEF IInv
  <2>6. TypeOK'
    BY <1>1, <2>1, <2>2, <2>5 DEF IInv, TypeOK
  <2>7. j \notin hit' => PlaceOK(j)'
    BY <1>1, <2>1 DEF PlaceOK, RowIs, Imported
  <2>8. PlaceHasRequest(j)'
    BY <1>1, <2>1 DEF PlaceHasRequest, Writing, Requested
  <2> QED
    BY <1>1, <2>1, <2>3, <2>5, <2>6, <2>7, <2>8, WorkerStep
<1> QED
  BY <1>2, <1>3 DEF PollLost

(* The loop ends over a foreign worker or with its attempts.                 *)
LEMMA PollEndsHolds ==
    ASSUME IInv, NEW j \in Jobs, PollForeign(j) \/ PollExhausted(j) PROVE IInv'
<1> USE AtPlace
<1>1. /\ flow[j].pc = "monitor" /\ Requested(j) /\ Goto(j, "settle")
      /\ UNCHANGED <<revision, rows, ledger, gate, process, disk, hit>>
  BY DEF PollForeign, PollExhausted, At, PlaceHasRequest, Writing
<1>2. /\ flow' \in [Jobs -> FlowType] /\ flow'[j].pc = "settle"
      /\ \A i \in Jobs : i # j => flow'[i] = flow[i]
  BY <1>1, GotoMoves DEF Steps
<1>3. TypeOK'
  BY <1>1, <1>2 DEF IInv, TypeOK, process
<1>4. Others(j) /\ RowOn(j)
  BY <1>1, <1>2 DEF Others, RowOn, Past
<1>5. j \notin hit' => PlaceOK(j)'
  BY <1>1, <1>2 DEF PlaceOK, RowIs, Imported
<1>6. PlaceHasRequest(j)'
  BY <1>1, <1>2 DEF PlaceHasRequest, Writing, Requested, Past
<1> QED
  BY <1>1, <1>2, <1>3, <1>4, <1>5, <1>6, QuietStep

(* The end of the loop settles the entry and fails the job.                  *)
LEMMA SettleHolds ==
    ASSUME IInv, NEW j \in Jobs, Settle(j) PROVE IInv'
<1> USE AtPlace
<1>1. /\ flow[j].pc = "settle" /\ Requested(j) /\ ledger[j] \in LedgerType /\ FailThen(j, "stop")
      /\ UNCHANGED <<revision, rows, gate, process, disk, hit, faults>>
  BY DEF Settle, At, PlaceHasRequest, Writing, Requested
<1>2. /\ flow' \in [Jobs -> FlowType] /\ flow'[j].pc = "failget" /\ flow'[j].after = "stop"
      /\ \A i \in Jobs : i # j => flow'[i] = flow[i]
  BY <1>1, FailMoves
<1>3. /\ ledger' \in [Jobs -> {None} \cup LedgerType]
      /\ ledger'[j] \in LedgerType /\ ledger'[j].request = ledger[j].request
      /\ \A i \in Jobs : i # j => ledger'[i] = ledger[i]
  <2>1. CASE ledger[j].status = "running"
    BY <1>1, <2>1, EntryMoves DEF Settle
  <2>2. CASE ledger[j].status # "running"
    BY <1>1, <2>2 DEF Settle
  <2> QED
    BY <2>1, <2>2
<1>4. TypeOK'
  BY <1>1, <1>2, <1>3 DEF IInv, TypeOK, process
<1>5. Others(j) /\ RowOn(j)
  BY <1>1, <1>2, <1>3 DEF Others, RowOn, Past
<1>6. j \notin hit' => PlaceOK(j)'
  BY <1>1, <1>2 DEF PlaceOK, RowIs, Imported
<1>7. PlaceHasRequest(j)'
  BY <1>1, <1>2 DEF PlaceHasRequest, Writing, Requested
<1> QED
  BY <1>1, <1>2, <1>4, <1>5, <1>6, <1>7, QuietStep

(* The artifact is imported, or the job fails although it may be.            *)
LEMMA ImportHolds ==
    ASSUME IInv, NEW j \in Jobs, Import(j) PROVE IInv'
<1> USE AtPlace
<1>1. /\ flow[j].pc = "import" /\ Requested(j) /\ Published(j)
      /\ disk \in [source : Nat, output : [Jobs -> {None} \cup ReceiptType], imported : SUBSET Jobs]
      /\ UNCHANGED <<revision, rows, ledger, gate, process>>
  BY DEF Import, At, PlaceHasRequest, Writing, IInv, TypeOK
<1>2. /\ disk' \in [source : Nat, output : [Jobs -> {None} \cup ReceiptType], imported : SUBSET Jobs]
      /\ disk'.output = disk.output /\ disk'.source = disk.source
      /\ disk'.imported \in {disk.imported, disk.imported \cup {j}}
  <2>1. disk' = disk \/ disk' = [disk EXCEPT !.imported = disk.imported \cup {j}]
    BY DEF Import
  <2> QED
    BY <1>1, <2>1
<1>3. /\ \A i \in Jobs : i # j => (Imported(i)' <=> Imported(i))
      /\ Imported(j)' => Imported(j) \/ Published(j)
  BY <1>1, <1>2 DEF Imported
<1>4. /\ flow' \in [Jobs -> FlowType]
      /\ \/ flow'[j].pc = "succeedget"
         \/ flow'[j].pc = "failget" /\ flow'[j].after = "settle"
      /\ \A i \in Jobs : i # j => flow'[i] = flow[i]
  <2>1. CASE Goto(j, "succeedget")
    BY <2>1, GotoMoves DEF Steps
  <2>2. CASE FailThen(j, "settle")
    BY <2>2, FailMoves
  <2> QED
    BY <2>1, <2>2 DEF Import
<1>5. hit \subseteq hit' /\ hit' \subseteq Jobs
  BY DEF Import, Smooth, Fault, IInv, TypeOK
<1>6. TypeOK'
  BY <1>1, <1>2, <1>4, <1>5 DEF IInv, TypeOK, process
<1>7. Others(j) /\ RowOn(j)
  BY <1>1, <1>4 DEF Others, RowOn, Past
<1>8. Keeps
  BY <1>2, <1>7, StepKeeps
<1>9. ThreadOK' /\ LinesOK'
  BY <1>1, <1>2, <1>8, ProcessKept DEF IInv, TypeOK
<1>10. j \notin hit' => PlaceOK(j)'
  <2> SUFFICES ASSUME j \notin hit' PROVE PlaceOK(j)'
    OBVIOUS
  <2>1. Goto(j, "succeedget") /\ disk' = [disk EXCEPT !.imported = disk.imported \cup {j}]
    BY DEF Import, Fault
  <2>2. flow'[j].pc = "succeedget"
    BY <2>1, GotoMoves DEF Steps
  <2>3. Imported(j)'
    BY <1>1, <2>1 DEF Imported
  <2> QED
    BY <1>1, <1>5, <2>2, <2>3 DEF PlaceOK, RowIs
<1>11. PlaceHasRequest(j)'
  BY <1>1, <1>4 DEF PlaceHasRequest, Writing, Requested, Past
<1> QED
  BY <1>2, <1>3, <1>4, <1>5, <1>6, <1>7, <1>8, <1>9, <1>10, <1>11, TaskStep

(* The row is read before it is set to succeeded.                            *)
LEMMA SucceedGetHolds ==
    ASSUME IInv, NEW j \in Jobs, SucceedGet(j) PROVE IInv'
<1> USE AtPlace
<1>1. /\ flow[j].pc = "succeedget" /\ rows[j] \in RowType /\ rows[j].ver \in Nat
      /\ UNCHANGED <<revision, rows, ledger, gate, process, disk>>
  BY DEF SucceedGet, At, PlaceHasRequest, RowType
<1>2. /\ flow' \in [Jobs -> FlowType]
      /\ \/ flow'[j].pc = "succeedmark" /\ flow'[j].seen = rows[j].ver
         \/ flow'[j].pc = "stop" /\ (Fault(j) \/ rows[j].status # "running")
      /\ \A i \in Jobs : i # j => flow'[i] = flow[i]
  <2>1. CASE GotoSeen(j, "succeedmark", rows[j].ver)
    BY <1>1, <2>1, GotoSeenMoves DEF Steps
  <2>2. CASE Goto(j, "stop") /\ (Fault(j) \/ rows[j].status # "running")
    BY <2>2, GotoMoves DEF Steps
  <2> QED
    BY <2>1, <2>2 DEF SucceedGet
<1>3. hit \subseteq hit' /\ hit' \subseteq Jobs
  BY DEF SucceedGet, Smooth, Fault, IInv, TypeOK
<1>4. TypeOK'
  BY <1>1, <1>2, <1>3 DEF IInv, TypeOK, process
<1>5. Others(j) /\ RowOn(j)
  BY <1>1, <1>2 DEF Others, RowOn, Past
<1>6. j \notin hit' => PlaceOK(j)'
  <2> SUFFICES ASSUME j \notin hit' PROVE PlaceOK(j)'
    OBVIOUS
  <2>1. RowIs(j, {"running"}) /\ Imported(j)
    BY <1>1, <1>3 DEF PlaceOK
  <2>2. flow'[j].pc = "succeedmark" /\ flow'[j].seen = rows[j].ver
    BY <1>2, <2>1 DEF Fault, RowIs
  <2> QED
    BY <1>1, <2>1, <2>2 DEF PlaceOK, RowIs, Fits, Imported
<1>7. PlaceHasRequest(j)'
  BY <1>1, <1>2 DEF PlaceHasRequest, Writing
<1> QED
  BY <1>1, <1>2, <1>3, <1>4, <1>5, <1>6, <1>7, QuietStep

(* And set if it is still as it was read.                                    *)
LEMMA SucceedMarkHolds ==
    ASSUME IInv, NEW j \in Jobs, SucceedMark(j) PROVE IInv'
<1> USE AtPlace
<1>1. /\ flow[j].pc = "succeedmark" /\ rows[j] \in RowType /\ Goto(j, "stop")
      /\ UNCHANGED <<revision, ledger, gate, process, disk>>
  BY DEF SucceedMark, At, PlaceHasRequest
<1>2. /\ flow' \in [Jobs -> FlowType] /\ flow'[j].pc = "stop"
      /\ \A i \in Jobs : i # j => flow'[i] = flow[i]
  BY <1>1, GotoMoves DEF Steps
<1>3. /\ rows' \in [Jobs -> {None} \cup RowType]
      /\ rows'[j] \in RowType /\ rows'[j].rev = rows[j].rev
      /\ \A i \in Jobs : i # j => rows'[i] = rows[i]
      /\ hit \subseteq hit' /\ hit' \subseteq Jobs
      /\ j \notin hit' => rows'[j].status = "succeeded"
  <2>1. CASE rows' = Moved(j, "succeeded")
    <3>1. /\ rows' \in [Jobs -> {None} \cup RowType]
          /\ rows'[j] \in RowType /\ rows'[j].rev = rows[j].rev /\ rows'[j].status = "succeeded"
          /\ \A i \in Jobs : i # j => rows'[i] = rows[i]
      BY <1>1, <2>1, RowMoves
    <3>2. Smooth \/ Fault(j)
      BY DEF SucceedMark
    <3> QED
      BY <3>1, <3>2 DEF Smooth, Fault, IInv, TypeOK
  <2>2. CASE UNCHANGED rows /\ Fault(j)
    BY <1>1, <2>2 DEF Fault, IInv, TypeOK
  <2> QED
    BY <2>1, <2>2 DEF SucceedMark
<1>4. TypeOK'
  BY <1>1, <1>2, <1>3 DEF IInv, TypeOK, process
<1>5. Others(j) /\ RowOn(j)
  BY <1>1, <1>2, <1>3 DEF Others, RowOn, Past
<1>6. j \notin hit' => PlaceOK(j)'
  BY <1>1, <1>2, <1>3 DEF PlaceOK, RowIs, Imported
<1>7. PlaceHasRequest(j)'
  BY <1>2, <1>3 DEF PlaceHasRequest, Writing
<1> QED
  BY <1>1, <1>2, <1>3, <1>4, <1>5, <1>6, <1>7, QuietStep

(* The monitor's last act stops whatever worker there is.                    *)
LEMMA StopHolds ==
    ASSUME IInv, NEW j \in Jobs, Stop(j) PROVE IInv'
<1> USE AtPlace
<1>1. /\ flow[j].pc = "stop" /\ rows[j] \in RowType /\ StopWorker /\ Goto(j, "done")
      /\ UNCHANGED <<revision, rows, ledger, gate, disk, hit, faults>>
  BY DEF Stop, At, PlaceHasRequest
<1>2. /\ flow' \in [Jobs -> FlowType] /\ flow'[j].pc = "done"
      /\ \A i \in Jobs : i # j => flow'[i] = flow[i]
  BY <1>1, GotoMoves DEF Steps
<1>3. /\ ThreadOK' /\ LinesOK' /\ worker' \in {None} \cup WorkerType
      /\ thread' \in {None} \cup ThreadType /\ events' \in Seq(Lines)
  BY <1>1, StopKept
<1>4. TypeOK'
  BY <1>1, <1>2, <1>3 DEF IInv, TypeOK
<1>5. Others(j) /\ RowOn(j)
  BY <1>1, <1>2 DEF Others, RowOn, Past
<1>6. j \notin hit' => PlaceOK(j)'
  BY <1>1, <1>2 DEF PlaceOK, RowIs, Imported
<1>7. PlaceHasRequest(j)'
  BY <1>2 DEF PlaceHasRequest, Writing
<1> QED
  BY <1>1, <1>2, <1>3, <1>4, <1>5, <1>6, <1>7, WorkerStep

------------------------------------------------------------------------------
(* The render thread, the user and the file system *)

(* A step of none of the desktop's tasks.                                    *)
LEMMA OutsideStep ==
    ASSUME IInv, TypeOK', UNCHANGED <<rows, ledger, flow, hit>>,
           disk'.imported = disk.imported, Keeps,
           \A i \in Jobs : disk'.output[i] = disk.output[i] \/ Published(i)',
           ThreadOK', LinesOK'
    PROVE  IInv'
<1>1. rows' = rows /\ ledger' = ledger /\ flow' = flow /\ hit' = hit
  OBVIOUS
<1>2. JobOK'
  BY <1>1 DEF IInv, JobOK, PlaceOK, RowIs, Fits, Imported
<1>3. RequestOK'
  BY <1>1 DEF IInv, RequestOK, PlaceHasRequest, Requested, Past
<1>4. ASSUME NEW i \in Jobs
      PROVE  /\ disk'.output[i] = None \/ Published(i)'
             /\ flow'[i].pc = "import" => Published(i)'
             /\ Imported(i)' => Published(i)'
  <2>1. /\ disk.output[i] = None \/ Published(i)
        /\ flow[i].pc = "import" => Published(i)
        /\ Imported(i) => Published(i)
    BY DEF IInv, OutputOK
  <2>2. Published(i) => Published(i)'
    BY DEF Keeps
  <2>3. Imported(i)' => Imported(i)
    BY DEF Imported
  <2> HIDE DEF Published, Imported
  <2> QED
    BY <1>1, <2>1, <2>2, <2>3
<1>5. OutputOK'
  BY <1>4 DEF OutputOK
<1> QED
  BY <1>2, <1>3, <1>5 DEF IInv

(* Nothing of the jobs changes, so nothing of them is lost.                  *)
LEMMA OutsideKeeps ==
    ASSUME UNCHANGED <<rows, ledger, flow>>, disk'.output = disk.output PROVE Keeps
BY DEF Keeps, Requested, Published, Past

(* What the invariant says of a thread at work.                              *)
LEMMA AtWork ==
    ASSUME IInv, NEW step \in {"load", "encode", "publish", "report"}, ThreadAt(step)
    PROVE  /\ thread \in ThreadType /\ thread.at = step /\ thread.job \in Jobs
           /\ worker \in WorkerType /\ worker.owner = thread.job
           /\ Requested(thread.job) /\ events \in Seq(Lines)
           /\ step \in {"encode", "publish", "report"} => thread.rev = rows[thread.job].rev
           /\ step = "publish" => thread.content <= disk.source
           /\ step = "report" => Published(thread.job)
           /\ \A k \in 1..Len(events) : events[k] \notin {"succeeded", "failed"}
<1>1. thread # None /\ thread.at = step
  BY DEF ThreadAt
<1>2. thread \in ThreadType /\ worker \in WorkerType /\ events \in Seq(Lines)
  BY <1>1 DEF IInv, ThreadOK, TypeOK
<1>3. thread.job \in Jobs
  BY <1>2 DEF ThreadType
<1> HIDE DEF Requested, Published
<1> QED
  BY <1>1, <1>2, <1>3 DEF IInv, ThreadOK

(* The worker refuses or fails the render.                                   *)
LEMMA ThreadFailsHolds ==
    ASSUME IInv, ThreadFails PROVE IInv'
<1>1. PICK step \in {"load", "encode", "publish"} : ThreadAt(step)
  BY DEF ThreadFails
<1>2. /\ events' = Append(events, "failed") /\ thread' = None
      /\ UNCHANGED <<revision, rows, ledger, flow, gate, worker, disk, hit, faults>>
  BY DEF ThreadFails, desktop
<1>3. /\ worker \in WorkerType /\ events \in Seq(Lines)
      /\ \A k \in 1..Len(events) : events[k] \notin {"succeeded", "failed"}
  BY <1>1, AtWork
<1>4. /\ events' \in Seq(Lines)
      /\ \A k \in 1..Len(events') : events'[k] # "succeeded"
  BY <1>2, <1>3 DEF Lines
<1>5. TypeOK'
  BY <1>2, <1>4 DEF IInv, TypeOK
<1>6. ThreadOK'
  BY <1>2 DEF ThreadOK
<1>7. LinesOK'
  BY <1>2, <1>3, <1>4 DEF LinesOK
<1> QED
  BY <1>2, <1>5, <1>6, <1>7, OutsideStep, OutsideKeeps

(* The request read is the job's, so the thread renders its revision.        *)
LEMMA ThreadLoadsHolds ==
    ASSUME IInv, ThreadLoads PROVE IInv'
<1>1. /\ ThreadAt("load") /\ events' = Append(events, "rendering")
      /\ thread' = [thread EXCEPT !.at = "encode", !.rev = LoadedRequest(thread.job)]
      /\ UNCHANGED <<revision, rows, ledger, flow, gate, worker, disk, hit, faults>>
  BY DEF ThreadLoads, desktop
<1>2. /\ thread \in ThreadType /\ thread.job \in Jobs
      /\ worker \in WorkerType /\ worker.owner = thread.job
      /\ Requested(thread.job) /\ events \in Seq(Lines)
      /\ \A k \in 1..Len(events) : events[k] \notin {"succeeded", "failed"}
  BY <1>1, AtWork
<1>3. PICK j \in Jobs : j = thread.job
  BY <1>2
<1>4. /\ Requested(j) /\ ledger[j].request = rows[j].rev /\ rows[j].rev \in Nat
  BY <1>2, <1>3 DEF Requested, RowType
<1>5. thread' = [thread EXCEPT !.at = "encode", !.rev = rows[j].rev]
  BY <1>1, <1>3, <1>4 DEF LoadedRequest
<1>6. thread' \in ThreadType /\ thread'.job = j /\ thread'.at = "encode" /\ thread'.rev = rows[j].rev
  BY <1>2, <1>3, <1>4, <1>5 DEF ThreadType
<1>7. /\ events' \in Seq(Lines)
      /\ \A k \in 1..Len(events') : events'[k] \notin {"succeeded", "failed"}
  BY <1>1, <1>2 DEF Lines
<1>8. TypeOK'
  BY <1>1, <1>6, <1>7 DEF IInv, TypeOK
<1>9. ThreadOK'
  <2>1. Requested(thread.job)'
    BY <1>1, <1>4, <1>6 DEF Requested, Past
  <2>2. thread'.rev = rows'[thread'.job].rev
    BY <1>1, <1>6
  <2> HIDE DEF Requested
  <2> QED
    BY <1>1, <1>2, <1>3, <1>6, <1>7, <2>1, <2>2 DEF ThreadOK
<1>10. LinesOK'
  BY <1>1, <1>2, <1>7 DEF LinesOK
<1> QED
  BY <1>1, <1>8, <1>9, <1>10, OutsideStep, OutsideKeeps

(* What was read of the source is not younger than the source.               *)
LEMMA ThreadEncodesHolds ==
    ASSUME IInv, ThreadEncodes PROVE IInv'
<1>1. /\ ThreadAt("encode")
      /\ thread' = [thread EXCEPT !.at = "publish", !.content = disk.source]
      /\ UNCHANGED <<revision, rows, ledger, flow, gate, worker, events, disk, hit, faults>>
  BY DEF ThreadEncodes, desktop
<1>2. /\ thread \in ThreadType /\ thread.job \in Jobs
      /\ worker \in WorkerType /\ worker.owner = thread.job
      /\ Requested(thread.job) /\ thread.rev = rows[thread.job].rev
      /\ \A k \in 1..Len(events) : events[k] \notin {"succeeded", "failed"}
  BY <1>1, AtWork
<1>3. disk.source \in Nat
  BY DEF IInv, TypeOK
<1>4. /\ thread' \in ThreadType /\ thread'.job = thread.job /\ thread'.at = "publish"
      /\ thread'.rev = thread.rev /\ thread'.content = disk.source
  BY <1>1, <1>2, <1>3 DEF ThreadType
<1>5. TypeOK'
  BY <1>1, <1>4 DEF IInv, TypeOK
<1>6. ThreadOK'
  <2>1. Requested(thread.job)'
    BY <1>1, <1>2, <1>4 DEF Requested, Past
  <2>2. thread'.rev = rows'[thread'.job].rev
    BY <1>1, <1>2, <1>4
  <2>3. thread'.content <= disk'.source
    BY <1>1, <1>3, <1>4
  <2> HIDE DEF Requested
  <2> QED
    BY <1>1, <1>2, <1>4, <2>1, <2>2, <2>3 DEF ThreadOK
<1>7. LinesOK'
  BY <1>1, <1>2 DEF LinesOK
<1> QED
  BY <1>1, <1>5, <1>6, <1>7, OutsideStep, OutsideKeeps

(* What is published is of the revision and of the approved file.            *)
LEMMA ThreadPublishesHolds ==
    ASSUME IInv, ThreadPublishes PROVE IInv'
<1>1. /\ ThreadAt("publish") /\ disk.source = 0
      /\ disk' = [disk EXCEPT !.output[thread.job] = Receipt]
      /\ thread' = [thread EXCEPT !.at = "report"]
      /\ UNCHANGED <<revision, rows, ledger, flow, gate, worker, events, hit, faults>>
  BY DEF ThreadPublishes, desktop, SourceApproved
<1>2. /\ thread \in ThreadType /\ thread.job \in Jobs
      /\ worker \in WorkerType /\ worker.owner = thread.job
      /\ Requested(thread.job) /\ thread.rev = rows[thread.job].rev
      /\ thread.content <= disk.source
      /\ \A k \in 1..Len(events) : events[k] \notin {"succeeded", "failed"}
  BY <1>1, AtWork
<1>3. PICK j \in Jobs : j = thread.job
  BY <1>2
<1>4. thread.content = 0 /\ thread.rev \in Nat
  BY <1>1, <1>2 DEF ThreadType
<1>5. Receipt = [rev |-> rows[j].rev, content |-> 0] /\ Receipt \in ReceiptType
  BY <1>2, <1>3, <1>4 DEF Receipt, ReceiptType
<1> DEFINE output == [disk.output EXCEPT ![j] = Receipt]
<1>6. /\ disk \in [source : Nat, output : [Jobs -> {None} \cup ReceiptType], imported : SUBSET Jobs]
      /\ disk' = [disk EXCEPT !.output = output]
  BY <1>1, <1>3 DEF IInv, TypeOK
<1>7. output \in [Jobs -> {None} \cup ReceiptType] /\ output[j] = Receipt
      /\ \A i \in Jobs : i # j => output[i] = disk.output[i]
  BY <1>5, <1>6
<1> HIDE DEF output
<1>8. /\ disk' \in [source : Nat, output : [Jobs -> {None} \cup ReceiptType], imported : SUBSET Jobs]
      /\ disk'.output = output /\ disk'.imported = disk.imported
  BY <1>6, <1>7
<1>9. rows' = rows /\ ledger' = ledger /\ flow' = flow
  BY <1>1
<1>10. Requested(j) /\ Requested(j)'
  BY <1>2, <1>3, <1>9 DEF Requested, Past
<1>11. Published(j)'
  BY <1>5, <1>7, <1>8, <1>9, <1>10 DEF Published, Requested, Past
<1>12. \A i \in Jobs : i # j => (Published(i) => Published(i)')
  BY <1>7, <1>8, <1>9 DEF Published, Past
<1>13. \A i \in Jobs : (Requested(i) => Requested(i)') /\ rows'[i].rev = rows[i].rev
  BY <1>9 DEF Requested, Past
<1>14. Keeps
  <2> HIDE DEF Published, Requested
  <2> QED
    BY <1>11, <1>12, <1>13 DEF Keeps
<1>15. \A i \in Jobs : disk'.output[i] = disk.output[i] \/ Published(i)'
  <2> HIDE DEF Published
  <2> QED
    BY <1>7, <1>8, <1>11
<1>16. /\ thread' \in ThreadType /\ thread'.job = j /\ thread'.at = "report"
       /\ thread'.rev = thread.rev
  BY <1>1, <1>2, <1>3 DEF ThreadType
<1>17. TypeOK'
  BY <1>1, <1>8, <1>16 DEF IInv, TypeOK
<1>18. ThreadOK'
  <2>1. Requested(thread.job)' /\ Published(thread.job)'
    BY <1>10, <1>11, <1>16 DEF Requested, Published, Past
  <2>2. thread'.rev = rows'[thread'.job].rev
    BY <1>2, <1>3, <1>9, <1>16
  <2> HIDE DEF Requested, Published
  <2> QED
    BY <1>1, <1>2, <1>3, <1>16, <2>1, <2>2 DEF ThreadOK
<1>19. LinesOK'
  BY <1>1, <1>2 DEF LinesOK
<1> QED
  BY <1>1, <1>8, <1>14, <1>15, <1>17, <1>18, <1>19, OutsideStep

(* A success is reported of an output that is there.                         *)
LEMMA ThreadReportsHolds ==
    ASSUME IInv, ThreadReports PROVE IInv'
<1>1. /\ ThreadAt("report") /\ events' = events \o <<"publishing", "succeeded">>
      /\ thread' = None
      /\ UNCHANGED <<revision, rows, ledger, flow, gate, worker, disk, hit, faults>>
  BY DEF ThreadReports, desktop
<1>2. /\ thread.job \in Jobs /\ worker \in WorkerType /\ worker.owner = thread.job
      /\ Published(thread.job) /\ events \in Seq(Lines)
  BY <1>1, AtWork
<1>3. PICK j \in Jobs : j = thread.job
  BY <1>2
<1>4. Published(j)' /\ worker'.owner = j
  BY <1>1, <1>2, <1>3 DEF Published, Past
<1>5. Published(worker.owner)'
  BY <1>4 DEF Published, Past
<1>6. events' \in Seq(Lines)
  BY <1>1, <1>2 DEF Lines
<1>7. TypeOK'
  BY <1>1, <1>6 DEF IInv, TypeOK
<1>8. ThreadOK'
  BY <1>1 DEF ThreadOK
<1>9. LinesOK'
  <2> HIDE DEF Published
  <2> QED
    BY <1>1, <1>2, <1>5 DEF LinesOK
<1> QED
  BY <1>1, <1>7, <1>8, <1>9, OutsideStep, OutsideKeeps

(* The process dies with its thread; the lines it wrote stay.                *)
LEMMA WorkerCrashHolds ==
    ASSUME IInv, WorkerCrash PROVE IInv'
<1>1. /\ worker # None /\ worker' = [worker EXCEPT !.alive = FALSE] /\ thread' = None
      /\ UNCHANGED <<revision, rows, ledger, flow, gate, events, disk, hit>>
  BY DEF WorkerCrash, desktop
<1>2. worker \in WorkerType /\ worker' \in WorkerType /\ worker'.owner = worker.owner
  BY <1>1 DEF IInv, TypeOK, WorkerType
<1>3. TypeOK'
  BY <1>1, <1>2 DEF IInv, TypeOK
<1>4. ThreadOK'
  BY <1>1 DEF ThreadOK
<1>5. LinesOK'
  <2> SUFFICES ASSUME worker.owner \in Jobs PROVE LinesOK'
    BY <1>2 DEF LinesOK
  <2>1. PICK j \in Jobs : j = worker.owner
    OBVIOUS
  <2>2. \A k \in 1..Len(events) : events[k] = "succeeded" => Published(j)
    BY <1>1, <2>1 DEF IInv, LinesOK, Published, Past
  <2>3. worker'.owner = j /\ (Published(j) => Published(worker.owner)')
    BY <1>1, <1>2, <2>1 DEF Published, Past
  <2> HIDE DEF Published
  <2> QED
    BY <1>1, <1>2, <2>2, <2>3 DEF LinesOK
<1> QED
  BY <1>1, <1>3, <1>4, <1>5, OutsideStep, OutsideKeeps

(* A saved timeline is another revision, no other request.                   *)
LEMMA SaveTimelineHolds ==
    ASSUME IInv, SaveTimeline PROVE IInv'
<1>1. /\ revision' = revision + 1 /\ UNCHANGED <<rows, ledger, flow, gate, process, disk, hit, faults>>
  BY DEF SaveTimeline, desktop
<1>2. TypeOK'
  BY <1>1 DEF IInv, TypeOK, process
<1>3. Keeps
  BY <1>1, OutsideKeeps
<1>4. ThreadOK' /\ LinesOK'
  BY <1>1, <1>3, ProcessKept DEF IInv, TypeOK
<1> QED
  BY <1>1, <1>2, <1>3, <1>4, OutsideStep

(* An overwritten source is never the approved one again.                    *)
LEMMA OverwriteSourceHolds ==
    ASSUME IInv, OverwriteSource PROVE IInv'
<1>1. /\ disk' = [disk EXCEPT !.source = @ + 1]
      /\ UNCHANGED <<revision, rows, ledger, flow, gate, process, hit, faults>>
  BY DEF OverwriteSource, desktop
<1>2. disk \in [source : Nat, output : [Jobs -> {None} \cup ReceiptType], imported : SUBSET Jobs]
  BY DEF IInv, TypeOK
<1> DEFINE n == disk.source + 1
<1>3. n \in Nat /\ disk.source <= n
  BY <1>2
<1>4. disk' = [disk EXCEPT !.source = n]
  BY <1>1
<1> HIDE DEF n
<1>5. /\ disk' \in [source : Nat, output : [Jobs -> {None} \cup ReceiptType], imported : SUBSET Jobs]
      /\ disk'.output = disk.output /\ disk'.imported = disk.imported /\ disk'.source = n
  BY <1>2, <1>3, <1>4
<1>6. TypeOK'
  BY <1>1, <1>5 DEF IInv, TypeOK, process
<1>7. Keeps
  BY <1>1, <1>5, OutsideKeeps
<1>8. ThreadOK' /\ LinesOK'
  BY <1>1, <1>3, <1>5, <1>7, ProcessKept DEF IInv
<1> QED
  BY <1>1, <1>5, <1>6, <1>7, <1>8, OutsideStep

------------------------------------------------------------------------------
(* The invariant and what it says *)

(* Nothing is submitted at the start.                                        *)
LEMMA InitHolds == Init => IInv
<1> SUFFICES ASSUME Init PROVE IInv
  OBVIOUS
<1>1. Began \in FlowType /\ Began.pc = "idle"
  BY DEF Began, FlowType, Steps
<1>2. \A j \in Jobs : rows[j] = None /\ flow[j].pc = "idle" /\ disk.output[j] = None /\ ~Imported(j)
  BY <1>1 DEF Init, Imported
<1>3. TypeOK
  BY <1>1 DEF Init, TypeOK
<1>4. JobOK
  BY <1>2 DEF JobOK, PlaceOK
<1>5. RequestOK /\ OutputOK
  BY <1>2 DEF RequestOK, OutputOK, PlaceHasRequest, Writing
<1>6. ThreadOK /\ LinesOK
  BY DEF Init, ThreadOK, LinesOK
<1> QED
  BY <1>3, <1>4, <1>5, <1>6 DEF IInv

(* Every step keeps the invariant.                                           *)
LEMMA NextHolds == IInv /\ [Next]_vars => IInv'
<1> SUFFICES ASSUME IInv, [Next]_vars PROVE IInv'
  OBVIOUS
<1>1. CASE SaveTimeline \/ OverwriteSource \/ WorkerCrash
  BY <1>1, SaveTimelineHolds, OverwriteSourceHolds, WorkerCrashHolds
<1>2. CASE Render
  BY <1>2, ThreadLoadsHolds, ThreadEncodesHolds, ThreadPublishesHolds, ThreadReportsHolds,
     ThreadFailsHolds DEF Render
<1>3. ASSUME NEW j \in Jobs, ReadRevision(j) PROVE IInv'
  BY <1>3, ReadRevisionHolds
<1>4. ASSUME NEW j \in Jobs, Command(j) PROVE IInv'
  BY <1>4, InsertJobHolds, LoadTimelineHolds, EnsureWorkerHolds, ReconcileRunningHolds,
     LaunchHolds, LaunchRefusedHolds, FailGetHolds, FailMarkHolds DEF Command
<1>5. ASSUME NEW j \in Jobs, Monitor(j) PROVE IInv'
  BY <1>5, PollEventHolds, PollLostHolds, PollEndsHolds, SettleHolds, ImportHolds,
     SucceedGetHolds, SucceedMarkHolds, StopHolds DEF Monitor
<1>6. ASSUME NEW j \in Jobs, PollExhausted(j) PROVE IInv'
  BY <1>6, PollEndsHolds
<1>7. CASE UNCHANGED vars
  <2>1. UNCHANGED <<revision, rows, ledger, flow, process, disk, hit>>
    BY <1>7 DEF vars, process
  <2>2. TypeOK'
    BY <2>1 DEF IInv, TypeOK, process
  <2>3. Keeps
    BY <2>1, OutsideKeeps
  <2>4. ThreadOK' /\ LinesOK'
    BY <2>1, <2>3, ProcessKept DEF IInv, TypeOK
  <2> QED
    BY <2>1, <2>2, <2>3, <2>4, OutsideStep
<1> QED
  BY <1>1, <1>2, <1>3, <1>4, <1>5, <1>6, <1>7 DEF Next

(* The invariant holds of every reachable state.                             *)
LEMMA Invariance == Spec => []IInv
<1>1. Init => IInv
  BY InitHolds
<1>2. IInv /\ [Next]_vars => IInv'
  BY NextHolds
<1> QED
  BY <1>1, <1>2, PTL DEF Spec

(* A job that met no fault ends succeeded exactly with an artifact.          *)
LEMMA PlacesMatch == IInv => OutcomeMatchesArtifact
<1> SUFFICES ASSUME IInv, NEW j \in Jobs, rows[j] # None, At(j, "done"), j \notin hit
             PROVE  /\ rows[j].status \in Terminal
                    /\ rows[j].status = "succeeded" <=> j \in disk.imported
  BY DEF OutcomeMatchesArtifact
<1>1. PlaceOK(j) /\ flow[j].pc = "done"
  BY DEF IInv, JobOK, At
<1>2. \/ RowIs(j, {"succeeded"}) /\ Imported(j)
      \/ RowIs(j, {"failed"}) /\ ~Imported(j)
  BY <1>1 DEF PlaceOK
<1> QED
  BY <1>2 DEF RowIs, Imported, Terminal

(* submit_editing_job and its monitor: whatever interleaves with them, other *)
(* jobs, overwritten sources, lost workers, the row of a job without a fault *)
(* of its own says what became of its artifact.                              *)
THEOREM OutcomeMatches == Spec => []OutcomeMatchesArtifact
<1>1. IInv => OutcomeMatchesArtifact
  BY PlacesMatch
<1> QED
  BY <1>1, Invariance, PTL

(* import_output_with_id: an imported artifact is the video of the revision  *)
(* the job was submitted for, made from the approved file, although one      *)
(* worker renders for all jobs and any task may stop or restart it.          *)
THEOREM ImportsAreOwn == Spec => []ImportedIsOwn
<1>1. IInv => ImportedIsOwn
  BY DEF IInv, TypeOK, OutputOK, Published, Imported, ImportedIsOwn
<1> QED
  BY <1>1, Invariance, PTL

-----------------------------------------------------------------------------
(* Recursion over the first naturals *)

(* A set of naturals that is not empty has a least element.                  *)
LEMMA Least ==
  ASSUME NEW S \in SUBSET Nat, S # {}
  PROVE  \E m \in S : \A k \in S : m <= k
<1>1. PICK m \in S : \A k \in S : <<k, m>> \notin OpToRel(<, Nat)
  BY WFMin, NatLessThanWellFounded
<1>2. ASSUME NEW k \in S
      PROVE  m <= k
  <2>1. <<k, m>> \in Nat \X Nat /\ <<k, m>>[1] = k /\ <<k, m>>[2] = m
    OBVIOUS
  <2>2. ~(k < m)
    BY <1>1, <2>1 DEF OpToRel
  <2> QED
    BY <2>2
<1> QED
  BY <1>2

(* The minimum of naturals is the least of them.                              *)
LEMMA MinOf ==
  ASSUME NEW S \in SUBSET Nat, S # {}
  PROVE  Min(S) \in S /\ \A k \in S : Min(S) <= k
<1>1. \E m \in S : \A k \in S : m <= k
  BY Least
<1> QED
  BY <1>1 DEF Min

(* What holds at the first place and at every place after one where it holds *)
(* holds everywhere.                                                         *)
LEMMA Induct ==
  ASSUME NEW N \in Nat, NEW D,
         0 \in D,
         \A n \in 1..N : n - 1 \in D => n \in D
  PROVE  \A n \in 0..N : n \in D
<1> DEFINE B == {n \in 0..N : n \notin D}
<1> SUFFICES ASSUME B # {} PROVE FALSE
  OBVIOUS
<1>1. PICK m \in B : \A k \in B : m <= k
  <2>1. B \in SUBSET Nat
    OBVIOUS
  <2> HIDE DEF B
  <2> QED
    BY <2>1, Least
<1>2. m # 0 /\ m \in 0..N
  BY <1>1
<1>3. m - 1 \in 0..N /\ m - 1 \notin B /\ m \in 1..N
  BY <1>1, <1>2
<1> QED
  BY <1>1, <1>3

(* The function that starts at base and goes on by the steps, within a set.   *)
Recursive(f, S, N, base, step) ==
    /\ f = [n \in 0..N |-> f[n]] /\ f[0] = base
    /\ \A n \in 1..N : f[n] = step[n][f[n - 1]]
    /\ \A n \in 0..N : f[n] \in S

(* It exists when the steps stay within the set.                             *)
LEMMA Recursion ==
  ASSUME NEW S, NEW N \in Nat, NEW base \in S, NEW step,
         \A n \in 1..N : \A x \in S : step[n][x] \in S
  PROVE  \E f : Recursive(f, S, N, base, step)
<1> DEFINE Upto(f, n) == f \in [0..n -> S] /\ f[0] = base
                         /\ \A m \in 1..n : f[m] = step[m][f[m - 1]]
           D == {n \in 0..N : \E f : Upto(f, n)}
<1>1. 0 \in D
  <2>1. Upto([n \in 0..0 |-> base], 0)
    OBVIOUS
  <2> HIDE DEF Upto
  <2>2. (\E f : Upto(f, 0)) /\ 0 \in 0..N
    BY <2>1
  <2> QED
    BY <2>2
<1>2. ASSUME NEW n \in 1..N, n - 1 \in D
      PROVE  n \in D
  <2>1. PICK f : Upto(f, n - 1)
    BY <1>2
  <2> DEFINE g == [m \in 0..n |-> IF m = n THEN step[n][f[n - 1]] ELSE f[m]]
  <2>2. f[n - 1] \in S /\ step[n][f[n - 1]] \in S
    BY <2>1
  <2>3. \A m \in 0..(n - 1) : f[m] \in S
    BY <2>1
  <2>4. g \in [0..n -> S]
    BY <2>2, <2>3
  <2>5. g[0] = base
    BY <2>1
  <2>6. ASSUME NEW m \in 1..n
        PROVE  g[m] = step[m][g[m - 1]]
    <3>1. m - 1 \in 0..n /\ m - 1 # n /\ m \in 0..n
      OBVIOUS
    <3>2. g[m - 1] = f[m - 1]
      BY <3>1
    <3>3. CASE m = n
      BY <3>1, <3>2, <3>3
    <3>4. CASE m # n
      <4>1. m \in 1..(n - 1) /\ g[m] = f[m]
        BY <3>1, <3>4
      <4> QED
        BY <2>1, <3>2, <4>1
    <3> QED
      BY <3>3, <3>4
  <2> HIDE DEF g
  <2>7. Upto(g, n)
    BY <2>4, <2>5, <2>6
  <2> HIDE DEF Upto
  <2>8. (\E h : Upto(h, n)) /\ n \in 0..N
    BY <2>7
  <2> QED
    BY <2>8
<1> HIDE DEF D
<1>3. N \in D
  <2>1. \A n \in 0..N : n \in D
    BY <1>1, <1>2, Induct
  <2> QED
    BY <2>1
<1>4. PICK f : Upto(f, N)
  BY <1>3 DEF D
<1> QED
  BY <1>4 DEF Recursive

(* The elements of a sequence that are in a set are a sequence of them.      *)
LEMMA AmongType ==
  ASSUME NEW S, NEW s \in Seq(S), NEW T
  PROVE  Among(s, T) \in Seq(S \cap T)
<1> DEFINE N == Len(s)
           Body(f) == [n \in 0..N |-> IF n = 0 THEN <<>>
                                      ELSE IF s[n] \in T THEN Append(f[n - 1], s[n]) ELSE f[n - 1]]
           kept == CHOOSE f : f = Body(f)
           step == [n \in 1..N |-> [r \in Seq(S \cap T) |->
                       IF s[n] \in T THEN Append(r, s[n]) ELSE r]]
<1>1. N \in Nat /\ \A n \in 1..N : s[n] \in S
  OBVIOUS
<1>2. PICK f : Recursive(f, Seq(S \cap T), N, <<>>, step)
  <2>1. \A n \in 1..N : \A r \in Seq(S \cap T) : step[n][r] \in Seq(S \cap T)
    BY <1>1
  <2>2. <<>> \in Seq(S \cap T)
    OBVIOUS
  <2> HIDE DEF N, step
  <2> QED
    BY <1>1, <2>1, <2>2, Recursion
<1> HIDE DEF step
<1>3. \A n \in 1..N : f[n] = IF s[n] \in T THEN Append(f[n - 1], s[n]) ELSE f[n - 1]
  <2> SUFFICES ASSUME NEW n \in 1..N
               PROVE  f[n] = IF s[n] \in T THEN Append(f[n - 1], s[n]) ELSE f[n - 1]
    OBVIOUS
  <2>1. n - 1 \in 0..N
    BY <1>1
  <2>2. f[n] = step[n][f[n - 1]] /\ f[n - 1] \in Seq(S \cap T)
    BY <1>2, <2>1 DEF Recursive
  <2> QED
    BY <2>2 DEF step
<1>4. f = Body(f)
  <2>1. \A n \in 0..N : n = 0 \/ n \in 1..N
    BY <1>1
  <2>2. f[0] = <<>> /\ f = [n \in 0..N |-> f[n]]
    BY <1>2 DEF Recursive
  <2>3. \A n \in 0..N : f[n] = IF n = 0 THEN <<>>
                               ELSE IF s[n] \in T THEN Append(f[n - 1], s[n]) ELSE f[n - 1]
    BY <1>1, <1>3, <2>1, <2>2
  <2> QED
    BY <2>2, <2>3
<1>5. kept = Body(kept)
  BY <1>4
<1>6. Among(s, T) = kept[N]
  BY DEF Among
<1> HIDE DEF kept
<1>7. \A n \in 0..N : n \in {m \in 0..N : kept[m] \in Seq(S \cap T)}
  <2> DEFINE D == {m \in 0..N : kept[m] \in Seq(S \cap T)}
  <2>1. 0 \in D
    BY <1>1, <1>5
  <2>2. ASSUME NEW n \in 1..N, n - 1 \in D
        PROVE  n \in D
    <3>1. n \in 1..N /\ n - 1 \in 0..N /\ s[n] \in S
      BY <1>1
    <3>2. kept[n] = IF s[n] \in T THEN Append(kept[n - 1], s[n]) ELSE kept[n - 1]
      <4>1. n \in 0..N /\ n # 0
        BY <3>1
      <4> QED
        BY <1>5, <4>1
    <3>3. kept[n] \in Seq(S \cap T)
      BY <2>2, <3>1, <3>2
    <3> QED
      BY <3>1, <3>3
  <2> HIDE DEF D
  <2>3. \A n \in 0..N : n \in D
    BY <1>1, <2>1, <2>2, Induct
  <2> QED
    BY <2>3 DEF D
<1> QED
  BY <1>1, <1>6, <1>7

(* How long the first paragraphs last is a number of milliseconds.           *)
LEMMA ElapsedType ==
  ASSUME NEW ps, Len(ps) \in Nat, \A k \in 1..Len(ps) : ps[k].dur \in Int
  PROVE  /\ \A n \in 0..Len(ps) : Elapsed(ps)[n] \in Int
         /\ Elapsed(ps)[0] = 0
         /\ \A n \in 1..Len(ps) : Elapsed(ps)[n] = Elapsed(ps)[n - 1] + ps[n].dur
<1> DEFINE N == Len(ps)
           Body(f) == [n \in 0..N |-> IF n = 0 THEN 0 ELSE f[n - 1] + ps[n].dur]
           step == [n \in 1..N |-> [x \in Int |-> x + ps[n].dur]]
           F == Elapsed(ps)
<1>1. PICK f : Recursive(f, Int, N, 0, step)
  <2>1. \A n \in 1..N : \A x \in Int : step[n][x] \in Int
    OBVIOUS
  <2>2. 0 \in Int /\ N \in Nat
    OBVIOUS
  <2> HIDE DEF step, N
  <2> QED
    BY <2>1, <2>2, Recursion
<1>2. \A n \in 1..N : f[n] = f[n - 1] + ps[n].dur
  <2> SUFFICES ASSUME NEW n \in 1..N PROVE f[n] = f[n - 1] + ps[n].dur
    OBVIOUS
  <2>1. n - 1 \in 0..N
    OBVIOUS
  <2>2. f[n] = step[n][f[n - 1]] /\ f[n - 1] \in Int
    <3> HIDE DEF step
    <3> QED
      BY <1>1, <2>1 DEF Recursive
  <2> QED
    BY <2>2
<1>3. f = Body(f)
  <2>1. f[0] = 0 /\ f = [n \in 0..N |-> f[n]]
    BY <1>1 DEF Recursive
  <2>2. ASSUME NEW n \in 0..N
        PROVE  f[n] = IF n = 0 THEN 0 ELSE f[n - 1] + ps[n].dur
    <3>1. n = 0 \/ n \in 1..N
      OBVIOUS
    <3> QED
      BY <1>2, <2>1, <3>1
  <2> QED
    BY <2>1, <2>2
<1>4. F = Body(F)
  <2>1. F = CHOOSE g : g = Body(g)
    BY DEF Elapsed
  <2> HIDE DEF F, Body
  <2> QED
    BY <1>3, <2>1
<1>5. F[0] = 0
  <2>1. 0 \in 0..N
    OBVIOUS
  <2> HIDE DEF F
  <2> QED
    BY <1>4, <2>1
<1>6. ASSUME NEW n \in 1..N
      PROVE  F[n] = F[n - 1] + ps[n].dur
  <2>1. n \in 0..N /\ n # 0
    OBVIOUS
  <2> HIDE DEF F
  <2> QED
    BY <1>4, <2>1
<1>7. \A n \in 0..N : n \in {m \in 0..N : F[m] \in Int}
  <2> DEFINE D == {m \in 0..N : F[m] \in Int}
  <2>1. 0 \in D
    BY <1>5
  <2>2. ASSUME NEW n \in 1..N, n - 1 \in D
        PROVE  n \in D
    <3>1. n \in 0..N /\ ps[n].dur \in Int /\ F[n - 1] \in Int
      BY <2>2
    <3> HIDE DEF F
    <3> QED
      BY <1>6, <3>1
  <2> HIDE DEF D, F
  <2>3. N \in Nat
    OBVIOUS
  <2> HIDE DEF N
  <2>4. \A n \in 0..N : n \in D
    BY <2>1, <2>2, <2>3, Induct
  <2> QED
    BY <2>4 DEF D
<1> QED
  BY <1>5, <1>6, <1>7

(* A bounded set of naturals that is not empty has a greatest element.       *)
LEMMA MaxOf ==
  ASSUME NEW S \in SUBSET Nat, S # {}, NEW B \in Nat, \A x \in S : x <= B
  PROVE  Max(S) \in S /\ \A x \in S : x <= Max(S)
<1> DEFINE U == {u \in Nat : \A x \in S : x <= u}
<1>1. U \in SUBSET Nat /\ U # {}
  OBVIOUS
<1>2. PICK m \in U : \A k \in U : m <= k
  <2> HIDE DEF U
  <2> QED
    BY <1>1, Least
<1>3. m \in S
  <2> SUFFICES ASSUME m \notin S PROVE FALSE
    OBVIOUS
  <2>1. PICK x \in S : TRUE
    OBVIOUS
  <2>2. \A y \in S : y \in Nat /\ y <= m /\ y # m
    BY <1>2
  <2>3. m - 1 \in Nat /\ \A y \in S : y <= m - 1
    BY <1>2, <2>1, <2>2
  <2> QED
    BY <1>2, <2>3
<1>4. \E x \in S : \A y \in S : y <= x
  BY <1>2, <1>3
<1> QED
  BY <1>4 DEF Max

(* The smaller of two numbers.                                                *)
LEMMA UpToIs ==
  ASSUME NEW a \in Int, NEW b \in Int
  PROVE  UpTo(a, b) = IF a <= b THEN a ELSE b
<1>1. CASE a <= b
  <2>1. a \in {a, b} /\ \A x \in {a, b} : a <= x
    BY <1>1
  <2>2. \A m \in {a, b} : (\A x \in {a, b} : m <= x) => m = a
    BY <1>1
  <2> QED
    BY <1>1, <2>1, <2>2 DEF UpTo, Min
<1>2. CASE b < a
  <2>1. b \in {a, b} /\ \A x \in {a, b} : b <= x
    BY <1>2
  <2>2. \A m \in {a, b} : (\A x \in {a, b} : m <= x) => m = b
    BY <1>2
  <2> QED
    BY <1>2, <2>1, <2>2 DEF UpTo, Min
<1> QED
  BY <1>1, <1>2

(* The greater of two numbers.                                                *)
LEMMA MaxIs ==
  ASSUME NEW a \in Int, NEW b \in Int
  PROVE  Max({a, b}) = IF a <= b THEN b ELSE a
<1>1. CASE a <= b
  <2>1. b \in {a, b} /\ \A x \in {a, b} : b >= x
    BY <1>1
  <2>2. \A m \in {a, b} : (\A x \in {a, b} : m >= x) => m = b
    BY <1>1
  <2> QED
    BY <1>1, <2>1, <2>2 DEF Max
<1>2. CASE b < a
  <2>1. a \in {a, b} /\ \A x \in {a, b} : a >= x
    BY <1>2
  <2>2. \A m \in {a, b} : (\A x \in {a, b} : m >= x) => m = a
    BY <1>2
  <2> QED
    BY <1>2, <2>1, <2>2 DEF Max
<1> QED
  BY <1>1, <1>2

-----------------------------------------------------------------------------
(* The probe *)

Usable(m) ==
    /\ Kind(m) \in {"image", "video", "audio"}
    /\ Kind(m) # "image" => m.ms \in 1..MaxMediumMs
    /\ m.video => m.edge \in 1..MaxEdge
    /\ Kind(m) = "audio" => m.track /\ ~m.silent

(* The kind of a file follows from its streams.                               *)
LEMMA KindType ==
  ASSUME NEW m \in Medium
  PROVE  /\ Kind(m) \in {"image", "video", "audio", Unknown}
         /\ Kind(m) = "audio" => m.track /\ ~m.video
         /\ Kind(m) = "image" => m.video /\ ~m.track
         /\ Kind(m) = "video" => m.video
<1>1. Unknown \notin Kinds
  BY AnalysisAssumption
<1> QED
  BY <1>1 DEF Kind, Kinds

(* A probe that refuses says which rule; one that does not found all kept.   *)
LEMMA ProbeRefusalIs ==
  ASSUME NEW m \in Medium
  PROVE  /\ ProbeRefusal(m) \in Refusals \cup {Unknown}
         /\ ProbeRefusal(m) = Unknown => Usable(m)
<1> DEFINE refusals == <<
            <<"FILE_TOO_LARGE", m.large>>,
            <<"NO_USABLE_STREAM", Kind(m) = Unknown>>,
            <<"UNUSABLE_DURATION", Kind(m) # "image" /\ m.ms < 1>>,
            <<"TOO_LONG", Kind(m) # "image" /\ m.ms > MaxMediumMs>>,
            <<"UNUSABLE_FRAME_SIZE", m.video /\ m.edge < 1>>,
            <<"FRAME_TOO_LARGE", m.video /\ m.edge > MaxEdge>>,
            <<"PROBE_FAILED", m.track /\ m.reported /\ m.loudness = Unknown>>,
            <<"SILENT_AUDIO", m.track /\ m.silent /\ Kind(m) = "audio">> >>
           holding == {i \in DOMAIN refusals : refusals[i][2]}
<1>1. ProbeRefusal(m) = IF holding = {} THEN Unknown ELSE refusals[Min(holding)][1]
  BY DEF ProbeRefusal
<1>2. DOMAIN refusals = 1..8 /\ \A i \in 1..8 : refusals[i][1] \in Refusals
  BY DEF Refusals
<1>3. holding \in SUBSET Nat /\ holding \subseteq 1..8
  BY <1>2
<1>4. holding # {} => refusals[Min(holding)][1] \in Refusals
  <2> HAVE holding # {}
  <2> HIDE DEF holding
  <2>1. Min(holding) \in holding
    BY <1>3, MinOf
  <2> QED
    BY <1>2, <1>3, <2>1
<1>5. holding = {} => Usable(m)
  <2> HAVE holding = {}
  <2>1. \A i \in 1..8 : ~refusals[i][2]
    BY <1>2
  <2> HIDE DEF holding
  <2>2. /\ Kind(m) # Unknown
        /\ ~(Kind(m) # "image" /\ m.ms < 1) /\ ~(Kind(m) # "image" /\ m.ms > MaxMediumMs)
        /\ ~(m.video /\ m.edge < 1) /\ ~(m.video /\ m.edge > MaxEdge)
        /\ ~(m.track /\ m.silent /\ Kind(m) = "audio")
    <3>1. ~refusals[2][2] /\ ~refusals[3][2] /\ ~refusals[4][2] /\ ~refusals[5][2]
          /\ ~refusals[6][2] /\ ~refusals[8][2]
      BY <2>1
    <3> QED
      BY <3>1
  <2>3. m.ms \in Int /\ m.edge \in Int /\ MaxMediumMs \in Nat /\ MaxEdge \in Nat
    BY AnalysisAssumption DEF Medium
  <2> QED
    BY <2>2, <2>3, KindType DEF Usable
<1>6. Unknown \notin Refusals
  BY AnalysisAssumption
<1>7. CASE holding = {}
  <2>1. ProbeRefusal(m) = Unknown
    BY <1>1, <1>7
  <2> QED
    BY <1>5, <1>7, <2>1
<1>8. CASE holding # {}
  <2>1. ProbeRefusal(m) \in Refusals
    <3> HIDE DEF holding, refusals
    <3> QED
      BY <1>1, <1>4, <1>8
  <2> QED
    BY <1>6, <2>1
<1> QED
  BY <1>7, <1>8

(* A material of which nothing is said is not refused for it.                *)
LEMMA NothingSaid == DescriptionOk(Unanalysed)
<1>1. /\ Unanalysed.description = Unknown /\ Unanalysed.tags = <<>>
      /\ Unanalysed.dated = FALSE /\ Unanalysed.by = "ai"
  BY DEF Unanalysed
<1>2. Len(<<>>) = 0 /\ DOMAIN <<>> = {} /\ MaxTags \in Nat
  BY AnalysisAssumption
<1>3. TagsOk(<<>>)
  BY <1>2 DEF TagsOk, IsInjective
<1> QED
  BY <1>1, <1>3 DEF DescriptionOk

(* The facts of a usable file satisfy everyone who checks them again.        *)
FactsOk(f) ==
    /\ f.kind \in {"image", "video", "audio"}
    /\ DocumentOk(f) /\ ReceivedOk(f) /\ MaterialOk(f, Unanalysed)

(* A file that was not refused has such facts.                                *)
LEMMA ProbedFactsOk ==
  ASSUME NEW m \in Medium, Usable(m)
  PROVE  FactsOk(ProbedFacts(m)) /\ ProbedFacts(m).kind = Kind(m)
         /\ (Kind(m) # "image" => ProbedFacts(m).ms = m.ms)
<1> DEFINE f == ProbedFacts(m)
<1>1. /\ f.kind = Kind(m) /\ f.ms = IF Kind(m) = "image" THEN Unknown ELSE m.ms
      /\ f.edge = IF m.video THEN m.edge ELSE Unknown
      /\ f.audio = (m.track /\ ~m.silent)
      /\ f.loudness = IF m.track /\ ~m.silent THEN StorableLoudness(m.loudness) ELSE Unknown
  BY DEF ProbedFacts
<1>2. m.loudness \in Int \cup {Unknown} /\ Unknown \notin Int /\ Unknown \notin Kinds
  BY AnalysisAssumption DEF Medium
<1>3. f.loudness # Unknown => f.audio /\ f.loudness \in -70..0
  <2>1. ASSUME NEW v \in Int \cup {Unknown}, StorableLoudness(v) # Unknown
        PROVE  StorableLoudness(v) \in -70..0
    <3>1. v \in Int /\ v > -70 /\ v <= 0 /\ StorableLoudness(v) = v
      BY <2>1 DEF StorableLoudness
    <3> QED
      BY <3>1
  <2> HIDE DEF f
  <2> QED
    BY <1>1, <1>2, <2>1
<1>4. /\ Kind(m) \in {"image", "video", "audio"}
      /\ Kind(m) # "image" => m.ms \in 1..MaxMediumMs
      /\ m.video => m.edge \in 1..MaxEdge
      /\ Kind(m) = "audio" => m.track /\ ~m.silent
  BY DEF Usable
<1>5. f.kind # "audio" => Edge(f)
  BY <1>1, <1>2, <1>4, KindType DEF Edge
<1>6. f.kind # "image" => Lasts(f)
  BY <1>1, <1>2, <1>4, KindType DEF Lasts
<1>7. f.kind = "image" => f.ms = Unknown /\ ~f.audio
  BY <1>1, KindType
<1>8. f.kind = "audio" => f.edge = Unknown /\ f.audio
  BY <1>1, <1>4, KindType
<1> HIDE DEF f
<1>9. DocumentOk(f) /\ ReceivedOk(f)
  BY <1>3, <1>5, <1>6, <1>7, <1>8 DEF DocumentOk, ReceivedOk
<1>10. SpeechOk(f, Unanalysed) /\ BoundariesOk(f, Unanalysed)
  BY DEF SpeechOk, BoundariesOk, Unanalysed
<1>11. MaterialOk(f, Unanalysed)
  <2>1. DescriptionOk(Unanalysed)
    BY NothingSaid
  <2> QED
    BY <1>3, <1>5, <1>6, <1>7, <1>8, <1>10, <2>1 DEF MaterialOk
<1>12. f.kind \in {"image", "video", "audio"} /\ f.kind = Kind(m) /\ (Kind(m) # "image" => f.ms = m.ms)
  BY <1>1, <1>4 DEF f
<1> QED
  BY <1>9, <1>11, <1>12 DEF FactsOk, f

-----------------------------------------------------------------------------
(* The speech scan *)

(* Segments lie apart, in order and within the sound.                        *)
Segments(ms) ==
    {ss \in Seq(Nat \X Nat) :
        \A i \in DOMAIN ss :
            /\ i > 1 => ss[i - 1][2] < ss[i][1]
            /\ ss[i][1] < ss[i][2] /\ ss[i][2] <= ms}

(* A stretch of the sound that may become a segment.                        *)
Candidates ==
    {o \in [start : Nat \cup {Unknown}, voiced : Int, run : Nat, long : BOOLEAN, silent : Nat] :
        o.long => o.start # Unknown}

(* What the scan keeps.                                                      *)
Scans(ms) == [segments : Segments(ms), confirmed : Int, open : Candidates]

(* What is before the last element.                                          *)
LEMMA FrontIs ==
  ASSUME NEW S, NEW ss \in Seq(S), ss # <<>>
  PROVE  /\ Len(ss) \in Nat \ {0} /\ DOMAIN ss = 1..Len(ss) /\ Last(ss) = ss[Len(ss)]
         /\ Front(ss) \in Seq(S) /\ Len(Front(ss)) = Len(ss) - 1
         /\ \A i \in 1..(Len(ss) - 1) : Front(ss)[i] = ss[i]
<1> DEFINE n == Len(ss)
           u == Front(ss)
<1>1. n \in Nat \ {0} /\ DOMAIN ss = 1..n /\ Last(ss) = ss[n]
  BY DEF Last
<1>2. u = SubSeq(ss, 1, n - 1)
  BY DEF Front
<1>3. 1 \in 1..(Len(ss) + 1) /\ n - 1 \in 0..Len(ss)
  BY <1>1
<1> HIDE DEF u
<1>4. /\ u \in Seq(S)
      /\ Len(u) = IF 1 <= n - 1 THEN n - 1 - 1 + 1 ELSE 0
      /\ \A i \in 1..(n - 1 - 1 + 1) : u[i] = ss[1 + i - 1]
  BY <1>2, <1>3, SubSeqProperties
<1>5. n - 1 - 1 + 1 = n - 1 /\ (IF 1 <= n - 1 THEN n - 1 - 1 + 1 ELSE 0) = n - 1
  BY <1>1
<1>6. \A i \in 1..(n - 1) : u[i] = ss[i]
  <2> TAKE i \in 1..(n - 1)
  <2>1. i \in 1..(n - 1 - 1 + 1) /\ 1 + i - 1 = i
    BY <1>5
  <2>2. u[i] = ss[1 + i - 1] /\ 1 + i - 1 = i
    BY <1>4, <2>1
  <2> QED
    BY <2>2
<1>7. u \in Seq(S) /\ Len(u) = n - 1
  BY <1>4, <1>5
<1> QED
  BY <1>1, <1>6, <1>7 DEF u

(* A segment that is appended, clipped and joined, leaves them in order.      *)
LEMMA AppendSegmentType ==
  ASSUME NEW ms \in Nat, NEW ss \in Segments(ms), NEW from \in Int, NEW to \in Int
  PROVE  AppendSegment(ss, from, to, ms) \in Segments(ms)
<1> DEFINE start == Max({0, from})
           end == UpTo(ms, to)
           n == Len(ss)
           joined == Append(Front(ss), <<Last(ss)[1], Max({Last(ss)[2], end})>>)
<1>1. start \in Nat /\ end \in Int /\ end <= ms
  <2>1. start = IF 0 <= from THEN from ELSE 0
    BY MaxIs
  <2>2. end = IF ms <= to THEN ms ELSE to
    BY UpToIs
  <2> QED
    BY <2>1, <2>2
<1>2. ss \in Seq(Nat \X Nat) /\ n \in Nat /\ DOMAIN ss = 1..n
      /\ \A i \in 1..n : /\ ss[i] \in Nat \X Nat /\ ss[i][1] < ss[i][2] /\ ss[i][2] <= ms
                         /\ ss[i] = <<ss[i][1], ss[i][2]>>
                         /\ (i > 1 => ss[i - 1][2] < ss[i][1])
  <2>1. ss \in Seq(Nat \X Nat) /\ \A i \in DOMAIN ss :
            /\ i > 1 => ss[i - 1][2] < ss[i][1]
            /\ ss[i][1] < ss[i][2] /\ ss[i][2] <= ms
    BY DEF Segments
  <2>2. n \in Nat /\ DOMAIN ss = 1..n
    BY <2>1
  <2>3. \A i \in 1..n : ss[i] \in Nat \X Nat
    BY <2>1
  <2>4. \A x \in Nat \X Nat : x = <<x[1], x[2]>>
    OBVIOUS
  <2> HIDE DEF n
  <2> QED
    BY <2>1, <2>2, <2>3, <2>4
<1> HIDE DEF start, end
<1>3. ASSUME start < end, ss # <<>> => Last(ss)[2] < start
      PROVE  Append(ss, <<start, end>>) \in Segments(ms)
  <2> DEFINE t == Append(ss, <<start, end>>)
  <2>1. t \in Seq(Nat \X Nat) /\ Len(t) = n + 1 /\ (\A i \in 1..n : t[i] = ss[i])
        /\ t[n + 1] = <<start, end>>
    BY <1>1, <1>2, <1>3
  <2>2. n > 0 => ss[n][2] < start
    BY <1>2, <1>3 DEF Last
  <2> HIDE DEF t
  <2>3. ASSUME NEW i \in DOMAIN t
        PROVE  /\ i > 1 => t[i - 1][2] < t[i][1]
               /\ t[i][1] < t[i][2] /\ t[i][2] <= ms
    <3>1. i \in 1..(n + 1)
      BY <1>2, <2>1
    <3>2. CASE i \in 1..n
      <4>1. i > 1 => i - 1 \in 1..n
        BY <1>2, <3>2
      <4> QED
        BY <1>2, <2>1, <3>2, <4>1
    <3>3. CASE i = n + 1
      <4>1. i > 1 => i - 1 = n /\ n \in 1..n /\ t[i - 1] = ss[n]
        BY <1>2, <2>1, <3>3
      <4>2. t[i] = <<start, end>>
        <5>1. t[n + 1] = <<start, end>>
          BY <2>1
        <5> QED
          BY ONLY <5>1, <3>3
      <4>5. t[i][1] = start /\ t[i][2] = end
        BY <4>2
      <4>3. i > 1 => ss[n] \in Nat \X Nat
        BY <1>2, <4>1
      <4> QED
        BY <1>1, <1>2, <1>3, <2>2, <3>3, <4>1, <4>5, <4>3
    <3> QED
      BY <1>2, <3>1, <3>2, <3>3
  <2>4. t \in Segments(ms)
    BY <2>1, <2>3 DEF Segments
  <2> QED
    BY <2>4 DEF t
<1>4. ASSUME start < end, ss # <<>>, start <= Last(ss)[2]
      PROVE  joined \in Segments(ms)
  <2>1. n >= 1 /\ Last(ss) = ss[n] /\ n \in 1..n
    BY <1>2, <1>4 DEF Last
  <2> DEFINE top == Max({Last(ss)[2], end})
             u == Front(ss)
  <2>2. top \in Nat /\ top <= ms /\ ss[n][1] < top
    <3>1. Last(ss)[2] \in Int
      BY <1>2, <2>1
    <3>2. top = IF Last(ss)[2] <= end THEN end ELSE Last(ss)[2]
      BY <1>1, <3>1, MaxIs
    <3> QED
      BY <1>1, <1>2, <2>1, <3>2
  <2> HIDE DEF top
  <2>3. u \in Seq(Nat \X Nat) /\ Len(u) = n - 1 /\ \A i \in 1..(n - 1) : u[i] = ss[i]
    BY <1>2, <1>4, FrontIs
  <2> HIDE DEF u
  <2> DEFINE t == Append(u, <<ss[n][1], top>>)
  <2>4. joined = t
    BY <2>1 DEF u, top
  <2>5. t \in Seq(Nat \X Nat) /\ Len(t) = n /\ (\A i \in 1..(n - 1) : t[i] = ss[i])
        /\ t[n] = <<ss[n][1], top>>
    <3>1. <<ss[n][1], top>> \in Nat \X Nat
      <4>1. ss[n] \in Nat \X Nat
        BY <1>2, <2>1
      <4> QED
        BY <2>2, <4>1
    <3>2. t \in Seq(Nat \X Nat) /\ Len(t) = Len(u) + 1
          /\ (\A i \in 1..Len(u) : t[i] = u[i]) /\ t[Len(u) + 1] = <<ss[n][1], top>>
      BY <2>3, <3>1
    <3>3. Len(u) + 1 = n
      BY <1>2, <2>3
    <3> QED
      BY <2>3, <3>2, <3>3
  <2> HIDE DEF t
  <2>6. ASSUME NEW i \in DOMAIN t
        PROVE  /\ i > 1 => t[i - 1][2] < t[i][1]
               /\ t[i][1] < t[i][2] /\ t[i][2] <= ms
    <3>3. DOMAIN t = 1..n
      BY <2>5
    <3>1. i \in 1..n /\ (i > 1 => i - 1 \in 1..(n - 1)) /\ (i # n => i \in 1..(n - 1))
      BY <1>2, <3>3
    <3>2. t[n][1] = ss[n][1] /\ t[n][2] = top
      BY <2>5
    <3> QED
      BY <1>2, <2>2, <2>5, <3>1, <3>2
  <2> HIDE DEF joined
  <2> QED
    BY <2>4, <2>5, <2>6 DEF Segments
<1>5. AppendSegment(ss, from, to, ms)
        = IF end <= start THEN ss
          ELSE IF ss # <<>> /\ start <= Last(ss)[2] THEN joined ELSE Append(ss, <<start, end>>)
  BY DEF AppendSegment, start, end
<1>6. ss # <<>> => Last(ss)[2] \in Nat
  BY <1>2 DEF Last
<1> HIDE DEF joined
<1> QED
  BY <1>1, <1>3, <1>4, <1>5, <1>6

(* Times on the grid of the chunks.                                           *)
LEMMA ChunkProduct ==
  /\ Chunk \in Nat \ {0} /\ Padding \in Nat
  /\ \A k \in Int : k * Chunk - Padding \in Int /\ k * Chunk + Padding \in Int /\ k * Chunk \in Int
BY AnalysisAssumption

(* A candidate that ends becomes a segment of the scan.                       *)
LEMMA ClosedType ==
  ASSUME NEW ms \in Nat, NEW st \in Scans(ms), st.open.start \in Nat, NEW next \in Nat
  PROVE  Closed(st, next, ms) \in Scans(ms)
<1>1. st.segments \in Segments(ms) /\ st.confirmed \in Int /\ st.open \in Candidates
  BY DEF Scans
<1>2. st.open.silent \in Nat /\ st.open.voiced \in Int
  BY <1>1 DEF Candidates
<1>3. /\ st.open.start * Chunk - Padding \in Int
      /\ (next - st.open.silent) * Chunk + Padding \in Int
  <2>1. st.open.start \in Int /\ next - st.open.silent \in Int
    BY <1>2
  <2> QED
    BY <2>1, ChunkProduct
<1>4. AppendSegment(st.segments, st.open.start * Chunk - Padding,
                    (next - st.open.silent) * Chunk + Padding, ms) \in Segments(ms)
  BY <1>1, <1>3, AppendSegmentType
<1>5. Quiet \in Candidates
  BY DEF Quiet, Candidates
<1>6. st.confirmed + st.open.voiced \in Int
  BY <1>1, <1>2
<1> QED
  BY <1>4, <1>5, <1>6 DEF Closed, Scans

(* A voiced chunk opens a candidate or goes on with it.                       *)
LEMMA VoicedType ==
  ASSUME NEW ms \in Nat, NEW st \in Scans(ms), NEW i \in Nat
  PROVE  Voiced(st, i, ms) \in Scans(ms)
<1> DEFINE o == st.open
           more == Max({0, UpTo(ms, (i + 1) * Chunk) - i * Chunk})
           p == [start |-> IF o.start = Unknown THEN i ELSE o.start,
                 voiced |-> o.voiced + more,
                 run |-> o.run + 1, long |-> o.long \/ o.run + 1 >= MinSpeechChunks, silent |-> 0]
<1>1. st \in [segments : Segments(ms), confirmed : Int, open : Candidates] /\ o \in Candidates
  BY DEF Scans
<1>2. o.start \in Nat \cup {Unknown} /\ o.voiced \in Int /\ o.run \in Nat /\ o.long \in BOOLEAN
  BY <1>1 DEF Candidates
<1>3. more \in Int
  <2>1. (i + 1) * Chunk \in Int /\ i * Chunk \in Int
    BY ChunkProduct
  <2>2. UpTo(ms, (i + 1) * Chunk) \in Int
    BY <2>1, UpToIs
  <2>3. UpTo(ms, (i + 1) * Chunk) - i * Chunk \in Int
    BY <2>1, <2>2
  <2> HIDE DEF o
  <2> QED
    BY <2>3, MaxIs
<1>4. Unknown \notin Nat
  BY AnalysisAssumption
<1> HIDE DEF more, o
<1>5. p \in Candidates
  <2>1. o.voiced + more \in Int /\ o.run + 1 \in Nat
    BY <1>2, <1>3
  <2>2. p.start \in Nat
    BY <1>2
  <2> QED
    BY <1>4, <2>1, <2>2 DEF Candidates
<1> HIDE DEF p
<1>6. Voiced(st, i, ms) = [st EXCEPT !.open = p]
  BY DEF Voiced, p, o, more
<1> QED
  BY <1>1, <1>5, <1>6 DEF Scans

(* A silent chunk ends a candidate, drops it or is a pause of it.             *)
LEMMA UnvoicedType ==
  ASSUME NEW ms \in Nat, NEW st \in Scans(ms), NEW i \in Nat
  PROVE  Unvoiced(st, i, ms) \in Scans(ms)
<1> DEFINE paused == [st EXCEPT !.open.silent = @ + 1, !.open.run = 0]
<1>1. st \in [segments : Segments(ms), confirmed : Int, open : Candidates]
      /\ st.open \in Candidates
  BY DEF Scans
<1>2. Quiet \in Candidates
  BY DEF Quiet, Candidates
<1>3. CASE st.open.start = Unknown
  BY <1>3 DEF Unvoiced
<1>4. CASE st.open.start # Unknown /\ ~st.open.long
  <2>1. [st EXCEPT !.open = Quiet] \in Scans(ms)
    BY <1>1, <1>2 DEF Scans
  <2> QED
    BY <1>4, <2>1 DEF Unvoiced
<1>5. CASE st.open.start # Unknown /\ st.open.long
  <2>1. paused \in Scans(ms) /\ paused.open.start \in Nat
    <3>1. paused.open = [st.open EXCEPT !.silent = @ + 1, !.run = 0]
          /\ paused = [st EXCEPT !.open = paused.open]
      BY <1>1 DEF Candidates
    <3>2. paused.open \in Candidates /\ paused.open.start = st.open.start
      <4>1. st.open \in [start : Nat \cup {Unknown}, voiced : Int, run : Nat, long : BOOLEAN, silent : Nat]
            /\ (st.open.long => st.open.start # Unknown)
        BY <1>1 DEF Candidates
      <4> DEFINE q == [st.open EXCEPT !.silent = @ + 1, !.run = 0]
      <4>3. /\ q \in [start : Nat \cup {Unknown}, voiced : Int, run : Nat, long : BOOLEAN, silent : Nat]
            /\ q.start = st.open.start /\ q.long = st.open.long
        <5>1. ASSUME NEW o \in [start : Nat \cup {Unknown}, voiced : Int, run : Nat, long : BOOLEAN, silent : Nat]
              PROVE  LET p == [o EXCEPT !.silent = @ + 1, !.run = 0] IN
                     /\ p \in [start : Nat \cup {Unknown}, voiced : Int, run : Nat, long : BOOLEAN, silent : Nat]
                     /\ p.start = o.start /\ p.long = o.long
          <6>1. o.silent + 1 \in Nat
            OBVIOUS
          <6> QED
            BY <6>1
        <5> QED
          BY ONLY <4>1, <5>1
      <4>4. paused.open = q
        BY <3>1
      <4> HIDE DEF q, paused
      <4>2. /\ paused.open \in [start : Nat \cup {Unknown}, voiced : Int, run : Nat, long : BOOLEAN, silent : Nat]
            /\ paused.open.start = st.open.start
        BY <4>3, <4>4
      <4> QED
        BY <1>5, <4>2 DEF Candidates
    <3>3. st.open.start \in Nat
      BY <1>1, <1>5 DEF Candidates
    <3> HIDE DEF paused
    <3>4. paused \in Scans(ms)
      BY <1>1, <3>1, <3>2 DEF Scans
    <3> QED
      BY <3>2, <3>3, <3>4
  <2>2. Closed(paused, i + 1, ms) \in Scans(ms)
    <3> HIDE DEF paused
    <3>1. i + 1 \in Nat
      OBVIOUS
    <3> QED
      BY <2>1, <3>1, ClosedType
  <2>3. Unvoiced(st, i, ms) \in {paused, Closed(paused, i + 1, ms)}
    BY <1>5 DEF Unvoiced
  <2> QED
    BY <2>1, <2>2, <2>3
<1> QED
  BY <1>3, <1>4, <1>5

(* What is left of a scan after its last chunk.                              *)
Ended(st, n, ms) == IF st.open.long THEN Closed(st, n, ms) ELSE st

(* The scan after each chunk.                                                *)
ScanOf(F, sound, ms) ==
    /\ F[0] = [segments |-> <<>>, confirmed |-> 0, open |-> Quiet]
    /\ \A n \in 1..Len(sound) :
         F[n] = IF sound[n] THEN Voiced(F[n - 1], n - 1, ms) ELSE Unvoiced(F[n - 1], n - 1, ms)
    /\ \A n \in 0..Len(sound) : F[n] \in Scans(ms)

(* Voice detection is what is left of such a scan.                           *)
LEMMA AggregatedIs ==
  ASSUME NEW sound \in Seq(BOOLEAN), NEW ms \in Nat
  PROVE  \E F : /\ ScanOf(F, sound, ms)
                /\ Ended(F[Len(sound)], Len(sound), ms) \in Scans(ms)
                /\ Aggregated(sound, ms).segments = Ended(F[Len(sound)], Len(sound), ms).segments
                /\ Aggregated(sound, ms).confirmed = Ended(F[Len(sound)], Len(sound), ms).confirmed
<1> DEFINE N == Len(sound)
           first == [segments |-> <<>>, confirmed |-> 0, open |-> Quiet]
           Onward(n, x) == IF sound[n] THEN Voiced(x, n - 1, ms) ELSE Unvoiced(x, n - 1, ms)
           Body(f) == [n \in 0..N |->
                        IF n = 0 THEN [segments |-> <<>>, confirmed |-> 0, open |-> Quiet]
                        ELSE IF sound[n] THEN Voiced(f[n - 1], n - 1, ms)
                        ELSE Unvoiced(f[n - 1], n - 1, ms)]
           step == [n \in 1..N |-> [x \in Scans(ms) |-> Onward(n, x)]]
           F == CHOOSE f : f = Body(f)
           end == F[N]
           all == IF end.open.long THEN Closed(end, N, ms) ELSE end
<1>1. N \in Nat
  OBVIOUS
<1>2. first \in Scans(ms)
  <2>1. Quiet \in Candidates
    BY DEF Quiet, Candidates
  <2>2. <<>> \in Segments(ms)
    BY DEF Segments
  <2> QED
    BY <2>1, <2>2 DEF Scans
<1>3. ASSUME NEW n \in 1..N, NEW x \in Scans(ms)
      PROVE  Onward(n, x) \in Scans(ms)
  <2>1. n - 1 \in Nat
    BY <1>1
  <2>2. Voiced(x, n - 1, ms) \in Scans(ms) /\ Unvoiced(x, n - 1, ms) \in Scans(ms)
    BY <2>1, VoicedType, UnvoicedType
  <2> QED
    BY <2>2
<1>4. PICK f : Recursive(f, Scans(ms), N, first, step)
  <2>1. \A n \in 1..N : \A x \in Scans(ms) : step[n][x] \in Scans(ms)
    BY <1>3
  <2> HIDE DEF step, N, first
  <2> QED
    BY <1>1, <1>2, <2>1, Recursion
<1>5. ASSUME NEW n \in 1..N
      PROVE  f[n] = Onward(n, f[n - 1])
  <2>1. n - 1 \in 0..N
    OBVIOUS
  <2>2. f[n] = step[n][f[n - 1]] /\ f[n - 1] \in Scans(ms)
    <3> HIDE DEF step, N
    <3> QED
      BY <1>4, <2>1 DEF Recursive
  <2> HIDE DEF Onward
  <2> QED
    BY <2>2
<1>6. f = Body(f)
  <2>1. f[0] = first /\ f = [n \in 0..N |-> f[n]]
    <3> HIDE DEF first, N
    <3> QED
      BY <1>4 DEF Recursive
  <2>2. ASSUME NEW n \in 0..N
        PROVE  f[n] = IF n = 0 THEN first ELSE Onward(n, f[n - 1])
    <3>1. n = 0 \/ n \in 1..N
      OBVIOUS
    <3> HIDE DEF first, N, Onward
    <3> QED
      BY <1>5, <2>1, <3>1
  <2>3. Body(f) = [n \in 0..N |-> IF n = 0 THEN first ELSE Onward(n, f[n - 1])]
    OBVIOUS
  <2> HIDE DEF first, Onward, Body, N
  <2> QED
    BY <2>1, <2>2, <2>3
<1>7. F = Body(F)
  <2> HIDE DEF Body
  <2> QED
    BY <1>6
<1>8. F = [n \in 0..N |-> IF n = 0 THEN first ELSE Onward(n, F[n - 1])]
  BY <1>7
<1>9. Aggregated(sound, ms) = [segments |-> all.segments, confirmed |-> all.confirmed]
  BY DEF Aggregated
<1> HIDE DEF F, first, Onward
<1>10. \A n \in 0..N : n \in {m \in 0..N : F[m] \in Scans(ms)}
  <2> DEFINE D == {m \in 0..N : F[m] \in Scans(ms)}
  <2>1. 0 \in D
    <3>1. 0 \in 0..N /\ F[0] = first
      BY <1>1, <1>8
    <3> QED
      BY <1>2, <3>1
  <2>2. ASSUME NEW n \in 1..N, n - 1 \in D
        PROVE  n \in D
    <3>1. n \in 0..N /\ n # 0 /\ F[n - 1] \in Scans(ms)
      BY <1>1, <2>2
    <3>2. F[n] = Onward(n, F[n - 1])
      BY <1>8, <3>1
    <3> QED
      BY <1>3, <3>1, <3>2
  <2> HIDE DEF D
  <2>3. \A n \in 0..N : n \in D
    <3> HIDE DEF N
    <3> QED
      BY <1>1, <2>1, <2>2, Induct
  <2> QED
    BY <2>3 DEF D
<1>11. end \in Scans(ms)
  BY <1>1, <1>10
<1>12. all \in Scans(ms)
  <2> HIDE DEF end, N
  <2>1. CASE end.open.long
    <3>1. end.open \in Candidates
      BY <1>11 DEF Scans
    <3>2. end.open.start \in Nat
      BY <2>1, <3>1 DEF Candidates
    <3> QED
      BY <1>1, <1>11, <2>1, <3>2, ClosedType
  <2>2. CASE ~end.open.long
    BY <1>11, <2>2
  <2> QED
    BY <2>1, <2>2
<1>13. ScanOf(F, sound, ms)
  <2>1. F[0] = first
    BY <1>1, <1>8
  <2>2. \A n \in 1..N : F[n] = Onward(n, F[n - 1])
    <3> TAKE n \in 1..N
    <3>1. n \in 0..N /\ n # 0
      BY <1>1
    <3> QED
      BY <1>8, <3>1
  <2>3. \A n \in 0..N : F[n] \in Scans(ms)
    BY <1>10
  <2> QED
    BY <2>1, <2>2, <2>3 DEF ScanOf, first, Onward
<1>14. all = Ended(F[N], N, ms)
  BY DEF Ended
<1> HIDE DEF all
<1>15. /\ Aggregated(sound, ms).segments = all.segments
       /\ Aggregated(sound, ms).confirmed = all.confirmed
  BY <1>9
<1> QED
  BY <1>12, <1>13, <1>14, <1>15

(* What the scan makes of a sound lies apart, in order and within it.        *)
LEMMA AggregatedType ==
  ASSUME NEW sound \in Seq(BOOLEAN), NEW ms \in Nat
  PROVE  Aggregated(sound, ms).segments \in Segments(ms)
BY AggregatedIs DEF Scans

(* A clip of its first elements is a sequence again.                         *)
LEMMA SoundType ==
  ASSUME NEW m \in Medium, m.ms \in Nat
  PROVE  Sound(m) \in Seq(BOOLEAN) /\ SoundMs(m) \in Nat /\ SoundMs(m) <= m.ms
<1>1. m.sound \in Seq(BOOLEAN) /\ m.soundMs \in Nat
  BY DEF Medium
<1>2. SoundMs(m) \in Nat /\ SoundMs(m) <= m.ms
  BY <1>1, UpToIs DEF SoundMs
<1> DEFINE n == Len(m.sound)
           u == UpTo(m.soundMs, m.ms)
           k == (u + Chunk - 1) \div Chunk
<1>3. n \in Nat /\ m.soundMs <= n * Chunk /\ Chunk \in Nat \ {0}
  BY <1>1, AnalysisAssumption DEF Medium
<1>4. u \in Nat /\ u <= m.soundMs
  BY <1>1, UpToIs
<1> HIDE DEF n, u
<1>5. k \in Int /\ k * Chunk <= u + Chunk - 1
  BY <1>3, <1>4, Z3
<1> HIDE DEF k
<1>6. k <= n
  <2> SUFFICES ASSUME k >= n + 1 PROVE FALSE
    BY <1>3, <1>5
  <2>1. (k - (n + 1)) * Chunk >= 0 /\ (k - (n + 1)) * Chunk = k * Chunk - n * Chunk - Chunk
    BY <1>3, <1>5, Z3
  <2>2. k * Chunk \in Int /\ n * Chunk \in Int
    BY <1>3, <1>5
  <2> QED
    BY <1>1, <1>3, <1>4, <1>5, <2>1, <2>2
<1>7. SubSeq(m.sound, 1, k) \in Seq(BOOLEAN)
  <2>1. CASE k >= 0
    <3>1. 1 \in 1..(Len(m.sound) + 1) /\ k \in 0..Len(m.sound)
      BY <1>1, <1>3, <1>5, <1>6, <2>1 DEF n
    <3> QED
      BY <1>1, <3>1, SubSeqProperties
  <2>2. CASE k < 0
    BY <1>1, <1>5, <2>2, SubSeqEmpty
  <2> QED
    BY <1>5, <2>1, <2>2
<1>8. Sound(m) = SubSeq(m.sound, 1, k)
  BY DEF Sound, k, u
<1> QED
  BY <1>2, <1>7, <1>8

(* A segment within the sound touches one of the stretches to transcribe.    *)
LEMMA BatchesTouch ==
  ASSUME NEW ms \in Nat, NEW ss \in Segments(ms), ss # <<>>
  PROVE  IsFiniteSet(Batches(ss, ms)) /\ Batches(ss, ms) # {}
<1> DEFINE K == 0..((ms - 1) \div BatchMs)
           all == {k * BatchMs : k \in K}
           from == ss[1][1]
           to == ss[1][2]
           k == from \div BatchMs
<1>1. BatchMs \in Nat \ {0}
  BY AnalysisAssumption
<1>2. 1 \in DOMAIN ss /\ from \in Nat /\ to \in Nat /\ from < to /\ to <= ms
  <2>1. ss \in Seq(Nat \X Nat) /\ \A i \in DOMAIN ss : ss[i][1] < ss[i][2] /\ ss[i][2] <= ms
    BY DEF Segments
  <2>2. 1 \in DOMAIN ss /\ ss[1] \in Nat \X Nat
    BY <2>1
  <2> QED
    BY <2>1, <2>2
<1> HIDE DEF from, to
<1>3. k \in Nat /\ k * BatchMs <= from /\ from < k * BatchMs + BatchMs
  BY <1>1, <1>2, Z3
<1>4. k <= (ms - 1) \div BatchMs
  <2> DEFINE q == (ms - 1) \div BatchMs
  <2>1. q \in Int /\ ms - 1 < q * BatchMs + BatchMs
    BY <1>1, Z3
  <2> HIDE DEF q, k
  <2>2. k * BatchMs < q * BatchMs + BatchMs
    BY <1>1, <1>2, <1>3, <2>1
  <2>3. k < q + 1
    <3> SUFFICES ASSUME k >= q + 1 PROVE FALSE
      BY <1>3, <2>1
    <3>1. (k - (q + 1)) * BatchMs >= 0
      BY <1>1, <1>3, <2>1, Z3
    <3>2. (k - (q + 1)) * BatchMs = k * BatchMs - q * BatchMs - BatchMs
      BY <1>1, <1>3, <2>1, Z3
    <3> QED
      BY <1>1, <1>3, <2>1, <2>2, <3>1, <3>2, Z3
  <2> QED
    BY <1>3, <2>1, <2>3 DEF q
<1>5. UpTo(ms, k * BatchMs + BatchMs) > from
  BY <1>1, <1>2, <1>3, UpToIs
<1>6. k \in K
  BY <1>3, <1>4
<1> HIDE DEF k, K
<1>7. k * BatchMs \in Batches(ss, ms)
  <2>1. k * BatchMs \in all
    BY <1>6
  <2>2. ss[1][1] < UpTo(ms, k * BatchMs + BatchMs) /\ ss[1][2] > k * BatchMs
    BY <1>1, <1>2, <1>3, <1>5 DEF from, to
  <2> QED
    BY <1>2, <2>1, <2>2 DEF Batches, K
<1>8. IsFiniteSet(all)
  <2>1. (ms - 1) \div BatchMs \in Int
    BY <1>1
  <2>2. IsFiniteSet(K)
    BY <2>1, FS_Interval DEF K
  <2> DEFINE f == [j \in K |-> j * BatchMs]
  <2>3. f \in Surjection(K, all)
    BY DEF Surjection
  <2> HIDE DEF f, all
  <2> QED
    BY <2>2, <2>3, FS_Surjection
<1>9. Batches(ss, ms) \subseteq all
  BY DEF Batches, K
<1> QED
  BY <1>7, <1>8, <1>9, FS_Subset

(* A transcript has a word at least.                                          *)
LEMMA TranscribedIsPositive ==
  ASSUME NEW m \in Medium, m.words > 0, NEW B, IsFiniteSet(B), B # {}
  PROVE  Transcribed(m, B) \in Nat \ {0}
<1>1. Cardinality(B) \in Nat /\ Cardinality(B) # 0
  BY FS_CardinalityType, FS_EmptySet
<1>2. m.words \in Nat
  BY DEF Medium
<1>3. Cardinality(B) * m.words \in Nat /\ Cardinality(B) * m.words >= 1
  <2>1. \A a, b \in Nat : a > 0 /\ b > 0 => a * b \in Nat /\ a * b >= 1
    BY Z3
  <2> QED
    BY <1>1, <1>2, <2>1
<1> QED
  BY <1>1, <1>3 DEF Transcribed

Analyses == [shots : Seq(Nat), speech : Seq(Nat \X Nat), chars : Nat, wording : Forms,
             description : Text \cup {Unknown}, tags : Seq(Text), dated : BOOLEAN, by : {"ai", "user"}]

(* What each check of a material asks of an analysis of it.                  *)
Suits(f, a) == SpeechOk(f, a) /\ BoundariesOk(f, a) /\ DescriptionOk(a)

(* The stand-in is just long enough for what was found, and short enough.    *)
LEMMA StandInOk ==
  ASSUME NEW f, NEW a \in Analyses, SpeechOk(f, a), BoundariesOk(f, a), DescriptionOk(a),
         a.speech # <<>> \/ a.shots # <<>> => Lasts(f)
  PROVE  MaterialOk(StandIn(a), a)
<1> DEFINE g == StandIn(a)
           E == {a.speech[i][2] : i \in DOMAIN a.speech}
           C == {a.shots[i] + 1 : i \in DOMAIN a.shots}
           S == {1} \cup E \cup C
<1>1. a.shots \in Seq(Nat) /\ a.speech \in Seq(Nat \X Nat)
  BY DEF Analyses
<1>2. MaxMediumMs \in Nat /\ MaxMediumMs >= 1 /\ MaxEdge \in Nat /\ MaxEdge >= 1 /\ Unknown \notin Int
      /\ Unknown \notin Kinds
  BY AnalysisAssumption
<1>3. /\ \A i \in DOMAIN a.speech : a.speech[i] \in Nat \X Nat
      /\ \A i \in DOMAIN a.shots : a.shots[i] \in Nat
      /\ DOMAIN a.speech # {} => a.speech # <<>>
      /\ DOMAIN a.shots # {} => a.shots # <<>>
  BY <1>1
<1>4. \A x \in E : x \in Nat /\ x <= MaxMediumMs
  <2> SUFFICES ASSUME NEW i \in DOMAIN a.speech
               PROVE  a.speech[i][2] \in Nat /\ a.speech[i][2] <= MaxMediumMs
    OBVIOUS
  <2>1. a.speech # <<>>
    BY <1>3
  <2>2. f.ms # Unknown /\ f.ms \in 1..MaxMediumMs
    BY <2>1 DEF Lasts
  <2>3. a.speech[i][2] <= f.ms
    BY <2>1, <2>2 DEF SpeechOk
  <2> QED
    BY <1>2, <1>3, <2>2, <2>3
<1>5. \A x \in C : x \in Nat /\ x <= MaxMediumMs
  <2> SUFFICES ASSUME NEW i \in DOMAIN a.shots
               PROVE  a.shots[i] + 1 \in Nat /\ a.shots[i] + 1 <= MaxMediumMs
    OBVIOUS
  <2>1. a.shots # <<>>
    BY <1>3
  <2>2. f.ms # Unknown /\ f.ms \in 1..MaxMediumMs
    BY <2>1 DEF Lasts
  <2>3. a.shots[i] < f.ms
    BY <2>1, <2>2 DEF BoundariesOk
  <2> QED
    BY <1>2, <1>3, <2>2, <2>3
<1>6. /\ g.kind = "video" /\ g.edge = 1 /\ g.audio = (a.speech # <<>>)
      /\ g.loudness = Unknown /\ g.ms = Max(S)
  BY DEF StandIn
<1>7. S \in SUBSET Nat /\ S # {} /\ \A x \in S : x <= MaxMediumMs
  <2> HIDE DEF E, C
  <2>1. \A x \in S : x = 1 \/ x \in E \/ x \in C
    OBVIOUS
  <2>2. \A x \in S : x \in Nat /\ x <= MaxMediumMs
    BY <1>2, <1>4, <1>5, <2>1
  <2>3. 1 \in S
    OBVIOUS
  <2> HIDE DEF S
  <2> QED
    BY <2>2, <2>3
<1>8. \A i \in DOMAIN a.speech : a.speech[i][2] \in S
  OBVIOUS
<1>9. \A i \in DOMAIN a.shots : a.shots[i] + 1 \in S
  OBVIOUS
<1>10. 1 \in S
  OBVIOUS
<1> HIDE DEF S, g, E, C
<1>11. Max(S) \in S /\ \A x \in S : x <= Max(S)
  BY <1>2, <1>7, MaxOf
<1>12. g.ms \in 1..MaxMediumMs /\ g.ms # Unknown
  <2>1. Max(S) \in Nat /\ Max(S) <= MaxMediumMs /\ 1 <= Max(S)
    BY <1>7, <1>10, <1>11
  <2> QED
    BY <1>2, <1>6, <2>1
<1>13. Edge(g) /\ Lasts(g)
  BY <1>2, <1>6, <1>12 DEF Edge, Lasts
<1>14. SpeechOk(g, a)
  <2>1. CASE a.speech = <<>>
    BY <2>1 DEF SpeechOk
  <2>2. CASE a.speech # <<>>
    <3>1. /\ a.chars \in 1..MaxTranscript /\ a.wording # "ill" /\ Len(a.speech) <= MaxPieces
          /\ \A i \in DOMAIN a.speech :
               /\ (IF i = 1 THEN 0 ELSE a.speech[i - 1][2]) <= a.speech[i][1]
               /\ a.speech[i][1] < a.speech[i][2]
      BY <2>2 DEF SpeechOk
    <3>2. \A i \in DOMAIN a.speech : a.speech[i][2] <= g.ms
      BY <1>6, <1>8, <1>11
    <3>3. g.audio
      BY <1>6, <2>2
    <3> QED
      BY <2>2, <3>1, <3>2, <3>3 DEF SpeechOk
  <2> QED
    BY <2>1, <2>2
<1>15. BoundariesOk(g, a)
  <2> SUFFICES ASSUME a.shots # <<>>
               PROVE  /\ g.kind # "audio" /\ g.ms # Unknown /\ Len(a.shots) <= MaxPieces
                      /\ \A i \in DOMAIN a.shots :
                           /\ (IF i = 1 THEN -1 ELSE a.shots[i - 1]) < a.shots[i]
                           /\ a.shots[i] < g.ms
    BY DEF BoundariesOk
  <2>1. /\ Len(a.shots) <= MaxPieces
        /\ \A i \in DOMAIN a.shots : (IF i = 1 THEN -1 ELSE a.shots[i - 1]) < a.shots[i]
    BY DEF BoundariesOk
  <2>2. \A i \in DOMAIN a.shots : a.shots[i] < g.ms
    BY <1>3, <1>6, <1>9, <1>11, <1>12
  <2> QED
    BY <1>6, <1>12, <2>1, <2>2
<1>16. MaterialOk(g, a)
  BY <1>6, <1>13, <1>14, <1>15 DEF MaterialOk
<1> QED
  BY <1>16 DEF g

-----------------------------------------------------------------------------
(* What a material accepts, the shell accepts.                               *)
LEMMA ShellAgrees ==
  ASSUME NEW f, NEW a \in Analyses, Suits(f, a)
  PROVE  ShellOk(a)
<1>1. a.shots \in Seq(Nat) /\ a.speech \in Seq(Nat \X Nat) /\ a.by \in {"ai", "user"}
  BY DEF Analyses
<1>2. MaxPieces \in Nat
  BY AnalysisAssumption
<1>3. /\ Len(a.speech) <= MaxPieces
      /\ a.speech # <<>> => a.chars \in 1..MaxTranscript /\ a.wording # "ill"
      /\ \A i \in DOMAIN a.speech : /\ a.speech[i][1] < a.speech[i][2]
                                    /\ i > 1 => a.speech[i - 1][2] <= a.speech[i][1]
  <2>1. CASE a.speech = <<>>
    BY <1>2, <2>1
  <2>2. CASE a.speech # <<>>
    <3>1. /\ Len(a.speech) <= MaxPieces /\ a.chars \in 1..MaxTranscript /\ a.wording # "ill"
          /\ \A i \in DOMAIN a.speech :
               /\ (IF i = 1 THEN 0 ELSE a.speech[i - 1][2]) <= a.speech[i][1]
               /\ a.speech[i][1] < a.speech[i][2]
      BY <2>2 DEF Suits, SpeechOk
    <3>2. \A i \in DOMAIN a.speech : i > 1 => i # 1
      BY <1>1
    <3>3. \A i \in DOMAIN a.speech : i > 1 => a.speech[i - 1][2] <= a.speech[i][1]
      BY <3>1, <3>2
    <3> QED
      BY <3>1, <3>3
  <2> QED
    BY <2>1, <2>2
<1>4. /\ Len(a.shots) <= MaxPieces
      /\ \A i \in DOMAIN a.shots : i > 1 => a.shots[i - 1] < a.shots[i]
  <2>1. CASE a.shots = <<>>
    BY <1>2, <2>1
  <2>2. CASE a.shots # <<>>
    <3>1. /\ Len(a.shots) <= MaxPieces
          /\ \A i \in DOMAIN a.shots : (IF i = 1 THEN -1 ELSE a.shots[i - 1]) < a.shots[i]
      BY <2>2 DEF Suits, BoundariesOk
    <3>2. \A i \in DOMAIN a.shots : i > 1 => i # 1
      BY <1>1
    <3>3. \A i \in DOMAIN a.shots : i > 1 => a.shots[i - 1] < a.shots[i]
      BY <3>1, <3>2
    <3> QED
      BY <3>1, <3>3
  <2> QED
    BY <2>1, <2>2
<1>5. /\ a.description # Unknown => TextOk(a.description, MaxDescription)
      /\ TagsOk(a.tags)
      /\ a.description = Unknown => a.tags = <<>> /\ ~a.dated /\ a.by = "ai"
      /\ a.description # Unknown /\ a.by = "ai" => a.dated
      /\ a.by = "user" => a.tags = <<>> /\ ~a.dated
  BY DEF Suits, DescriptionOk
<1> QED
  BY <1>1, <1>3, <1>4, <1>5 DEF ShellOk

(* What is told well is a candidate, unless a tag is laid out.               *)
LEMMA CandidateUnlessLaidOut ==
  ASSUME NEW a \in Analyses, DescriptionOk(a), a.description # Unknown, ~CandidateOk(a)
  PROVE  \E i \in DOMAIN a.tags : a.tags[i].form = "layout"
<1>1. TextOk(a.description, MaxDescription) /\ TagsOk(a.tags) /\ a.tags \in Seq(Text)
  BY DEF DescriptionOk, Analyses
<1>2. PICK i \in DOMAIN a.tags : a.tags[i].form # "plain"
  BY <1>1 DEF CandidateOk
<1>3. a.tags[i] \in Text /\ a.tags[i].form # "ill"
  BY <1>1 DEF TagsOk, TextOk
<1> QED
  BY <1>2, <1>3 DEF Text, Forms

-----------------------------------------------------------------------------
(* The way of one file *)

Known == {"understood", "analysed", "prepared", "matched"}
Way == {"probed", "registered", "described", "proved", "framed"} \cup Known

(* A person has described the file, and nothing else is known of it.         *)
OnlyDescribed(f, a) ==
    /\ a \in Analyses /\ Suits(f, a)
    /\ a.by = "user" /\ a.description # Unknown /\ a.shots = <<>> /\ a.speech = <<>> /\ a.chars = 0

MediaInv ==
    /\ DownstreamAccepts
    /\ phase = "file" => medium \in Media /\ analysis = Unanalysed
    /\ phase \in Way => medium \in Media /\ Usable(medium) /\ facts = ProbedFacts(medium)
    /\ phase \in {"probed", "registered", "framed"} => analysis = Unanalysed
    /\ phase \in {"described", "proved"} => analysis = Unanalysed \/ OnlyDescribed(facts, analysis)
    /\ phase \in {"proved", "framed"} \cup Known => facts.kind # "audio"
    /\ phase = "understood" => analysis.speech = <<>> /\ analysis.chars = 0
    /\ phase \in Known => analysis \in Analyses /\ Suits(facts, analysis) /\ analysis.description # Unknown

(* The constants of the media are numbers.                                    *)
LEMMA MediaTypes ==
  /\ \A m \in Media : m \in Medium
  /\ Unknown \notin Int /\ Unknown \notin Kinds /\ Unknown \notin Refusals
BY AnalysisAssumption

(* Nothing found is nothing to refuse.                                        *)
LEMMA UnanalysedOk ==
  /\ Unanalysed \in Analyses /\ Unanalysed.speech = <<>> /\ Unanalysed.chars = 0
  /\ Unanalysed.shots = <<>> /\ Unanalysed.by = "ai"
  /\ \A f : Suits(f, Unanalysed)
<1>1. /\ Unanalysed.speech = <<>> /\ Unanalysed.chars = 0
      /\ Unanalysed.shots = <<>> /\ Unanalysed.by = "ai"
  BY DEF Unanalysed
<1>2. Unanalysed \in Analyses
  <2>1. <<>> \in Seq(Nat) /\ <<>> \in Seq(Nat \X Nat) /\ <<>> \in Seq(Text)
    OBVIOUS
  <2> QED
    BY <2>1 DEF Unanalysed, Analyses, Forms
<1> QED
  BY <1>1, <1>2, NothingSaid DEF SpeechOk, BoundariesOk, Suits

(* Probing states facts no later check refuses.                               *)
LEMMA ProbeKeeps ==
  ASSUME MediaInv, Probe
  PROVE  MediaInv'
<1>1. phase = "file" /\ medium \in Media /\ medium \in Medium /\ analysis = Unanalysed
  BY MediaTypes DEF MediaInv, Probe
<1>2. CASE ProbeRefusal(medium) # Unknown
  <2>1. phase' = ProbeRefusal(medium) /\ ProbeRefusal(medium) \in Refusals
    BY <1>1, <1>2, ProbeRefusalIs DEF Probe, Refused
  <2> QED
    BY <2>1 DEF MediaInv, DownstreamAccepts, Way, Refusals, Known
<1>3. CASE ProbeRefusal(medium) = Unknown
  <2>1. phase' = "probed" /\ facts' = ProbedFacts(medium) /\ medium' = medium /\ analysis' = analysis
    BY <1>3 DEF Probe
  <2>2. Usable(medium)
    BY <1>1, <1>3, ProbeRefusalIs
  <2> QED
    BY <1>1, <2>1, <2>2 DEF MediaInv, DownstreamAccepts, Way, Known
<1> QED
  BY <1>2, <1>3

(* The probed facts, wherever they are still on their way.                   *)
LEMMA FactsOnTheWay ==
  ASSUME MediaInv, phase \in Way
  PROVE  /\ medium \in Medium /\ facts = ProbedFacts(medium) /\ FactsOk(facts)
         /\ facts.kind = Kind(medium) /\ facts.kind \in Kinds
         /\ facts.kind # "image" => facts.ms = medium.ms /\ Lasts(facts)
<1>1. medium \in Medium /\ Usable(medium) /\ facts = ProbedFacts(medium)
  BY MediaTypes DEF MediaInv
<1>2. FactsOk(facts) /\ facts.kind = Kind(medium) /\ (Kind(medium) # "image" => facts.ms = medium.ms)
  BY <1>1, ProbedFactsOk
<1>3. facts.kind # "image" => Lasts(facts)
  BY <1>2 DEF FactsOk, DocumentOk
<1> QED
  BY <1>1, <1>2, <1>3 DEF FactsOk, Kinds

(* Facts that were stated are registered.                                     *)
LEMMA RegisterKeeps ==
  ASSUME MediaInv, Register
  PROVE  MediaInv'
<1>1. phase = "probed" /\ FactsOk(facts)
  BY FactsOnTheWay DEF Register, Way
<1>2. phase' = "registered" /\ UNCHANGED <<medium, facts, frames, voice, analysis>>
  BY <1>1 DEF Register, FactsOk
<1> QED
  BY <1>1, <1>2 DEF MediaInv, DownstreamAccepts, Way, Known

(* A person's words are taken or refused at once.                             *)
LEMMA DescribeKeeps ==
  ASSUME MediaInv, Describe
  PROVE  MediaInv'
<1> DEFINE told == [analysis EXCEPT !.description = medium.description, !.by = "user"]
<1>1. phase = "registered" /\ phase \in Way /\ analysis = Unanalysed /\ medium \in Medium
  BY MediaTypes DEF MediaInv, Describe, Way
<1>2. CASE phase' = "description_rejected"
  BY <1>2 DEF MediaInv, DownstreamAccepts, Way, Known
<1>3. CASE phase' # "description_rejected"
  <2>1. /\ MaterialOk(facts, told) /\ analysis' = told /\ phase' = "described"
        /\ medium' = medium /\ facts' = facts
    BY <1>3 DEF Describe, Refused
  <2>2. medium.description \in Text /\ Unknown \notin Text
    BY <1>1, AnalysisAssumption DEF Medium
  <2>3. /\ told \in Analyses /\ told.by = "user" /\ told.description = medium.description
        /\ told.shots = <<>> /\ told.speech = <<>> /\ told.chars = 0
    <3>0. told = [Unanalysed EXCEPT !.description = medium.description, !.by = "user"]
      BY <1>1
    <3> HIDE DEF told
    <3>1. told = [shots |-> <<>>, speech |-> <<>>, chars |-> 0, wording |-> "plain",
                  description |-> medium.description, tags |-> <<>>, dated |-> FALSE, by |-> "user"]
      BY <3>0 DEF Unanalysed
    <3>2. /\ <<>> \in Seq(Nat) /\ <<>> \in Seq(Nat \X Nat) /\ <<>> \in Seq(Text)
          /\ "plain" \in Forms
      BY DEF Forms
    <3>3. told \in Analyses
      BY <2>2, <3>1, <3>2 DEF Analyses
    <3> QED
      BY <3>1, <3>3
  <2> HIDE DEF told
  <2>4. Suits(facts, told)
    BY <2>1 DEF MaterialOk, Suits
  <2>5. OnlyDescribed(facts', analysis')
    BY <2>1, <2>2, <2>3, <2>4 DEF OnlyDescribed
  <2> QED
    BY <1>1, <2>1, <2>5 DEF MediaInv, DownstreamAccepts, Way, Known
<1> QED
  BY <1>2, <1>3

(* Sound alone goes no further than the proof of the source.                  *)
LEMMA ProveSourceKeeps ==
  ASSUME MediaInv, ProveSource
  PROVE  MediaInv'
<1>1. phase \in {"registered", "described"} /\ medium' = medium /\ facts' = facts /\ analysis' = analysis
  BY DEF ProveSource, Refused
<1>2. phase' = "source_rejected" \/ (phase' = "proved" /\ facts.kind # "audio")
  BY DEF ProveSource, Refused
<1>3. analysis = Unanalysed \/ OnlyDescribed(facts, analysis)
  BY <1>1 DEF MediaInv
<1>4. OnlyDescribed(facts, analysis) => OnlyDescribed(facts', analysis')
  BY <1>1
<1> QED
  BY <1>1, <1>2, <1>3, <1>4 DEF MediaInv, DownstreamAccepts, Way, Known

(* Frames are found or the file is refused.                                   *)
LEMMA ExtractFramesKeeps ==
  ASSUME MediaInv, ExtractFrames
  PROVE  MediaInv'
<1>1. phase = "proved" /\ phase \in Way /\ (analysis = Unanalysed \/ OnlyDescribed(facts, analysis))
  BY DEF MediaInv, ExtractFrames, Way
<1>2. phase' \in {"understood", "frames_failed", "frames_undecodable", "framed"}
      /\ medium' = medium /\ facts' = facts /\ analysis' = analysis
      /\ (phase' = "understood" <=> analysis.by = "user")
  BY DEF ExtractFrames, Refused
<1>3. CASE analysis = Unanalysed
  BY <1>1, <1>2, <1>3, UnanalysedOk DEF MediaInv, DownstreamAccepts, Way, Known
<1>4. CASE OnlyDescribed(facts, analysis)
  <2>1. phase' # "framed"
    BY <1>2, <1>4 DEF OnlyDescribed, ExtractFrames, Refused
  <2>2. Suits(facts', analysis')
    BY <1>2, <1>4 DEF OnlyDescribed
  <2> QED
    BY <1>1, <1>2, <1>4, <2>1, <2>2 DEF MediaInv, DownstreamAccepts, OnlyDescribed, Way, Known
<1> QED
  BY <1>1, <1>3, <1>4

(* The beginnings of the shots the model names lie in order in the picture.   *)
LEMMA UnderstoodShots ==
  ASSUME NEW m \in Medium, NEW f, UnderstandingOk(m.shots, f.ms), f.ms # Unknown, f.ms \in Int,
         f.kind # "audio", NEW a, a.shots = [i \in DOMAIN m.shots |-> m.shots[i][1]]
  PROVE  a.shots \in Seq(Nat) /\ BoundariesOk(f, a)
<1> DEFINE s == m.shots
<1>1. s \in Seq(Int \X Int) /\ s # <<>>
  BY DEF Medium, UnderstandingOk
<1>2. \A i \in DOMAIN s : s[i] \in Int \X Int
        /\ (IF i = 1 THEN 0 ELSE s[i - 1][2]) <= s[i][1] /\ s[i][1] < s[i][2] /\ s[i][2] <= f.ms
  BY <1>1 DEF UnderstandingOk
<1>3. DOMAIN s = 1..Len(s) /\ Len(s) \in Nat
  BY <1>1
<1> HIDE DEF s
<1> DEFINE t == [i \in DOMAIN s |-> s[i][1]]
           D == {n \in 0..Len(s) : n > 0 => t[n] \in Nat}
<1>4. \A n \in 0..Len(s) : n \in D
  <2>1. 0 \in D
    BY <1>3
  <2>2. ASSUME NEW n \in 1..Len(s), n - 1 \in D
        PROVE  n \in D
    <3>1. n \in DOMAIN s /\ t[n] = s[n][1] /\ s[n][1] \in Int
      BY <1>2, <1>3
    <3>2. CASE n = 1
      BY <1>2, <3>1, <3>2
    <3>3. CASE n # 1
      <4>1. n - 1 \in DOMAIN s /\ t[n - 1] = s[n - 1][1] /\ t[n - 1] \in Nat
        BY <1>3, <2>2, <3>3
      <4>2. s[n - 1][1] < s[n - 1][2] /\ s[n - 1][2] <= s[n][1] /\ s[n - 1][2] \in Int
        BY <1>2, <3>1, <3>3, <4>1
      <4> QED
        BY <3>1, <4>1, <4>2
    <3> QED
      BY <3>2, <3>3
  <2> HIDE DEF D
  <2> QED
    BY <1>3, <2>1, <2>2, Induct
<1>5. t \in Seq(Nat) /\ DOMAIN t = DOMAIN s
  <2>1. DOMAIN t = DOMAIN s /\ t = [i \in DOMAIN s |-> t[i]]
    OBVIOUS
  <2>2. \A n \in 0..Len(s) : n > 0 => t[n] \in Nat
    BY <1>4
  <2> HIDE DEF t
  <2>3. \A i \in 1..Len(s) : t[i] \in Nat
    <3> TAKE i \in 1..Len(s)
    <3>1. i \in 0..Len(s) /\ i > 0
      BY <1>3
    <3> QED
      BY <2>2, <3>1
  <2> QED
    BY <1>3, <2>1, <2>3
<1>6. a.shots = t /\ Len(t) <= MaxPieces
  <2>1. a.shots = t
    BY DEF s
  <2>2. Len(s) <= MaxPieces
    BY DEF s, UnderstandingOk
  <2> HIDE DEF t
  <2> QED
    BY <1>3, <1>5, <2>1, <2>2
<1>7. ASSUME NEW i \in DOMAIN t
      PROVE  (IF i = 1 THEN -1 ELSE t[i - 1]) < t[i] /\ t[i] < f.ms
  <2>1. i \in DOMAIN s /\ t[i] = s[i][1] /\ t[i] \in Nat /\ t[i] < f.ms
    BY <1>2, <1>3, <1>4, <1>5
  <2>2. CASE i = 1
    BY <2>1, <2>2
  <2>3. CASE i # 1
    <3>1. i - 1 \in DOMAIN s /\ t[i - 1] = s[i - 1][1]
      BY <1>3, <2>1, <2>3
    <3>2. s[i - 1][1] < s[i - 1][2] /\ s[i - 1][2] <= s[i][1] /\ s[i - 1] \in Int \X Int /\ s[i] \in Int \X Int
      BY <1>2, <2>1, <2>3, <3>1
    <3> QED
      BY <2>1, <2>3, <3>1, <3>2
  <2> QED
    BY <2>2, <2>3
<1> HIDE DEF t
<1>8. BoundariesOk(f, a)
  BY <1>6, <1>7 DEF BoundariesOk
<1> QED
  BY <1>5, <1>6, <1>8

(* What the model answers is checked before it is kept.                       *)
LEMMA UnderstandKeeps ==
  ASSUME MediaInv, Understand
  PROVE  MediaInv'
<1>1. phase = "framed" /\ analysis = Unanalysed /\ facts.kind # "audio" /\ phase \in Way
  BY DEF MediaInv, Understand, Way, Known
<1>2. medium \in Medium /\ FactsOk(facts)
  BY <1>1, FactsOnTheWay
<1>3. CASE phase' = "understanding_rejected"
  BY <1>1, <1>3 DEF MediaInv, DownstreamAccepts, Way, Known
<1>4. CASE phase' # "understanding_rejected"
  <2>1. UnderstandingOk(Shots(medium, PictureMs), PictureMs) /\ NamedOk(medium)
    BY <1>4 DEF Understand, Refused
  <2> DEFINE t == IF facts.kind = "image" THEN <<>>
                  ELSE [i \in DOMAIN medium.shots |-> medium.shots[i][1]]
             u == Understood
  <2>2. u = [Unanalysed EXCEPT !.shots = t, !.description = medium.description,
                               !.tags = medium.tags, !.dated = TRUE]
    BY <1>1 DEF Understood
  <2> HIDE DEF t, u
  <2>3. u = [shots |-> t, speech |-> <<>>, chars |-> 0, wording |-> "plain",
             description |-> medium.description, tags |-> medium.tags, dated |-> TRUE, by |-> "ai"]
    BY <2>2 DEF Unanalysed
  <2>4. /\ u.shots = t /\ u.speech = <<>> /\ u.chars = 0 /\ u.description = medium.description
        /\ u.tags = medium.tags /\ u.dated = TRUE /\ u.by = "ai"
    BY <2>3
  <2>5. t \in Seq(Nat) /\ BoundariesOk(facts, u)
    <3>1. CASE facts.kind = "image"
      BY <2>4, <3>1 DEF t, BoundariesOk
    <3>2. CASE facts.kind # "image"
      <4>1. /\ facts.ms # Unknown /\ facts.ms \in Int /\ Kind(medium) # "image"
        BY <1>1, <3>2, FactsOnTheWay, AnalysisAssumption DEF Lasts
      <4>2. UnderstandingOk(medium.shots, facts.ms)
        BY <2>1, <3>2, <4>1 DEF Shots, PictureMs
      <4>3. u.shots = [i \in DOMAIN medium.shots |-> medium.shots[i][1]]
        BY <2>4, <3>2 DEF t
      <4> QED
        BY <1>1, <1>2, <2>4, <4>1, <4>2, <4>3, UnderstoodShots
    <3> QED
      BY <3>1, <3>2
  <2>6. /\ medium.description \in Text /\ medium.tags \in Seq(Text)
        /\ medium.description # Unknown
    BY <1>2, AnalysisAssumption DEF Medium
  <2>7. u \in Analyses
    <3>1. <<>> \in Seq(Nat \X Nat) /\ "plain" \in Forms
      BY DEF Forms
    <3>2. \A x \in Seq(Nat) : \A y \in Seq(Nat \X Nat) : \A w \in Forms : \A d \in Text : \A g \in Seq(Text) :
            [shots |-> x, speech |-> y, chars |-> 0, wording |-> w,
             description |-> d, tags |-> g, dated |-> TRUE, by |-> "ai"] \in Analyses
      BY DEF Analyses
    <3> QED
      BY ONLY <2>3, <2>5, <2>6, <3>1, <3>2
  <2>8. SpeechOk(facts, u)
    BY <2>4 DEF SpeechOk
  <2>9. DescriptionOk(u)
    BY <2>1, <2>4, <2>6 DEF DescriptionOk, NamedOk
  <2>10. MaterialOk(facts, u)
    BY <1>2, <2>5, <2>8, <2>9 DEF FactsOk, MaterialOk
  <2>11. analysis' = u /\ phase' = "understood" /\ medium' = medium /\ facts' = facts
    BY <1>4, <2>10 DEF Understand, Refused, u
  <2>12. Suits(facts', analysis') /\ analysis' \in Analyses /\ analysis'.description # Unknown
         /\ analysis'.speech = <<>> /\ analysis'.chars = 0
    BY <2>4, <2>5, <2>6, <2>7, <2>8, <2>9, <2>11 DEF Suits
  <2> QED
    BY <1>1, <2>11, <2>12 DEF MediaInv, DownstreamAccepts, Way, Known
<1> QED
  BY <1>3, <1>4

(* An analysis with its speech.                                               *)
WithSpeech(a, x, k, v) == [a EXCEPT !.speech = x, !.chars = k, !.wording = v]

LEMMA WithSpeechIs ==
  ASSUME NEW a \in Analyses, NEW x \in Seq(Nat \X Nat), NEW k \in Nat, NEW v \in Forms,
         NEW c, c = WithSpeech(a, x, k, v)
  PROVE  /\ c.speech = x /\ c.chars = k /\ c.wording = v /\ c.shots = a.shots
         /\ c.description = a.description /\ c.tags = a.tags
         /\ c.dated = a.dated /\ c.by = a.by /\ c \in Analyses
<1>1. a = [shots |-> a.shots, speech |-> a.speech, chars |-> a.chars, wording |-> a.wording,
           description |-> a.description, tags |-> a.tags, dated |-> a.dated, by |-> a.by]
      /\ a.shots \in Seq(Nat) /\ a.description \in Text \cup {Unknown} /\ a.tags \in Seq(Text)
      /\ a.dated \in BOOLEAN /\ a.by \in {"ai", "user"}
  BY DEF Analyses
<1>2. c = [shots |-> a.shots, speech |-> x, chars |-> k, wording |-> v,
           description |-> a.description, tags |-> a.tags, dated |-> a.dated, by |-> a.by]
  BY <1>1 DEF WithSpeech
<1>3. c \in Analyses
  BY <1>1, <1>2 DEF Analyses
<1> QED
  BY <1>2, <1>3

(* What the scan finds is speech of the material.                             *)
LEMMA AnalyzeSpeechKeeps ==
  ASSUME MediaInv, AnalyzeSpeech
  PROVE  MediaInv'
<1> DEFINE found == Aggregated(Sound(medium), SoundMs(medium))
           batches == Batches(found.segments, SoundMs(medium))
<1>1. phase = "understood" /\ analysis \in Analyses /\ facts.kind # "audio" /\ phase \in Way
      /\ SpeechOk(facts, analysis) /\ BoundariesOk(facts, analysis) /\ DescriptionOk(analysis)
      /\ analysis.description # Unknown /\ FactsOk(facts)
  BY FactsOnTheWay DEF MediaInv, AnalyzeSpeech, Way, Known, Suits
<1>2. medium' = medium /\ facts' = facts
  BY DEF AnalyzeSpeech, Refused
<1>3. CASE facts.kind = "image" \/ ~facts.audio
  <2>1. phase' = "analysed" /\ analysis' = analysis
    BY <1>3 DEF AnalyzeSpeech
  <2> QED
    BY <1>1, <1>2, <2>1 DEF MediaInv, DownstreamAccepts, Way, Known, Suits
<1>4. CASE facts.kind # "image" /\ facts.audio
  <2>1. CASE ~PcmOk(medium)
    BY <1>1, <1>4, <2>1 DEF AnalyzeSpeech, Refused, MediaInv, DownstreamAccepts, Way, Known
  <2>2. CASE PcmOk(medium)
    <3> DEFINE b == WithHeard(found, batches)
               heard == IF found.segments = <<>> THEN analysis ELSE b
    <3>1. /\ phase' \in {"speech_in_pieces", "speech_not_primary", "transcription_rejected",
                         "material_rejected", "analysed"}
          /\ phase' \in {"material_rejected", "analysed"} =>
               /\ Len(found.segments) <= MaxPieces \/ ~(Len(found.segments) > MaxPieces)
               /\ found.segments # <<>> => medium.words > 0 /\ medium.wording # "ill"
                                           /\ Transcribed(medium, batches) <= MaxTranscript
          /\ phase' = "material_rejected" => ~MaterialOk(facts, heard)
          /\ phase' = "analysed" => analysis' = heard
      BY <1>4, <2>2 DEF AnalyzeSpeech
    <3>2. CASE phase' \notin {"material_rejected", "analysed"}
      BY <1>2, <3>1, <3>2 DEF MediaInv, DownstreamAccepts, Way, Known
    <3>3. CASE phase' \in {"material_rejected", "analysed"} /\ found.segments = <<>>
      <4>1. heard = analysis
        BY <3>3
      <4>2. MaterialOk(facts, analysis)
        BY <1>1 DEF FactsOk, MaterialOk
      <4>3. phase' = "analysed" /\ analysis' = analysis
        BY <3>1, <3>3, <4>1, <4>2
      <4> QED
        BY <1>1, <1>2, <4>3 DEF MediaInv, DownstreamAccepts, Way, Known, Suits
    <3>4. CASE phase' \in {"material_rejected", "analysed"} /\ found.segments # <<>>
      <4>1. /\ medium \in Medium /\ facts.ms = medium.ms /\ Lasts(facts)
            /\ medium.ms \in Nat
        BY <1>1, <1>4, FactsOnTheWay, AnalysisAssumption DEF Lasts
      <4>2. found.segments \in Segments(SoundMs(medium)) /\ SoundMs(medium) \in Nat
            /\ SoundMs(medium) <= facts.ms
        BY <4>1, SoundType, AggregatedType
      <4> DEFINE ss == found.segments
                 n == Transcribed(medium, batches)
      <4>3. n \in 1..MaxTranscript
        <5>1. IsFiniteSet(batches) /\ batches # {}
          BY <3>4, <4>2, BatchesTouch
        <5>2. medium.words > 0 /\ n <= MaxTranscript
          BY <3>1, <3>4 DEF n
        <5> HIDE DEF batches
        <5>3. n \in Nat \ {0}
          BY <4>1, <5>1, <5>2, TranscribedIsPositive
        <5>4. MaxTranscript \in Nat
          BY AnalysisAssumption
        <5> QED
          BY <5>2, <5>3, <5>4
      <4> DEFINE w == Joined(medium, batches)
      <4>4. w \in Forms /\ w # "ill"
        <5>1. medium.wording \in Forms /\ medium.wording # "ill"
          BY <3>1, <3>4, <4>1 DEF Medium
        <5> QED
          BY <5>1 DEF Joined, Forms
      <4>5. ss \in Seq(Nat \X Nat) /\ ss # <<>> /\ Len(ss) <= MaxPieces
        <5>1. ss \in Seq(Nat \X Nat) /\ ss # <<>>
          BY <3>4, <4>2 DEF Segments
        <5>2. Len(ss) <= MaxPieces \/ ~(Len(ss) > MaxPieces)
          BY <3>1, <3>4
        <5>3. Len(ss) \in Nat /\ MaxPieces \in Nat
          BY <5>1, AnalysisAssumption
        <5> HIDE DEF ss
        <5> QED
          BY <5>1, <5>2, <5>3
      <4>6. b.speech = ss /\ b.chars = n /\ b.wording = w /\ b.shots = analysis.shots
            /\ b.description = analysis.description /\ b.tags = analysis.tags
            /\ b.dated = analysis.dated /\ b.by = analysis.by /\ b \in Analyses
        <5> HIDE DEF ss, n, w
        <5>1. ss \in Seq(Nat \X Nat) /\ n \in Nat /\ w \in Forms
          BY <4>3, <4>4, <4>5
        <5>2. b = WithSpeech(analysis, ss, n, w)
          BY Zenon DEF WithHeard, WithSpeech, ss, n, w
        <5> HIDE DEF b
        <5>3. analysis \in Analyses
          BY <1>1
        <5> QED
          BY ONLY <5>1, <5>2, <5>3, WithSpeechIs
      <4>7. ASSUME NEW i \in DOMAIN ss
            PROVE  /\ (IF i = 1 THEN 0 ELSE ss[i - 1][2]) <= ss[i][1]
                   /\ ss[i][1] < ss[i][2] /\ ss[i][2] <= facts.ms
        <5>1. i \in 1..Len(ss) /\ Len(ss) \in Nat /\ ss[i] \in Nat \X Nat
          BY <4>5
        <5>2. (i > 1 => ss[i - 1][2] < ss[i][1]) /\ ss[i][1] < ss[i][2]
              /\ ss[i][2] <= SoundMs(medium)
          BY <4>2 DEF Segments
        <5>3. facts.ms \in Int
          BY <4>1
        <5>4. ASSUME i > 1
              PROVE  ss[i - 1][2] <= ss[i][1]
          <6>1. i - 1 \in 1..Len(ss)
            BY <5>1, <5>4
          <6>2. ss[i - 1] \in Nat \X Nat
            BY <4>5, <6>1
          <6>3. ss[i - 1][2] \in Nat /\ ss[i][1] \in Nat
            BY <5>1, <6>2
          <6> QED
            BY <5>2, <5>4, <6>3
        <5> QED
          BY <4>2, <5>1, <5>2, <5>3, <5>4
      <4> HIDE DEF ss, n, w, b
      <4>8. SpeechOk(facts, b)
        BY <1>4, <4>3, <4>4, <4>5, <4>6, <4>7 DEF SpeechOk
      <4>9. BoundariesOk(facts, b)
        BY <1>1, <4>6 DEF BoundariesOk
      <4>10. DescriptionOk(b)
        BY <1>1, <4>6 DEF DescriptionOk
      <4>11. MaterialOk(facts, b)
        BY <1>1, <4>8, <4>9, <4>10 DEF FactsOk, MaterialOk
      <4>12. phase' = "analysed" /\ analysis' = b
        BY <3>1, <3>4, <4>11
      <4> QED
        BY <1>1, <1>2, <4>6, <4>8, <4>9, <4>10, <4>12 DEF MediaInv, DownstreamAccepts, Way, Known, Suits
    <3> QED
      BY <3>1, <3>2, <3>3, <3>4
  <2> QED
    BY <2>1, <2>2
<1> QED
  BY <1>3, <1>4

(* What was found on the way is what every later constructor accepts.         *)
LEMMA KnownIsAccepted ==
  ASSUME MediaInv, phase \in Known
  PROVE  /\ MaterialOk(facts, analysis) /\ MaterialOk(StandIn(analysis), analysis)
         /\ ShellOk(analysis)
<1>1. phase \in Way /\ analysis \in Analyses /\ Suits(facts, analysis)
      /\ SpeechOk(facts, analysis) /\ BoundariesOk(facts, analysis) /\ DescriptionOk(analysis)
  BY DEF MediaInv, Way, Suits
<1>2. FactsOk(facts) /\ facts.kind \in Kinds /\ (facts.kind # "image" => Lasts(facts))
  BY <1>1, FactsOnTheWay
<1>3. MaterialOk(facts, analysis)
  BY <1>1, <1>2 DEF FactsOk, MaterialOk
<1>4. analysis.speech # <<>> \/ analysis.shots # <<>> => Lasts(facts)
  <2>1. facts.kind = "image" => facts.ms = Unknown /\ ~facts.audio
    BY <1>3 DEF MaterialOk
  <2>2. analysis.speech # <<>> => facts.audio
    BY <1>1 DEF SpeechOk
  <2>3. analysis.shots # <<>> => facts.ms # Unknown
    BY <1>1 DEF BoundariesOk
  <2> QED
    BY <1>2, <2>1, <2>2, <2>3
<1>5. MaterialOk(StandIn(analysis), analysis)
  BY <1>1, <1>4, StandInOk
<1> QED
  BY <1>1, <1>3, <1>5, ShellAgrees

(* The snapshot is taken.                                                     *)
LEMMA SnapshotKeeps ==
  ASSUME MediaInv, Snapshot
  PROVE  MediaInv'
<1>1. phase = "analysed" /\ phase \in Known
  BY DEF Snapshot, Known
<1>2. phase' = "prepared" /\ UNCHANGED <<medium, facts, frames, voice, analysis>>
  BY <1>1, KnownIsAccepted DEF Snapshot
<1> QED
  BY <1>1, <1>2 DEF MediaInv, DownstreamAccepts, Way, Known

(* A script is matched with it, unless a tag is laid out.                     *)
LEMMA MatchScriptKeeps ==
  ASSUME MediaInv, MatchScript
  PROVE  MediaInv'
<1>1. phase = "prepared" /\ phase \in Known /\ UNCHANGED <<medium, facts, frames, voice, analysis>>
  BY DEF MatchScript, Known, Refused
<1>2. analysis \in Analyses /\ DescriptionOk(analysis) /\ analysis.description # Unknown
  BY <1>1 DEF MediaInv, Suits
<1>3. CASE phase' = "matched"
  BY <1>1, <1>3 DEF MediaInv, DownstreamAccepts, Way, Known
<1>4. CASE phase' # "matched"
  <2>1. phase' = "candidate_rejected" /\ analysis.speech = <<>> /\ ~CandidateOk(analysis)
    BY <1>4 DEF MatchScript, Refused
  <2>2. \E i \in DOMAIN analysis.tags : analysis.tags[i].form = "layout"
    BY <1>2, <2>1, CandidateUnlessLaidOut
  <2>3. analysis' = analysis
    BY <1>1
  <2> QED
    BY <2>1, <2>2, <2>3 DEF MediaInv, DownstreamAccepts, Way, Known
<1> QED
  BY <1>3, <1>4

(* What was found on the way is stored.                                       *)
LEMMA StoreAnalysisKeeps ==
  ASSUME MediaInv, StoreAnalysis
  PROVE  MediaInv'
<1>1. phase \in Known
  BY DEF StoreAnalysis, Known
<1>2. phase' = "stored"
  BY <1>1, KnownIsAccepted DEF StoreAnalysis
<1> QED
  BY <1>2 DEF MediaInv, DownstreamAccepts, Way, Known

(* Every step keeps the way.                                                 *)
LEMMA MediaStepKeeps ==
  ASSUME MediaInv, [WholeNext]_allVars
  PROVE  MediaInv'
<1>1. CASE MediaNext
  BY <1>1, ProbeKeeps, RegisterKeeps, DescribeKeeps, ProveSourceKeeps, ExtractFramesKeeps, UnderstandKeeps,
     AnalyzeSpeechKeeps, SnapshotKeeps, MatchScriptKeeps, StoreAnalysisKeeps DEF MediaNext
<1>2. CASE HandOver
  BY <1>2 DEF HandOver, MediaInv, DownstreamAccepts, Way, Known
<1>3. CASE UNCHANGED mediaVars
  BY <1>3 DEF mediaVars, MediaInv, DownstreamAccepts
<1> QED
  BY <1>1, <1>2, <1>3 DEF WholeNext, NotPrepared, allVars, mediaVars

(* No stage of an import, of a preparation or of storing what it found       *)
(* refuses what the stage before it stated, but for a tag with a line break  *)
(* where a silent material is matched with a script: DownstreamAccepts.      *)
THEOREM DownstreamAcceptsHolds == WholeSpec => []DownstreamAccepts
<1>1. WholeInit => MediaInv
  BY DEF WholeInit, PlanInit, MediaInit, MediaInv, DownstreamAccepts, Way, Known
<1>2. MediaInv /\ [WholeNext]_allVars => MediaInv'
  BY MediaStepKeeps
<1>3. MediaInv => DownstreamAccepts
  BY DEF MediaInv
<1> QED
  BY <1>1, <1>2, <1>3, PTL DEF WholeSpec

(* A sequence with one element more.                                         *)
LEMMA AppendIs ==
  ASSUME NEW S, NEW ss \in Seq(S), NEW x
  PROVE  /\ Len(ss) \in Nat /\ Len(Append(ss, x)) = Len(ss) + 1
         /\ DOMAIN Append(ss, x) = 1..(Len(ss) + 1)
         /\ Append(ss, x) = [i \in 1..(Len(ss) + 1) |-> Append(ss, x)[i]]
         /\ \A i \in 1..Len(ss) : Append(ss, x)[i] = ss[i]
         /\ Append(ss, x)[Len(ss) + 1] = x
<1> DEFINE r == Append(ss, x)
<1>1. Len(ss) \in Nat /\ Len(r) = Len(ss) + 1 /\ DOMAIN r = 1..(Len(ss) + 1)
  OBVIOUS
<1>2. (\A i \in 1..Len(ss) : r[i] = ss[i]) /\ r[Len(ss) + 1] = x
  OBVIOUS
<1>3. r \in Seq(S \cup {x})
  OBVIOUS
<1> HIDE DEF r
<1>4. r = [i \in 1..Len(r) |-> r[i]]
  BY <1>3
<1>5. r = [i \in 1..(Len(ss) + 1) |-> r[i]]
  BY <1>1, <1>4
<1> QED
  BY <1>1, <1>2, <1>5 DEF r

(* A segment more is told of a time more.                                    *)
LEMMA ToldAppend ==
  ASSUME NEW S, NEW ss \in Seq(S), NEW x, NEW t
  PROVE  Told(Append(ss, x), t) <=> Told(ss, t) \/ (x[1] <= t /\ t < x[2])
<1> DEFINE n == Len(ss)
           r == Append(ss, x)
<1>1. n \in Nat /\ DOMAIN ss = 1..n /\ DOMAIN r = 1..(n + 1)
      /\ (\A i \in 1..n : r[i] = ss[i]) /\ r[n + 1] = x
  OBVIOUS
<1> HIDE DEF r, n
<1>2. \A i \in 1..(n + 1) : i \in 1..n \/ i = n + 1
  BY <1>1
<1>3. n + 1 \in 1..(n + 1) /\ \A i \in 1..n : i \in 1..(n + 1)
  BY <1>1
<1>4. Told(r, t) <=> \E i \in 1..(n + 1) : r[i][1] <= t /\ t < r[i][2]
  BY <1>1 DEF Told
<1>5. Told(ss, t) <=> \E i \in 1..n : ss[i][1] <= t /\ t < ss[i][2]
  BY <1>1 DEF Told
<1>6. ASSUME \E i \in 1..(n + 1) : r[i][1] <= t /\ t < r[i][2]
      PROVE  Told(ss, t) \/ (x[1] <= t /\ t < x[2])
  <2>1. PICK i \in 1..(n + 1) : r[i][1] <= t /\ t < r[i][2]
    BY <1>6
  <2>2. CASE i \in 1..n
    <3>1. ss[i][1] <= t /\ t < ss[i][2]
      BY <1>1, <2>1, <2>2
    <3> QED
      BY <1>5, <2>2, <3>1
  <2>3. CASE i = n + 1
    BY <1>1, <2>1, <2>3
  <2> QED
    BY <1>2, <2>2, <2>3
<1>7. ASSUME Told(ss, t) \/ (x[1] <= t /\ t < x[2])
      PROVE  \E i \in 1..(n + 1) : r[i][1] <= t /\ t < r[i][2]
  <2>1. CASE x[1] <= t /\ t < x[2]
    BY <1>1, <1>3, <2>1
  <2>2. CASE Told(ss, t)
    BY <1>1, <1>3, <1>5, <2>2
  <2> QED
    BY <1>7, <2>1, <2>2
<1> QED
  BY <1>4, <1>6, <1>7 DEF r

(* The last segment starts no later than at a time.                          *)
StartsBy(ss, from) == ss # <<>> => Last(ss)[1] <= from

(* What an appended segment adds to the times told.                          *)
LEMMA AppendSegmentTells ==
  ASSUME NEW ms \in Nat, NEW ss \in Segments(ms), NEW from \in Int, NEW to \in Int,
         StartsBy(ss, Max({0, from}))
  PROVE  /\ StartsBy(AppendSegment(ss, from, to, ms), Max({0, from}))
         /\ \A t \in 0..(ms - 1) :
              Told(AppendSegment(ss, from, to, ms), t) <=> Told(ss, t) \/ (from <= t /\ t < to)
<1> DEFINE start == Max({0, from})
           end == UpTo(ms, to)
           n == Len(ss)
           u == Front(ss)
           r == AppendSegment(ss, from, to, ms)
<1>1. start = (IF 0 <= from THEN from ELSE 0) /\ end = (IF ms <= to THEN ms ELSE to)
  BY MaxIs, UpToIs
<1>2. start \in Int /\ end \in Int
  BY <1>1
<1>3. ss \in Seq(Nat \X Nat)
  BY DEF Segments
<1>4. r = IF end <= start THEN ss
          ELSE IF ss # <<>> /\ start <= Last(ss)[2]
               THEN Append(u, <<Last(ss)[1], Max({Last(ss)[2], end})>>)
               ELSE Append(ss, <<start, end>>)
  BY DEF AppendSegment
<1>5. \A t \in 0..(ms - 1) : (start <= t /\ t < end) <=> (from <= t /\ t < to)
  BY <1>1
<1>6. StartsBy(ss, start)
  OBVIOUS
<1> HIDE DEF start, end, r
<1>7. CASE end <= start
  <2>1. r = ss
    BY <1>4, <1>7
  <2>2. \A t \in 0..(ms - 1) : ~(start <= t /\ t < end)
    BY <1>2, <1>7
  <2> QED
    BY <1>5, <1>6, <2>1, <2>2 DEF start, r
<1>8. CASE end > start /\ ~(ss # <<>> /\ start <= Last(ss)[2])
  <2>1. r = Append(ss, <<start, end>>)
    BY <1>2, <1>4, <1>8
  <2>2. \A t \in 0..(ms - 1) : Told(r, t) <=> Told(ss, t) \/ (start <= t /\ t < end)
    <3> TAKE t \in 0..(ms - 1)
    <3> DEFINE x == <<start, end>>
    <3>1. x[1] = start /\ x[2] = end /\ r = Append(ss, x)
      BY <2>1
    <3> HIDE DEF x
    <3> QED
      BY <1>3, <3>1, ToldAppend
  <2>3. StartsBy(r, start)
    <3>1. n \in Nat /\ Len(r) = n + 1 /\ r[n + 1] = <<start, end>>
      BY <1>3, <2>1
    <3>2. Last(r) = <<start, end>>
      BY <3>1 DEF Last
    <3> QED
      BY <1>2, <3>2 DEF StartsBy
  <2> QED
    BY <1>5, <2>2, <2>3 DEF start, r
<1>9. CASE end > start /\ ss # <<>> /\ start <= Last(ss)[2]
  <2> DEFINE a == Last(ss)[1]
             b == Last(ss)[2]
             c == Max({b, end})
             x == <<a, c>>
  <2>1. /\ n \in Nat \ {0} /\ DOMAIN ss = 1..n /\ Last(ss) = ss[n]
        /\ u \in Seq(Nat \X Nat) /\ Len(u) = n - 1
        /\ \A i \in 1..(n - 1) : u[i] = ss[i]
    BY <1>3, <1>9, FrontIs
  <2>2. r = Append(u, x)
    BY <1>2, <1>4, <1>9
  <2>3. a \in Nat /\ b \in Nat /\ a <= start
    <3>1. ss[n] \in Nat \X Nat
      BY <1>3, <2>1
    <3> QED
      BY <1>6, <1>9, <2>1, <3>1 DEF StartsBy
  <2>4. c = IF b <= end THEN end ELSE b
    BY <1>2, <2>3, MaxIs
  <2>5. ss = Append(u, Last(ss))
    <3> DEFINE v == Append(u, Last(ss))
    <3>5. n \in Int /\ n - 1 + 1 = n
      BY <2>1
    <3>6. DOMAIN v = 1..(Len(u) + 1) /\ v = [i \in 1..(Len(u) + 1) |-> v[i]]
      BY <2>1, AppendIs
    <3>7. Len(u) + 1 = n
      BY <2>1, <3>5
    <3> HIDE DEF v, u
    <3>1. DOMAIN v = 1..n /\ v = [i \in DOMAIN v |-> v[i]]
      BY <3>6, <3>7
    <3> USE DEF v
    <3>2. \A i \in 1..n : v[i] = ss[i]
      <4> TAKE i \in 1..n
      <4>1. CASE i = n
        <5>1. v[Len(u) + 1] = Last(ss) /\ Len(u) + 1 = n
          BY <2>1
        <5> QED
          BY <2>1, <4>1, <5>1
      <4>2. CASE i # n
        <5>3. n \in Int
          BY <2>1
        <5> HIDE DEF n, v
        <5>1. i \in 1..(n - 1)
          BY <4>2, <5>3
        <5> USE DEF v
        <5>2. v[i] = u[i]
          BY <2>1, <5>1
        <5> QED
          BY <2>1, <5>1, <5>2
      <4> QED
        BY <4>1, <4>2
    <3> HIDE DEF v
    <3>3. ss = [i \in 1..n |-> ss[i]]
      BY <1>3, <2>1
    <3>4. v = ss
      BY <3>1, <3>2, <3>3
    <3> QED
      BY <3>4 DEF v
  <2>6. x[1] = a /\ x[2] = c
    OBVIOUS
  <2> HIDE DEF a, b, c, x, u
  <2>7. ASSUME NEW t \in 0..(ms - 1)
        PROVE  Told(r, t) <=> Told(ss, t) \/ (start <= t /\ t < end)
    <3>1. Told(r, t) <=> Told(u, t) \/ (a <= t /\ t < c)
      BY <2>1, <2>2, <2>6, ToldAppend
    <3>2. Told(ss, t) <=> Told(u, t) \/ (a <= t /\ t < b)
      <4> DEFINE y == Last(ss)
      <4>1. y[1] = a /\ y[2] = b /\ ss = Append(u, y)
        BY <2>5 DEF a, b
      <4> HIDE DEF y
      <4> QED
        BY <2>1, <4>1, ToldAppend
    <3>3. (a <= t /\ t < c) <=> (a <= t /\ t < b) \/ (start <= t /\ t < end)
      BY <1>2, <1>9, <2>3, <2>4 DEF b
    <3> QED
      BY <3>1, <3>2, <3>3
  <2>8. StartsBy(r, start)
    <3>1. Len(r) = n /\ r[n] = x
      <4>1. Len(r) = Len(u) + 1 /\ r[Len(u) + 1] = x
        BY <2>1, <2>2, AppendIs
      <4>2. n \in Int /\ Len(u) = n - 1
        BY <2>1
      <4> HIDE DEF n
      <4>3. Len(u) + 1 = n
        BY <4>2
      <4> QED
        BY <4>1, <4>3
    <3>2. Last(r) = x
      BY <3>1 DEF Last
    <3> QED
      BY <2>3, <2>6, <3>2 DEF StartsBy
  <2> QED
    BY <1>5, <2>7, <2>8 DEF start, r
<1> QED
  BY <1>2, <1>7, <1>8, <1>9

-----------------------------------------------------------------------------
(* What is heard *)

(* How many chunks make a run, and a pause.                                  *)
LEMMA SpeechConstants == MinSpeechChunks \in Nat \ {0} /\ MinSilenceChunks \in Nat \ {0}
BY AnalysisAssumption

(* A chunk is voiced or silent.                                              *)
LEMMA AllAreIs ==
  ASSUME NEW sound \in Seq(BOOLEAN), NEW a \in Int, NEW b \in Int, 1 <= a, b <= Len(sound)
  PROVE  /\ AllAre(sound, a, b, TRUE) <=> \A k \in a..b : sound[k]
         /\ AllAre(sound, a, b, FALSE) <=> \A k \in a..b : ~sound[k]
<1>1. \A k \in a..b : sound[k] \in BOOLEAN
  <2> TAKE k \in a..b
  <2>1. k \in 1..Len(sound)
    OBVIOUS
  <2> QED
    BY <2>1
<1> QED
  BY <1>1 DEF AllAre

(* A wider stretch has the pauses of a narrower one.                         *)
LEMMA PausedGrows ==
  ASSUME NEW sound, NEW a \in Int, NEW b \in Int, NEW c \in Int, NEW d \in Int,
         c <= a, b <= d, Paused(sound, a, b)
  PROVE  Paused(sound, c, d)
<1>1. PICK k \in a..(b - MinSilenceChunks + 1) : AllAre(sound, k, k + MinSilenceChunks - 1, FALSE)
  BY DEF Paused
<1>2. k \in c..(d - MinSilenceChunks + 1)
  BY SpeechConstants
<1> QED
  BY <1>1, <1>2 DEF Paused

(* A chunk of a run is voiced.                                               *)
LEMMA RunIsVoiced ==
  ASSUME NEW sound \in Seq(BOOLEAN), NEW a \in Int, InRun(sound, a)
  PROVE  a \in 1..Len(sound) /\ sound[a]
<1>1. PICK from \in (a - MinSpeechChunks + 1)..a :
        /\ from >= 1 /\ from + MinSpeechChunks - 1 <= Len(sound)
        /\ AllAre(sound, from, from + MinSpeechChunks - 1, TRUE)
  BY DEF InRun
<1> DEFINE to == from + MinSpeechChunks - 1
<1>2. from \in Int /\ to \in Int /\ 1 <= from /\ to <= Len(sound) /\ a \in from..to
  BY <1>1, SpeechConstants
<1>3. \A k \in from..to : sound[k]
  <2>1. AllAre(sound, from, to, TRUE)
    BY <1>1
  <2> HIDE DEF to
  <2> QED
    BY <1>2, <2>1, AllAreIs
<1> HIDE DEF to
<1> QED
  BY <1>2, <1>3

(* Between voiced chunks a pause lies before or behind each in between.      *)
LEMMA PausedSplits ==
  ASSUME NEW sound \in Seq(BOOLEAN), NEW a \in Int, NEW b \in Int, NEW c \in Int,
         1 <= a, a <= c, c <= b, b <= Len(sound), sound[c], Paused(sound, a, b)
  PROVE  Paused(sound, a, c) \/ Paused(sound, c, b)
<1>1. PICK k \in a..(b - MinSilenceChunks + 1) : AllAre(sound, k, k + MinSilenceChunks - 1, FALSE)
  BY DEF Paused
<1> DEFINE l == k + MinSilenceChunks - 1
<1>2. k \in Int /\ l \in Int /\ 1 <= k /\ l <= Len(sound)
  BY <1>1, SpeechConstants
<1>3. \A j \in k..l : ~sound[j]
  <2>1. AllAre(sound, k, l, FALSE)
    BY <1>1
  <2> HIDE DEF l
  <2> QED
    BY <1>2, <2>1, AllAreIs
<1>4. c < k \/ l < c
  <2> SUFFICES ASSUME k <= c, c <= l PROVE FALSE
    BY <1>2
  <2>1. c \in k..l
    BY <1>2
  <2> HIDE DEF l
  <2> QED
    BY <1>3, <2>1
<1>5. CASE c < k
  <2>1. k \in c..(b - MinSilenceChunks + 1)
    BY <1>2, <1>5, SpeechConstants
  <2> QED
    BY <1>1, <2>1 DEF Paused
<1>6. CASE l < c
  <2>1. k \in a..(c - MinSilenceChunks + 1)
    BY <1>2, <1>6, SpeechConstants
  <2> QED
    BY <1>1, <2>1 DEF Paused
<1> QED
  BY <1>4, <1>5, <1>6

(* No speech before the end of the first base chunks goes on after them.     *)
Sealed(sound, base) ==
    \A a \in 1..base : InRun(sound, a) =>
        \A i \in (base + 1)..Len(sound) : sound[i] => Paused(sound, a, i)

(* A candidate from base that has no run yet.                                *)
Short(sound, base, n) ==
    /\ base < n /\ n - base < MinSpeechChunks
    /\ \A i \in (base + 1)..n : sound[i]

(* A candidate that has one, and so many silent chunks at its end.           *)
Long(sound, base, n, silent) ==
    /\ base + MinSpeechChunks <= n - silent /\ silent < MinSilenceChunks
    /\ \A i \in (base + 1)..(base + MinSpeechChunks) : sound[i]
    /\ ~Paused(sound, base + 1, n)
    /\ sound[n - silent] /\ \A i \in (n - silent + 1)..n : ~sound[i]

(* A candidate too short to be a run is none.                                *)
LEMMA ShortIsNoRun ==
  ASSUME NEW sound \in Seq(BOOLEAN), NEW n \in 0..Len(sound), NEW base \in 0..n,
         Sealed(sound, base), Short(sound, base, n), n = Len(sound) \/ ~sound[n + 1]
  PROVE  \A a \in (base + 1)..n : ~InRun(sound, a)
<1> SUFFICES ASSUME NEW a \in (base + 1)..n, InRun(sound, a) PROVE FALSE
  OBVIOUS
<1> DEFINE N == Len(sound)
<1>0. N \in Nat /\ n \in Int /\ base \in Int /\ a \in Int
  OBVIOUS
<1>1. PICK from \in (a - MinSpeechChunks + 1)..a :
        /\ from >= 1 /\ from + MinSpeechChunks - 1 <= Len(sound)
        /\ AllAre(sound, from, from + MinSpeechChunks - 1, TRUE)
  BY DEF InRun
<1> DEFINE to == from + MinSpeechChunks - 1
<1>2. from \in Int /\ to \in Int /\ 1 <= from /\ to <= N /\ from <= a /\ a <= to
  BY <1>0, <1>1, SpeechConstants
<1>3. \A k \in from..to : sound[k]
  <2>1. AllAre(sound, from, to, TRUE)
    BY <1>1
  <2> HIDE DEF to
  <2> QED
    BY <1>2, <2>1, AllAreIs
<1>4. to <= n
  <2> SUFFICES ASSUME to > n PROVE FALSE
    BY <1>0, <1>2
  <2>1. n + 1 \in from..to /\ n # N
    BY <1>0, <1>2
  <2> HIDE DEF to, N
  <2> QED
    BY <1>3, <2>1 DEF N
<1>5. from <= base
  <2>1. n - base < MinSpeechChunks
    BY DEF Short
  <2> QED
    BY <1>0, <1>2, <1>4, <2>1, SpeechConstants
<1>6. base \in 1..base /\ InRun(sound, base)
  <2>1. from \in (base - MinSpeechChunks + 1)..base
    BY <1>0, <1>2, <1>5, SpeechConstants
  <2>2. base \in 1..base
    BY <1>0, <1>2, <1>5
  <2>3. InRun(sound, base)
    BY ONLY <1>1, <2>1, Zenon DEF InRun
  <2> QED
    BY <2>2, <2>3
<1>7. base + 1 \in (base + 1)..N /\ base + 1 \in (base + 1)..n
  BY <1>0
<1>8. sound[base + 1]
  BY <1>7 DEF Short
<1>9. Paused(sound, base, base + 1)
  BY <1>6, <1>7, <1>8 DEF Sealed
<1>10. sound[base]
  BY <1>0, <1>6, RunIsVoiced
<1>11. PICK k \in base..((base + 1) - MinSilenceChunks + 1) :
         AllAre(sound, k, k + MinSilenceChunks - 1, FALSE)
  BY ONLY <1>9, Zenon DEF Paused
<1>12. k = base \/ k = base + 1
  BY <1>0, <1>11, SpeechConstants
<1>13. k \in k..(k + MinSilenceChunks - 1)
  BY <1>0, <1>11, SpeechConstants
<1>14. sound[k] = FALSE
  BY <1>11, <1>13 DEF AllAre
<1> QED
  BY <1>8, <1>10, <1>12, <1>14

(* Where no run begins behind a seal, nothing is heard and the seal holds.   *)
LEMMA NothingHeard ==
  ASSUME NEW sound \in Seq(BOOLEAN), NEW n \in 0..Len(sound), NEW base \in 0..n,
         Sealed(sound, base), \A a \in (base + 1)..n : ~InRun(sound, a)
  PROVE  Sealed(sound, n) /\ \A i \in (base + 1)..n : i \notin HeardChunks(sound)
<1>0. n \in Int /\ base \in Int /\ base <= n /\ Len(sound) \in Nat /\ n <= Len(sound)
  OBVIOUS
<1>1. ASSUME NEW a \in 1..n, InRun(sound, a)
      PROVE  a \in 1..base
  BY <1>0, <1>1
<1>2. Sealed(sound, n)
  <2> SUFFICES ASSUME NEW a \in 1..n, InRun(sound, a), NEW i \in (n + 1)..Len(sound), sound[i]
               PROVE  Paused(sound, a, i)
    BY DEF Sealed
  <2>1. a \in 1..base /\ i \in (base + 1)..Len(sound)
    BY <1>0, <1>1
  <2> QED
    BY <2>1 DEF Sealed
<1>3. ASSUME NEW i \in (base + 1)..n, i \in HeardChunks(sound)
      PROVE  FALSE
  <2>1. PICK a \in 1..i : InRun(sound, a) /\ ~Paused(sound, a, i)
    BY <1>3 DEF HeardChunks
  <2>2. a \in 1..n /\ i \in (base + 1)..Len(sound) /\ sound[i]
    BY <1>0, <1>3 DEF HeardChunks
  <2>3. a \in 1..base
    BY <1>1, <2>1, <2>2
  <2> QED
    BY <2>1, <2>2, <2>3 DEF Sealed
<1> QED
  BY <1>2, <1>3

(* A candidate that has its run begins with it.                              *)
LEMMA LongRun ==
  ASSUME NEW sound \in Seq(BOOLEAN), NEW n \in 0..Len(sound), NEW base \in 0..n, NEW silent \in Nat,
         Long(sound, base, n, silent)
  PROVE  base + 1 \in 1..n /\ sound[base + 1] /\ InRun(sound, base + 1)
<1> DEFINE from == base + 1
           to == base + MinSpeechChunks
<1>1. MinSpeechChunks \in Nat \ {0} /\ base + MinSpeechChunks <= n - silent
      /\ \A i \in (base + 1)..(base + MinSpeechChunks) : sound[i]
  BY SpeechConstants DEF Long
<1>2. n \in Nat /\ base \in Nat /\ n <= Len(sound) /\ Len(sound) \in Nat
  OBVIOUS
<1>3. /\ from \in Int /\ to \in Int /\ 1 <= from /\ to <= n /\ to <= Len(sound)
      /\ from \in from..to /\ from \in (from - MinSpeechChunks + 1)..from
      /\ from + MinSpeechChunks - 1 = to
  BY <1>1, <1>2
<1>4. \A i \in from..to : sound[i]
  BY <1>1
<1> HIDE DEF from, to
<1>5. AllAre(sound, from, to, TRUE)
  BY <1>3, <1>4, AllAreIs
<1>6. AllAre(sound, from, from + MinSpeechChunks - 1, TRUE)
  BY ONLY <1>3, <1>5
<1>7. from + MinSpeechChunks - 1 <= Len(sound) /\ from >= 1
  BY ONLY <1>3
<1>8. InRun(sound, from)
  BY ONLY <1>3, <1>6, <1>7, Zenon DEF InRun
<1>9. sound[from] /\ from \in 1..n
  BY <1>2, <1>3, <1>4
<1> QED
  BY <1>8, <1>9 DEF from

(* In a candidate that has its run, what is voiced is heard.                 *)
LEMMA LongHeard ==
  ASSUME NEW sound \in Seq(BOOLEAN), NEW n \in 0..Len(sound), NEW base \in 0..n, NEW silent \in Nat,
         Long(sound, base, n, silent), NEW i \in (base + 1)..n
  PROVE  i \in HeardChunks(sound) <=> sound[i]
<1>1. n \in Nat /\ base \in Nat /\ n <= Len(sound) /\ Len(sound) \in Nat /\ i \in Int
  OBVIOUS
<1>2. ~Paused(sound, base + 1, i)
  <2>1. ~Paused(sound, base + 1, n)
    BY DEF Long
  <2> QED
    BY <1>1, <2>1, PausedGrows
<1>3. base + 1 \in 1..i /\ i \in DOMAIN sound
  BY <1>1
<1>4. InRun(sound, base + 1)
  BY LongRun
<1> QED
  BY <1>2, <1>3, <1>4 DEF HeardChunks

(* A pause seals what is before it.                                          *)
LEMMA LongSealed ==
  ASSUME NEW sound \in Seq(BOOLEAN), NEW n \in 0..Len(sound), NEW base \in 0..n, NEW silent \in Nat,
         Long(sound, base, n, silent), silent + 1 = MinSilenceChunks, n < Len(sound), ~sound[n + 1]
  PROVE  Sealed(sound, n + 1)
<1> SUFFICES ASSUME NEW a \in 1..(n + 1), InRun(sound, a), NEW i \in ((n + 1) + 1)..Len(sound), sound[i]
             PROVE  Paused(sound, a, i)
  BY DEF Sealed
<1> DEFINE k == n - silent + 1
           l == n + 1
<1>1. /\ n \in Nat /\ n + 1 <= Len(sound) /\ Len(sound) \in Nat /\ i \in Int /\ a \in Int
      /\ MinSilenceChunks \in Nat \ {0} /\ i >= n + 2 /\ a <= n + 1
  BY SpeechConstants
<1>2. base + MinSpeechChunks <= n - silent /\ MinSpeechChunks \in Nat
      /\ \A j \in (n - silent + 1)..n : ~sound[j]
  BY SpeechConstants DEF Long
<1>3. k \in Int /\ l \in Int /\ 1 <= k /\ l <= Len(sound) /\ k + MinSilenceChunks - 1 = l
  BY <1>1, <1>2
<1>4. ASSUME NEW j \in k..l PROVE ~sound[j]
  <2>1. j \in (n - silent + 1)..n \/ j = n + 1
    BY <1>1
  <2> QED
    BY <1>2, <2>1
<1>5. a < k
  <2> SUFFICES ASSUME a >= k PROVE FALSE
    BY <1>1, <1>3
  <2>1. a \in k..l
    BY <1>1
  <2>2. sound[a]
    BY <1>1, RunIsVoiced
  <2> QED
    BY <1>4, <2>1, <2>2
<1>6. k \in a..(i - MinSilenceChunks + 1)
  BY <1>1, <1>3, <1>5
<1> HIDE DEF k, l
<1>7. AllAre(sound, k, l, FALSE)
  BY <1>3, <1>4, AllAreIs
<1>8. AllAre(sound, k, k + MinSilenceChunks - 1, FALSE)
  BY ONLY <1>3, <1>7
<1> QED
  BY ONLY <1>6, <1>8, Zenon DEF Paused

-----------------------------------------------------------------------------
(* What is covered *)

(* Covered by what is heard in the first n chunks.                           *)
CoveredUpTo(sound, n, t) ==
    \E a, b \in HeardChunks(sound) :
        /\ a <= b /\ b <= n /\ ~Paused(sound, a, b)
        /\ (a - 1) * Chunk - Padding <= t /\ t < b * Chunk + Padding

(* The first of all chunks are all.                                          *)
LEMMA CoveredInAll ==
  ASSUME NEW sound \in Seq(BOOLEAN), NEW t
  PROVE  Covered(sound, HeardChunks(sound), t) <=> CoveredUpTo(sound, Len(sound), t)
<1>1. \A b \in HeardChunks(sound) : b <= Len(sound)
  BY DEF HeardChunks
<1> QED
  BY <1>1 DEF Covered, CoveredUpTo

(* Where nothing is heard, nothing more is covered.                          *)
LEMMA NothingCovered ==
  ASSUME NEW sound \in Seq(BOOLEAN), NEW n \in 0..Len(sound), NEW base \in 0..n, NEW t,
         \A i \in (base + 1)..n : i \notin HeardChunks(sound)
  PROVE  CoveredUpTo(sound, n, t) <=> CoveredUpTo(sound, base, t)
<1>1. \A b \in HeardChunks(sound) : b <= n <=> b <= base
  <2> TAKE b \in HeardChunks(sound)
  <2>1. b \in Nat /\ n \in Nat /\ base \in Nat /\ base <= n
    BY DEF HeardChunks
  <2>2. b \notin (base + 1)..n
    OBVIOUS
  <2> QED
    BY <2>1, <2>2
<1> QED
  BY <1>1 DEF CoveredUpTo

(* A chunk begins no earlier than one before it.                             *)
LEMMA ChunkOrder ==
  ASSUME NEW a \in Int, NEW b \in Int, a <= b
  PROVE  a * Chunk \in Int /\ b * Chunk \in Int /\ a * Chunk <= b * Chunk
<1>1. Chunk \in Nat
  BY AnalysisAssumption
<1> QED
  BY <1>1, Z3

(* A candidate that has its run covers itself up to its last voiced chunk,   *)
(* and joins nothing before it.                                              *)
LEMMA LongCovers ==
  ASSUME NEW sound \in Seq(BOOLEAN), NEW m \in 0..Len(sound), NEW n \in 0..m, NEW base \in 0..n,
         NEW silent \in Nat, Sealed(sound, base), Long(sound, base, n, silent),
         \A i \in (n + 1)..m : ~sound[i], NEW t \in Int
  PROVE  CoveredUpTo(sound, m, t) <=>
           \/ CoveredUpTo(sound, base, t)
           \/ base * Chunk - Padding <= t /\ t < (n - silent) * Chunk + Padding
<1> DEFINE e == n - silent
           heard == HeardChunks(sound)
<1>1. /\ n \in Nat /\ base \in Nat /\ m \in Nat /\ n <= m /\ m <= Len(sound) /\ Len(sound) \in Nat
      /\ base <= n /\ MinSpeechChunks \in Nat \ {0} /\ Padding \in Nat /\ Chunk \in Nat
  BY AnalysisAssumption
<1>2. /\ e \in Int /\ base + MinSpeechChunks <= e /\ e <= n /\ sound[e] /\ ~Paused(sound, base + 1, n)
      /\ \A i \in (e + 1)..n : ~sound[i]
  BY <1>1 DEF Long
<1>3. n \in 0..Len(sound) /\ base + 1 \in 1..n /\ sound[base + 1]
  BY <1>1, LongRun
<1>4. base + 1 \in (base + 1)..n /\ e \in (base + 1)..n
  BY <1>1, <1>2
<1>5. base + 1 \in heard /\ e \in heard
  BY <1>2, <1>3, <1>4, LongHeard
<1>6. ~Paused(sound, base + 1, e)
  BY <1>1, <1>2, PausedGrows
<1>7. ASSUME NEW b \in heard, b <= m
      PROVE  b \in 1..Len(sound) /\ sound[b] /\ b <= e
  <2>1. b \in 1..Len(sound) /\ sound[b]
    BY DEF HeardChunks
  <2>2. b \notin (n + 1)..m /\ b \notin (e + 1)..n
    BY <1>2, <2>1
  <2> QED
    BY <1>1, <1>2, <1>7, <2>1, <2>2
<1> HIDE DEF e, heard
<1>8. ASSUME base * Chunk - Padding <= t /\ t < e * Chunk + Padding
      PROVE  CoveredUpTo(sound, m, t)
  <2>1. (base + 1) - 1 = base /\ base + 1 <= e /\ e <= m
    BY <1>1, <1>2
  <2>2. ((base + 1) - 1) * Chunk - Padding <= t
    BY ONLY <1>8, <2>1
  <2> QED
    BY ONLY <1>5, <1>6, <1>8, <2>1, <2>2, Zenon DEF CoveredUpTo, heard
<1>9. ASSUME CoveredUpTo(sound, base, t)
      PROVE  CoveredUpTo(sound, m, t)
  <2>1. PICK a \in heard, b \in heard :
          /\ a <= b /\ b <= base /\ ~Paused(sound, a, b)
          /\ (a - 1) * Chunk - Padding <= t /\ t < b * Chunk + Padding
    BY ONLY <1>9, Zenon DEF CoveredUpTo, heard
  <2>2. b \in Nat
    BY DEF heard, HeardChunks
  <2>3. b <= m
    BY <1>1, <2>1, <2>2
  <2> QED
    BY ONLY <2>1, <2>3, Zenon DEF CoveredUpTo, heard
<1>10. ASSUME CoveredUpTo(sound, m, t)
       PROVE  CoveredUpTo(sound, base, t) \/ (base * Chunk - Padding <= t /\ t < e * Chunk + Padding)
  <2>1. PICK a \in heard, b \in heard :
          /\ a <= b /\ b <= m /\ ~Paused(sound, a, b)
          /\ (a - 1) * Chunk - Padding <= t /\ t < b * Chunk + Padding
    BY ONLY <1>10, Zenon DEF CoveredUpTo, heard
  <2>2. b \in 1..Len(sound) /\ sound[b] /\ b <= e
    BY <1>7, <2>1
  <2>3. a \in 1..Len(sound) /\ sound[a]
    BY DEF heard, HeardChunks
  <2>4. CASE b <= base
    <3>1. CoveredUpTo(sound, base, t)
      BY ONLY <2>1, <2>4, Zenon DEF CoveredUpTo, heard
    <3> QED
      BY <3>1
  <2>5. CASE b > base /\ a <= base
    <3>1. PICK c \in 1..a : InRun(sound, c) /\ ~Paused(sound, c, a)
      BY DEF heard, HeardChunks
    <3>2. c \in 1..base /\ b \in (base + 1)..Len(sound)
      BY <1>1, <2>2, <2>3, <2>5
    <3>3. Paused(sound, c, b)
      BY <2>2, <3>1, <3>2 DEF Sealed
    <3>4. Paused(sound, c, a) \/ Paused(sound, a, b)
      BY <2>1, <2>2, <2>3, <3>3, PausedSplits
    <3> QED
      BY <2>1, <3>1, <3>4
  <2>6. CASE b > base /\ a > base
    <3>1. base <= a - 1 /\ a - 1 \in Int
      BY <1>1, <2>3, <2>6
    <3> DEFINE c == a - 1
    <3>2. c \in Int /\ base <= c /\ c * Chunk - Padding <= t
      BY <2>1, <3>1
    <3> HIDE DEF c
    <3>3. base * Chunk \in Int /\ c * Chunk \in Int /\ base * Chunk <= c * Chunk
      BY <1>1, <3>2, ChunkOrder
    <3>4. b * Chunk \in Int /\ e * Chunk \in Int /\ b * Chunk <= e * Chunk
      BY <1>2, <2>2, ChunkOrder DEF e
    <3>5. t < b * Chunk + Padding /\ t \in Int /\ Padding \in Int
      BY <1>1, <2>1
    <3> DEFINE p == base * Chunk
               q == c * Chunk
               r == b * Chunk
               s == e * Chunk
    <3>6. p \in Int /\ q \in Int /\ r \in Int /\ s \in Int /\ p <= q /\ r <= s
          /\ q - Padding <= t /\ t < r + Padding
      BY <3>2, <3>3, <3>4, <3>5
    <3> HIDE DEF p, q, r, s
    <3>7. p - Padding <= t /\ t < s + Padding
      BY <3>5, <3>6
    <3> QED
      BY ONLY <3>7 DEF p, s
  <2> QED
    BY <1>1, <2>2, <2>3, <2>4, <2>5, <2>6
<1> QED
  BY <1>8, <1>9, <1>10 DEF e

-----------------------------------------------------------------------------
(* How long it lasts *)

(* How much of the sound the n-th chunk holds.                               *)
ChunkMs(ms, n) == UpTo(ms, n * Chunk) - (n - 1) * Chunk

(* That is a number of milliseconds.                                         *)
LEMMA ChunkMsType ==
  ASSUME NEW ms \in Nat, NEW n \in Int
  PROVE  ChunkMs(ms, n) \in Int
<1>1. n * Chunk \in Int
  BY ChunkProduct
<1>2. (n - 1) * Chunk \in Int
  <2>1. n - 1 \in Int
    OBVIOUS
  <2> HIDE DEF ChunkMs
  <2> QED
    BY <2>1, ChunkProduct
<1>3. UpTo(ms, n * Chunk) \in Int
  BY <1>1, UpToIs
<1> QED
  BY <1>2, <1>3 DEF ChunkMs

(* F sums up the chunks that are in C.                                       *)
Sums(F, C, ms, N) ==
    /\ \A n \in 0..N : F[n] \in Int
    /\ F[0] = 0
    /\ \A n \in 1..N : F[n] = F[n - 1] + (IF n \in C THEN ChunkMs(ms, n) ELSE 0)

(* How long the first chunks of a set last is a number of milliseconds.      *)
LEMMA LastingIs ==
  ASSUME NEW C, NEW ms \in Nat, NEW N \in Nat
  PROVE  Sums(Lasting(C, ms, N), C, ms, N)
<1> DEFINE More(n) == IF n \in C THEN UpTo(ms, n * Chunk) - (n - 1) * Chunk ELSE 0
           Body(f) == [n \in 0..N |-> IF n = 0 THEN 0 ELSE f[n - 1] + More(n)]
           step == [n \in 1..N |-> [x \in Int |-> x + More(n)]]
           F == Lasting(C, ms, N)
<1>0. ASSUME NEW n \in 1..N
      PROVE  More(n) \in Int /\ More(n) = IF n \in C THEN ChunkMs(ms, n) ELSE 0
  <2>1. UpTo(ms, n * Chunk) - (n - 1) * Chunk = ChunkMs(ms, n)
    BY DEF ChunkMs
  <2>2. ChunkMs(ms, n) \in Int
    BY ChunkMsType
  <2> QED
    BY <2>1, <2>2
<1>7. F = CHOOSE g : g = Body(g)
  BY DEF Lasting
<1> HIDE DEF F, More
<1>1. PICK f : Recursive(f, Int, N, 0, step)
  <2>1. \A n \in 1..N : \A x \in Int : step[n][x] \in Int
    BY <1>0
  <2>2. 0 \in Int /\ N \in Nat
    OBVIOUS
  <2> HIDE DEF step
  <2> QED
    BY <2>1, <2>2, Recursion
<1>2. \A n \in 1..N : f[n] = f[n - 1] + More(n)
  <2> SUFFICES ASSUME NEW n \in 1..N PROVE f[n] = f[n - 1] + More(n)
    OBVIOUS
  <2>1. n - 1 \in 0..N
    OBVIOUS
  <2>2. f[n] = step[n][f[n - 1]] /\ f[n - 1] \in Int
    <3> HIDE DEF step
    <3> QED
      BY <1>1, <2>1 DEF Recursive
  <2> QED
    BY <2>2
<1>3. f = Body(f)
  <2>1. f[0] = 0 /\ f = [n \in 0..N |-> f[n]]
    BY <1>1 DEF Recursive
  <2>2. ASSUME NEW n \in 0..N
        PROVE  f[n] = IF n = 0 THEN 0 ELSE f[n - 1] + More(n)
    <3>1. n = 0 \/ n \in 1..N
      OBVIOUS
    <3> QED
      BY <1>2, <2>1, <3>1
  <2> QED
    BY <2>1, <2>2
<1>4. F = Body(F)
  <2> HIDE DEF Body
  <2> QED
    BY <1>3, <1>7
<1>5. F[0] = 0
  <2>1. 0 \in 0..N
    OBVIOUS
  <2> QED
    BY <1>4, <2>1
<1>6. ASSUME NEW n \in 1..N
      PROVE  F[n] = F[n - 1] + More(n)
  <2>1. n \in 0..N /\ n # 0
    OBVIOUS
  <2> QED
    BY <1>4, <2>1
<1>8. \A n \in 0..N : n \in {m \in 0..N : F[m] \in Int}
  <2> DEFINE D == {m \in 0..N : F[m] \in Int}
  <2>1. 0 \in D
    BY <1>5
  <2>2. ASSUME NEW n \in 1..N, n - 1 \in D
        PROVE  n \in D
    <3>1. n \in 0..N /\ More(n) \in Int /\ F[n - 1] \in Int
      BY <1>0, <2>2
    <3> QED
      BY <1>6, <3>1
  <2> HIDE DEF D
  <2>4. \A n \in 0..N : n \in D
    BY <2>1, <2>2, Induct
  <2> QED
    BY <2>4 DEF D
<1>9. \A n \in 1..N : F[n] = F[n - 1] + (IF n \in C THEN ChunkMs(ms, n) ELSE 0)
  BY <1>0, <1>6
<1>10. \A n \in 0..N : F[n] \in Int
  BY <1>8
<1>11. Sums(F, C, ms, N)
  BY ONLY <1>5, <1>9, <1>10 DEF Sums
<1> USE DEF F
<1> QED
  BY ONLY <1>11

(* Sets that hold the same chunks from one place to another.                 *)
AgreeOn(B, C, x, y) == \A i \in (x + 1)..y : i \in B <=> i \in C

(* Sets that agree between two places last equally long between them.        *)
LEMMA LastingAgree ==
  ASSUME NEW B, NEW C, NEW ms \in Nat, NEW N \in Nat, NEW y \in 0..N, NEW x \in 0..y,
         AgreeOn(B, C, x, y)
  PROVE  Lasting(B, ms, N)[y] - Lasting(B, ms, N)[x] = Lasting(C, ms, N)[y] - Lasting(C, ms, N)[x]
<1> DEFINE F == Lasting(B, ms, N)
           G == Lasting(C, ms, N)
           D == {n \in 0..N : n \in x..y => F[n] - F[x] = G[n] - G[x]}
<1>8. \A n \in 0..N : F[n] \in Int
  BY LastingIs DEF Sums
<1>9. \A n \in 1..N : F[n] = F[n - 1] + (IF n \in B THEN ChunkMs(ms, n) ELSE 0)
  BY LastingIs DEF Sums
<1>11. \A n \in 0..N : G[n] \in Int
  BY LastingIs DEF Sums
<1>12. \A n \in 1..N : G[n] = G[n - 1] + (IF n \in C THEN ChunkMs(ms, n) ELSE 0)
  BY LastingIs DEF Sums
<1> HIDE DEF F, G
<1>1. /\ \A n \in 0..N : F[n] \in Int /\ G[n] \in Int
      /\ \A n \in 1..N : F[n] = F[n - 1] + (IF n \in B THEN ChunkMs(ms, n) ELSE 0)
      /\ \A n \in 1..N : G[n] = G[n - 1] + (IF n \in C THEN ChunkMs(ms, n) ELSE 0)
  BY <1>8, <1>9, <1>11, <1>12
<1>2. x \in 0..N /\ F[x] \in Int /\ G[x] \in Int
  BY <1>1
<1>3. x \in D
  BY <1>2
<1>4. 0 \in D
  BY <1>2, <1>3
<1>5. ASSUME NEW n \in 1..N, n - 1 \in D
      PROVE  n \in D
  <2>1. CASE n \in (x + 1)..y
    <3>1. n - 1 \in x..y /\ n - 1 \in 0..N /\ n \in 0..N
      BY <2>1
    <3>2. F[n - 1] - F[x] = G[n - 1] - G[x] /\ F[n - 1] \in Int /\ G[n - 1] \in Int
      BY <1>1, <1>5, <3>1
    <3>3. ChunkMs(ms, n) \in Int
      BY ChunkMsType
    <3>4. n \in B <=> n \in C
      BY <2>1 DEF AgreeOn
    <3> QED
      BY <1>1, <1>2, <3>1, <3>2, <3>3, <3>4
  <2>2. CASE n \notin (x + 1)..y
    <3>1. n = x \/ n \notin x..y
      BY <2>2
    <3> QED
      BY <1>3, <3>1
  <2> QED
    BY <2>1, <2>2
<1> HIDE DEF D
<1>6. \A n \in 0..N : n \in D
  BY <1>4, <1>5, Induct
<1>7. y \in D
  BY <1>6
<1>10. F[y] - F[x] = G[y] - G[x]
  BY <1>7 DEF D
<1> QED
  BY <1>10 DEF F, G

(* Nothing lasts no time.                                                    *)
LEMMA LastingNone ==
  ASSUME NEW ms \in Nat, NEW N \in Nat
  PROVE  \A n \in 0..N : Lasting({}, ms, N)[n] = 0
<1> DEFINE none == {}
           F == Lasting(none, ms, N)
           D == {n \in 0..N : F[n] = 0}
<1> HIDE DEF none
<1>0. Sums(F, none, ms, N)
  BY LastingIs
<1> HIDE DEF F
<1>1. F[0] = 0
  BY <1>0 DEF Sums
<1>2. \A n \in 1..N : F[n] = F[n - 1] + (IF n \in none THEN ChunkMs(ms, n) ELSE 0)
  BY <1>0 DEF Sums
<1>3. \A n \in 1..N : F[n] = F[n - 1] + 0
  BY <1>2 DEF none
<1>4. 0 \in D
  BY <1>1
<1>5. ASSUME NEW n \in 1..N, n - 1 \in D
      PROVE  n \in D
  BY <1>3, <1>5
<1> HIDE DEF D
<1>6. \A n \in 0..N : n \in D
  BY <1>4, <1>5, Induct
<1>7. \A n \in 0..N : F[n] = 0
  BY <1>6 DEF D
<1> QED
  BY <1>7 DEF F, none

(* Where a set has no chunk, it lasts no longer.                             *)
LEMMA LastingStays ==
  ASSUME NEW B, NEW ms \in Nat, NEW N \in Nat, NEW y \in 0..N, NEW x \in 0..y,
         \A i \in (x + 1)..y : i \notin B
  PROVE  Lasting(B, ms, N)[y] = Lasting(B, ms, N)[x]
<1> DEFINE none == {}
           F == Lasting(B, ms, N)
           G == Lasting(none, ms, N)
<1>6. AgreeOn(B, none, x, y)
  BY DEF AgreeOn
<1>2. \A n \in 0..N : G[n] = 0
  BY LastingNone
<1> HIDE DEF none
<1>1. F[y] - F[x] = G[y] - G[x]
  BY <1>6, LastingAgree
<1>3. \A n \in 0..N : F[n] \in Int
  BY LastingIs DEF Sums
<1> HIDE DEF F, G
<1>4. x \in 0..N
  OBVIOUS
<1>7. F[x] \in Int /\ F[y] \in Int /\ G[x] = 0 /\ G[y] = 0
  BY <1>2, <1>3, <1>4
<1>5. F[y] = F[x]
  BY <1>1, <1>7
<1> QED
  BY <1>5 DEF F

-----------------------------------------------------------------------------
(* What a scan has made of a sound *)

(* The chunks with a voice.                                                  *)
VoicedChunks(sound) == {i \in DOMAIN sound : sound[i]}

(* Of its first chunks, with no candidate open.                              *)
RightUpTo(sound, ms, base, segments, confirmed) ==
    /\ Sealed(sound, base)
    /\ \A t \in 0..(ms - 1) : Told(segments, t) <=> CoveredUpTo(sound, base, t)
    /\ StartsBy(segments, Max({0, base * Chunk - Padding}))
    /\ confirmed = Lasting(HeardChunks(sound), ms, Len(sound))[base]

(* The last segment starts the sooner, the later one asks.                   *)
LEMMA StartsByLater ==
  ASSUME NEW ss \in Seq(Nat \X Nat), NEW base \in Int, NEW n \in Int, base <= n,
         StartsBy(ss, Max({0, base * Chunk - Padding}))
  PROVE  StartsBy(ss, Max({0, n * Chunk - Padding}))
<1> DEFINE x == base * Chunk - Padding
           y == n * Chunk - Padding
<1>1. x \in Int /\ y \in Int /\ x <= y
  <2>1. base * Chunk \in Int /\ n * Chunk \in Int /\ base * Chunk <= n * Chunk
    BY ChunkOrder
  <2>2. Padding \in Nat
    BY ChunkProduct
  <2> QED
    BY <2>1, <2>2
<1>2. StartsBy(ss, Max({0, x}))
  OBVIOUS
<1> HIDE DEF x, y
<1>3. Max({0, x}) \in Int /\ Max({0, y}) \in Int /\ Max({0, x}) <= Max({0, y})
  <2>1. Max({0, x}) = IF 0 <= x THEN x ELSE 0
    BY <1>1, MaxIs
  <2>2. Max({0, y}) = IF 0 <= y THEN y ELSE 0
    BY <1>1, MaxIs
  <2> QED
    BY <1>1, <2>1, <2>2
<1>4. ss # <<>> => Last(ss)[1] \in Int
  <2> SUFFICES ASSUME ss # <<>> PROVE Last(ss)[1] \in Int
    OBVIOUS
  <2>1. Len(ss) \in DOMAIN ss /\ Last(ss) = ss[Len(ss)]
    BY DEF Last
  <2>2. Last(ss) \in Nat \X Nat
    BY <2>1
  <2> QED
    BY <2>2
<1>5. StartsBy(ss, Max({0, y}))
  BY <1>2, <1>3, <1>4 DEF StartsBy
<1> QED
  BY <1>5 DEF y

(* Chunks without a run add nothing.                                         *)
LEMMA Skipped ==
  ASSUME NEW sound \in Seq(BOOLEAN), NEW ms \in Nat, NEW n \in 0..Len(sound), NEW base \in 0..n,
         NEW ss \in Segments(ms), NEW confirmed, RightUpTo(sound, ms, base, ss, confirmed),
         \A a \in (base + 1)..n : ~InRun(sound, a)
  PROVE  RightUpTo(sound, ms, n, ss, confirmed)
<1>1. Sealed(sound, n) /\ \A i \in (base + 1)..n : i \notin HeardChunks(sound)
  BY NothingHeard DEF RightUpTo
<1>2. \A t \in 0..(ms - 1) : Told(ss, t) <=> CoveredUpTo(sound, n, t)
  <2> TAKE t \in 0..(ms - 1)
  <2>1. CoveredUpTo(sound, n, t) <=> CoveredUpTo(sound, base, t)
    BY <1>1, NothingCovered
  <2> QED
    BY <2>1 DEF RightUpTo
<1>3. StartsBy(ss, Max({0, n * Chunk - Padding}))
  <2>1. base \in Int /\ n \in Int /\ base <= n
    OBVIOUS
  <2>2. StartsBy(ss, Max({0, base * Chunk - Padding}))
    BY DEF RightUpTo
  <2>3. ss \in Seq(Nat \X Nat)
    BY DEF Segments
  <2> QED
    BY <2>1, <2>2, <2>3, StartsByLater
<1>4. confirmed = Lasting(HeardChunks(sound), ms, Len(sound))[n]
  <2>1. Len(sound) \in Nat
    OBVIOUS
  <2>2. Lasting(HeardChunks(sound), ms, Len(sound))[n] = Lasting(HeardChunks(sound), ms, Len(sound))[base]
    BY <1>1, <2>1, LastingStays
  <2> QED
    BY <2>2 DEF RightUpTo
<1> QED
  BY <1>1, <1>2, <1>3, <1>4 DEF RightUpTo

(* A candidate that has its run adds itself when it is closed.               *)
LEMMA CandidateCloses ==
  ASSUME NEW sound \in Seq(BOOLEAN), NEW ms \in Nat, NEW m \in 0..Len(sound), NEW n \in 0..m,
         NEW base \in 0..n, NEW silent \in Nat, NEW ss \in Segments(ms), NEW confirmed,
         RightUpTo(sound, ms, base, ss, confirmed), Long(sound, base, n, silent),
         \A i \in (n + 1)..m : ~sound[i], Sealed(sound, m)
  PROVE  RightUpTo(sound, ms, m,
              AppendSegment(ss, base * Chunk - Padding, (n - silent) * Chunk + Padding, ms),
              confirmed + (Lasting(VoicedChunks(sound), ms, Len(sound))[n]
                           - Lasting(VoicedChunks(sound), ms, Len(sound))[base]))
<1> DEFINE from == base * Chunk - Padding
           to == (n - silent) * Chunk + Padding
           r == AppendSegment(ss, from, to, ms)
           heard == HeardChunks(sound)
           N == Len(sound)
           H == Lasting(heard, ms, N)
           V == Lasting(VoicedChunks(sound), ms, N)
<1>1. /\ base \in Int /\ m \in Int /\ n \in Int /\ base <= n /\ n <= m /\ N \in Nat
      /\ n - silent \in Int /\ n \in 0..N /\ base \in 0..N /\ m \in 0..N
  OBVIOUS
<1>2. from \in Int /\ to \in Int
  BY <1>1, ChunkProduct
<1>3. /\ Sealed(sound, base) /\ StartsBy(ss, Max({0, from})) /\ confirmed = H[base]
      /\ \A t \in 0..(ms - 1) : Told(ss, t) <=> CoveredUpTo(sound, base, t)
  BY DEF RightUpTo
<1>4. /\ StartsBy(r, Max({0, from}))
      /\ \A t \in 0..(ms - 1) : Told(r, t) <=> Told(ss, t) \/ (from <= t /\ t < to)
  <2> HIDE DEF from, to
  <2> QED
    BY <1>2, <1>3, AppendSegmentTells
<1>5. \A t \in 0..(ms - 1) : Told(r, t) <=> CoveredUpTo(sound, m, t)
  <2> TAKE t \in 0..(ms - 1)
  <2>1. t \in Int
    OBVIOUS
  <2>2. CoveredUpTo(sound, m, t) <=> CoveredUpTo(sound, base, t) \/ (from <= t /\ t < to)
    BY <1>3, <2>1, LongCovers
  <2> HIDE DEF from, to
  <2> QED
    BY <1>3, <1>4, <2>2
<1>6. StartsBy(r, Max({0, m * Chunk - Padding}))
  <2>1. r \in Seq(Nat \X Nat)
    <3> HIDE DEF from, to
    <3> QED
      BY <1>2, AppendSegmentType DEF Segments
  <2>2. base <= m
    BY <1>1
  <2>3. StartsBy(r, Max({0, base * Chunk - Padding}))
    BY <1>4
  <2> HIDE DEF r
  <2> QED
    BY <1>1, <2>1, <2>2, <2>3, StartsByLater
<1>7. ASSUME NEW i \in (base + 1)..n PROVE i \in heard <=> i \in VoicedChunks(sound)
  <2>1. i \in DOMAIN sound
    BY <1>1
  <2>2. i \in heard <=> sound[i]
    BY <1>1, LongHeard
  <2> QED
    BY <2>1, <2>2 DEF VoicedChunks
<1>14. AgreeOn(heard, VoicedChunks(sound), base, n)
  BY <1>7 DEF AgreeOn
<1>8. H[n] - H[base] = V[n] - V[base]
  <2> HIDE DEF heard
  <2> QED
    BY <1>1, <1>14, LastingAgree
<1>9. ASSUME NEW i \in (n + 1)..m PROVE i \notin heard
  BY <1>9 DEF HeardChunks
<1>10. H[m] = H[n]
  <2> HIDE DEF heard
  <2> QED
    BY <1>1, <1>9, LastingStays
<1>11. H[n] \in Int /\ H[base] \in Int /\ V[n] \in Int /\ V[base] \in Int
  <2>1. \A k \in 0..N : H[k] \in Int
    BY <1>1, LastingIs DEF Sums
  <2>2. \A k \in 0..N : V[k] \in Int
    BY <1>1, LastingIs DEF Sums
  <2> QED
    BY <1>1, <2>1, <2>2
<1> HIDE DEF H, V
<1>12. confirmed + (V[n] - V[base]) = H[m]
  BY <1>3, <1>8, <1>10, <1>11
<1> HIDE DEF r
<1>13. RightUpTo(sound, ms, m, r, confirmed + (V[n] - V[base]))
  BY <1>5, <1>6, <1>12 DEF RightUpTo, H
<1> QED
  BY <1>13 DEF V, r

(* Voiced chunks make a candidate, and enough of them a run.                 *)
LEMMA VoicedRun ==
  ASSUME NEW sound \in Seq(BOOLEAN), NEW n \in 1..Len(sound), NEW base \in 0..(n - 1),
         \A i \in (base + 1)..n : sound[i], n - base <= MinSpeechChunks
  PROVE  /\ n - base < MinSpeechChunks => Short(sound, base, n)
         /\ n - base >= MinSpeechChunks => Long(sound, base, n, 0)
<1>1. /\ n \in Nat /\ base \in Nat /\ base < n /\ Len(sound) \in Nat /\ n <= Len(sound)
      /\ MinSpeechChunks \in Nat \ {0} /\ MinSilenceChunks \in Nat \ {0}
  BY SpeechConstants
<1>2. n - base < MinSpeechChunks => Short(sound, base, n)
  BY <1>1 DEF Short
<1>3. ASSUME n - base >= MinSpeechChunks PROVE Long(sound, base, n, 0)
  <2>1. base + MinSpeechChunks = n /\ n - 0 = n
    BY <1>1, <1>3
  <2>2. ~Paused(sound, base + 1, n)
    <3> SUFFICES ASSUME Paused(sound, base + 1, n) PROVE FALSE
      OBVIOUS
    <3>1. PICK k \in (base + 1)..(n - MinSilenceChunks + 1) :
            AllAre(sound, k, k + MinSilenceChunks - 1, FALSE)
      BY Zenon DEF Paused
    <3>2. k \in (base + 1)..n /\ k \in k..(k + MinSilenceChunks - 1)
      BY <1>1, <3>1
    <3>3. sound[k] = FALSE
      BY <3>1, <3>2 DEF AllAre
    <3> QED
      BY <3>2, <3>3
  <2>3. sound[n]
    BY <1>1
  <2>4. \A i \in (n - 0 + 1)..n : ~sound[i]
    BY <1>1
  <2> QED
    BY <1>1, <2>1, <2>2, <2>3, <2>4 DEF Long
<1> QED
  BY <1>2, <1>3

(* One voiced chunk more ends the silence.                                   *)
LEMMA LongVoiced ==
  ASSUME NEW sound \in Seq(BOOLEAN), NEW n \in 1..Len(sound), NEW base \in 0..(n - 1),
         NEW silent \in Nat, Long(sound, base, n - 1, silent), sound[n]
  PROVE  Long(sound, base, n, 0)
<1>1. /\ n \in Nat /\ base \in Nat /\ base < n /\ Len(sound) \in Nat /\ n <= Len(sound)
      /\ MinSpeechChunks \in Nat \ {0} /\ MinSilenceChunks \in Nat \ {0}
  BY SpeechConstants
<1>2. /\ base + MinSpeechChunks <= n - 1 - silent
      /\ \A i \in (base + 1)..(base + MinSpeechChunks) : sound[i]
      /\ ~Paused(sound, base + 1, n - 1)
  BY DEF Long
<1>3. ~Paused(sound, base + 1, n)
  <2> SUFFICES ASSUME Paused(sound, base + 1, n) PROVE FALSE
    OBVIOUS
  <2>1. PICK k \in (base + 1)..(n - MinSilenceChunks + 1) :
          AllAre(sound, k, k + MinSilenceChunks - 1, FALSE)
    BY Zenon DEF Paused
  <2>2. CASE k = n - MinSilenceChunks + 1
    <3>1. n \in k..(k + MinSilenceChunks - 1)
      BY <1>1, <2>2
    <3> QED
      BY <2>1, <3>1 DEF AllAre
  <2>3. CASE k # n - MinSilenceChunks + 1
    <3>1. k \in (base + 1)..((n - 1) - MinSilenceChunks + 1)
      BY <1>1, <2>3
    <3>2. Paused(sound, base + 1, n - 1)
      BY ONLY <2>1, <3>1, Zenon DEF Paused
    <3> QED
      BY <1>2, <3>2
  <2> QED
    BY <2>2, <2>3
<1>4. n - 0 = n /\ base + MinSpeechChunks <= n /\ \A i \in (n - 0 + 1)..n : ~sound[i]
  BY <1>1, <1>2
<1> QED
  BY <1>1, <1>2, <1>3, <1>4 DEF Long

(* One silent chunk more, of too few to end it.                              *)
LEMMA LongUnvoiced ==
  ASSUME NEW sound \in Seq(BOOLEAN), NEW n \in 1..Len(sound), NEW base \in 0..(n - 1),
         NEW silent \in Nat, Long(sound, base, n - 1, silent), ~sound[n], silent + 1 < MinSilenceChunks
  PROVE  Long(sound, base, n, silent + 1)
<1> DEFINE e == n - 1 - silent
<1>1. /\ n \in Nat /\ base \in Nat /\ base < n /\ Len(sound) \in Nat /\ n <= Len(sound)
      /\ MinSpeechChunks \in Nat \ {0} /\ MinSilenceChunks \in Nat \ {0}
  BY SpeechConstants
<1>2. /\ base + MinSpeechChunks <= e
      /\ \A i \in (base + 1)..(base + MinSpeechChunks) : sound[i]
      /\ ~Paused(sound, base + 1, n - 1)
      /\ sound[e] /\ \A i \in (e + 1)..(n - 1) : ~sound[i]
  BY DEF Long
<1>3. e \in Int /\ n - (silent + 1) = e /\ e <= n - 1
  BY <1>1
<1>4. ~Paused(sound, base + 1, n)
  <2> SUFFICES ASSUME Paused(sound, base + 1, n) PROVE FALSE
    OBVIOUS
  <2>1. PICK k \in (base + 1)..(n - MinSilenceChunks + 1) :
          AllAre(sound, k, k + MinSilenceChunks - 1, FALSE)
    BY Zenon DEF Paused
  <2>2. CASE k = n - MinSilenceChunks + 1
    <3>1. e \in k..(k + MinSilenceChunks - 1)
      BY <1>1, <2>2
    <3>2. sound[e] = FALSE
      BY <2>1, <3>1 DEF AllAre
    <3> QED
      BY <1>2, <3>2
  <2>3. CASE k # n - MinSilenceChunks + 1
    <3>1. k \in (base + 1)..((n - 1) - MinSilenceChunks + 1)
      BY <1>1, <2>3
    <3>2. Paused(sound, base + 1, n - 1)
      BY ONLY <2>1, <3>1, Zenon DEF Paused
    <3> QED
      BY <1>2, <3>2
  <2> QED
    BY <2>2, <2>3
<1>5. ASSUME NEW i \in (e + 1)..n PROVE ~sound[i]
  <2>1. i \in (e + 1)..(n - 1) \/ i = n
    BY <1>1, <1>3
  <2> QED
    BY <1>2, <2>1
<1> HIDE DEF e
<1> QED
  BY <1>1, <1>2, <1>3, <1>4, <1>5 DEF Long

-----------------------------------------------------------------------------
(* The scan, chunk by chunk *)

(* No candidate is open after n chunks.                                      *)
Idle(sound, ms, n, st) ==
    st.open = Quiet /\ RightUpTo(sound, ms, n, st.segments, st.confirmed)

(* One is.                                                                   *)
Open(sound, ms, n, st) ==
    LET o == st.open
        V == Lasting(VoicedChunks(sound), ms, Len(sound))
    IN  /\ o.start \in 0..(n - 1) /\ o.voiced = V[n] - V[o.start]
        /\ RightUpTo(sound, ms, o.start, st.segments, st.confirmed)
        /\ IF o.long THEN Long(sound, o.start, n, o.silent)
           ELSE Short(sound, o.start, n) /\ o.run = n - o.start

(* How long the voiced chunks last grows with each of them alone.            *)
LEMMA VoicedLasts ==
  ASSUME NEW sound \in Seq(BOOLEAN), NEW ms \in Nat, NEW n \in 1..Len(sound)
  PROVE  LET V == Lasting(VoicedChunks(sound), ms, Len(sound)) IN
         /\ \A k \in 0..Len(sound) : V[k] \in Int
         /\ sound[n] => V[n] = V[n - 1] + ChunkMs(ms, n)
         /\ ~sound[n] => V[n] = V[n - 1]
<1> DEFINE V == Lasting(VoicedChunks(sound), ms, Len(sound))
           N == Len(sound)
<1>1. N \in Nat /\ n \in 1..N
  OBVIOUS
<1>2. Sums(V, VoicedChunks(sound), ms, N)
  BY LastingIs
<1> HIDE DEF V, N
<1>3. n \in VoicedChunks(sound) <=> sound[n]
  BY <1>1 DEF VoicedChunks, N
<1>4. V[n - 1] \in Int /\ \A k \in 0..N : V[k] \in Int
  BY <1>1, <1>2 DEF Sums
<1>5. V[n] = V[n - 1] + (IF n \in VoicedChunks(sound) THEN ChunkMs(ms, n) ELSE 0)
  BY <1>1, <1>2 DEF Sums
<1>6. (sound[n] => V[n] = V[n - 1] + ChunkMs(ms, n)) /\ (~sound[n] => V[n] = V[n - 1])
  BY <1>3, <1>4, <1>5
<1> QED
  BY <1>4, <1>6 DEF V, N

(* What a voiced chunk changes.                                              *)
LEMMA VoicedIs ==
  ASSUME NEW ms \in Nat, NEW st \in Scans(ms), NEW n \in Nat \ {0}, ChunkMs(ms, n) >= 0
  PROVE  LET o == st.open
             p == Voiced(st, n - 1, ms).open
         IN  /\ Voiced(st, n - 1, ms).segments = st.segments
             /\ Voiced(st, n - 1, ms).confirmed = st.confirmed
             /\ p.start = (IF o.start = Unknown THEN n - 1 ELSE o.start)
             /\ p.voiced = o.voiced + ChunkMs(ms, n) /\ p.run = o.run + 1
             /\ p.long = (o.long \/ o.run + 1 >= MinSpeechChunks) /\ p.silent = 0
<1> DEFINE i == n - 1
           o == st.open
           more == Max({0, UpTo(ms, (i + 1) * Chunk) - i * Chunk})
           p == [start |-> IF o.start = Unknown THEN i ELSE o.start,
                 voiced |-> o.voiced + more,
                 run |-> o.run + 1, long |-> o.long \/ o.run + 1 >= MinSpeechChunks, silent |-> 0]
<1>1. st \in [segments : Segments(ms), confirmed : Int, open : Candidates]
  BY DEF Scans
<1>2. more = ChunkMs(ms, n)
  <2>1. i + 1 = n
    OBVIOUS
  <2> HIDE DEF i
  <2>2. UpTo(ms, (i + 1) * Chunk) - i * Chunk = UpTo(ms, n * Chunk) - i * Chunk
    BY ONLY <2>1
  <2> USE DEF i
  <2>3. UpTo(ms, (i + 1) * Chunk) - i * Chunk = ChunkMs(ms, n)
    BY <2>2 DEF ChunkMs
  <2>4. ChunkMs(ms, n) \in Int
    BY ChunkMsType
  <2>5. Max({0, ChunkMs(ms, n)}) = ChunkMs(ms, n)
    BY <2>4, MaxIs
  <2> QED
    BY <2>3, <2>5
<1>3. Voiced(st, i, ms) = [st EXCEPT !.open = p]
  BY DEF Voiced
<1>4. /\ p.start = (IF o.start = Unknown THEN i ELSE o.start)
      /\ p.voiced = o.voiced + more /\ p.run = o.run + 1
      /\ p.long = (o.long \/ o.run + 1 >= MinSpeechChunks) /\ p.silent = 0
  OBVIOUS
<1> HIDE DEF more, p
<1>5. /\ Voiced(st, i, ms).segments = st.segments
      /\ Voiced(st, i, ms).confirmed = st.confirmed
      /\ Voiced(st, i, ms).open = p
  BY <1>1, <1>3
<1> HIDE DEF o
<1>6. /\ p.start = (IF o.start = Unknown THEN i ELSE o.start)
      /\ p.voiced = o.voiced + ChunkMs(ms, n) /\ p.run = o.run + 1
      /\ p.long = (o.long \/ o.run + 1 >= MinSpeechChunks) /\ p.silent = 0
  BY ONLY <1>2, <1>4
<1> QED
  BY ONLY <1>5, <1>6 DEF i, o

(* After a voiced chunk a candidate is open.                                 *)
LEMMA VoicedStep ==
  ASSUME NEW sound \in Seq(BOOLEAN), NEW ms \in Nat, NEW n \in 1..Len(sound), NEW st \in Scans(ms),
         ChunkMs(ms, n) >= 0, sound[n], Idle(sound, ms, n - 1, st) \/ Open(sound, ms, n - 1, st)
  PROVE  Open(sound, ms, n, Voiced(st, n - 1, ms))
<1> DEFINE V == Lasting(VoicedChunks(sound), ms, Len(sound))
           o == st.open
           r == Voiced(st, n - 1, ms)
           p == r.open
<1>1. /\ n \in Nat \ {0} /\ n \in Int /\ Len(sound) \in Nat /\ n <= Len(sound) /\ n - 1 \in Int
      /\ MinSpeechChunks \in Nat \ {0} /\ ChunkMs(ms, n) \in Int /\ Unknown \notin Int
  <2>1. Unknown \notin Int
    BY AnalysisAssumption
  <2>2. n \in Int
    OBVIOUS
  <2>3. ChunkMs(ms, n) \in Int
    BY <2>2, ChunkMsType
  <2> QED
    BY <2>1, <2>3, SpeechConstants
<1>2. /\ r.segments = st.segments /\ r.confirmed = st.confirmed
      /\ p.start = (IF o.start = Unknown THEN n - 1 ELSE o.start)
      /\ p.voiced = o.voiced + ChunkMs(ms, n) /\ p.run = o.run + 1
      /\ p.long = (o.long \/ o.run + 1 >= MinSpeechChunks) /\ p.silent = 0
  BY <1>1, VoicedIs
<1>3. o.voiced \in Int /\ o.run \in Nat /\ o.long \in BOOLEAN /\ o.silent \in Nat
  BY DEF Scans, Candidates
<1>4. V[n] = V[n - 1] + ChunkMs(ms, n) /\ \A k \in 0..Len(sound) : V[k] \in Int
  BY VoicedLasts
<1>5. p.long \in BOOLEAN
  BY <1>2
<1> DEFINE base == p.start
<1>6. SUFFICES /\ base \in 0..(n - 1) /\ p.voiced = V[n] - V[base]
               /\ RightUpTo(sound, ms, base, st.segments, st.confirmed)
               /\ IF p.long THEN Long(sound, base, n, 0)
                  ELSE Short(sound, base, n) /\ p.run = n - base
  BY <1>2 DEF Open
<1> HIDE DEF V, r, p, o
<1>7. CASE Idle(sound, ms, n - 1, st)
  <2>1. o.start = Unknown /\ o.voiced = 0 /\ o.run = 0 /\ o.long = FALSE
    BY <1>7 DEF Idle, Quiet, o
  <2>2. base = n - 1 /\ p.voiced = ChunkMs(ms, n) /\ p.run = 1 /\ p.long = (1 >= MinSpeechChunks)
    BY <1>1, <1>2, <2>1
  <2> DEFINE b == n - 1
  <2>3. b \in 0..(n - 1) /\ n - b = 1 /\ b \in 0..Len(sound)
    BY <1>1
  <2>4. \A i \in (b + 1)..n : sound[i]
    BY <1>1
  <2> HIDE DEF b
  <2>5. /\ n - b < MinSpeechChunks => Short(sound, b, n)
        /\ n - b >= MinSpeechChunks => Long(sound, b, n, 0)
    BY <1>1, <2>3, <2>4, VoicedRun
  <2>6. IF p.long THEN Long(sound, b, n, 0) ELSE Short(sound, b, n) /\ p.run = n - b
    <3>1. n - b = 1 /\ p.run = 1 /\ (p.long <=> n - b >= MinSpeechChunks)
      BY <2>2, <2>3
    <3>2. CASE p.long
      BY <2>5, <3>1, <3>2
    <3>3. CASE ~p.long
      <4>1. n - b < MinSpeechChunks
        BY <1>1, <3>1, <3>3
      <4> QED
        BY <2>5, <3>1, <3>3, <4>1
    <3> QED
      BY <3>2, <3>3
  <2>7. p.voiced = V[n] - V[b]
    <3>1. V[n] = V[b] + ChunkMs(ms, n) /\ V[b] \in Int
      BY <1>4, <2>3 DEF b
    <3> QED
      BY <1>1, <2>2, <3>1
  <2>8. base = b /\ RightUpTo(sound, ms, b, st.segments, st.confirmed)
    BY <1>7, <2>2 DEF Idle, b
  <2> HIDE DEF base
  <2> QED
    BY <2>3, <2>6, <2>7, <2>8
<1>8. CASE Open(sound, ms, n - 1, st)
  <2>1. /\ o.start \in 0..((n - 1) - 1) /\ o.voiced = V[n - 1] - V[o.start]
        /\ RightUpTo(sound, ms, o.start, st.segments, st.confirmed)
        /\ IF o.long THEN Long(sound, o.start, n - 1, o.silent)
           ELSE Short(sound, o.start, n - 1) /\ o.run = n - 1 - o.start
    BY <1>8 DEF Open, V, o
  <2>2. base = o.start /\ base \in 0..(n - 1) /\ base \in 0..(n - 2) /\ base \in 0..Len(sound)
        /\ base \in Int /\ n - 1 \in 0..Len(sound)
    BY <1>1, <1>2, <2>1
  <2> HIDE DEF base
  <2>3. p.voiced = V[n] - V[base]
    <3>1. V[n - 1] \in Int /\ V[base] \in Int
      BY <1>4, <2>2
    <3>2. o.voiced = V[n - 1] - V[base]
      BY <2>1, <2>2
    <3> QED
      BY <1>1, <1>2, <1>4, <3>1, <3>2
  <2>4. CASE o.long
    <3>1. p.long
      BY <1>2, <2>4
    <3>2. Long(sound, base, n, 0)
      BY <1>3, <2>1, <2>2, <2>4, LongVoiced
    <3> QED
      BY <2>1, <2>2, <2>3, <3>1, <3>2
  <2>5. CASE ~o.long
    <3>1. Short(sound, base, n - 1) /\ o.run = n - 1 - base
      BY <2>1, <2>2, <2>5
    <3>2. n - 1 - base < MinSpeechChunks /\ \A i \in (base + 1)..(n - 1) : sound[i]
      BY <3>1 DEF Short
    <3>3. \A i \in (base + 1)..n : sound[i]
      <4> TAKE i \in (base + 1)..n
      <4>1. i \in (base + 1)..(n - 1) \/ i = n
        BY <1>1, <2>2
      <4> QED
        BY <3>2, <4>1
    <3>4. n - base <= MinSpeechChunks /\ p.run = n - base
      BY <1>1, <1>2, <2>2, <3>1, <3>2
    <3>5. /\ n - base < MinSpeechChunks => Short(sound, base, n)
          /\ n - base >= MinSpeechChunks => Long(sound, base, n, 0)
      BY <2>2, <3>3, <3>4, VoicedRun
    <3>6. p.long = (n - base >= MinSpeechChunks)
      BY <1>2, <2>5, <3>4
    <3>7. n - base \in Int
      BY <1>1, <2>2
    <3>8. IF p.long THEN Long(sound, base, n, 0) ELSE Short(sound, base, n) /\ p.run = n - base
      <4>1. CASE p.long
        <5>1. n - base >= MinSpeechChunks
          BY <3>6, <4>1
        <5> QED
          BY <3>5, <4>1, <5>1
      <4>2. CASE ~p.long
        <5>1. n - base < MinSpeechChunks
          BY <1>1, <3>6, <3>7, <4>2
        <5> QED
          BY <3>4, <3>5, <4>2, <5>1
      <4> QED
        BY <4>1, <4>2
    <3> QED
      BY <2>1, <2>2, <2>3, <3>8
  <2> QED
    BY <1>3, <2>4, <2>5
<1> QED
  BY <1>7, <1>8

(* What a silent chunk changes.                                              *)
LEMMA UnvoicedIs ==
  ASSUME NEW ms \in Nat, NEW st \in Scans(ms), NEW n \in Nat \ {0}
  PROVE  LET o == st.open
             r == Unvoiced(st, n - 1, ms)
         IN  /\ o.start = Unknown => r = st
             /\ o.start # Unknown /\ ~o.long =>
                  r.segments = st.segments /\ r.confirmed = st.confirmed /\ r.open = Quiet
             /\ o.start # Unknown /\ o.long /\ o.silent + 1 < MinSilenceChunks =>
                  /\ r.segments = st.segments /\ r.confirmed = st.confirmed
                  /\ r.open.start = o.start /\ r.open.voiced = o.voiced /\ r.open.long = o.long
                  /\ r.open.silent = o.silent + 1
             /\ o.start # Unknown /\ o.long /\ ~(o.silent + 1 < MinSilenceChunks) =>
                  /\ r.segments = AppendSegment(st.segments, o.start * Chunk - Padding,
                                                (n - (o.silent + 1)) * Chunk + Padding, ms)
                  /\ r.confirmed = st.confirmed + o.voiced /\ r.open = Quiet
<1> DEFINE o == st.open
           r == Unvoiced(st, n - 1, ms)
           paused == [st EXCEPT !.open.silent = @ + 1, !.open.run = 0]
<1>1. st \in [segments : Segments(ms), confirmed : Int, open : Candidates]
      /\ o \in [start : Nat \cup {Unknown}, voiced : Int, run : Nat, long : BOOLEAN, silent : Nat]
  BY DEF Scans, Candidates
<1>2. o.start = Unknown => r = st
  BY DEF Unvoiced
<1>3. o.start # Unknown /\ ~o.long =>
        r.segments = st.segments /\ r.confirmed = st.confirmed /\ r.open = Quiet
  <2> SUFFICES ASSUME o.start # Unknown /\ ~o.long
               PROVE  r.segments = st.segments /\ r.confirmed = st.confirmed /\ r.open = Quiet
    OBVIOUS
  <2>1. r = [st EXCEPT !.open = Quiet]
    BY DEF Unvoiced
  <2> HIDE DEF r
  <2> QED
    BY <1>1, <2>1
<1>4. /\ paused.segments = st.segments /\ paused.confirmed = st.confirmed
      /\ paused.open = [o EXCEPT !.silent = @ + 1, !.run = 0]
  BY <1>1
<1>5. /\ paused.open.start = o.start /\ paused.open.voiced = o.voiced
      /\ paused.open.long = o.long /\ paused.open.silent = o.silent + 1
  <2>1. ASSUME NEW x \in [start : Nat \cup {Unknown}, voiced : Int, run : Nat, long : BOOLEAN, silent : Nat]
        PROVE  LET p == [x EXCEPT !.silent = @ + 1, !.run = 0] IN
               p.start = x.start /\ p.voiced = x.voiced /\ p.long = x.long /\ p.silent = x.silent + 1
    OBVIOUS
  <2> HIDE DEF paused, o
  <2> QED
    BY <1>1, <1>4, <2>1
<1>6. ASSUME o.start # Unknown, o.long
      PROVE  r = IF paused.open.silent < MinSilenceChunks THEN paused ELSE Closed(paused, n, ms)
  <2>1. n - 1 + 1 = n
    OBVIOUS
  <2> DEFINE i == n - 1
  <2>2. r = IF paused.open.silent < MinSilenceChunks THEN paused ELSE Closed(paused, i + 1, ms)
    BY <1>6 DEF Unvoiced
  <2>3. i + 1 = n
    BY <2>1
  <2> HIDE DEF i, r, paused
  <2> QED
    BY <2>2, <2>3
<1> HIDE DEF r, paused
<1>7. ASSUME o.start # Unknown, o.long, o.silent + 1 < MinSilenceChunks
      PROVE  /\ r.segments = st.segments /\ r.confirmed = st.confirmed
             /\ r.open.start = o.start /\ r.open.voiced = o.voiced /\ r.open.long = o.long
             /\ r.open.silent = o.silent + 1
  <2> HIDE DEF o
  <2>1. r = paused
    BY <1>5, <1>6, <1>7
  <2> QED
    BY <1>4, <1>5, <2>1
<1>8. ASSUME o.start # Unknown, o.long, ~(o.silent + 1 < MinSilenceChunks)
      PROVE  /\ r.segments = AppendSegment(st.segments, o.start * Chunk - Padding,
                                           (n - (o.silent + 1)) * Chunk + Padding, ms)
             /\ r.confirmed = st.confirmed + o.voiced /\ r.open = Quiet
  <2> HIDE DEF o
  <2>1. r = Closed(paused, n, ms)
    BY <1>5, <1>6, <1>8
  <2>2. /\ r.segments = AppendSegment(paused.segments, paused.open.start * Chunk - Padding,
                                      (n - paused.open.silent) * Chunk + Padding, ms)
        /\ r.confirmed = paused.confirmed + paused.open.voiced /\ r.open = Quiet
    BY <2>1 DEF Closed
  <2> QED
    BY ONLY <1>4, <1>5, <2>2
<1> QED
  BY <1>2, <1>3, <1>7, <1>8 DEF r

(* After a silent chunk the scan is still right.                             *)
LEMMA UnvoicedStep ==
  ASSUME NEW sound \in Seq(BOOLEAN), NEW ms \in Nat, NEW n \in 1..Len(sound), NEW st \in Scans(ms),
         ~sound[n], Idle(sound, ms, n - 1, st) \/ Open(sound, ms, n - 1, st)
  PROVE  LET r == Unvoiced(st, n - 1, ms) IN Idle(sound, ms, n, r) \/ Open(sound, ms, n, r)
<1> DEFINE V == Lasting(VoicedChunks(sound), ms, Len(sound))
           o == st.open
           r == Unvoiced(st, n - 1, ms)
<1>1. /\ n \in Nat \ {0} /\ n \in Int /\ Len(sound) \in Nat /\ n <= Len(sound) /\ n - 1 \in Int
      /\ n - 1 \in 0..Len(sound) /\ n \in 0..Len(sound) /\ n - 1 + 1 = n
      /\ MinSilenceChunks \in Nat \ {0}
  BY SpeechConstants
<1>2. Unknown \notin Int
  BY AnalysisAssumption
<1>3. o.voiced \in Int /\ o.run \in Nat /\ o.long \in BOOLEAN /\ o.silent \in Nat
      /\ st.segments \in Segments(ms)
  BY DEF Scans, Candidates
<1>4. V[n] = V[n - 1] /\ \A k \in 0..Len(sound) : V[k] \in Int
  BY VoicedLasts
<1>5. ~InRun(sound, n)
  BY <1>1, RunIsVoiced
<1>6. /\ o.start = Unknown => r = st
      /\ o.start # Unknown /\ ~o.long =>
           r.segments = st.segments /\ r.confirmed = st.confirmed /\ r.open = Quiet
      /\ o.start # Unknown /\ o.long /\ o.silent + 1 < MinSilenceChunks =>
           /\ r.segments = st.segments /\ r.confirmed = st.confirmed
           /\ r.open.start = o.start /\ r.open.voiced = o.voiced /\ r.open.long = o.long
           /\ r.open.silent = o.silent + 1
      /\ o.start # Unknown /\ o.long /\ ~(o.silent + 1 < MinSilenceChunks) =>
           /\ r.segments = AppendSegment(st.segments, o.start * Chunk - Padding,
                                         (n - (o.silent + 1)) * Chunk + Padding, ms)
           /\ r.confirmed = st.confirmed + o.voiced /\ r.open = Quiet
  BY <1>1, UnvoicedIs
<1> HIDE DEF r, V
<1>7. CASE Idle(sound, ms, n - 1, st)
  <2>1. o.start = Unknown /\ o = Quiet /\ RightUpTo(sound, ms, n - 1, st.segments, st.confirmed)
    BY <1>7 DEF Idle, Quiet
  <2>2. r = st
    BY <1>6, <2>1
  <2> DEFINE b == n - 1
  <2>3. b \in 0..n /\ \A a \in (b + 1)..n : ~InRun(sound, a)
    BY <1>1, <1>5
  <2>4. RightUpTo(sound, ms, b, st.segments, st.confirmed)
    BY <2>1
  <2> HIDE DEF b, o
  <2>5. RightUpTo(sound, ms, n, st.segments, st.confirmed)
    BY <1>1, <1>3, <2>3, <2>4, Skipped
  <2>6. Idle(sound, ms, n, r)
    BY <2>1, <2>2, <2>5 DEF Idle, o
  <2> QED
    BY <2>6 DEF r
<1>8. CASE Open(sound, ms, n - 1, st)
  <2> DEFINE base == o.start
             m == n - 1
  <2>1. /\ base \in 0..(m - 1) /\ o.voiced = V[m] - V[base]
        /\ RightUpTo(sound, ms, base, st.segments, st.confirmed)
        /\ IF o.long THEN Long(sound, base, m, o.silent)
           ELSE Short(sound, base, m) /\ o.run = m - base
    BY <1>8 DEF Open, V
  <2>2. base \in Int /\ base # Unknown /\ base \in 0..m /\ base \in 0..n /\ m \in 0..Len(sound)
        /\ m + 1 = n /\ base \in 0..(n - 1) /\ base \in 0..Len(sound) /\ m \in Int
    BY <1>1, <1>2, <2>1
  <2>3. CASE ~o.long
    <3>1. Sealed(sound, base) /\ Short(sound, base, m) /\ ~sound[m + 1]
      BY <2>1, <2>2, <2>3 DEF RightUpTo
    <3>2. \A a \in (base + 1)..m : ~InRun(sound, a)
      <4> HIDE DEF base, m
      <4> QED
        BY <2>2, <3>1, ShortIsNoRun
    <3>3. \A a \in (base + 1)..n : ~InRun(sound, a)
      <4> TAKE a \in (base + 1)..n
      <4>1. a \in (base + 1)..m \/ a = n
        BY <1>1, <2>2
      <4> QED
        BY <1>5, <3>2, <4>1
    <3>4. RightUpTo(sound, ms, n, st.segments, st.confirmed)
      <4> HIDE DEF base, m
      <4> QED
        BY <1>1, <1>3, <2>1, <2>2, <3>3, Skipped
    <3>5. Idle(sound, ms, n, r)
      BY <1>6, <2>2, <2>3, <3>4 DEF Idle
    <3> QED
      BY <3>5 DEF r
  <2>4. CASE o.long /\ o.silent + 1 < MinSilenceChunks
    <3>1. /\ r.segments = st.segments /\ r.confirmed = st.confirmed
          /\ r.open.start = base /\ r.open.voiced = o.voiced /\ r.open.long
          /\ r.open.silent = o.silent + 1
      BY <1>6, <2>2, <2>4
    <3>2. Long(sound, base, n - 1, o.silent)
      BY <2>1, <2>4
    <3> DEFINE s == o.silent
    <3>3. s \in Nat /\ s + 1 < MinSilenceChunks /\ Long(sound, base, n - 1, s)
      BY <1>3, <2>4, <3>2
    <3>4. Long(sound, base, n, s + 1)
      <4> HIDE DEF base, s
      <4> QED
        BY <1>1, <2>2, <3>3, LongUnvoiced
    <3>5. o.voiced = V[n] - V[base]
      BY <1>4, <2>1
    <3> HIDE DEF base, m, o
    <3>6. Open(sound, ms, n, r)
      BY <2>1, <2>2, <3>1, <3>4, <3>5 DEF Open, V
    <3> QED
      BY <3>6 DEF r
  <2>5. CASE o.long /\ ~(o.silent + 1 < MinSilenceChunks)
    <3> DEFINE s == o.silent
    <3>1. /\ r.segments = AppendSegment(st.segments, base * Chunk - Padding,
                                        (n - (s + 1)) * Chunk + Padding, ms)
          /\ r.confirmed = st.confirmed + o.voiced /\ r.open = Quiet
      BY <1>6, <2>2, <2>5
    <3>2. s \in Nat /\ Long(sound, base, m, s)
      BY <1>3, <2>1, <2>5
    <3>3. s + 1 = MinSilenceChunks
      <4>1. s < MinSilenceChunks
        BY <3>2 DEF Long
      <4> QED
        BY <1>1, <2>5, <3>2, <4>1
    <3>4. n - (s + 1) = m - s
      BY <1>1, <3>2
    <3>5. m < Len(sound) /\ ~sound[m + 1] /\ \A i \in (m + 1)..n : ~sound[i]
      <4>1. m < Len(sound) /\ ~sound[m + 1]
        BY <1>1, <2>2
      <4>2. \A i \in (m + 1)..n : i = n
        BY <1>1, <2>2
      <4> QED
        BY <4>1, <4>2
    <3>6. o.voiced = V[m] - V[base]
      BY <2>1
    <3>7. Sealed(sound, base) /\ RightUpTo(sound, ms, base, st.segments, st.confirmed)
      BY <2>1 DEF RightUpTo
    <3>10. m \in 0..n
      BY <1>1, <2>2
    <3> HIDE DEF base, m, o, s
    <3>8. Sealed(sound, n)
      <4>1. Sealed(sound, m + 1)
        BY <2>2, <3>2, <3>3, <3>5, LongSealed
      <4> QED
        BY <2>2, <4>1
    <3>9. RightUpTo(sound, ms, n,
               AppendSegment(st.segments, base * Chunk - Padding, (m - s) * Chunk + Padding, ms),
               st.confirmed + (V[m] - V[base]))
      BY <1>1, <1>3, <2>2, <3>2, <3>5, <3>7, <3>8, <3>10, CandidateCloses DEF V
    <3>11. r.segments = AppendSegment(st.segments, base * Chunk - Padding, (m - s) * Chunk + Padding, ms)
      BY ONLY <3>1, <3>4
    <3>12. r.confirmed = st.confirmed + (V[m] - V[base])
      BY ONLY <3>1, <3>6
    <3>13. Idle(sound, ms, n, r)
      BY ONLY <3>1, <3>9, <3>11, <3>12 DEF Idle
    <3> QED
      BY <3>13 DEF r
  <2> QED
    BY <1>3, <2>3, <2>4, <2>5
<1> QED
  BY <1>7, <1>8

(* Before the first chunk.                                                   *)
LEMMA IdleAtFirst ==
  ASSUME NEW sound \in Seq(BOOLEAN), NEW ms \in Nat, NEW st, st.segments = <<>>, st.confirmed = 0,
         st.open = Quiet
  PROVE  Idle(sound, ms, 0, st)
<1>1. Sealed(sound, 0)
  BY DEF Sealed
<1>2. \A t \in 0..(ms - 1) : Told(<<>>, t) <=> CoveredUpTo(sound, 0, t)
  <2> TAKE t \in 0..(ms - 1)
  <2>1. ~Told(<<>>, t)
    BY DEF Told
  <2>2. \A b \in HeardChunks(sound) : ~(b <= 0)
    BY DEF HeardChunks
  <2> QED
    BY <2>1, <2>2 DEF CoveredUpTo
<1>3. StartsBy(<<>>, Max({0, 0 * Chunk - Padding}))
  BY DEF StartsBy
<1>4. Lasting(HeardChunks(sound), ms, Len(sound))[0] = 0
  <2> DEFINE F == Lasting(HeardChunks(sound), ms, Len(sound))
  <2>1. Sums(F, HeardChunks(sound), ms, Len(sound))
    <3>1. Len(sound) \in Nat
      OBVIOUS
    <3> QED
      BY <3>1, LastingIs
  <2> HIDE DEF F
  <2>2. F[0] = 0
    BY <2>1 DEF Sums
  <2> QED
    BY <2>2 DEF F
<1> QED
  BY <1>1, <1>2, <1>3, <1>4 DEF Idle, RightUpTo

(* After the last chunk nothing is left open.                                *)
LEMMA EndedTells ==
  ASSUME NEW sound \in Seq(BOOLEAN), NEW ms \in Nat, NEW st \in Scans(ms),
         Idle(sound, ms, Len(sound), st) \/ Open(sound, ms, Len(sound), st)
  PROVE  LET r == Ended(st, Len(sound), ms) IN RightUpTo(sound, ms, Len(sound), r.segments, r.confirmed)
<1> DEFINE N == Len(sound)
           o == st.open
           r == Ended(st, N, ms)
           V == Lasting(VoicedChunks(sound), ms, N)
<1>1. N \in Nat /\ N \in 0..N /\ N \in 0..Len(sound)
  OBVIOUS
<1>2. o.long \in BOOLEAN /\ o.silent \in Nat /\ st.segments \in Segments(ms)
  BY DEF Scans, Candidates
<1>3. r = IF o.long THEN Closed(st, N, ms) ELSE st
  BY DEF Ended
<1> HIDE DEF r
<1>4. CASE Idle(sound, ms, N, st)
  <2>1. ~o.long /\ RightUpTo(sound, ms, N, st.segments, st.confirmed)
    BY <1>4 DEF Idle, Quiet
  <2>2. RightUpTo(sound, ms, N, r.segments, r.confirmed)
    BY <1>3, <2>1
  <2> QED
    BY <2>2 DEF r
<1>5. CASE Open(sound, ms, N, st)
  <2> DEFINE base == o.start
             s == o.silent
  <2>1. /\ base \in 0..(N - 1) /\ o.voiced = V[N] - V[base]
        /\ RightUpTo(sound, ms, base, st.segments, st.confirmed)
        /\ IF o.long THEN Long(sound, base, N, s) ELSE Short(sound, base, N) /\ o.run = N - base
    BY <1>5 DEF Open
  <2>2. base \in 0..N /\ base \in 0..Len(sound) /\ base \in Int
    BY <1>1, <2>1
  <2>3. Sealed(sound, base)
    BY <2>1 DEF RightUpTo
  <2>4. CASE ~o.long
    <3>1. Short(sound, base, N) /\ r = st
      BY <1>3, <2>1, <2>4
    <3>2. RightUpTo(sound, ms, N, st.segments, st.confirmed)
      <4> HIDE DEF base
      <4>1. \A a \in (base + 1)..N : ~InRun(sound, a)
        BY <1>1, <2>2, <2>3, <3>1, ShortIsNoRun
      <4> QED
        BY <1>1, <1>2, <2>1, <2>2, <4>1, Skipped
    <3> QED
      BY <3>1, <3>2 DEF r
  <2>5. CASE o.long
    <3>1. /\ r.segments = AppendSegment(st.segments, base * Chunk - Padding, (N - s) * Chunk + Padding, ms)
          /\ r.confirmed = st.confirmed + o.voiced
      BY <1>3, <2>5 DEF Closed
    <3>2. Sealed(sound, N) /\ \A i \in (N + 1)..N : ~sound[i]
      BY <1>1 DEF Sealed
    <3>3. Long(sound, base, N, s) /\ s \in Nat
      BY <1>2, <2>1, <2>5
    <3> HIDE DEF base, s
    <3>4. RightUpTo(sound, ms, N,
               AppendSegment(st.segments, base * Chunk - Padding, (N - s) * Chunk + Padding, ms),
               st.confirmed + (V[N] - V[base]))
      BY <1>1, <1>2, <2>1, <2>2, <3>2, <3>3, CandidateCloses
    <3> HIDE DEF V, o
    <3>5. RightUpTo(sound, ms, N, r.segments, r.confirmed)
      BY <2>1, <3>1, <3>4
    <3> QED
      BY <3>5 DEF r
  <2> QED
    BY <1>2, <2>4, <2>5
<1> QED
  BY <1>4, <1>5

(* Voice detection tells what is heard.                                      *)
LEMMA AggregatedTells ==
  ASSUME NEW sound \in Seq(BOOLEAN), NEW ms \in Nat, \A n \in 1..Len(sound) : ChunkMs(ms, n) >= 0
  PROVE  LET v == Aggregated(sound, ms) IN
         /\ \A t \in 0..(ms - 1) : Told(v.segments, t) = Covered(sound, HeardChunks(sound), t)
         /\ v.confirmed = Lasting(HeardChunks(sound), ms, Len(sound))[Len(sound)]
<1> DEFINE N == Len(sound)
           v == Aggregated(sound, ms)
<1>1. PICK F : /\ ScanOf(F, sound, ms)
               /\ Ended(F[N], N, ms) \in Scans(ms)
               /\ v.segments = Ended(F[N], N, ms).segments
               /\ v.confirmed = Ended(F[N], N, ms).confirmed
  BY AggregatedIs
<1> HIDE DEF v
<1> DEFINE D == {n \in 0..N : Idle(sound, ms, n, F[n]) \/ Open(sound, ms, n, F[n])}
<1>2. N \in Nat
  OBVIOUS
<1>3. 0 \in D
  <2>1. F[0] = [segments |-> <<>>, confirmed |-> 0, open |-> Quiet]
    BY <1>1 DEF ScanOf
  <2>2. F[0].segments = <<>> /\ F[0].confirmed = 0 /\ F[0].open = Quiet
    BY <2>1
  <2>3. Idle(sound, ms, 0, F[0])
    BY <2>2, IdleAtFirst
  <2> QED
    BY <1>2, <2>3
<1>4. ASSUME NEW n \in 1..N, n - 1 \in D
      PROVE  n \in D
  <2>1. F[n - 1] \in Scans(ms) /\ n \in 0..N
    <3>1. n - 1 \in 0..N
      BY <1>2
    <3> QED
      BY <1>1, <3>1 DEF ScanOf
  <2>2. Idle(sound, ms, n - 1, F[n - 1]) \/ Open(sound, ms, n - 1, F[n - 1])
    BY <1>4
  <2>3. F[n] = IF sound[n] THEN Voiced(F[n - 1], n - 1, ms) ELSE Unvoiced(F[n - 1], n - 1, ms)
    BY <1>1 DEF ScanOf
  <2> DEFINE st == F[n - 1]
  <2> HIDE DEF D
  <2>4. CASE sound[n]
    <3>1. F[n] = Voiced(st, n - 1, ms)
      BY <2>3, <2>4
    <3>2. st \in Scans(ms) /\ (Idle(sound, ms, n - 1, st) \/ Open(sound, ms, n - 1, st))
      BY <2>1, <2>2
    <3> HIDE DEF st
    <3>3. Open(sound, ms, n, Voiced(st, n - 1, ms))
      BY <2>4, <3>2, VoicedStep
    <3>4. Open(sound, ms, n, F[n])
      BY <3>1, <3>3
    <3> QED
      BY <2>1, <3>4 DEF D
  <2>5. CASE ~sound[n]
    <3>1. F[n] = Unvoiced(st, n - 1, ms)
      BY <2>3, <2>5
    <3>2. st \in Scans(ms) /\ (Idle(sound, ms, n - 1, st) \/ Open(sound, ms, n - 1, st))
      BY <2>1, <2>2
    <3> HIDE DEF st
    <3> DEFINE r == Unvoiced(st, n - 1, ms)
    <3>3. Idle(sound, ms, n, r) \/ Open(sound, ms, n, r)
      BY <2>5, <3>2, UnvoicedStep
    <3>4. F[n] = r
      BY <3>1
    <3> HIDE DEF r
    <3>5. Idle(sound, ms, n, F[n]) \/ Open(sound, ms, n, F[n])
      BY <3>3, <3>4
    <3> QED
      BY <2>1, <3>5 DEF D
  <2> QED
    BY <2>4, <2>5
<1> HIDE DEF D
<1>5. N \in D
  <2>1. \A n \in 0..N : n \in D
    <3> HIDE DEF N
    <3> QED
      BY <1>2, <1>3, <1>4, Induct
  <2> QED
    BY <1>2, <2>1
<1> DEFINE last == F[N]
           r == Ended(last, N, ms)
<1>6. last \in Scans(ms) /\ (Idle(sound, ms, N, last) \/ Open(sound, ms, N, last))
  <2>1. \A n \in 0..N : F[n] \in Scans(ms)
    BY <1>1 DEF ScanOf
  <2> QED
    BY <1>2, <1>5, <2>1 DEF D
<1>10. v.segments = r.segments /\ v.confirmed = r.confirmed
  BY <1>1
<1>7. RightUpTo(sound, ms, N, r.segments, r.confirmed)
  <2> HIDE DEF last
  <2> QED
    BY <1>6, EndedTells
<1> HIDE DEF r, last
<1>8. RightUpTo(sound, ms, N, v.segments, v.confirmed)
  BY <1>7, <1>10
<1>9. \A t \in 0..(ms - 1) : Told(v.segments, t) = Covered(sound, HeardChunks(sound), t)
  <2> TAKE t \in 0..(ms - 1)
  <2>1. Told(v.segments, t) <=> CoveredUpTo(sound, N, t)
    BY <1>8 DEF RightUpTo
  <2>2. Covered(sound, HeardChunks(sound), t) <=> CoveredUpTo(sound, N, t)
    BY CoveredInAll
  <2>3. Told(v.segments, t) \in BOOLEAN /\ Covered(sound, HeardChunks(sound), t) \in BOOLEAN
    BY DEF Told, Covered
  <2> QED
    BY <2>1, <2>2, <2>3
<1>11. v.confirmed = Lasting(HeardChunks(sound), ms, N)[N]
  BY <1>8 DEF RightUpTo
<1> QED
  BY <1>9, <1>11 DEF v

(* Every chunk of the sound that is read begins within it.                   *)
LEMMA SoundChunks ==
  ASSUME NEW m \in Medium, m.ms \in Nat
  PROVE  \A n \in 1..Len(Sound(m)) : ChunkMs(SoundMs(m), n) >= 0
<1> DEFINE u == UpTo(m.soundMs, m.ms)
           k == (u + Chunk - 1) \div Chunk
<1>1. m.sound \in Seq(BOOLEAN) /\ m.soundMs \in Nat
  BY DEF Medium
<1>2. u \in Nat /\ SoundMs(m) = u
  BY <1>1, UpToIs DEF SoundMs
<1>3. Chunk \in Nat \ {0}
  BY ChunkProduct
<1>4. Sound(m) = SubSeq(m.sound, 1, k)
  BY DEF Sound
<1> HIDE DEF u
<1>5. k \in Int /\ k * Chunk <= u + Chunk - 1
  BY <1>2, <1>3, Z3
<1> HIDE DEF k
<1>6. Len(Sound(m)) = IF 1 <= k THEN k ELSE 0
  <2>1. Sound(m) = [i \in 1..(IF 1 <= k THEN k - 1 + 1 ELSE 0) |-> m.sound[i]]
    BY <1>1, <1>4, <1>5
  <2>2. (IF 1 <= k THEN k - 1 + 1 ELSE 0) = IF 1 <= k THEN k ELSE 0
    BY <1>5
  <2> DEFINE l == IF 1 <= k THEN k ELSE 0
  <2>3. l \in Nat
    BY <1>5
  <2>4. Sound(m) = [i \in 1..l |-> m.sound[i]]
    BY <2>1, <2>2
  <2> HIDE DEF l
  <2>5. Len(Sound(m)) = l
    BY <2>3, <2>4
  <2> QED
    BY <2>5 DEF l
<1>7. ASSUME NEW n \in 1..Len(Sound(m)) PROVE ChunkMs(u, n) >= 0
  <2>1. n \in Int /\ n <= k /\ n >= 1
    BY <1>5, <1>6
  <2> DEFINE p == n - 1
  <2>2. p \in Int /\ p <= k - 1 /\ k - 1 \in Int /\ p <= n
    BY <1>5, <2>1
  <2>3. (k - 1) * Chunk = k * Chunk - Chunk /\ k * Chunk \in Int /\ (k - 1) * Chunk \in Int
    BY <1>3, <1>5, Z3
  <2>4. ChunkMs(u, n) = UpTo(u, n * Chunk) - p * Chunk
    BY DEF ChunkMs
  <2> HIDE DEF p
  <2>5. p * Chunk \in Int /\ n * Chunk \in Int /\ p * Chunk <= n * Chunk
    BY <2>1, <2>2, ChunkOrder
  <2>6. p * Chunk <= (k - 1) * Chunk
    BY <2>2, ChunkOrder
  <2>7. p * Chunk <= u
    BY <1>2, <1>3, <1>5, <2>3, <2>5, <2>6
  <2>8. p * Chunk <= UpTo(u, n * Chunk) /\ UpTo(u, n * Chunk) \in Int
    BY <1>2, <2>5, <2>7, UpToIs
  <2> QED
    BY <2>4, <2>5, <2>8
<1> QED
  BY <1>2, <1>7

(* What voice detection left is what it makes of the file's sound.           *)
VoiceInv ==
    voice # Unknown =>
        /\ medium \in Medium /\ medium.ms \in Nat
        /\ voice = Aggregated(Sound(medium), SoundMs(medium))

(* That is what the property says.                                           *)
LEMMA VoiceIsWhereHeard ==
  ASSUME VoiceInv
  PROVE  SpeechIsWhereHeard
<1> SUFFICES ASSUME voice # Unknown PROVE SpeechIsWhereHeard
  BY DEF SpeechIsWhereHeard
<1> DEFINE sound == Sound(medium)
           ms == SoundMs(medium)
<1>1. /\ medium \in Medium /\ medium.ms \in Nat /\ voice = Aggregated(sound, ms)
      /\ sound \in Seq(BOOLEAN) /\ ms \in Nat
  BY SoundType DEF VoiceInv
<1>2. \A n \in 1..Len(sound) : ChunkMs(ms, n) >= 0
  BY <1>1, SoundChunks
<1> HIDE DEF sound, ms
<1>3. voice.segments \in Segments(ms)
  BY <1>1, AggregatedType
<1>4. \A i \in DOMAIN voice.segments :
        /\ i > 1 => voice.segments[i - 1][2] < voice.segments[i][1]
        /\ voice.segments[i][2] <= ms
  BY <1>3 DEF Segments
<1>5. /\ \A t \in 0..(ms - 1) : Told(voice.segments, t) = Covered(sound, HeardChunks(sound), t)
      /\ voice.confirmed = Lasting(HeardChunks(sound), ms, Len(sound))[Len(sound)]
  BY <1>1, <1>2, AggregatedTells
<1> QED
  BY <1>4, <1>5 DEF SpeechIsWhereHeard, sound, ms

(* The only step that detects a voice.                                       *)
LEMMA AnalyzeSpeechTells ==
  ASSUME MediaInv, VoiceInv, AnalyzeSpeech
  PROVE  VoiceInv'
<1>1. medium' = medium /\ phase \in Way
  BY DEF AnalyzeSpeech, Refused, Way, Known
<1>2. CASE voice' = voice
  BY <1>1, <1>2 DEF VoiceInv
<1>3. CASE voice' # voice
  <2>1. facts.kind # "image" /\ voice' = Aggregated(Sound(medium), SoundMs(medium))
    BY <1>3 DEF AnalyzeSpeech, Refused
  <2>2. medium \in Medium /\ facts.ms = medium.ms /\ Lasts(facts)
    BY <1>1, <2>1, FactsOnTheWay
  <2>3. medium.ms \in Nat
    BY <2>2, AnalysisAssumption DEF Lasts
  <2> QED
    BY <1>1, <2>1, <2>2, <2>3 DEF VoiceInv
<1> QED
  BY <1>2, <1>3

(* Voice detection, one pass with counters, tells of exactly what is heard   *)
(* in the sound, in segments apart and in order: SpeechIsWhereHeard.         *)
THEOREM SpeechIsWhereHeardHolds == WholeSpec => []SpeechIsWhereHeard
<1>1. WholeInit => MediaInv /\ VoiceInv
  BY DEF WholeInit, PlanInit, MediaInit, MediaInv, DownstreamAccepts, Way, Known, VoiceInv
<1>2. MediaInv /\ VoiceInv /\ [WholeNext]_allVars => MediaInv' /\ VoiceInv'
  <2> SUFFICES ASSUME MediaInv, VoiceInv, [WholeNext]_allVars PROVE MediaInv' /\ VoiceInv'
    OBVIOUS
  <2>1. MediaInv'
    BY MediaStepKeeps
  <2>2. VoiceInv'
    <3>1. CASE AnalyzeSpeech
      BY <3>1, AnalyzeSpeechTells
    <3>2. CASE HandOver
      BY <3>2 DEF HandOver, VoiceInv
    <3>3. CASE UNCHANGED <<medium, voice>>
      BY <3>3 DEF VoiceInv
    <3>4. Probe \/ Register \/ Describe \/ ProveSource \/ ExtractFrames \/ Understand
            \/ Snapshot \/ MatchScript \/ StoreAnalysis => UNCHANGED <<medium, voice>>
      BY DEF Probe, Register, Describe, ProveSource, ExtractFrames, Understand, Snapshot, MatchScript,
             StoreAnalysis, Refused
    <3> QED
      BY <3>1, <3>2, <3>3, <3>4 DEF WholeNext, MediaNext, NotPrepared, allVars, mediaVars
  <2> QED
    BY <2>1, <2>2
<1>3. VoiceInv => SpeechIsWhereHeard
  BY VoiceIsWhereHeard
<1> QED
  BY <1>1, <1>2, <1>3, PTL DEF WholeSpec

-----------------------------------------------------------------------------
(* The cut *)

(* A sequence, whatever of.                                                  *)
Listed(s) == s \in Seq({s[k] : k \in DOMAIN s})

(* A sequence is a function on its first naturals.                            *)
LEMMA ListedIs ==
  ASSUME NEW s, Listed(s)
  PROVE  Len(s) \in Nat /\ DOMAIN s = 1..Len(s)
BY DEF Listed

(* A function on the first naturals is a sequence.                            *)
LEMMA ListedFrom ==
  ASSUME NEW n \in Nat, NEW s, s = [k \in 1..n |-> s[k]]
  PROVE  Listed(s) /\ Len(s) = n /\ DOMAIN s = 1..n
<1>1. \A k \in 1..n : s[k] \in {s[j] : j \in 1..n}
  OBVIOUS
<1>2. DOMAIN s = 1..n
  OBVIOUS
<1> DEFINE S == {s[j] : j \in 1..n}
<1> HIDE DEF S
<1>3. \A k \in 1..n : s[k] \in S
  BY <1>1 DEF S
<1>4. s \in Seq(S)
  BY <1>3
<1>5. Listed(s)
  BY <1>2, <1>4 DEF Listed, S
<1> QED
  BY <1>2, <1>4, <1>5

(* A sequence of elements of a set is a sequence.                             *)
LEMMA ListedSeq ==
  ASSUME NEW S, NEW s \in Seq(S)
  PROVE  Listed(s)
<1>1. Len(s) \in Nat /\ s = [k \in 1..Len(s) |-> s[k]]
  OBVIOUS
<1> QED
  BY <1>1, ListedFrom

(* A clip the frame grid can be counted from.                                *)
IsClip(c) == c.start \in Int /\ c.dur \in Int /\ c.trans \in Nat

Under(t, c) == \E j \in DOMAIN t.visual : t.visual[j].start = c.start

Shaped(t) ==
    /\ t.dur \in Int
    /\ Listed(t.visual) /\ Listed(t.narration) /\ Listed(t.ambient) /\ Listed(t.music)
    /\ Listed(t.caption)
    /\ \A k \in DOMAIN t.visual : IsClip(t.visual[k])
    /\ \A k \in DOMAIN t.caption : IsClip(t.caption[k]) /\ Under(t, t.caption[k])

(* The fields of a clip.                                                      *)
LEMMA ClipIs ==
  ASSUME NEW src, NEW start, NEW dur, NEW win, NEW trans, NEW mode
  PROVE  LET c == Clip(src, start, dur, win, trans, mode) IN
         c.src = src /\ c.start = start /\ c.dur = dur /\ c.win = win /\ c.trans = trans /\ c.mode = mode
BY DEF Clip

(* The first cut is laid out from its paragraphs.                            *)
LEMMA CreateTimelineShaped ==
  ASSUME NEW ps, Listed(ps), \A k \in DOMAIN ps : ps[k].dur \in Int
  PROVE  Shaped(CreateTimeline(ps))
<1> DEFINE t == CreateTimeline(ps)
           n == Len(ps)
           ids == [k \in DOMAIN ps |-> k]
           Of(kind) == Among(ids, {k \in DOMAIN ps : ps[k].kind = kind})
<1>1. n \in Nat /\ DOMAIN ps = 1..n
  BY ListedIs
<1>2. /\ \A k \in 0..n : Elapsed(ps)[k] \in Int
  BY <1>1, ElapsedType
<1>3. ASSUME NEW kind
      PROVE  Listed(Of(kind))
  <2>1. ids \in Seq(1..n)
    BY <1>1
  <2>2. Of(kind) \in Seq((1..n) \cap {k \in DOMAIN ps : ps[k].kind = kind})
    BY <2>1, AmongType
  <2> HIDE DEF Of
  <2> QED
    BY <2>2, ListedSeq
<1> HIDE DEF Of
<1>4. /\ t.dur = Elapsed(ps)[Len(ps)]
      /\ t.visual = [k \in DOMAIN ps |-> Clip(ps[k].visual, Elapsed(ps)[k - 1], ps[k].dur, ps[k].win, 0, None)]
      /\ t.narration = [j \in DOMAIN Of("narrated") |->
            Clip(ps[Of("narrated")[j]].audio, Elapsed(ps)[Of("narrated")[j] - 1], ps[Of("narrated")[j]].dur,
                 <<0, ps[Of("narrated")[j]].dur>>, 0, None)]
      /\ t.ambient = [j \in DOMAIN Of("original_speech") |->
            Clip(ps[Of("original_speech")[j]].audio, Elapsed(ps)[Of("original_speech")[j] - 1],
                 ps[Of("original_speech")[j]].dur, ps[Of("original_speech")[j]].win, 0, "auto_duck")]
      /\ t.music = <<>>
      /\ t.caption = [k \in DOMAIN ps |-> Clip(None, Elapsed(ps)[k - 1], ps[k].dur, None, 0, None)]
  BY DEF CreateTimeline, Of
<1> HIDE DEF t
<1>5. Listed(t.visual) /\ DOMAIN t.visual = 1..n /\ Listed(t.caption) /\ DOMAIN t.caption = 1..n
  <2>1. t.visual = [k \in 1..n |-> t.visual[k]] /\ t.caption = [k \in 1..n |-> t.caption[k]]
    BY <1>1, <1>4
  <2> HIDE DEF n
  <2> QED
    BY <1>1, <2>1, ListedFrom
<1>6. Listed(t.narration) /\ Listed(t.ambient)
  <2>1. /\ Len(Of("narrated")) \in Nat /\ DOMAIN Of("narrated") = 1..Len(Of("narrated"))
        /\ Len(Of("original_speech")) \in Nat
        /\ DOMAIN Of("original_speech") = 1..Len(Of("original_speech"))
    BY <1>3, ListedIs
  <2>2. /\ t.narration = [k \in 1..Len(Of("narrated")) |-> t.narration[k]]
        /\ t.ambient = [k \in 1..Len(Of("original_speech")) |-> t.ambient[k]]
    BY <1>4, <2>1
  <2> QED
    BY <2>1, <2>2, ListedFrom
<1>7. Listed(t.music)
  <2>1. <<>> \in Seq({})
    OBVIOUS
  <2> QED
    BY <1>4, <2>1, ListedSeq
<1>8. ASSUME NEW k \in 1..n
      PROVE  /\ t.visual[k].start = Elapsed(ps)[k - 1] /\ t.caption[k].start = Elapsed(ps)[k - 1]
             /\ t.visual[k].dur = ps[k].dur /\ t.caption[k].dur = ps[k].dur
             /\ t.visual[k].trans = 0 /\ t.caption[k].trans = 0
  BY <1>1, <1>4, ClipIs
<1>9. ASSUME NEW k \in 1..n
      PROVE  IsClip(t.visual[k]) /\ IsClip(t.caption[k])
  <2>1. k - 1 \in 0..n
    BY <1>1
  <2> QED
    BY <1>1, <1>2, <1>8, <2>1 DEF IsClip
<1>10. \A k \in 1..n : Under(t, t.caption[k])
  BY <1>5, <1>8 DEF Under
<1>11. t.dur \in Int
  BY <1>1, <1>2, <1>4
<1> QED
  BY <1>5, <1>6, <1>7, <1>9, <1>10, <1>11 DEF Shaped, t

(* The minimum of two numbers is a number.                                    *)
LEMMA MinIs ==
  ASSUME NEW a \in Int, NEW b \in Int
  PROVE  Min({a, b}) \in Int
<1>1. CASE a <= b
  <2>1. a \in {a, b} /\ \A x \in {a, b} : a <= x
    BY <1>1
  <2>2. \A m \in {a, b} : (\A x \in {a, b} : m <= x) => m = a
    BY <1>1
  <2> QED
    BY <2>1, <2>2 DEF Min
<1>2. CASE b < a
  <2>1. b \in {a, b} /\ \A x \in {a, b} : b <= x
    BY <1>2
  <2>2. \A m \in {a, b} : (\A x \in {a, b} : m <= x) => m = b
    BY <1>2
  <2> QED
    BY <2>1, <2>2 DEF Min
<1> QED
  BY <1>1, <1>2

(* A cut of the user's own is laid out again, its captions under its pictures. *)
LEMMA RecutShaped ==
  ASSUME NEW t, Shaped(t), NEW trans \in [DOMAIN t.visual -> Nat], NEW still \in Nat,
         NEW mode, NEW music, NEW read \in BOOLEAN, t.visual # <<>>
  PROVE  Shaped(Recut(t, trans, still, mode, music, read))
<1> DEFINE u == Recut(t, trans, still, mode, music, read)
           n == Len(t.visual)
           Dur(k) == IF t.visual[k].win = None THEN still ELSE t.visual[k].dur
           Alone(k) == Dur(k) - (IF k < n THEN trans[k + 1] ELSE 0)
           alone == [j \in 1..n |-> [dur |-> Alone(j)]]
           Begin(k) == Elapsed(alone)[k - 1]
           Picture(k) == Clip(t.visual[k].src, Begin(k), Dur(k), t.visual[k].win, trans[k], None)
           Lower(c) == CHOOSE k \in 1..n : t.visual[k].start = c.start
           Fitted(c, m) == LET d == Min({c.dur, Alone(Lower(c))}) IN
                        Clip(c.src, Begin(Lower(c)), d,
                             IF c.win = None THEN None ELSE <<c.win[1], c.win[1] + d>>, 0, m)
           Refit(cs, m) == [k \in DOMAIN cs |-> Fitted(cs[k], m)]
           total == Begin(n) + Dur(n)
<1>1. n \in Nat /\ DOMAIN t.visual = 1..n /\ n >= 1
      /\ \A k \in 1..n : IsClip(t.visual[k]) /\ trans[k] \in Nat
  <2>1. Listed(t.visual) /\ \A k \in DOMAIN t.visual : IsClip(t.visual[k])
    BY DEF Shaped
  <2>2. n \in Nat /\ DOMAIN t.visual = 1..n
    BY <2>1, ListedIs
  <2>3. n # 0
    BY <2>1 DEF Listed
  <2> QED
    BY <2>1, <2>2, <2>3
<1>2. \A k \in 1..n : Dur(k) \in Int /\ Alone(k) \in Int
  <2> TAKE k \in 1..n
  <2>1. Dur(k) \in Int
    BY <1>1 DEF IsClip
  <2>2. k < n => trans[k + 1] \in Nat
    <3>1. k < n => k + 1 \in 1..n
      BY <1>1
    <3> QED
      BY <1>1, <3>1
  <2> HIDE DEF Dur, n
  <2> QED
    BY <2>1, <2>2
<1>3. /\ u.dur = total
      /\ u.visual = [k \in 1..n |-> Picture(k)]
      /\ u.narration = Refit(t.narration, None)
      /\ u.ambient = Refit(t.ambient, mode)
      /\ u.music = IF music = None THEN <<>> ELSE <<Clip(music, 0, total, <<0, total>>, 0, None)>>
      /\ u.caption = IF read THEN Refit(t.caption, None) ELSE <<>>
  BY DEF Recut
<1>4. \A k \in 1..n : Begin(k) \in Int
  <2>1. alone = [j \in 1..n |-> alone[j]] /\ \A j \in 1..n : alone[j].dur = Alone(j)
    OBVIOUS
  <2> HIDE DEF Alone
  <2>2. \A j \in 1..n : alone[j].dur \in Int
    BY <1>2, <2>1
  <2> HIDE DEF alone, n
  <2>3. Len(alone) = n
    BY <1>1, <2>1, ListedFrom
  <2>4. \A k \in 0..n : Elapsed(alone)[k] \in Int
    BY <1>1, <2>2, <2>3, ElapsedType
  <2> TAKE k \in 1..n
  <2>5. k - 1 \in 0..n
    BY <1>1
  <2> QED
    BY <2>4, <2>5
<1> HIDE DEF Begin, Alone, Dur, n, u
<1>5. total \in Int
  BY <1>1, <1>2, <1>4
<1>6. \A k \in 1..n : /\ u.visual[k].start = Begin(k) /\ u.visual[k].dur = Dur(k)
                      /\ u.visual[k].trans = trans[k]
  <2> TAKE k \in 1..n
  <2>1. u.visual[k] = Picture(k)
    BY <1>3
  <2>2. /\ Picture(k).start = Begin(k) /\ Picture(k).dur = Dur(k)
        /\ Picture(k).trans = trans[k]
    BY ClipIs
  <2> QED
    BY <2>1, <2>2
<1>7. Listed(u.visual) /\ DOMAIN u.visual = 1..n /\ \A k \in 1..n : IsClip(u.visual[k])
  <2>1. u.visual = [k \in 1..n |-> u.visual[k]]
    BY <1>3
  <2>2. Listed(u.visual) /\ DOMAIN u.visual = 1..n
    BY <1>1, <2>1, ListedFrom
  <2>3. \A k \in 1..n : IsClip(u.visual[k])
    BY <1>1, <1>2, <1>4, <1>6 DEF IsClip
  <2> QED
    BY <2>2, <2>3
<1>8. ASSUME NEW cs, Listed(cs), NEW m
      PROVE  Listed(Refit(cs, m)) /\ DOMAIN Refit(cs, m) = DOMAIN cs
  <2>1. Len(cs) \in Nat /\ DOMAIN cs = 1..Len(cs)
    BY <1>8, ListedIs
  <2>2. Refit(cs, m) = [k \in 1..Len(cs) |-> Refit(cs, m)[k]]
    BY <2>1
  <2> HIDE DEF Refit
  <2> QED
    BY <2>1, <2>2, ListedFrom
<1>9. ASSUME NEW c, IsClip(c), Under(t, c), NEW m
      PROVE  IsClip(Fitted(c, m)) /\ Under(u, Fitted(c, m))
  <2>1. Lower(c) \in 1..n
    BY <1>1, <1>9 DEF Under
  <2> HIDE DEF Lower
  <2>2. Alone(Lower(c)) \in Int /\ Begin(Lower(c)) \in Int /\ c.dur \in Int
    BY <1>2, <1>4, <1>9, <2>1 DEF IsClip
  <2>3. Min({c.dur, Alone(Lower(c))}) \in Int
    BY <2>2, MinIs
  <2>4. Fitted(c, m).start = Begin(Lower(c)) /\ Fitted(c, m).dur = Min({c.dur, Alone(Lower(c))})
        /\ Fitted(c, m).trans = 0
    BY ClipIs
  <2> HIDE DEF Fitted
  <2>5. IsClip(Fitted(c, m))
    BY <2>2, <2>3, <2>4 DEF IsClip
  <2>6. Under(u, Fitted(c, m))
    BY <1>6, <1>7, <2>1, <2>4 DEF Under
  <2> QED
    BY <2>5, <2>6
<1>10. Listed(u.narration) /\ Listed(u.ambient)
  <2>1. Listed(t.narration) /\ Listed(t.ambient)
    BY DEF Shaped
  <2> HIDE DEF Refit
  <2> QED
    BY <1>3, <1>8, <2>1
<1>11. Listed(<<>>)
  <2>1. <<>> \in Seq({})
    OBVIOUS
  <2> QED
    BY <2>1, ListedSeq
<1>12. Listed(u.music)
  <2> DEFINE x == Clip(music, 0, total, <<0, total>>, 0, None)
  <2>1. u.music \in {<<>>, <<x>>}
    BY <1>3
  <2> HIDE DEF x
  <2>2. <<x>> \in Seq({x})
    OBVIOUS
  <2>3. Listed(<<x>>)
    BY <2>2, ListedSeq
  <2> QED
    BY <1>11, <2>1, <2>3
<1>13. Listed(u.caption) /\ \A k \in DOMAIN u.caption : IsClip(u.caption[k]) /\ Under(u, u.caption[k])
  <2>1. CASE read
    <3>1. Listed(t.caption) /\ \A k \in DOMAIN t.caption : IsClip(t.caption[k]) /\ Under(t, t.caption[k])
      BY DEF Shaped
    <3>2. u.caption = Refit(t.caption, None)
      BY <1>3, <2>1
    <3>3. Listed(u.caption) /\ DOMAIN u.caption = DOMAIN t.caption
      <4> HIDE DEF Refit
      <4> QED
        BY <1>8, <3>1, <3>2
    <3>4. \A k \in DOMAIN t.caption : u.caption[k] = Fitted(t.caption[k], None)
      <4> HIDE DEF Fitted
      <4> QED
        BY <3>2
    <3> HIDE DEF Fitted
    <3> QED
      BY <1>9, <3>1, <3>3, <3>4
  <2>2. CASE ~read
    <3>1. u.caption = <<>>
      BY <1>3, <2>2
    <3> QED
      BY <1>11, <3>1
  <2> QED
    BY <2>1, <2>2
<1>14. u.dur \in Int
  BY <1>3, <1>5
<1> QED
  BY <1>7, <1>10, <1>12, <1>13, <1>14 DEF Shaped, u

-----------------------------------------------------------------------------
(* The frame grid *)

(* A frame is the time to within half a frame.                                *)
LEMMA FrameAtIs ==
  ASSUME NEW ms \in Int, NEW fps \in Nat
  PROVE  /\ FrameAt(ms, fps) \in Int
         /\ 1000 * FrameAt(ms, fps) <= ms * fps + 500
         /\ ms * fps + 500 < 1000 * FrameAt(ms, fps) + 1000
<1>1. ms * fps \in Int
  OBVIOUS
<1> DEFINE p == ms * fps
<1> HIDE DEF p
<1>2. \A x \in Int : /\ (x + 500) \div 1000 \in Int
                     /\ 1000 * ((x + 500) \div 1000) <= x + 500
                     /\ x + 500 < 1000 * ((x + 500) \div 1000) + 1000
  OBVIOUS
<1>3. p \in Int
  BY <1>1 DEF p
<1> QED
  BY <1>2, <1>3 DEF FrameAt, p

(* A frame is a number.                                                       *)
LEMMA FrameAtType == \A ms \in Int : \A fps \in Nat : FrameAt(ms, fps) \in Int
BY FrameAtIs

(* The first frame is at the beginning.                                       *)
LEMMA FrameAtZero ==
  ASSUME NEW fps \in Nat
  PROVE  FrameAt(0, fps) = 0
<1>1. 0 * fps = 0
  OBVIOUS
<1>2. (0 + 500) \div 1000 = 0
  OBVIOUS
<1> QED
  BY <1>1, <1>2 DEF FrameAt

(* What lasts so long has so many frames, to within one.                     *)
LEMMA FrameSpan ==
  ASSUME NEW a \in Int, NEW b \in Int, NEW fps \in Nat
  PROVE  ToTheFrame(FrameAt(b, fps) - FrameAt(a, fps), b - a, fps)
<1>1. a * fps \in Int /\ b * fps \in Int /\ (b - a) * fps = b * fps - a * fps
  BY Z3
<1> DEFINE x == a * fps
           y == b * fps
           z == (b - a) * fps
           f == FrameAt(a, fps)
           g == FrameAt(b, fps)
<1>2. f \in Int /\ g \in Int /\ 1000 * f <= x + 500 /\ x + 500 < 1000 * f + 1000
      /\ 1000 * g <= y + 500 /\ y + 500 < 1000 * g + 1000
  BY FrameAtIs
<1>3. x \in Int /\ y \in Int /\ z = y - x
  BY <1>1
<1> HIDE DEF x, y, z, f, g
<1>4. 1000 * (g - f) - z \in (-1000)..1000
  BY <1>2, <1>3
<1> QED
  BY <1>4 DEF z, f, g, ToTheFrame

(* The grid, by the pictures of the cut.                                     *)
Start(t, k) == t.visual[k].start
End(t, k) == t.visual[k].start + t.visual[k].dur

GridIs(t, fps) ==
    /\ Len(Grid(t, fps)) = Len(t.visual)
    /\ DOMAIN Grid(t, fps) = 1..Len(t.visual)
    /\ \A k \in 1..Len(t.visual) :
         /\ Start(t, k) \in Int /\ End(t, k) \in Int
         /\ Grid(t, fps)[k].start = FrameAt(Start(t, k), fps)
         /\ Grid(t, fps)[k].count = FrameAt(End(t, k), fps) - FrameAt(Start(t, k), fps)
         /\ t.visual[k].trans = 0 => Grid(t, fps)[k].trans = 0
         /\ t.visual[k].trans # 0 /\ k > 1 =>
              Grid(t, fps)[k].trans = FrameAt(End(t, k - 1), fps) - FrameAt(Start(t, k), fps)

(* The grid of a cut takes its frames from absolute times.                    *)
LEMMA GridOf ==
  ASSUME NEW t, Shaped(t), NEW fps \in Nat
  PROVE  GridIs(t, fps)
<1> DEFINE n == Len(t.visual)
           cs == VisualPlan(t)
           g == Grid(t, fps)
<1>1. n \in Nat /\ DOMAIN t.visual = 1..n /\ \A k \in 1..n : IsClip(t.visual[k])
  BY ListedIs DEF Shaped
<1>2. cs = [k \in 1..n |-> [kind |-> IF t.visual[k].win = None THEN "image" ELSE "video",
                            src |-> t.visual[k].src, start |-> t.visual[k].start,
                            dur |-> t.visual[k].dur, win |-> t.visual[k].win,
                            trans |-> t.visual[k].trans]]
  BY <1>1 DEF VisualPlan
<1>3. \A k \in 1..n : /\ cs[k].start = t.visual[k].start /\ cs[k].dur = t.visual[k].dur
                      /\ cs[k].trans = t.visual[k].trans
  BY <1>2
<1>4. DOMAIN cs = 1..n
  BY <1>2
<1>5. g = [k \in DOMAIN cs |-> GridClip(cs[k], IF k = 1 THEN cs[1] ELSE cs[k - 1], fps)]
  BY DEF Grid
<1> HIDE DEF cs, g, n
<1>6. g = [k \in 1..n |-> g[k]]
  BY <1>4, <1>5
<1>7. Len(g) = n /\ DOMAIN g = 1..n
  BY <1>1, <1>6, ListedFrom
<1>8. ASSUME NEW k \in 1..n
      PROVE  /\ Start(t, k) \in Int /\ End(t, k) \in Int
             /\ g[k].start = FrameAt(Start(t, k), fps)
             /\ g[k].count = FrameAt(End(t, k), fps) - FrameAt(Start(t, k), fps)
             /\ t.visual[k].trans = 0 => g[k].trans = 0
             /\ t.visual[k].trans # 0 /\ k > 1 =>
                  g[k].trans = FrameAt(End(t, k - 1), fps) - FrameAt(Start(t, k), fps)
  <2>1. Start(t, k) \in Int /\ End(t, k) \in Int
    BY <1>1 DEF IsClip, Start, End
  <2> DEFINE previous == IF k = 1 THEN cs[1] ELSE cs[k - 1]
  <2>2. g[k] = GridClip(cs[k], previous, fps)
    BY <1>4, <1>5
  <2>3. k > 1 => k - 1 \in 1..n /\ previous = cs[k - 1]
    BY <1>1
  <2> HIDE DEF previous
  <2>4. /\ g[k].start = FrameAt(cs[k].start, fps)
        /\ g[k].count = FrameAt(EndMs(cs[k]), fps) - FrameAt(cs[k].start, fps)
        /\ g[k].trans = IF cs[k].trans = 0 THEN 0
                        ELSE FrameAt(EndMs(previous), fps) - FrameAt(cs[k].start, fps)
    BY <2>2 DEF GridClip
  <2>5. cs[k].start = Start(t, k) /\ EndMs(cs[k]) = End(t, k)
        /\ (k > 1 => EndMs(previous) = End(t, k - 1))
    BY <1>3, <2>3 DEF Start, End, EndMs
  <2> QED
    BY <1>3, <2>1, <2>4, <2>5
<1> QED
  BY <1>7, <1>8 DEF GridIs, g, n

(* A grid that is not rejected has a frame for every clip and transition,    *)
(* and none that swallows the other.                                         *)
GridKept(t, fps) ==
    \A k \in 1..Len(t.visual) :
        /\ Grid(t, fps)[k].count >= 1
        /\ t.visual[k].trans # 0 =>
             Grid(t, fps)[k].trans >= 1 /\ Grid(t, fps)[k].trans < Grid(t, fps)[k].count

(* A grid that is not rejected lost nothing, and one that is names its reason. *)
LEMMA GridRejectionIs ==
  ASSUME NEW t, Shaped(t), t.visual # <<>>, t.visual[1].trans = 0, NEW fps \in Nat
  PROVE  /\ GridRejection(t, fps) \in Rejections \cup {None}
         /\ GridRejection(t, fps) = None => GridKept(t, fps)
<1> DEFINE n == Len(t.visual)
           cs == VisualPlan(t)
           g == Grid(t, fps)
           Why(k) == IF g[k].count < 1 THEN "CLIP_BELOW_ONE_FRAME"
                     ELSE IF cs[k].trans = 0 THEN None
                     ELSE IF g[k].trans < 1 THEN "TRANSITION_BELOW_ONE_FRAME"
                     ELSE IF g[k].trans >= g[k - 1].count - g[k - 1].trans \/ g[k].trans >= g[k].count
                          THEN "TRANSITION_SWALLOWS_CLIP" ELSE None
           rejected == {k \in DOMAIN g : Why(k) # None}
<1>1. n \in Nat /\ DOMAIN t.visual = 1..n
  BY ListedIs DEF Shaped
<1>2. DOMAIN g = 1..n /\ GridIs(t, fps)
  BY GridOf DEF GridIs
<1>3. GridRejection(t, fps) = IF rejected = {} THEN None ELSE Why(Min(rejected))
  BY DEF GridRejection
<1>4. \A k \in 1..n : cs[k].trans = t.visual[k].trans
  BY <1>1 DEF VisualPlan
<1>5. None \notin Rejections
  BY PlanningAssumption
<1> HIDE DEF g, cs, n
<1>6. \A k : Why(k) \in Rejections \cup {None}
  BY DEF Rejections
<1>7. ASSUME rejected # {}
      PROVE  Why(Min(rejected)) # None
  <2>1. rejected \in SUBSET Nat /\ \A k \in rejected : Why(k) # None
    BY <1>1, <1>2
  <2> HIDE DEF rejected
  <2> QED
    BY <1>7, <2>1, MinOf
<1>8. ASSUME rejected = {}
      PROVE  GridKept(t, fps)
  <2>1. \A k \in 1..n : Why(k) = None
    BY <1>2, <1>8
  <2> SUFFICES ASSUME NEW k \in 1..n
               PROVE  /\ g[k].count >= 1
                      /\ t.visual[k].trans # 0 => g[k].trans >= 1 /\ g[k].trans < g[k].count
    BY DEF GridKept, g, n
  <2>2. g[k].count \in Int
    <3>1. g[k].count = FrameAt(End(t, k), fps) - FrameAt(Start(t, k), fps)
          /\ End(t, k) \in Int /\ Start(t, k) \in Int
      BY <1>2 DEF GridIs, g, n
    <3>2. FrameAt(End(t, k), fps) \in Int /\ FrameAt(Start(t, k), fps) \in Int
      BY <3>1, FrameAtType
    <3> QED
      BY <3>1, <3>2
  <2>3. ~(g[k].count < 1)
    BY <1>5, <2>1 DEF Rejections
  <2>4. ASSUME t.visual[k].trans # 0
        PROVE  g[k].trans >= 1 /\ g[k].trans < g[k].count
    <3>1. k > 1
      <4>1. 1 \in 1..n
        BY <1>1
      <4> QED
        BY <1>1, <2>4
    <3>2. g[k].trans \in Int
      <4>1. k - 1 \in 1..n
        BY <1>1, <3>1
      <4>2. g[k].trans = FrameAt(End(t, k - 1), fps) - FrameAt(Start(t, k), fps)
            /\ End(t, k - 1) \in Int /\ Start(t, k) \in Int
        BY <1>2, <2>4, <3>1, <4>1 DEF GridIs, g, n
      <4>3. FrameAt(End(t, k - 1), fps) \in Int /\ FrameAt(Start(t, k), fps) \in Int
        BY <4>2, FrameAtType
      <4> QED
        BY <4>2, <4>3
    <3>3. ~(g[k].trans < 1) /\ ~(g[k].trans >= g[k].count)
      BY <1>4, <1>5, <2>1, <2>3, <2>4 DEF Rejections
    <3> QED
      BY <2>2, <3>2, <3>3
  <2> QED
    BY <2>2, <2>3, <2>4
<1> HIDE DEF Why, rejected
<1> QED
  BY <1>3, <1>5, <1>6, <1>7, <1>8

(* What ends where each clip of the grid ends is what is composed.           *)
LEMMA ComposedIs ==
  ASSUME NEW g, Len(g) \in Nat, NEW E, E = [n \in 0..Len(g) |-> E[n]], E[0] = 0,
         \A n \in 1..Len(g) :
            E[n] = (IF g[n].trans = 0 THEN E[n - 1] ELSE g[n].start) + g[n].count
  PROVE  ComposedFrames(g) = E[Len(g)]
<1> DEFINE N == Len(g)
           Then(x, n) == (IF g[n].trans = 0 THEN x ELSE g[n].start) + g[n].count
           Body(f) == [n \in 0..N |-> IF n = 0 THEN 0
                        ELSE (IF g[n].trans = 0 THEN f[n - 1] ELSE g[n].start) + g[n].count]
           F == CHOOSE f : f = Body(f)
<1>1. N \in Nat
  OBVIOUS
<1>2. \A f : Body(f) = [n \in 0..N |-> IF n = 0 THEN 0 ELSE Then(f[n - 1], n)]
  OBVIOUS
<1>3. E = Body(E)
  <2>1. \A n \in 1..N : E[n] = Then(E[n - 1], n)
    OBVIOUS
  <2>2. E = [n \in 0..N |-> E[n]] /\ E[0] = 0
    OBVIOUS
  <2> HIDE DEF Then, N, Body
  <2>3. ASSUME NEW n \in 0..N
        PROVE  E[n] = IF n = 0 THEN 0 ELSE Then(E[n - 1], n)
    <3>1. n = 0 \/ n \in 1..N
      BY <1>1
    <3> QED
      BY <2>1, <2>2, <3>1
  <2> QED
    BY <1>2, <2>2, <2>3
<1>4. F = Body(F)
  <2> HIDE DEF Body
  <2> QED
    BY <1>3
<1>5. ComposedFrames(g) = F[N]
  BY DEF ComposedFrames
<1>6. F = [n \in 0..N |-> IF n = 0 THEN 0 ELSE Then(F[n - 1], n)]
  BY <1>2, <1>4
<1>7. \A n \in 1..N : E[n] = Then(E[n - 1], n)
  OBVIOUS
<1> HIDE DEF F, N, Then
<1>8. \A n \in 0..N : n \in {m \in 0..N : F[m] = E[m]}
  <2> DEFINE D == {m \in 0..N : F[m] = E[m]}
  <2>1. 0 \in D
    <3>1. 0 \in 0..N /\ F[0] = 0
      BY <1>1, <1>6
    <3> QED
      BY <3>1
  <2>2. ASSUME NEW n \in 1..N, n - 1 \in D
        PROVE  n \in D
    <3>1. n \in 0..N /\ n # 0 /\ F[n - 1] = E[n - 1]
      BY <1>1, <2>2
    <3>2. F[n] = Then(F[n - 1], n) /\ E[n] = Then(E[n - 1], n)
      BY <1>6, <1>7, <3>1
    <3> QED
      BY <3>1, <3>2
  <2> HIDE DEF D
  <2>3. \A n \in 0..N : n \in D
    BY <1>1, <2>1, <2>2, Induct
  <2> QED
    BY <2>3 DEF D
<1> QED
  BY <1>1, <1>5, <1>8 DEF N

(* The pictures run end to end.                                              *)
LEMMA EndToEnd ==
  ASSUME NEW t, Shaped(t), TimelineOk(t)
  PROVE  /\ Len(t.visual) \in Nat \ {0} /\ DOMAIN t.visual = 1..Len(t.visual)
         /\ t.visual # <<>> /\ t.visual[1].trans = 0 /\ Start(t, 1) = 0
         /\ End(t, Len(t.visual)) = t.dur
         /\ \A k \in 1..Len(t.visual) :
              /\ Start(t, k) \in Int /\ End(t, k) \in Int /\ t.visual[k].dur = End(t, k) - Start(t, k)
              /\ t.visual[k].trans \in Nat
              /\ k > 1 => t.visual[k].trans = End(t, k - 1) - Start(t, k)
<1>1. PictureLayoutOk(t.visual) /\ EndMs(Last(t.visual)) = t.dur
  BY DEF TimelineOk
<1>2. Len(t.visual) \in Nat /\ DOMAIN t.visual = 1..Len(t.visual)
      /\ \A k \in 1..Len(t.visual) : IsClip(t.visual[k])
  BY ListedIs DEF Shaped
<1>3. t.visual # <<>> /\ t.visual[1].start = 0 /\ t.visual[1].trans = 0
      /\ \A k \in 2..Len(t.visual) : t.visual[k].start = EndMs(t.visual[k - 1]) - t.visual[k].trans
  BY <1>1 DEF PictureLayoutOk
<1>4. Len(t.visual) # 0
  BY <1>2, <1>3 DEF Shaped, Listed
<1>5. EndMs(t.visual[Len(t.visual)]) = t.dur
  BY <1>1 DEF Last
<1>6. \A k : EndMs(t.visual[k]) = End(t, k)
  BY DEF EndMs, End
<1>7. ASSUME NEW k \in 1..Len(t.visual)
      PROVE  /\ Start(t, k) \in Int /\ End(t, k) \in Int /\ t.visual[k].dur = End(t, k) - Start(t, k)
             /\ t.visual[k].trans \in Nat
  BY <1>2 DEF IsClip, Start, End
<1>8. ASSUME NEW k \in 1..Len(t.visual), k > 1
      PROVE  t.visual[k].trans = End(t, k - 1) - Start(t, k)
  <2>1. k \in 2..Len(t.visual) /\ k - 1 \in 1..Len(t.visual)
    BY <1>2, <1>8
  <2>2. Start(t, k) = End(t, k - 1) - t.visual[k].trans
    BY <1>3, <1>6, <2>1 DEF Start
  <2>3. End(t, k - 1) \in Int
    BY <1>7, <2>1
  <2> QED
    BY <1>7, <2>2, <2>3
<1> QED
  BY <1>2, <1>3, <1>4, <1>5, <1>6, <1>7, <1>8 DEF Start

(* The picture composed from a grid that is kept is as long as the cut.      *)
LEMMA ComposedIsCut ==
  ASSUME NEW t, Shaped(t), TimelineOk(t), NEW fps \in Nat, GridKept(t, fps)
  PROVE  ComposedFrames(Grid(t, fps)) = FrameAt(t.dur, fps)
<1> DEFINE n == Len(t.visual)
           g == Grid(t, fps)
           E == [k \in 0..n |-> IF k = 0 THEN 0 ELSE FrameAt(End(t, k), fps)]
<1>1. n \in Nat \ {0} /\ Start(t, 1) = 0 /\ End(t, n) = t.dur /\ t.visual[1].trans = 0
      /\ \A k \in 1..n :
              /\ Start(t, k) \in Int /\ End(t, k) \in Int /\ t.visual[k].trans \in Nat
              /\ k > 1 => t.visual[k].trans = End(t, k - 1) - Start(t, k)
  BY EndToEnd
<1>2. GridIs(t, fps)
  BY GridOf
<1>3. Len(g) = n /\ \A k \in 1..n :
         /\ g[k].start = FrameAt(Start(t, k), fps)
         /\ g[k].count = FrameAt(End(t, k), fps) - FrameAt(Start(t, k), fps)
         /\ FrameAt(Start(t, k), fps) \in Int /\ FrameAt(End(t, k), fps) \in Int
         /\ (t.visual[k].trans = 0 <=> g[k].trans = 0)
  <2>1. \A k \in 1..n : t.visual[k].trans = 0 => g[k].trans = 0
    BY <1>2 DEF GridIs
  <2>2. \A k \in 1..n : t.visual[k].trans # 0 => g[k].trans >= 1
    BY DEF GridKept
  <2>3. \A k \in 1..n : t.visual[k].trans # 0 => g[k].trans # 0
    BY <2>2
  <2>4. \A k \in 1..n : FrameAt(Start(t, k), fps) \in Int /\ FrameAt(End(t, k), fps) \in Int
    BY <1>1, FrameAtType
  <2>5. Len(g) = n /\ \A k \in 1..n :
         /\ g[k].start = FrameAt(Start(t, k), fps)
         /\ g[k].count = FrameAt(End(t, k), fps) - FrameAt(Start(t, k), fps)
    BY <1>2 DEF GridIs
  <2> HIDE DEF g, n
  <2> QED
    BY <2>1, <2>3, <2>4, <2>5
<1>4. /\ E = [k \in 0..n |-> E[k]] /\ E[0] = 0
      /\ \A k \in 1..n : E[k] = FrameAt(End(t, k), fps)
  BY <1>1
<1> HIDE DEF E, n, g
<1>5. ASSUME NEW k \in 1..n
      PROVE  E[k] = (IF g[k].trans = 0 THEN E[k - 1] ELSE g[k].start) + g[k].count
  <2>1. g[k].start + g[k].count = E[k]
    <3> DEFINE a == FrameAt(Start(t, k), fps)
               b == FrameAt(End(t, k), fps)
    <3>1. a \in Int /\ b \in Int /\ g[k].start = a /\ g[k].count = b - a /\ E[k] = b
      BY <1>3, <1>4
    <3> HIDE DEF a, b
    <3> QED
      BY <3>1
  <2>2. CASE g[k].trans # 0
    BY <2>1, <2>2
  <2>3. CASE g[k].trans = 0
    <3>1. E[k - 1] = g[k].start
      <4>1. CASE k = 1
        BY <1>1, <1>3, <1>4, <4>1, FrameAtZero
      <4>2. CASE k # 1
        <5>1. k - 1 \in 1..n /\ k > 1
          BY <1>1, <4>2
        <5>2. End(t, k - 1) = Start(t, k)
          <6>1. t.visual[k].trans = 0 /\ t.visual[k].trans = End(t, k - 1) - Start(t, k)
            BY <1>1, <1>3, <2>3, <5>1
          <6>2. End(t, k - 1) \in Int /\ Start(t, k) \in Int
            BY <1>1, <5>1
          <6> QED
            BY <6>1, <6>2
        <5> QED
          BY <1>3, <1>4, <5>1, <5>2
      <4> QED
        BY <4>1, <4>2
    <3> QED
      BY <2>1, <2>3, <3>1
  <2> QED
    BY <2>2, <2>3
<1>6. ComposedFrames(g) = E[n]
  BY <1>1, <1>3, <1>4, <1>5, ComposedIs
<1>7. E[n] = FrameAt(t.dur, fps)
  <2>1. n \in 1..n /\ End(t, n) = t.dur
    BY <1>1
  <2>2. E[n] = FrameAt(End(t, n), fps)
    BY <1>4, <2>1
  <2> QED
    BY <2>1, <2>2
<1> QED
  BY <1>6, <1>7 DEF g

(* No clip or transition is lost on the grid, no boundary off by a frame.    *)
LEMMA GridIsExact ==
  ASSUME NEW t, Shaped(t), TimelineOk(t), NEW fps \in Nat, GridKept(t, fps),
         NEW k \in 1..Len(t.visual)
  PROVE  LET g == Grid(t, fps)  c == t.visual[k] IN
         /\ g[k].count > g[k].trans /\ (g[k].trans = 0) = (c.trans = 0)
         /\ k > 1 => g[k].start + g[k].trans = g[k - 1].start + g[k - 1].count
         /\ ToTheFrame(g[k].count, c.dur, fps)
         /\ ToTheFrame(g[k].trans, c.trans, fps)
<1> DEFINE n == Len(t.visual)
           g == Grid(t, fps)
           c == t.visual[k]
           S == Start(t, k)
           E == End(t, k)
           P == End(t, k - 1)
<1>1. /\ n \in Nat \ {0} /\ t.visual[1].trans = 0
      /\ S \in Int /\ E \in Int /\ c.dur = E - S /\ c.trans \in Nat
      /\ k > 1 => c.trans = P - S
  BY EndToEnd
<1>2. k > 1 => k - 1 \in 1..n /\ P \in Int
  BY <1>1, EndToEnd
<1>3. /\ g[k].start = FrameAt(S, fps) /\ g[k].count = FrameAt(E, fps) - FrameAt(S, fps)
      /\ c.trans = 0 => g[k].trans = 0
      /\ c.trans # 0 /\ k > 1 => g[k].trans = FrameAt(P, fps) - FrameAt(S, fps)
      /\ k > 1 => /\ g[k - 1].start = FrameAt(Start(t, k - 1), fps)
                  /\ g[k - 1].count = FrameAt(P, fps) - FrameAt(Start(t, k - 1), fps)
                  /\ FrameAt(Start(t, k - 1), fps) \in Int
  <2>1. GridIs(t, fps)
    BY GridOf
  <2>2. k > 1 => Start(t, k - 1) \in Int
    BY <1>2, <2>1 DEF GridIs
  <2> QED
    BY <1>2, <2>1, <2>2, FrameAtType DEF GridIs
<1>4. g[k].count >= 1 /\ (c.trans # 0 => g[k].trans >= 1 /\ g[k].trans < g[k].count)
  BY DEF GridKept
<1>5. FrameAt(S, fps) \in Int /\ FrameAt(E, fps) \in Int /\ (k > 1 => FrameAt(P, fps) \in Int)
  BY <1>1, <1>2, FrameAtType
<1> HIDE DEF g, c, S, E, P, n
<1>8. c.trans # 0 => k > 1
  BY <1>1 DEF c, n
<1>6. ToTheFrame(FrameAt(E, fps) - FrameAt(S, fps), E - S, fps)
  BY <1>1, FrameSpan
<1>7. k > 1 => ToTheFrame(FrameAt(P, fps) - FrameAt(S, fps), P - S, fps)
  <2> HAVE k > 1
  <2>1. P \in Int
    BY <1>2
  <2> QED
    BY <1>1, <2>1, FrameSpan
<1>9. ToTheFrame(g[k].count, c.dur, fps)
  BY <1>1, <1>3, <1>6
<1>10. ToTheFrame(g[k].trans, c.trans, fps)
  <2>1. CASE c.trans = 0
    <3>1. ToTheFrame(0, 0, fps)
      BY DEF ToTheFrame
    <3>2. g[k].trans = 0
      BY <1>3, <2>1
    <3> QED
      BY <2>1, <3>1, <3>2
  <2>2. CASE c.trans # 0
    <3>1. g[k].trans = FrameAt(P, fps) - FrameAt(S, fps) /\ c.trans = P - S
      BY <1>1, <1>3, <1>8, <2>2
    <3> QED
      BY <1>7, <1>8, <2>2, <3>1
  <2> QED
    BY <2>1, <2>2
<1>11. g[k].count \in Int /\ g[k].trans \in Int
  <2>1. c.trans # 0 => g[k].trans = FrameAt(P, fps) - FrameAt(S, fps) /\ FrameAt(P, fps) \in Int
    BY <1>3, <1>5, <1>8
  <2> QED
    BY <1>3, <1>5, <2>1
<1>12. g[k].count > g[k].trans
  BY <1>3, <1>4, <1>11
<1>13. (g[k].trans = 0) = (c.trans = 0)
  <2>1. g[k].trans = 0 <=> c.trans = 0
    BY <1>3, <1>4, <1>11
  <2> QED
    BY <2>1
<1>14. k > 1 => g[k].start + g[k].trans = g[k - 1].start + g[k - 1].count
  <2> HAVE k > 1
  <2>1. CASE c.trans = 0
    <3>1. P = S
      BY <1>1, <1>2, <2>1
    <3> QED
      BY <1>3, <1>5, <2>1, <3>1
  <2>2. CASE c.trans # 0
    BY <1>3, <1>5, <2>2
  <2> QED
    BY <2>1, <2>2
<1>15. /\ g[k].count > g[k].trans /\ (g[k].trans = 0) = (c.trans = 0)
       /\ k > 1 => g[k].start + g[k].trans = g[k - 1].start + g[k - 1].count
       /\ ToTheFrame(g[k].count, c.dur, fps)
       /\ ToTheFrame(g[k].trans, c.trans, fps)
  BY <1>9, <1>10, <1>12, <1>13, <1>14
<1> QED
  BY <1>15 DEF g, c

-----------------------------------------------------------------------------
(* Inputs and the mix *)

(* A sequence that goes on as another after the end of a first.              *)
JoinOf(c, s, u) ==
    /\ Listed(c) /\ Len(c) = Len(s) + Len(u)
    /\ \A k \in 1..Len(s) : c[k] = s[k]
    /\ \A k \in 1..Len(u) : c[Len(s) + k] = u[k]
    /\ \A k \in DOMAIN c : (\E i \in DOMAIN s : c[k] = s[i]) \/ (\E i \in DOMAIN u : c[k] = u[i])

(* One sequence after another is both.                                        *)
LEMMA ConcatListed ==
  ASSUME NEW s, Listed(s), NEW u, Listed(u)
  PROVE  JoinOf(s \o u, s, u)
<1> DEFINE A == {s[k] : k \in DOMAIN s}
           B == {u[k] : k \in DOMAIN u}
<1>1. s \in Seq(A \cup B) /\ u \in Seq(A \cup B)
  <2>1. s \in Seq(A) /\ u \in Seq(B)
    BY DEF Listed
  <2> HIDE DEF A, B
  <2> QED
    BY <2>1
<1>2. Len(s) \in Nat /\ DOMAIN s = 1..Len(s) /\ Len(u) \in Nat /\ DOMAIN u = 1..Len(u)
  BY ListedIs
<1> HIDE DEF A, B
<1> DEFINE c == s \o u
<1>3. /\ c \in Seq(A \cup B) /\ Len(c) = Len(s) + Len(u)
      /\ \A k \in 1..Len(s) : c[k] = s[k]
      /\ \A k \in 1..Len(u) : c[Len(s) + k] = u[k]
  <2>1. /\ c \in Seq(A \cup B) /\ Len(c) = Len(s) + Len(u)
        /\ \A k \in 1..Len(s) + Len(u) : c[k] = IF k <= Len(s) THEN s[k] ELSE u[k - Len(s)]
    BY <1>1
  <2> HIDE DEF c
  <2>2. ASSUME NEW k \in 1..Len(u)
        PROVE  c[Len(s) + k] = u[k]
    <3>1. Len(s) + k \in 1..Len(s) + Len(u) /\ ~(Len(s) + k <= Len(s)) /\ Len(s) + k - Len(s) = k
      BY <1>2
    <3> QED
      BY <2>1, <3>1
  <2>3. ASSUME NEW k \in 1..Len(s)
        PROVE  c[k] = s[k]
    <3>1. k \in 1..Len(s) + Len(u) /\ k <= Len(s)
      BY <1>2
    <3> QED
      BY <2>1, <3>1
  <2> QED
    BY <2>1, <2>2, <2>3
<1> HIDE DEF c
<1>4. Listed(c) /\ DOMAIN c = 1..Len(s) + Len(u)
  BY <1>2, <1>3, ListedSeq, ListedIs
<1>5. ASSUME NEW k \in DOMAIN c
      PROVE  (\E i \in DOMAIN s : c[k] = s[i]) \/ (\E i \in DOMAIN u : c[k] = u[i])
  <2>1. CASE k \in 1..Len(s)
    BY <1>2, <1>3, <2>1
  <2>2. CASE k \notin 1..Len(s)
    <3>1. k - Len(s) \in 1..Len(u) /\ Len(s) + (k - Len(s)) = k
      BY <1>2, <1>4, <2>2
    <3>2. c[k] = u[k - Len(s)]
      BY <1>3, <3>1
    <3> QED
      BY <1>2, <3>1, <3>2
  <2> QED
    BY <2>1, <2>2
<1> QED
  BY <1>3, <1>4, <1>5 DEF c, JoinOf

(* What is heard has the lane it was cut in, and its mode.                   *)
LaneOk(t, c) == \E lane \in Audible : \E k \in DOMAIN t[lane] : c.lane = lane /\ c.mode = t[lane][k].mode

(* Every sound of the plan comes from a lane of the cut.                      *)
LEMMA AudioPlanIs ==
  ASSUME NEW t, Shaped(t)
  PROVE  Listed(AudioPlan(t)) /\ \A k \in DOMAIN AudioPlan(t) : LaneOk(t, AudioPlan(t)[k])
<1> DEFINE Of(lane, c) == [lane |-> lane, src |-> c.src, start |-> c.start, dur |-> c.dur,
                           win |-> c.win, trans |-> c.trans, mode |-> c.mode]
           Lane(lane, cs) == [k \in DOMAIN cs |-> Of(lane, cs[k])]
           a == Lane("narration", t.narration)
           b == Lane("ambient", t.ambient)
           c == Lane("music", t.music)
<1>1. Listed(t.narration) /\ Listed(t.ambient) /\ Listed(t.music)
  BY DEF Shaped
<1>2. AudioPlan(t) = a \o b \o c
  BY DEF AudioPlan
<1>3. ASSUME NEW lane \in Audible, Listed(t[lane])
      PROVE  Listed(Lane(lane, t[lane])) /\ \A k \in DOMAIN Lane(lane, t[lane]) : LaneOk(t, Lane(lane, t[lane])[k])
  <2> DEFINE s == Lane(lane, t[lane])
  <2>1. Len(t[lane]) \in Nat /\ DOMAIN t[lane] = 1..Len(t[lane])
    BY <1>3, ListedIs
  <2>2. s = [k \in 1..Len(t[lane]) |-> s[k]]
    BY <2>1
  <2>3. \A k \in DOMAIN t[lane] : s[k].lane = lane /\ s[k].mode = t[lane][k].mode
    OBVIOUS
  <2>4. DOMAIN s = DOMAIN t[lane]
    OBVIOUS
  <2> HIDE DEF s
  <2>5. Listed(s)
    BY <2>1, <2>2, ListedFrom
  <2>6. \A k \in DOMAIN s : LaneOk(t, s[k])
    BY <2>3, <2>4 DEF LaneOk
  <2> QED
    BY <2>5, <2>6 DEF s
<1>4. /\ Listed(a) /\ \A k \in DOMAIN a : LaneOk(t, a[k])
      /\ Listed(b) /\ \A k \in DOMAIN b : LaneOk(t, b[k])
      /\ Listed(c) /\ \A k \in DOMAIN c : LaneOk(t, c[k])
  <2>1. "narration" \in Audible /\ "ambient" \in Audible /\ "music" \in Audible
    BY DEF Audible
  <2> HIDE DEF Lane
  <2> QED
    BY <1>1, <1>3, <2>1
<1> HIDE DEF a, b, c
<1> DEFINE d == a \o b
<1>5. JoinOf(d, a, b)
  BY <1>4, ConcatListed
<1> HIDE DEF d
<1>6. Listed(d) /\ \A k \in DOMAIN d : LaneOk(t, d[k])
  BY <1>4, <1>5 DEF JoinOf
<1> DEFINE e == d \o c
<1>7. JoinOf(e, d, c)
  BY <1>4, <1>6, ConcatListed
<1>8. AudioPlan(t) = e
  BY <1>2 DEF d
<1> HIDE DEF e
<1>9. Listed(e) /\ \A k \in DOMAIN e : LaneOk(t, e[k])
  BY <1>4, <1>6, <1>7 DEF JoinOf
<1> QED
  BY <1>8, <1>9

(* So does every one that is heard.                                           *)
LEMMA HeardIs ==
  ASSUME NEW t, Shaped(t)
  PROVE  /\ Listed(Heard(AudioPlan(t)))
         /\ \A k \in DOMAIN Heard(AudioPlan(t)) : LaneOk(t, Heard(AudioPlan(t))[k])
<1> DEFINE cs == AudioPlan(t)
           S == {cs[k] : k \in DOMAIN cs}
           T == {c \in Range(cs) : c.mode # "muted" /\ HasAudio(c.src)}
           h == Heard(cs)
<1>1. cs \in Seq(S) /\ \A k \in DOMAIN cs : LaneOk(t, cs[k])
  BY AudioPlanIs DEF Listed
<1>2. h = Among(cs, T)
  BY DEF Heard
<1>3. \A x \in S : LaneOk(t, x)
  BY <1>1
<1> HIDE DEF cs, S, T, h
<1>4. h \in Seq(S \cap T)
  BY <1>1, <1>2, AmongType
<1>5. Listed(h)
  BY <1>4, ListedSeq
<1>6. \A k \in DOMAIN h : LaneOk(t, h[k])
  BY <1>3, <1>4
<1> QED
  BY <1>5, <1>6 DEF h, cs

(* What is audible reaches the mix, and only what may be ducked is ducked.   *)
LEMMA MixIs ==
  ASSUME NEW t, Shaped(t), TimelineOk(t)
  PROVE  LET heard == Heard(AudioPlan(t)) IN
         /\ FinalMix(heard).heard = DOMAIN heard
         /\ \A k \in FinalMix(heard).ducked : heard[k].lane # "narration" /\ heard[k].mode # "fixed_volume"
<1> DEFINE heard == Heard(AudioPlan(t))
           On(b) == {k \in DOMAIN heard : Bus(heard[k]) = b}
<1>1. \A k \in DOMAIN heard : LaneOk(t, heard[k])
  BY HeardIs
<1>2. \A c : Bus(c) \in {"narration", "duckable", "fixed"}
  BY DEF Bus
<1>3. /\ FinalMix(heard).heard = On("narration") \cup On("duckable") \cup On("fixed")
      /\ FinalMix(heard).ducked \in {On("duckable"), {}}
  BY DEF FinalMix
<1> HIDE DEF heard
<1>4. On("narration") \cup On("duckable") \cup On("fixed") = DOMAIN heard
  BY <1>2
<1>5. ASSUME NEW k \in On("duckable")
      PROVE  heard[k].lane # "narration" /\ heard[k].mode # "fixed_volume"
  <2> DEFINE c == heard[k]
  <2>1. Bus(c) = "duckable" /\ LaneOk(t, c)
    BY <1>1
  <2> HIDE DEF c
  <2>2. c.lane # "narration" /\ (c.lane = "music" \/ c.mode = "auto_duck")
    BY <2>1 DEF Bus
  <2>3. c.lane = "music" => c.mode = None
    <3> HAVE c.lane = "music"
    <3>1. PICK j \in DOMAIN t["music"] : c.mode = t["music"][j].mode
      BY <2>1 DEF LaneOk
    <3>2. "music" \in Audible
      BY DEF Audible
    <3>3. ("music" = "ambient") = (t["music"][j].mode # None)
      BY <3>2 DEF TimelineOk
    <3> QED
      BY <3>1, <3>3
  <2>4. None # "fixed_volume"
    BY PlanningAssumption DEF Modes
  <2>5. c.lane # "narration" /\ c.mode # "fixed_volume"
    BY <2>2, <2>3, <2>4
  <2> QED
    BY <2>5 DEF c
<1>6. FinalMix(heard).heard = DOMAIN heard
      /\ \A k \in FinalMix(heard).ducked : heard[k].lane # "narration" /\ heard[k].mode # "fixed_volume"
  BY <1>3, <1>4, <1>5
<1> QED
  BY <1>6 DEF heard

(* Every chain reads the input that carries its own material, and every input *)
(* is read once.                                                              *)
LEMMA ReadsAreInputs ==
  ASSUME NEW t, Shaped(t), NEW fps
  PROVE  LET c == Compiled(t, fps) IN
         /\ \A r \in c.reads : c.inputs[r[1] + 1] = r[2]
         /\ Cardinality(c.reads) = Len(c.inputs)
<1> DEFINE command_ == Compiled(t, fps)
           heard == Heard(AudioPlan(t))
           pictures == [k \in DOMAIN t.visual |-> <<"picture", t.visual[k].src>>]
           captions == [k \in DOMAIN t.caption |-> <<"caption", k>>]
           sounds == [k \in DOMAIN heard |-> <<"sound", heard[k].src>>]
           p == Len(t.visual)
           q == Len(t.caption)
           s == Len(heard)
           reads == {<<k - 1, pictures[k]>> : k \in DOMAIN pictures}
                    \cup {<<p + k - 1, captions[k]>> : k \in DOMAIN captions}
                    \cup {<<p + q + k - 1, sounds[k]>> : k \in DOMAIN sounds}
           first == pictures \o captions
           inputs == first \o sounds
           N == p + q + s
           f == [i \in 1..N |-> <<i - 1, inputs[i]>>]
<1>1. command_.inputs = inputs /\ command_.reads = reads
  BY DEF Compiled, FirstAudioInput
<1>2. /\ p \in Nat /\ q \in Nat /\ s \in Nat
      /\ DOMAIN t.visual = 1..p /\ DOMAIN t.caption = 1..q /\ DOMAIN heard = 1..s
  BY HeardIs, ListedIs DEF Shaped
<1>3. /\ pictures = [k \in 1..p |-> pictures[k]] /\ captions = [k \in 1..q |-> captions[k]]
      /\ sounds = [k \in 1..s |-> sounds[k]]
  BY <1>2
<1> HIDE DEF pictures, captions, sounds, p, q, s, command_
<1>4. /\ Listed(pictures) /\ Len(pictures) = p /\ DOMAIN pictures = 1..p
      /\ Listed(captions) /\ Len(captions) = q /\ DOMAIN captions = 1..q
      /\ Listed(sounds) /\ Len(sounds) = s /\ DOMAIN sounds = 1..s
  BY <1>2, <1>3, ListedFrom
<1>16. JoinOf(first, pictures, captions)
  BY <1>4, ConcatListed
<1> HIDE DEF first
<1>5. /\ Listed(first) /\ Len(first) = p + q
      /\ \A k \in 1..p : first[k] = pictures[k]
      /\ \A k \in 1..q : first[p + k] = captions[k]
  BY <1>4, <1>16 DEF JoinOf
<1>17. JoinOf(inputs, first, sounds)
  BY <1>4, <1>5, ConcatListed
<1> HIDE DEF inputs
<1>6. /\ Len(inputs) = N
      /\ \A k \in 1..(p + q) : inputs[k] = first[k]
      /\ \A k \in 1..s : inputs[p + q + k] = sounds[k]
  BY <1>4, <1>5, <1>17 DEF JoinOf
<1>7. ASSUME NEW k \in 1..p
      PROVE  k \in 1..N /\ f[k] = <<k - 1, pictures[k]>>
  <2>1. k \in 1..(p + q) /\ k \in 1..N
    BY <1>2
  <2>2. inputs[k] = pictures[k]
    BY <1>5, <1>6, <2>1
  <2> QED
    BY <2>1, <2>2
<1>8. ASSUME NEW k \in 1..q
      PROVE  \E j \in 1..N : j = p + k /\ f[j] = <<j - 1, captions[k]>>
  <2> DEFINE j == p + k
  <2>1. j \in 1..(p + q) /\ j \in 1..N
    BY <1>2
  <2>2. inputs[j] = captions[k]
    BY <1>5, <1>6, <2>1
  <2>3. j = p + k
    OBVIOUS
  <2> HIDE DEF j
  <2>4. f[j] = <<j - 1, captions[k]>>
    BY <2>1, <2>2
  <2> QED
    BY <2>1, <2>3, <2>4
<1>9. ASSUME NEW k \in 1..s
      PROVE  \E j \in 1..N : j = p + q + k /\ f[j] = <<j - 1, sounds[k]>>
  <2> DEFINE j == p + q + k
  <2>1. j \in 1..N
    BY <1>2
  <2>2. inputs[j] = sounds[k]
    BY <1>6
  <2>3. j = p + q + k
    OBVIOUS
  <2> HIDE DEF j
  <2>4. f[j] = <<j - 1, sounds[k]>>
    BY <2>1, <2>2
  <2> QED
    BY <2>1, <2>3, <2>4
<1>10. ASSUME NEW r \in reads
       PROVE  \E i \in 1..N : r = f[i]
  <2>1. CASE \E k \in DOMAIN pictures : r = <<k - 1, pictures[k]>>
    BY <1>4, <1>7, <2>1
  <2>2. CASE \E k \in DOMAIN captions : r = <<p + k - 1, captions[k]>>
    <3>1. PICK k \in 1..q : r = <<p + k - 1, captions[k]>>
      BY <1>4, <2>2
    <3>2. PICK j \in 1..N : j = p + k /\ f[j] = <<j - 1, captions[k]>>
      BY <1>8
    <3> HIDE DEF f
    <3>3. j = p + k /\ j \in Int /\ k \in Int /\ p \in Int /\ q \in Int
      BY <1>2, <3>2
    <3>4. j - 1 = p + k - 1
      BY ONLY <3>3
    <3> QED
      BY <3>1, <3>2, <3>4
  <2>3. CASE \E k \in DOMAIN sounds : r = <<p + q + k - 1, sounds[k]>>
    <3>1. PICK k \in 1..s : r = <<p + q + k - 1, sounds[k]>>
      BY <1>4, <2>3
    <3>2. PICK j \in 1..N : j = p + q + k /\ f[j] = <<j - 1, sounds[k]>>
      BY <1>9
    <3> HIDE DEF f
    <3>3. j = p + q + k /\ j \in Int /\ k \in Int /\ p \in Int /\ q \in Int
      BY <1>2, <3>2
    <3>4. j - 1 = p + q + k - 1
      BY ONLY <3>3
    <3> QED
      BY <3>1, <3>2, <3>4
  <2> HIDE DEF f
  <2> QED
    BY <2>1, <2>2, <2>3
<1>11. ASSUME NEW i \in 1..N
       PROVE  f[i] \in reads
  <2>1. CASE i <= p
    <3>1. i \in 1..p
      BY <1>2, <2>1
    <3>2. f[i] = <<i - 1, pictures[i]>> /\ i \in DOMAIN pictures
      BY <1>4, <1>7, <3>1
    <3> HIDE DEF f
    <3> QED
      BY <3>2
  <2>2. CASE p < i /\ i <= p + q
    <3> DEFINE k == i - p
    <3>1. k \in 1..q /\ i = p + k
      BY <1>2, <2>2
    <3> HIDE DEF k
    <3>2. PICK j \in 1..N : j = p + k /\ f[j] = <<j - 1, captions[k]>>
      BY <1>8, <3>1
    <3>3. j = p + k /\ i = p + k /\ k \in DOMAIN captions
      BY <1>4, <3>1, <3>2
    <3>4. j \in Int /\ k \in Int /\ p \in Int /\ q \in Int
      BY <1>2, <3>1, <3>2
    <3>5. j = i /\ j - 1 = p + k - 1
      BY ONLY <3>3, <3>4
    <3> HIDE DEF f
    <3>6. f[i] = <<p + k - 1, captions[k]>>
      BY <3>2, <3>5
    <3> QED
      BY <3>3, <3>6
  <2>3. CASE p + q < i
    <3> DEFINE k == i - (p + q)
    <3>1. k \in 1..s /\ i = p + q + k
      BY <1>2, <2>3
    <3> HIDE DEF k
    <3>2. PICK j \in 1..N : j = p + q + k /\ f[j] = <<j - 1, sounds[k]>>
      BY <1>9, <3>1
    <3>3. j = p + q + k /\ i = p + q + k /\ k \in DOMAIN sounds
      BY <1>4, <3>1, <3>2
    <3>4. j \in Int /\ k \in Int /\ p \in Int /\ q \in Int
      BY <1>2, <3>1, <3>2
    <3>5. j = i /\ j - 1 = p + q + k - 1
      BY ONLY <3>3, <3>4
    <3> HIDE DEF f
    <3>6. f[i] = <<p + q + k - 1, sounds[k]>>
      BY <3>2, <3>5
    <3> QED
      BY <3>3, <3>6
  <2> QED
    BY <1>2, <2>1, <2>2, <2>3
<1> HIDE DEF reads
<1>12. \A r \in reads : inputs[r[1] + 1] = r[2]
  <2> TAKE r \in reads
  <2>1. PICK i \in 1..N : r = f[i]
    BY <1>10
  <2>2. r = <<i - 1, inputs[i]>> /\ i - 1 + 1 = i
    BY <1>2, <2>1
  <2>3. r[1] = i - 1 /\ r[2] = inputs[i]
    BY <2>2
  <2> QED
    BY <2>2, <2>3
<1>13. f \in Bijection(1..N, reads)
  <2>1. f \in [1..N -> reads]
    BY <1>11
  <2>2. \A r \in reads : \E i \in 1..N : f[i] = r
    BY <1>10
  <2>3. ASSUME NEW i \in 1..N, NEW j \in 1..N, f[i] = f[j]
        PROVE  i = j
    <3>1. f[i][1] = i - 1 /\ f[j][1] = j - 1
      OBVIOUS
    <3> HIDE DEF f
    <3>2. i - 1 = j - 1 /\ i \in Int /\ j \in Int
      BY <1>2, <2>3, <3>1
    <3> QED
      BY <3>2
  <2> DEFINE D == 1..N
  <2>4. f \in [D -> reads] /\ (\A r \in reads : \E i \in D : f[i] = r)
        /\ (\A i, j \in D : f[i] = f[j] => i = j)
    BY <2>1, <2>2, <2>3
  <2> HIDE DEF f, D
  <2>5. f \in Bijection(D, reads)
    BY <2>4 DEF Bijection, Injection, Surjection, IsInjective
  <2> QED
    BY <2>5 DEF D
<1>14. Cardinality(reads) = N
  <2> HIDE DEF f
  <2>1. ExistsBijection(1..N, reads)
    BY <1>13 DEF ExistsBijection
  <2>2. N \in Nat
    BY <1>2
  <2> HIDE DEF N
  <2>3. IsFiniteSet(1..N) /\ Cardinality(1..N) = N
    BY <2>2, FS_Interval
  <2> QED
    BY <2>1, <2>3, FS_Bijection
<1>15. /\ \A r \in command_.reads : command_.inputs[r[1] + 1] = r[2]
       /\ Cardinality(command_.reads) = Len(command_.inputs)
  BY <1>1, <1>6, <1>12, <1>14
<1> QED
  BY <1>15 DEF command_

(* The empty sequence is one. *)
LEMMA EmptyListed == \A s : s = <<>> => Listed(s)
<1>1. <<>> \in Seq({})
  OBVIOUS
<1>2. Listed(<<>>)
  BY <1>1, ListedSeq
<1> QED
  BY <1>2

(* What resolve_speech_aware_paragraph_draft chooses is one segment for each *)
(* paragraph, or nothing.                                                    *)
LEMMA ResolveListed ==
  ASSUME NEW ps, NEW n \in Nat, DOMAIN ps = 1..n
  PROVE  Listed(Resolve(ps).chosen)
<1> DEFINE Empty(k) == IF ps[k].qualified = <<>> THEN "NO_RELEVANT_MATERIAL"
                       ELSE IF ps[k].candidates = <<>> THEN "SOURCE_TOO_SHORT" ELSE None
           lacking == SelectSeq([k \in DOMAIN ps |-> Empty(k)], LAMBDA c : c # None)
           pick[k \in DOMAIN ps] ==
             LET before == {pick[j] : j \in 1..(k - 1)} IN
             IF None \in before THEN None
             ELSE Choose(ps, k, {seg.id : seg \in {b \in before : ~Static(b)}})
           chosen == [k \in DOMAIN ps |-> pick[k]]
<1>5. Resolve(ps) = IF lacking # <<>> THEN [code |-> lacking[1], chosen |-> <<>>]
                    ELSE IF None \in Range(chosen) THEN [code |-> "INSUFFICIENT_MATERIALS", chosen |-> <<>>]
                    ELSE [code |-> None, chosen |-> chosen]
  BY DEF Resolve
<1> HIDE DEF lacking, pick
<1>6. Resolve(ps).chosen = <<>> \/ Resolve(ps).chosen = chosen
  BY <1>5
<1>1. \E f : Resolve(ps).chosen = <<>> \/ Resolve(ps).chosen = [k \in 1..n |-> f[k]]
  BY <1>6
<1>2. PICK f : Resolve(ps).chosen = <<>> \/ Resolve(ps).chosen = [k \in 1..n |-> f[k]]
  BY <1>1
<1> DEFINE c == Resolve(ps).chosen
<1>3. CASE c = <<>>
  BY <1>3, EmptyListed
<1>4. CASE c = [k \in 1..n |-> f[k]]
  <2> HIDE DEF c
  <2>1. c = [k \in 1..n |-> c[k]]
    BY <1>4
  <2>2. Listed(c)
    BY <2>1, ListedFrom
  <2> QED
    BY <2>2 DEF c
<1> QED
  BY <1>2, <1>3, <1>4

(* The paragraphs of a draft are a sequence: originals, then narrated ones.  *)
LEMMA ParagraphsListed ==
  ASSUME Listed(materials), NEW chosen, Listed(chosen)
  PROVE  Listed(Paragraphs(chosen))
<1> DEFINE ids == [i \in Ids |-> i]
           spoken == {i \in Ids : materials[i].speech # <<>>}
           n == Len(materials)
<1>1. n \in Nat /\ Ids = 1..n
  BY ListedIs DEF Ids
<1>2. ids \in Seq(Ids)
  <2> HIDE DEF n
  <2>1. ids = [i \in 1..n |-> i]
    BY <1>1
  <2> QED
    BY <1>1, <2>1
<1>3. Spoken \in Seq(Ids \cap spoken)
  <2> DEFINE S == Ids
             T == spoken
  <2> HIDE DEF S, T
  <2>1. ids \in Seq(S)
    BY <1>2 DEF S
  <2> HIDE DEF ids
  <2>2. Among(ids, T) \in Seq(S \cap T)
    BY <2>1, AmongType
  <2> QED
    BY <2>2 DEF Spoken, ids, S, T
<1>4. Len(Spoken) \in Nat /\ DOMAIN Spoken = 1..Len(Spoken)
  BY <1>3
<1> DEFINE a == [k \in DOMAIN Spoken |->
                   LET m == materials[Spoken[k]] IN
                   [kind |-> "original_speech", visual |-> Spoken[k], audio |-> Spoken[k],
                    win |-> OriginalWindow(m), dur |-> Length(OriginalWindow(m)), chars |-> m.chars]]
           b == [k \in DOMAIN chosen |->
                   [kind |-> "narrated", visual |-> chosen[k].id, audio |-> NarrationId(k),
                    win |-> chosen[k].win, dur |-> plan.narrated[k].dur, chars |-> 1]]
<1>5. Paragraphs(chosen) = a \o b
  BY DEF Paragraphs
<1>6. a = [k \in 1..Len(Spoken) |-> a[k]]
  BY <1>4
<1>7. Len(chosen) \in Nat /\ b = [k \in 1..Len(chosen) |-> b[k]]
  BY ListedIs
<1> HIDE DEF a, b
<1>8. Listed(a) /\ Listed(b)
  BY <1>4, <1>6, <1>7, ListedFrom
<1>9. JoinOf(a \o b, a, b)
  BY <1>8, ConcatListed
<1> QED
  BY <1>5, <1>9 DEF JoinOf

(* What a behaviour has stored so far: a cut is a laid out timeline, and the *)
(* compiled command is of that cut and passed every check of the compiler.   *)
Accepted(t, fps) ==
    /\ ~CaptionBelowOneFrame(t, fps)
    /\ OverlaysOk(CaptionFrames(t, fps), FrameAt(t.dur, fps))
    /\ GridRejection(t, fps) = None

PlanInv ==
    /\ Listed(materials)
    /\ stage = "matched" => Listed(request)
    /\ stage = "selected" => Listed(plan.result.chosen)
    /\ stage \in {"saved", "compiled"} => Shaped(timeline) /\ TimelineOk(timeline)
    /\ stage = "compiled" => \E fps \in Fps : command = Compiled(timeline, fps) /\ Accepted(timeline, fps)

(* The providers answer one request for a sentence.                           *)
LEMMA MatchKeepsPlan ==
  ASSUME PlanInv, Match
  PROVE  PlanInv'
<1>1. request' \in Seq([dur : Nat, score : Seq(Nat)]) /\ stage' = "matched" /\ materials' = materials
  BY DEF Match
<1>2. Listed(request')
  BY <1>1, ListedSeq
<1> QED
  BY <1>1, <1>2 DEF PlanInv

(* A resolved selection is a sequence of segments.                            *)
LEMMA SelectKeepsPlan ==
  ASSUME PlanInv, Select
  PROVE  PlanInv'
<1>1. materials' = materials /\ stage' \in {"draft_rejected", "selected", "failed"}
      /\ (stage' = "selected" => plan'.result = Resolve(Narrated))
  BY DEF Select, Refuse
<1>2. \E n \in Nat : DOMAIN Narrated = 1..n
  <2>1. stage = "matched" /\ Listed(request)
    BY DEF Select, PlanInv
  <2>2. Len(request) \in Nat /\ DOMAIN request = 1..Len(request)
    BY <2>1, ListedIs
  <2>3. CASE Silent = <<>>
    <3>1. DOMAIN Narrated = 1..0
      BY <2>3 DEF Narrated
    <3> QED
      BY <3>1
  <2>4. CASE Silent # <<>>
    <3>1. DOMAIN Narrated = DOMAIN request
      BY <2>4 DEF Narrated
    <3> DEFINE n == Len(request)
    <3>2. n \in Nat /\ DOMAIN Narrated = 1..n
      BY <2>2, <3>1
    <3> HIDE DEF n
    <3> QED
      BY <3>2
  <2> QED
    BY <2>3, <2>4
<1>3. Listed(Resolve(Narrated).chosen)
  BY <1>2, ResolveListed
<1> QED
  BY <1>1, <1>3 DEF PlanInv

(* The first cut is laid out and passed its constructor.                      *)
LEMMA CreateKeepsPlan ==
  ASSUME PlanInv, Create
  PROVE  PlanInv'
<1> DEFINE ps == Paragraphs(plan.result.chosen)
<1>1. Listed(ps)
  BY ParagraphsListed DEF PlanInv, Create
<1>2. materials' = materials /\ stage' \in {"draft_rejected", "timeline_rejected", "saved"}
      /\ (stage' = "saved" => DraftOk(ps) /\ TimelineOk(CreateTimeline(ps))
                              /\ timeline' = CreateTimeline(ps))
  BY DEF Create, Refuse
<1> HIDE DEF ps
<1>3. DraftOk(ps) => Shaped(CreateTimeline(ps))
  <2> SUFFICES ASSUME DraftOk(ps) PROVE Shaped(CreateTimeline(ps))
    OBVIOUS
  <2>1. \A k \in DOMAIN ps : ps[k].dur \in 1..MaxTotalMs
    BY DEF DraftOk
  <2>2. \A k \in DOMAIN ps : ps[k].dur \in Int
    BY <2>1
  <2> QED
    BY <1>1, <2>2, CreateTimelineShaped
<1>4. CASE stage' = "saved"
  <2>1. Shaped(timeline') /\ TimelineOk(timeline')
    BY <1>2, <1>3, <1>4
  <2> QED
    BY <1>2, <1>4, <2>1 DEF PlanInv
<1> QED
  BY <1>2, <1>4 DEF PlanInv

(* So is every cut the user saves.                                            *)
LEMMA SaveKeepsPlan ==
  ASSUME PlanInv, Save
  PROVE  PlanInv'
<1>1. stage = "saved" /\ stage' = stage /\ materials' = materials /\ Shaped(timeline)
      /\ TimelineOk(timeline)
  BY DEF PlanInv, Save
<1>2. PICK trans \in [DOMAIN timeline.visual -> Transitions], still \in Trims,
           mode \in Modes, music \in MusicIds \cup {None}, read \in BOOLEAN :
        /\ timeline' = Recut(timeline, trans, still, mode, music, read)
        /\ TimelineOk(timeline')
  BY DEF Save
<1>3. trans \in [DOMAIN timeline.visual -> Nat] /\ still \in Nat /\ timeline.visual # <<>>
  BY <1>1, <1>2, EndToEnd, PlanningAssumption
<1>4. Shaped(Recut(timeline, trans, still, mode, music, read))
  BY <1>1, <1>3, RecutShaped
<1>5. Shaped(timeline') /\ TimelineOk(timeline')
  BY <1>2, <1>4
<1> QED
  BY <1>1, <1>5 DEF PlanInv

(* A command is compiled only from a cut that passed every check.             *)
LEMMA CompileKeepsPlan ==
  ASSUME PlanInv, Compile
  PROVE  PlanInv'
<1>1. stage = "saved" /\ Shaped(timeline) /\ TimelineOk(timeline) /\ materials' = materials
      /\ timeline' = timeline
  BY DEF PlanInv, Compile, Refuse
<1>2. PICK fps \in Fps :
        \/ stage' = GridRejection(timeline, fps) /\ GridRejection(timeline, fps) # None
        \/ stage' \in {"plan_rejected", "CAPTION_BELOW_ONE_FRAME", "overlays_rejected", "AUDIO_REJECTED"}
        \/ stage' = "compiled" /\ command' = Compiled(timeline, fps) /\ Accepted(timeline, fps)
  BY DEF Compile, Refuse, Accepted
<1>3. CASE stage' = GridRejection(timeline, fps) /\ GridRejection(timeline, fps) # None
  <2>1. fps \in Nat
    BY PlanningAssumption
  <2>2. stage' \in Rejections
    BY <1>1, <1>3, <2>1, EndToEnd, GridRejectionIs
  <2>3. stage' \notin {"matched", "selected", "saved", "compiled"}
    BY <2>2 DEF Rejections
  <2> QED
    BY <1>1, <2>3 DEF PlanInv
<1>4. CASE stage' \in {"plan_rejected", "CAPTION_BELOW_ONE_FRAME", "overlays_rejected", "AUDIO_REJECTED"}
  BY <1>1, <1>4 DEF PlanInv
<1>5. CASE stage' = "compiled" /\ command' = Compiled(timeline, fps) /\ Accepted(timeline, fps)
  <2>1. Compiled(timeline, fps)' = Compiled(timeline, fps)
        /\ Accepted(timeline, fps)' = Accepted(timeline, fps)
    BY <1>1 DEF Compiled, Heard, HasAudio, Ids, Accepted
  <2>2. (\E f \in Fps : command = Compiled(timeline, f) /\ Accepted(timeline, f))'
    BY <1>1, <1>5, <2>1
  <2>3. Shaped(timeline') /\ TimelineOk(timeline')
    BY <1>1
  <2> QED
    BY <1>1, <1>5, <2>2, <2>3 DEF PlanInv
<1> QED
  BY <1>2, <1>3, <1>4, <1>5

(* A step that leaves the plan's variables alone. *)
LEMMA RestKeepsPlan ==
  ASSUME PlanInv, UNCHANGED planVars
  PROVE  PlanInv'
<1>1. /\ stage' = stage /\ materials' = materials /\ request' = request /\ plan' = plan
      /\ timeline' = timeline /\ command' = command
  BY DEF planVars
<1>2. \A t, fps : Compiled(t, fps)' = Compiled(t, fps) /\ Accepted(t, fps)' = Accepted(t, fps)
  BY <1>1 DEF Compiled, Heard, HasAudio, Ids, Accepted
<1> QED
  BY <1>1, <1>2 DEF PlanInv

(* The library of one file is a sequence.                                     *)
LEMMA HandOverKeepsPlan ==
  ASSUME PlanInv, HandOver
  PROVE  PlanInv'
<1>1. stage' = "analysed" /\ materials' \in Seq({Prepared})
  BY DEF HandOver
<1>2. Listed(materials')
  BY <1>1, ListedSeq
<1> QED
  BY <1>1, <1>2 DEF PlanInv

(* The checks of the compiler make its command exact. *)
LEMMA AcceptedMatches ==
  ASSUME PlanInv
  PROVE  CommandMatchesCut
<1> SUFFICES ASSUME stage = "compiled" PROVE CommandMatchesCut
  BY DEF CommandMatchesCut
<1>1. Shaped(timeline) /\ TimelineOk(timeline)
  BY DEF PlanInv
<1>2. PICK fps \in Fps : command = Compiled(timeline, fps) /\ Accepted(timeline, fps)
  BY DEF PlanInv
<1>3. fps \in Nat
  BY PlanningAssumption
<1> DEFINE g == Grid(timeline, fps)
           heard == Heard(AudioPlan(timeline))
           ws == CaptionFrames(timeline, fps)
<1>4. /\ command.fps = fps /\ command.grid = g /\ command.frames = FrameAt(timeline.dur, fps)
      /\ command.captions = ws /\ command.mix = FinalMix(heard)
  BY <1>2 DEF Compiled
<1>5. GridKept(timeline, fps)
  BY <1>1, <1>2, <1>3, EndToEnd, GridRejectionIs DEF Accepted
<1>6. ComposedFrames(g) = FrameAt(timeline.dur, fps)
  BY <1>1, <1>3, <1>5, ComposedIsCut
<1>7. DOMAIN g = 1..Len(timeline.visual)
  BY <1>1, <1>3, GridOf DEF GridIs
<1>8. \A k \in DOMAIN g : LET c == timeline.visual[k] IN
        /\ g[k].count > g[k].trans /\ (g[k].trans = 0) = (c.trans = 0)
        /\ k > 1 => g[k].start + g[k].trans = g[k - 1].start + g[k - 1].count
        /\ ToTheFrame(g[k].count, c.dur, fps)
        /\ ToTheFrame(g[k].trans, c.trans, fps)
  BY <1>1, <1>3, <1>5, <1>7, GridIsExact
<1>9. \A w \in Range(ws) : w[1] < w[2] /\ w[2] <= FrameAt(timeline.dur, fps)
  <2> SUFFICES ASSUME NEW k \in DOMAIN ws
               PROVE  ws[k][1] < ws[k][2] /\ ws[k][2] <= FrameAt(timeline.dur, fps)
    BY DEF Range
  <2>1. ~(ws[k][2] <= ws[k][1])
    BY <1>2 DEF Accepted, CaptionBelowOneFrame, Range
  <2>2. ws[k][2] <= FrameAt(timeline.dur, fps)
    BY <1>2 DEF Accepted, OverlaysOk
  <2>3. ws[k][1] \in Int /\ ws[k][2] \in Int
    <3> DEFINE c == timeline.caption[k]
    <3>1. IsClip(c)
      BY <1>1 DEF Shaped, CaptionFrames
    <3> HIDE DEF c
    <3>2. c.start \in Int /\ EndMs(c) \in Int
      BY <3>1 DEF IsClip, EndMs
    <3>3. FrameAt(c.start, fps) \in Int /\ FrameAt(EndMs(c), fps) \in Int
      BY <1>3, <3>2, FrameAtType
    <3>4. ws[k] = <<FrameAt(c.start, fps), FrameAt(EndMs(c), fps)>>
      BY DEF CaptionFrames, c
    <3> QED
      BY <3>3, <3>4
  <2> QED
    BY <2>1, <2>2, <2>3
<1>10. /\ \A r \in command.reads : command.inputs[r[1] + 1] = r[2]
       /\ Cardinality(command.reads) = Len(command.inputs)
  BY <1>1, <1>2, ReadsAreInputs
<1>11. /\ command.mix.heard = DOMAIN heard
       /\ \A k \in command.mix.ducked : heard[k].lane # "narration" /\ heard[k].mode # "fixed_volume"
  BY <1>1, <1>4, MixIs
<1> HIDE DEF g, heard, ws
<1> QED
  BY <1>4, <1>6, <1>8, <1>9, <1>10, <1>11 DEF CommandMatchesCut, g, heard, ws

(* The ffmpeg command of every compiled cut composes exactly that cut on the *)
(* frame grid, with captions inside it, inputs read by their own chains and  *)
(* a complete mix: CommandMatchesCut.                                        *)
THEOREM CommandMatchesCutHolds == WholeSpec => []CommandMatchesCut
<1>1. WholeInit => PlanInv
  <2> SUFFICES ASSUME WholeInit PROVE PlanInv
    OBVIOUS
  <2>1. Listed(materials)
    <3>1. CASE PlanInit
      BY <3>1, ListedSeq, PlanningAssumption DEF PlanInit
    <3>2. CASE materials = <<>>
      BY <3>2, EmptyListed
    <3> QED
      BY <3>1, <3>2 DEF WholeInit
  <2>2. stage \in {"analysed", "waiting"}
    BY DEF WholeInit, PlanInit
  <2> QED
    BY <2>1, <2>2 DEF PlanInv
<1>2. PlanInv /\ [WholeNext]_allVars => PlanInv'
  <2> SUFFICES ASSUME PlanInv, [WholeNext]_allVars PROVE PlanInv'
    OBVIOUS
  <2>1. CASE PlanNext
    BY <2>1, MatchKeepsPlan, SelectKeepsPlan, CreateKeepsPlan, SaveKeepsPlan, CompileKeepsPlan,
       RestKeepsPlan DEF PlanNext, Stopped
  <2>2. CASE HandOver
    BY <2>2, HandOverKeepsPlan
  <2>3. CASE UNCHANGED planVars
    BY <2>3, RestKeepsPlan
  <2> QED
    BY <2>1, <2>2, <2>3 DEF WholeNext, NotPrepared, allVars
<1> QED
  BY <1>1, <1>2, AcceptedMatches, PTL DEF WholeSpec

==============================================================================
