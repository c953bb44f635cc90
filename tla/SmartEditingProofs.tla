-------------------------- MODULE SmartEditingProofs --------------------------
(***************************************************************************)
(* A smart-edit generation, for any number of generations, videos, edits,   *)
(* revisions and faults.                                                    *)
(*                                                                          *)
(* Three invariants in one, because the parts lean on each other:           *)
(*                                                                          *)
(* AnalysesOK  what the thread, a result document, the saga and a row hold  *)
(*             of a material is of the version the row names, because the   *)
(*             file was compared with the approved one before and after.    *)
(* PhaseOK     what the saga's phase says of the worker: outside the phases *)
(*             in which the worker may be at work for a generation nothing  *)
(*             of it runs, waits or is staged (Quiet), and until the commit *)
(*             is sent nothing of it is stored (Clean).                     *)
(* SaveOK      the revision of a generation stands where its save put it,   *)
(*             and its narration keeps its file and its registry entry.     *)
(*                                                                          *)
(* One worker serves the generations in turn and every line may be read     *)
(* late, so a line that was told is a fact about the generation it names    *)
(* (StartedOnce): each is started once, and ends once.  Each action leaves  *)
(* the other generations alone (SideKept, DiskKept, TimelineKept); what it  *)
(* does to its own is a lemma of its own.                                   *)
(***************************************************************************)
EXTENDS SmartEditing, TLAPS

Materials == UNION {[S -> Row] : S \in SUBSET Videos}
Versions == UNION {[S -> Nat] : S \in SUBSET Videos}

CommandType ==
    [kind : {"start", "cancel", "abort", "commit"}, gen : Gens] \cup
    [kind : {"forget"}, gen : Library] \cup [kind : {"import"}, gen : Videos]
EventType == [kind : {"cancelled", "failed", "aborted", "succeeded", "commit_failed", "prepared",
                      "gateway", "forgotten", "imported"}, gen : Library]
ActiveType == [gen : Gens, cancelling : BOOLEAN, awaiting : BOOLEAN, finalizing : {None, "commit"}]
WorkerType == [up : BOOLEAN, active : ActiveType \cup {None}, cancel : BOOLEAN,
               staged : Gens \cup {None}, timer : BOOLEAN, moving : Gens \cup {None}]
ThreadSteps == {"idle", "open", "prove", "frames", "understand", "scripting", "synthesizing",
                "matching", "selecting", "binding", "publishing", "check", "stage", "say"}
ThreadType == [pc : ThreadSteps, gen : Gens \cup {None}, mats : Materials, todo : SUBSET Videos,
               approved : Versions, frames : Versions, found : Materials, narrated : BOOLEAN,
               say : EventType \cup {None}]
ResultType == [found : Materials, narrated : BOOLEAN]
JobType == [gen : Gens, cancelling : BOOLEAN, prepared : BOOLEAN, terminal : BOOLEAN]
SagaSteps == {"off", "timeline", "materials", "launch", "poll", "prepared", "written",
              "commitWait", "latest", "save", "confirm", "undo", "abort", "abortWait", "finish",
              "forget", "forgetWait", "drop", "importWait", "register"}
SagaType == [pc : SagaSteps, gen : Library \cup {None}, rev : Nat, mats : Materials,
             result : ResultType \cup {None}, committed : BOOLEAN,
             after : {None, "abort", "finish", "end"}, end : {None, "failed", "cancelled"}]
GenType == [status : {"none", "running", "cancelling", "succeeded", "failed", "cancelled"},
            cancel : BOOLEAN]
RevisionType == [by : Gens \cup {None}, refs : SUBSET Library]
DiskType == [content : [Videos -> Nat], registry : [Library -> Nat \cup {None}],
             job : [Gens -> {"absent", "request", "staging", "result"}],
             result : [Gens -> ResultType \cup {None}], durable : SUBSET Gens]

TypeOK ==
    /\ rows \in [Library -> Row \cup {None}]
    /\ timeline \in Seq(RevisionType)
    /\ gens \in [Gens -> GenType]
    /\ saga \in SagaType
    /\ host \in [up : BOOLEAN, job : JobType \cup {None}]
    /\ worker \in WorkerType
    /\ thread \in ThreadType
    /\ cmds \in Seq(CommandType)
    /\ events \in Seq(EventType)
    /\ disk \in DiskType

------------------------------------------------------------------------------
(* Analyses *)

Late == {"latest", "save", "confirm"}
Resulted == {"prepared", "written", "commitWait", "undo"} \cup Late

OfContent(row) == row.seen \in {None, row.content} /\ row.heard \in {None, row.content}

AllOfContent(mats) == \A m \in DOMAIN mats : OfContent(mats[m])

(* What the thread holds of each material is of the version the request      *)
(* names, because the file was compared with it.                             *)
Compared ==
    LET mats == thread.mats
        need == {m \in DOMAIN mats : NeedsUnderstanding(mats[m])}
    IN  /\ AllOfContent(mats)
        /\ thread.todo \subseteq DOMAIN mats
        /\ \A m \in DOMAIN thread.approved :
               m \in DOMAIN mats /\ thread.approved[m] = mats[m].content
        /\ \A m \in DOMAIN thread.frames :
               m \in DOMAIN mats /\ thread.frames[m] = mats[m].content
        /\ \A m \in DOMAIN thread.found :
               m \in DOMAIN mats /\ thread.found[m].content = mats[m].content
        /\ AllOfContent(thread.found)
        /\ thread.pc = "prove" => DOMAIN mats \ thread.todo \subseteq DOMAIN thread.approved
        /\ thread.pc \in {"frames", "understand"} => DOMAIN mats \subseteq DOMAIN thread.approved
        /\ thread.pc = "frames" => need \ thread.todo \subseteq DOMAIN thread.frames
        /\ thread.pc = "understand" => need \subseteq DOMAIN thread.frames

AnalysesOK ==
    /\ AnalysisIsOfContent
    /\ AllOfContent(saga.mats)
    /\ Compared
    /\ \A g \in Gens : disk.job[g] = "result" =>
           disk.result[g] \in ResultType /\ AllOfContent(disk.result[g].found)
    /\ saga.pc \in Resulted => AllOfContent(saga.result.found)

------------------------------------------------------------------------------
(* The saga *)

Early == {"timeline", "materials", "launch"}

\* The gate is held for a generation, not for a material.
OfGeneration ==
    \/ saga.pc \in Early \cup Late \cup {"poll", "prepared", "written", "commitWait", "undo",
                                          "abort", "abortWait", "finish"}
    \/ saga.pc \in {"forget", "forgetWait", "drop"} /\ saga.committed

In(g) == OfGeneration /\ saga.gen = g

SagaOK ==
    /\ OfGeneration => saga.gen \in Gens /\ gens[saga.gen].status \in {"running", "cancelling"}
    /\ saga.committed => saga.pc \in {"undo", "forget", "forgetWait", "drop"} /\ saga.end = "failed"
    /\ saga.pc \in Resulted => saga.result \in ResultType
    /\ saga.pc = "undo" /\ ~saga.committed => saga.after \in {"abort", "finish"}
    /\ saga.pc = "undo" /\ saga.committed => saga.after = "end"
    /\ saga.pc = "undo" /\ saga.after = "finish" => saga.end = "failed"
    /\ saga.pc = "undo" /\ saga.after = "abort" => saga.end \in {"failed", "cancelled"}
    /\ saga.pc \in {"abort", "abortWait"} => saga.end \in {"failed", "cancelled"}
    /\ saga.pc = "finish" => saga.end = "failed"
    /\ saga.pc \in {"poll", "prepared", "written", "commitWait"} =>
           host.job \in JobType /\ ~host.job.terminal
    /\ saga.pc = "finish" \/ (saga.pc = "undo" /\ ~saga.committed) => host.job \in JobType
    /\ saga.pc \in {"importWait", "register"} => saga.gen \in Videos
    /\ saga.pc \in {"forget", "forgetWait"} => saga.gen \in Library

------------------------------------------------------------------------------
(* The worker *)

Pending(kind, g) == \E i \in 1..Len(cmds) : cmds[i] = Command(kind, g)
Queued(kind, g) == \E i \in 1..Len(events) : events[i] = Event(kind, g)
Saying(kind, g) == thread.pc = "say" /\ thread.say = Event(kind, g)
Told(kind, g) == Queued(kind, g) \/ Saying(kind, g)
Running(g) == thread.gen = g /\ thread.pc \notin {"idle", "say"}

Ends == {"cancelled", "failed", "aborted", "succeeded", "commit_failed"}
Answers == Ends \cup {"prepared"}

\* Nothing in the worker is under way for g, nor will be.
Quiet(g) == ~Pending("start", g) /\ ~Running(g) /\ worker.staged # g

OneStart(g) ==
    \A i, j \in 1..Len(cmds) :
        cmds[i] = Command("start", g) /\ cmds[j] = Command("start", g) => i = j

StartedOnce(g) ==
    /\ OneStart(g)
    /\ Running(g) => ~Pending("start", g)
    /\ worker.staged = g => ~Pending("start", g) /\ ~Running(g)
    /\ \A k \in Answers : Told(k, g) => ~Pending("start", g) /\ ~Running(g)
    /\ \A k \in Ends : Told(k, g) => worker.staged # g

WorkerOK ==
    /\ \A g \in Gens : StartedOnce(g)
    /\ worker.moving # None => worker.moving = worker.staged /\ worker.moving \in disk.durable
    /\ thread.pc \notin {"idle", "say"} => thread.gen \in Gens
    /\ thread.pc = "say" => thread.say \in EventType /\ thread.say.gen \in Gens

------------------------------------------------------------------------------
(* The generations *)

Saved(g) == \E i \in 1..Len(timeline) : timeline[i].by = g
Clean(g) == ~Saved(g) /\ g \notin disk.durable /\ disk.registry[g] = None

\* The worker may be at work for g.
AtWork(g) ==
    /\ In(g)
    /\ \/ saga.pc \in {"poll", "prepared", "written", "commitWait", "abort", "abortWait", "finish"}
       \/ saga.pc = "undo" /\ ~saga.committed

Unstarted(g) == gens[g].status = "none" \/ (In(g) /\ saga.pc \in Early)

Uncommitted(g) ==
    \/ Unstarted(g)
    \/ In(g) /\ saga.pc \in {"poll", "prepared", "written", "abort", "abortWait"}
    \/ In(g) /\ saga.pc = "undo" /\ ~saga.committed /\ saga.after = "abort"

Forgetting(g) == Pending("forget", g) \/ (saga.gen = g /\ saga.pc \in {"forget", "forgetWait"})

PhaseOK(g) ==
    /\ ~AtWork(g) => Quiet(g)
    /\ Unstarted(g) => disk.job[g] = "absent" /\ \A k \in Answers : ~Told(k, g)
    /\ Uncommitted(g) => ~Pending("commit", g) /\ worker.moving # g /\ Clean(g) /\ ~Told("succeeded", g)
    /\ gens[g].status = "cancelled" => Clean(g) /\ disk.job[g] = "absent"
    /\ gens[g].status = "none" => rows[g] = None
    /\ Forgetting(g) => rows[g] = None /\ gens[g].status # "none" /\ (In(g) => saga.committed)
    /\ In(g) /\ (saga.pc = "finish" \/ (saga.pc = "undo" /\ ~saga.committed /\ saga.after = "finish"))
         /\ host.job.terminal => Quiet(g)
    /\ In(g) /\ saga.pc \in {"prepared", "written", "commitWait"} =>
           ~Running(g) /\ ~Pending("start", g) /\ saga.result = disk.result[g]

SaveOK(g) ==
    /\ In(g) => \A i \in 1..Len(timeline) : timeline[i].by = g =>
           /\ i = saga.rev + 1
           /\ saga.pc = "confirm" \/ (saga.committed /\ i < Len(timeline))
    /\ In(g) /\ saga.pc = "commitWait" /\ Told("succeeded", g) /\ saga.result.narrated => Resolves(g)
    /\ In(g) /\ saga.pc \in Late /\ saga.result.narrated => Resolves(g)
    /\ Referenced(g) => Saved(g) /\ (Overtaken(g) \/ Resolves(g))

RefsOK == \A m \in Library : Referenced(m) => rows[m] # None

IInv == /\ TypeOK /\ AnalysesOK /\ SagaOK /\ WorkerOK /\ RefsOK
        /\ \A g \in Gens : PhaseOK(g) /\ SaveOK(g)

------------------------------------------------------------------------------
(* Records, partial functions and queues *)

(* Nothing is a function of no material.                                     *)
LEMMA NothingIs == Nothing \in Materials /\ Nothing \in Versions /\ DOMAIN Nothing = {}
<1>1. Nothing \in [{} -> Row] /\ Nothing \in [{} -> Nat] /\ DOMAIN Nothing = {}
  BY DEF Nothing
<1>2. {} \in SUBSET Videos
  OBVIOUS
<1> QED
  BY <1>1, <1>2 DEF Materials, Versions

(* One more material.                                                        *)
LEMMA MaterialsAdd ==
    ASSUME NEW f \in Materials, NEW m \in Videos, NEW r \in Row
    PROVE  /\ With(f, m, r) \in Materials
           /\ DOMAIN With(f, m, r) = DOMAIN f \cup {m}
           /\ \A x \in DOMAIN f : With(f, m, r)[x] = f[x]
           /\ m \notin DOMAIN f => With(f, m, r)[m] = r
<1>1. PICK S \in SUBSET Videos : f \in [S -> Row]
  BY DEF Materials
<1>2. With(f, m, r) = [x \in S \cup {m} |-> IF x \in S THEN f[x] ELSE r]
  BY <1>1 DEF With
<1>3. With(f, m, r) \in [S \cup {m} -> Row] /\ S \cup {m} \in SUBSET Videos
  BY <1>1, <1>2
<1> QED
  BY <1>1, <1>2, <1>3 DEF Materials

(* One more version, of one more material.                                   *)
LEMMA VersionsAdd ==
    ASSUME NEW f \in Versions, NEW m \in Videos, NEW r \in Nat
    PROVE  /\ With(f, m, r) \in Versions
           /\ DOMAIN With(f, m, r) = DOMAIN f \cup {m}
           /\ \A x \in DOMAIN f : With(f, m, r)[x] = f[x]
           /\ m \notin DOMAIN f => With(f, m, r)[m] = r
<1>1. PICK S \in SUBSET Videos : f \in [S -> Nat]
  BY DEF Versions
<1>2. With(f, m, r) = [x \in S \cup {m} |-> IF x \in S THEN f[x] ELSE r]
  BY <1>1 DEF With
<1>3. With(f, m, r) \in [S \cup {m} -> Nat] /\ S \cup {m} \in SUBSET Videos
  BY <1>1, <1>2
<1> QED
  BY <1>1, <1>2, <1>3 DEF Versions

(* Another row of one material.                                              *)
LEMMA MaterialsChange ==
    ASSUME NEW f \in Materials, NEW m \in DOMAIN f, NEW r \in Row
    PROVE  /\ [f EXCEPT ![m] = r] \in Materials
           /\ DOMAIN [f EXCEPT ![m] = r] = DOMAIN f
           /\ [f EXCEPT ![m] = r][m] = r
           /\ \A x \in DOMAIN f : x # m => [f EXCEPT ![m] = r][x] = f[x]
<1>1. PICK S \in SUBSET Videos : f \in [S -> Row]
  BY DEF Materials
<1>2. [f EXCEPT ![m] = r] \in [S -> Row]
  BY <1>1
<1> QED
  BY <1>1, <1>2 DEF Materials

(* The rows of a partial function are rows.                                  *)
LEMMA MaterialsAre ==
    ASSUME NEW f \in Materials PROVE DOMAIN f \subseteq Videos /\ \A m \in DOMAIN f : f[m] \in Row
BY DEF Materials

(* The versions of a partial function are numbers.                           *)
LEMMA VersionsAre ==
    ASSUME NEW f \in Versions PROVE DOMAIN f \subseteq Videos /\ \A m \in DOMAIN f : f[m] \in Nat
BY DEF Versions

(* The states at rest.                                                       *)
LEMMA RestIs ==
    /\ NoThread \in ThreadType /\ NoThread.pc = "idle" /\ NoThread.gen = None
    /\ NoThread.todo = {} /\ NoThread.mats = Nothing /\ NoThread.approved = Nothing
    /\ NoThread.frames = Nothing /\ NoThread.found = Nothing
    /\ NoSaga \in SagaType /\ NoSaga.pc = "off" /\ NoSaga.gen = None /\ NoSaga.mats = Nothing
    /\ NoSaga.result = None /\ NoSaga.committed = FALSE
    /\ NoWorker \in WorkerType /\ NoWorker.staged = None /\ NoWorker.moving = None
    /\ FreshWorker \in WorkerType /\ FreshWorker.staged = None /\ FreshWorker.moving = None
<1>1. NoThread \in ThreadType /\ NoThread.pc = "idle" /\ NoThread.gen = None
      /\ NoThread.todo = {} /\ NoThread.mats = Nothing /\ NoThread.approved = Nothing
      /\ NoThread.frames = Nothing /\ NoThread.found = Nothing
  BY NothingIs DEF NoThread, ThreadType, ThreadSteps
<1>2. NoSaga \in SagaType /\ NoSaga.pc = "off" /\ NoSaga.gen = None /\ NoSaga.mats = Nothing
      /\ NoSaga.result = None /\ NoSaga.committed = FALSE
  BY NothingIs DEF NoSaga, SagaType, SagaSteps
<1>3. NoWorker \in WorkerType /\ NoWorker.staged = None /\ NoWorker.moving = None
  BY DEF NoWorker, WorkerType
<1>4. FreshWorker \in WorkerType /\ FreshWorker.staged = None /\ FreshWorker.moving = None
  BY DEF FreshWorker, NoWorker, WorkerType
<1> QED
  BY <1>1, <1>2, <1>3, <1>4

(* None is no generation and no material.                                    *)
LEMMA NoneIsNone == None \notin Gens /\ None \notin Videos /\ None \notin Library
                    /\ None \notin Nat /\ None \notin Row /\ Gens \cap Videos = {}
BY SmartEditAssumption DEF Library

(* Appending to a queue adds at its end; reading takes its head away.        *)
LEMMA Appended ==
    ASSUME NEW T, NEW s \in Seq(T), NEW e \in T
    PROVE  /\ Append(s, e) \in Seq(T) /\ Len(Append(s, e)) = Len(s) + 1
           /\ \A i \in 1..Len(s) : Append(s, e)[i] = s[i]
           /\ Append(s, e)[Len(s) + 1] = e
OBVIOUS

(* What is left after reading stands one place further to the front.         *)
LEMMA Taken ==
    ASSUME NEW T, NEW s \in Seq(T), s # <<>>
    PROVE  /\ Tail(s) \in Seq(T) /\ Head(s) \in T /\ Head(s) = s[1] /\ 1 \in 1..Len(s)
           /\ Len(Tail(s)) = Len(s) - 1
           /\ \A i \in 1..Len(Tail(s)) : i + 1 \in 1..Len(s) /\ Tail(s)[i] = s[i + 1]
OBVIOUS

------------------------------------------------------------------------------
(* Commands and events *)

(* A command written.                                                        *)
LEMMA CmdWritten ==
    ASSUME cmds \in Seq(CommandType), NEW k0, NEW g0, Command(k0, g0) \in CommandType,
           cmds' = Append(cmds, Command(k0, g0))
    PROVE  /\ cmds' \in Seq(CommandType)
           /\ \A k, g : Pending(k, g)' => Pending(k, g) \/ (k = k0 /\ g = g0)
           /\ \A g : OneStart(g) /\ (k0 = "start" => ~Pending("start", g0)) => OneStart(g)'
<1>2. /\ cmds' \in Seq(CommandType) /\ Len(cmds') = Len(cmds) + 1 /\ Len(cmds) \in Nat
      /\ \A i \in 1..Len(cmds) : cmds'[i] = cmds[i]
      /\ cmds'[Len(cmds) + 1] = Command(k0, g0)
  BY Appended
<1>3. \A k, g : Command(k, g) = Command(k0, g0) => k = k0 /\ g = g0
  BY DEF Command
<1>4. ASSUME NEW k, NEW g, Pending(k, g)' PROVE Pending(k, g) \/ (k = k0 /\ g = g0)
  <2>1. PICK i \in 1..Len(cmds') : cmds'[i] = Command(k, g)
    BY <1>4 DEF Pending, Command
  <2>2. i \in 1..Len(cmds) \/ i = Len(cmds) + 1
    BY <1>2
  <2> QED
    BY <1>2, <1>3, <2>1, <2>2 DEF Pending
<1>5. ASSUME NEW g, OneStart(g), k0 = "start" => ~Pending("start", g0) PROVE OneStart(g)'
  <2> SUFFICES ASSUME NEW i \in 1..Len(cmds'), NEW j \in 1..Len(cmds'),
                      cmds'[i] = Command("start", g), cmds'[j] = Command("start", g)
               PROVE  i = j
    BY DEF OneStart, Command
  <2>1. (i \in 1..Len(cmds) \/ i = Len(cmds) + 1) /\ (j \in 1..Len(cmds) \/ j = Len(cmds) + 1)
    BY <1>2
  <2>2. CASE i \in 1..Len(cmds) /\ j \in 1..Len(cmds)
    BY <1>2, <1>5, <2>2 DEF OneStart
  <2>3. CASE i = Len(cmds) + 1 /\ j \in 1..Len(cmds)
    BY <1>2, <1>3, <1>5, <2>3 DEF Pending
  <2>4. CASE j = Len(cmds) + 1 /\ i \in 1..Len(cmds)
    BY <1>2, <1>3, <1>5, <2>4 DEF Pending
  <2> QED
    BY <2>1, <2>2, <2>3, <2>4
<1> QED
  BY <1>2, <1>4, <1>5

(* A command read.                                                           *)
LEMMA CmdRead ==
    ASSUME cmds \in Seq(CommandType), NEW kind, Reading(kind)
    PROVE  /\ cmds' \in Seq(CommandType)
           /\ Command(kind, Head(cmds).gen) \in CommandType /\ Pending(kind, Head(cmds).gen)
           /\ \A k, g : Pending(k, g)' => Pending(k, g)
           /\ \A g : OneStart(g) => OneStart(g)'
           /\ kind = "start" => \A g : OneStart(g) /\ g = Head(cmds).gen => ~Pending("start", g)'
           /\ UNCHANGED <<rows, timeline, gens, saga, host, faults>>
<1>1. cmds # <<>> /\ Head(cmds).kind = kind /\ cmds' = Tail(cmds)
      /\ UNCHANGED <<rows, timeline, gens, saga, host, faults>>
  BY DEF Reading
<1>2. /\ cmds' \in Seq(CommandType) /\ Head(cmds) \in CommandType
      /\ Head(cmds) = cmds[1] /\ 1 \in 1..Len(cmds)
      /\ \A i \in 1..Len(cmds') : i + 1 \in 1..Len(cmds) /\ cmds'[i] = cmds[i + 1]
  BY <1>1, Taken
<1>3. Head(cmds) = Command(kind, Head(cmds).gen)
  BY <1>1, <1>2 DEF Command, CommandType
<1>4. Pending(kind, Head(cmds).gen)
  BY <1>2, <1>3 DEF Pending
<1>5. ASSUME NEW k, NEW g, Pending(k, g)' PROVE Pending(k, g)
  BY <1>2, <1>5 DEF Pending, Command
<1>6. ASSUME NEW g, OneStart(g) PROVE OneStart(g)'
  <2> SUFFICES ASSUME NEW i \in 1..Len(cmds'), NEW j \in 1..Len(cmds'),
                      cmds'[i] = Command("start", g), cmds'[j] = Command("start", g)
               PROVE  i = j
    BY DEF OneStart, Command
  <2>1. /\ i + 1 \in 1..Len(cmds) /\ cmds[i + 1] = Command("start", g)
        /\ j + 1 \in 1..Len(cmds) /\ cmds[j + 1] = Command("start", g)
    BY <1>2
  <2>2. i + 1 = j + 1
    BY <1>6, <2>1 DEF OneStart
  <2> QED
    BY <2>2
<1>7. ASSUME NEW g, OneStart(g), kind = "start", g = Head(cmds).gen, Pending("start", g)'
      PROVE  FALSE
  <2>1. PICK i \in 1..Len(cmds') : cmds'[i] = Command("start", g)
    BY <1>7 DEF Pending, Command
  <2>2. i + 1 \in 1..Len(cmds) /\ cmds[i + 1] = Command("start", g) /\ cmds[1] = Command("start", g)
    BY <1>2, <1>3, <1>7, <2>1
  <2>3. i + 1 = 1
    BY <1>2, <1>7, <2>2 DEF OneStart
  <2> QED
    BY <2>3
<1> QED
  BY <1>1, <1>2, <1>3, <1>4, <1>5, <1>6, <1>7

(* An event written, and one read.                                           *)
LEMMA EventWritten ==
    ASSUME events \in Seq(EventType), NEW e \in EventType, events' = Append(events, e)
    PROVE  /\ events' \in Seq(EventType)
           /\ \A k, g : Queued(k, g)' => Queued(k, g) \/ e = Event(k, g)
<1>1. /\ events' \in Seq(EventType) /\ Len(events') = Len(events) + 1 /\ Len(events) \in Nat
      /\ \A i \in 1..Len(events) : events'[i] = events[i]
      /\ events'[Len(events) + 1] = e
  BY Appended
<1>2. ASSUME NEW k, NEW g, Queued(k, g)' PROVE Queued(k, g) \/ e = Event(k, g)
  <2>1. PICK i \in 1..Len(events') : events'[i] = Event(k, g)
    BY <1>2 DEF Queued, Event
  <2>2. i \in 1..Len(events) \/ i = Len(events) + 1
    BY <1>1
  <2> QED
    BY <1>1, <2>1, <2>2 DEF Queued
<1> QED
  BY <1>1, <1>2

(* The head of the output was told; what is left was told before.            *)
LEMMA EventRead ==
    ASSUME events \in Seq(EventType), events # <<>>, events' = Tail(events)
    PROVE  /\ events' \in Seq(EventType) /\ Head(events) \in EventType
           /\ Queued(Head(events).kind, Head(events).gen)
           /\ \A k, g : Head(events) = Event(k, g) => Queued(k, g)
           /\ \A k, g : Queued(k, g)' => Queued(k, g)
<1>1. /\ events' \in Seq(EventType) /\ Head(events) \in EventType
      /\ Head(events) = events[1] /\ 1 \in 1..Len(events)
      /\ \A i \in 1..Len(events') : i + 1 \in 1..Len(events) /\ events'[i] = events[i + 1]
  BY Taken
<1>2. Head(events) = Event(Head(events).kind, Head(events).gen)
  BY <1>1 DEF Event, EventType
<1>3. ASSUME NEW k, NEW g, Queued(k, g)' PROVE Queued(k, g)
  BY <1>1, <1>3 DEF Queued, Event
<1> QED
  BY <1>1, <1>2, <1>3 DEF Queued

(* Events differ in their kind or their generation.                          *)
LEMMA EventIs ==
    /\ \A k, g, k0, g0 : Event(k, g) = Event(k0, g0) <=> k = k0 /\ g = g0
    /\ \A k, g : Event(k, g).kind = k /\ Event(k, g).gen = g
BY DEF Event

------------------------------------------------------------------------------
(* What a step keeps *)

\* Of the worker's queues and slots, for one generation.
SideKept(g) ==
    /\ Quiet(g) => Quiet(g)'
    /\ ~Running(g) /\ ~Pending("start", g) => ~Running(g)' /\ ~Pending("start", g)'
    /\ \A k \in Answers : Told(k, g)' => Told(k, g)
    /\ Pending("commit", g)' => Pending("commit", g)
    /\ worker'.moving = g => worker.moving = g

\* Of its files.
DiskKept(g) ==
    /\ disk'.job[g] \in {disk.job[g], "absent"} /\ disk'.result[g] = disk.result[g]
    /\ g \in disk'.durable <=> g \in disk.durable
    /\ disk'.registry[g] = disk.registry[g]

\* Of the revisions it is in.
TimelineKept(g) ==
    /\ Saved(g)' <=> Saved(g)
    /\ Referenced(g)' => Referenced(g)
    /\ Overtaken(g) => Overtaken(g)'

(* No worker is moving files that are not its staged ones.                   *)
LEMMA QuietIsStill ==
    ASSUME WorkerOK, NEW g \in Gens, Quiet(g) PROVE worker.moving # g
BY NoneIsNone DEF WorkerOK, Quiet

(* Who is at work is in a phase of the saga.                                 *)
LEMMA AtWorkIsIn == \A g \in Gens : AtWork(g) => In(g)
BY DEF AtWork

(* A narration is playable from its durable file and its registry entry.     *)
LEMMA NarrationResolves ==
    ASSUME NEW g \in Gens
    PROVE  /\ Resolves(g) <=> disk.registry[g] # None /\ g \in disk.durable
           /\ Resolves(g)' <=> disk'.registry[g] # None /\ g \in disk'.durable
BY NoneIsNone DEF Resolves

(* A generation the gate is not held for stays as it was.                    *)
LEMMA OtherKept ==
    ASSUME IInv, NEW g \in Gens, ~In(g), ~In(g)', SideKept(g), DiskKept(g), TimelineKept(g),
           gens'[g] = gens[g], rows'[g] \in {rows[g], None},
           Forgetting(g)' => Forgetting(g) \/ (rows[g] # None /\ rows'[g] = None)
    PROVE  PhaseOK(g)' /\ SaveOK(g)'
<1>1. PhaseOK(g) /\ SaveOK(g) /\ WorkerOK
  BY DEF IInv
<1>2. ~AtWork(g) /\ ~AtWork(g)'
  BY AtWorkIsIn DEF AtWork
<1>3. Quiet(g) /\ Quiet(g)'
  BY <1>1, <1>2 DEF PhaseOK, SideKept
<1>4. Unstarted(g)' => Unstarted(g)
  BY DEF Unstarted
<1>5. Uncommitted(g)' => Uncommitted(g)
  BY DEF Uncommitted, Unstarted
<1>6. Clean(g) => Clean(g)'
  BY DEF Clean, DiskKept, TimelineKept
<1>7. Forgetting(g)' => Forgetting(g) \/ (rows[g] # None /\ rows'[g] = None)
  OBVIOUS
<1>8. "succeeded" \in Answers
  BY DEF Answers, Ends
<1>9. PhaseOK(g)'
  <2> HIDE DEF Quiet, AtWork, Unstarted, Uncommitted, Clean, Forgetting, In, Told, Pending, Running
  <2>1. Unstarted(g)' => disk'.job[g] = "absent" /\ \A k \in Answers : ~Told(k, g)'
    BY <1>1, <1>4 DEF PhaseOK, SideKept, DiskKept
  <2>2. Uncommitted(g)' => /\ ~Pending("commit", g)' /\ worker'.moving # g /\ Clean(g)'
                           /\ ~Told("succeeded", g)'
    BY <1>1, <1>5, <1>6, <1>8 DEF PhaseOK, SideKept
  <2>3. gens'[g].status = "cancelled" => Clean(g)' /\ disk'.job[g] = "absent"
    BY <1>1, <1>6 DEF PhaseOK, DiskKept
  <2>4. gens'[g].status = "none" => rows'[g] = None
    BY <1>1 DEF PhaseOK
  <2>5. Forgetting(g)' => rows'[g] = None /\ gens'[g].status # "none"
    BY <1>1, <1>7 DEF PhaseOK
  <2> QED
    BY <1>3, <2>1, <2>2, <2>3, <2>4, <2>5 DEF PhaseOK
<1>10. SaveOK(g)'
  <2>1. Referenced(g)' => Referenced(g)
    BY DEF TimelineKept
  <2>2. Saved(g) => Saved(g)'
    BY DEF TimelineKept
  <2>3. Overtaken(g) => Overtaken(g)'
    BY DEF TimelineKept
  <2>4. Resolves(g) => Resolves(g)'
    BY NarrationResolves DEF DiskKept
  <2> HIDE DEF In, Told, Saved, Referenced, Overtaken, Resolves
  <2> QED
    BY <1>1, <2>1, <2>2, <2>3, <2>4 DEF SaveOK
<1> QED
  BY <1>9, <1>10

(* A generation that ends leaves nothing under way.                          *)
LEMMA EndedKept ==
    ASSUME NEW g \in Gens, ~In(g)', Quiet(g)', gens'[g].status \in {"succeeded", "failed", "cancelled"},
           gens'[g].status = "cancelled" => Clean(g)' /\ disk'.job[g] = "absent",
           Forgetting(g)' => rows'[g] = None,
           Referenced(g)' => Saved(g)' /\ (Overtaken(g)' \/ Resolves(g)')
    PROVE  PhaseOK(g)' /\ SaveOK(g)'
<1>1. ~AtWork(g)' /\ ~Unstarted(g)' /\ ~Uncommitted(g)'
  BY DEF AtWork, Unstarted, Uncommitted
<1> HIDE DEF Quiet, AtWork, Unstarted, Uncommitted, Clean, Forgetting, In, Told, Pending, Running,
             Saved, Referenced, Overtaken, Resolves
<1> QED
  BY <1>1 DEF PhaseOK, SaveOK

\* What a step of the worker alone keeps for one generation.
WorkKept(g) ==
    /\ Quiet(g) => /\ Quiet(g)' /\ disk'.job[g] \in {disk.job[g], "absent"}
                   /\ \A k \in Answers : Told(k, g)' => Told(k, g)
                   /\ g \in disk'.durable <=> g \in disk.durable
    /\ ~Running(g) /\ ~Pending("start", g) =>
           ~Running(g)' /\ ~Pending("start", g)' /\ disk'.result[g] = disk.result[g]
    /\ Pending("commit", g)' => Pending("commit", g)
    /\ Pending("forget", g)' => Pending("forget", g)
    /\ ~Pending("commit", g) /\ worker.moving # g =>
           /\ worker'.moving # g
           /\ g \in disk'.durable <=> g \in disk.durable
           /\ disk'.registry[g] \in {disk.registry[g], None}
           /\ Told("succeeded", g)' => Told("succeeded", g)
    /\ disk'.registry[g] = None => disk.registry[g] = None \/ Pending("forget", g)
    /\ Quiet(g) => disk'.registry[g] \in {disk.registry[g], None}
    /\ Told("succeeded", g)' => \/ Told("succeeded", g) \/ Resolves(g)'
                                \/ disk.result[g] \in ResultType /\ ~disk.result[g].narrated

(* A saved generation is not at work.                                        *)
LEMMA SavedIsQuiet ==
    ASSUME IInv, NEW g \in Gens, Saved(g) PROVE ~AtWork(g) /\ Quiet(g)
<1>1. PICK i \in 1..Len(timeline) : timeline[i].by = g
  BY DEF Saved
<1>2. In(g) => saga.pc = "confirm" \/ saga.committed
  BY <1>1 DEF IInv, SaveOK
<1>3. ~AtWork(g)
  BY <1>2 DEF AtWork, IInv, SagaOK
<1> QED
  BY <1>3 DEF IInv, PhaseOK

(* A step of the worker alone.                                               *)
LEMMA WorkStep ==
    ASSUME IInv, TypeOK', AnalysesOK', WorkerOK', UNCHANGED <<rows, timeline, gens, saga, host>>,
           \A g \in Gens : WorkKept(g)
    PROVE  IInv'
<1>1. rows' = rows /\ timeline' = timeline /\ gens' = gens /\ saga' = saga /\ host' = host
  OBVIOUS
<1>2. SagaOK'
  BY <1>1 DEF IInv, SagaOK, OfGeneration
<1>3. RefsOK'
  BY <1>1 DEF IInv, RefsOK, Referenced
<1>4. ASSUME NEW g \in Gens PROVE PhaseOK(g)' /\ SaveOK(g)'
  <2>1. PhaseOK(g) /\ SaveOK(g) /\ WorkerOK /\ RefsOK /\ SagaOK /\ WorkKept(g) /\ StartedOnce(g)
    BY <1>4 DEF IInv, WorkerOK
  <2>2. /\ AtWork(g)' <=> AtWork(g)
        /\ Unstarted(g)' <=> Unstarted(g)
        /\ Uncommitted(g)' <=> Uncommitted(g)
        /\ In(g)' <=> In(g)
        /\ Saved(g)' <=> Saved(g)
        /\ Referenced(g)' <=> Referenced(g)
        /\ Overtaken(g)' <=> Overtaken(g)
    BY <1>1 DEF AtWork, Unstarted, Uncommitted, In, OfGeneration, Saved, Referenced, Overtaken
  <2>3. Forgetting(g)' => Forgetting(g)
    BY <1>1, <2>1 DEF Forgetting, WorkKept
  <2>4. "succeeded" \in Answers /\ "succeeded" \in Ends
    BY DEF Answers, Ends
  <2>5. (Unstarted(g) => ~AtWork(g)) /\ (Unstarted(g) => Uncommitted(g))
    BY DEF Unstarted, AtWork, Early, Uncommitted, In, IInv, SagaOK
  <2>6. gens[g].status = "cancelled" => ~AtWork(g)
    BY DEF AtWork, In, IInv, SagaOK
  <2>7. PhaseOK(g)'
    <3> HIDE DEF Quiet, AtWork, Unstarted, Uncommitted, Forgetting, In, Told, Pending, Running, Saved
    <3>1. ~AtWork(g)' => Quiet(g)'
      BY <2>1, <2>2 DEF PhaseOK, WorkKept
    <3>2. Unstarted(g)' => disk'.job[g] = "absent" /\ \A k \in Answers : ~Told(k, g)'
      BY <2>1, <2>2, <2>5 DEF PhaseOK, WorkKept
    <3>3. Uncommitted(g)' => ~Pending("commit", g)' /\ worker'.moving # g /\ Clean(g)' /\ ~Told("succeeded", g)'
      BY <2>1, <2>2 DEF PhaseOK, WorkKept, Clean
    <3>4. gens'[g].status = "cancelled" => Clean(g)' /\ disk'.job[g] = "absent"
      BY <1>1, <2>1, <2>2, <2>6 DEF PhaseOK, WorkKept, Clean
    <3>5. gens'[g].status = "none" => rows'[g] = None
      BY <1>1, <2>1 DEF PhaseOK
    <3>6. Forgetting(g)' => rows'[g] = None /\ gens'[g].status # "none" /\ (In(g)' => saga'.committed)
      BY <1>1, <2>1, <2>2, <2>3 DEF PhaseOK
    <3>7. In(g)' /\ (saga'.pc = "finish" \/ (saga'.pc = "undo" /\ ~saga'.committed /\ saga'.after = "finish"))
            /\ host'.job.terminal => Quiet(g)'
      BY <1>1, <2>1, <2>2 DEF PhaseOK, WorkKept
    <3>8. In(g)' /\ saga'.pc \in {"prepared", "written", "commitWait"} =>
             ~Running(g)' /\ ~Pending("start", g)' /\ saga'.result = disk'.result[g]
      BY <1>1, <2>1, <2>2 DEF PhaseOK, WorkKept
    <3> QED
      BY <3>1, <3>2, <3>3, <3>4, <3>5, <3>6, <3>7, <3>8 DEF PhaseOK
  <2>8. SaveOK(g)'
    <3>1. In(g) /\ saga.pc = "commitWait" /\ Told("succeeded", g)' /\ saga.result.narrated => Resolves(g)'
      <4> SUFFICES ASSUME In(g), saga.pc = "commitWait", Told("succeeded", g)', saga.result.narrated
                   PROVE  Resolves(g)'
        OBVIOUS
      <4>1. saga.result = disk.result[g] /\ ~saga.committed /\ ~Forgetting(g)
        BY <2>1 DEF PhaseOK, SagaOK
      <4>2. Told("succeeded", g) \/ Resolves(g)'
        BY <2>1, <4>1 DEF WorkKept
      <4>3. CASE Told("succeeded", g)
        <5>1. Resolves(g) /\ Quiet(g)
          BY <2>1, <2>4, <4>3 DEF SaveOK, StartedOnce, Quiet
        <5> QED
          BY <2>1, <4>1, <5>1, NarrationResolves DEF WorkKept, Forgetting
      <4> QED
        BY <4>2, <4>3
    <3>2. In(g) /\ saga.pc \in Late /\ saga.result.narrated => Resolves(g)'
      <4> SUFFICES ASSUME In(g), saga.pc \in Late, saga.result.narrated PROVE Resolves(g)'
        OBVIOUS
      <4>1. ~saga.committed /\ ~Forgetting(g) /\ ~AtWork(g) /\ Resolves(g)
        BY <2>1 DEF PhaseOK, SagaOK, Late, AtWork, SaveOK
      <4>2. Quiet(g)
        BY <2>1, <4>1 DEF PhaseOK
      <4> QED
        BY <2>1, <4>1, <4>2, NarrationResolves DEF WorkKept, Forgetting
    <3>3. Referenced(g) => Saved(g) /\ (Overtaken(g) \/ Resolves(g)')
      <4> SUFFICES ASSUME Referenced(g), ~Overtaken(g) PROVE Saved(g) /\ Resolves(g)'
        BY <2>1 DEF SaveOK
      <4>1. Saved(g) /\ Resolves(g)
        BY <2>1 DEF SaveOK
      <4>2. Quiet(g)
        BY <4>1, SavedIsQuiet
      <4>3. ~Forgetting(g)
        BY <2>1 DEF RefsOK, Library, PhaseOK
      <4> QED
        BY <2>1, <4>1, <4>2, <4>3, NarrationResolves DEF WorkKept, Forgetting
    <3> HIDE DEF In, Told, Saved, Referenced, Overtaken, Resolves
    <3> QED
      BY <1>1, <2>1, <2>2, <3>1, <3>2, <3>3 DEF SaveOK
  <2> QED
    BY <2>7, <2>8
<1> QED
  BY <1>2, <1>3, <1>4 DEF IInv

(* The worker is left alone.                                                 *)
LEMMA SideRests ==
    ASSUME WorkerOK, UNCHANGED <<worker, thread, cmds, events>>,
           worker.moving # None => worker.moving \in disk'.durable
    PROVE  /\ WorkerOK' /\ \A g \in Gens : SideKept(g) /\ (Quiet(g)' <=> Quiet(g))
           /\ \A k, g : (Pending(k, g)' <=> Pending(k, g)) /\ (Told(k, g)' => Told(k, g))
                         /\ (Running(g)' <=> Running(g))
<1>1. worker' = worker /\ thread' = thread /\ cmds' = cmds /\ events' = events
  OBVIOUS
<1>2. \A k, g : (Pending(k, g)' <=> Pending(k, g)) /\ (Told(k, g)' <=> Told(k, g))
                /\ (Running(g)' <=> Running(g)) /\ (OneStart(g)' <=> OneStart(g))
  BY <1>1 DEF Pending, Told, Queued, Saying, Running, OneStart, Command, Event
<1>3. \A g : Quiet(g)' <=> Quiet(g)
  BY <1>1, <1>2 DEF Quiet
<1>4. \A g : StartedOnce(g) => StartedOnce(g)'
  <2> HIDE DEF Pending, Told, Running, OneStart
  <2> QED
    BY <1>1, <1>2 DEF StartedOnce
<1>5. WorkerOK'
  <2> HIDE DEF StartedOnce
  <2> QED
    BY <1>1, <1>4 DEF WorkerOK
<1>6. \A g \in Gens : SideKept(g)
  <2> HIDE DEF Pending, Told, Running, Quiet
  <2> QED
    BY <1>1, <1>2, <1>3 DEF SideKept
<1> QED
  BY <1>2, <1>3, <1>5, <1>6

(* The worker is killed, or a new one is started.                            *)
LEMMA SideCleared ==
    ASSUME worker' \in {NoWorker, FreshWorker}, thread' = NoThread, cmds' = <<>>, events' = <<>>
    PROVE  /\ WorkerOK'
           /\ \A g \in Gens : SideKept(g) /\ Quiet(g)' /\ OneStart(g)'
           /\ \A k, g : ~Pending(k, g)' /\ ~Told(k, g)'
           /\ worker' \in WorkerType /\ thread' \in ThreadType
           /\ cmds' \in Seq(CommandType) /\ events' \in Seq(EventType)
<1>1. /\ worker' \in WorkerType /\ thread' \in ThreadType /\ thread'.pc = "idle"
      /\ worker'.staged = None /\ worker'.moving = None
  BY RestIs
<1>2. \A k, g : ~Pending(k, g)' /\ ~Told(k, g)' /\ ~Running(g)' /\ OneStart(g)'
  BY <1>1 DEF Pending, Told, Queued, Saying, Running, OneStart
<1>3. \A g \in Gens : Quiet(g)'
  BY <1>1, <1>2, NoneIsNone DEF Quiet
<1>4. \A g \in Gens : StartedOnce(g)'
  <2> HIDE DEF Pending, Told, Running, OneStart
  <2> QED
    BY <1>1, <1>2, NoneIsNone DEF StartedOnce
<1>5. WorkerOK'
  <2> HIDE DEF StartedOnce
  <2> QED
    BY <1>1, <1>4 DEF WorkerOK
<1>6. \A g \in Gens : SideKept(g)
  <2> HIDE DEF Pending, Told, Running, Quiet
  <2> QED
    BY <1>1, <1>2, <1>3, NoneIsNone DEF SideKept
<1> QED
  BY <1>1, <1>2, <1>3, <1>5, <1>6

(* A line is read.                                                           *)
LEMMA SideRead ==
    ASSUME WorkerOK, events \in Seq(EventType), events # <<>>, events' = Tail(events),
           UNCHANGED <<worker, thread, cmds>>,
           worker.moving # None => worker.moving \in disk'.durable
    PROVE  /\ WorkerOK' /\ \A g \in Gens : SideKept(g) /\ (Quiet(g)' <=> Quiet(g))
           /\ \A k, g : (Pending(k, g)' <=> Pending(k, g)) /\ (Told(k, g)' => Told(k, g))
                         /\ (Running(g)' <=> Running(g))
<1>1. worker' = worker /\ thread' = thread /\ cmds' = cmds
  OBVIOUS
<1>2. \A k, g : (Pending(k, g)' <=> Pending(k, g)) /\ (Told(k, g)' => Told(k, g))
                /\ (Running(g)' <=> Running(g)) /\ (OneStart(g)' <=> OneStart(g))
  <2>1. \A k, g : Queued(k, g)' => Queued(k, g)
    BY EventRead
  <2> QED
    BY <1>1, <2>1 DEF Pending, Told, Saying, Running, OneStart, Command, Event
<1>3. \A g : Quiet(g)' <=> Quiet(g)
  BY <1>1, <1>2 DEF Quiet
<1>4. \A g : StartedOnce(g) => StartedOnce(g)'
  <2> HIDE DEF Pending, Told, Running, OneStart
  <2> QED
    BY <1>1, <1>2 DEF StartedOnce
<1>5. WorkerOK'
  <2> HIDE DEF StartedOnce
  <2> QED
    BY <1>1, <1>4 DEF WorkerOK
<1>6. \A g \in Gens : SideKept(g)
  <2> HIDE DEF Pending, Told, Running, Quiet
  <2> QED
    BY <1>1, <1>2, <1>3 DEF SideKept
<1> QED
  BY <1>2, <1>3, <1>5, <1>6

(* A command is written.                                                     *)
LEMMA SideSent ==
    ASSUME WorkerOK, cmds \in Seq(CommandType), NEW k0, NEW g0, Command(k0, g0) \in CommandType,
           cmds' = Append(cmds, Command(k0, g0)), UNCHANGED <<worker, thread, events>>,
           worker.moving # None => worker.moving \in disk'.durable,
           k0 = "start" => Quiet(g0) /\ \A k \in Answers : ~Told(k, g0)
    PROVE  /\ WorkerOK' /\ cmds' \in Seq(CommandType)
           /\ \A g \in Gens : g # g0 \/ k0 \notin {"start", "commit"} => SideKept(g)
           /\ \A k, g : Told(k, g)' <=> Told(k, g)
           /\ \A k, g : Pending(k, g)' => Pending(k, g) \/ (k = k0 /\ g = g0)
           /\ \A g : Running(g)' <=> Running(g)
<1>1. worker' = worker /\ thread' = thread /\ events' = events
  OBVIOUS
<1>2. /\ cmds' \in Seq(CommandType)
      /\ \A k, g : Pending(k, g)' => Pending(k, g) \/ (k = k0 /\ g = g0)
      /\ \A g : OneStart(g) /\ (k0 = "start" => ~Pending("start", g0)) => OneStart(g)'
  BY CmdWritten
<1>3. \A k, g : (Told(k, g)' <=> Told(k, g)) /\ (Running(g)' <=> Running(g))
  BY <1>1 DEF Told, Queued, Saying, Running, Event
<1>4. k0 = "start" => ~Pending("start", g0) /\ ~Running(g0) /\ worker.staged # g0
  BY DEF Quiet
<1>5. \A g : StartedOnce(g) => StartedOnce(g)'
  <2> HIDE DEF Pending, Told, Running, OneStart
  <2>1. Ends \subseteq Answers
    BY DEF Answers
  <2> QED
    BY <1>1, <1>2, <1>3, <1>4, <2>1 DEF StartedOnce
<1>6. WorkerOK'
  <2> HIDE DEF StartedOnce
  <2> QED
    BY <1>1, <1>5 DEF WorkerOK
<1>7. ASSUME NEW g \in Gens, g # g0 \/ k0 \notin {"start", "commit"} PROVE SideKept(g)
  <2> HIDE DEF Pending, Told, Running, OneStart
  <2>1. Quiet(g) => Quiet(g)'
    BY <1>1, <1>2, <1>3, <1>7 DEF Quiet
  <2> QED
    BY <1>1, <1>2, <1>3, <1>7, <2>1 DEF SideKept
<1> QED
  BY <1>2, <1>3, <1>6, <1>7

(* What is known of materials stays with its owners.                         *)
LEMMA AnalysesRest ==
    ASSUME AnalysesOK, rows' = rows, saga'.mats \in {saga.mats, Nothing},
           saga'.pc \in Resulted => saga.pc \in Resulted /\ saga'.result = saga.result,
           \A g \in Gens : /\ disk'.result[g] = disk.result[g]
                           /\ disk'.job[g] = "result" => disk.job[g] = "result",
           thread' \in {thread, NoThread}
    PROVE  AnalysesOK'
<1>1. AnalysisIsOfContent'
  BY DEF AnalysesOK, AnalysisIsOfContent
<1>2. AllOfContent(saga.mats)'
  BY NothingIs DEF AnalysesOK, AllOfContent
<1>3. Compared'
  <2>1. CASE thread' = thread
    BY <2>1 DEF AnalysesOK, Compared
  <2>2. CASE thread' = NoThread
    BY <2>2, NothingIs, RestIs DEF Compared, AllOfContent
  <2> QED
    BY <2>1, <2>2
<1>4. \A g \in Gens : disk'.job[g] = "result" =>
          disk'.result[g] \in ResultType /\ AllOfContent(disk'.result[g].found)
  BY DEF AnalysesOK
<1>5. saga'.pc \in Resulted => AllOfContent(saga'.result.found)
  BY DEF AnalysesOK
<1> QED
  BY <1>1, <1>2, <1>3, <1>4, <1>5 DEF AnalysesOK, AllOfContent

(* A step of the desktop: what remains is the generation it is about.        *)
LEMMA SagaStep ==
    ASSUME IInv, TypeOK', AnalysesOK', SagaOK', WorkerOK', RefsOK', NEW g0,
           \A g \in Gens : g # g0 =>
               /\ ~In(g) /\ ~In(g)' /\ SideKept(g) /\ DiskKept(g) /\ TimelineKept(g)
               /\ gens'[g] = gens[g] /\ rows'[g] = rows[g]
               /\ Forgetting(g)' => Forgetting(g),
           \A g \in Gens : g = g0 => PhaseOK(g)' /\ SaveOK(g)'
    PROVE  IInv'
<1>1. ASSUME NEW g \in Gens PROVE PhaseOK(g)' /\ SaveOK(g)'
  <2>1. CASE g # g0
    BY <1>1, <2>1, OtherKept
  <2>3. CASE g = g0
    BY <1>1, <2>3
  <2> QED
    BY <2>1, <2>3
<1> QED
  BY <1>1 DEF IInv

------------------------------------------------------------------------------
(* The generation thread *)

Busy == thread.pc \notin {"idle", "say"}

(* What the invariant says of a thread at work.                              *)
LEMMA BusyIs ==
    ASSUME IInv, Busy
    PROVE  /\ thread \in ThreadType /\ thread.gen \in Gens /\ Running(thread.gen)
           /\ ~Pending("start", thread.gen) /\ worker.staged # thread.gen
           /\ worker \in WorkerType /\ disk \in DiskType /\ thread.gen \in Library
<1>1. thread.gen \in Gens /\ Running(thread.gen)
  BY DEF IInv, WorkerOK, Busy, Running
<1>2. StartedOnce(thread.gen)
  BY <1>1 DEF IInv, WorkerOK
<1> QED
  BY <1>1, <1>2 DEF IInv, TypeOK, StartedOnce, Library

(* The analyses after a step of the thread.                                  *)
LEMMA AnalysesThread ==
    ASSUME AnalysesOK, UNCHANGED <<rows, saga>>, Compared',
           \A g \in Gens : disk'.job[g] = "result" =>
               \/ disk'.result[g] = disk.result[g] /\ disk.job[g] = "result"
               \/ disk'.result[g] \in ResultType /\ AllOfContent(disk'.result[g].found)
    PROVE  AnalysesOK'
<1>1. AnalysisIsOfContent'
  BY DEF AnalysesOK, AnalysisIsOfContent
<1>2. AllOfContent(saga'.mats) /\ (saga'.pc \in Resulted => AllOfContent(saga'.result.found))
  BY DEF AnalysesOK
<1>3. \A g \in Gens : disk'.job[g] = "result" =>
          disk'.result[g] \in ResultType /\ AllOfContent(disk'.result[g].found)
  BY DEF AnalysesOK
<1> QED
  BY <1>1, <1>2, <1>3 DEF AnalysesOK, AllOfContent

(* The thread goes on with its generation.                                   *)
LEMMA ThreadGoesOn ==
    ASSUME IInv, Busy, UNCHANGED <<rows, timeline, gens, saga, host, worker, cmds, events>>,
           thread' \in ThreadType, thread'.gen = thread.gen, thread'.pc \notin {"idle", "say"},
           disk' \in DiskType, disk'.registry = disk.registry, disk'.durable = disk.durable,
           \A g \in Gens : g # thread.gen =>
               disk'.job[g] = disk.job[g] /\ disk'.result[g] = disk.result[g],
           AnalysesOK'
    PROVE  IInv'
<1>1. worker' = worker /\ cmds' = cmds /\ events' = events
  OBVIOUS
<1>2. \A k, g : /\ Pending(k, g)' <=> Pending(k, g)
                /\ Told(k, g)' <=> Told(k, g)
                /\ Running(g)' <=> Running(g)
                /\ OneStart(g)' <=> OneStart(g)
  BY <1>1 DEF Pending, Told, Queued, Saying, Running, OneStart, Command, Event, Busy
<1>3. \A g : Quiet(g)' <=> Quiet(g)
  BY <1>1, <1>2 DEF Quiet
<1>4. \A g : StartedOnce(g) => StartedOnce(g)'
  <2> HIDE DEF Pending, Told, Running, OneStart
  <2> QED
    BY <1>1, <1>2 DEF StartedOnce
<1>5. WorkerOK'
  <2> HIDE DEF StartedOnce
  <2> QED
    BY <1>1, <1>4, BusyIs DEF WorkerOK, IInv
<1>6. TypeOK'
  BY <1>1 DEF IInv, TypeOK
<1>7. ASSUME NEW g \in Gens PROVE WorkKept(g)
  <2>1. Quiet(g) \/ (~Running(g) /\ ~Pending("start", g)) => g # thread.gen
    BY BusyIs DEF Quiet
  <2>2. Quiet(g) => disk'.job[g] = disk.job[g]
    BY <2>1
  <2>3. ~Running(g) /\ ~Pending("start", g) => disk'.result[g] = disk.result[g]
    BY <2>1
  <2> HIDE DEF Pending, Told, Running, Quiet, Resolves
  <2> QED
    BY <1>1, <1>2, <1>3, <2>2, <2>3 DEF WorkKept
<1> QED
  BY <1>5, <1>6, <1>7, WorkStep

(* The thread leaves: the job directory is gone, the answer is to be printed. *)
LEMMA LeaveHolds ==
    ASSUME IInv, Busy, NEW kind \in {"cancelled", "failed"}, Leave(kind),
           UNCHANGED <<rows, timeline, gens, saga, host, cmds, events>>
    PROVE  IInv'
<1> DEFINE g0 == thread.gen
<1>1. /\ thread \in ThreadType /\ g0 \in Gens /\ Running(g0) /\ g0 \in Library
      /\ ~Pending("start", g0) /\ worker.staged # g0
      /\ worker \in WorkerType /\ disk \in DiskType
  BY BusyIs
<1>2. /\ thread' = [thread EXCEPT !.pc = "say", !.say = Event(kind, g0)]
      /\ worker' = [worker EXCEPT !.active = None]
      /\ disk' = [disk EXCEPT !.job[g0] = "absent"]
      /\ cmds' = cmds /\ events' = events
  BY DEF Leave, Closed
<1>3. Event(kind, g0) \in EventType /\ Event(kind, g0).gen = g0
  BY <1>1 DEF Event, EventType
<1>4. /\ thread' \in ThreadType /\ thread'.pc = "say" /\ thread'.say = Event(kind, g0)
      /\ thread'.mats = thread.mats /\ thread'.approved = thread.approved
      /\ thread'.frames = thread.frames /\ thread'.found = thread.found /\ thread'.todo = thread.todo
      /\ thread'.gen = g0
  <2> DEFINE e == Event(kind, g0)
  <2>1. thread \in ThreadType /\ e \in EventType /\ thread' = [thread EXCEPT !.pc = "say", !.say = e]
    BY <1>1, <1>2, <1>3
  <2> HIDE DEF e
  <2>2. /\ thread' \in ThreadType /\ thread'.pc = "say" /\ thread'.say = e
        /\ thread'.mats = thread.mats /\ thread'.approved = thread.approved
        /\ thread'.frames = thread.frames /\ thread'.found = thread.found
        /\ thread'.todo = thread.todo /\ thread'.gen = thread.gen
    BY <2>1 DEF ThreadType, ThreadSteps
  <2> QED
    BY <2>2 DEF e
<1>5. worker' \in WorkerType /\ worker'.staged = worker.staged /\ worker'.moving = worker.moving
  BY <1>1, <1>2 DEF WorkerType
<1>6. /\ disk' \in DiskType /\ disk'.registry = disk.registry /\ disk'.durable = disk.durable
      /\ disk'.result = disk.result /\ disk'.job[g0] = "absent"
      /\ \A g \in Gens : g # g0 => disk'.job[g] = disk.job[g]
  <2> HIDE DEF g0
  <2> QED
    BY <1>1, <1>2 DEF DiskType
<1>7. \A k, g : /\ Pending(k, g)' <=> Pending(k, g)
                /\ Told(k, g)' => Told(k, g) \/ (k = kind /\ g = g0)
                /\ Running(g)' => Running(g) /\ g # g0
                /\ OneStart(g)' <=> OneStart(g)
  <2>1. \A k, g : (Pending(k, g)' <=> Pending(k, g)) /\ (OneStart(g)' <=> OneStart(g))
                  /\ (Queued(k, g)' <=> Queued(k, g))
    BY <1>2 DEF Pending, OneStart, Queued, Command, Event
  <2>2. \A k, g : Saying(k, g)' => k = kind /\ g = g0
    BY <1>4, EventIs DEF Saying, Event
  <2>3. \A g : ~Running(g)'
    BY <1>4 DEF Running
  <2> QED
    BY <2>1, <2>2, <2>3 DEF Told
<1>8. \A g : Quiet(g) => Quiet(g)' /\ g # g0
  BY <1>1, <1>5, <1>7 DEF Quiet
<1> HIDE DEF g0
<1>9. \A g \in Gens : StartedOnce(g) => StartedOnce(g)'
  <2> HIDE DEF Pending, Told, Running, OneStart
  <2> QED
    BY <1>1, <1>5, <1>7 DEF StartedOnce
<1>10. WorkerOK'
  <2> HIDE DEF StartedOnce
  <2> QED
    BY <1>1, <1>3, <1>4, <1>5, <1>6, <1>9 DEF WorkerOK, IInv
<1>11. TypeOK'
  BY <1>4, <1>5, <1>6 DEF IInv, TypeOK
<1>12. Compared'
  BY <1>4 DEF Compared, IInv, AnalysesOK
<1>13. AnalysesOK'
  <2>1. \A g \in Gens : disk'.job[g] = "result" =>
            disk'.result[g] = disk.result[g] /\ disk.job[g] = "result"
    BY <1>6
  <2> QED
    BY <1>12, <2>1, AnalysesThread DEF IInv
<1>14. ASSUME NEW g \in Gens PROVE WorkKept(g)
  <2>1. Quiet(g) => g # g0 /\ Quiet(g)'
    BY <1>8
  <2>2. kind # "succeeded"
    OBVIOUS
  <2> HIDE DEF Pending, Told, Running, Quiet, Resolves
  <2> QED
    BY <1>5, <1>6, <1>7, <2>1, <2>2 DEF WorkKept
<1> QED
  BY <1>10, <1>11, <1>13, <1>14, WorkStep

(* The thread takes a step that writes no file.                              *)
LEMMA ThreadAdvances ==
    ASSUME IInv, Busy,
           UNCHANGED <<rows, timeline, gens, saga, host, worker, cmds, events, disk>>,
           thread' \in ThreadType, thread'.gen = thread.gen, thread'.pc \notin {"idle", "say"},
           Compared'
    PROVE  IInv'
<1>1. AnalysesOK'
  <2>1. \A g \in Gens : disk'.job[g] = "result" =>
            disk'.result[g] = disk.result[g] /\ disk.job[g] = "result"
    OBVIOUS
  <2> QED
    BY <2>1, AnalysesThread DEF IInv
<1>2. disk \in DiskType
  BY DEF IInv, TypeOK
<1> QED
  BY <1>1, <1>2, ThreadGoesOn

(* A step of the pipeline that goes through, and one that does not.          *)
LEMMA PipelineLeaves ==
    ASSUME IInv, Busy, UNCHANGED <<rows, timeline, gens, saga, host, cmds, events>>,
           Leave("cancelled") \/ Rejected
    PROVE  IInv'
BY LeaveHolds DEF Rejected

(* Only what the thread is doing changes.                                    *)
LEMMA ThreadMoves ==
    ASSUME IInv, Busy,
           UNCHANGED <<rows, timeline, gens, saga, host, worker, cmds, events, disk>>,
           NEW pc \in ThreadSteps \ {"idle", "say", "prove", "frames", "understand"},
           NEW narrated \in BOOLEAN,
           thread' = [thread EXCEPT !.pc = pc, !.narrated = narrated]
    PROVE  IInv'
<1>1. thread \in ThreadType /\ Compared
  BY DEF IInv, TypeOK, AnalysesOK
<1>2. /\ thread' \in ThreadType /\ thread'.pc = pc /\ thread'.gen = thread.gen
      /\ thread'.mats = thread.mats /\ thread'.approved = thread.approved
      /\ thread'.frames = thread.frames /\ thread'.found = thread.found
      /\ thread'.todo = thread.todo
  BY <1>1 DEF ThreadType
<1>3. Compared'
  BY <1>1, <1>2 DEF Compared
<1> QED
  BY <1>2, <1>3, ThreadAdvances

(* The file proved is the one the request carries.                           *)
LEMMA ProveSourceHolds ==
    ASSUME IInv, NEW m \in Videos, ProveSource(m) PROVE IInv'
<1>1. Busy /\ thread.pc = "prove" /\ m \in thread.todo
  BY DEF ProveSource, Busy
<1>2. UNCHANGED <<rows, timeline, gens, saga, host, cmds, events>>
  BY DEF ProveSource, Pipeline
<1>3. \/ Leave("cancelled") \/ Rejected
      \/ /\ FactsMatch(m) /\ worker' = worker /\ disk' = disk
         /\ thread' = [thread EXCEPT !.todo = @ \ {m}, !.approved = With(@, m, Approve(m))]
  BY DEF ProveSource, Pipeline
<1>4. CASE Leave("cancelled") \/ Rejected
  BY <1>1, <1>2, <1>4, PipelineLeaves
<1>5. CASE /\ FactsMatch(m) /\ worker' = worker /\ disk' = disk
           /\ thread' = [thread EXCEPT !.todo = @ \ {m}, !.approved = With(@, m, Approve(m))]
  <2> DEFINE a == With(thread.approved, m, disk.content[m])
             left == thread.todo \ {m}
  <2>1. thread \in ThreadType /\ Compared /\ disk.content[m] \in Nat
    BY DEF IInv, TypeOK, AnalysesOK, DiskType
  <2>2. thread.approved \in Versions /\ left \in SUBSET Videos /\ m \notin left /\ left \subseteq thread.todo
    BY <2>1 DEF ThreadType
  <2>3. /\ a \in Versions /\ DOMAIN a = DOMAIN thread.approved \cup {m}
        /\ \A x \in DOMAIN thread.approved : a[x] = thread.approved[x]
        /\ m \notin DOMAIN thread.approved => a[m] = disk.content[m]
    BY <2>1, <2>2, VersionsAdd
  <2>4. thread' = [thread EXCEPT !.todo = left, !.approved = a]
    BY <1>5 DEF Approve
  <2>5. disk.content[m] = thread.mats[m].content
    BY <1>5 DEF FactsMatch, Probed, Registered, Digest
  <2>6. \A x \in thread.todo : x \in left \/ x = m
    OBVIOUS
  <2> HIDE DEF a, left
  <2>7. /\ thread' \in ThreadType /\ thread'.pc = "prove" /\ thread'.gen = thread.gen
        /\ thread'.mats = thread.mats /\ thread'.approved = a /\ thread'.todo = left
        /\ thread'.frames = thread.frames /\ thread'.found = thread.found
    BY <1>1, <2>1, <2>2, <2>3, <2>4 DEF ThreadType
  <2>8. Compared'
    <3> HIDE DEF AllOfContent
    <3>1. m \in DOMAIN thread.mats
      BY <1>1, <2>1 DEF Compared
    <3>2. \A x \in DOMAIN a : x \in DOMAIN thread.mats /\ a[x] = thread.mats[x].content
      BY <2>1, <2>3, <2>5, <3>1 DEF Compared
    <3>3. DOMAIN thread.mats \ left \subseteq DOMAIN a
      BY <1>1, <2>1, <2>3, <2>6 DEF Compared
    <3> QED
      BY <2>1, <2>2, <2>7, <3>2, <3>3 DEF Compared, AllOfContent
  <2> QED
    BY <1>1, <1>2, <1>5, <2>7, <2>8, ThreadAdvances
<1> QED
  BY <1>3, <1>4, <1>5

(* All sources are proved; only some need frames.                            *)
LEMMA SourcesProvedHolds ==
    ASSUME IInv, SourcesProved PROVE IInv'
<1>1. Busy /\ thread.pc = "prove" /\ thread.todo = {}
  BY DEF SourcesProved, Busy
<1>2. UNCHANGED <<rows, timeline, gens, saga, host, cmds, events>>
  BY DEF SourcesProved, Pipeline
<1>3. \/ Leave("cancelled") \/ Rejected
      \/ /\ worker' = worker /\ disk' = disk
         /\ thread' = [thread EXCEPT !.pc = "frames",
                !.todo = {m \in DOMAIN thread.mats : NeedsUnderstanding(thread.mats[m])}]
  BY DEF SourcesProved, Pipeline
<1>4. CASE Leave("cancelled") \/ Rejected
  BY <1>1, <1>2, <1>4, PipelineLeaves
<1>5. CASE /\ worker' = worker /\ disk' = disk
           /\ thread' = [thread EXCEPT !.pc = "frames",
                  !.todo = {m \in DOMAIN thread.mats : NeedsUnderstanding(thread.mats[m])}]
  <2> DEFINE need == {m \in DOMAIN thread.mats : NeedsUnderstanding(thread.mats[m])}
  <2>1. thread \in ThreadType /\ Compared
    BY DEF IInv, TypeOK, AnalysesOK
  <2>2. need \in SUBSET Videos /\ need \subseteq DOMAIN thread.mats
    BY <2>1, MaterialsAre DEF ThreadType
  <2>3. thread' = [thread EXCEPT !.pc = "frames", !.todo = need]
    BY <1>5
  <2> HIDE DEF need
  <2>4. /\ thread' \in ThreadType /\ thread'.pc = "frames" /\ thread'.gen = thread.gen
        /\ thread'.mats = thread.mats /\ thread'.approved = thread.approved
        /\ thread'.todo = need /\ thread'.frames = thread.frames /\ thread'.found = thread.found
    BY <2>1, <2>2, <2>3 DEF ThreadType, ThreadSteps
  <2>5. Compared'
    BY <1>1, <2>1, <2>2, <2>4 DEF Compared, need
  <2> QED
    BY <1>1, <1>2, <1>5, <2>4, <2>5, ThreadAdvances
<1> QED
  BY <1>3, <1>4, <1>5

(* Frames are of the version that was approved.                              *)
LEMMA PrepareFramesHolds ==
    ASSUME IInv, NEW m \in Videos, PrepareFrames(m) PROVE IInv'
<1>1. Busy /\ thread.pc = "frames" /\ m \in thread.todo
  BY DEF PrepareFrames, Busy
<1>2. UNCHANGED <<rows, timeline, gens, saga, host, cmds, events>>
  BY DEF PrepareFrames, Pipeline
<1>3. \/ Leave("cancelled") \/ Rejected
      \/ /\ Unchanged(m, thread.approved[m]) /\ worker' = worker /\ disk' = disk
         /\ thread' = [thread EXCEPT !.todo = @ \ {m}, !.frames = With(@, m, disk.content[m])]
  BY DEF PrepareFrames, Pipeline
<1>4. CASE Leave("cancelled") \/ Rejected
  BY <1>1, <1>2, <1>4, PipelineLeaves
<1>5. CASE /\ Unchanged(m, thread.approved[m]) /\ worker' = worker /\ disk' = disk
           /\ thread' = [thread EXCEPT !.todo = @ \ {m}, !.frames = With(@, m, disk.content[m])]
  <2> DEFINE a == With(thread.frames, m, disk.content[m])
             left == thread.todo \ {m}
  <2>1. thread \in ThreadType /\ Compared /\ disk.content[m] \in Nat
    BY DEF IInv, TypeOK, AnalysesOK, DiskType
  <2>2. thread.frames \in Versions /\ left \in SUBSET Videos /\ m \notin left /\ left \subseteq thread.todo
    BY <2>1 DEF ThreadType
  <2>3. /\ a \in Versions /\ DOMAIN a = DOMAIN thread.frames \cup {m}
        /\ \A x \in DOMAIN thread.frames : a[x] = thread.frames[x]
        /\ m \notin DOMAIN thread.frames => a[m] = disk.content[m]
    BY <2>1, <2>2, VersionsAdd
  <2>4. thread' = [thread EXCEPT !.todo = left, !.frames = a]
    BY <1>5
  <2>5. m \in DOMAIN thread.mats /\ disk.content[m] = thread.mats[m].content
    BY <1>1, <1>5, <2>1 DEF Compared, Unchanged
  <2>6. \A x \in thread.todo : x \in left \/ x = m
    OBVIOUS
  <2> HIDE DEF a, left
  <2>7. /\ thread' \in ThreadType /\ thread'.pc = "frames" /\ thread'.gen = thread.gen
        /\ thread'.mats = thread.mats /\ thread'.frames = a /\ thread'.todo = left
        /\ thread'.approved = thread.approved /\ thread'.found = thread.found
    BY <1>1, <2>1, <2>2, <2>3, <2>4 DEF ThreadType
  <2>8. Compared'
    <3> HIDE DEF AllOfContent, NeedsUnderstanding
    <3>1. \A x \in DOMAIN a : x \in DOMAIN thread.mats /\ a[x] = thread.mats[x].content
      BY <2>1, <2>3, <2>5 DEF Compared
    <3>2. {x \in DOMAIN thread.mats : NeedsUnderstanding(thread.mats[x])} \ left \subseteq DOMAIN a
      BY <1>1, <2>1, <2>3, <2>6 DEF Compared
    <3> QED
      BY <1>1, <2>1, <2>2, <2>7, <3>1, <3>2 DEF Compared, AllOfContent, NeedsUnderstanding
  <2> QED
    BY <1>1, <1>2, <1>5, <2>7, <2>8, ThreadAdvances
<1> QED
  BY <1>3, <1>4, <1>5

(* All frames are there.                                                     *)
LEMMA FramesPreparedHolds ==
    ASSUME IInv, FramesPrepared PROVE IInv'
<1>1. Busy /\ thread.pc = "frames" /\ thread.todo = {}
  BY DEF FramesPrepared, Busy
<1>2. UNCHANGED <<rows, timeline, gens, saga, host, cmds, events>>
  BY DEF FramesPrepared, Pipeline
<1>3. \/ Leave("cancelled") \/ Rejected
      \/ /\ worker' = worker /\ disk' = disk
         /\ thread' = [thread EXCEPT !.pc = "understand", !.todo = DOMAIN thread.mats]
  BY DEF FramesPrepared, Pipeline
<1>4. CASE Leave("cancelled") \/ Rejected
  BY <1>1, <1>2, <1>4, PipelineLeaves
<1>5. CASE /\ worker' = worker /\ disk' = disk
           /\ thread' = [thread EXCEPT !.pc = "understand", !.todo = DOMAIN thread.mats]
  <2> DEFINE all == DOMAIN thread.mats
  <2>1. thread \in ThreadType /\ Compared
    BY DEF IInv, TypeOK, AnalysesOK
  <2>2. all \in SUBSET Videos
    BY <2>1, MaterialsAre DEF ThreadType
  <2>3. thread' = [thread EXCEPT !.pc = "understand", !.todo = all]
    BY <1>5
  <2> HIDE DEF all
  <2>4. /\ thread' \in ThreadType /\ thread'.pc = "understand" /\ thread'.gen = thread.gen
        /\ thread'.mats = thread.mats /\ thread'.approved = thread.approved
        /\ thread'.todo = all /\ thread'.frames = thread.frames /\ thread'.found = thread.found
    BY <2>1, <2>2, <2>3 DEF ThreadType, ThreadSteps
  <2>5. Compared'
    BY <1>1, <2>1, <2>4 DEF Compared, all
  <2> QED
    BY <1>1, <1>2, <1>5, <2>4, <2>5, ThreadAdvances
<1> QED
  BY <1>3, <1>4, <1>5

(* What a row is after the model described its frames.                       *)
Described(row, seen) ==
    IF NeedsUnderstanding(row) THEN [row EXCEPT !.desc = "ai", !.seen = seen] ELSE row

(* A description is of the row's content when its frames are.                *)
LEMMA DescribedIs ==
    ASSUME NEW row \in Row, NEW seen, OfContent(row),
           NeedsUnderstanding(row) => seen = row.content /\ seen \in Nat
    PROVE  /\ Described(row, seen) \in Row /\ Described(row, seen).content = row.content
           /\ OfContent(Described(row, seen))
<1>1. CASE NeedsUnderstanding(row)
  BY <1>1 DEF Described, Row, OfContent
<1>2. CASE ~NeedsUnderstanding(row)
  BY <1>2 DEF Described
<1> QED
  BY <1>1, <1>2

(* A description is of the frames, and the frames of the approved version.   *)
LEMMA UnderstandHolds ==
    ASSUME IInv, NEW m \in Videos, UnderstandIfNeeded(m) PROVE IInv'
<1>1. Busy /\ thread.pc = "understand" /\ m \in thread.todo /\ m \notin DOMAIN thread.found
  BY DEF UnderstandIfNeeded, Busy
<1>2. UNCHANGED <<rows, timeline, gens, saga, host, cmds, events>>
  BY DEF UnderstandIfNeeded, Pipeline
<1> DEFINE row == thread.mats[m]
           described == Described(row, thread.frames[m])
<1>3. \/ Leave("cancelled") \/ Rejected
      \/ /\ worker' = worker /\ disk' = disk
         /\ thread' = [thread EXCEPT !.found = With(@, m, described)]
  BY DEF UnderstandIfNeeded, Pipeline, Described
<1>4. CASE Leave("cancelled") \/ Rejected
  BY <1>1, <1>2, <1>4, PipelineLeaves
<1>5. CASE /\ worker' = worker /\ disk' = disk
           /\ thread' = [thread EXCEPT !.found = With(@, m, described)]
  <2>1. thread \in ThreadType /\ Compared
    BY DEF IInv, TypeOK, AnalysesOK
  <2>2. thread.found \in Materials /\ thread.mats \in Materials /\ thread.frames \in Versions
    BY <2>1 DEF ThreadType
  <2>3. m \in DOMAIN thread.mats /\ row \in Row /\ OfContent(row)
    BY <1>1, <2>1, <2>2, MaterialsAre DEF Compared, AllOfContent
  <2>4. NeedsUnderstanding(row) => thread.frames[m] = row.content /\ thread.frames[m] \in Nat
    BY <1>1, <2>1, <2>2, <2>3, VersionsAre DEF Compared
  <2>5. described \in Row /\ described.content = row.content /\ OfContent(described)
    BY <2>3, <2>4, DescribedIs
  <2> HIDE DEF described
  <2> DEFINE f == With(thread.found, m, described)
  <2>6. /\ f \in Materials /\ DOMAIN f = DOMAIN thread.found \cup {m}
        /\ \A x \in DOMAIN thread.found : f[x] = thread.found[x]
        /\ f[m] = described
    BY <1>1, <2>2, <2>5, MaterialsAdd
  <2>7. thread' = [thread EXCEPT !.found = f]
    BY <1>5
  <2> HIDE DEF f
  <2>8. /\ thread' \in ThreadType /\ thread'.pc = "understand" /\ thread'.gen = thread.gen
        /\ thread'.mats = thread.mats /\ thread'.approved = thread.approved
        /\ thread'.todo = thread.todo /\ thread'.frames = thread.frames /\ thread'.found = f
    BY <1>1, <2>1, <2>6, <2>7 DEF ThreadType
  <2>9. Compared'
    <3>1. \A x \in DOMAIN f : x \in DOMAIN thread.mats /\ f[x].content = thread.mats[x].content
      BY <2>1, <2>3, <2>5, <2>6 DEF Compared
    <3>2. \A x \in DOMAIN f : OfContent(f[x])
      BY <2>1, <2>5, <2>6 DEF Compared, AllOfContent
    <3> HIDE DEF OfContent, NeedsUnderstanding
    <3> QED
      BY <1>1, <2>1, <2>8, <3>1, <3>2 DEF Compared, AllOfContent, OfContent, NeedsUnderstanding
  <2> QED
    BY <1>1, <1>2, <1>5, <2>8, <2>9, ThreadAdvances
<1> QED
  BY <1>3, <1>4, <1>5

(* The sound is of the version that was approved, compared after it is read. *)
LEMMA AnalyzeSpeechHolds ==
    ASSUME IInv, NEW m \in Videos, AnalyzeSpeechIfNeeded(m) PROVE IInv'
<1>1. Busy /\ thread.pc = "understand" /\ m \in thread.todo /\ m \in DOMAIN thread.found
  BY DEF AnalyzeSpeechIfNeeded, Busy
<1>2. PICK speech \in BOOLEAN :
          Pipeline(IF thread.found[m].speech
                   THEN /\ thread' = [thread EXCEPT !.todo = @ \ {m}]
                        /\ UNCHANGED <<worker, disk>>
                   ELSE IF Unchanged(m, thread.approved[m])
                   THEN /\ thread' = [thread EXCEPT !.todo = @ \ {m},
                                        !.found[m].speech = speech,
                                        !.found[m].heard = disk.content[m]]
                        /\ UNCHANGED <<worker, disk>>
                   ELSE Rejected)
  BY DEF AnalyzeSpeechIfNeeded
<1>3. UNCHANGED <<rows, timeline, gens, saga, host, cmds, events>>
  BY <1>2 DEF Pipeline
<1> DEFINE left == thread.todo \ {m}
           heard == [thread.found[m] EXCEPT !.speech = speech, !.heard = disk.content[m]]
           f == [thread.found EXCEPT ![m] = heard]
<1>4. \/ Leave("cancelled") \/ Rejected
      \/ worker' = worker /\ disk' = disk /\ thread' = [thread EXCEPT !.todo = left]
      \/ /\ worker' = worker /\ disk' = disk /\ Unchanged(m, thread.approved[m])
         /\ thread' = [thread EXCEPT !.todo = left, !.found[m].speech = speech,
                                     !.found[m].heard = disk.content[m]]
  BY <1>2 DEF Pipeline
<1>5. thread \in ThreadType /\ Compared /\ disk.content[m] \in Nat
  BY DEF IInv, TypeOK, AnalysesOK, DiskType
<1>6. left \in SUBSET Videos /\ left \subseteq thread.todo /\ thread.found \in Materials
  BY <1>5 DEF ThreadType
<1>7. thread.found[m] \in Row /\ m \in DOMAIN thread.mats
  BY <1>1, <1>5, <1>6, MaterialsAre DEF Compared
<1>8. CASE Leave("cancelled") \/ Rejected
  BY <1>1, <1>3, <1>8, PipelineLeaves
<1>9. CASE worker' = worker /\ disk' = disk /\ thread' = [thread EXCEPT !.todo = left]
  <2> HIDE DEF left
  <2>1. /\ thread' \in ThreadType /\ thread'.pc = "understand" /\ thread'.gen = thread.gen
        /\ thread'.mats = thread.mats /\ thread'.approved = thread.approved
        /\ thread'.todo = left /\ thread'.frames = thread.frames /\ thread'.found = thread.found
    BY <1>1, <1>5, <1>6, <1>9 DEF ThreadType
  <2>2. Compared'
    BY <1>1, <1>5, <1>6, <2>1 DEF Compared
  <2> QED
    BY <1>1, <1>3, <1>9, <2>1, <2>2, ThreadAdvances
<1>10. CASE /\ worker' = worker /\ disk' = disk /\ Unchanged(m, thread.approved[m])
            /\ thread' = [thread EXCEPT !.todo = left, !.found[m].speech = speech,
                                        !.found[m].heard = disk.content[m]]
  <2>1. disk.content[m] = thread.found[m].content
    BY <1>1, <1>5, <1>7, <1>10 DEF Compared, Unchanged
  <2>2. OfContent(thread.found[m])
    BY <1>1, <1>5 DEF Compared, AllOfContent
  <2>3. heard \in Row /\ heard.content = thread.found[m].content /\ OfContent(heard)
    BY <1>2, <1>5, <1>7, <2>1, <2>2 DEF Row, OfContent
  <2>4. thread' = [thread EXCEPT !.todo = left, !.found = f]
    BY <1>1, <1>5, <1>6, <1>7, <1>10 DEF ThreadType
  <2> HIDE DEF heard, left
  <2>5. /\ f \in Materials /\ DOMAIN f = DOMAIN thread.found /\ f[m] = heard
        /\ \A x \in DOMAIN thread.found : x # m => f[x] = thread.found[x]
    BY <1>1, <1>6, <2>3, MaterialsChange
  <2> HIDE DEF f
  <2>6. /\ thread' \in ThreadType /\ thread'.pc = "understand" /\ thread'.gen = thread.gen
        /\ thread'.mats = thread.mats /\ thread'.approved = thread.approved
        /\ thread'.todo = left /\ thread'.frames = thread.frames /\ thread'.found = f
    BY <1>1, <1>5, <1>6, <2>4, <2>5 DEF ThreadType
  <2>7. Compared'
    <3>1. \A x \in DOMAIN f : x \in DOMAIN thread.mats /\ f[x].content = thread.mats[x].content
      BY <1>1, <1>5, <2>3, <2>5 DEF Compared
    <3>2. \A x \in DOMAIN f : OfContent(f[x])
      BY <1>5, <2>3, <2>5 DEF Compared, AllOfContent
    <3> HIDE DEF OfContent, NeedsUnderstanding
    <3> QED
      BY <1>1, <1>5, <1>6, <2>6, <3>1, <3>2 DEF Compared, AllOfContent, OfContent, NeedsUnderstanding
  <2> QED
    BY <1>1, <1>3, <1>10, <2>6, <2>7, ThreadAdvances
<1> QED
  BY <1>4, <1>8, <1>9, <1>10

(* The pipeline's steps between the analyses and the result.                 *)
LEMMA MovesHold ==
    ASSUME IInv, MaterialsPrepared \/ Script \/ Select \/ BindNarration \/ CheckCancelled
    PROVE  IInv'
<1>1. Busy
  BY DEF MaterialsPrepared, Script, Select, BindNarration, CheckCancelled, Busy
<1>2. UNCHANGED <<rows, timeline, gens, saga, host, cmds, events>>
  BY DEF MaterialsPrepared, Script, Select, BindNarration, CheckCancelled, Pipeline
<1>3. thread \in ThreadType
  BY DEF IInv, TypeOK
<1>4. \/ Leave("cancelled") \/ Rejected
      \/ /\ worker' = worker /\ disk' = disk
         /\ \E pc \in ThreadSteps \ {"idle", "say", "prove", "frames", "understand"},
               narrated \in BOOLEAN : thread' = [thread EXCEPT !.pc = pc, !.narrated = narrated]
  <2>1. CASE MaterialsPrepared
    <3> DEFINE silent == {m \in DOMAIN thread.found : ~thread.found[m].speech}
               pc0 == IF silent # {} THEN "scripting" ELSE "selecting"
               sound == silent # {}
    <3>1. \/ Leave("cancelled") \/ Rejected
          \/ /\ worker' = worker /\ disk' = disk
             /\ thread' = [thread EXCEPT !.narrated = sound, !.pc = pc0]
      BY <2>1 DEF MaterialsPrepared, Pipeline
    <3>2. pc0 \in {"scripting", "selecting"} /\ sound \in BOOLEAN
      OBVIOUS
    <3> HIDE DEF silent, pc0, sound
    <3>3. [thread EXCEPT !.narrated = sound, !.pc = pc0] = [thread EXCEPT !.pc = pc0, !.narrated = sound]
      BY <1>3 DEF ThreadType
    <3> QED
      BY <3>1, <3>2, <3>3 DEF ThreadSteps
  <2>2. CASE Script \/ Select \/ BindNarration \/ CheckCancelled
    <3>1. \/ Leave("cancelled") \/ Rejected
          \/ /\ worker' = worker /\ disk' = disk
             /\ \E pc \in {"synthesizing", "matching", "selecting", "binding", "publishing", "stage"} :
                   thread' = [thread EXCEPT !.pc = pc]
      BY <2>2 DEF Script, Select, BindNarration, CheckCancelled, Pipeline
    <3>2. \A pc : [thread EXCEPT !.pc = pc] = [thread EXCEPT !.pc = pc, !.narrated = thread.narrated]
      BY <1>3 DEF ThreadType
    <3>3. thread.narrated \in BOOLEAN
      BY <1>3 DEF ThreadType
    <3> QED
      BY <3>1, <3>2, <3>3 DEF ThreadSteps
  <2> QED
    BY <2>1, <2>2
<1>5. CASE Leave("cancelled") \/ Rejected
  BY <1>1, <1>2, <1>5, PipelineLeaves
<1>6. CASE /\ worker' = worker /\ disk' = disk
           /\ \E pc \in ThreadSteps \ {"idle", "say", "prove", "frames", "understand"},
                 narrated \in BOOLEAN : thread' = [thread EXCEPT !.pc = pc, !.narrated = narrated]
  BY <1>1, <1>2, <1>6, ThreadMoves
<1> QED
  BY <1>4, <1>5, <1>6

(* The request is read and the staging directory made.                       *)
LEMMA OpenJobHolds ==
    ASSUME IInv, OpenJob PROVE IInv'
<1>1. Busy /\ thread.pc = "open" /\ UNCHANGED <<rows, timeline, gens, saga, host, cmds, events>>
  BY DEF OpenJob, Busy
<1>2. CASE Rejected
  BY <1>1, <1>2, PipelineLeaves
<1>3. CASE /\ disk' = [disk EXCEPT !.job[thread.gen] = "staging"] /\ worker' = worker
           /\ thread' = [thread EXCEPT !.pc = "prove", !.todo = DOMAIN thread.mats]
  <2> DEFINE all == DOMAIN thread.mats
  <2>1. thread \in ThreadType /\ Compared /\ disk \in DiskType /\ thread.gen \in Gens
    BY <1>1, BusyIs DEF IInv, TypeOK, AnalysesOK
  <2>2. all \in SUBSET Videos
    BY <2>1, MaterialsAre DEF ThreadType
  <2>3. thread' = [thread EXCEPT !.pc = "prove", !.todo = all]
    BY <1>3
  <2> HIDE DEF all
  <2>4. /\ thread' \in ThreadType /\ thread'.pc = "prove" /\ thread'.gen = thread.gen
        /\ thread'.mats = thread.mats /\ thread'.approved = thread.approved
        /\ thread'.todo = all /\ thread'.frames = thread.frames /\ thread'.found = thread.found
    BY <2>1, <2>2, <2>3 DEF ThreadType, ThreadSteps
  <2>5. Compared'
    BY <1>1, <2>1, <2>4 DEF Compared, all
  <2>6. /\ disk' \in DiskType /\ disk'.registry = disk.registry /\ disk'.durable = disk.durable
        /\ disk'.result = disk.result /\ disk'.job[thread.gen] = "staging"
        /\ \A g \in Gens : g # thread.gen => disk'.job[g] = disk.job[g]
    BY <1>3, <2>1 DEF DiskType
  <2>7. AnalysesOK'
    <3>1. \A g \in Gens : disk'.job[g] = "result" =>
              disk'.result[g] = disk.result[g] /\ disk.job[g] = "result"
      BY <2>6
    <3> QED
      BY <1>1, <2>5, <3>1, AnalysesThread DEF IInv
  <2> QED
    BY <1>1, <1>3, <2>4, <2>6, <2>7, ThreadGoesOn
<1> QED
  BY <1>2, <1>3 DEF OpenJob

(* The result document holds analyses of the request's contents.             *)
LEMMA WriteResultHolds ==
    ASSUME IInv, WriteResult PROVE IInv'
<1>1. Busy /\ UNCHANGED <<rows, timeline, gens, saga, host, cmds, events>>
  BY DEF WriteResult, Busy, Pipeline
<1>2. \/ Leave("cancelled")
      \/ /\ thread' = [thread EXCEPT !.pc = "check"] /\ worker' = worker
         /\ disk' = [disk EXCEPT !.job[thread.gen] = "result", !.result[thread.gen] = ResultDocument]
  BY DEF WriteResult, Pipeline
<1>3. CASE Leave("cancelled")
  BY <1>1, <1>3, PipelineLeaves
<1>4. CASE /\ thread' = [thread EXCEPT !.pc = "check"] /\ worker' = worker
           /\ disk' = [disk EXCEPT !.job[thread.gen] = "result", !.result[thread.gen] = ResultDocument]
  <2>1. thread \in ThreadType /\ Compared /\ disk \in DiskType /\ thread.gen \in Gens
    BY <1>1, BusyIs DEF IInv, TypeOK, AnalysesOK
  <2>2. ResultDocument \in ResultType /\ AllOfContent(ResultDocument.found)
    BY <2>1 DEF ResultDocument, ResultType, ThreadType, Compared
  <2>3. /\ thread' \in ThreadType /\ thread'.pc = "check" /\ thread'.gen = thread.gen
        /\ thread'.mats = thread.mats /\ thread'.approved = thread.approved
        /\ thread'.todo = thread.todo /\ thread'.frames = thread.frames /\ thread'.found = thread.found
    BY <1>4, <2>1 DEF ThreadType, ThreadSteps
  <2>4. Compared'
    BY <2>1, <2>3 DEF Compared
  <2> DEFINE written == ResultDocument
  <2>5. disk' = [disk EXCEPT !.job[thread.gen] = "result", !.result[thread.gen] = written]
    BY <1>4
  <2> HIDE DEF written
  <2>6. /\ disk' \in DiskType /\ disk'.registry = disk.registry /\ disk'.durable = disk.durable
        /\ disk'.result[thread.gen] = written
        /\ \A g \in Gens : g # thread.gen =>
               disk'.job[g] = disk.job[g] /\ disk'.result[g] = disk.result[g]
    BY <2>1, <2>2, <2>5 DEF DiskType, written
  <2>7. AnalysesOK'
    <3>1. \A g \in Gens : disk'.job[g] = "result" =>
              \/ disk'.result[g] = disk.result[g] /\ disk.job[g] = "result"
              \/ disk'.result[g] \in ResultType /\ AllOfContent(disk'.result[g].found)
      BY <2>2, <2>6 DEF written
    <3> QED
      BY <1>1, <2>4, <3>1, AnalysesThread DEF IInv
  <2> QED
    BY <1>1, <1>4, <2>3, <2>6, <2>7, ThreadGoesOn
<1> QED
  BY <1>2, <1>3, <1>4

(* The slot is taken: the job waits for its commit.                          *)
LEMMA StageHolds ==
    ASSUME IInv, Stage PROVE IInv'
<1> DEFINE g0 == thread.gen
<1>1. /\ Busy /\ thread.pc = "stage" /\ worker.moving = None
      /\ UNCHANGED <<rows, timeline, gens, saga, host, cmds, events>>
  BY DEF Stage, Busy
<1>2. CASE Rejected
  BY <1>1, <1>2, PipelineLeaves
<1>3. CASE /\ MayPrepare(g0) /\ worker.staged = None /\ disk' = disk
           /\ worker' = [worker EXCEPT !.staged = g0, !.timer = TRUE, !.active = Prepared]
           /\ thread' = [thread EXCEPT !.pc = "say", !.say = Event("prepared", g0)]
  <2>1. /\ thread \in ThreadType /\ g0 \in Gens /\ Running(g0) /\ g0 \in Library
        /\ ~Pending("start", g0) /\ worker \in WorkerType /\ disk \in DiskType
    BY <1>1, BusyIs
  <2>2. StartedOnce(g0) /\ \A k \in Answers : ~Told(k, g0)
    <3>1. StartedOnce(g0)
      BY <2>1 DEF IInv, WorkerOK
    <3> QED
      BY <2>1, <3>1 DEF StartedOnce
  <2> DEFINE e == Event("prepared", g0)
  <2>3. e \in EventType /\ e.gen = g0
    BY <2>1 DEF Event, EventType
  <2>4. Prepared \in ActiveType
    <3>1. worker.active \in ActiveType
      BY <1>3, <2>1 DEF MayPrepare, IsActive, WorkerType
    <3> QED
      BY <3>1 DEF Prepared, ActiveType
  <2>5. worker' \in WorkerType /\ worker'.staged = g0 /\ worker'.moving = None
    BY <1>1, <1>3, <2>1, <2>4 DEF WorkerType
  <2>6. thread' = [thread EXCEPT !.pc = "say", !.say = e]
    BY <1>3
  <2> HIDE DEF e
  <2>7. /\ thread' \in ThreadType /\ thread'.pc = "say" /\ thread'.say = e
        /\ thread'.mats = thread.mats /\ thread'.approved = thread.approved
        /\ thread'.frames = thread.frames /\ thread'.found = thread.found
        /\ thread'.todo = thread.todo /\ thread'.gen = thread.gen
    BY <2>1, <2>3, <2>6 DEF ThreadType, ThreadSteps
  <2>8. \A k, g : /\ Pending(k, g)' <=> Pending(k, g)
                  /\ Told(k, g)' => Told(k, g) \/ (k = "prepared" /\ g = g0)
                  /\ ~Running(g)'
                  /\ OneStart(g)' <=> OneStart(g)
    <3>1. \A k, g : (Pending(k, g)' <=> Pending(k, g)) /\ (OneStart(g)' <=> OneStart(g))
                    /\ (Queued(k, g)' <=> Queued(k, g))
      BY <1>1 DEF Pending, OneStart, Queued, Command, Event
    <3>2. \A k, g : Saying(k, g)' => k = "prepared" /\ g = g0
      BY <2>7, EventIs DEF Saying, Event, e
    <3>3. \A g : ~Running(g)'
      BY <2>7 DEF Running
    <3> QED
      BY <3>1, <3>2, <3>3 DEF Told
  <2>9. \A g : Quiet(g) => Quiet(g)' /\ g # g0
    BY <2>1, <2>5, <2>8 DEF Quiet
  <2> HIDE DEF g0
  <2>10. \A g \in Gens : StartedOnce(g) => StartedOnce(g)'
    <3> HIDE DEF Pending, Told, Running, OneStart
    <3>1. "prepared" \notin Ends /\ Ends \subseteq Answers
      BY DEF Ends, Answers
    <3> QED
      BY <1>3, <2>1, <2>2, <2>5, <2>8, <3>1 DEF StartedOnce
  <2>11. WorkerOK'
    <3> HIDE DEF StartedOnce
    <3> QED
      BY <2>1, <2>3, <2>5, <2>7, <2>10 DEF WorkerOK, IInv
  <2>12. TypeOK'
    BY <1>1, <1>3, <2>5, <2>7 DEF IInv, TypeOK
  <2>13. Compared'
    BY <2>7 DEF Compared, IInv, AnalysesOK
  <2>14. AnalysesOK'
    BY <1>1, <1>3, <2>13, AnalysesThread DEF IInv
  <2>15. ASSUME NEW g \in Gens PROVE WorkKept(g)
    <3>1. Quiet(g) => g # g0 /\ Quiet(g)'
      BY <2>9
    <3>2. Resolves(g)' <=> Resolves(g)
      BY <1>3, <2>15, NarrationResolves
    <3> HIDE DEF Pending, Told, Running, Quiet, Resolves
    <3> QED
      BY <1>1, <1>3, <2>5, <2>8, <3>1, <3>2 DEF WorkKept
  <2> QED
    BY <1>1, <2>11, <2>12, <2>14, <2>15, WorkStep
<1> QED
  BY <1>2, <1>3 DEF Stage

(* A step that only takes things off the worker's queues and slots.          *)
LEMMA WorkShrinks ==
    ASSUME IInv, UNCHANGED <<rows, timeline, gens, saga, host>>,
           worker' \in WorkerType, thread' \in {thread, NoThread},
           cmds' \in Seq(CommandType), events' \in Seq(EventType), disk' \in DiskType,
           \/ worker'.staged = worker.staged /\ worker'.moving = worker.moving
           \/ worker'.staged = None /\ worker'.moving = None,
           \A k, g : Pending(k, g)' => Pending(k, g),
           \A g : OneStart(g) => OneStart(g)',
           \A k \in Answers, g \in Gens : Told(k, g)' => Told(k, g),
           disk'.job = disk.job, disk'.result = disk.result, disk'.durable = disk.durable,
           \A g \in Gens : \/ disk'.registry[g] = disk.registry[g]
                           \/ disk'.registry[g] = None /\ Pending("forget", g)
    PROVE  IInv'
<1>1. \A g : Running(g)' => Running(g)
  BY RestIs DEF Running
<1>2. \A g \in Gens : Quiet(g) => Quiet(g)'
  BY <1>1, NoneIsNone DEF Quiet
<1>3. \A g \in Gens : StartedOnce(g) => StartedOnce(g)'
  <2> HIDE DEF Pending, Told, Running, OneStart
  <2>1. Ends \subseteq Answers
    BY DEF Answers
  <2>2. \A g \in Gens : worker'.staged = g => worker.staged = g
    BY NoneIsNone
  <2> QED
    BY <1>1, <2>1, <2>2 DEF StartedOnce
<1>4. WorkerOK'
  <2> HIDE DEF StartedOnce
  <2>1. thread'.pc \notin {"idle", "say"} => thread'.gen \in Gens
    BY RestIs DEF IInv, WorkerOK
  <2>2. thread'.pc = "say" => thread'.say \in EventType /\ thread'.say.gen \in Gens
    BY RestIs DEF IInv, WorkerOK
  <2> QED
    BY <1>3, <2>1, <2>2 DEF WorkerOK, IInv
<1>5. TypeOK'
  BY RestIs DEF IInv, TypeOK
<1>6. AnalysesOK'
  BY AnalysesRest DEF IInv
<1>7. ASSUME NEW g \in Gens PROVE WorkKept(g)
  <2>1. Told("succeeded", g)' => Told("succeeded", g)
    BY DEF Answers, Ends
  <2>2. ~Running(g) /\ ~Pending("start", g) => ~Running(g)' /\ ~Pending("start", g)'
    BY <1>1
  <2>3. worker.moving # g => worker'.moving # g
    BY NoneIsNone
  <2>4. Quiet(g) => Quiet(g)'
    BY <1>2
  <2> HIDE DEF Pending, Told, Running, Quiet, Resolves
  <2> QED
    BY <1>1, <2>1, <2>2, <2>3, <2>4 DEF WorkKept
<1> QED
  BY <1>4, <1>5, <1>6, <1>7, WorkStep

(* The staged job ends: its directory is gone and its answer is printed.     *)
LEMMA StagedEnds ==
    ASSUME IInv, UNCHANGED <<rows, timeline, gens, saga, host, thread>>,
           NEW g0 \in Gens, worker.staged = g0, NEW k0 \in Ends,
           worker' \in WorkerType, worker'.staged = None, worker'.moving = None,
           events' = Append(events, Event(k0, g0)), cmds' \in Seq(CommandType),
           \A k, g : Pending(k, g)' => Pending(k, g),
           \A g : OneStart(g) => OneStart(g)',
           disk' \in DiskType, disk'.job[g0] = "absent", disk'.result = disk.result,
           \A g \in Gens : g # g0 => /\ disk'.job[g] = disk.job[g]
                                     /\ disk'.registry[g] = disk.registry[g]
                                     /\ g \in disk'.durable <=> g \in disk.durable,
           \/ Pending("commit", g0) \/ worker.moving = g0
           \/ /\ disk'.registry[g0] = disk.registry[g0] /\ k0 # "succeeded"
              /\ g0 \in disk'.durable <=> g0 \in disk.durable,
           disk'.registry[g0] = None => disk.registry[g0] = None,
           k0 = "succeeded" => \/ Resolves(g0)'
                               \/ disk.result[g0] \in ResultType /\ ~disk.result[g0].narrated
    PROVE  IInv'
<1>1. Event(k0, g0) \in EventType
  BY DEF Event, EventType, Ends, Library
<1>2. events' \in Seq(EventType) /\ \A k, g : Queued(k, g)' => Queued(k, g) \/ (k = k0 /\ g = g0)
  <2>1. events \in Seq(EventType)
    BY DEF IInv, TypeOK
  <2> QED
    BY <1>1, <2>1, EventWritten, EventIs
<1>3. \A k, g : /\ Told(k, g)' => Told(k, g) \/ (k = k0 /\ g = g0)
                /\ Running(g)' <=> Running(g)
  BY <1>2 DEF Told, Saying, Running, Event
<1>4. \A g \in Gens : Quiet(g) => Quiet(g)' /\ g # g0
  BY <1>3, NoneIsNone DEF Quiet
<1>5. \A g \in Gens : StartedOnce(g) => StartedOnce(g)'
  <2> HIDE DEF Pending, Told, Running, OneStart
  <2> QED
    BY <1>3, NoneIsNone DEF StartedOnce
<1>6. WorkerOK'
  <2> HIDE DEF StartedOnce
  <2> QED
    BY <1>5 DEF WorkerOK, IInv
<1>7. TypeOK'
  BY <1>2 DEF IInv, TypeOK
<1>8. AnalysesOK'
  <2>1. \A g \in Gens : /\ disk'.result[g] = disk.result[g]
                        /\ disk'.job[g] = "result" => disk.job[g] = "result"
    OBVIOUS
  <2> QED
    BY <2>1, AnalysesRest DEF IInv
<1>9. ASSUME NEW g \in Gens PROVE WorkKept(g)
  <2>1. worker'.moving # g
    BY NoneIsNone
  <2>2. ~Running(g) /\ ~Pending("start", g) => ~Running(g)' /\ ~Pending("start", g)'
    BY <1>3
  <2>3. Quiet(g) => Quiet(g)' /\ g # g0
    BY <1>4
  <2>4. Told("succeeded", g)' => \/ Told("succeeded", g) \/ Resolves(g)'
                                 \/ disk.result[g] \in ResultType /\ ~disk.result[g].narrated
    BY <1>3
  <2>5. g # g0 => (\A k : Told(k, g)' => Told(k, g))
    BY <1>3
  <2> HIDE DEF Pending, Told, Running, Quiet, Resolves
  <2>6. CASE g # g0
    BY <1>9, <2>1, <2>2, <2>3, <2>4, <2>5, <2>6 DEF WorkKept
  <2>7. CASE g = g0
    <3>1. Told("succeeded", g)' /\ k0 # "succeeded" => Told("succeeded", g)
      BY <1>3
    <3> QED
      BY <1>9, <2>1, <2>2, <2>3, <2>4, <2>7, <3>1 DEF WorkKept
  <2> QED
    BY <2>6, <2>7
<1> QED
  BY <1>6, <1>7, <1>8, <1>9, WorkStep

(* No command is written or read.                                            *)
LEMMA CmdsRest ==
    ASSUME cmds' = cmds
    PROVE  \A k, g : (Pending(k, g)' <=> Pending(k, g)) /\ (OneStart(g)' <=> OneStart(g))
BY DEF Pending, OneStart, Command

(* No event is written or read.                                              *)
LEMMA EventsRest ==
    ASSUME events' = events, thread' \in {thread, NoThread}
    PROVE  \A k, g : Told(k, g)' => Told(k, g)
BY RestIs DEF Told, Queued, Saying, Event

(* The desktop does not wait for what such an event says.                    *)
LEMMA OtherEvent ==
    ASSUME events \in Seq(EventType), NEW k0 \in {"gateway", "forgotten", "imported"}, NEW g0 \in Library,
           events' = Append(events, Event(k0, g0)), thread' = thread
    PROVE  events' \in Seq(EventType) /\ \A k \in Answers, g \in Gens : Told(k, g)' => Told(k, g)
<1>1. Event(k0, g0) \in EventType
  BY DEF Event, EventType
<1>2. events' \in Seq(EventType) /\ \A k, g : Queued(k, g)' => Queued(k, g) \/ (k = k0 /\ g = g0)
  BY <1>1, EventWritten, EventIs
<1>3. k0 \notin Answers
  BY DEF Answers, Ends
<1> QED
  BY <1>2, <1>3 DEF Told, Saying, Event

(* The thread prints what it has to say.                                     *)
LEMMA SayHolds ==
    ASSUME IInv, Say PROVE IInv'
<1>1. /\ thread.pc = "say" /\ events' = Append(events, thread.say) /\ thread' = NoThread
      /\ UNCHANGED <<rows, timeline, gens, saga, host>>
      /\ worker' = worker /\ cmds' = cmds /\ disk' = disk
  BY DEF Say
<1>2. thread.say \in EventType /\ TypeOK
  BY <1>1 DEF IInv, WorkerOK
<1>3. events' \in Seq(EventType) /\ \A k, g : Queued(k, g)' => Queued(k, g) \/ thread.say = Event(k, g)
  BY <1>1, <1>2, EventWritten DEF TypeOK
<1>4. \A k, g : Told(k, g)' => Told(k, g)
  BY <1>1, <1>3, RestIs DEF Told, Saying, Event
<1>5. worker' \in WorkerType /\ disk' \in DiskType /\ cmds' \in Seq(CommandType)
  BY <1>1, <1>2 DEF TypeOK
<1> QED
  BY <1>1, <1>3, <1>4, <1>5, CmdsRest, WorkShrinks

(* The commit did not come in time.                                          *)
LEMMA ExpireStagedHolds ==
    ASSUME IInv, ExpireStaged PROVE IInv'
<1> DEFINE g0 == worker.staged
<1>1. /\ worker.staged # None /\ worker.moving = None
      /\ disk' = [disk EXCEPT !.job[g0] = "absent"]
      /\ events' = Append(events, Event("commit_failed", g0))
      /\ worker' = [Closed EXCEPT !.staged = None, !.timer = FALSE]
      /\ UNCHANGED <<rows, timeline, gens, saga, host, thread>> /\ cmds' = cmds
  BY DEF ExpireStaged
<1>2. worker \in WorkerType /\ disk \in DiskType /\ cmds' \in Seq(CommandType)
  BY <1>1 DEF IInv, TypeOK
<1>3. /\ g0 \in Gens /\ worker' \in WorkerType /\ worker'.staged = None /\ worker'.moving = None
  BY <1>1, <1>2 DEF Closed, WorkerType
<1>4. g0 = worker.staged
  OBVIOUS
<1> HIDE DEF g0
<1>5. /\ disk' \in DiskType /\ disk'.registry = disk.registry /\ disk'.durable = disk.durable
      /\ disk'.result = disk.result /\ disk'.job[g0] = "absent"
      /\ \A g \in Gens : g # g0 => disk'.job[g] = disk.job[g]
  BY <1>1, <1>2, <1>3 DEF DiskType
<1>6. "commit_failed" \in Ends /\ "commit_failed" # "succeeded"
  BY DEF Ends
<1> QED
  BY <1>1, <1>2, <1>3, <1>4, <1>5, <1>6, CmdsRest, StagedEnds

(* The worker dies.                                                          *)
LEMMA WorkerDiesHolds ==
    ASSUME IInv, WorkerDies PROVE IInv'
<1>1. /\ worker' = NoWorker /\ thread' = NoThread /\ cmds' = <<>> /\ events' = events /\ disk' = disk
      /\ UNCHANGED <<rows, timeline, gens, saga, host>>
  BY DEF WorkerDies
<1>2. \A k, g : ~Pending(k, g)' /\ OneStart(g)'
  BY <1>1 DEF Pending, OneStart
<1>3. disk' \in DiskType /\ events' \in Seq(EventType) /\ cmds' \in Seq(CommandType)
  BY <1>1 DEF IInv, TypeOK
<1> QED
  BY <1>1, <1>2, <1>3, RestIs, EventsRest, WorkShrinks

(* A cancel is taken, or answered by the older protocol.                     *)
LEMMA AcceptCancelHolds ==
    ASSUME IInv, AcceptCancel PROVE IInv'
<1>1. TypeOK
  BY DEF IInv
<1> DEFINE g0 == Head(cmds).gen
<1>2. /\ Reading("cancel") /\ thread' = thread /\ disk' = disk
      /\ worker' = IF CancelAdmitted(g0)
                   THEN [worker EXCEPT !.active.cancelling = TRUE, !.cancel = TRUE] ELSE worker
      /\ events' = IF worker.active = None THEN Append(events, Event("gateway", g0)) ELSE events
  BY DEF AcceptCancel
<1>3. /\ cmds' \in Seq(CommandType) /\ Command("cancel", g0) \in CommandType
      /\ \A k, g : Pending(k, g)' => Pending(k, g)
      /\ \A g : OneStart(g) => OneStart(g)'
      /\ UNCHANGED <<rows, timeline, gens, saga, host>>
  BY <1>1, <1>2, CmdRead DEF TypeOK
<1>4. g0 \in Library
  BY <1>3 DEF Command, CommandType, Library
<1>5. /\ worker' \in WorkerType /\ worker'.staged = worker.staged /\ worker'.moving = worker.moving
  <2>1. CASE CancelAdmitted(g0)
    <3>1. worker.active \in ActiveType /\ worker \in WorkerType
      BY <1>1, <2>1 DEF CancelAdmitted, IsActive, TypeOK, WorkerType
    <3> DEFINE a == [worker.active EXCEPT !.cancelling = TRUE]
    <3>2. a \in ActiveType
      BY <3>1 DEF ActiveType
    <3>3. worker' = [worker EXCEPT !.active = a, !.cancel = TRUE]
      BY <1>2, <2>1, <3>1 DEF WorkerType
    <3> HIDE DEF a
    <3> QED
      BY <3>1, <3>2, <3>3 DEF WorkerType
  <2>2. CASE ~CancelAdmitted(g0)
    BY <1>1, <1>2, <2>2 DEF TypeOK
  <2> QED
    BY <2>1, <2>2
<1>6. events' \in Seq(EventType) /\ \A k \in Answers, g \in Gens : Told(k, g)' => Told(k, g)
  <2>1. CASE events' = Append(events, Event("gateway", g0))
    BY <1>1, <1>2, <1>4, <2>1, OtherEvent DEF TypeOK
  <2>2. CASE events' = events
    BY <1>1, <1>2, <2>2, EventsRest DEF TypeOK
  <2> QED
    BY <1>2, <2>1, <2>2
<1>7. disk' \in DiskType
  BY <1>1, <1>2 DEF TypeOK
<1> QED
  BY <1>2, <1>3, <1>5, <1>6, <1>7, WorkShrinks

(* One entry of the path registry changes.                                   *)
LEMMA RegistrySet ==
    ASSUME disk \in DiskType, NEW m \in Library, NEW v \in Nat \cup {None},
           disk' = [disk EXCEPT !.registry[m] = v]
    PROVE  /\ disk' \in DiskType /\ disk'.job = disk.job /\ disk'.result = disk.result
           /\ disk'.durable = disk.durable /\ disk'.content = disk.content
           /\ disk'.registry[m] = v
           /\ \A n \in Library : n # m => disk'.registry[n] = disk.registry[n]
<1> DEFINE r == [disk.registry EXCEPT ![m] = v]
<1>1. disk' = [disk EXCEPT !.registry = r]
  BY DEF DiskType
<1>2. /\ r \in [Library -> Nat \cup {None}] /\ r[m] = v
      /\ \A n \in Library : n # m => r[n] = disk.registry[n]
  BY DEF DiskType
<1> HIDE DEF r
<1> QED
  BY <1>1, <1>2 DEF DiskType

(* A material is forgotten, one the desktop asked to forget.                 *)
LEMMA AcceptForgetHolds ==
    ASSUME IInv, AcceptForget PROVE IInv'
<1>1. TypeOK
  BY DEF IInv
<1> DEFINE g0 == Head(cmds).gen
<1>2. /\ Reading("forget") /\ worker' = worker /\ thread' = thread
      /\ \/ /\ disk' = [disk EXCEPT !.registry[g0] = None]
            /\ events' = Append(events, Event("forgotten", g0))
         \/ disk' = disk /\ events' = events
  BY DEF AcceptForget
<1>3. /\ cmds' \in Seq(CommandType) /\ Command("forget", g0) \in CommandType
      /\ Pending("forget", g0)
      /\ \A k, g : Pending(k, g)' => Pending(k, g)
      /\ \A g : OneStart(g) => OneStart(g)'
      /\ UNCHANGED <<rows, timeline, gens, saga, host>>
  BY <1>1, <1>2, CmdRead DEF TypeOK
<1>4. g0 \in Library
  BY <1>3 DEF Command, CommandType, Library
<1>5. worker' \in WorkerType
  BY <1>1, <1>2 DEF TypeOK
<1>6. events' \in Seq(EventType) /\ \A k \in Answers, g \in Gens : Told(k, g)' => Told(k, g)
  <2>1. CASE events' = Append(events, Event("forgotten", g0))
    BY <1>1, <1>2, <1>4, <2>1, OtherEvent DEF TypeOK
  <2>2. CASE events' = events
    BY <1>1, <1>2, <2>2, EventsRest DEF TypeOK
  <2> QED
    BY <1>2, <2>1, <2>2
<1> HIDE DEF g0
<1>7. /\ disk' \in DiskType /\ disk'.job = disk.job /\ disk'.result = disk.result
      /\ disk'.durable = disk.durable
      /\ \A g \in Gens : \/ disk'.registry[g] = disk.registry[g]
                         \/ disk'.registry[g] = None /\ g = g0
  <2>1. disk \in DiskType /\ Gens \subseteq Library
    BY <1>1 DEF TypeOK, Library
  <2>2. CASE disk' = disk
    BY <2>1, <2>2
  <2>3. CASE disk' = [disk EXCEPT !.registry[g0] = None]
    BY <1>4, <2>1, <2>3, RegistrySet
  <2> QED
    BY <1>2, <2>2, <2>3
<1> QED
  BY <1>2, <1>3, <1>5, <1>6, <1>7, WorkShrinks

(* A video is put into the path registry; narrations are not concerned.      *)
LEMMA AcceptImportHolds ==
    ASSUME IInv, AcceptImport PROVE IInv'
<1>1. TypeOK
  BY DEF IInv
<1> DEFINE m0 == Head(cmds).gen
<1>2. /\ Reading("import") /\ worker' = worker /\ thread' = thread
      /\ \/ /\ disk' = [disk EXCEPT !.registry[m0] = disk.content[m0]]
            /\ events' = Append(events, Event("imported", m0))
         \/ disk' = disk /\ events' = events
  BY DEF AcceptImport, Probed, Registered, Digest
<1>3. /\ cmds' \in Seq(CommandType) /\ Command("import", m0) \in CommandType
      /\ \A k, g : Pending(k, g)' => Pending(k, g)
      /\ \A g : OneStart(g) => OneStart(g)'
      /\ UNCHANGED <<rows, timeline, gens, saga, host>>
  BY <1>1, <1>2, CmdRead DEF TypeOK
<1>4. m0 \in Videos /\ m0 \in Library /\ m0 \notin Gens
  BY <1>3, NoneIsNone DEF Command, CommandType, Library
<1>5. worker' \in WorkerType
  BY <1>1, <1>2 DEF TypeOK
<1>6. events' \in Seq(EventType) /\ \A k \in Answers, g \in Gens : Told(k, g)' => Told(k, g)
  <2>1. CASE events' = Append(events, Event("imported", m0))
    BY <1>1, <1>2, <1>4, <2>1, OtherEvent DEF TypeOK
  <2>2. CASE events' = events
    BY <1>1, <1>2, <2>2, EventsRest DEF TypeOK
  <2> QED
    BY <1>2, <2>1, <2>2
<1> HIDE DEF m0
<1>7. /\ disk' \in DiskType /\ disk'.job = disk.job /\ disk'.result = disk.result
      /\ disk'.durable = disk.durable
      /\ \A g \in Gens : disk'.registry[g] = disk.registry[g]
  <2>1. disk \in DiskType /\ Gens \subseteq Library
    BY <1>1 DEF TypeOK, Library
  <2>2. disk.content[m0] \in Nat \cup {None}
    BY <1>4, <2>1 DEF DiskType
  <2>3. CASE disk' = disk
    BY <2>1, <2>3
  <2>4. CASE disk' = [disk EXCEPT !.registry[m0] = disk.content[m0]]
    BY <1>4, <2>1, <2>2, <2>4, RegistrySet
  <2> QED
    BY <1>2, <2>3, <2>4
<1> QED
  BY <1>2, <1>3, <1>5, <1>6, <1>7, WorkShrinks

(* A command that changes nothing but the queue it is read from.             *)
LEMMA ReadOnly ==
    ASSUME IInv, NEW k0, Reading(k0), worker' = worker, thread' = thread, events' = events,
           disk' = disk
    PROVE  IInv'
<1>1. TypeOK
  BY DEF IInv
<1>2. /\ cmds' \in Seq(CommandType)
      /\ \A k, g : Pending(k, g)' => Pending(k, g)
      /\ \A g : OneStart(g) => OneStart(g)'
      /\ UNCHANGED <<rows, timeline, gens, saga, host>>
  BY <1>1, CmdRead DEF TypeOK
<1>3. worker' \in WorkerType /\ events' \in Seq(EventType) /\ disk' \in DiskType
  BY <1>1 DEF TypeOK
<1> QED
  BY <1>2, <1>3, EventsRest, WorkShrinks

(* The staged job is aborted.                                                *)
LEMMA AcceptAbortHolds ==
    ASSUME IInv, AcceptAbort PROVE IInv'
<1>1. TypeOK
  BY DEF IInv
<1> DEFINE g0 == Head(cmds).gen
<1>2. Reading("abort") /\ thread' = thread
  BY DEF AcceptAbort
<1>3. /\ cmds' \in Seq(CommandType) /\ Command("abort", g0) \in CommandType
      /\ \A k, g : Pending(k, g)' => Pending(k, g)
      /\ \A g : OneStart(g) => OneStart(g)'
      /\ UNCHANGED <<rows, timeline, gens, saga, host>>
  BY <1>1, <1>2, CmdRead DEF TypeOK
<1>4. CASE ~(FinalizeAdmitted(g0) /\ worker.staged = g0)
  <2>1. disk' = disk /\ worker' = worker /\ events' = events
    BY <1>4 DEF AcceptAbort
  <2> QED
    BY <1>2, <2>1, ReadOnly
<1>5. CASE FinalizeAdmitted(g0) /\ worker.staged = g0
  <2>1. g0 \in Gens
    BY <1>3 DEF Command, CommandType
  <2>2. /\ disk' = [disk EXCEPT !.job[g0] = "absent"] /\ worker.moving = None
        /\ worker' = [Closed EXCEPT !.staged = None, !.timer = FALSE]
        /\ events' = Append(events, Event("aborted", g0))
    BY <1>2, <1>5 DEF AcceptAbort, Reading
  <2>3. worker' \in WorkerType /\ worker'.staged = None /\ worker'.moving = None
    BY <1>1, <2>2 DEF TypeOK, WorkerType, Closed
  <2> HIDE DEF g0
  <2>4. /\ disk' \in DiskType /\ disk'.registry = disk.registry /\ disk'.durable = disk.durable
        /\ disk'.result = disk.result /\ disk'.job[g0] = "absent"
        /\ \A g \in Gens : g # g0 => disk'.job[g] = disk.job[g]
    BY <1>1, <2>1, <2>2 DEF TypeOK, DiskType
  <2>5. "aborted" \in Ends /\ "aborted" # "succeeded"
    BY DEF Ends
  <2> QED
    BY <1>2, <1>3, <1>5, <2>1, <2>2, <2>3, <2>4, <2>5, StagedEnds
<1> QED
  BY <1>4, <1>5

(* A commit moves the staged narration, or ends the job at once.             *)
LEMMA AcceptCommitHolds ==
    ASSUME IInv, AcceptCommit PROVE IInv'
<1>1. TypeOK
  BY DEF IInv
<1> DEFINE g0 == Head(cmds).gen
<1>2. Reading("commit") /\ thread' = thread /\ worker.moving = None
  BY DEF AcceptCommit, Reading
<1>3. /\ cmds' \in Seq(CommandType) /\ Command("commit", g0) \in CommandType
      /\ Pending("commit", g0)
      /\ \A k, g : Pending(k, g)' => Pending(k, g)
      /\ \A g : OneStart(g) => OneStart(g)'
      /\ UNCHANGED <<rows, timeline, gens, saga, host>>
  BY <1>1, <1>2, CmdRead DEF TypeOK
<1>4. g0 \in Gens
  BY <1>3 DEF Command, CommandType
<1>5. CASE ~(FinalizeAdmitted(g0) /\ worker.staged = g0)
  <2>1. disk' = disk /\ worker' = worker /\ events' = events
    BY <1>5 DEF AcceptCommit
  <2> QED
    BY <1>2, <2>1, ReadOnly
<1>6. CASE /\ FinalizeAdmitted(g0) /\ worker.staged = g0
           /\ StagedIntact(g0) /\ disk.result[g0].narrated
  <2>1. /\ disk' = [disk EXCEPT !.durable = @ \cup {g0}] /\ events' = events
        /\ worker' = [worker EXCEPT !.active.finalizing = "commit", !.timer = FALSE, !.moving = g0]
    BY <1>6 DEF AcceptCommit
  <2>2. worker.active \in ActiveType /\ worker \in WorkerType /\ disk \in DiskType
    BY <1>1, <1>6 DEF FinalizeAdmitted, IsActive, TypeOK, WorkerType
  <2> DEFINE a == [worker.active EXCEPT !.finalizing = "commit"]
  <2>3. a \in ActiveType
    BY <2>2 DEF ActiveType
  <2>4. worker' = [worker EXCEPT !.active = a, !.timer = FALSE, !.moving = g0]
    BY <2>1, <2>2 DEF WorkerType
  <2> HIDE DEF a, g0
  <2>5. worker' \in WorkerType /\ worker'.staged = worker.staged /\ worker'.moving = g0
    BY <1>4, <2>2, <2>3, <2>4 DEF WorkerType
  <2>6. /\ disk' \in DiskType /\ disk'.registry = disk.registry /\ disk'.job = disk.job
        /\ disk'.result = disk.result /\ disk'.durable = disk.durable \cup {g0}
    BY <1>4, <2>1, <2>2 DEF DiskType
  <2>7. \A k, g : (Told(k, g)' <=> Told(k, g)) /\ (Running(g)' <=> Running(g))
    BY <1>2, <2>1 DEF Told, Queued, Saying, Running, Event
  <2>8. \A g : Quiet(g) => Quiet(g)' /\ g # g0
    BY <1>3, <1>6, <2>5, <2>7 DEF Quiet
  <2>9. \A g \in Gens : StartedOnce(g) => StartedOnce(g)'
    <3> HIDE DEF Pending, Told, Running, OneStart
    <3> QED
      BY <1>3, <2>5, <2>7 DEF StartedOnce
  <2>10. WorkerOK'
    <3> HIDE DEF StartedOnce
    <3> QED
      BY <1>2, <1>6, <2>5, <2>6, <2>9 DEF WorkerOK, IInv
  <2>11. TypeOK'
    BY <1>1, <1>2, <1>3, <2>1, <2>5, <2>6 DEF TypeOK
  <2>12. AnalysesOK'
    BY <1>2, <1>3, <2>6, AnalysesRest DEF IInv
  <2>13. ASSUME NEW g \in Gens PROVE WorkKept(g)
    <3>1. ~Running(g) /\ ~Pending("start", g) => ~Running(g)' /\ ~Pending("start", g)'
      BY <1>3, <2>7
    <3>2. Quiet(g) => Quiet(g)' /\ g # g0
      BY <2>8
    <3>3. ~Pending("commit", g) => g # g0
      BY <1>3
    <3> HIDE DEF Pending, Told, Running, Quiet, Resolves
    <3> QED
      BY <1>3, <2>5, <2>6, <2>7, <3>1, <3>2, <3>3 DEF WorkKept
  <2> QED
    BY <1>3, <2>10, <2>11, <2>12, <2>13, WorkStep
<1>7. CASE /\ FinalizeAdmitted(g0) /\ worker.staged = g0
           /\ ~(StagedIntact(g0) /\ disk.result[g0].narrated)
  <2> DEFINE k0 == IF StagedIntact(g0) THEN "succeeded" ELSE "commit_failed"
  <2>1. /\ disk' = [disk EXCEPT !.job[g0] = "absent"]
        /\ worker' = [Closed EXCEPT !.staged = None, !.timer = FALSE]
        /\ events' = Append(events, Event(k0, g0))
    BY <1>7 DEF AcceptCommit
  <2>2. worker' \in WorkerType /\ worker'.staged = None /\ worker'.moving = None
    BY <1>1, <1>2, <2>1 DEF TypeOK, WorkerType, Closed
  <2>3. k0 \in Ends
    BY DEF Ends
  <2>4. k0 = "succeeded" => disk.result[g0] \in ResultType /\ ~disk.result[g0].narrated
    BY <1>4, <1>7 DEF IInv, AnalysesOK, StagedIntact
  <2> HIDE DEF g0, k0
  <2>5. /\ disk' \in DiskType /\ disk'.registry = disk.registry /\ disk'.durable = disk.durable
        /\ disk'.result = disk.result /\ disk'.job[g0] = "absent"
        /\ \A g \in Gens : g # g0 => disk'.job[g] = disk.job[g]
    BY <1>1, <1>4, <2>1 DEF TypeOK, DiskType
  <2> QED
    BY <1>2, <1>3, <1>4, <1>7, <2>1, <2>2, <2>3, <2>4, <2>5, StagedEnds
<1> QED
  BY <1>5, <1>6, <1>7

(* The narration is registered, or moved back.                               *)
LEMMA CommitRegisterHolds ==
    ASSUME IInv, CommitRegister PROVE IInv'
<1>1. TypeOK /\ WorkerOK
  BY DEF IInv
<1>9. PICK g0 : g0 = worker.moving
  OBVIOUS
<1>2. /\ worker.moving # None /\ worker' = [Closed EXCEPT !.moving = None, !.staged = None]
      /\ UNCHANGED <<rows, timeline, gens, saga, host, thread>> /\ cmds' = cmds
      /\ \/ /\ disk' = [disk EXCEPT !.registry[g0] = 0, !.job[g0] = "absent"]
            /\ events' = Append(events, Event("succeeded", g0))
         \/ /\ disk' = [disk EXCEPT !.durable = @ \ {g0}, !.job[g0] = "absent"]
            /\ events' = Append(events, Event("commit_failed", g0))
  BY <1>9 DEF CommitRegister
<1>3. worker \in WorkerType /\ disk \in DiskType /\ cmds' \in Seq(CommandType)
  BY <1>1, <1>2 DEF TypeOK
<1>4. /\ g0 \in Gens /\ worker.staged = g0 /\ g0 \in disk.durable
      /\ worker' \in WorkerType /\ worker'.staged = None /\ worker'.moving = None
  BY <1>1, <1>2, <1>3, <1>9 DEF WorkerOK, WorkerType, Closed
<1>5. g0 \in Library /\ g0 = worker.moving
  BY <1>4, <1>9 DEF Library
<1>6. "succeeded" \in Ends /\ "commit_failed" \in Ends
  BY DEF Ends
<1>7. CASE /\ disk' = [disk EXCEPT !.registry[g0] = 0, !.job[g0] = "absent"]
           /\ events' = Append(events, Event("succeeded", g0))
  <2> DEFINE r == [disk.registry EXCEPT ![g0] = 0]
             j == [disk.job EXCEPT ![g0] = "absent"]
  <2>1. disk' = [disk EXCEPT !.registry = r, !.job = j]
    BY <1>3, <1>7 DEF DiskType
  <2>2. /\ r \in [Library -> Nat \cup {None}] /\ r[g0] = 0
        /\ j \in [Gens -> {"absent", "request", "staging", "result"}] /\ j[g0] = "absent"
        /\ \A g \in Gens : g # g0 => r[g] = disk.registry[g] /\ j[g] = disk.job[g]
    BY <1>3, <1>4, <1>5 DEF DiskType, Library
  <2> HIDE DEF r, j
  <2>3. /\ disk' \in DiskType /\ disk'.registry = r /\ disk'.job = j
        /\ disk'.result = disk.result /\ disk'.durable = disk.durable
    BY <1>3, <2>1, <2>2 DEF DiskType
  <2>4. 0 # None
    BY NoneIsNone
  <2>5. Resolves(g0)'
    BY <1>4, <2>2, <2>3, <2>4, NarrationResolves
  <2>6. /\ disk'.registry[g0] # None /\ disk'.job[g0] = "absent"
        /\ \A g \in Gens : g # g0 => /\ disk'.job[g] = disk.job[g]
                                  /\ disk'.registry[g] = disk.registry[g]
                                  /\ g \in disk'.durable <=> g \in disk.durable
    BY <2>2, <2>3, <2>4
  <2>7. /\ \A k, g : Pending(k, g)' => Pending(k, g)
        /\ \A g : OneStart(g) => OneStart(g)'
    BY <1>2, CmdsRest
  <2>8. disk' \in DiskType /\ disk'.result = disk.result
    BY <2>3
  <2> HIDE DEF Resolves, Pending, OneStart
  <2> QED
    BY <1>2, <1>3, <1>4, <1>5, <1>6, <1>7, <2>5, <2>6, <2>7, <2>8, StagedEnds
<1>8. CASE /\ disk' = [disk EXCEPT !.durable = @ \ {g0}, !.job[g0] = "absent"]
           /\ events' = Append(events, Event("commit_failed", g0))
  <2> DEFINE j == [disk.job EXCEPT ![g0] = "absent"]
             d == disk.durable \ {g0}
  <2>1. disk' = [disk EXCEPT !.durable = d, !.job = j]
    BY <1>3, <1>8 DEF DiskType
  <2>2. /\ j \in [Gens -> {"absent", "request", "staging", "result"}] /\ j[g0] = "absent"
        /\ \A g \in Gens : g # g0 => j[g] = disk.job[g]
        /\ d \in SUBSET Gens /\ \A g \in Gens : g # g0 => (g \in d <=> g \in disk.durable)
    BY <1>3, <1>4 DEF DiskType
  <2> HIDE DEF d, j
  <2>3. /\ disk' \in DiskType /\ disk'.registry = disk.registry /\ disk'.job = j
        /\ disk'.result = disk.result /\ disk'.durable = d
    BY <1>3, <2>1, <2>2 DEF DiskType
  <2> QED
    BY <1>2, <1>3, <1>4, <1>5, <1>6, <1>8, <2>2, <2>3, CmdsRest, StagedEnds
<1> QED
  BY <1>2, <1>7, <1>8

(* A generation is begun by one thread, with the materials of its request.   *)
LEMMA AcceptStartHolds ==
    ASSUME IInv, AcceptSmartEditStart PROVE IInv'
<1>1. TypeOK /\ WorkerOK
  BY DEF IInv
<1>2. PICK g0 : g0 = Head(cmds).gen
  OBVIOUS
<1>3. Reading("start") /\ events' = events /\ disk' = disk
  BY DEF AcceptSmartEditStart
<1>4. /\ cmds' \in Seq(CommandType) /\ Command("start", g0) \in CommandType
      /\ Pending("start", g0)
      /\ \A k, g : Pending(k, g)' => Pending(k, g)
      /\ \A g : OneStart(g) => OneStart(g)'
      /\ OneStart(g0) => ~Pending("start", g0)'
      /\ UNCHANGED <<rows, timeline, gens, saga, host>>
  BY <1>1, <1>2, <1>3, CmdRead DEF TypeOK
<1>5. g0 \in Gens
  BY <1>4 DEF Command, CommandType
<1>6. CASE worker' = worker /\ thread' = thread
  BY <1>3, <1>6, ReadOnly
<1>7. CASE /\ worker' = [worker EXCEPT !.active = ActiveJob(g0), !.cancel = FALSE]
           /\ thread' = [NoThread EXCEPT !.pc = "open", !.gen = g0, !.mats = saga.mats]
  <2>1. worker \in WorkerType /\ ActiveJob(g0) \in ActiveType /\ saga.mats \in Materials
    BY <1>1, <1>5 DEF TypeOK, ActiveJob, ActiveType, SagaType
  <2>2. worker' \in WorkerType /\ worker'.staged = worker.staged /\ worker'.moving = worker.moving
    BY <1>7, <2>1 DEF WorkerType
  <2>3. /\ thread' \in ThreadType /\ thread'.pc = "open" /\ thread'.gen = g0
        /\ thread'.mats = saga.mats /\ thread'.todo = {} /\ thread'.approved = Nothing
        /\ thread'.frames = Nothing /\ thread'.found = Nothing
    BY <1>5, <1>7, <2>1, RestIs DEF ThreadType, ThreadSteps
  <2>4. \A k, g : /\ Told(k, g)' => Told(k, g)
                  /\ Running(g)' => g = g0
    BY <1>3, <2>3 DEF Told, Queued, Saying, Running, Event
  <2>5. \A g : Quiet(g) => Quiet(g)' /\ g # g0
    BY <1>4, <2>2, <2>4 DEF Quiet
  <2>6. StartedOnce(g0) /\ ~Pending("start", g0)' /\ worker.staged # g0
        /\ \A k \in Answers : ~Told(k, g0)
    <3>1. StartedOnce(g0)
      BY <1>1, <1>5 DEF WorkerOK
    <3> QED
      BY <1>4, <3>1 DEF StartedOnce
  <2>7. \A g \in Gens : StartedOnce(g) => StartedOnce(g)'
    <3>1. Ends \subseteq Answers
      BY DEF Answers
    <3>2. \A g : OneStart(g) => OneStart(g)'
      BY <1>4
    <3>3. \A g : ~Running(g)' \/ g = g0
      BY <2>4
    <3> HIDE DEF Pending, Told, Running, OneStart
    <3>4. ASSUME NEW g \in Gens, StartedOnce(g), g # g0 PROVE StartedOnce(g)'
      BY <1>4, <2>2, <2>4, <3>1, <3>2, <3>3, <3>4 DEF StartedOnce
    <3>5. StartedOnce(g0)'
      BY <1>4, <2>2, <2>4, <2>6, <3>1, <3>2 DEF StartedOnce
    <3> QED
      BY <3>4, <3>5
  <2>8. WorkerOK'
    <3> HIDE DEF StartedOnce
    <3> QED
      BY <1>1, <1>3, <1>5, <2>2, <2>3, <2>7 DEF WorkerOK
  <2>9. TypeOK'
    BY <1>1, <1>3, <1>4, <2>2, <2>3 DEF TypeOK
  <2>10. Compared'
    <3>1. AllOfContent(saga.mats) /\ AllOfContent(Nothing) /\ DOMAIN Nothing = {}
      BY NothingIs DEF IInv, AnalysesOK, AllOfContent
    <3> QED
      BY <2>3, <3>1 DEF Compared, AllOfContent
  <2>11. AnalysesOK'
    BY <1>3, <1>4, <2>10, AnalysesThread DEF IInv
  <2>12. ASSUME NEW g \in Gens PROVE WorkKept(g)
    <3>1. ~Running(g) /\ ~Pending("start", g) => ~Running(g)' /\ ~Pending("start", g)'
      BY <1>4, <2>4
    <3>2. Quiet(g) => Quiet(g)'
      BY <2>5
    <3> HIDE DEF Pending, Told, Running, Quiet, Resolves
    <3> QED
      BY <1>3, <1>4, <2>2, <2>4, <3>1, <3>2 DEF WorkKept
  <2> QED
    BY <1>4, <2>8, <2>9, <2>11, <2>12, WorkStep
<1> QED
  BY <1>2, <1>6, <1>7 DEF AcceptSmartEditStart

------------------------------------------------------------------------------
(* The user *)

(* Neither the saga nor the worker takes part.                               *)
LEMMA Unmoved ==
    ASSUME IInv, TypeOK', AnalysesOK', RefsOK',
           UNCHANGED <<saga, host, worker, thread, cmds, events>>,
           \A g \in Gens : \/ gens'[g] = gens[g]
                           \/ gens[g].status = "running" /\ gens'[g].status = "cancelling",
           disk'.job = disk.job, disk'.result = disk.result, disk'.durable = disk.durable,
           disk'.registry = disk.registry,
           \A g \in Gens : rows'[g] = rows[g] /\ TimelineKept(g),
           Len(timeline) <= Len(timeline'),
           \A g \in Gens, i \in 1..Len(timeline') :
               timeline'[i].by = g => i \in 1..Len(timeline) /\ timeline[i].by = g
    PROVE  IInv'
<1>1. /\ saga' = saga /\ host' = host /\ worker' = worker /\ thread' = thread
      /\ cmds' = cmds /\ events' = events
  OBVIOUS
<1>2. SagaOK'
  <2>1. OfGeneration' <=> OfGeneration
    BY <1>1 DEF OfGeneration
  <2>2. SagaOK
    BY DEF IInv
  <2> HIDE DEF OfGeneration
  <2> QED
    BY <1>1, <2>1, <2>2 DEF SagaOK
<1>3. WorkerOK'
  BY <1>1, SideRests DEF IInv, WorkerOK
<1>4. ASSUME NEW g \in Gens PROVE PhaseOK(g)' /\ SaveOK(g)'
  <2>1. PhaseOK(g) /\ SaveOK(g)
    BY DEF IInv
  <2>2. /\ AtWork(g)' <=> AtWork(g)
        /\ Unstarted(g)' <=> Unstarted(g)
        /\ Uncommitted(g)' <=> Uncommitted(g)
        /\ In(g)' <=> In(g)
    BY <1>1 DEF AtWork, Unstarted, Uncommitted, In, OfGeneration
  <2>3. /\ Forgetting(g)' <=> Forgetting(g)
        /\ \A k : (Told(k, g)' <=> Told(k, g)) /\ (Pending(k, g)' <=> Pending(k, g))
        /\ Running(g)' <=> Running(g)
        /\ Quiet(g)' <=> Quiet(g)
    BY <1>1 DEF Forgetting, Told, Queued, Saying, Pending, Running, Quiet, Command, Event
  <2>4. Clean(g)' <=> Clean(g)
    BY <1>4 DEF Clean, TimelineKept
  <2>5. PhaseOK(g)'
    <3> HIDE DEF Quiet, AtWork, Unstarted, Uncommitted, Clean, Forgetting, In, Told, Pending, Running
    <3> QED
      BY <1>1, <1>4, <2>1, <2>2, <2>3, <2>4 DEF PhaseOK
  <2>6. Resolves(g)' <=> Resolves(g)
    BY NarrationResolves
  <2>7. In(g) => \A i \in 1..Len(timeline') : timeline'[i].by = g =>
           /\ i = saga.rev + 1
           /\ saga.pc = "confirm" \/ (saga.committed /\ i < Len(timeline'))
    <3> SUFFICES ASSUME In(g), NEW i \in 1..Len(timeline'), timeline'[i].by = g
                 PROVE  /\ i = saga.rev + 1
                        /\ saga.pc = "confirm" \/ (saga.committed /\ i < Len(timeline'))
      OBVIOUS
    <3>1. i \in 1..Len(timeline) /\ timeline[i].by = g
      BY <1>4
    <3>2. Len(timeline) \in Nat /\ Len(timeline') \in Nat
      BY DEF IInv, TypeOK
    <3> QED
      BY <2>1, <3>1, <3>2 DEF SaveOK
  <2>8. SaveOK(g)'
    <3>1. TimelineKept(g)
      BY <1>4
    <3>2. /\ Saved(g)' <=> Saved(g)
          /\ Referenced(g)' => Referenced(g)
          /\ Overtaken(g) => Overtaken(g)'
      BY <3>1 DEF TimelineKept
    <3> HIDE DEF In, Told, Saved, Referenced, Overtaken, Resolves
    <3> QED
      BY <1>1, <2>1, <2>2, <2>3, <2>6, <2>7, <3>2 DEF SaveOK
  <2> QED
    BY <2>5, <2>8
<1> QED
  BY <1>2, <1>3, <1>4 DEF IInv

(* The timeline is left alone.                                               *)
LEMMA TimelineRests ==
    ASSUME timeline' = timeline, NEW g \in Gens, gens'[g].status # "succeeded" \/ gens'[g] = gens[g]
    PROVE  TimelineKept(g)
BY DEF TimelineKept, Saved, Referenced, Overtaken

(* The user describes a video.                                               *)
LEMMA UserDescribesHolds ==
    ASSUME IInv, NEW m \in Videos, UserDescribes(m) PROVE IInv'
<1>1. /\ rows[m] # None /\ rows' = [rows EXCEPT ![m].desc = "user", ![m].seen = None]
      /\ UNCHANGED <<saga, timeline, gens, host, worker, thread, cmds, events>> /\ disk' = disk
  BY DEF UserDescribes, UnchangedHost
<1>2. TypeOK /\ AnalysesOK /\ RefsOK
  BY DEF IInv
<1> DEFINE row == [rows[m] EXCEPT !.desc = "user", !.seen = None]
<1>3. rows \in [Library -> Row \cup {None}] /\ m \in Library /\ rows[m] \in Row
  BY <1>1, <1>2 DEF TypeOK, Library
<1>4. rows' = [rows EXCEPT ![m] = row]
  BY <1>1, <1>3
<1>5. row \in Row /\ row.content = rows[m].content /\ row.heard = rows[m].heard /\ row.seen = None
  BY <1>3 DEF Row
<1> HIDE DEF row
<1>6. /\ rows' \in [Library -> Row \cup {None}] /\ rows'[m] = row
      /\ \A n \in Library : n # m => rows'[n] = rows[n]
  BY <1>3, <1>4, <1>5
<1>7. TypeOK'
  BY <1>1, <1>2, <1>6 DEF TypeOK
<1>8. \A n \in Library : rows[n] # None => rows'[n] # None
  BY <1>5, <1>6, NoneIsNone
<1>9. RefsOK'
  BY <1>1, <1>2, <1>8 DEF RefsOK, Referenced
<1>10. AnalysesOK'
  <2>1. AnalysisIsOfContent'
    BY <1>1, <1>2, <1>3, <1>5, <1>6 DEF AnalysesOK, AnalysisIsOfContent
  <2> QED
    BY <1>1, <1>2, <2>1 DEF AnalysesOK, AllOfContent, Compared
<1>11. \A g \in Gens : rows'[g] = rows[g] /\ TimelineKept(g)
  <2>1. \A g \in Gens : g \in Library /\ g # m
    BY NoneIsNone DEF Library
  <2> QED
    BY <1>1, <1>6, <2>1, TimelineRests
<1>12. /\ Len(timeline) <= Len(timeline')
       /\ \A g \in Gens, i \in 1..Len(timeline') :
              timeline'[i].by = g => i \in 1..Len(timeline) /\ timeline[i].by = g
  BY <1>1, <1>2 DEF TypeOK
<1> QED
  BY <1>1, <1>7, <1>9, <1>10, <1>11, <1>12, Unmoved

(* A source file is overwritten.                                             *)
LEMMA EditFileHolds ==
    ASSUME IInv, NEW m \in Videos, EditFile(m) PROVE IInv'
<1>1. /\ disk' = [disk EXCEPT !.content[m] = @ + 1] /\ rows' = rows
      /\ UNCHANGED <<saga, timeline, gens, host, worker, thread, cmds, events>>
  BY DEF EditFile
<1>2. TypeOK /\ AnalysesOK /\ RefsOK
  BY DEF IInv
<1> DEFINE c == [disk.content EXCEPT ![m] = @ + 1]
<1>3. disk \in DiskType /\ c \in [Videos -> Nat]
  BY <1>2 DEF TypeOK, DiskType
<1>4. disk' = [disk EXCEPT !.content = c]
  BY <1>1, <1>3 DEF DiskType
<1> HIDE DEF c
<1>5. /\ disk' \in DiskType /\ disk'.job = disk.job /\ disk'.result = disk.result
      /\ disk'.durable = disk.durable /\ disk'.registry = disk.registry
  BY <1>3, <1>4 DEF DiskType
<1>6. TypeOK'
  BY <1>1, <1>2, <1>5 DEF TypeOK
<1>7. RefsOK'
  BY <1>1, <1>2 DEF RefsOK, Referenced
<1>8. AnalysesOK'
  BY <1>1, <1>2, <1>5, AnalysesRest
<1>9. \A g \in Gens : rows'[g] = rows[g] /\ TimelineKept(g)
  BY <1>1, TimelineRests
<1>10. /\ Len(timeline) <= Len(timeline')
       /\ \A g \in Gens, i \in 1..Len(timeline') :
              timeline'[i].by = g => i \in 1..Len(timeline) /\ timeline[i].by = g
  BY <1>1, <1>2 DEF TypeOK
<1> QED
  BY <1>1, <1>5, <1>6, <1>7, <1>8, <1>9, <1>10, Unmoved

(* The editor saves a revision made of material that is in use.              *)
LEMMA UserSavesHolds ==
    ASSUME IInv, UserSaves PROVE IInv'
<1>1. PICK refs \in SUBSET Last(timeline).refs :
          /\ timeline # <<>> /\ timeline' = Append(timeline, [by |-> None, refs |-> refs])
          /\ \A m \in refs : rows[m] # None
  BY DEF UserSaves, SaveAdmitted
<1>2. /\ rows' = rows /\ disk' = disk
      /\ UNCHANGED <<saga, gens, host, worker, thread, cmds, events>>
  BY DEF UserSaves
<1>3. TypeOK /\ AnalysesOK /\ RefsOK
  BY DEF IInv
<1> DEFINE n == Len(timeline)
           new == [by |-> None, refs |-> refs]
<1>4. /\ timeline \in Seq(RevisionType) /\ n \in Nat /\ n \in 1..n
      /\ Last(timeline) = timeline[n] /\ timeline[n] \in RevisionType
  BY <1>1, <1>3 DEF TypeOK, Last
<1>5. new \in RevisionType /\ new.by = None /\ new.refs = refs
  BY <1>4 DEF RevisionType
<1>6. timeline' = Append(timeline, new)
  BY <1>1
<1> HIDE DEF new
<1>7. /\ timeline' \in Seq(RevisionType) /\ Len(timeline') = n + 1
      /\ \A i \in 1..n : timeline'[i] = timeline[i]
      /\ timeline'[n + 1] = new
  BY <1>4, <1>5, <1>6, Appended
<1>8. \A i \in 1..Len(timeline') : i \in 1..n \/ i = n + 1
  BY <1>4, <1>7
<1> HIDE DEF n
<1>9. \A m : Referenced(m)' => Referenced(m)
  <2> SUFFICES ASSUME NEW m, Referenced(m)' PROVE Referenced(m)
    OBVIOUS
  <2>1. DOMAIN timeline' = 1..Len(timeline') /\ DOMAIN timeline = 1..n
    BY <1>4, <1>7 DEF n
  <2>2. PICK i \in 1..Len(timeline') : m \in timeline'[i].refs
    BY <2>1 DEF Referenced
  <2>3. CASE i \in 1..n
    BY <1>7, <2>1, <2>2, <2>3 DEF Referenced
  <2>4. CASE i = n + 1
    BY <1>1, <1>4, <1>5, <1>7, <2>1, <2>2, <2>4 DEF Referenced
  <2> QED
    BY <1>8, <2>2, <2>3, <2>4
<1>10. \A g \in Gens, i \in 1..Len(timeline') :
          timeline'[i].by = g => i \in 1..n /\ timeline[i].by = g
  BY <1>5, <1>7, <1>8, NoneIsNone
<1>11. n <= Len(timeline') /\ \A i \in 1..n : i \in 1..Len(timeline')
  BY <1>4, <1>7
<1>12. \A g \in Gens : TimelineKept(g)
  <2> TAKE g \in Gens
  <2>1. Saved(g)' <=> Saved(g)
    BY <1>7, <1>10, <1>11 DEF Saved, n
  <2>2. \A i \in 1..(n - 1) : i \in 1..n /\ i \in 1..(Len(timeline') - 1)
    BY <1>4, <1>7
  <2>3. Overtaken(g) => Overtaken(g)'
    <3> SUFFICES ASSUME Overtaken(g) PROVE Overtaken(g)'
      OBVIOUS
    <3>1. PICK i \in 1..(n - 1) : timeline[i].by = g
      BY DEF Overtaken, n
    <3>2. i \in 1..(Len(timeline') - 1) /\ timeline'[i].by = g
      BY <1>7, <2>2, <3>1
    <3> QED
      BY <1>2, <3>2 DEF Overtaken
  <2> QED
    BY <1>9, <2>1, <2>3 DEF TimelineKept
<1>13. TypeOK'
  BY <1>2, <1>3, <1>7 DEF TypeOK
<1>14. RefsOK'
  BY <1>2, <1>3, <1>9 DEF RefsOK
<1>15. AnalysesOK'
  BY <1>2, <1>3, AnalysesRest
<1> QED
  BY <1>2, <1>10, <1>11, <1>12, <1>13, <1>14, <1>15, Unmoved DEF n

(* A cancellation is requested.                                              *)
LEMMA CancelHolds ==
    ASSUME IInv, NEW g0 \in Gens, Cancel(g0) PROVE IInv'
<1>1. /\ gens[g0].status = "running"
      /\ gens' = [gens EXCEPT ![g0] = [status |-> "cancelling", cancel |-> TRUE]]
      /\ rows' = rows /\ timeline' = timeline /\ disk' = disk
      /\ UNCHANGED <<saga, host, worker, thread, cmds, events>>
  BY DEF Cancel
<1>2. TypeOK /\ AnalysesOK /\ RefsOK
  BY DEF IInv
<1>3. /\ gens' \in [Gens -> GenType] /\ gens'[g0].status = "cancelling"
      /\ \A g \in Gens : g # g0 => gens'[g] = gens[g]
  BY <1>1, <1>2 DEF TypeOK, GenType
<1>4. TypeOK'
  BY <1>1, <1>2, <1>3 DEF TypeOK
<1>5. RefsOK'
  BY <1>1, <1>2 DEF RefsOK, Referenced
<1>6. AnalysesOK'
  BY <1>1, <1>2, AnalysesRest
<1>7. \A g \in Gens : rows'[g] = rows[g] /\ TimelineKept(g)
  BY <1>1, <1>3, TimelineRests
<1>8. /\ Len(timeline) <= Len(timeline')
      /\ \A g \in Gens, i \in 1..Len(timeline') :
             timeline'[i].by = g => i \in 1..Len(timeline) /\ timeline[i].by = g
  BY <1>1, <1>2 DEF TypeOK
<1>9. \A g \in Gens : \/ gens'[g] = gens[g]
                      \/ gens[g].status = "running" /\ gens'[g].status = "cancelling"
  BY <1>1, <1>3
<1> QED
  BY <1>1, <1>4, <1>5, <1>6, <1>7, <1>8, <1>9, Unmoved

------------------------------------------------------------------------------
(* The material library *)

(* A worker is started, with one command to read.                            *)
LEMMA SideRestarted ==
    ASSUME worker' = FreshWorker, thread' = NoThread, events' = <<>>,
           NEW k0, NEW g0, Command(k0, g0) \in CommandType,
           cmds' = Append(<<>>, Command(k0, g0))
    PROVE  /\ WorkerOK'
           /\ worker' \in WorkerType /\ thread' \in ThreadType
           /\ cmds' \in Seq(CommandType) /\ events' \in Seq(EventType)
           /\ \A g \in Gens : g # g0 \/ k0 \notin {"start", "commit"} => SideKept(g)
           /\ \A k, g : ~Told(k, g)' /\ ~Running(g)' /\ (Pending(k, g)' => k = k0 /\ g = g0)
           /\ worker'.staged = None /\ worker'.moving = None
<1>1. /\ worker' \in WorkerType /\ thread' \in ThreadType /\ thread'.pc = "idle"
      /\ worker'.staged = None /\ worker'.moving = None
  BY RestIs
<1>2. /\ cmds' \in Seq(CommandType) /\ Len(cmds') = 1 /\ cmds'[1] = Command(k0, g0)
      /\ events' \in Seq(EventType)
  OBVIOUS
<1>3. \A k, g : ~Told(k, g)' /\ ~Running(g)' /\ OneStart(g)'
                /\ (Pending(k, g)' => k = k0 /\ g = g0)
  <2>1. \A k, g : ~Told(k, g)' /\ ~Running(g)'
    BY <1>1 DEF Told, Queued, Saying, Running
  <2>2. \A i \in 1..Len(cmds') : i = 1
    BY <1>2
  <2>3. \A k, g : OneStart(g)' /\ (Pending(k, g)' => k = k0 /\ g = g0)
    BY <1>2, <2>2 DEF Pending, OneStart, Command
  <2> QED
    BY <2>1, <2>3
<1>4. \A g \in Gens : StartedOnce(g)'
  <2> HIDE DEF Pending, Told, Running, OneStart
  <2> QED
    BY <1>1, <1>3, NoneIsNone DEF StartedOnce
<1>5. WorkerOK'
  <2> HIDE DEF StartedOnce
  <2> QED
    BY <1>1, <1>4, NoneIsNone DEF WorkerOK
<1>6. ASSUME NEW g \in Gens, g # g0 \/ k0 \notin {"start", "commit"} PROVE SideKept(g)
  <2>1. ~Pending("start", g)' /\ ~Pending("commit", g)'
    BY <1>3, <1>6
  <2>2. Quiet(g)'
    BY <1>1, <1>3, <1>6, <2>1, NoneIsNone DEF Quiet
  <2> HIDE DEF Pending, Told, Running, Quiet
  <2> QED
    BY <1>1, <1>3, <1>6, <2>1, <2>2, NoneIsNone DEF SideKept
<1> QED
  BY <1>1, <1>2, <1>3, <1>5, <1>6

(* The files are left alone.                                                 *)
LEMMA DiskRests ==
    ASSUME disk' = disk, NEW g \in Gens PROVE DiskKept(g)
BY DEF DiskKept

(* A material is asked of the worker.                                        *)
LEMMA ImportMaterialHolds ==
    ASSUME IInv, NEW m \in Videos, ImportMaterial(m) PROVE IInv'
<1>1. TypeOK /\ AnalysesOK /\ SagaOK /\ WorkerOK /\ RefsOK
  BY DEF IInv
<1>2. /\ saga.pc = "off" /\ saga' = [saga EXCEPT !.pc = "importWait", !.gen = m]
      /\ rows' = rows /\ timeline' = timeline /\ gens' = gens /\ disk' = disk
      /\ \/ /\ worker' = worker /\ thread' = thread /\ events' = events
            /\ cmds' = Append(cmds, Command("import", m)) /\ host' = [up |-> TRUE, job |-> host.job]
         \/ /\ worker' = FreshWorker /\ thread' = NoThread /\ events' = <<>>
            /\ cmds' = Append(<<>>, Command("import", m)) /\ host' = [up |-> TRUE, job |-> None]
  BY DEF ImportMaterial
<1>3. Command("import", m) \in CommandType /\ m \in Library /\ m \notin Gens
  BY NoneIsNone DEF Command, CommandType, Library
<1>4. /\ WorkerOK' /\ worker' \in WorkerType /\ thread' \in {thread, NoThread}
      /\ cmds' \in Seq(CommandType) /\ events' \in Seq(EventType)
      /\ \A g \in Gens : SideKept(g) /\ (Pending("forget", g)' => Pending("forget", g))
  <2>1. CASE /\ worker' = worker /\ thread' = thread /\ events' = events
             /\ cmds' = Append(cmds, Command("import", m))
    <3>1. worker.moving # None => worker.moving \in disk'.durable
      BY <1>1, <1>2 DEF WorkerOK
    <3> QED
      BY <1>1, <1>3, <2>1, <3>1, SideSent DEF TypeOK
  <2>2. CASE /\ worker' = FreshWorker /\ thread' = NoThread /\ events' = <<>>
             /\ cmds' = Append(<<>>, Command("import", m))
    BY <1>3, <2>2, SideRestarted
  <2> QED
    BY <1>2, <2>1, <2>2
<1>5. saga \in SagaType /\ saga.committed = FALSE
  BY <1>1, <1>2 DEF TypeOK, SagaOK, SagaType
<1>6. /\ saga' \in SagaType /\ saga'.pc = "importWait" /\ saga'.gen = m /\ saga'.committed = FALSE
      /\ saga'.mats = saga.mats
  BY <1>2, <1>3, <1>5 DEF SagaType, SagaSteps
<1>7. TypeOK'
  <2>1. host' \in [up : BOOLEAN, job : JobType \cup {None}]
    <3>1. host.job \in JobType \cup {None}
      BY <1>1 DEF TypeOK
    <3>2. PICK job \in JobType \cup {None} : host' = [up |-> TRUE, job |-> job]
      BY <1>2, <3>1
    <3> QED
      BY <3>2
  <2> QED
    BY <1>1, <1>2, <1>4, <1>6, <2>1, RestIs DEF TypeOK
<1>8. ~OfGeneration /\ ~OfGeneration'
  BY <1>2, <1>5, <1>6 DEF OfGeneration, Early, Late
<1>9. SagaOK'
  BY <1>6, <1>8 DEF SagaOK, Resulted, Late
<1>10. RefsOK'
  BY <1>1, <1>2 DEF RefsOK, Referenced
<1>11. AnalysesOK'
  BY <1>1, <1>2, <1>4, <1>6, AnalysesRest DEF Resulted, Late
<1>12. ASSUME NEW g \in Gens
       PROVE  /\ ~In(g) /\ ~In(g)' /\ DiskKept(g) /\ TimelineKept(g)
              /\ Forgetting(g)' => Forgetting(g)
  <2>1. ~In(g) /\ ~In(g)' /\ DiskKept(g) /\ TimelineKept(g)
    BY <1>2, <1>8, DiskRests, TimelineRests DEF In
  <2>2. Forgetting(g)' => Forgetting(g)
    BY <1>4, <1>6 DEF Forgetting
  <2> QED
    BY <2>1, <2>2
<1> QED
  BY <1>2, <1>3, <1>4, <1>7, <1>9, <1>10, <1>11, <1>12, SagaStep

(* The next line, right or wrong, is the worker's answer.                    *)
LEMMA ImportAnswerHolds ==
    ASSUME IInv, ImportAnswer PROVE IInv'
<1>1. TypeOK /\ AnalysesOK /\ SagaOK /\ WorkerOK /\ RefsOK
  BY DEF IInv
<1>2. /\ saga.pc = "importWait"
      /\ saga' = [saga EXCEPT !.pc = "register"] \/ saga' = NoSaga
      /\ rows' = rows /\ timeline' = timeline /\ gens' = gens /\ disk' = disk /\ host' = host
      /\ worker' = worker /\ thread' = thread /\ cmds' = cmds
      /\ (events # <<>> /\ events' = Tail(events)) \/ events' = events
  BY DEF ImportAnswer, UnchangedWorker, Goto
<1>3. /\ WorkerOK' /\ events' \in Seq(EventType)
      /\ \A g \in Gens : SideKept(g) /\ (Pending("forget", g)' => Pending("forget", g))
  <2>1. worker.moving # None => worker.moving \in disk'.durable
    BY <1>1, <1>2 DEF WorkerOK
  <2>2. CASE events # <<>> /\ events' = Tail(events)
    BY <1>1, <1>2, <2>1, <2>2, SideRead, Taken DEF TypeOK
  <2>3. CASE events' = events
    BY <1>1, <1>2, <2>1, <2>3, SideRests DEF TypeOK
  <2> QED
    BY <1>2, <2>2, <2>3
<1>4. saga \in SagaType /\ saga.committed = FALSE /\ saga.gen \in Videos
  BY <1>1, <1>2 DEF TypeOK, SagaOK, SagaType
<1>5. /\ saga' \in SagaType /\ saga'.pc \in {"register", "off"} /\ saga'.committed = FALSE
      /\ saga'.pc = "register" => saga'.gen \in Videos
      /\ saga'.mats \in {saga.mats, Nothing}
  BY <1>2, <1>4, RestIs DEF SagaType, SagaSteps
<1>6. TypeOK'
  BY <1>1, <1>2, <1>3, <1>5 DEF TypeOK
<1>7. ~OfGeneration /\ ~OfGeneration'
  BY <1>2, <1>4, <1>5 DEF OfGeneration, Early, Late
<1>8. SagaOK'
  BY <1>5, <1>7 DEF SagaOK, Resulted, Late
<1>9. RefsOK'
  BY <1>1, <1>2 DEF RefsOK, Referenced
<1>10. AnalysesOK'
  BY <1>1, <1>2, <1>5, AnalysesRest DEF Resulted, Late
<1>11. ASSUME NEW g \in Gens
       PROVE  /\ ~In(g) /\ ~In(g)' /\ DiskKept(g) /\ TimelineKept(g)
              /\ Forgetting(g)' => Forgetting(g)
  <2>1. ~In(g) /\ ~In(g)' /\ DiskKept(g) /\ TimelineKept(g)
    BY <1>2, <1>7, DiskRests, TimelineRests DEF In
  <2>2. Forgetting(g)' => Forgetting(g)
    BY <1>3, <1>5 DEF Forgetting
  <2> QED
    BY <2>1, <2>2
<1>12. None \notin Gens
  BY NoneIsNone
<1> QED
  BY <1>2, <1>3, <1>6, <1>8, <1>9, <1>10, <1>11, <1>12, SagaStep

(* The control plane keeps the video's row, or the answer is lost.           *)
LEMMA RegisterMaterialHolds ==
    ASSUME IInv, RegisterMaterial PROVE IInv'
<1>1. TypeOK /\ AnalysesOK /\ SagaOK /\ WorkerOK /\ RefsOK
  BY DEF IInv
<1> DEFINE m == saga.gen
           row == Registered(disk.registry[m])
<1>2. /\ saga.pc = "register"
      /\ saga' = NoSaga \/ saga' = [saga EXCEPT !.pc = "forget"]
      /\ rows' = rows \/ rows' = [rows EXCEPT ![m] = row]
      /\ timeline' = timeline /\ gens' = gens /\ disk' = disk /\ host' = host
      /\ worker' = worker /\ thread' = thread /\ cmds' = cmds /\ events' = events
  BY DEF RegisterMaterial, UnchangedHost, Goto
<1>3. saga \in SagaType /\ saga.committed = FALSE /\ m \in Videos /\ m \in Library /\ m \notin Gens
  BY <1>1, <1>2, NoneIsNone DEF TypeOK, SagaOK, SagaType, Library
<1>4. row \in Row /\ row.seen = None /\ row.heard = None
  BY <1>1, <1>3 DEF TypeOK, DiskType, Registered, Row
<1>5. /\ saga' \in SagaType /\ saga'.pc \in {"forget", "off"} /\ saga'.committed = FALSE
      /\ saga'.pc = "forget" => saga'.gen = m
      /\ saga'.mats \in {saga.mats, Nothing}
  BY <1>2, <1>3, RestIs DEF SagaType, SagaSteps
<1>6. /\ WorkerOK'
      /\ \A g \in Gens : SideKept(g) /\ (Pending("forget", g)' => Pending("forget", g))
  <2>1. worker.moving # None => worker.moving \in disk'.durable
    BY <1>1, <1>2 DEF WorkerOK
  <2> QED
    BY <1>1, <1>2, <2>1, SideRests
<1>7. PICK m0 : m0 = m
  OBVIOUS
<1> HIDE DEF row, m
<1>8. /\ rows' \in [Library -> Row \cup {None}]
      /\ \A n \in Library : n # m => rows'[n] = rows[n]
      /\ rows'[m] \in {rows[m], row}
  BY <1>1, <1>2, <1>3, <1>4 DEF TypeOK
<1>9. TypeOK'
  BY <1>1, <1>2, <1>5, <1>8 DEF TypeOK
<1>10. ~OfGeneration /\ ~OfGeneration'
  BY <1>2, <1>3, <1>5 DEF OfGeneration, Early, Late
<1>11. SagaOK'
  BY <1>3, <1>5, <1>10 DEF SagaOK, Resulted, Late
<1>12. \A n \in Library : rows[n] # None => rows'[n] # None
  BY <1>4, <1>8, NoneIsNone
<1>13. RefsOK'
  BY <1>1, <1>2, <1>12 DEF RefsOK, Referenced
<1>14. AnalysesOK'
  <2>1. AnalysisIsOfContent'
    <3> SUFFICES ASSUME NEW n \in Library, rows'[n] # None
                 PROVE  /\ rows'[n].seen \in {None, rows'[n].content}
                        /\ rows'[n].heard \in {None, rows'[n].content}
      BY DEF AnalysisIsOfContent
    <3>1. CASE rows'[n] = rows[n]
      BY <1>1, <3>1 DEF AnalysesOK, AnalysisIsOfContent
    <3>2. CASE rows'[n] = row
      BY <1>4, <3>2
    <3> QED
      BY <1>8, <3>1, <3>2
  <2>2. AllOfContent(saga'.mats)
    BY <1>1, <1>5, NothingIs DEF AnalysesOK, AllOfContent
  <2>3. saga'.pc \notin Resulted
    BY <1>5 DEF Resulted, Late
  <2> QED
    BY <1>1, <1>2, <2>1, <2>2, <2>3 DEF AnalysesOK, AllOfContent, Compared
<1>15. ASSUME NEW g \in Gens
       PROVE  /\ ~In(g) /\ ~In(g)' /\ DiskKept(g) /\ TimelineKept(g)
              /\ Forgetting(g)' => Forgetting(g)
              /\ rows'[g] = rows[g]
  <2>1. ~In(g) /\ ~In(g)' /\ DiskKept(g) /\ TimelineKept(g)
    BY <1>2, <1>10, DiskRests, TimelineRests DEF In
  <2>2. Forgetting(g)' => Forgetting(g)
    BY <1>3, <1>5, <1>6 DEF Forgetting
  <2>3. rows'[g] = rows[g]
    BY <1>3, <1>8 DEF Library
  <2> QED
    BY <2>1, <2>2, <2>3
<1> QED
  BY <1>2, <1>3, <1>6, <1>7, <1>9, <1>11, <1>13, <1>14, <1>15, SagaStep

(* A row no revision references is deleted; the file is forgotten next.      *)
LEMMA DeleteMaterialHolds ==
    ASSUME IInv, NEW m \in Library, DeleteMaterial(m) PROVE IInv'
<1>1. TypeOK /\ AnalysesOK /\ SagaOK /\ WorkerOK /\ RefsOK
  BY DEF IInv
<1>2. /\ saga.pc = "off" /\ rows[m] # None
      /\ timeline' = timeline /\ gens' = gens /\ disk' = disk /\ host' = host
      /\ worker' = worker /\ thread' = thread /\ cmds' = cmds /\ events' = events
      /\ rows' = rows \/ (~Referenced(m) /\ rows' = [rows EXCEPT ![m] = None])
      /\ saga' = saga \/ /\ saga' = [saga EXCEPT !.pc = "forget", !.gen = m]
                         /\ rows' = [rows EXCEPT ![m] = None]
  BY DEF DeleteMaterial, UnchangedHost
<1>3. saga \in SagaType /\ saga.committed = FALSE
  BY <1>1, <1>2 DEF TypeOK, SagaOK, SagaType
<1>4. /\ saga' \in SagaType /\ saga'.pc \in {"forget", "off"} /\ saga'.committed = FALSE
      /\ saga'.pc = "forget" => saga'.gen = m /\ rows' = [rows EXCEPT ![m] = None]
      /\ saga'.mats = saga.mats
  BY <1>2, <1>3, RestIs DEF SagaType, SagaSteps
<1>5. /\ WorkerOK'
      /\ \A g \in Gens : SideKept(g) /\ (Pending("forget", g)' => Pending("forget", g))
  <2>1. worker.moving # None => worker.moving \in disk'.durable
    BY <1>1, <1>2 DEF WorkerOK
  <2> QED
    BY <1>1, <1>2, <2>1, SideRests
<1>6. /\ rows' \in [Library -> Row \cup {None}]
      /\ \A n \in Library : rows'[n] \in {rows[n], None}
      /\ \A n \in Library : rows'[n] # rows[n] => n = m /\ ~Referenced(m)
      /\ saga'.pc = "forget" => rows'[m] = None
  BY <1>1, <1>2, <1>4 DEF TypeOK
<1>7. TypeOK'
  BY <1>1, <1>2, <1>4, <1>6 DEF TypeOK
<1>8. ~OfGeneration /\ ~OfGeneration'
  BY <1>2, <1>3, <1>4 DEF OfGeneration, Early, Late
<1>9. SagaOK'
  BY <1>4, <1>8 DEF SagaOK, Resulted, Late
<1>10. RefsOK'
  <2>1. \A n : Referenced(n)' <=> Referenced(n)
    BY <1>2 DEF Referenced
  <2> HIDE DEF Referenced
  <2> QED
    BY <1>1, <1>6, <2>1 DEF RefsOK
<1>11. AnalysesOK'
  <2>1. AnalysisIsOfContent'
    BY <1>1, <1>6 DEF AnalysesOK, AnalysisIsOfContent
  <2>2. saga'.pc \notin Resulted
    BY <1>4 DEF Resulted, Late
  <2> QED
    BY <1>1, <1>2, <1>4, <2>1, <2>2 DEF AnalysesOK, AllOfContent, Compared
<1>12. ASSUME NEW g \in Gens PROVE PhaseOK(g)' /\ SaveOK(g)'
  <2>1. ~In(g) /\ ~In(g)' /\ DiskKept(g) /\ TimelineKept(g) /\ g \in Library
    BY <1>2, <1>8, DiskRests, TimelineRests DEF In, Library
  <2>2. rows'[g] \in {rows[g], None} /\ gens'[g] = gens[g] /\ SideKept(g)
    BY <1>2, <1>5, <1>6, <2>1
  <2>3. Forgetting(g)' => Forgetting(g) \/ (rows[g] # None /\ rows'[g] = None)
    BY <1>2, <1>4, <1>5, <1>6 DEF Forgetting
  <2> QED
    BY <2>1, <2>2, <2>3, OtherKept
<1> QED
  BY <1>5, <1>7, <1>9, <1>10, <1>11, <1>12 DEF IInv

------------------------------------------------------------------------------
(* The saga of one generation *)

(* What holds while the gate is held for a generation.                       *)
LEMMA HeldIs ==
    ASSUME IInv, OfGeneration
    PROVE  /\ TypeOK /\ AnalysesOK /\ SagaOK /\ WorkerOK /\ RefsOK
           /\ saga \in SagaType /\ saga.gen \in Gens /\ saga.gen \in Library
           /\ gens[saga.gen].status \in {"running", "cancelling"}
           /\ \A g : In(g) <=> g = saga.gen
           /\ \A g \in Gens : PhaseOK(g) /\ SaveOK(g)
           /\ worker.moving # None => worker.moving \in disk.durable
BY DEF IInv, TypeOK, SagaOK, In, Library, WorkerOK

(* The generation goes on to a later phase.                                  *)
LEMMA OwnPhase ==
    ASSUME IInv, NEW g \in Gens, In(g), In(g)', DiskKept(g), gens'[g] = gens[g],
           Quiet(g) => Quiet(g)',
           ~Running(g) /\ ~Pending("start", g) => ~Running(g)' /\ ~Pending("start", g)',
           \A k \in Answers : Told(k, g)' => Told(k, g),
           Uncommitted(g)' => /\ Uncommitted(g) /\ (Pending("commit", g)' => Pending("commit", g))
                              /\ (worker'.moving = g => worker.moving = g)
                              /\ (Saved(g)' => Saved(g)),
           saga'.pc \in Early => saga.pc \in Early,
           AtWork(g)' \/ Quiet(g),
           Forgetting(g)' => saga'.committed /\ rows'[g] = None,
           saga'.pc = "finish" \/ (saga'.pc = "undo" /\ ~saga'.committed /\ saga'.after = "finish") =>
               (host'.job.terminal => Quiet(g)),
           saga'.pc \in {"prepared", "written", "commitWait"} =>
               \/ saga.pc \in {"prepared", "written", "commitWait"} /\ saga'.result = saga.result
               \/ ~Running(g) /\ ~Pending("start", g) /\ saga'.result = disk.result[g]
    PROVE  PhaseOK(g)'
<1>1. PhaseOK(g) /\ gens[g].status \in {"running", "cancelling"}
  BY DEF IInv, SagaOK, In
<1>2. Unstarted(g)' => Unstarted(g)
  BY <1>1 DEF Unstarted, In
<1>3. Clean(g) /\ (Saved(g)' => Saved(g)) => Clean(g)'
  BY DEF Clean, DiskKept
<1>4. "succeeded" \in Answers
  BY DEF Answers, Ends
<1> HIDE DEF Quiet, AtWork, Unstarted, Uncommitted, Clean, Forgetting, In, Told, Pending, Running,
             Saved, Early
<1>5. ~AtWork(g)' => Quiet(g)'
  OBVIOUS
<1>6. Unstarted(g)' => disk'.job[g] = "absent" /\ \A k \in Answers : ~Told(k, g)'
  BY <1>1, <1>2 DEF PhaseOK, DiskKept
<1>7. Uncommitted(g)' => ~Pending("commit", g)' /\ worker'.moving # g /\ Clean(g)' /\ ~Told("succeeded", g)'
  BY <1>1, <1>3, <1>4 DEF PhaseOK
<1>8. gens'[g].status # "cancelled" /\ gens'[g].status # "none"
  BY <1>1
<1>9. In(g)' /\ saga'.pc \in {"prepared", "written", "commitWait"} =>
          ~Running(g)' /\ ~Pending("start", g)' /\ saga'.result = disk'.result[g]
  BY <1>1 DEF PhaseOK, DiskKept
<1> QED
  BY <1>5, <1>6, <1>7, <1>8, <1>9 DEF PhaseOK

(* The timeline is left alone by a generation that goes on.                  *)
LEMMA OwnSave ==
    ASSUME IInv, NEW g \in Gens, In(g), In(g)', DiskKept(g), gens'[g] = gens[g], timeline' = timeline,
           \/ ~Saved(g)
           \/ saga'.rev = saga.rev /\ saga.committed /\ saga'.committed
           \/ /\ saga'.rev = saga.rev /\ saga'.committed
              /\ \A i \in 1..Len(timeline) : timeline[i].by = g => i < Len(timeline),
           saga'.pc = "commitWait" => ~Told("succeeded", g)',
           saga'.pc \in Late /\ saga'.result.narrated => Resolves(g)
    PROVE  SaveOK(g)'
<1>1. SaveOK(g) /\ (saga.committed => saga.pc # "confirm")
  BY DEF IInv, SagaOK
<1>2. Resolves(g) => Resolves(g)'
  BY NarrationResolves DEF DiskKept
<1>3. /\ Saved(g)' <=> Saved(g)
      /\ Referenced(g)' <=> Referenced(g)
      /\ Overtaken(g)' <=> Overtaken(g)
  BY DEF Saved, Referenced, Overtaken
<1>4. \A i \in 1..Len(timeline') : timeline'[i].by = g =>
          /\ i = saga'.rev + 1
          /\ saga'.pc = "confirm" \/ (saga'.committed /\ i < Len(timeline'))
  BY <1>1 DEF SaveOK, Saved
<1> HIDE DEF In, Told, Saved, Referenced, Overtaken, Resolves, Late
<1> QED
  BY <1>1, <1>2, <1>3, <1>4 DEF SaveOK

(* The host, after it let go of a job.                                       *)
LEMMA FinishJobIs ==
    ASSUME TypeOK, saga.gen \in Gens, FinishJob
    PROVE  /\ host' \in [up : BOOLEAN, job : JobType \cup {None}]
           /\ disk' = [disk EXCEPT !.job[saga.gen] = "absent"]
BY DEF FinishJob, TypeOK

(* The job directory of a generation is removed.                             *)
LEMMA JobRemoved ==
    ASSUME disk \in DiskType, NEW g0 \in Gens, disk' = [disk EXCEPT !.job[g0] = "absent"]
    PROVE  /\ disk' \in DiskType /\ disk'.registry = disk.registry /\ disk'.durable = disk.durable
           /\ disk'.result = disk.result /\ disk'.content = disk.content
           /\ disk'.job[g0] = "absent"
           /\ \A g \in Gens : DiskKept(g) /\ (g # g0 => disk'.job[g] = disk.job[g])
<1> DEFINE j == [disk.job EXCEPT ![g0] = "absent"]
<1>1. disk' = [disk EXCEPT !.job = j]
  BY DEF DiskType
<1>2. /\ j \in [Gens -> {"absent", "request", "staging", "result"}] /\ j[g0] = "absent"
      /\ \A g \in Gens : g # g0 => j[g] = disk.job[g]
  BY DEF DiskType
<1> HIDE DEF j
<1>3. /\ disk' \in DiskType /\ disk'.registry = disk.registry /\ disk'.durable = disk.durable
      /\ disk'.result = disk.result /\ disk'.content = disk.content /\ disk'.job = j
  BY <1>1, <1>2 DEF DiskType
<1> QED
  BY <1>2, <1>3 DEF DiskKept

(* The worker is killed.                                                     *)
LEMMA EmergencyIs ==
    ASSUME TypeOK, EmergencyStop
    PROVE  /\ WorkerOK'
           /\ \A g \in Gens : SideKept(g) /\ Quiet(g)'
           /\ \A k, g : ~Pending(k, g)' /\ ~Told(k, g)'
           /\ worker' \in WorkerType /\ thread' \in {thread, NoThread}
           /\ cmds' \in Seq(CommandType) /\ events' \in Seq(EventType)
           /\ host' \in [up : BOOLEAN, job : JobType \cup {None}]
           /\ disk' = [disk EXCEPT !.job[saga.gen] = "absent"]
<1>1. /\ worker' = NoWorker /\ thread' = NoThread /\ cmds' = <<>> /\ events' = <<>>
      /\ host' = [up |-> FALSE, job |-> None] /\ disk' = [disk EXCEPT !.job[saga.gen] = "absent"]
  BY DEF EmergencyStop
<1> QED
  BY <1>1, SideCleared

(* A generation ends: its own part is proved apart.                          *)
LEMMA Finished ==
    ASSUME IInv, OfGeneration, NEW status \in {"succeeded", "failed", "cancelled"}, Finish(status),
           rows' = rows, timeline' \in Seq(RevisionType), RefsOK', WorkerOK',
           host' \in [up : BOOLEAN, job : JobType \cup {None}],
           worker' \in WorkerType, thread' \in {thread, NoThread},
           cmds' \in Seq(CommandType), events' \in Seq(EventType), disk' \in DiskType,
           disk'.result = disk.result,
           \A g \in Gens : disk'.job[g] = "result" => disk.job[g] = "result",
           \A g \in Gens : g # saga.gen => SideKept(g) /\ DiskKept(g),
           \A g \in Gens : g # saga.gen /\ gens'[g] = gens[g] => TimelineKept(g),
           \A g \in Gens : Pending("forget", g)' => Pending("forget", g),
           \A g \in Gens : g = saga.gen /\ gens'[g].status = status =>
               /\ Quiet(g)'
               /\ status = "cancelled" => Clean(g)' /\ disk'.job[g] = "absent"
               /\ Referenced(g)' => Saved(g)' /\ (Overtaken(g)' \/ Resolves(g)')
    PROVE  IInv'
<1>1. /\ TypeOK /\ AnalysesOK /\ saga.gen \in Gens
      /\ \A g : In(g) <=> g = saga.gen
      /\ \A g \in Gens : PhaseOK(g) /\ SaveOK(g)
  BY HeldIs
<1>2. /\ gens' = [gens EXCEPT ![saga.gen].status = status] /\ saga' = NoSaga
  BY DEF Finish
<1>3. /\ gens' \in [Gens -> GenType]
      /\ \A g \in Gens : g # saga.gen => gens'[g] = gens[g]
      /\ \A g \in Gens : g = saga.gen => gens'[g].status = status
  <2> DEFINE ended == [gens[saga.gen] EXCEPT !.status = status]
  <2>1. gens \in [Gens -> GenType]
    BY <1>1 DEF TypeOK
  <2>2. gens' = [gens EXCEPT ![saga.gen] = ended]
    BY <1>1, <1>2, <2>1
  <2>3. ended \in GenType /\ ended.status = status
    BY <1>1, <2>1 DEF GenType
  <2> HIDE DEF ended
  <2> QED
    BY <1>1, <2>1, <2>2, <2>3
<1>4. saga' \in SagaType /\ saga'.pc = "off" /\ saga'.mats = Nothing /\ saga'.gen = None
      /\ saga'.committed = FALSE
  BY <1>2, RestIs
<1>5. TypeOK'
  BY <1>1, <1>3, <1>4, RestIs DEF TypeOK
<1>6. ~OfGeneration'
  BY <1>4 DEF OfGeneration, Early, Late
<1>7. SagaOK'
  BY <1>4, <1>6 DEF SagaOK, Resulted, Late
<1>8. AnalysesOK'
  BY <1>1, <1>4, AnalysesRest DEF Resulted, Late
<1>9. \A g : ~In(g)'
  BY <1>6 DEF In
<1>10. \A g \in Gens : Forgetting(g)' => Forgetting(g)
  BY <1>4 DEF Forgetting
<1>11. ASSUME NEW g \in Gens, g = saga.gen PROVE PhaseOK(g)' /\ SaveOK(g)'
  <2>1. gens'[g].status = status
    BY <1>3, <1>11
  <2>2. Forgetting(g)' => rows'[g] = None
    BY <1>1, <1>10 DEF PhaseOK
  <2> QED
    BY <1>9, <1>11, <2>1, <2>2, EndedKept
<1>12. \A g \in Gens : g # saga.gen =>
           /\ ~In(g) /\ ~In(g)' /\ SideKept(g) /\ DiskKept(g) /\ TimelineKept(g)
           /\ gens'[g] = gens[g] /\ rows'[g] = rows[g]
           /\ Forgetting(g)' => Forgetting(g)
  BY <1>1, <1>3, <1>9, <1>10
<1> QED
  BY <1>5, <1>7, <1>8, <1>11, <1>12, SagaStep

(* A generation ends without a revision of its own being stored.             *)
LEMMA FinishedInVain ==
    ASSUME IInv, OfGeneration, NEW status \in {"failed", "cancelled"}, Finish(status),
           rows' = rows, timeline' = timeline, WorkerOK',
           host' \in [up : BOOLEAN, job : JobType \cup {None}],
           worker' \in WorkerType, thread' \in {thread, NoThread},
           cmds' \in Seq(CommandType), events' \in Seq(EventType),
           disk' = disk \/ disk' = [disk EXCEPT !.job[saga.gen] = "absent"],
           \A g \in Gens : g # saga.gen => SideKept(g),
           \A g \in Gens : Pending("forget", g)' => Pending("forget", g),
           \A g \in Gens : g = saga.gen => Quiet(g)',
           status = "cancelled" => Uncommitted(saga.gen) /\ disk'.job[saga.gen] = "absent"
    PROVE  IInv'
<1>1. /\ TypeOK /\ RefsOK /\ saga.gen \in Gens
      /\ \A g \in Gens : PhaseOK(g) /\ SaveOK(g)
  BY HeldIs
<1>2. /\ disk' \in DiskType /\ disk'.result = disk.result /\ disk'.registry = disk.registry
      /\ disk'.durable = disk.durable
      /\ \A g \in Gens : DiskKept(g) /\ (disk'.job[g] = "result" => disk.job[g] = "result")
  <2>1. disk \in DiskType
    BY <1>1 DEF TypeOK
  <2>2. CASE disk' = disk
    BY <2>1, <2>2, DiskRests
  <2>3. CASE disk' = [disk EXCEPT !.job[saga.gen] = "absent"]
    BY <1>1, <2>1, <2>3, JobRemoved DEF DiskKept
  <2> QED
    BY <2>2, <2>3
<1>3. timeline' \in Seq(RevisionType) /\ RefsOK'
  BY <1>1 DEF TypeOK, RefsOK, Referenced
<1>4. ASSUME NEW g \in Gens, g = saga.gen, gens'[g].status = status
      PROVE  /\ status = "cancelled" => Clean(g)' /\ disk'.job[g] = "absent"
             /\ Referenced(g)' => Saved(g)' /\ (Overtaken(g)' \/ Resolves(g)')
  <2>1. status = "cancelled" => Clean(g)' /\ disk'.job[g] = "absent"
    <3> SUFFICES ASSUME status = "cancelled" PROVE Clean(g)' /\ disk'.job[g] = "absent"
      OBVIOUS
    <3>1. Uncommitted(g)
      BY <1>4
    <3>2. Clean(g)
      BY <1>1, <3>1 DEF PhaseOK
    <3> QED
      BY <1>2, <1>4, <3>2 DEF Clean, Saved
  <2>2. /\ Saved(g)' <=> Saved(g)
        /\ Referenced(g)' <=> Referenced(g)
        /\ Overtaken(g) => Overtaken(g)'
        /\ Resolves(g)' <=> Resolves(g)
    BY <1>2, <1>4, NarrationResolves DEF Saved, Referenced, Overtaken
  <2>3. SaveOK(g)
    BY <1>1
  <2> HIDE DEF Saved, Referenced, Overtaken, Resolves
  <2> QED
    BY <2>1, <2>2, <2>3 DEF SaveOK
<1>5. \A g \in Gens : g # saga.gen /\ gens'[g] = gens[g] => TimelineKept(g)
  BY TimelineRests
<1> QED
  BY <1>2, <1>3, <1>4, <1>5, Finished

(* A generation goes on.                                                     *)
LEMMA GoesOn ==
    ASSUME IInv, OfGeneration, saga'.gen = saga.gen,
           TypeOK', AnalysesOK', SagaOK', WorkerOK', RefsOK',
           \A g \in Gens : g # saga.gen =>
               /\ SideKept(g) /\ DiskKept(g) /\ TimelineKept(g)
               /\ gens'[g] = gens[g] /\ rows'[g] = rows[g]
               /\ Pending("forget", g)' => Pending("forget", g),
           \A g \in Gens : g = saga.gen => PhaseOK(g)' /\ SaveOK(g)'
    PROVE  IInv'
<1>1. ASSUME NEW g \in Gens, g # saga.gen
      PROVE  /\ ~In(g) /\ ~In(g)'
             /\ Forgetting(g)' => Forgetting(g)
  BY <1>1 DEF In, Forgetting
<1> QED
  BY <1>1, SagaStep

(* The worker takes no part, and the host neither.                           *)
LEMMA HostRests ==
    ASSUME IInv, UNCHANGED <<host, worker, thread, cmds, events, disk>>
    PROVE  /\ WorkerOK' /\ host' \in [up : BOOLEAN, job : JobType \cup {None}]
           /\ worker' \in WorkerType /\ thread' \in ThreadType
           /\ cmds' \in Seq(CommandType) /\ events' \in Seq(EventType) /\ disk' \in DiskType
           /\ \A g \in Gens : SideKept(g) /\ (Quiet(g)' <=> Quiet(g)) /\ DiskKept(g)
           /\ \A k, g : (Pending(k, g)' <=> Pending(k, g)) /\ (Told(k, g)' => Told(k, g))
                        /\ (Running(g)' <=> Running(g))
<1>1. WorkerOK /\ TypeOK /\ (worker.moving # None => worker.moving \in disk'.durable)
  BY DEF IInv, WorkerOK
<1> QED
  BY <1>1, SideRests, DiskRests DEF TypeOK

(* The gate is taken for a generation.                                       *)
LEMMA StartHolds ==
    ASSUME IInv, NEW g0 \in Gens, Start(g0) PROVE IInv'
<1>1. TypeOK /\ AnalysesOK /\ SagaOK /\ WorkerOK /\ RefsOK /\ \A g \in Gens : PhaseOK(g) /\ SaveOK(g)
  BY DEF IInv
<1>2. /\ saga.pc = "off" /\ gens[g0].status = "none"
      /\ gens' = [gens EXCEPT ![g0].status = "running"]
      /\ saga' = [saga EXCEPT !.pc = "timeline", !.gen = g0]
      /\ rows' = rows /\ timeline' = timeline
      /\ UNCHANGED <<host, worker, thread, cmds, events, disk>> /\ disk' = disk
  BY DEF Start
<1>3. saga \in SagaType /\ saga.committed = FALSE /\ g0 \in Library
  BY <1>1, <1>2 DEF TypeOK, SagaOK, SagaType, Library
<1>4. /\ saga' \in SagaType /\ saga'.pc = "timeline" /\ saga'.gen = g0 /\ saga'.committed = FALSE
      /\ saga'.mats = saga.mats
  BY <1>2, <1>3 DEF SagaType, SagaSteps
<1>5. /\ gens' \in [Gens -> GenType] /\ gens'[g0].status = "running"
      /\ \A g \in Gens : g # g0 => gens'[g] = gens[g]
  <2> DEFINE begun == [gens[g0] EXCEPT !.status = "running"]
  <2>1. gens \in [Gens -> GenType]
    BY <1>1 DEF TypeOK
  <2>2. gens' = [gens EXCEPT ![g0] = begun]
    BY <1>2, <2>1
  <2>3. begun \in GenType /\ begun.status = "running"
    BY <2>1 DEF GenType
  <2> HIDE DEF begun
  <2> QED
    BY <2>1, <2>2, <2>3
<1>6. TypeOK'
  BY <1>1, <1>2, <1>4, <1>5, HostRests DEF TypeOK
<1>7. ~OfGeneration /\ OfGeneration'
  BY <1>2, <1>3, <1>4 DEF OfGeneration, Early, Late
<1>8. SagaOK'
  BY <1>4, <1>5 DEF SagaOK, Resulted, Late
<1>9. RefsOK'
  BY <1>1, <1>2 DEF RefsOK, Referenced
<1>10. AnalysesOK'
  BY <1>1, <1>2, <1>4, AnalysesRest DEF Resulted, Late
<1>11. \A g \in Gens : ~In(g) /\ (In(g)' <=> g = g0)
  BY <1>4, <1>7 DEF In
<1>12. ASSUME NEW g \in Gens, g # g0
       PROVE  /\ SideKept(g) /\ DiskKept(g) /\ TimelineKept(g)
              /\ Forgetting(g)' => Forgetting(g)
  <2>1. SideKept(g) /\ DiskKept(g) /\ TimelineKept(g)
    BY <1>2, <1>5, <1>12, HostRests, TimelineRests
  <2>2. Pending("forget", g)' => Pending("forget", g)
    BY <1>2, HostRests
  <2> QED
    BY <1>4, <1>12, <2>1, <2>2 DEF Forgetting
<1>13. ASSUME NEW g \in Gens, g = g0 PROVE PhaseOK(g)' /\ SaveOK(g)'
  <2>1. Unstarted(g) /\ Uncommitted(g) /\ ~In(g) /\ In(g)' /\ PhaseOK(g) /\ SaveOK(g)
    BY <1>1, <1>2, <1>11, <1>13 DEF Unstarted, Uncommitted
  <2>2. ~AtWork(g) /\ ~AtWork(g)' /\ Quiet(g)
    <3>1. ~AtWork(g) /\ ~AtWork(g)'
      BY <1>4, <2>1 DEF AtWork
    <3> QED
      BY <2>1, <3>1 DEF PhaseOK
  <2>3. ~Pending("commit", g) /\ worker.moving # g /\ Clean(g) /\ \A k \in Answers : ~Told(k, g)
    BY <2>1 DEF PhaseOK
  <2>4. rows[g] = None /\ ~Forgetting(g)
    BY <1>2, <1>13, <2>1 DEF PhaseOK
  <2>5. ~Forgetting(g)'
    BY <1>2, <1>4, <2>4, HostRests DEF Forgetting
  <2>6. Clean(g)' /\ Quiet(g)' /\ ~Pending("commit", g)' /\ \A k \in Answers : ~Told(k, g)'
    BY <1>2, <2>2, <2>3, HostRests DEF Clean, Saved
  <2>7. "succeeded" \in Answers
    BY DEF Answers, Ends
  <2>8. disk'.job[g] = "absent"
    BY <1>2, <2>1 DEF PhaseOK
  <2>9. ~Saved(g)' /\ ~Referenced(g)'
    <3>1. ~Referenced(g)
      BY <2>3, <2>1 DEF SaveOK, Clean
    <3> QED
      BY <1>2, <2>6, <3>1 DEF Clean, Referenced
  <2>10. PhaseOK(g)'
    <3> HIDE DEF Quiet, AtWork, Unstarted, Uncommitted, Clean, Forgetting, In, Told, Pending, Running
    <3> QED
      BY <1>2, <1>4, <1>5, <1>13, <2>2, <2>3, <2>5, <2>6, <2>7, <2>8 DEF PhaseOK
  <2>11. SaveOK(g)'
    <3>1. \A i \in 1..Len(timeline') : timeline'[i].by # g
      BY <2>9 DEF Saved
    <3> HIDE DEF In, Told, Saved, Referenced, Overtaken, Resolves
    <3> QED
      BY <1>4, <2>9, <3>1 DEF SaveOK, Late
  <2> QED
    BY <2>10, <2>11
<1> QED
  BY <1>2, <1>5, <1>6, <1>8, <1>9, <1>10, <1>11, <1>12, <1>13, HostRests, SagaStep

(* A generation that has not asked anything of the worker goes on.           *)
LEMMA EarlyGoesOn ==
    ASSUME IInv, saga.pc \in Early, saga'.pc \in Early, saga'.gen = saga.gen, saga' \in SagaType,
           saga'.committed = saga.committed, AllOfContent(saga'.mats),
           UNCHANGED <<rows, timeline, gens, host, worker, thread, cmds, events, disk>>
    PROVE  IInv'
<1>1. OfGeneration /\ OfGeneration'
  BY DEF OfGeneration, Early
<1>2. /\ TypeOK /\ AnalysesOK /\ SagaOK /\ WorkerOK /\ RefsOK /\ saga.gen \in Gens
      /\ \A g : In(g) <=> g = saga.gen
      /\ \A g \in Gens : PhaseOK(g) /\ SaveOK(g)
      /\ gens[saga.gen].status \in {"running", "cancelling"}
  BY <1>1, HeldIs
<1>3. saga.committed = FALSE /\ saga'.committed = FALSE
  BY <1>2 DEF SagaOK, TypeOK, SagaType, Early
<1>4. TypeOK'
  BY <1>2 DEF TypeOK
<1>5. SagaOK'
  BY <1>2, <1>3 DEF SagaOK, Early, Resulted, Late
<1>6. RefsOK'
  BY <1>2 DEF RefsOK, Referenced
<1>7. AnalysesOK'
  <2>1. saga'.pc \notin Resulted
    BY DEF Early, Resulted, Late
  <2> QED
    BY <1>2, <2>1 DEF AnalysesOK, AllOfContent, Compared, AnalysisIsOfContent
<1>8. \A g \in Gens : TimelineKept(g)
  BY TimelineRests
<1>9. ASSUME NEW g \in Gens, g = saga.gen PROVE PhaseOK(g)' /\ SaveOK(g)'
  <2>1. In(g) /\ In(g)' /\ Unstarted(g) /\ Uncommitted(g)
    BY <1>1, <1>2, <1>9 DEF In, Unstarted, Uncommitted
  <2>2. ~AtWork(g) /\ ~Forgetting(g) /\ Quiet(g) /\ Clean(g)
    <3>1. ~AtWork(g)
      BY <1>3 DEF AtWork, Early
    <3>2. ~Forgetting(g) /\ Clean(g)
      BY <1>2, <1>3, <2>1 DEF PhaseOK
    <3> QED
      BY <1>2, <3>1, <3>2 DEF PhaseOK
  <2>3. ~Forgetting(g)'
    BY <2>2, HostRests DEF Forgetting, Early
  <2>4. PhaseOK(g)'
    <3>1. ~(saga'.pc \in {"prepared", "written", "commitWait"}) /\ saga'.pc # "finish"
          /\ saga'.pc # "undo"
      BY DEF Early
    <3>2. Saved(g)' => Saved(g)
      BY DEF Saved
    <3> HIDE DEF Early
    <3> QED
      BY <2>1, <2>2, <2>3, <3>1, <3>2, HostRests, OwnPhase
  <2>5. SaveOK(g)'
    <3>1. ~(saga'.pc = "commitWait") /\ ~(saga'.pc \in Late) /\ ~Saved(g)
      BY <2>2 DEF Early, Late, Clean
    <3> QED
      BY <2>1, <3>1, HostRests, OwnSave
  <2> QED
    BY <2>4, <2>5
<1> QED
  BY <1>1, <1>4, <1>5, <1>6, <1>7, <1>8, <1>9, HostRests, GoesOn

(* What a generation not yet begun by the worker has.                        *)
LEMMA EarlyIs ==
    ASSUME IInv, saga.pc \in Early
    PROVE  /\ OfGeneration /\ saga.committed = FALSE
           /\ \A g \in Gens : g = saga.gen =>
                  /\ In(g) /\ Unstarted(g) /\ Uncommitted(g) /\ Quiet(g) /\ Clean(g)
                  /\ disk.job[g] = "absent" /\ ~Forgetting(g)
                  /\ ~Pending("commit", g) /\ worker.moving # g
                  /\ \A k \in Answers : ~Told(k, g)
<1>1. OfGeneration
  BY DEF OfGeneration
<1>2. saga.committed = FALSE
  BY <1>1, HeldIs DEF SagaOK, SagaType, Early
<1>3. ASSUME NEW g \in Gens, g = saga.gen
      PROVE  /\ In(g) /\ Unstarted(g) /\ Uncommitted(g) /\ Quiet(g) /\ Clean(g)
             /\ disk.job[g] = "absent" /\ ~Forgetting(g)
             /\ ~Pending("commit", g) /\ worker.moving # g
             /\ \A k \in Answers : ~Told(k, g)
  <2>1. In(g) /\ Unstarted(g) /\ Uncommitted(g) /\ PhaseOK(g)
    BY <1>1, <1>3, HeldIs DEF In, Unstarted, Uncommitted
  <2>2. ~AtWork(g)
    BY <1>2 DEF AtWork, Early
  <2> QED
    BY <1>2, <2>1, <2>2 DEF PhaseOK
<1> QED
  BY <1>1, <1>2, <1>3

(* It ends before the worker begins.                                         *)
LEMMA EarlyEnds ==
    ASSUME IInv, saga.pc \in Early, NEW status \in {"failed", "cancelled"}, Finish(status),
           UNCHANGED <<rows, timeline, host, worker, thread, cmds, events, disk>>
    PROVE  IInv'
<1>1. OfGeneration /\ saga.gen \in Gens
  BY EarlyIs, HeldIs
<1>2. \A g \in Gens : g = saga.gen => Uncommitted(g) /\ disk'.job[g] = "absent" /\ Quiet(g)'
  BY EarlyIs, HostRests
<1> QED
  BY <1>1, <1>2, HostRests, FinishedInVain

(* The revision the generation starts from is read.                          *)
LEMMA ReadTimelineHolds ==
    ASSUME IInv, ReadTimeline PROVE IInv'
<1>1. /\ saga.pc = "timeline" /\ saga.pc \in Early
      /\ UNCHANGED <<rows, timeline, host, worker, thread, cmds, events, disk>>
      /\ \/ saga' = [saga EXCEPT !.pc = "materials", !.rev = Len(timeline)] /\ UNCHANGED gens
         \/ Finish("failed")
  BY DEF ReadTimeline, Early
<1>2. saga \in SagaType /\ AllOfContent(saga.mats) /\ Len(timeline) \in Nat
  BY DEF IInv, TypeOK, AnalysesOK
<1>3. CASE saga' = [saga EXCEPT !.pc = "materials", !.rev = Len(timeline)] /\ UNCHANGED gens
  <2>1. /\ saga' \in SagaType /\ saga'.pc \in Early /\ saga'.gen = saga.gen
        /\ saga'.committed = saga.committed /\ saga'.mats = saga.mats
    BY <1>2, <1>3 DEF SagaType, SagaSteps, Early
  <2> QED
    BY <1>1, <1>2, <1>3, <2>1, EarlyGoesOn
<1>4. CASE Finish("failed")
  BY <1>1, <1>4, EarlyEnds
<1> QED
  BY <1>1, <1>3, <1>4

(* The rows are taken as they are, with analyses of their own contents.      *)
LEMMA LoadMaterialsHolds ==
    ASSUME IInv, LoadMaterials PROVE IInv'
<1> DEFINE visual == {m \in Videos : rows[m] # None}
           mats == [m \in visual |-> rows[m]]
<1>1. /\ saga.pc = "materials" /\ saga.pc \in Early
      /\ UNCHANGED <<rows, timeline, host, worker, thread, cmds, events, disk>>
      /\ \/ saga' = [saga EXCEPT !.pc = "launch", !.mats = mats] /\ UNCHANGED gens
         \/ Finish("failed")
  BY DEF LoadMaterials, Early
<1>2. TypeOK /\ AnalysisIsOfContent
  BY DEF IInv, AnalysesOK
<1>3. mats \in Materials /\ AllOfContent(mats)
  <2>1. \A m \in visual : rows[m] \in Row /\ OfContent(rows[m])
    BY <1>2 DEF TypeOK, AnalysisIsOfContent, OfContent, Library
  <2>2. mats \in [visual -> Row] /\ visual \in SUBSET Videos
    BY <2>1
  <2>3. DOMAIN mats = visual /\ \A m \in visual : mats[m] = rows[m]
    OBVIOUS
  <2> HIDE DEF mats, visual
  <2> QED
    BY <2>1, <2>2, <2>3 DEF Materials, AllOfContent
<1> HIDE DEF mats
<1>4. CASE saga' = [saga EXCEPT !.pc = "launch", !.mats = mats] /\ UNCHANGED gens
  <2>1. /\ saga' \in SagaType /\ saga'.pc \in Early /\ saga'.gen = saga.gen
        /\ saga'.committed = saga.committed /\ saga'.mats = mats
    BY <1>2, <1>3, <1>4 DEF TypeOK, SagaType, SagaSteps, Early
  <2> QED
    BY <1>1, <1>3, <1>4, <2>1, EarlyGoesOn
<1>5. CASE Finish("failed")
  BY <1>1, <1>5, EarlyEnds
<1> QED
  BY <1>1, <1>4, <1>5

(* The generation is handed to the worker.                                   *)
LEMMA LaunchHolds ==
    ASSUME IInv, Launch PROVE IInv'
<1>1. saga.pc = "launch" /\ saga.pc \in Early /\ rows' = rows /\ timeline' = timeline
  BY DEF Launch, Early
<1>2. PICK g0 : g0 = saga.gen
  OBVIOUS
<1>3. \/ /\ Finish("cancelled") \/ Finish("failed")
         /\ UNCHANGED <<host, worker, thread, cmds, events, disk>>
      \/ /\ \/ /\ worker' = worker /\ thread' = thread /\ events' = events
               /\ cmds' = Append(cmds, Command("start", g0))
            \/ /\ worker' = FreshWorker /\ thread' = NoThread /\ events' = <<>>
               /\ cmds' = Append(<<>>, Command("start", g0))
         /\ host' = [up |-> TRUE, job |-> HostJob(g0)]
         /\ disk' = [disk EXCEPT !.job[g0] = "request"]
         /\ saga' = [saga EXCEPT !.pc = "poll"] /\ gens' = gens
  BY <1>2 DEF Launch, Goto
<1>4. CASE /\ Finish("cancelled") \/ Finish("failed")
           /\ UNCHANGED <<host, worker, thread, cmds, events, disk>>
  BY <1>1, <1>4, EarlyEnds
<1>5. CASE /\ \/ /\ worker' = worker /\ thread' = thread /\ events' = events
                 /\ cmds' = Append(cmds, Command("start", g0))
              \/ /\ worker' = FreshWorker /\ thread' = NoThread /\ events' = <<>>
                 /\ cmds' = Append(<<>>, Command("start", g0))
           /\ host' = [up |-> TRUE, job |-> HostJob(g0)]
           /\ disk' = [disk EXCEPT !.job[g0] = "request"]
           /\ saga' = [saga EXCEPT !.pc = "poll"] /\ gens' = gens
  <2>1. /\ OfGeneration /\ saga.committed = FALSE
        /\ In(g0) /\ Quiet(g0) /\ Clean(g0) /\ ~Forgetting(g0)
        /\ ~Pending("commit", g0) /\ worker.moving # g0
        /\ \A k \in Answers : ~Told(k, g0)
        /\ g0 \in Gens
    BY <1>1, <1>2, EarlyIs, HeldIs
  <2>2. /\ TypeOK /\ AnalysesOK /\ SagaOK /\ WorkerOK /\ RefsOK /\ saga \in SagaType
        /\ gens[g0].status \in {"running", "cancelling"}
        /\ \A g \in Gens : PhaseOK(g) /\ SaveOK(g)
        /\ worker.moving # None => worker.moving \in disk.durable
    BY <1>2, <2>1, HeldIs
  <2>3. Command("start", g0) \in CommandType /\ g0 \in Library
    BY <2>1 DEF Command, CommandType, Library
  <2>4. /\ disk' \in DiskType /\ disk'.registry = disk.registry /\ disk'.durable = disk.durable
        /\ disk'.result = disk.result /\ disk'.job[g0] = "request"
        /\ \A g \in Gens : g # g0 => disk'.job[g] = disk.job[g]
    <3> DEFINE j == [disk.job EXCEPT ![g0] = "request"]
    <3>1. disk \in DiskType /\ disk' = [disk EXCEPT !.job = j]
      BY <1>5, <2>2 DEF TypeOK, DiskType
    <3>2. /\ j \in [Gens -> {"absent", "request", "staging", "result"}] /\ j[g0] = "request"
          /\ \A g \in Gens : g # g0 => j[g] = disk.job[g]
      BY <2>1, <3>1 DEF DiskType
    <3> HIDE DEF j
    <3> QED
      BY <3>1, <3>2 DEF DiskType
  <2>5. /\ WorkerOK' /\ worker' \in WorkerType /\ thread' \in {thread, NoThread}
        /\ cmds' \in Seq(CommandType) /\ events' \in Seq(EventType)
        /\ \A g \in Gens : g # g0 => SideKept(g)
        /\ \A k, g : Pending(k, g)' => Pending(k, g) \/ (k = "start" /\ g = g0)
        /\ \A k, g : Told(k, g)' => Told(k, g)
        /\ worker'.moving # g0
    <3>1. CASE /\ worker' = worker /\ thread' = thread /\ events' = events
               /\ cmds' = Append(cmds, Command("start", g0))
      <4>1. worker.moving # None => worker.moving \in disk'.durable
        BY <2>2, <2>4
      <4> QED
        BY <2>1, <2>2, <2>3, <3>1, <4>1, SideSent DEF TypeOK
    <3>2. CASE /\ worker' = FreshWorker /\ thread' = NoThread /\ events' = <<>>
               /\ cmds' = Append(<<>>, Command("start", g0))
      BY <2>1, <2>3, <3>2, SideRestarted, NoneIsNone
    <3> QED
      BY <1>5, <3>1, <3>2
  <2>6. HostJob(g0) \in JobType /\ HostJob(g0).terminal = FALSE
    BY <2>1 DEF HostJob, JobType
  <2>7. host' \in [up : BOOLEAN, job : JobType \cup {None}] /\ host'.job = HostJob(g0)
    <3> DEFINE job == HostJob(g0)
    <3>1. host' = [up |-> TRUE, job |-> job] /\ job \in JobType
      BY <1>5, <2>6
    <3> HIDE DEF job
    <3>2. host' \in [up : BOOLEAN, job : JobType \cup {None}] /\ host'.job = job
      BY <3>1
    <3> QED
      BY <3>2 DEF job
  <2>8. /\ saga' \in SagaType /\ saga'.pc = "poll" /\ saga'.gen = g0 /\ saga'.committed = FALSE
        /\ saga'.mats = saga.mats
    BY <1>2, <1>5, <2>1, <2>2 DEF SagaType, SagaSteps
  <2>9. TypeOK'
    BY <1>1, <1>5, <2>2, <2>4, <2>5, <2>7, <2>8, RestIs DEF TypeOK
  <2>10. SagaOK'
    BY <1>5, <2>1, <2>2, <2>6, <2>7, <2>8 DEF SagaOK, Resulted, Late
  <2>11. RefsOK'
    BY <1>1, <2>2 DEF RefsOK, Referenced
  <2>12. AnalysesOK'
    <3>1. \A g \in Gens : /\ disk'.result[g] = disk.result[g]
                          /\ disk'.job[g] = "result" => disk.job[g] = "result"
      BY <2>4
    <3> QED
      BY <1>1, <2>2, <2>5, <2>8, <3>1, AnalysesRest DEF Resulted, Late
  <2>13. ASSUME NEW g \in Gens, g # g0
         PROVE  SideKept(g) /\ DiskKept(g) /\ TimelineKept(g)
    BY <1>1, <1>5, <2>4, <2>5, <2>13, TimelineRests DEF DiskKept
  <2>14. ASSUME NEW g \in Gens, g = g0 PROVE PhaseOK(g)' /\ SaveOK(g)'
    <3>1. In(g)' /\ AtWork(g)' /\ ~Unstarted(g)'
      BY <1>5, <2>2, <2>8, <2>14 DEF In, AtWork, OfGeneration, Unstarted, Early
    <3>2. "succeeded" \in Answers
      BY DEF Answers, Ends
    <3>3. ~Pending("commit", g)' /\ worker'.moving # g /\ Clean(g)' /\ ~Told("succeeded", g)'
      BY <1>1, <2>1, <2>4, <2>5, <2>14, <3>2 DEF Clean, Saved
    <3>4. ~Forgetting(g)'
      BY <2>1, <2>5, <2>8, <2>14 DEF Forgetting
    <3>5. ~Saved(g)' /\ ~Referenced(g)' /\ \A i \in 1..Len(timeline') : timeline'[i].by # g
      <4>1. ~Referenced(g)
        BY <2>1, <2>2, <2>14 DEF SaveOK, Clean
      <4> QED
        BY <1>1, <3>3, <4>1 DEF Clean, Saved, Referenced
    <3>6. PhaseOK(g)'
      <4> HIDE DEF Quiet, AtWork, Unstarted, Uncommitted, Clean, Forgetting, In, Told, Pending, Running
      <4> QED
        BY <1>5, <2>2, <2>8, <2>14, <3>1, <3>3, <3>4 DEF PhaseOK
    <3>7. SaveOK(g)'
      <4> HIDE DEF In, Told, Saved, Referenced, Overtaken, Resolves
      <4> QED
        BY <2>8, <3>5 DEF SaveOK, Late
    <3> QED
      BY <3>6, <3>7
  <2>15. ASSUME NEW g \in Gens, g # g0
         PROVE  Pending("forget", g)' => Pending("forget", g)
    BY <2>5, <2>15
  <2> QED
    BY <1>1, <1>2, <1>5, <2>1, <2>5, <2>8, <2>9, <2>10, <2>11, <2>12, <2>13, <2>14, <2>15, GoesOn
<1> QED
  BY <1>3, <1>4, <1>5

(* An answer is the last thing a job has to say.                             *)
LEMMA ToldIs ==
    ASSUME WorkerOK, NEW g \in Gens, NEW k, Told(k, g)
    PROVE  /\ k \in Answers => ~Running(g) /\ ~Pending("start", g)
           /\ k \in Ends => Quiet(g)
<1>1. StartedOnce(g) /\ Ends \subseteq Answers
  BY DEF WorkerOK, Answers
<1> QED
  BY <1>1 DEF StartedOnce, Quiet

(* Nothing is forgotten before something was undone.                         *)
LEMMA NotForgetting ==
    ASSUME IInv, NEW g \in Gens, In(g), ~saga.committed PROVE ~Forgetting(g)
BY DEF IInv, PhaseOK

(* A cancel is sent; the saga waits for the worker's word.                   *)
LEMMA SendCancelHolds ==
    ASSUME IInv, SendCancel PROVE IInv'
<1>1. PICK g0 : g0 = saga.gen
  OBVIOUS
<1>2. /\ saga.pc = "poll" /\ cmds' = Append(cmds, Command("cancel", g0))
      /\ host' = [host EXCEPT !.job.cancelling = TRUE]
      /\ rows' = rows /\ timeline' = timeline /\ gens' = gens /\ saga' = saga /\ disk' = disk
      /\ worker' = worker /\ thread' = thread /\ events' = events
  BY <1>1 DEF SendCancel
<1>3. OfGeneration /\ OfGeneration'
  BY <1>2 DEF OfGeneration
<1>4. /\ TypeOK /\ AnalysesOK /\ SagaOK /\ WorkerOK /\ RefsOK /\ g0 \in Gens
      /\ \A g : In(g) <=> g = g0
      /\ \A g \in Gens : PhaseOK(g) /\ SaveOK(g)
      /\ worker.moving # None => worker.moving \in disk'.durable
  BY <1>1, <1>2, <1>3, HeldIs
<1>5. Command("cancel", g0) \in CommandType
  BY <1>4 DEF Command, CommandType
<1>6. /\ WorkerOK' /\ cmds' \in Seq(CommandType)
      /\ \A g \in Gens : SideKept(g)
      /\ \A k, g : Told(k, g)' <=> Told(k, g)
      /\ \A k, g : Pending(k, g)' => Pending(k, g) \/ k = "cancel"
  BY <1>2, <1>4, <1>5, SideSent DEF TypeOK
<1>7. /\ host' \in [up : BOOLEAN, job : JobType \cup {None}]
      /\ host'.job \in JobType /\ ~host'.job.terminal /\ ~saga.committed
  <2>1. host.job \in JobType /\ ~host.job.terminal /\ ~saga.committed
    BY <1>2, <1>4 DEF SagaOK
  <2> DEFINE job == [host.job EXCEPT !.cancelling = TRUE]
  <2>2. job \in JobType /\ job.terminal = host.job.terminal
    BY <2>1 DEF JobType
  <2>3. host' = [host EXCEPT !.job = job] /\ host \in [up : BOOLEAN, job : JobType \cup {None}]
    BY <1>2, <1>4 DEF TypeOK
  <2> HIDE DEF job
  <2>4. host' \in [up : BOOLEAN, job : JobType \cup {None}] /\ host'.job = job
    BY <2>2, <2>3
  <2> QED
    BY <2>1, <2>2, <2>4
<1>8. TypeOK'
  BY <1>2, <1>4, <1>6, <1>7 DEF TypeOK
<1>9. SagaOK'
  BY <1>2, <1>3, <1>4, <1>7 DEF SagaOK, Late, Resulted
<1>10. RefsOK'
  BY <1>2, <1>4 DEF RefsOK, Referenced
<1>11. AnalysesOK'
  BY <1>2, <1>4, AnalysesRest
<1>12. \A g \in Gens : DiskKept(g) /\ TimelineKept(g) /\ (Pending("forget", g)' => Pending("forget", g))
  BY <1>2, <1>6, DiskRests, TimelineRests
<1>13. ASSUME NEW g \in Gens, g = g0 PROVE PhaseOK(g)' /\ SaveOK(g)'
  <2>1. In(g) /\ In(g)' /\ AtWork(g)' /\ Uncommitted(g) /\ ~Forgetting(g) /\ Clean(g)
    <3>1. In(g) /\ In(g)' /\ AtWork(g)' /\ Uncommitted(g)
      BY <1>1, <1>2, <1>3, <1>13 DEF In, AtWork, Uncommitted
    <3> QED
      BY <1>4, <1>7, <3>1, NotForgetting DEF PhaseOK
  <2>2. ~Forgetting(g)'
    BY <1>2, <1>12, <2>1 DEF Forgetting
  <2>3. SideKept(g) /\ DiskKept(g)
    BY <1>6, <1>12
  <2>4. PhaseOK(g)'
    <3>1. saga'.pc = "poll" /\ ~(saga'.pc \in Early)
      BY <1>2 DEF Early
    <3>2. Saved(g)' => Saved(g)
      BY <1>2 DEF Saved
    <3> HIDE DEF Early
    <3> QED
      BY <1>2, <2>1, <2>2, <2>3, <3>1, <3>2, OwnPhase DEF SideKept
  <2>5. SaveOK(g)'
    <3>1. ~(saga'.pc = "commitWait") /\ ~(saga'.pc \in Late) /\ ~Saved(g)
      BY <1>2, <2>1 DEF Late, Clean
    <3> QED
      BY <1>2, <2>1, <2>3, <3>1, OwnSave
  <2> QED
    BY <2>4, <2>5
<1> QED
  BY <1>1, <1>2, <1>3, <1>6, <1>8, <1>9, <1>10, <1>11, <1>12, <1>13, GoesOn

(* An event of the job is taken for what it is; anything else ends the job.  *)
LEMMA PollHolds ==
    ASSUME IInv, Poll PROVE IInv'
<1>1. PICK g0 : g0 = saga.gen
  OBVIOUS
<1>2. saga.pc = "poll" /\ rows' = rows /\ timeline' = timeline
  BY DEF Poll
<1>3. OfGeneration
  BY <1>2 DEF OfGeneration
<1>4. /\ TypeOK /\ AnalysesOK /\ SagaOK /\ WorkerOK /\ RefsOK /\ g0 \in Gens
      /\ \A g : In(g) <=> g = g0
      /\ \A g \in Gens : PhaseOK(g) /\ SaveOK(g)
      /\ worker.moving # None => worker.moving \in disk.durable
  BY <1>1, <1>3, HeldIs
<1>5. Uncommitted(g0) /\ ~saga.committed /\ host.job \in JobType /\ ~host.job.terminal
  BY <1>2, <1>4 DEF Uncommitted, SagaOK
<1>6. \/ /\ events # <<>> /\ Head(events) = Event("prepared", g0) /\ disk.job[g0] = "result"
         /\ host' = [host EXCEPT !.job.prepared = TRUE]
         /\ saga' = [saga EXCEPT !.pc = "prepared", !.result = disk.result[g0]]
         /\ events' = Tail(events) /\ worker' = worker /\ thread' = thread /\ cmds' = cmds
         /\ gens' = gens /\ disk' = disk
      \/ /\ events # <<>> /\ FinishJob
         /\ \E k \in {"failed", "commit_failed", "cancelled"} : Head(events) = Event(k, g0)
         /\ Finish("cancelled") \/ Finish("failed")
         /\ events' = Tail(events) /\ worker' = worker /\ thread' = thread /\ cmds' = cmds
      \/ EmergencyStop /\ Finish("failed")
  BY <1>1, EventIs DEF Poll, JobEvents, UnchangedWorker
<1>7. CASE /\ events # <<>> /\ Head(events) = Event("prepared", g0) /\ disk.job[g0] = "result"
           /\ host' = [host EXCEPT !.job.prepared = TRUE]
           /\ saga' = [saga EXCEPT !.pc = "prepared", !.result = disk.result[g0]]
           /\ events' = Tail(events) /\ worker' = worker /\ thread' = thread /\ cmds' = cmds
           /\ gens' = gens /\ disk' = disk
  <2>1. /\ WorkerOK' /\ events' \in Seq(EventType)
        /\ \A g \in Gens : SideKept(g) /\ (Quiet(g)' <=> Quiet(g))
        /\ \A k, g : (Pending(k, g)' <=> Pending(k, g)) /\ (Told(k, g)' => Told(k, g))
                     /\ (Running(g)' <=> Running(g))
    BY <1>4, <1>7, SideRead, Taken DEF TypeOK
  <2>2. ~Running(g0) /\ ~Pending("start", g0)
    <3>1. Told("prepared", g0)
      BY <1>4, <1>7, EventRead DEF TypeOK, Told
    <3> QED
      BY <1>4, <3>1, ToldIs DEF Answers
  <2>3. disk.result[g0] \in ResultType /\ AllOfContent(disk.result[g0].found)
    BY <1>4, <1>7 DEF AnalysesOK
  <2>4. /\ saga' \in SagaType /\ saga'.pc = "prepared" /\ saga'.gen = g0
        /\ saga'.result = disk.result[g0] /\ saga'.mats = saga.mats /\ ~saga'.committed
    <3> DEFINE result == disk.result[g0]
    <3>1. saga \in SagaType /\ result \in ResultType
      BY <1>4, <2>3 DEF TypeOK
    <3>2. saga' = [saga EXCEPT !.pc = "prepared", !.result = result]
      BY <1>7
    <3> HIDE DEF result
    <3>3. /\ saga' \in SagaType /\ saga'.pc = "prepared" /\ saga'.gen = g0
          /\ saga'.result = result /\ saga'.mats = saga.mats /\ ~saga'.committed
      BY <1>1, <1>5, <3>1, <3>2 DEF SagaType, SagaSteps
    <3> QED
      BY <3>3 DEF result
  <2>5. /\ host' \in [up : BOOLEAN, job : JobType \cup {None}]
        /\ host'.job \in JobType /\ ~host'.job.terminal
    <3> DEFINE job == [host.job EXCEPT !.prepared = TRUE]
    <3>1. job \in JobType /\ job.terminal = host.job.terminal
      BY <1>5 DEF JobType
    <3>2. host' = [host EXCEPT !.job = job] /\ host \in [up : BOOLEAN, job : JobType \cup {None}]
      BY <1>4, <1>7 DEF TypeOK
    <3> HIDE DEF job
    <3>3. host' \in [up : BOOLEAN, job : JobType \cup {None}] /\ host'.job = job
      BY <3>1, <3>2
    <3> QED
      BY <1>5, <3>1, <3>3
  <2>6. TypeOK'
    BY <1>2, <1>4, <1>7, <2>1, <2>4, <2>5 DEF TypeOK
  <2>7. OfGeneration'
    BY <2>4 DEF OfGeneration
  <2>8. SagaOK'
    BY <1>1, <1>3, <1>4, <1>7, <2>3, <2>4, <2>5 DEF SagaOK, Late, Resulted
  <2>9. RefsOK'
    BY <1>2, <1>4 DEF RefsOK, Referenced
  <2>10. AnalysesOK'
    BY <1>2, <1>4, <1>7, <2>3, <2>4 DEF AnalysesOK, AllOfContent, Compared, AnalysisIsOfContent
  <2>11. \A g \in Gens : DiskKept(g) /\ TimelineKept(g)
    BY <1>2, <1>7, DiskRests, TimelineRests
  <2>12. ASSUME NEW g \in Gens, g = g0 PROVE PhaseOK(g)' /\ SaveOK(g)'
    <3>1. In(g) /\ In(g)' /\ AtWork(g)' /\ Uncommitted(g) /\ ~Forgetting(g) /\ Clean(g)
      <4>1. In(g) /\ In(g)' /\ AtWork(g)'
        BY <1>4, <2>4, <2>7, <2>12 DEF In, AtWork
      <4>2. Uncommitted(g)
        BY <1>5, <2>12
      <4> QED
        BY <1>4, <1>5, <4>1, <4>2, NotForgetting DEF PhaseOK
    <3>2. ~Forgetting(g)'
      BY <2>1, <2>4, <3>1 DEF Forgetting
    <3>3. PhaseOK(g)'
      <4>1. ~(saga'.pc \in Early) /\ saga'.result = disk.result[g] /\ ~Running(g) /\ ~Pending("start", g)
        BY <2>2, <2>4, <2>12 DEF Early
      <4>2. Saved(g)' => Saved(g)
        BY <1>2 DEF Saved
      <4>3. SideKept(g) /\ DiskKept(g)
        BY <2>1, <2>11
      <4> HIDE DEF Early
      <4> QED
        BY <1>7, <2>4, <3>1, <3>2, <4>1, <4>2, <4>3, OwnPhase DEF SideKept
    <3>4. SaveOK(g)'
      <4>1. ~(saga'.pc = "commitWait") /\ ~(saga'.pc \in Late) /\ ~Saved(g)
        BY <2>4, <3>1 DEF Late, Clean
      <4> QED
        BY <1>2, <1>7, <2>11, <3>1, <4>1, OwnSave
    <3> QED
      BY <3>3, <3>4
  <2> QED
    BY <1>1, <1>2, <1>3, <1>7, <2>1, <2>4, <2>6, <2>8, <2>9, <2>10, <2>11, <2>12, GoesOn
<1>8. CASE /\ events # <<>> /\ FinishJob
           /\ \E k \in {"failed", "commit_failed", "cancelled"} : Head(events) = Event(k, g0)
           /\ Finish("cancelled") \/ Finish("failed")
           /\ events' = Tail(events) /\ worker' = worker /\ thread' = thread /\ cmds' = cmds
  <2>1. /\ host' \in [up : BOOLEAN, job : JobType \cup {None}]
        /\ disk' = [disk EXCEPT !.job[saga.gen] = "absent"] /\ disk \in DiskType
    BY <1>1, <1>4, <1>8, FinishJobIs DEF TypeOK
  <2>2. disk'.durable = disk.durable /\ disk'.job[saga.gen] = "absent"
    BY <1>1, <1>4, <2>1, JobRemoved
  <2>3. /\ WorkerOK' /\ events' \in Seq(EventType)
        /\ \A g \in Gens : SideKept(g) /\ (Quiet(g)' <=> Quiet(g))
        /\ \A k, g : Pending(k, g)' <=> Pending(k, g)
    BY <1>4, <1>8, <2>2, SideRead, Taken DEF TypeOK
  <2>4. Quiet(g0)
    <3>1. PICK k \in {"failed", "commit_failed", "cancelled"} : Told(k, g0)
      BY <1>4, <1>8, EventRead DEF TypeOK, Told
    <3> QED
      BY <1>4, <3>1, ToldIs DEF Ends
  <2>5. \A g \in Gens : g = saga.gen => Quiet(g)'
    BY <1>1, <2>3, <2>4
  <2>6. worker' \in WorkerType /\ thread' \in {thread, NoThread} /\ cmds' \in Seq(CommandType)
    BY <1>4, <1>8 DEF TypeOK
  <2> QED
    BY <1>1, <1>2, <1>3, <1>5, <1>8, <2>1, <2>2, <2>3, <2>5, <2>6, FinishedInVain
<1>9. CASE EmergencyStop /\ Finish("failed")
  BY <1>2, <1>3, <1>4, <1>9, EmergencyIs, FinishedInVain
<1> QED
  BY <1>6, <1>7, <1>8, <1>9

------------------------------------------------------------------------------
(* The saga of one generation: after the result *)

(* The saga goes on; files, timeline and the worker are as they were.        *)
LEMMA SagaMoves ==
    ASSUME IInv, OfGeneration, saga.pc \notin Early,
           OfGeneration', saga'.pc \notin Early, SagaOK', saga' \in SagaType,
           saga'.gen = saga.gen, saga'.rev = saga.rev, saga'.mats = saga.mats,
           saga'.result = saga.result,
           saga'.pc \in Resulted => saga.pc \in Resulted,
           saga'.pc \in {"prepared", "written", "commitWait"} =>
               saga.pc \in {"prepared", "written", "commitWait"},
           timeline' = timeline, gens' = gens, worker' = worker, thread' = thread,
           disk' = disk \/ disk' = [disk EXCEPT !.job[saga.gen] = "absent"],
           rows' \in [Library -> Row \cup {None}], AnalysisIsOfContent', RefsOK',
           host' \in [up : BOOLEAN, job : JobType \cup {None}], WorkerOK',
           cmds' \in Seq(CommandType), events' \in Seq(EventType),
           \A g \in Gens : g # saga.gen =>
               /\ SideKept(g) /\ rows'[g] = rows[g]
               /\ Pending("forget", g)' => Pending("forget", g),
           \A g \in Gens : Pending("start", g)' => Pending("start", g),
           \A k, g : Told(k, g)' => Told(k, g),
           \A g \in Gens : g = saga.gen =>
               /\ Uncommitted(g)' => Uncommitted(g) /\ (Pending("commit", g)' => Pending("commit", g))
               /\ AtWork(g)' \/ Quiet(g)
               /\ Forgetting(g)' => saga'.committed /\ rows'[g] = None
               /\ saga'.pc = "finish" \/ (saga'.pc = "undo" /\ ~saga'.committed /\ saga'.after = "finish") =>
                      (host'.job.terminal => Quiet(g))
               /\ \/ ~Saved(g)
                  \/ saga.committed /\ saga'.committed
                  \/ /\ saga'.committed
                     /\ \A i \in 1..Len(timeline) : timeline[i].by = g => i < Len(timeline)
               /\ saga'.pc = "commitWait" => ~Told("succeeded", g)
               /\ saga'.pc \in Late /\ saga'.result.narrated => Resolves(g)
    PROVE  IInv'
<1>1. TypeOK /\ AnalysesOK /\ \A g : In(g) <=> g = saga.gen
  BY HeldIs
<1>2. /\ disk' \in DiskType /\ disk'.result = disk.result
      /\ \A g \in Gens : DiskKept(g) /\ (disk'.job[g] = "result" => disk.job[g] = "result")
  <2>1. disk \in DiskType /\ saga.gen \in Gens
    BY HeldIs DEF TypeOK
  <2>2. CASE disk' = disk
    BY <2>1, <2>2, DiskRests
  <2>3. CASE disk' = [disk EXCEPT !.job[saga.gen] = "absent"]
    BY <2>1, <2>3, JobRemoved DEF DiskKept
  <2> QED
    BY <2>2, <2>3
<1>3. TypeOK'
  BY <1>2, <1>1 DEF TypeOK
<1>4. AnalysesOK'
  <2>1. AllOfContent(saga'.mats)
    BY <1>1 DEF AnalysesOK, AllOfContent
  <2>2. Compared'
    BY <1>1 DEF AnalysesOK, Compared
  <2>3. \A g \in Gens : disk'.job[g] = "result" =>
            disk'.result[g] \in ResultType /\ AllOfContent(disk'.result[g].found)
    BY <1>2, <1>1 DEF AnalysesOK
  <2>4. saga'.pc \in Resulted => AllOfContent(saga'.result.found)
    BY <1>1 DEF AnalysesOK
  <2> QED
    BY <2>1, <2>2, <2>3, <2>4 DEF AnalysesOK, AllOfContent
<1>5. \A g \in Gens : DiskKept(g) /\ TimelineKept(g)
  BY <1>2, TimelineRests
<1>6. ASSUME NEW g \in Gens, g = saga.gen PROVE PhaseOK(g)' /\ SaveOK(g)'
  <2>1. In(g) /\ In(g)'
    BY <1>6 DEF In
  <2>2. Running(g)' <=> Running(g)
    BY DEF Running
  <2>3. Quiet(g) => Quiet(g)'
    BY <2>2 DEF Quiet
  <2>4. (Saved(g)' => Saved(g)) /\ worker'.moving = worker.moving
    BY DEF Saved
  <2>5. DiskKept(g)
    BY <1>5
  <2>6. /\ Uncommitted(g)' => Uncommitted(g) /\ (Pending("commit", g)' => Pending("commit", g))
        /\ AtWork(g)' \/ Quiet(g)
        /\ Forgetting(g)' => saga'.committed /\ rows'[g] = None
        /\ saga'.pc = "finish" \/ (saga'.pc = "undo" /\ ~saga'.committed /\ saga'.after = "finish") =>
               (host'.job.terminal => Quiet(g))
    BY <1>6
  <2>7. PhaseOK(g)'
    <3>1. Pending("start", g)' => Pending("start", g)
      OBVIOUS
    <3> HIDE DEF Early
    <3> QED
      BY <2>1, <2>2, <2>3, <2>4, <2>5, <2>6, <3>1, OwnPhase
  <2>8. SaveOK(g)'
    <3>1. saga'.pc = "commitWait" => ~Told("succeeded", g)'
      BY <1>6
    <3>2. saga'.pc \in Late /\ saga'.result.narrated => Resolves(g)
      BY <1>6
    <3>3. \/ ~Saved(g)
          \/ saga.committed /\ saga'.committed
          \/ /\ saga'.committed
             /\ \A i \in 1..Len(timeline) : timeline[i].by = g => i < Len(timeline)
      BY <1>6
    <3> HIDE DEF Late
    <3> QED
      BY <2>1, <2>5, <3>1, <3>2, <3>3, OwnSave
  <2> QED
    BY <2>7, <2>8
<1> QED
  BY <1>3, <1>4, <1>5, <1>6, GoesOn

(* The rows are as they were.                                                *)
LEMMA RowsRest ==
    ASSUME IInv, rows' = rows, timeline' = timeline
    PROVE  /\ rows' \in [Library -> Row \cup {None}] /\ AnalysisIsOfContent' /\ RefsOK'
           /\ \A g \in Gens : rows'[g] = rows[g]
<1>1. RefsOK'
  BY DEF IInv, RefsOK, Referenced
<1> QED
  BY <1>1 DEF IInv, TypeOK, AnalysesOK, AnalysisIsOfContent

(* The saga goes to another phase.                                           *)
LEMMA GotoIs ==
    ASSUME saga \in SagaType, NEW pc \in SagaSteps, Goto(pc)
    PROVE  /\ saga' \in SagaType /\ saga'.pc = pc /\ saga'.gen = saga.gen /\ saga'.rev = saga.rev
           /\ saga'.mats = saga.mats /\ saga'.result = saga.result
           /\ saga'.committed = saga.committed /\ saga'.after = saga.after /\ saga'.end = saga.end
BY DEF Goto, SagaType

(* The saga turns to undo what was done.                                     *)
LEMMA CompensateIs ==
    ASSUME saga \in SagaType, NEW committed \in BOOLEAN, NEW after \in {"abort", "finish", "end"},
           NEW end \in {"failed", "cancelled"}, Compensate(committed, after, end)
    PROVE  /\ saga' \in SagaType /\ saga'.pc = "undo" /\ saga'.gen = saga.gen /\ saga'.rev = saga.rev
           /\ saga'.mats = saga.mats /\ saga'.result = saga.result
           /\ saga'.committed = committed /\ saga'.after = after /\ saga'.end = end
BY DEF Compensate, SagaType, SagaSteps

(* The saga stops with the job still staged.                                 *)
LEMMA AbortWithIs ==
    ASSUME saga \in SagaType, NEW end \in {"failed", "cancelled"}, AbortWith(end)
    PROVE  /\ saga' \in SagaType /\ saga'.pc = "abort" /\ saga'.gen = saga.gen /\ saga'.rev = saga.rev
           /\ saga'.mats = saga.mats /\ saga'.result = saga.result
           /\ saga'.committed = saga.committed /\ saga'.after = saga.after /\ saga'.end = end
BY DEF AbortWith, SagaType, SagaSteps

(* The phases of the generation the gate is held for.                        *)
LEMMA PhaseIs ==
    ASSUME IInv, OfGeneration, saga.pc \notin Early, NEW g \in Gens, g = saga.gen
    PROVE  /\ In(g) /\ PhaseOK(g) /\ SaveOK(g) /\ gens[g].status \in {"running", "cancelling"}
           /\ ~saga.committed => ~Forgetting(g)
           /\ AtWork(g) <=> \/ saga.pc \in {"poll", "prepared", "written", "commitWait", "abort",
                                             "abortWait", "finish"}
                            \/ saga.pc = "undo" /\ ~saga.committed
           /\ ~AtWork(g) => Quiet(g)
           /\ Uncommitted(g) <=> \/ saga.pc \in {"poll", "prepared", "written", "abort", "abortWait"}
                                 \/ saga.pc = "undo" /\ ~saga.committed /\ saga.after = "abort"
           /\ Uncommitted(g) => Clean(g) /\ ~Saved(g)
           /\ Saved(g) => saga.pc = "confirm" \/ saga.committed
<1>1. In(g) /\ PhaseOK(g) /\ SaveOK(g) /\ gens[g].status \in {"running", "cancelling"}
  BY HeldIs
<1>2. ~saga.committed => ~Forgetting(g)
  BY <1>1, NotForgetting
<1>3. AtWork(g) <=> \/ saga.pc \in {"poll", "prepared", "written", "commitWait", "abort",
                                     "abortWait", "finish"}
                    \/ saga.pc = "undo" /\ ~saga.committed
  BY <1>1 DEF AtWork
<1>4. Uncommitted(g) <=> \/ saga.pc \in {"poll", "prepared", "written", "abort", "abortWait"}
                         \/ saga.pc = "undo" /\ ~saga.committed /\ saga.after = "abort"
  BY <1>1 DEF Uncommitted, Unstarted
<1>5. Uncommitted(g) => Clean(g) /\ ~Saved(g)
  BY <1>1 DEF PhaseOK, Clean
<1>6. Saved(g) => saga.pc = "confirm" \/ saga.committed
  BY <1>1 DEF SaveOK, Saved
<1>7. ~AtWork(g) => Quiet(g)
  BY <1>1 DEF PhaseOK
<1> QED
  BY <1>1, <1>2, <1>3, <1>4, <1>5, <1>6, <1>7

(* Those it has after a step.                                                *)
LEMMA NextPhaseIs ==
    ASSUME IInv, OfGeneration, saga.pc \notin Early, OfGeneration', saga'.pc \notin Early,
           saga'.gen = saga.gen, gens' = gens, NEW g \in Gens, g = saga.gen
    PROVE  /\ AtWork(g)' <=> \/ saga'.pc \in {"poll", "prepared", "written", "commitWait", "abort",
                                              "abortWait", "finish"}
                             \/ saga'.pc = "undo" /\ ~saga'.committed
           /\ Uncommitted(g)' <=> \/ saga'.pc \in {"poll", "prepared", "written", "abort", "abortWait"}
                                  \/ saga'.pc = "undo" /\ ~saga'.committed /\ saga'.after = "abort"
           /\ Forgetting(g)' <=> Pending("forget", g)' \/ saga'.pc \in {"forget", "forgetWait"}
           /\ Forgetting(g) <=> Pending("forget", g) \/ saga.pc \in {"forget", "forgetWait"}
<1>1. In(g)' /\ gens'[g].status \in {"running", "cancelling"}
  BY PhaseIs DEF In
<1>2. AtWork(g)' <=> \/ saga'.pc \in {"poll", "prepared", "written", "commitWait", "abort",
                                      "abortWait", "finish"}
                     \/ saga'.pc = "undo" /\ ~saga'.committed
  BY <1>1 DEF AtWork
<1>3. Uncommitted(g)' <=> \/ saga'.pc \in {"poll", "prepared", "written", "abort", "abortWait"}
                          \/ saga'.pc = "undo" /\ ~saga'.committed /\ saga'.after = "abort"
  BY <1>1 DEF Uncommitted, Unstarted
<1>4. /\ Forgetting(g)' <=> Pending("forget", g)' \/ saga'.pc \in {"forget", "forgetWait"}
      /\ Forgetting(g) <=> Pending("forget", g) \/ saga.pc \in {"forget", "forgetWait"}
  BY DEF Forgetting
<1> QED
  BY <1>2, <1>3, <1>4

(* The timeline is compared with the one the generation started from.        *)
LEMMA ReadLatestHolds ==
    ASSUME IInv, ReadLatest PROVE IInv'
<1>1. /\ saga.pc = "latest" /\ rows' = rows /\ timeline' = timeline /\ gens' = gens
      /\ host' = host /\ worker' = worker /\ thread' = thread /\ cmds' = cmds /\ events' = events
      /\ disk' = disk
      /\ Goto("save") \/ Compensate(TRUE, "end", "failed")
  BY DEF ReadLatest, UnchangedHost
<1>2. OfGeneration /\ saga.pc \notin Early
  BY <1>1 DEF OfGeneration, Late, Early
<1>3. saga \in SagaType /\ SagaOK /\ ~saga.committed /\ saga.result \in ResultType
  BY <1>1, <1>2, HeldIs DEF SagaOK, Resulted, Late
<1>4. /\ saga' \in SagaType /\ saga'.gen = saga.gen /\ saga'.rev = saga.rev
      /\ saga'.mats = saga.mats /\ saga'.result = saga.result
      /\ \/ saga'.pc = "save" /\ ~saga'.committed
         \/ saga'.pc = "undo" /\ saga'.committed /\ saga'.after = "end" /\ saga'.end = "failed"
  <2>1. "save" \in SagaSteps
    BY DEF SagaSteps
  <2> QED
    BY <1>1, <1>3, <2>1, GotoIs, CompensateIs
<1>5. OfGeneration' /\ saga'.pc \notin Early
  BY <1>4 DEF OfGeneration, Late, Early
<1>6. SagaOK'
  BY <1>1, <1>2, <1>3, <1>4 DEF SagaOK, Resulted, Late
<1>7. \A g \in Gens : g = saga.gen =>
          /\ ~Uncommitted(g)' /\ Quiet(g) /\ ~Forgetting(g)' /\ ~Saved(g)
          /\ saga.result.narrated => Resolves(g)
  <2> SUFFICES ASSUME NEW g \in Gens, g = saga.gen
               PROVE  /\ ~Uncommitted(g)' /\ Quiet(g) /\ ~Forgetting(g)' /\ ~Saved(g)
                      /\ saga.result.narrated => Resolves(g)
    OBVIOUS
  <2>1. Quiet(g) /\ ~Forgetting(g) /\ ~Saved(g) /\ In(g) /\ SaveOK(g)
    BY <1>1, <1>2, <1>3, PhaseIs
  <2>2. ~Uncommitted(g)' /\ ~Forgetting(g)'
    BY <1>1, <1>2, <1>4, <1>5, <2>1, NextPhaseIs, HostRests
  <2>3. saga.result.narrated => Resolves(g)
    BY <1>1, <2>1 DEF SaveOK, Late
  <2> QED
    BY <2>1, <2>2, <2>3
<1>8. saga'.pc # "finish" /\ ~(saga'.pc = "undo" /\ ~saga'.committed) /\ saga'.pc # "commitWait"
      /\ ~(saga'.pc \in {"prepared", "written", "commitWait"}) /\ saga.pc \in Resulted
  BY <1>1, <1>4 DEF Resulted, Late
<1> QED
  BY <1>1, <1>2, <1>4, <1>5, <1>6, <1>7, <1>8, RowsRest, HostRests, SagaMoves

(* The last point where a cancellation is honoured.                          *)
LEMMA SendCommitHolds ==
    ASSUME IInv, SendCommit PROVE IInv'
<1>1. PICK g0 : g0 = saga.gen
  OBVIOUS
<1>2. /\ saga.pc = "written" /\ rows' = rows /\ timeline' = timeline /\ gens' = gens
      /\ host' = host /\ worker' = worker /\ thread' = thread /\ events' = events /\ disk' = disk
      /\ \/ /\ Compensate(FALSE, "abort", "cancelled") \/ Compensate(FALSE, "finish", "failed")
            /\ cmds' = cmds
         \/ Goto("commitWait") /\ cmds' = Append(cmds, Command("commit", g0))
  BY <1>1 DEF SendCommit
<1>3. OfGeneration /\ saga.pc \notin Early
  BY <1>2 DEF OfGeneration, Early
<1>4. /\ TypeOK /\ saga \in SagaType /\ SagaOK /\ WorkerOK /\ ~saga.committed /\ g0 \in Gens
      /\ saga.result \in ResultType /\ host.job \in JobType /\ ~host.job.terminal
      /\ worker.moving # None => worker.moving \in disk'.durable
  BY <1>1, <1>2, <1>3, HeldIs DEF SagaOK, Resulted
<1>5. /\ saga' \in SagaType /\ saga'.gen = saga.gen /\ saga'.rev = saga.rev
      /\ saga'.mats = saga.mats /\ saga'.result = saga.result /\ ~saga'.committed
      /\ \/ /\ saga'.pc = "undo" /\ cmds' = cmds
            /\ \/ saga'.after = "abort" /\ saga'.end = "cancelled"
               \/ saga'.after = "finish" /\ saga'.end = "failed"
         \/ saga'.pc = "commitWait" /\ cmds' = Append(cmds, Command("commit", g0))
  <2>1. "commitWait" \in SagaSteps
    BY DEF SagaSteps
  <2> QED
    BY <1>2, <1>4, <2>1, GotoIs, CompensateIs
<1>6. OfGeneration' /\ saga'.pc \notin Early /\ saga'.pc \notin Late
  BY <1>5 DEF OfGeneration, Early, Late
<1>7. SagaOK'
  BY <1>2, <1>3, <1>4, <1>5 DEF SagaOK, Resulted, Late
<1>8. /\ WorkerOK' /\ cmds' \in Seq(CommandType)
      /\ \A g \in Gens : g # saga.gen => SideKept(g)
      /\ \A k, g : Told(k, g)' => Told(k, g)
      /\ \A k, g : Pending(k, g)' => Pending(k, g) \/ (k = "commit" /\ saga'.pc = "commitWait")
  <2>1. CASE cmds' = cmds
    BY <1>2, <1>4, <2>1, SideRests DEF TypeOK
  <2>2. CASE saga'.pc = "commitWait" /\ cmds' = Append(cmds, Command("commit", g0))
    <3>1. Command("commit", g0) \in CommandType
      BY <1>4 DEF Command, CommandType
    <3> QED
      BY <1>1, <1>2, <1>4, <2>2, <3>1, SideSent DEF TypeOK
  <2> QED
    BY <1>5, <2>1, <2>2
<1>9. ASSUME NEW g \in Gens, g = saga.gen
      PROVE  /\ Uncommitted(g)' => Uncommitted(g) /\ (Pending("commit", g)' => Pending("commit", g))
             /\ AtWork(g)' /\ ~Forgetting(g)' /\ ~Saved(g) /\ ~Told("succeeded", g)
  <2>1. Uncommitted(g) /\ ~Saved(g) /\ PhaseOK(g) /\ ~Forgetting(g)
    BY <1>2, <1>3, <1>4, <1>9, PhaseIs
  <2>2. /\ Uncommitted(g)' => saga'.pc # "commitWait"
        /\ AtWork(g)' /\ ~Forgetting(g)'
    BY <1>2, <1>3, <1>5, <1>6, <1>8, <1>9, <2>1, NextPhaseIs
  <2> QED
    BY <1>8, <2>1, <2>2 DEF PhaseOK
<1>10. saga'.pc # "finish" /\ ~host'.job.terminal /\ saga.pc \in Resulted
       /\ saga.pc \in {"prepared", "written", "commitWait"}
  BY <1>2, <1>4, <1>5 DEF Resulted
<1>11. \A g \in Gens : Pending("start", g)' => Pending("start", g)
  BY <1>8
<1>12. \A g \in Gens : Pending("forget", g)' => Pending("forget", g)
  BY <1>8
<1> QED
  BY <1>2, <1>3, <1>4, <1>5, <1>6, <1>7, <1>8, <1>9, <1>10, <1>11, <1>12, RowsRest, SagaMoves DEF TypeOK

(* The next line decides: only the job's own word is taken for a result.     *)
LEMMA CommitAnswerHolds ==
    ASSUME IInv, CommitAnswer PROVE IInv'
<1>1. PICK g0 : g0 = saga.gen
  OBVIOUS
<1> DEFINE failed == (Head(events) = Event("commit_failed", g0))
           told == [host.job EXCEPT !.terminal = failed]
<1>2. /\ saga.pc = "commitWait" /\ rows' = rows /\ timeline' = timeline /\ gens' = gens
      /\ worker' = worker /\ thread' = thread /\ cmds' = cmds
      /\ \/ /\ events # <<>> /\ Head(events) = Event("succeeded", g0) /\ events' = Tail(events)
            /\ FinishJob /\ Goto("latest")
         \/ /\ Compensate(FALSE, "finish", "failed") /\ disk' = disk
            /\ \/ /\ events # <<>> /\ events' = Tail(events)
                  /\ host' = [host EXCEPT !.job.terminal = failed]
               \/ host' = host /\ events' = events
  BY <1>1 DEF CommitAnswer, UnchangedWorker
<1>3. OfGeneration /\ saga.pc \notin Early
  BY <1>2 DEF OfGeneration, Early
<1>4. /\ TypeOK /\ saga \in SagaType /\ SagaOK /\ WorkerOK /\ ~saga.committed /\ g0 \in Gens
      /\ saga.result \in ResultType /\ host.job \in JobType /\ ~host.job.terminal
      /\ worker.moving # None => worker.moving \in disk.durable
      /\ disk \in DiskType /\ events \in Seq(EventType)
  BY <1>1, <1>2, <1>3, HeldIs DEF SagaOK, Resulted, TypeOK
<1>5. /\ saga' \in SagaType /\ saga'.gen = saga.gen /\ saga'.rev = saga.rev
      /\ saga'.mats = saga.mats /\ saga'.result = saga.result /\ ~saga'.committed
      /\ \/ saga'.pc = "undo" /\ saga'.after = "finish" /\ saga'.end = "failed"
         \/ saga'.pc = "latest"
  <2>1. "latest" \in SagaSteps
    BY DEF SagaSteps
  <2> QED
    BY <1>2, <1>4, <2>1, GotoIs, CompensateIs
<1>6. OfGeneration' /\ saga'.pc \notin Early
  BY <1>5 DEF OfGeneration, Early, Late
<1>7. disk' = disk \/ disk' = [disk EXCEPT !.job[saga.gen] = "absent"]
  BY <1>2 DEF FinishJob
<1>8. disk'.durable = disk.durable
  BY <1>1, <1>4, <1>7, JobRemoved
<1>9. /\ WorkerOK' /\ events' \in Seq(EventType) /\ \A g \in Gens : SideKept(g)
      /\ \A k, g : (Pending(k, g)' => Pending(k, g)) /\ (Told(k, g)' => Told(k, g))
  <2>1. CASE events # <<>> /\ events' = Tail(events)
    BY <1>2, <1>4, <1>8, <2>1, SideRead, Taken
  <2>2. CASE events' = events
    BY <1>2, <1>4, <1>8, <2>2, SideRests
  <2> QED
    BY <1>2, <2>1, <2>2
<1>10. CASE /\ events # <<>> /\ Head(events) = Event("succeeded", g0) /\ events' = Tail(events)
            /\ FinishJob /\ Goto("latest")
  <2>1. saga'.pc = "latest"
    BY <1>4, <1>10, GotoIs DEF SagaSteps
  <2>2. host' \in [up : BOOLEAN, job : JobType \cup {None}]
    BY <1>1, <1>4, <1>10, FinishJobIs
  <2>3. SagaOK'
    BY <1>2, <1>3, <1>4, <1>5, <2>1 DEF SagaOK, Resulted, Late
  <2>4. Told("succeeded", g0) /\ Quiet(g0)
    <3>1. Told("succeeded", g0)
      BY <1>4, <1>10, EventRead DEF Told
    <3> QED
      BY <1>4, <3>1, ToldIs DEF Ends
  <2>5. ASSUME NEW g \in Gens, g = saga.gen
        PROVE  /\ ~Uncommitted(g)' /\ ~AtWork(g)' /\ Quiet(g) /\ ~Forgetting(g)' /\ ~Saved(g)
               /\ saga'.result.narrated => Resolves(g)
    <3>1. PhaseOK(g) /\ SaveOK(g) /\ ~Saved(g) /\ ~Forgetting(g) /\ In(g)
      BY <1>2, <1>3, <1>4, <2>5, PhaseIs
    <3>2. ~Uncommitted(g)' /\ ~AtWork(g)' /\ ~Forgetting(g)'
      BY <1>2, <1>3, <1>5, <1>6, <1>9, <2>1, <2>5, <3>1, NextPhaseIs
    <3>3. saga'.result.narrated => Resolves(g)
      BY <1>1, <1>2, <1>5, <2>4, <2>5, <3>1 DEF SaveOK
    <3>4. Quiet(g)
      BY <1>1, <2>4, <2>5
    <3> QED
      BY <3>1, <3>2, <3>3, <3>4
  <2>6. saga.pc \in Resulted
    BY <1>2 DEF Resulted
  <2> QED
    BY <1>2, <1>3, <1>4, <1>5, <1>6, <1>7, <1>9, <2>1, <2>2, <2>3, <2>5, <2>6, RowsRest, SagaMoves
       DEF TypeOK
<1>11. CASE /\ Compensate(FALSE, "finish", "failed") /\ disk' = disk
            /\ \/ /\ events # <<>> /\ events' = Tail(events)
                  /\ host' = [host EXCEPT !.job.terminal = failed]
               \/ host' = host /\ events' = events
  <2>1. saga'.pc = "undo" /\ saga'.after = "finish" /\ saga'.end = "failed"
    BY <1>4, <1>11, CompensateIs
  <2>2. /\ host' \in [up : BOOLEAN, job : JobType \cup {None}] /\ host'.job \in JobType
        /\ host'.job.terminal => events # <<>> /\ events' = Tail(events) /\ failed
    <3>1. told \in JobType /\ told.terminal = failed
      <4>1. failed \in BOOLEAN
        OBVIOUS
      <4> HIDE DEF failed
      <4> QED
        BY <1>4, <4>1 DEF JobType
    <3>2. host \in [up : BOOLEAN, job : JobType \cup {None}]
      BY <1>4 DEF TypeOK
    <3>3. CASE host' = host /\ events' = events
      BY <1>4, <3>2, <3>3
    <3>4. CASE /\ events # <<>> /\ events' = Tail(events)
               /\ host' = [host EXCEPT !.job.terminal = failed]
      <4>1. host' = [host EXCEPT !.job = told]
        BY <3>2, <3>4
      <4> HIDE DEF told
      <4>2. host' \in [up : BOOLEAN, job : JobType \cup {None}] /\ host'.job = told
        BY <3>1, <3>2, <4>1
      <4> QED
        BY <3>1, <3>4, <4>2
    <3> QED
      BY <1>11, <3>3, <3>4
  <2>3. SagaOK'
    BY <1>2, <1>3, <1>4, <1>5, <2>1, <2>2 DEF SagaOK, Resulted, Late
  <2>4. host'.job.terminal => Quiet(g0)
    <3> SUFFICES ASSUME host'.job.terminal PROVE Quiet(g0)
      OBVIOUS
    <3>1. Told("commit_failed", g0)
      BY <1>4, <2>2, EventRead DEF Told
    <3> QED
      BY <1>4, <3>1, ToldIs DEF Ends
  <2>5. ASSUME NEW g \in Gens, g = saga.gen
        PROVE  /\ ~Uncommitted(g)' /\ AtWork(g)' /\ ~Forgetting(g)' /\ ~Saved(g)
               /\ host'.job.terminal => Quiet(g)
    <3>1. ~Saved(g) /\ ~Forgetting(g)
      BY <1>2, <1>3, <1>4, <2>5, PhaseIs
    <3>2. ~Uncommitted(g)' /\ AtWork(g)' /\ ~Forgetting(g)'
      BY <1>2, <1>3, <1>5, <1>6, <1>9, <2>1, <2>5, <3>1, NextPhaseIs
    <3>3. host'.job.terminal => Quiet(g)
      BY <1>1, <2>4, <2>5
    <3> QED
      BY <3>1, <3>2, <3>3
  <2>6. saga.pc \in Resulted /\ saga'.pc \notin Late
    BY <1>2, <2>1 DEF Resulted, Late
  <2> QED
    BY <1>2, <1>3, <1>4, <1>5, <1>6, <1>9, <1>11, <2>1, <2>2, <2>3, <2>5, <2>6, RowsRest, SagaMoves
       DEF TypeOK
<1> QED
  BY <1>2, <1>10, <1>11

(* The job is killed with the worker.                                        *)
LEMMA EmergencyEnds ==
    ASSUME IInv, OfGeneration, saga.pc \notin Early, rows' = rows, timeline' = timeline,
           NEW status \in {"failed", "cancelled"}, Finish(status), EmergencyStop,
           status = "cancelled" => saga.pc \in {"abort", "abortWait"}
    PROVE  IInv'
<1>1. TypeOK /\ saga.gen \in Gens /\ disk \in DiskType
  BY HeldIs DEF TypeOK
<1>2. disk' = [disk EXCEPT !.job[saga.gen] = "absent"]
  BY DEF EmergencyStop
<1>3. disk'.job[saga.gen] = "absent"
  BY <1>1, <1>2, JobRemoved
<1>4. saga.pc \in {"abort", "abortWait"} => Uncommitted(saga.gen)
  BY <1>1, PhaseIs
<1> QED
  BY <1>1, <1>2, <1>3, <1>4, EmergencyIs, FinishedInVain

(* The job is closed by its own last word.                                   *)
LEMMA JobEnds ==
    ASSUME IInv, OfGeneration, saga.pc \notin Early, rows' = rows, timeline' = timeline,
           NEW status \in {"failed", "cancelled"}, Finish(status), FinishJob,
           UNCHANGED <<worker, thread, cmds>>,
           (events # <<>> /\ events' = Tail(events)) \/ events' = events,
           status = "cancelled" => saga.pc \in {"abort", "abortWait"},
           Quiet(saga.gen)
    PROVE  IInv'
<1>1. /\ TypeOK /\ WorkerOK /\ saga.gen \in Gens /\ disk \in DiskType /\ events \in Seq(EventType)
      /\ worker.moving # None => worker.moving \in disk.durable
  BY HeldIs DEF TypeOK
<1>2. /\ host' \in [up : BOOLEAN, job : JobType \cup {None}]
      /\ disk' = [disk EXCEPT !.job[saga.gen] = "absent"]
  BY <1>1, FinishJobIs
<1>3. disk'.durable = disk.durable /\ disk'.job[saga.gen] = "absent"
  BY <1>1, <1>2, JobRemoved
<1>4. /\ WorkerOK' /\ events' \in Seq(EventType)
      /\ \A g \in Gens : SideKept(g) /\ (Quiet(g)' <=> Quiet(g))
      /\ \A k, g : Pending(k, g)' <=> Pending(k, g)
  <2>1. CASE events # <<>> /\ events' = Tail(events)
    BY <1>1, <1>3, <2>1, SideRead, Taken
  <2>2. CASE events' = events
    BY <1>1, <1>3, <2>2, SideRests
  <2> QED
    BY <2>1, <2>2
<1>5. \A g \in Gens : g = saga.gen => Quiet(g)'
  BY <1>4
<1>6. worker' \in WorkerType /\ thread' \in {thread, NoThread} /\ cmds' \in Seq(CommandType)
  BY <1>1 DEF TypeOK
<1>7. saga.pc \in {"abort", "abortWait"} => Uncommitted(saga.gen)
  BY <1>1, PhaseIs
<1> QED
  BY <1>1, <1>2, <1>3, <1>4, <1>5, <1>6, <1>7, FinishedInVain

(* The staged job is to be aborted.                                          *)
LEMMA SendAbortHolds ==
    ASSUME IInv, SendAbort PROVE IInv'
<1>1. PICK g0 : g0 = saga.gen
  OBVIOUS
<1>2. /\ saga.pc = "abort" /\ rows' = rows /\ timeline' = timeline
      /\ \/ EmergencyStop /\ Finish(saga.end)
         \/ /\ cmds' = Append(cmds, Command("abort", g0)) /\ Goto("abortWait")
            /\ UNCHANGED <<gens, host, worker, thread, events, disk>>
  BY <1>1 DEF SendAbort
<1>3. OfGeneration /\ saga.pc \notin Early
  BY <1>2 DEF OfGeneration, Early
<1>4. /\ TypeOK /\ saga \in SagaType /\ SagaOK /\ WorkerOK /\ ~saga.committed /\ g0 \in Gens
      /\ saga.end \in {"failed", "cancelled"}
      /\ worker.moving # None => worker.moving \in disk.durable
  BY <1>1, <1>2, <1>3, HeldIs DEF SagaOK
<1>5. CASE EmergencyStop /\ Finish(saga.end)
  BY <1>2, <1>3, <1>4, <1>5, EmergencyEnds
<1>6. CASE /\ cmds' = Append(cmds, Command("abort", g0)) /\ Goto("abortWait")
           /\ UNCHANGED <<gens, host, worker, thread, events, disk>>
  <2>1. /\ saga' \in SagaType /\ saga'.pc = "abortWait" /\ saga'.gen = saga.gen /\ saga'.rev = saga.rev
        /\ saga'.mats = saga.mats /\ saga'.result = saga.result /\ ~saga'.committed
        /\ saga'.end = saga.end
    <3>1. "abortWait" \in SagaSteps
      BY DEF SagaSteps
    <3> QED
      BY <1>4, <1>6, <3>1, GotoIs
  <2>2. OfGeneration' /\ saga'.pc \notin Early /\ saga'.pc \notin Late /\ saga'.pc \notin Resulted
    BY <2>1 DEF OfGeneration, Early, Late, Resulted
  <2>3. SagaOK'
    BY <1>3, <1>4, <1>6, <2>1, <2>2 DEF SagaOK
  <2>4. Command("abort", g0) \in CommandType
    BY <1>4 DEF Command, CommandType
  <2>5. /\ WorkerOK' /\ cmds' \in Seq(CommandType)
        /\ \A g \in Gens : SideKept(g)
        /\ \A k, g : Told(k, g)' => Told(k, g)
        /\ \A k, g : Pending(k, g)' => Pending(k, g) \/ k = "abort"
    BY <1>4, <1>6, <2>4, SideSent DEF TypeOK
  <2>6. ASSUME NEW g \in Gens, g = saga.gen
        PROVE  Uncommitted(g) /\ AtWork(g)' /\ ~Forgetting(g)' /\ ~Saved(g)
    <3>1. Uncommitted(g) /\ ~Forgetting(g) /\ ~Saved(g)
      BY <1>2, <1>3, <1>4, <2>6, PhaseIs
    <3>2. AtWork(g)' /\ ~Forgetting(g)'
      BY <1>2, <1>3, <1>6, <2>1, <2>2, <2>5, <2>6, <3>1, NextPhaseIs
    <3> QED
      BY <3>1, <3>2
  <2>7. \A g \in Gens : (Pending("start", g)' => Pending("start", g))
                        /\ (Pending("forget", g)' => Pending("forget", g))
                        /\ (Pending("commit", g)' => Pending("commit", g))
    BY <2>5
  <2> QED
    BY <1>2, <1>3, <1>4, <1>6, <2>1, <2>2, <2>3, <2>5, <2>6, <2>7, RowsRest, SagaMoves DEF TypeOK
<1> QED
  BY <1>2, <1>5, <1>6

(* Only the job's own aborted is taken for an answer.                        *)
LEMMA AbortAnswerHolds ==
    ASSUME IInv, AbortAnswer PROVE IInv'
<1>1. /\ saga.pc = "abortWait" /\ rows' = rows /\ timeline' = timeline /\ Finish(saga.end)
      /\ \/ EmergencyStop
         \/ /\ events # <<>> /\ Head(events) = Event("aborted", saga.gen) /\ events' = Tail(events)
            /\ FinishJob /\ UNCHANGED <<worker, thread, cmds>>
  BY DEF AbortAnswer, UnchangedWorker
<1>2. OfGeneration /\ saga.pc \notin Early
  BY <1>1 DEF OfGeneration, Early
<1>3. TypeOK /\ WorkerOK /\ saga.gen \in Gens /\ saga.end \in {"failed", "cancelled"}
  BY <1>1, <1>2, HeldIs DEF SagaOK
<1>4. CASE EmergencyStop
  BY <1>1, <1>2, <1>3, <1>4, EmergencyEnds
<1>5. CASE /\ events # <<>> /\ Head(events) = Event("aborted", saga.gen) /\ events' = Tail(events)
           /\ FinishJob /\ UNCHANGED <<worker, thread, cmds>>
  <2>1. Told("aborted", saga.gen)
    BY <1>3, <1>5, EventRead DEF Told, TypeOK
  <2>2. Quiet(saga.gen)
    BY <1>3, <2>1, ToldIs DEF Ends
  <2> QED
    BY <1>1, <1>2, <1>3, <1>5, <2>2, JobEnds
<1> QED
  BY <1>1, <1>4, <1>5

(* The job failed in the worker, or the worker is stopped.                   *)
LEMMA FinishOrEmergencyHolds ==
    ASSUME IInv, FinishOrEmergency PROVE IInv'
<1>1. /\ saga.pc = "finish" /\ rows' = rows /\ timeline' = timeline /\ Finish(saga.end)
      /\ \/ EmergencyStop
         \/ host.job.terminal /\ FinishJob /\ UNCHANGED <<worker, thread, cmds>> /\ events' = events
  BY DEF FinishOrEmergency, UnchangedWorker
<1>2. OfGeneration /\ saga.pc \notin Early
  BY <1>1 DEF OfGeneration, Early
<1>3. TypeOK /\ WorkerOK /\ saga.gen \in Gens /\ saga.end = "failed"
  BY <1>1, <1>2, HeldIs DEF SagaOK
<1>4. CASE EmergencyStop
  BY <1>1, <1>2, <1>3, <1>4, EmergencyEnds
<1>5. CASE host.job.terminal /\ FinishJob /\ UNCHANGED <<worker, thread, cmds>> /\ events' = events
  <2>1. Quiet(saga.gen)
    BY <1>1, <1>2, <1>3, <1>5, PhaseIs DEF PhaseOK
  <2> QED
    BY <1>1, <1>2, <1>3, <1>5, <2>1, JobEnds
<1> QED
  BY <1>1, <1>4, <1>5

(* The generation's revision is stored.                                      *)
LEMMA RevisionStored ==
    ASSUME IInv, saga.pc = "save", SaveAdmitted(saga.rev, Generated.refs), rows' = rows,
           timeline' = Append(timeline, Generated), NEW g0 \in Gens, g0 = saga.gen
    PROVE  /\ timeline' \in Seq(RevisionType) /\ Len(timeline') = saga.rev + 1 /\ RefsOK'
           /\ \A g \in Gens : g # g0 /\ gens'[g] = gens[g] => TimelineKept(g)
           /\ Saved(g0)'
           /\ \A i \in 1..Len(timeline') : timeline'[i].by = g0 => i = saga.rev + 1
           /\ Referenced(g0)' => Resolves(g0)
<1>1. OfGeneration /\ saga.pc \notin Early
  BY DEF OfGeneration, Early, Late
<1>2. /\ TypeOK /\ RefsOK /\ SagaOK /\ saga.result \in ResultType /\ ~saga.committed
  BY <1>1, HeldIs DEF SagaOK, Resulted, Late
<1>3. SaveOK(g0) /\ ~Saved(g0) /\ In(g0)
  BY <1>1, <1>2, PhaseIs
<1> DEFINE n == Len(timeline)
           refs == Generated.refs
           new == Generated
<1>4. /\ refs = DOMAIN saga.result.found \cup (IF saga.result.narrated THEN {g0} ELSE {})
      /\ new = [by |-> g0, refs |-> refs]
  BY DEF Generated
<1>5. refs \in SUBSET Library /\ \A g \in Gens : g \in refs => g = g0 /\ saga.result.narrated
  <2>1. DOMAIN saga.result.found \subseteq Videos
    BY <1>2, MaterialsAre DEF ResultType
  <2> QED
    BY <1>4, <2>1, NoneIsNone DEF Library
<1>6. /\ timeline \in Seq(RevisionType) /\ n \in Nat /\ n = saga.rev
      /\ \A m \in refs : rows[m] # None
  BY <1>2 DEF TypeOK, SaveAdmitted
<1> HIDE DEF refs
<1>7. new \in RevisionType /\ new.by = g0 /\ new.refs = refs
  BY <1>4, <1>5 DEF RevisionType
<1> HIDE DEF new
<1>8. /\ timeline' \in Seq(RevisionType) /\ Len(timeline') = n + 1
      /\ \A i \in 1..n : timeline'[i] = timeline[i]
      /\ timeline'[n + 1] = new
  <2>1. timeline' = Append(timeline, new)
    BY DEF new
  <2> QED
    BY <1>6, <1>7, <2>1, Appended
<1>9. /\ \A i \in 1..Len(timeline') : i \in 1..n \/ i = n + 1
      /\ n + 1 \in 1..Len(timeline') /\ \A i \in 1..n : i \in 1..Len(timeline')
      /\ \A i \in 1..(n - 1) : i \in 1..n /\ i \in 1..(Len(timeline') - 1)
  BY <1>6, <1>8
<1>10. DOMAIN timeline' = 1..Len(timeline') /\ DOMAIN timeline = 1..n
  BY <1>6, <1>8
<1> HIDE DEF n
<1>11. \A m : Referenced(m)' => Referenced(m) \/ m \in refs
  <2> SUFFICES ASSUME NEW m, Referenced(m)', m \notin refs PROVE Referenced(m)
    OBVIOUS
  <2>1. PICK i \in 1..Len(timeline') : m \in timeline'[i].refs
    BY <1>10 DEF Referenced
  <2>2. i \in 1..n
    BY <1>7, <1>8, <1>9, <2>1
  <2> QED
    BY <1>8, <1>10, <2>1, <2>2 DEF Referenced
<1>12. RefsOK'
  BY <1>2, <1>6, <1>11 DEF RefsOK
<1>13. ASSUME NEW g \in Gens, g # g0, gens'[g] = gens[g] PROVE TimelineKept(g)
  <2>1. \A i \in 1..Len(timeline') : timeline'[i].by = g => i \in 1..n /\ timeline[i].by = g
    BY <1>7, <1>8, <1>9, <1>13
  <2>2. Saved(g)' <=> Saved(g)
    BY <1>8, <1>9, <2>1 DEF Saved, n
  <2>3. Overtaken(g) => Overtaken(g)'
    <3> SUFFICES ASSUME Overtaken(g) PROVE Overtaken(g)'
      OBVIOUS
    <3>1. PICK i \in 1..(n - 1) : timeline[i].by = g
      BY DEF Overtaken, n
    <3>2. i \in 1..(Len(timeline') - 1) /\ timeline'[i].by = g
      BY <1>8, <1>9, <3>1
    <3> QED
      BY <1>13, <3>2 DEF Overtaken
  <2>4. Referenced(g)' => Referenced(g)
    BY <1>5, <1>11, <1>13
  <2> QED
    BY <2>2, <2>3, <2>4 DEF TimelineKept
<1>14. Saved(g0)'
  BY <1>7, <1>8, <1>9 DEF Saved
<1>15. ASSUME NEW i \in 1..Len(timeline'), timeline'[i].by = g0 PROVE i = saga.rev + 1
  <2>1. i \notin 1..n
    BY <1>3, <1>8, <1>15 DEF Saved, n
  <2> QED
    BY <1>6, <1>9, <2>1
<1>16. Referenced(g0)' => Resolves(g0)
  <2>1. ~Referenced(g0)
    BY <1>3 DEF SaveOK
  <2>2. saga.result.narrated => Resolves(g0)
    BY <1>3 DEF SaveOK, Late
  <2> QED
    BY <1>5, <1>11, <2>1, <2>2
<1> QED
  BY <1>6, <1>8, <1>12, <1>13, <1>14, <1>15, <1>16

(* The revision is saved, refused, or its answer is lost.                    *)
LEMMA SaveTimelineHolds ==
    ASSUME IInv, SaveTimeline PROVE IInv'
<1>1. PICK g0 : g0 = saga.gen
  OBVIOUS
<1>2. /\ saga.pc = "save" /\ rows' = rows /\ UNCHANGED <<host, worker, thread, cmds, events, disk>>
      /\ host' = host /\ disk' = disk /\ thread' = thread
      /\ \/ /\ SaveAdmitted(saga.rev, Generated.refs) /\ timeline' = Append(timeline, Generated)
            /\ Finish("succeeded") \/ (Goto("confirm") /\ gens' = gens)
         \/ /\ timeline' = timeline /\ gens' = gens
            /\ Compensate(TRUE, "end", "failed") \/ Goto("confirm")
  BY DEF SaveTimeline
<1>3. OfGeneration /\ saga.pc \notin Early
  BY <1>2 DEF OfGeneration, Early, Late
<1>4. /\ TypeOK /\ AnalysesOK /\ saga \in SagaType /\ SagaOK /\ ~saga.committed /\ g0 \in Gens
      /\ saga.result \in ResultType
  BY <1>1, <1>2, <1>3, HeldIs DEF SagaOK, Resulted, Late
<1>5. /\ In(g0) /\ ~AtWork(g0) /\ Quiet(g0) /\ ~Saved(g0) /\ ~Forgetting(g0) /\ SaveOK(g0)
      /\ saga.result.narrated => Resolves(g0)
  <2>1. In(g0) /\ ~AtWork(g0) /\ Quiet(g0) /\ ~Saved(g0) /\ ~Forgetting(g0) /\ SaveOK(g0)
    BY <1>1, <1>2, <1>3, <1>4, PhaseIs
  <2> QED
    BY <1>2, <2>1 DEF SaveOK, Late
<1>6. "confirm" \in SagaSteps
  BY DEF SagaSteps
<1>7. CASE /\ SaveAdmitted(saga.rev, Generated.refs) /\ timeline' = Append(timeline, Generated)
           /\ Finish("succeeded")
  <2>1. \A g \in Gens : Pending("forget", g)' => Pending("forget", g)
    BY <1>2, HostRests
  <2>2. Resolves(g0)' <=> Resolves(g0)
    BY <1>2 DEF Resolves
  <2>3. /\ timeline' \in Seq(RevisionType) /\ RefsOK' /\ Saved(g0)'
        /\ \A g \in Gens : g # g0 /\ gens'[g] = gens[g] => TimelineKept(g)
        /\ Referenced(g0)' => Resolves(g0)
    BY <1>1, <1>2, <1>4, <1>7, RevisionStored
  <2>4. \A g \in Gens : g = saga.gen => /\ Quiet(g)'
                                        /\ Referenced(g)' => Saved(g)' /\ Resolves(g)'
    BY <1>1, <1>2, <1>5, <2>2, <2>3, HostRests
  <2>5. \A g \in Gens : disk'.job[g] = "result" => disk.job[g] = "result"
    BY <1>2
  <2> QED
    BY <1>1, <1>2, <1>3, <1>7, <2>1, <2>3, <2>4, <2>5, HostRests, Finished
<1>8. CASE /\ SaveAdmitted(saga.rev, Generated.refs) /\ timeline' = Append(timeline, Generated)
           /\ Goto("confirm") /\ gens' = gens
  <2>1. /\ timeline' \in Seq(RevisionType) /\ RefsOK' /\ Saved(g0)'
        /\ \A g \in Gens : g # g0 /\ gens'[g] = gens[g] => TimelineKept(g)
        /\ \A i \in 1..Len(timeline') : timeline'[i].by = g0 => i = saga.rev + 1
        /\ Referenced(g0)' => Resolves(g0)
    BY <1>1, <1>2, <1>4, <1>8, RevisionStored
  <2>2. /\ saga' \in SagaType /\ saga'.pc = "confirm" /\ saga'.gen = saga.gen /\ saga'.rev = saga.rev
        /\ saga'.mats = saga.mats /\ saga'.result = saga.result /\ ~saga'.committed
    BY <1>4, <1>6, <1>8, GotoIs
  <2>3. TypeOK'
    BY <1>2, <1>4, <1>8, <2>1, <2>2 DEF TypeOK
  <2>4. OfGeneration' /\ saga'.pc \notin Early
    BY <2>2 DEF OfGeneration, Late, Early
  <2>5. SagaOK'
    BY <1>2, <1>3, <1>4, <1>8, <2>2 DEF SagaOK, Resulted, Late
  <2>6. AnalysesOK'
    BY <1>2, <1>4, <2>2, AnalysesRest DEF Resulted, Late
  <2>7. ASSUME NEW g \in Gens, g = saga.gen PROVE PhaseOK(g)' /\ SaveOK(g)'
    <3>1. In(g)' /\ ~AtWork(g)' /\ ~Uncommitted(g)' /\ ~Forgetting(g)'
      <4>1. In(g)'
        BY <2>2, <2>4, <2>7 DEF In
      <4> QED
        BY <1>1, <1>2, <1>3, <1>5, <1>8, <2>2, <2>4, <2>7, <4>1, NextPhaseIs, HostRests
    <3>2. PhaseOK(g)'
      <4>1. In(g) /\ Quiet(g)
        BY <1>1, <1>5, <2>7
      <4>2. DiskKept(g) /\ gens'[g] = gens[g] /\ (Running(g)' <=> Running(g)) /\ (Quiet(g)' <=> Quiet(g))
            /\ (Pending("start", g)' <=> Pending("start", g))
            /\ \A k \in Answers : Told(k, g)' => Told(k, g)
        BY <1>2, <1>8, HostRests
      <4>3. ~(saga'.pc \in {"prepared", "written", "commitWait"}) /\ saga'.pc # "finish"
            /\ saga'.pc # "undo"
        BY <2>2
      <4> HIDE DEF Early
      <4> QED
        BY <2>4, <3>1, <4>1, <4>2, <4>3, OwnPhase
    <3>3. SaveOK(g)'
      <4>1. Resolves(g)' <=> Resolves(g)
        BY <1>2 DEF Resolves
      <4>2. saga'.result.narrated => Resolves(g)
        BY <1>1, <1>5, <2>2, <2>7
      <4>3. Saved(g)' /\ (Referenced(g)' => Resolves(g)')
            /\ \A i \in 1..Len(timeline') : timeline'[i].by = g => i = saga'.rev + 1
        BY <1>1, <2>1, <2>2, <2>7, <4>1
      <4> HIDE DEF In, Told, Saved, Referenced, Overtaken, Resolves
      <4> QED
        BY <2>2, <4>1, <4>2, <4>3 DEF SaveOK
    <3> QED
      BY <3>2, <3>3
  <2> QED
    BY <1>1, <1>2, <1>3, <1>8, <2>1, <2>2, <2>3, <2>5, <2>6, <2>7, HostRests, GoesOn
<1>9. CASE /\ timeline' = timeline /\ gens' = gens
           /\ Compensate(TRUE, "end", "failed") \/ Goto("confirm")
  <2>1. /\ saga' \in SagaType /\ saga'.gen = saga.gen /\ saga'.rev = saga.rev
        /\ saga'.mats = saga.mats /\ saga'.result = saga.result
        /\ \/ saga'.pc = "confirm" /\ ~saga'.committed
           \/ saga'.pc = "undo" /\ saga'.committed /\ saga'.after = "end" /\ saga'.end = "failed"
    BY <1>4, <1>6, <1>9, GotoIs, CompensateIs
  <2>2. OfGeneration' /\ saga'.pc \notin Early
    BY <2>1 DEF OfGeneration, Late, Early
  <2>3. SagaOK'
    BY <1>2, <1>3, <1>4, <1>9, <2>1 DEF SagaOK, Resulted, Late
  <2>4. ASSUME NEW g \in Gens, g = saga.gen
        PROVE  /\ ~Uncommitted(g)' /\ Quiet(g) /\ ~Forgetting(g)' /\ ~Saved(g)
               /\ saga'.result.narrated => Resolves(g)
    <3>1. ~Uncommitted(g)' /\ ~Forgetting(g)'
      BY <1>1, <1>2, <1>3, <1>5, <1>9, <2>1, <2>2, <2>4, NextPhaseIs, HostRests
    <3> QED
      BY <1>1, <1>5, <2>1, <2>4, <3>1
  <2>5. saga'.pc # "finish" /\ ~(saga'.pc = "undo" /\ ~saga'.committed) /\ saga'.pc # "commitWait"
        /\ ~(saga'.pc \in {"prepared", "written", "commitWait"}) /\ saga.pc \in Resulted
    BY <1>2, <2>1 DEF Resulted, Late
  <2>6. worker' = worker /\ cmds' = cmds /\ events' = events
    BY <1>2
  <2> QED
    BY <1>2, <1>3, <1>9, <2>1, <2>2, <2>3, <2>4, <2>5, <2>6, RowsRest, HostRests, SagaMoves
<1> QED
  BY <1>2, <1>7, <1>8, <1>9

(* A second look at the timeline tells a save whose answer was lost.         *)
LEMMA ConfirmSavedHolds ==
    ASSUME IInv, ConfirmSaved PROVE IInv'
<1>1. PICK g0 : g0 = saga.gen
  OBVIOUS
<1> DEFINE confirmed == Len(timeline) = saga.rev + 1 /\ Last(timeline).by = g0
<1>2. /\ saga.pc = "confirm" /\ rows' = rows /\ timeline' = timeline
      /\ UNCHANGED <<host, worker, thread, cmds, events, disk>>
      /\ host' = host /\ disk' = disk /\ thread' = thread /\ worker' = worker
      /\ \/ confirmed /\ Finish("succeeded")
         \/ ~confirmed /\ Compensate(TRUE, "end", "failed") /\ gens' = gens
         \/ Finish("failed")
  BY <1>1 DEF ConfirmSaved
<1>3. OfGeneration /\ saga.pc \notin Early
  BY <1>2 DEF OfGeneration, Early, Late
<1>4. /\ TypeOK /\ RefsOK /\ saga \in SagaType /\ SagaOK /\ ~saga.committed /\ g0 \in Gens
      /\ saga.result \in ResultType /\ saga.rev \in Nat
  BY <1>1, <1>2, <1>3, HeldIs DEF SagaOK, Resulted, Late, SagaType
<1>5. In(g0) /\ Quiet(g0) /\ ~Forgetting(g0) /\ SaveOK(g0)
  BY <1>1, <1>2, <1>3, <1>4, PhaseIs
<1>6. \A i \in 1..Len(timeline) : timeline[i].by = g0 => i = saga.rev + 1
  BY <1>5 DEF SaveOK
<1>7. Len(timeline) \in Nat /\ Last(timeline) = timeline[Len(timeline)]
  BY <1>4 DEF TypeOK, Last
<1>8. CASE confirmed /\ Finish("succeeded")
  <2>1. ~Overtaken(g0)
    <3> SUFFICES ASSUME Overtaken(g0) PROVE FALSE
      OBVIOUS
    <3>1. PICK i \in 1..(Len(timeline) - 1) : timeline[i].by = g0
      BY DEF Overtaken
    <3>2. i \in 1..Len(timeline) /\ i # Len(timeline)
      BY <1>7
    <3> QED
      BY <1>6, <1>8, <3>1, <3>2
  <2>2. Referenced(g0) => Saved(g0) /\ Resolves(g0)
    BY <1>5, <2>1 DEF SaveOK
  <2>3. /\ Resolves(g0)' <=> Resolves(g0)
        /\ Referenced(g0)' <=> Referenced(g0)
        /\ Saved(g0)' <=> Saved(g0)
    BY <1>2 DEF Resolves, Referenced, Saved
  <2>4. \A g \in Gens : g = saga.gen => /\ Quiet(g)'
                                        /\ Referenced(g)' => Saved(g)' /\ Resolves(g)'
    BY <1>1, <1>2, <1>5, <2>2, <2>3, HostRests
  <2>5. /\ timeline' \in Seq(RevisionType)
        /\ \A g \in Gens : gens'[g] = gens[g] => TimelineKept(g)
        /\ \A g \in Gens : Pending("forget", g)' => Pending("forget", g)
        /\ \A g \in Gens : disk'.job[g] = "result" => disk.job[g] = "result"
    BY <1>2, <1>4, TimelineRests, HostRests DEF TypeOK
  <2> QED
    BY <1>2, <1>3, <1>8, <2>4, <2>5, HostRests, RowsRest, Finished
<1>9. CASE ~confirmed /\ Compensate(TRUE, "end", "failed") /\ gens' = gens
  <2>1. /\ saga' \in SagaType /\ saga'.gen = saga.gen /\ saga'.rev = saga.rev
        /\ saga'.mats = saga.mats /\ saga'.result = saga.result
        /\ saga'.pc = "undo" /\ saga'.committed /\ saga'.after = "end" /\ saga'.end = "failed"
    BY <1>4, <1>9, CompensateIs
  <2>2. OfGeneration' /\ saga'.pc \notin Early /\ saga'.pc \notin Late
    BY <2>1 DEF OfGeneration, Late, Early
  <2>3. SagaOK'
    BY <1>2, <1>3, <1>4, <1>9, <2>1 DEF SagaOK, Resulted, Late
  <2>4. ASSUME NEW g \in Gens, g = saga.gen
        PROVE  /\ ~Uncommitted(g)' /\ Quiet(g) /\ ~Forgetting(g)'
               /\ \A i \in 1..Len(timeline) : timeline[i].by = g => i < Len(timeline)
    <3>1. ~Uncommitted(g)' /\ ~Forgetting(g)'
      BY <1>1, <1>2, <1>3, <1>5, <1>9, <2>1, <2>2, <2>4, NextPhaseIs, HostRests
    <3>2. \A i \in 1..Len(timeline) : timeline[i].by = g0 => i < Len(timeline)
      <4> SUFFICES ASSUME NEW i \in 1..Len(timeline), timeline[i].by = g0 PROVE i < Len(timeline)
        OBVIOUS
      <4>1. i = saga.rev + 1
        BY <1>6
      <4>2. i # Len(timeline)
        BY <1>7, <1>9, <4>1
      <4> QED
        BY <1>7, <4>2
    <3> QED
      BY <1>1, <1>5, <2>4, <3>1, <3>2
  <2>5. saga.pc \in Resulted
    BY <1>2 DEF Resulted, Late
  <2>6. cmds' = cmds /\ events' = events
    BY <1>2
  <2> QED
    BY <1>2, <1>3, <1>9, <2>1, <2>2, <2>3, <2>4, <2>5, <2>6, RowsRest, HostRests, SagaMoves
<1>10. CASE Finish("failed")
  <2>1. \A g \in Gens : g = saga.gen => Quiet(g)'
    BY <1>1, <1>2, <1>5, HostRests
  <2> QED
    BY <1>2, <1>3, <1>10, <2>1, HostRests, FinishedInVain
<1> QED
  BY <1>2, <1>8, <1>9, <1>10

(* The saga forgets a material, for a generation it undoes or for the user.  *)
LEMMA ForgettingMoves ==
    ASSUME IInv, saga.pc \in {"forget", "forgetWait"}, NEW pc \in {"forgetWait", "drop"}, Goto(pc),
           rows' = rows, timeline' = timeline, gens' = gens, disk' = disk, host' = host,
           worker' = worker, thread' = thread,
           WorkerOK', cmds' \in Seq(CommandType), events' \in Seq(EventType),
           \A g \in Gens : SideKept(g) /\ (Pending("start", g)' => Pending("start", g))
                           /\ (Pending("forget", g)' => Pending("forget", g) \/ g = saga.gen),
           \A k, g : Told(k, g)' => Told(k, g)
    PROVE  IInv'
<1>1. saga \in SagaType /\ SagaOK /\ TypeOK /\ AnalysesOK /\ saga.gen \in Library
  BY DEF IInv, TypeOK, SagaOK
<1>2. /\ saga' \in SagaType /\ saga'.pc = pc /\ saga'.gen = saga.gen /\ saga'.rev = saga.rev
      /\ saga'.mats = saga.mats /\ saga'.result = saga.result
      /\ saga'.committed = saga.committed /\ saga'.after = saga.after /\ saga'.end = saga.end
  <2>1. pc \in SagaSteps
    BY DEF SagaSteps
  <2> QED
    BY <1>1, <2>1, GotoIs
<1>3. /\ saga.pc \notin Early \cup Late /\ saga'.pc \notin Early /\ saga'.pc \notin Late
      /\ saga'.pc \notin Resulted
  BY <1>2 DEF Early, Late, Resulted
<1>4. (OfGeneration <=> saga.committed) /\ (OfGeneration' <=> saga.committed)
  <2>1. OfGeneration <=> saga.committed
    BY <1>3 DEF OfGeneration
  <2>2. saga'.pc \in {"forgetWait", "drop"} /\ saga'.committed = saga.committed
    BY <1>2
  <2>3. OfGeneration' <=> saga'.committed
    BY <1>3, <2>2 DEF OfGeneration
  <2> QED
    BY <2>1, <2>2, <2>3
<1>5. SagaOK'
  BY <1>1, <1>2, <1>3, <1>4 DEF SagaOK
<1>6. host' \in [up : BOOLEAN, job : JobType \cup {None}]
  BY <1>1 DEF TypeOK
<1>7. \A g \in Gens : Forgetting(g)' => Forgetting(g)
  BY <1>2 DEF Forgetting
<1>8. CASE saga.committed
  <2>1. ASSUME NEW g \in Gens, g = saga.gen
        PROVE  ~Uncommitted(g)' /\ Quiet(g) /\ (Forgetting(g)' => rows'[g] = None)
    <3>1. Quiet(g) /\ PhaseOK(g)
      BY <1>3, <1>4, <1>8, <2>1, PhaseIs
    <3>2. ~Uncommitted(g)'
      BY <1>2, <1>3, <1>4, <1>8, <2>1, NextPhaseIs
    <3> QED
      BY <1>7, <3>1, <3>2 DEF PhaseOK
  <2>2. \A g \in Gens : g # saga.gen => /\ SideKept(g)
                                        /\ Pending("forget", g)' => Pending("forget", g)
    OBVIOUS
  <2> QED
    BY <1>2, <1>3, <1>4, <1>5, <1>6, <1>8, <2>1, <2>2, RowsRest, SagaMoves
<1>9. CASE ~saga.committed
  <2>1. TypeOK'
    BY <1>1, <1>2, <1>6 DEF TypeOK
  <2>2. AnalysesOK'
    BY <1>1, <1>2, <1>3, AnalysesRest
  <2>3. ASSUME NEW g \in Gens
        PROVE  ~In(g) /\ ~In(g)' /\ DiskKept(g) /\ TimelineKept(g)
    BY <1>4, <1>9, DiskRests, TimelineRests DEF In
  <2>4. None \notin Gens
    BY NoneIsNone
  <2> QED
    BY <1>5, <1>7, <2>1, <2>2, <2>3, <2>4, RowsRest, SagaStep
<1> QED
  BY <1>8, <1>9

(* The worker is told to forget the file, if it still reads.                 *)
LEMMA SendForgetHolds ==
    ASSUME IInv, SendForget PROVE IInv'
<1>1. PICK g0 : g0 = saga.gen
  OBVIOUS
<1>2. /\ saga.pc = "forget" /\ rows' = rows /\ timeline' = timeline /\ gens' = gens
      /\ host' = host /\ worker' = worker /\ thread' = thread /\ events' = events /\ disk' = disk
      /\ \/ cmds' = Append(cmds, Command("forget", g0)) /\ Goto("forgetWait")
         \/ cmds' = cmds /\ Goto("drop")
  BY <1>1 DEF SendForget
<1>3. /\ TypeOK /\ WorkerOK /\ g0 \in Library
      /\ worker.moving # None => worker.moving \in disk'.durable
  BY <1>1, <1>2 DEF IInv, SagaOK, WorkerOK
<1>4. Command("forget", g0) \in CommandType
  BY <1>3 DEF Command, CommandType
<1>5. /\ WorkerOK' /\ cmds' \in Seq(CommandType) /\ events' \in Seq(EventType)
      /\ \A g \in Gens : SideKept(g)
      /\ \A k, g : Told(k, g)' => Told(k, g)
      /\ \A k, g : Pending(k, g)' => Pending(k, g) \/ (k = "forget" /\ g = g0)
  <2>1. CASE cmds' = Append(cmds, Command("forget", g0))
    BY <1>2, <1>3, <1>4, <2>1, SideSent DEF TypeOK
  <2>2. CASE cmds' = cmds
    BY <1>2, <1>3, <2>2, SideRests DEF TypeOK
  <2> QED
    BY <1>2, <2>1, <2>2
<1>6. \A g \in Gens : (Pending("start", g)' => Pending("start", g))
                      /\ (Pending("forget", g)' => Pending("forget", g) \/ g = saga.gen)
  BY <1>1, <1>5
<1>7. PICK pc \in {"forgetWait", "drop"} : Goto(pc)
  BY <1>2
<1> QED
  BY <1>2, <1>5, <1>6, <1>7, ForgettingMoves

(* The next line, right or wrong, is the answer.                             *)
LEMMA ForgetAnswerHolds ==
    ASSUME IInv, ForgetAnswer PROVE IInv'
<1>1. /\ saga.pc = "forgetWait" /\ Goto("drop") /\ rows' = rows /\ timeline' = timeline
      /\ gens' = gens /\ host' = host /\ worker' = worker /\ thread' = thread /\ cmds' = cmds
      /\ disk' = disk
      /\ (events # <<>> /\ events' = Tail(events)) \/ events' = events
  BY DEF ForgetAnswer, UnchangedWorker
<1>2. TypeOK /\ WorkerOK /\ (worker.moving # None => worker.moving \in disk'.durable)
  BY <1>1 DEF IInv, WorkerOK
<1>3. /\ WorkerOK' /\ cmds' \in Seq(CommandType) /\ events' \in Seq(EventType)
      /\ \A g \in Gens : SideKept(g)
      /\ \A k, g : (Told(k, g)' => Told(k, g)) /\ (Pending(k, g)' => Pending(k, g))
  <2>1. CASE events # <<>> /\ events' = Tail(events)
    BY <1>1, <1>2, <2>1, SideRead, Taken DEF TypeOK
  <2>2. CASE events' = events
    BY <1>1, <1>2, <2>2, SideRests DEF TypeOK
  <2> QED
    BY <1>1, <2>1, <2>2
<1> QED
  BY <1>1, <1>3, ForgettingMoves

(* The durable files go last; the generation has failed.                     *)
LEMMA DropDurableHolds ==
    ASSUME IInv, DropDurable PROVE IInv'
<1>1. /\ saga.pc = "drop" /\ rows' = rows /\ timeline' = timeline
      /\ UNCHANGED <<host, worker, thread, cmds, events>> /\ thread' = thread
      /\ worker' = worker
  BY DEF DropDurable
<1>2. TypeOK /\ AnalysesOK /\ SagaOK /\ WorkerOK /\ saga \in SagaType
  BY DEF IInv, TypeOK
<1>3. CASE saga.committed
  <2>1. PICK g0 : g0 = saga.gen
    OBVIOUS
  <2>2. OfGeneration /\ saga.pc \notin Early /\ saga.end = "failed"
    BY <1>1, <1>2, <1>3 DEF OfGeneration, Early, SagaOK
  <2>3. g0 \in Gens /\ WorkerOK /\ disk \in DiskType
    BY <2>1, <2>2, HeldIs DEF TypeOK
  <2>4. /\ In(g0) /\ Quiet(g0) /\ SaveOK(g0)
    BY <1>1, <2>1, <2>2, <2>3, PhaseIs
  <2>5. /\ Finish("failed")
        /\ disk' = [disk EXCEPT !.durable = IF host.up THEN @ \ {g0} ELSE @]
    BY <1>1, <1>3, <2>1, <2>2 DEF DropDurable
  <2>6. /\ disk' \in DiskType /\ disk'.result = disk.result /\ disk'.job = disk.job
        /\ disk'.registry = disk.registry
        /\ \A g \in Gens : g # g0 => (g \in disk'.durable <=> g \in disk.durable)
    <3> DEFINE left == IF host.up THEN disk.durable \ {g0} ELSE disk.durable
    <3>1. disk' = [disk EXCEPT !.durable = left]
      BY <2>3, <2>5
    <3>2. left \in SUBSET Gens /\ \A g \in Gens : g # g0 => (g \in left <=> g \in disk.durable)
      BY <2>3 DEF DiskType
    <3> HIDE DEF left
    <3> QED
      BY <2>3, <3>1, <3>2 DEF DiskType
  <2>7. \A g \in Gens : g # saga.gen => DiskKept(g)
    BY <2>1, <2>6 DEF DiskKept
  <2>8. worker.moving # None => worker.moving \in disk'.durable
    <3>1. worker.moving # g0
      BY <2>3, <2>4, QuietIsStill
    <3>2. worker.moving # None => worker.moving \in disk.durable /\ worker.moving \in Gens
      BY <1>2, <2>3 DEF WorkerOK, DiskType
    <3> QED
      BY <2>6, <3>1, <3>2
  <2>9. /\ WorkerOK' /\ \A g \in Gens : SideKept(g) /\ (Quiet(g)' <=> Quiet(g))
        /\ \A g \in Gens : Pending("forget", g)' => Pending("forget", g)
    BY <1>1, <1>2, <2>8, SideRests
  <2>10. ASSUME NEW g \in Gens, g = saga.gen, gens'[g].status = "failed"
         PROVE  Quiet(g)' /\ (Referenced(g)' => Saved(g)' /\ Overtaken(g)')
    <3>1. Quiet(g)'
      BY <2>1, <2>4, <2>9, <2>10
    <3>2. Saved(g) => Overtaken(g)'
      <4> SUFFICES ASSUME Saved(g) PROVE Overtaken(g)'
        OBVIOUS
      <4>1. PICK i \in 1..Len(timeline) : timeline[i].by = g
        BY DEF Saved
      <4>2. i < Len(timeline)
        BY <1>1, <2>1, <2>4, <2>10, <4>1 DEF SaveOK
      <4>3. i \in 1..(Len(timeline) - 1)
        BY <4>2, <1>2 DEF TypeOK
      <4> QED
        BY <1>1, <2>10, <4>1, <4>3 DEF Overtaken
    <3>3. (Referenced(g)' <=> Referenced(g)) /\ (Saved(g)' <=> Saved(g))
      BY <1>1 DEF Referenced, Saved
    <3>4. Referenced(g) => Saved(g)
      BY <2>1, <2>4, <2>10 DEF SaveOK
    <3> QED
      BY <3>1, <3>2, <3>3, <3>4
  <2>11. /\ timeline' \in Seq(RevisionType)
         /\ \A g \in Gens : gens'[g] = gens[g] => TimelineKept(g)
         /\ \A g \in Gens : disk'.job[g] = "result" => disk.job[g] = "result"
         /\ host' \in [up : BOOLEAN, job : JobType \cup {None}]
         /\ worker' \in WorkerType /\ cmds' \in Seq(CommandType) /\ events' \in Seq(EventType)
    BY <1>1, <1>2, <2>6, TimelineRests DEF TypeOK
  <2> QED
    BY <1>1, <2>2, <2>5, <2>6, <2>7, <2>9, <2>10, <2>11, RowsRest, Finished
<1>4. CASE ~saga.committed
  <2>1. saga' = NoSaga /\ disk' = disk /\ gens' = gens
    BY <1>4 DEF DropDurable
  <2>2. /\ saga' \in SagaType /\ saga'.pc = "off" /\ saga'.mats = Nothing /\ saga'.committed = FALSE
    BY <2>1, RestIs
  <2>3. ~OfGeneration /\ ~OfGeneration' /\ saga'.pc \notin Resulted
    BY <1>1, <1>4, <2>2 DEF OfGeneration, Early, Late, Resulted
  <2>4. SagaOK'
    BY <2>2, <2>3 DEF SagaOK
  <2>5. TypeOK'
    BY <1>1, <1>2, <2>1, <2>2 DEF TypeOK
  <2>6. AnalysesOK'
    BY <1>1, <1>2, <2>1, <2>2, <2>3, AnalysesRest
  <2>7. ASSUME NEW g \in Gens
        PROVE  /\ ~In(g) /\ ~In(g)' /\ DiskKept(g) /\ TimelineKept(g)
               /\ Forgetting(g)' => Forgetting(g)
    BY <1>1, <2>1, <2>2, <2>3, DiskRests, TimelineRests, HostRests DEF In, Forgetting
  <2>8. None \notin Gens
    BY NoneIsNone
  <2> QED
    BY <1>1, <2>1, <2>4, <2>5, <2>6, <2>7, <2>8, RowsRest, HostRests, SagaStep
<1> QED
  BY <1>3, <1>4

(* The narration's row goes unless a revision needs it; what follows depends *)
(* on whether the job was committed and the deletion confirmed.              *)
LEMMA UndoRowHolds ==
    ASSUME IInv, UndoRow PROVE IInv'
<1>1. PICK g0 : g0 = saga.gen
  OBVIOUS
<1>2. /\ saga.pc = "undo" /\ timeline' = timeline /\ gens' = gens
      /\ UNCHANGED <<host, worker, thread, cmds, events, disk>>
      /\ rows' = rows \/ (~Referenced(g0) /\ rows' = [rows EXCEPT ![g0] = None])
      /\ \/ ~saga.committed /\ Goto(saga.after)
         \/ saga.committed /\ Goto("drop")
         \/ saga.committed /\ Goto("forget") /\ rows' = [rows EXCEPT ![g0] = None]
  BY <1>1 DEF UndoRow, UnchangedHost, AfterUndo
<1>3. saga.pc \notin Early
  BY <1>2 DEF Early
<1>4. OfGeneration
  BY <1>2 DEF OfGeneration
<1>5. /\ TypeOK /\ saga \in SagaType /\ SagaOK /\ AnalysesOK /\ RefsOK /\ g0 \in Gens /\ g0 \in Library
      /\ saga.committed => saga.end = "failed"
      /\ ~saga.committed => /\ saga.after \in {"abort", "finish"} /\ host.job \in JobType
                            /\ saga.end \in {"failed", "cancelled"}
                            /\ saga.after = "finish" => saga.end = "failed"
  BY <1>1, <1>2, <1>4, HeldIs DEF SagaOK
<1>6. /\ saga' \in SagaType /\ saga'.gen = saga.gen /\ saga'.rev = saga.rev
      /\ saga'.mats = saga.mats /\ saga'.result = saga.result
      /\ saga'.committed = saga.committed /\ saga'.after = saga.after /\ saga'.end = saga.end
      /\ ~saga.committed => saga'.pc = saga.after
      /\ saga.committed => \/ saga'.pc = "drop"
                           \/ saga'.pc = "forget" /\ rows' = [rows EXCEPT ![g0] = None]
  <2>1. {"abort", "finish", "drop", "forget"} \subseteq SagaSteps
    BY DEF SagaSteps
  <2>2. CASE ~saga.committed
    BY <1>2, <1>5, <2>1, <2>2, GotoIs
  <2>3. CASE saga.committed
    BY <1>2, <1>5, <2>1, <2>3, GotoIs
  <2> QED
    BY <2>2, <2>3
<1>7. saga'.pc \in {"abort", "finish", "drop", "forget"}
  BY <1>5, <1>6
<1>8. saga'.pc \notin Early /\ saga'.pc \notin Resulted
  BY <1>7 DEF Early, Resulted, Late
<1>9. OfGeneration'
  BY <1>5, <1>6 DEF OfGeneration
<1>10. SagaOK'
  BY <1>1, <1>2, <1>5, <1>6, <1>7, <1>8, <1>4 DEF SagaOK, OfGeneration
<1>11. /\ rows' \in [Library -> Row \cup {None}]
       /\ \A m \in Library : rows'[m] = rows[m] \/ (m = g0 /\ rows'[m] = None /\ ~Referenced(g0))
       /\ rows' = [rows EXCEPT ![g0] = None] => rows'[g0] = None
  BY <1>2, <1>5 DEF TypeOK
<1>12. AnalysisIsOfContent'
  BY <1>5, <1>11 DEF AnalysesOK, AnalysisIsOfContent
<1>13. RefsOK'
  <2>1. \A n : Referenced(n)' <=> Referenced(n)
    BY <1>2 DEF Referenced
  <2> HIDE DEF Referenced
  <2> QED
    BY <1>5, <1>11, <2>1 DEF RefsOK
<1>14. ASSUME NEW g \in Gens, g # saga.gen PROVE rows'[g] = rows[g]
  BY <1>1, <1>11, <1>14 DEF Library
<1>15. ASSUME NEW g \in Gens, g = saga.gen
       PROVE  /\ Uncommitted(g)' => Uncommitted(g)
              /\ AtWork(g)' \/ Quiet(g)
              /\ Forgetting(g)' => saga'.committed /\ rows'[g] = None
              /\ saga'.pc = "finish" => (host'.job.terminal => Quiet(g))
              /\ ~Saved(g) \/ (saga.committed /\ saga'.committed)
  <2>1. /\ In(g) /\ PhaseOK(g) /\ (~saga.committed => ~Forgetting(g)) /\ (~AtWork(g) => Quiet(g))
        /\ AtWork(g) <=> ~saga.committed
        /\ Uncommitted(g) <=> ~saga.committed /\ saga.after = "abort"
        /\ Saved(g) => saga.committed
    BY <1>2, <1>3, <1>4, <1>15, PhaseIs
  <2>2. /\ AtWork(g)' <=> saga'.pc \in {"abort", "finish"}
        /\ Uncommitted(g)' <=> saga'.pc = "abort"
        /\ Forgetting(g)' <=> Pending("forget", g)' \/ saga'.pc = "forget"
        /\ Forgetting(g) <=> Pending("forget", g)
    BY <1>2, <1>3, <1>4, <1>6, <1>7, <1>8, <1>9, <1>15, NextPhaseIs
  <2>3. Pending("forget", g)' <=> Pending("forget", g)
    BY <1>2, HostRests
  <2>4. Forgetting(g)' => saga'.committed /\ rows'[g] = None
    <3>1. CASE saga'.pc = "forget"
      BY <1>1, <1>5, <1>6, <1>11, <1>15, <3>1
    <3>2. CASE saga'.pc # "forget"
      <4>1. Forgetting(g)' => Forgetting(g)
        BY <2>2, <2>3, <3>2
      <4>2. Forgetting(g) => rows[g] = None
        BY <2>1 DEF PhaseOK
      <4>3. rows[g] = None => rows'[g] = None
        BY <1>1, <1>5, <1>11, <1>15
      <4> QED
        BY <1>6, <2>1, <4>1, <4>2, <4>3
    <3> QED
      BY <3>1, <3>2
  <2>5. saga'.pc = "finish" => (host'.job.terminal => Quiet(g))
    <3>1. saga'.pc = "finish" => ~saga.committed /\ saga.after = "finish"
      BY <1>5, <1>6
    <3>2. ~saga.committed /\ saga.after = "finish" /\ host.job.terminal => Quiet(g)
      BY <1>2, <2>1 DEF PhaseOK
    <3> QED
      BY <1>2, <3>1, <3>2
  <2> QED
    BY <1>5, <1>6, <2>1, <2>2, <2>4, <2>5
<1>16. /\ saga'.pc # "undo" /\ saga'.pc \notin {"prepared", "written", "commitWait"}
       /\ saga'.pc \notin Late
  BY <1>7 DEF Late
<1> QED
  BY <1>2, <1>3, <1>4, <1>6, <1>8, <1>9, <1>10, <1>11, <1>12, <1>13, <1>14, <1>15, <1>16,
     HostRests, SagaMoves

(* The rows an admitted writeback stores: an analysis is stored with the     *)
(* content it was computed from, and no row goes.                            *)
LEMMA WrittenIs ==
    ASSUME IInv, saga.pc = "prepared", WritebackAdmitted, rows' = Written, timeline' = timeline
    PROVE  /\ rows' \in [Library -> Row \cup {None}] /\ AnalysisIsOfContent' /\ RefsOK'
           /\ \A g \in Gens : g # saga.gen => rows'[g] = rows[g]
<1> DEFINE found == saga.result.found
<1>1. /\ rows \in [Library -> Row \cup {None}] /\ AnalysisIsOfContent /\ RefsOK
      /\ saga.result \in ResultType /\ AllOfContent(found)
  BY DEF IInv, TypeOK, AnalysesOK, SagaOK, Resulted
<1>2. found \in Materials
  BY <1>1 DEF ResultType
<1>3. /\ DOMAIN found \subseteq Videos
      /\ \A m \in DOMAIN found : found[m] \in Row /\ OfContent(found[m])
  BY <1>1, <1>2, MaterialsAre DEF AllOfContent
<1>4. \A m \in Updated : m \in DOMAIN found /\ rows[m] # None /\ rows[m].content = found[m].content
  BY DEF Updated, WritebackAdmitted, MayUpdate
<1>5. \A m \in Updated : Analysed(m) = [rows[m] EXCEPT !.desc = found[m].desc, !.speech = found[m].speech,
                                                       !.seen = found[m].seen, !.heard = found[m].heard]
  BY DEF Analysed
<1> HIDE DEF found
<1>6. ASSUME NEW m \in Updated PROVE Analysed(m) \in Row /\ OfContent(Analysed(m)) /\ m \in Videos
  <2>1. m \in Library /\ m \in Videos /\ rows[m] \in Row /\ found[m] \in Row /\ OfContent(found[m])
    BY <1>1, <1>3, <1>4, <1>6 DEF Library
  <2>2. PICK r, f : r = rows[m] /\ f = found[m]
    OBVIOUS
  <2>3. r \in Row /\ f \in Row /\ OfContent(f) /\ r.content = f.content
        /\ Analysed(m) = [r EXCEPT !.desc = f.desc, !.speech = f.speech, !.seen = f.seen, !.heard = f.heard]
    BY <1>4, <1>5, <1>6, <2>1, <2>2
  <2>4. /\ Analysed(m) \in Row /\ Analysed(m).content = f.content
        /\ Analysed(m).seen = f.seen /\ Analysed(m).heard = f.heard
    BY <2>3 DEF Row
  <2> QED
    BY <2>1, <2>3, <2>4 DEF OfContent
<1>7. NarrationRow \in Row /\ OfContent(NarrationRow)
  BY DEF NarrationRow, Registered, Row, OfContent
<1>8. \A m \in Library : \/ rows'[m] = rows[m]
                         \/ rows'[m] \in Row /\ OfContent(rows'[m]) /\ (m \in Videos \/ m = saga.gen)
  BY <1>6, <1>7 DEF Written
<1>9. /\ rows' \in [Library -> Row \cup {None}]
      /\ \A m \in Library : rows[m] # None => rows'[m] # None
  <2>1. DOMAIN rows' = Library /\ rows' = [m \in Library |-> rows'[m]]
    BY DEF Written
  <2>2. \A m \in Library : rows'[m] \in Row \cup {None} /\ (rows[m] # None => rows'[m] # None)
    BY <1>1, <1>8, NoneIsNone
  <2> QED
    BY <2>1, <2>2
<1>10. AnalysisIsOfContent'
  BY <1>1, <1>8 DEF AnalysisIsOfContent, OfContent
<1>11. RefsOK'
  <2>1. \A n : Referenced(n)' <=> Referenced(n)
    BY DEF Referenced
  <2> HIDE DEF Referenced
  <2> QED
    BY <1>1, <1>9, <2>1 DEF RefsOK
<1>12. \A g \in Gens : g # saga.gen => rows'[g] = rows[g]
  BY <1>8, NoneIsNone DEF Library
<1> QED
  BY <1>9, <1>10, <1>11, <1>12

(* The analyses are written back, or the staged job is given up.             *)
LEMMA WritebackHolds ==
    ASSUME IInv, Writeback PROVE IInv'
<1>1. PICK g0 : g0 = saga.gen
  OBVIOUS
<1>2. /\ saga.pc = "prepared" /\ timeline' = timeline /\ gens' = gens
      /\ UNCHANGED <<host, worker, thread, cmds, events, disk>>
      /\ rows' = rows \/ (WritebackAdmitted /\ rows' = Written)
      /\ \/ AbortWith("cancelled") \/ AbortWith("failed") \/ Goto("written")
         \/ Compensate(FALSE, "abort", "failed")
  BY DEF Writeback, UnchangedHost
<1>3. OfGeneration /\ saga.pc \notin Early /\ saga.pc \in Resulted
  BY <1>2 DEF OfGeneration, Early, Resulted
<1>4. /\ saga \in SagaType /\ SagaOK /\ ~saga.committed /\ g0 \in Gens
      /\ saga.result \in ResultType /\ host.job \in JobType /\ ~host.job.terminal
  BY <1>1, <1>2, <1>3, HeldIs DEF SagaOK
<1>5. /\ saga' \in SagaType /\ saga'.gen = saga.gen /\ saga'.rev = saga.rev
      /\ saga'.mats = saga.mats /\ saga'.result = saga.result /\ ~saga'.committed
      /\ \/ saga'.pc = "abort" /\ saga'.end \in {"failed", "cancelled"}
         \/ saga'.pc = "written"
         \/ saga'.pc = "undo" /\ saga'.after = "abort" /\ saga'.end = "failed"
  <2>1. "written" \in SagaSteps
    BY DEF SagaSteps
  <2>2. CASE AbortWith("cancelled") \/ AbortWith("failed")
    BY <1>4, <2>2, AbortWithIs
  <2>3. CASE Goto("written")
    BY <1>4, <2>1, <2>3, GotoIs
  <2>4. CASE Compensate(FALSE, "abort", "failed")
    BY <1>4, <2>4, CompensateIs
  <2> QED
    BY <1>2, <2>2, <2>3, <2>4
<1>6. OfGeneration' /\ saga'.pc \notin Early /\ saga'.pc \notin Late
  BY <1>5 DEF OfGeneration, Early, Late
<1>7. SagaOK'
  BY <1>2, <1>3, <1>4, <1>5 DEF SagaOK, Resulted, Late, OfGeneration
<1>8. /\ rows' \in [Library -> Row \cup {None}] /\ AnalysisIsOfContent' /\ RefsOK'
      /\ \A g \in Gens : g # saga.gen => rows'[g] = rows[g]
  BY <1>2, RowsRest, WrittenIs
<1>9. ASSUME NEW g \in Gens, g = saga.gen
      PROVE  Uncommitted(g) /\ AtWork(g)' /\ ~Forgetting(g)' /\ ~Saved(g)
  <2>1. Uncommitted(g) /\ ~Saved(g) /\ ~Forgetting(g)
    BY <1>2, <1>3, <1>4, <1>9, PhaseIs
  <2>2. Pending("forget", g)' <=> Pending("forget", g)
    BY <1>2, HostRests
  <2>3. /\ Forgetting(g)' <=> Pending("forget", g)'
        /\ Forgetting(g) <=> Pending("forget", g)
        /\ AtWork(g)'
    BY <1>2, <1>3, <1>5, <1>6, <1>9, NextPhaseIs
  <2> QED
    BY <2>1, <2>2, <2>3
<1>10. /\ saga'.pc # "finish" /\ saga'.pc # "commitWait" /\ (saga'.pc = "undo" => saga'.after = "abort")
       /\ saga.pc \in {"prepared", "written", "commitWait"}
  BY <1>2, <1>5
<1> QED
  BY <1>2, <1>3, <1>5, <1>6, <1>7, <1>8, <1>9, <1>10, HostRests, SagaMoves

------------------------------------------------------------------------------
(* Every behaviour *)

(* No step at all: every variable keeps its value.                           *)
LEMMA StutterHolds ==
    ASSUME IInv, UNCHANGED vars PROVE IInv'
<1>1. /\ UNCHANGED <<rows, timeline, gens, saga, host>>
      /\ UNCHANGED <<worker, thread, cmds, events, disk>>
  BY DEF vars
<1>2. TypeOK' /\ RefsOK' /\ AnalysisIsOfContent'
  BY <1>1 DEF IInv, TypeOK, RefsOK, Referenced, AnalysesOK, AnalysisIsOfContent
<1>3. AnalysesOK'
  BY <1>1, <1>2 DEF IInv, AnalysesOK, AllOfContent, Compared
<1>4. /\ disk'.job = disk.job /\ disk'.result = disk.result /\ disk'.durable = disk.durable
      /\ disk'.registry = disk.registry /\ Len(timeline) <= Len(timeline')
      /\ \A g \in Gens : gens'[g] = gens[g] /\ rows'[g] = rows[g] /\ TimelineKept(g)
      /\ \A g \in Gens, i \in 1..Len(timeline') :
             timeline'[i].by = g => i \in 1..Len(timeline) /\ timeline[i].by = g
  BY <1>1, TimelineRests DEF IInv, TypeOK
<1> QED
  BY <1>1, <1>2, <1>3, <1>4, Unmoved

(* The invariant holds of an installation nothing has been done with.        *)
LEMMA InitHolds == Init => IInv
<1> SUFFICES ASSUME Init PROVE IInv
  OBVIOUS
<1>1. /\ rows = [m \in Library |-> None] /\ timeline = <<>> /\ cmds = <<>> /\ events = <<>>
      /\ gens = [g \in Gens |-> [status |-> "none", cancel |-> FALSE]]
      /\ saga = NoSaga /\ worker = NoWorker /\ thread = NoThread
      /\ host = [up |-> FALSE, job |-> None]
      /\ disk = [content |-> [m \in Videos |-> 0], registry |-> [m \in Library |-> None],
                 job |-> [g \in Gens |-> "absent"], result |-> [g \in Gens |-> None],
                 durable |-> {}]
  BY DEF Init
<1>2. Len(timeline) = 0 /\ Len(cmds) = 0 /\ Len(events) = 0 /\ DOMAIN timeline = {}
  BY <1>1
<1>3. disk \in DiskType
  BY <1>1 DEF DiskType
<1>4. TypeOK
  <2>1. gens \in [Gens -> GenType]
    BY <1>1 DEF GenType
  <2> QED
    BY <1>1, <1>3, <2>1, RestIs DEF TypeOK
<1>5. /\ \A k, g : ~Pending(k, g) /\ ~Told(k, g)
      /\ \A g : ~Running(g) /\ ~Saved(g) /\ ~Referenced(g)
  BY <1>1, <1>2, RestIs DEF Pending, Told, Queued, Saying, Running, Saved, Referenced
<1>6. saga.pc = "off" /\ saga.gen = None /\ saga.committed = FALSE /\ saga.mats = Nothing
      /\ ~OfGeneration /\ \A g : ~In(g)
  BY <1>1, RestIs DEF OfGeneration, In, Early, Late
<1>7. AnalysesOK
  <2>1. AnalysisIsOfContent
    BY <1>1 DEF AnalysisIsOfContent
  <2>2. AllOfContent(saga.mats)
    BY <1>6, NothingIs DEF AllOfContent
  <2>3. Compared
    BY <1>1, RestIs, NothingIs DEF Compared, AllOfContent
  <2>4. saga.pc \notin Resulted
    BY <1>6 DEF Resulted, Late
  <2> QED
    BY <1>1, <2>1, <2>2, <2>3, <2>4 DEF AnalysesOK
<1>8. SagaOK
  BY <1>6 DEF SagaOK, Resulted, Late
<1>9. WorkerOK
  <2>1. \A g \in Gens : StartedOnce(g)
    BY <1>2, <1>5 DEF StartedOnce, OneStart
  <2> QED
    BY <1>1, <2>1, RestIs DEF WorkerOK
<1>10. RefsOK
  BY <1>5 DEF RefsOK
<1>11. ASSUME NEW g \in Gens PROVE PhaseOK(g) /\ SaveOK(g)
  <2>1. /\ gens[g].status = "none" /\ rows[g] = None /\ g \in Library
        /\ disk.job[g] = "absent" /\ g \notin disk.durable /\ disk.registry[g] = None
        /\ worker.staged # g /\ worker.moving # g /\ saga.gen # g
    BY <1>1, <1>6, RestIs, NoneIsNone DEF Library
  <2>2. Quiet(g) /\ Clean(g) /\ ~Forgetting(g)
    BY <1>5, <2>1 DEF Quiet, Clean, Forgetting
  <2>3. PhaseOK(g)
    BY <1>5, <1>6, <2>1, <2>2 DEF PhaseOK
  <2>4. SaveOK(g)
    BY <1>5, <1>6 DEF SaveOK
  <2> QED
    BY <2>3, <2>4
<1> QED
  BY <1>4, <1>7, <1>8, <1>9, <1>10, <1>11 DEF IInv

(* Every step of the desktop, the worker, the control plane and the user     *)
(* keeps the invariant.                                                      *)
LEMMA StepHolds == IInv /\ [Next]_vars => IInv'
<1> SUFFICES ASSUME IInv, [Next]_vars PROVE IInv'
  OBVIOUS
<1>1. CASE OpenJob \/ SourcesProved \/ FramesPrepared \/ WriteResult \/ Stage \/ Say \/ ExpireStaged
  BY <1>1, OpenJobHolds, SourcesProvedHolds, FramesPreparedHolds, WriteResultHolds, StageHolds,
     SayHolds, ExpireStagedHolds
<1>2. CASE MaterialsPrepared \/ Script \/ Select \/ BindNarration \/ CheckCancelled
  BY <1>2, MovesHold
<1>3. ASSUME NEW m \in Videos,
             ProveSource(m) \/ PrepareFrames(m) \/ UnderstandIfNeeded(m) \/ AnalyzeSpeechIfNeeded(m)
      PROVE  IInv'
  BY <1>3, ProveSourceHolds, PrepareFramesHolds, UnderstandHolds, AnalyzeSpeechHolds
<1>4. CASE \/ AcceptSmartEditStart \/ AcceptCancel \/ AcceptAbort \/ AcceptCommit
           \/ CommitRegister \/ AcceptForget \/ AcceptImport \/ WorkerDies
  BY <1>4, AcceptStartHolds, AcceptCancelHolds, AcceptAbortHolds, AcceptCommitHolds,
     CommitRegisterHolds, AcceptForgetHolds, AcceptImportHolds, WorkerDiesHolds
<1>5. ASSUME NEW g \in Gens, Start(g) \/ Cancel(g) PROVE IInv'
  BY <1>5, StartHolds, CancelHolds
<1>6. CASE ReadTimeline \/ LoadMaterials \/ Launch \/ SendCancel \/ Poll
  BY <1>6, ReadTimelineHolds, LoadMaterialsHolds, LaunchHolds, SendCancelHolds, PollHolds
<1>7. CASE Writeback \/ SendCommit \/ CommitAnswer \/ ReadLatest \/ SaveTimeline \/ ConfirmSaved
  BY <1>7, WritebackHolds, SendCommitHolds, CommitAnswerHolds, ReadLatestHolds, SaveTimelineHolds,
     ConfirmSavedHolds
<1>8. CASE \/ UndoRow \/ SendForget \/ ForgetAnswer \/ DropDurable \/ SendAbort \/ AbortAnswer
           \/ FinishOrEmergency
  BY <1>8, UndoRowHolds, SendForgetHolds, ForgetAnswerHolds, DropDurableHolds, SendAbortHolds,
     AbortAnswerHolds, FinishOrEmergencyHolds
<1>9. ASSUME NEW m \in Videos, ImportMaterial(m) \/ UserDescribes(m) \/ EditFile(m) PROVE IInv'
  BY <1>9, ImportMaterialHolds, UserDescribesHolds, EditFileHolds
<1>10. ASSUME NEW m \in Library, DeleteMaterial(m) PROVE IInv'
  BY <1>10, DeleteMaterialHolds
<1>11. CASE ImportAnswer \/ RegisterMaterial \/ UserSaves
  BY <1>11, ImportAnswerHolds, RegisterMaterialHolds, UserSavesHolds
<1>12. CASE UNCHANGED vars
  BY <1>12, StutterHolds
<1> QED
  BY <1>1, <1>2, <1>3, <1>4, <1>5, <1>6, <1>7, <1>8, <1>9, <1>10, <1>11, <1>12 DEF Next

(* The saga, the worker's two-phase job and the stored rows keep together:   *)
(* the inductive invariant, its type correctness included.                   *)
THEOREM SmartEditInvariance == Spec => [](TypeOK /\ IInv)
<1>1. IInv => TypeOK
  BY DEF IInv
<1> QED
  BY <1>1, InitHolds, StepHolds, PTL DEF Spec

(* A description or speech analysis kept with a row was computed from the    *)
(* bytes whose digest the row carries, though the file may be overwritten    *)
(* between any two steps of the worker that reads it.                        *)
THEOREM SmartEditAnalysisIsOfContent == Spec => []AnalysisIsOfContent
<1>1. IInv => AnalysisIsOfContent
  BY DEF IInv, AnalysesOK
<1> QED
  BY <1>1, SmartEditInvariance, PTL

(* A cancelled generation leaves no revision, no durable file, no registry   *)
(* entry and no job directory, whatever answers were lost on the way.        *)
THEOREM SmartEditCancelledLeavesNothing == Spec => []CancelledLeavesNothing
<1>1. IInv => CancelledLeavesNothing
  <2> SUFFICES ASSUME IInv, NEW g \in Gens, gens[g].status = "cancelled"
               PROVE  /\ \A i \in DOMAIN timeline : timeline[i].by # g
                      /\ g \notin disk.durable /\ disk.registry[g] = None
                      /\ disk.job[g] = "absent"
    BY DEF CancelledLeavesNothing
  <2>1. PhaseOK(g) /\ timeline \in Seq(RevisionType)
    BY DEF IInv, TypeOK
  <2>2. Clean(g) /\ disk.job[g] = "absent"
    BY <2>1 DEF PhaseOK
  <2>3. DOMAIN timeline = 1..Len(timeline)
    BY <2>1
  <2> QED
    BY <2>2, <2>3 DEF Clean, Saved
<1> QED
  BY <1>1, SmartEditInvariance, PTL

(* Every material a stored revision uses has its row, and every narration in *)
(* it its file and its registry entry, unless the save was overtaken.        *)
THEOREM SmartEditTimelinePlayable == Spec => []TimelinePlayable
<1>1. IInv => TimelinePlayable
  <2> SUFFICES ASSUME IInv, NEW i \in DOMAIN timeline, NEW m \in timeline[i].refs
               PROVE  rows[m] # None /\ (m \in Gens => Overtaken(m) \/ Resolves(m))
    BY DEF TimelinePlayable
  <2>1. Referenced(m)
    BY DEF Referenced
  <2>2. m \in Library
    <3>1. timeline[i] \in RevisionType
      BY DEF IInv, TypeOK
    <3> QED
      BY <3>1 DEF RevisionType
  <2>3. m \in Gens => Overtaken(m) \/ Resolves(m)
    BY <2>1 DEF IInv, SaveOK
  <2> QED
    BY <2>1, <2>2, <2>3 DEF IInv, RefsOK
<1> QED
  BY <1>1, SmartEditInvariance, PTL
=============================================================================
