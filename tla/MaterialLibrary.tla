---------------------------- MODULE MaterialLibrary ----------------------------
(***************************************************************************)
(* The user's material library.  A material is a row of the control plane  *)
(* (its facts and its digest, never a path) and a mapping of the local     *)
(* registry (which file it was made from, and that file's identity).       *)
(*                                                                         *)
(*   App      imports, deletes and asks for the status of one material at  *)
(*            a time, writing commands to the worker and reading the next  *)
(*            line of the worker as the answer;                            *)
(*   worker   one material thread at a time probes a file and rewrites the *)
(*            registry document; the preview server of the same process    *)
(*            opens the registry from its own threads.                     *)
(*                                                                         *)
(* A file is its identity (device, inode, mtime, size); an edit gives it a *)
(* new one.  Rendering and smart edits share the gate and are left out.    *)
(***************************************************************************)
EXTENDS Absent, Integers, Sequences, FiniteSets

CONSTANTS Paths, Digests,
          MaxImports,   \* bound: materials ever registered
          MaxOperations,\* bound: operations the user starts
          MaxEdits,     \* bound: edits of files
          MaxFaults     \* bound: lost answers, failing writes, deaths

Ids == 1..MaxImports

\* A call of the worker, an operation of the App (step: the call or the request
\* that is due), the registry document, and the call the material thread runs
\* with its copy of the document and the identities it has seen.
Calls == {"import", "status", "forget"}
Command == [kind : Calls, id : Ids]
Operation == [kind : {"import", "delete", "status"},
              step : {"import", "find", "register", "recheck", "undo", "drop", "remap", "unmap",
                      "status", "delete row", "forget"},
              id : Ids, path : Paths \cup {None}, digest : Digests \cup {None},
              other : Ids \cup {None}, waiting : Command \cup {None}]
Document == UNION {[S -> [path : Paths, ident : Nat]] : S \in SUBSET Ids}
Thread == [kind : Calls, id : Ids, path : Paths \cup {None},
           step : {"open", "probe", "digest", "hold", "register", "replace", "confirm"},
           entries : Document \cup {None}, approved : Nat \cup {None},
           before : Nat \cup {None}, digest : Digests \cup {None},
           answer : {"registered", "forgotten", "taken back", None}]

ASSUME LibraryAssumption ==
    /\ IsFiniteSet(Paths)
    /\ MaxImports \in Nat /\ MaxOperations \in Nat /\ MaxEdits \in Nat /\ MaxFaults \in Nat
    /\ None \notin Nat \cup Calls \cup Command \cup Operation \cup Thread

VARIABLES
    disk,       \* path -> identity of the file there, None when missing
    bytes,      \* identity -> digest of those bytes
    rows,       \* the control plane: material id -> digest
    used,       \* materials a timeline references
    op,         \* the App operation holding the gate, or None
    result,     \* how the last operation ended
    unsettled,  \* materials whose last operation ended without certainty
    worker,     \* [up, active]: the process and its one operation slot
    lines,      \* answers the App has not read
    thread,     \* the material thread
    doc,        \* the registry document: material id -> [path, ident]
    scratch,    \* a scratch file of the document exists
    preview,    \* one preview request
    imports, started, faults

appVars == <<op, result, unsettled, imports, started>>
workerVars == <<worker, lines, thread>>
libraryVars == <<disk, bytes, rows, used, appVars, workerVars, doc, scratch, preview, faults>>

Forgotten(f, id) == [i \in DOMAIN f \ {id} |-> f[i]]
Noted(f, id, x) == [i \in DOMAIN f \cup {id} |-> IF i = id THEN x ELSE f[i]]
Fault == faults < MaxFaults /\ faults' = faults + 1
NoFault == UNCHANGED faults

-----------------------------------------------------------------------------
(* The App *)

\* worker_error, compensation_failed and the refusals: an operation ends with
\* a result, and with the materials it leaves uncertain.
End(kind, id, doubtful) ==
    /\ op' = None
    /\ result' = [kind |-> kind, id |-> id]
    /\ unsettled' = IF kind \in {"imported", "deleted"} THEN unsettled \ {id}
                    ELSE unsettled \cup doubtful

Step(step) == op' = [op EXCEPT !.step = step] /\ UNCHANGED <<result, unsettled>>
Due(step) == op # None /\ op.step = step /\ op.waiting = None

\* ensure_worker restarts a process that has exited; its pipe starts empty.
EnsureWorker ==
    IF worker.up THEN UNCHANGED <<worker, lines>>
    ELSE worker' = [up |-> TRUE, active |-> None] /\ lines' = <<>>

Start(kind, step, id, path) ==
    /\ op = None /\ started < MaxOperations
    /\ started' = started + 1
    /\ op' = [kind |-> kind, step |-> step, id |-> id, path |-> path,
              digest |-> None, other |-> None, waiting |-> None]
    /\ result' = None
    /\ EnsureWorker
    /\ UNCHANGED <<disk, bytes, rows, used, unsettled, thread, doc, scratch, preview, faults>>

ImportMaterial ==
    /\ imports < MaxImports /\ imports' = imports + 1
    /\ \E path \in Paths : Start("import", "import", imports + 1, path)

DeleteMaterial ==
    \E id \in 1..imports : Start("delete", "status", id, None) /\ UNCHANGED imports

MaterialStatus ==
    \E id \in 1..imports : Start("status", "status", id, None) /\ UNCHANGED imports

\* A command the worker gets while its slot is taken is dropped unanswered.
Send(kind, id) ==
    /\ op' = [op EXCEPT !.waiting = [kind |-> kind, id |-> id]]
    /\ IF worker.up /\ worker.active = None
       THEN /\ worker' = [worker EXCEPT !.active = kind]
            /\ thread' = [kind |-> kind, id |-> id, path |-> op.path, step |-> "open",
                          entries |-> None, approved |-> None, before |-> None, digest |-> None,
                          answer |-> None]
       ELSE UNCHANGED <<worker, thread>>
    /\ UNCHANGED <<disk, bytes, rows, used, result, unsettled, imports, started, lines, doc,
                   scratch, preview, faults>>

SendCommand ==
    \/ Due("import") /\ Send("import", op.id)
    \/ Due("status") /\ Send("status", op.id)
    \/ Due("undo") /\ Send("forget", op.id)
    \/ Due("drop") /\ Send("forget", op.id)
    \/ Due("remap") /\ Send("import", op.other)
    \/ Due("unmap") /\ Send("forget", op.other)
    \/ Due("forget") /\ Send("forget", op.id)

\* The answer sends the operation on.
Onto(step) == op' = [op EXCEPT !.step = step, !.waiting = None] /\ UNCHANGED <<result, unsettled>>

\* How each call takes an answer: ok with what the worker read, a refusal, or
\* no answer it can use.  A first import refused for the registry's sake may have
\* left its mapping.
TakeAnswer(ok, digest, code) ==
    CASE op.step = "import" ->
           IF ok THEN /\ op' = [op EXCEPT !.step = "find", !.waiting = None, !.digest = digest]
                      /\ UNCHANGED <<result, unsettled>>
           ELSE End("refused", op.id, IF code = "registry" THEN {op.id} ELSE {})
      [] op.step = "status" ->
           IF op.kind = "status" THEN End("status", op.id, {}) ELSE Onto("delete row")
      [] op.step = "undo" ->
           IF ok THEN End("refused", op.id, {}) ELSE End("compensation", op.id, {op.id})
      [] op.step = "drop" ->
           IF ok THEN Onto("remap") ELSE End("compensation", op.id, {op.id})
      [] op.step = "remap" ->
           IF ~ok THEN End("uncertain", op.other, {op.other})
           ELSE IF digest = op.digest THEN End("imported", op.other, {})
           ELSE Onto("unmap")
      [] op.step = "unmap" ->
           IF ok THEN End("refused", op.other, {}) ELSE End("compensation", op.other, {op.other})
      [] op.step = "forget" ->
           IF ok THEN End("deleted", op.id, {}) ELSE End("compensation", op.id, {op.id})

\* A call that gets no usable answer: the first call of an operation ends it,
\* a compensation counts as failed.
Unanswered ==
    IF op.step \in {"import", "status"} THEN End("lifecycle", op.id, {op.id})
    ELSE TakeAnswer(FALSE, None, "lost")

\* Mutant: the answer is not compared with the request's material.
SameKind(line) == line.kind = op.waiting.kind

IsAnswer(line) == line.kind = op.waiting.kind /\ line.id = op.waiting.id

\* The next line is read as the answer; another command's line is refused.
Receive ==
    /\ op # None /\ op.waiting # None /\ lines # <<>>
    /\ lines' = Tail(lines)
    /\ IF IsAnswer(Head(lines))
       THEN TakeAnswer(Head(lines).ok, Head(lines).digest, Head(lines).code) ELSE Unanswered
    /\ UNCHANGED <<disk, bytes, rows, used, imports, started, worker, thread, doc, scratch,
                   preview, faults>>

\* request_timeout, or the pipe of a process that ended.
GiveUp ==
    /\ op # None /\ op.waiting # None /\ lines = <<>>
    /\ IF worker.up THEN Fault ELSE NoFault
    /\ Unanswered
    /\ UNCHANGED <<disk, bytes, rows, used, imports, started, workerVars, doc, scratch, preview>>

\* Calls of the control plane, each of which may fail before or after it took
\* effect.
Owner(digest) == {id \in DOMAIN rows : rows[id] = digest}

Found(owners) ==
    IF owners = {} THEN Step("register")
    ELSE \E other \in owners :
           op' = [op EXCEPT !.step = "drop", !.other = other] /\ UNCHANGED <<result, unsettled>>

FindByDigest ==
    /\ Due("find")
    /\ \/ Found(Owner(op.digest)) /\ NoFault
       \/ Step("undo") /\ Fault
    /\ UNCHANGED rows

Register ==
    /\ Due("register")
    /\ \/ rows' = Noted(rows, op.id, op.digest) /\ End("imported", op.id, {}) /\ NoFault
       \/ rows' = Noted(rows, op.id, op.digest) /\ Step("recheck") /\ Fault
       \/ UNCHANGED rows /\ Step("recheck") /\ Fault

Recheck ==
    /\ Due("recheck")
    /\ \/ /\ NoFault
          /\ IF Owner(op.digest) = {op.id} THEN End("imported", op.id, {})
             ELSE IF Owner(op.digest) = {} THEN Step("undo")
             ELSE Found(Owner(op.digest))
       \/ Step("undo") /\ Fault
    /\ UNCHANGED rows

\* A material a timeline references is not deleted; an absent one counts as
\* deleted.
DeleteRow ==
    /\ Due("delete row")
    /\ IF op.id \in used THEN End("refused", op.id, {}) /\ UNCHANGED rows /\ NoFault
       ELSE \/ rows' = Forgotten(rows, op.id) /\ Step("forget") /\ NoFault
            \/ rows' = Forgotten(rows, op.id) /\ End("control plane", op.id, {op.id}) /\ Fault
            \/ UNCHANGED rows /\ End("control plane", op.id, {}) /\ Fault

ControlPlane ==
    /\ FindByDigest \/ Register \/ Recheck \/ DeleteRow
    /\ UNCHANGED <<disk, bytes, used, imports, started, workerVars, doc, scratch, preview>>

AppExits ==
    /\ op # None /\ Fault
    /\ op' = None /\ result' = None
    /\ unsettled' = unsettled \cup {op.id} \cup ({op.other} \ {None})
    /\ worker' = [up |-> FALSE, active |-> None] /\ lines' = <<>> /\ thread' = None
    /\ preview' = None
    /\ UNCHANGED <<disk, bytes, rows, used, imports, started, doc, scratch>>

-----------------------------------------------------------------------------
(* The material thread *)

At(step) == thread # None /\ thread.step = step
ReplyCode(ok, digest, code) ==
    /\ lines' = Append(lines, [kind |-> thread.kind, id |-> thread.id, ok |-> ok,
                               digest |-> digest, code |-> code])
    /\ worker' = [worker EXCEPT !.active = None]
    /\ thread' = None
Reply(ok, digest) == ReplyCode(ok, digest, IF ok THEN "ok" ELSE "probe")
Goes(changed) == thread' = changed /\ UNCHANGED <<worker, lines>>
ThreadOnly == UNCHANGED <<disk, bytes, rows, used, appVars, preview>>

ThreadAt(step) == At(step) /\ ThreadOnly /\ NoFault /\ UNCHANGED <<doc, scratch>>
File == disk[thread.path]

\* register and forget serialise the entries they read when the registry was
\* opened, with one change, into a scratch file.
Writes(entries, answer) ==
    /\ scratch' = TRUE
    /\ Goes([thread EXCEPT !.step = "replace", !.entries = entries, !.answer = answer])

\* Opening the registry sweeps scratch files and loads the document.
ThreadOpens ==
    /\ At("open") /\ ThreadOnly /\ NoFault
    /\ UNCHANGED doc
    /\ CASE thread.kind = "import" ->
              /\ scratch' = FALSE
              /\ IF File = None THEN Reply(FALSE, None)
                 ELSE Goes([thread EXCEPT !.step = "probe", !.entries = doc,
                                          !.approved = File])
         [] thread.kind = "forget" ->
              IF thread.id \in DOMAIN doc
              THEN Writes(Forgotten(doc, thread.id), "forgotten")
              ELSE scratch' = FALSE /\ Reply(TRUE, None)
         [] thread.kind = "status" ->
              scratch' = FALSE /\ Reply(TRUE, None)

\* The probe notes the file it starts on; ffprobe and the loudness pass may
\* refuse it.
ThreadMeasures ==
    /\ ThreadAt("probe")
    /\ \/ Reply(FALSE, None)
       \/ File # None /\ Goes([thread EXCEPT !.step = "digest", !.before = File])

ThreadDigests ==
    /\ ThreadAt("digest")
    /\ IF File = None THEN Reply(FALSE, None)
       ELSE Goes([thread EXCEPT !.step = "hold", !.digest = bytes[File]])

HeldStill == File = thread.before

ThreadHolds ==
    /\ ThreadAt("hold")
    /\ IF HeldStill THEN Goes([thread EXCEPT !.step = "register"]) ELSE Reply(FALSE, None)

ThreadRegisters ==
    /\ At("register") /\ ThreadOnly /\ NoFault
    /\ IF File = None THEN Reply(FALSE, None) /\ UNCHANGED scratch
       ELSE Writes(Noted(thread.entries, thread.id, [path |-> thread.path, ident |-> File]),
                   "registered")
    /\ UNCHANGED doc

\* os.replace publishes the document; without its scratch file it fails, and
\* so may the disk.
ThreadReplaces ==
    /\ At("replace") /\ ThreadOnly
    /\ scratch' = FALSE
    /\ \/ /\ scratch /\ NoFault
          /\ doc' = thread.entries
          /\ CASE thread.answer = "registered" -> Goes([thread EXCEPT !.step = "confirm"])
               [] thread.answer = "forgotten" -> Reply(TRUE, None)
               [] thread.answer = "taken back" -> Reply(FALSE, None)
       \/ /\ IF scratch THEN Fault ELSE NoFault
          /\ UNCHANGED doc
          /\ ReplyCode(FALSE, None, "registry")

TakeBack == Writes(Forgotten(thread.entries, thread.id), "taken back")

\* Mutant: some file at the path is enough.
StillSomeFile == File # None

StillApproved == File = thread.approved

\* The approved file must still be there; otherwise the mapping is taken back
\* within the same operation.
ThreadConfirms ==
    /\ At("confirm") /\ ThreadOnly /\ NoFault
    /\ IF StillApproved
       THEN Reply(TRUE, thread.digest) /\ UNCHANGED scratch
       ELSE TakeBack
    /\ UNCHANGED doc

WorkerDies ==
    /\ worker.up /\ Fault
    /\ worker' = [up |-> FALSE, active |-> None]
    /\ thread' = None /\ preview' = None
    /\ UNCHANGED <<disk, bytes, rows, used, appVars, lines, doc, scratch>>

MaterialThread ==
    \/ ThreadOpens \/ ThreadMeasures \/ ThreadDigests \/ ThreadHolds
    \/ ThreadRegisters \/ ThreadReplaces \/ ThreadConfirms

-----------------------------------------------------------------------------
(* A preview request *)

PreviewOnly == UNCHANGED <<disk, bytes, rows, used, appVars, workerVars, doc, faults>>

\* resolve: the file registered for the material, if it is still that file.
Resolves(id) == id \in DOMAIN doc /\ disk[doc[id].path] = doc[id].ident

\* Every registry a preview opens sweeps the directory too.
PreviewResolves ==
    /\ worker.up /\ preview = None
    /\ \E id \in 1..imports :
         preview' = IF Resolves(id)
                    THEN [id |-> id, step |-> "resolved", path |-> doc[id].path,
                          approved |-> doc[id].ident, opened |-> None, intact |-> TRUE,
                          doubtful |-> FALSE]
                    ELSE None
    /\ scratch' = FALSE
    /\ PreviewOnly

\* The probe of the stream facts checks the identity as the open does.
PreviewOpens ==
    /\ preview # None /\ preview.step = "resolved"
    /\ preview' = IF disk[preview.path] = preview.approved
                  THEN [preview EXCEPT !.step = "opened", !.opened = disk[preview.path]] ELSE None
    /\ UNCHANGED scratch
    /\ PreviewOnly

Unsure(id) == id \in unsettled \/ (op # None /\ id \in {op.id, op.other})

ResolvedAgain == Resolves(preview.id) /\ doc[preview.id].path = preview.path

\* The mapping is resolved again before the lease is granted.
PreviewLeased ==
    /\ preview # None /\ preview.step = "opened"
    /\ preview' = IF preview.intact /\ ResolvedAgain
                  THEN [preview EXCEPT !.step = "leased", !.doubtful = Unsure(preview.id)] ELSE None
    /\ scratch' = FALSE
    /\ PreviewOnly

\* Reads check the opened file before and after; any change ends the lease.
PreviewEnds ==
    /\ preview # None /\ preview.step = "leased"
    /\ preview' = None
    /\ UNCHANGED scratch
    /\ PreviewOnly

Preview == PreviewResolves \/ PreviewOpens \/ PreviewLeased \/ PreviewEnds

-----------------------------------------------------------------------------
(* The user's disk and timelines *)

\* A file is written in place, replaced by another one, or removed.
EditFile ==
    /\ Len(bytes) < Cardinality(Paths) + MaxEdits
    /\ \E path \in Paths, digest \in Digests \cup {None}, inPlace \in BOOLEAN :
         /\ inPlace => digest # None /\ disk[path] # None
         /\ bytes' = Append(bytes, digest)
         /\ disk' = [disk EXCEPT ![path] = IF digest = None THEN None ELSE Len(bytes')]
         /\ preview' = IF preview = None THEN None
                       ELSE [preview EXCEPT !.intact = @ /\ ~(inPlace /\ preview.path = path)]
    /\ UNCHANGED <<rows, used, appVars, workerVars, doc, scratch, faults>>

UseInTimeline ==
    /\ op = None
    /\ \E id \in DOMAIN rows \ used : used' = used \cup {id}
    /\ UNCHANGED <<disk, bytes, rows, appVars, workerVars, doc, scratch, preview, faults>>

-----------------------------------------------------------------------------
LibraryInit ==
    /\ bytes \in [1..Cardinality(Paths) -> Digests]
    /\ disk \in [Paths -> 1..Cardinality(Paths)]
    /\ \A p, q \in Paths : disk[p] = disk[q] => p = q
    /\ rows = [i \in {} |-> None] /\ used = {}
    /\ op = None /\ result = None /\ unsettled = {}
    /\ worker = [up |-> FALSE, active |-> None] /\ lines = <<>> /\ thread = None
    /\ doc = [i \in {} |-> None] /\ scratch = FALSE /\ preview = None
    /\ imports = 0 /\ started = 0 /\ faults = 0

LibraryNext ==
    \/ ImportMaterial \/ DeleteMaterial \/ MaterialStatus
    \/ SendCommand \/ Receive \/ GiveUp \/ ControlPlane \/ AppExits
    \/ MaterialThread \/ WorkerDies \/ Preview \/ EditFile \/ UseInTimeline

LibrarySpec == LibraryInit /\ [][LibraryNext]_libraryVars

-----------------------------------------------------------------------------
(* Properties *)

\* When nothing is under way, a file stays mapped only for a material the
\* control plane knows, or for one the user was told is not settled: every
\* refused or failed import takes its mapping back.
MappingsHaveRows ==
    op = None /\ thread = None => DOMAIN doc \subseteq DOMAIN rows \cup unsettled

\* A mapping that still resolves leads to the bytes the material was
\* registered with, whatever was edited while it was imported or remapped.
MappingShowsItsRow ==
    \A id \in DOMAIN rows : Resolves(id) /\ ~Unsure(id) => bytes[doc[id].ident] = rows[id]

\* An import that reports success has a row and a mapping, and a delete that
\* reports success left neither, although the answers come from a queue that
\* may hold the lines of abandoned commands.
OutcomeIsTrue ==
    result # None =>
      /\ result.kind = "imported" => result.id \in DOMAIN rows \cap DOMAIN doc
      /\ result.kind = "deleted" => result.id \notin DOMAIN rows \cup DOMAIN doc

\* What a preview serves is the material, not a file that took its place
\* between the resolution, the open and the reads.
PreviewIsItsRow ==
    preview # None /\ preview.step = "leased" /\ preview.intact /\ ~preview.doubtful
      /\ preview.id \in DOMAIN rows => bytes[preview.opened] = rows[preview.id]

\* Sweeping removes the scratch files of writes that were killed and of no
\* others.
SweepSparesLiveWrites == At("replace") => scratch
=============================================================================
