--------------------------- MODULE MotionAuthoring ---------------------------
(***************************************************************************)
(* One sentence becomes a motion film.                                     *)
(*                                                                         *)
(*   App      seeds a workspace, starts the authoring process, accepts its *)
(*            answer or deletes the workspace, renders and joins the shots *)
(*            and lays the narration over the joined film;                 *)
(*   process  asks the model, narrates, composes, assembles one render per *)
(*            storyboard beat, measures the copy in a browser, asks the    *)
(*            model once for shorter copy, and answers.                    *)
(*                                                                         *)
(* Files are paths with the content the properties need: the storyboard a  *)
(* document was drawn from, the text in the slots of a part, the length of *)
(* a narration.  The code's seconds are floats; here a time is a whole      *)
(* number of ticks, PerMs of them to a millisecond.  Only the brief and     *)
(* the windows of the answer are in whole milliseconds.                     *)
(***************************************************************************)
EXTENDS Absent, Integers, Sequences, SequencesExt, FiniteSets, FiniteSetsExt

CONSTANTS Boards,         \* storyboards the model may answer with
          ScriptLengths,  \* lines of script it may answer with
          PerMs,          \* ticks to a millisecond
          Lines,          \* measured lengths of a narrated line
          Parts,          \* the packaged parts: name -> stage of the part
          BriefSeconds, BrandAssets,
          Overrides,      \* the user's part choices, <<>> for none
          Repairs(_),     \* storyboards the model may answer a repair with
          MaxShotFrames   \* MAX_FRAME_COUNT, one capture

\* MotionBrief, StoryboardBeat, component_film_metadata and measure_audio_seconds
\* refuse a length that is not positive, StoryboardArtifact an id used twice.
ASSUME AuthoringAssumption ==
    /\ MaxShotFrames \in Nat \ {0} /\ PerMs \in Nat \ {0}
    /\ BriefSeconds \subseteq Nat \ {0} /\ Lines \subseteq Nat \ {0}
    /\ \A part \in DOMAIN Parts : Parts[part].motion \in Nat \ {0}
    /\ \A b \in Boards : b \in Seq({b[i] : i \in DOMAIN b})
    /\ \A b \in Boards : \A i \in DOMAIN b :
         /\ b[i].start \in Nat /\ b[i].dur \in Nat \ {0} /\ b[i].part \in DOMAIN Parts \cup {None}
         /\ \A j \in DOMAIN b : b[i].id = b[j].id => i = j
    /\ \A choices \in Overrides : choices \in Seq(DOMAIN Parts \cup {None})

Fps == 30
Runtime == <<"asset", "gsap">>

VARIABLES
    phase,      \* the next stage of the run
    install,    \* [catalog, probe, narrator]: what the App offered
    brief,      \* [ms, brand]: requested length and brand assets
    board,      \* the storyboard the process holds
    script,     \* lines of the script
    narration,  \* measured length per beat, None for a silent film
    files,      \* the workspace: path -> content
    segments,   \* the assembled renders
    repairs,    \* model rounds left
    answer,     \* what the process wrote on stdout
    film        \* [frames, voice]: rendered shots and where each line starts

authoringVars == <<phase, install, brief, board, script, narration, files, segments,
          repairs, answer, film>>

Seeded == {Runtime}
Beats == DOMAIN board

-----------------------------------------------------------------------------
(* The workspace *)

WriteAll(fs, new) ==
    [path \in DOMAIN fs \cup DOMAIN new |-> IF path \in DOMAIN new THEN new[path] ELSE fs[path]]
Write(fs, path, content) == WriteAll(fs, [p \in {path} |-> content])
Exists(path) == path \in DOMAIN files
Rollback(fs) == [path \in DOMAIN fs \cap Seeded |-> fs[path]]

-----------------------------------------------------------------------------
(* Storyboard, composition and shot lengths *)

ApplyOverrides(b, choices) ==
    IF choices = <<>> THEN b
    ELSE [i \in DOMAIN b |->
            IF choices[i] # None THEN [b[i] EXCEPT !.part = choices[i]] ELSE b[i]]

OnlyCopyChanged(before, after) ==
    /\ DOMAIN before = DOMAIN after
    /\ \A i \in DOMAIN before : /\ before[i].id = after[i].id
                                /\ before[i].part = after[i].part
                                /\ before[i].start = after[i].start
                                /\ before[i].dur = after[i].dur

ByStart(b) == SortSeq(b, LAMBDA x, y : x.start < y.start)

\* _TOLERANCE, a microsecond.
Near(x, y) == 1000 * (x - y) \in -PerMs..PerMs

\* _compose refuses beats that do not follow each other from zero to the end;
\* the static gates ask the drawn document for the same intervals again.
Tiles(b, ms) ==
    LET s == ByStart(b)
        Cursor(i) == FoldSeq(LAMBDA beat, sum : beat.dur + sum, 0, SubSeq(s, 1, i - 1))
        After(i) == IF i = 1 THEN 0 ELSE s[i - 1].start + s[i - 1].dur
    IN  /\ \A i \in DOMAIN s : Near(s[i].start, Cursor(i)) /\ Near(s[i].start, After(i))
        /\ Near(Cursor(Len(s) + 1), ms * PerMs) /\ Near(After(Len(s) + 1), ms * PerMs)

SnapshotFrames(ms) == (ms * Fps) \div 1000

\* round: to the nearest whole number, halves to the even one.
Rounded(a, b) ==
    IF 2 * (a % b) > b \/ (2 * (a % b) = b /\ (a \div b) % 2 = 1)
      THEN (a \div b) + 1 ELSE a \div b

\* Mutant: the storyboard's own estimate decides every shot.
DeclaredShot(motion, voice, declared) == declared

\* Whichever takes longer, the line or the motion; the declared length only
\* when there is neither.
ShotLength(motion, voice, declared) ==
    LET known == {x \in {motion, voice} : x # 0}
    IN  IF known # {} THEN Max(known) ELSE declared

Frames(ticks) == (ticks * Fps + 1000 * PerMs - 1) \div (1000 * PerMs)

MotionLength(part) == IF part = None THEN 0
                  ELSE Min({Parts[part].motion, (MaxShotFrames * 1000 * PerMs) \div Fps})
VoiceLength(beat) == IF narration = None THEN 0 ELSE narration[beat.id]
PlannedLength(beat) == ShotLength(MotionLength(beat.part), VoiceLength(beat), beat.dur)
FilmFits == \A i \in Beats : Frames(PlannedLength(board[i])) <= MaxShotFrames

-----------------------------------------------------------------------------
(* Working copies of parts *)

\* Slots are filled in order from the texts of the beat.
CopyFor(beat) ==
    IF beat.part = None THEN <<>>
    ELSE SubSeq(beat.texts, 1, Min({Len(beat.texts), Parts[beat.part].slots}))

Entry(part, id) == <<"catalog", part, id>>
BaselineEntry(part) == <<"catalog-baseline", part>>

\* Only the slots a film fills carry a mark.
WorkingCopy(part, copy) ==
    [slots |-> [k \in 1..Parts[part].slots |-> IF k \in DOMAIN copy THEN copy[k] ELSE "own"],
     marks |-> DOMAIN copy]

\* What a document reaches inside the catalog.  A visual-only part may keep
\* dead references of its upstream demo; those are skipped.
ReferencedAssets(part) ==
    {<<"catalog-asset", a>> : a \in Parts[part].refs}
Copied(parts) == [path \in UNION {ReferencedAssets(part) : part \in parts} |-> <<>>]
WorkingCopyAssets(fs, part) ==
    {p \in {<<"catalog-asset", a>> : a \in Parts[part].refs \cup Parts[part].dead} :
        p \in DOMAIN fs}

\* Beat ids are unique, so no beat writes over the copy of another.
WithCopies(fs) ==
    LET drawn == {board[i] : i \in {k \in Beats : board[k].part # None}}
        At(path) == CHOOSE beat \in drawn : Entry(beat.part, beat.id) = path
    IN  WriteAll(WriteAll(fs, Copied({beat.part : beat \in drawn})),
                 [path \in {Entry(beat.part, beat.id) : beat \in drawn} |->
                    WorkingCopy(At(path).part, CopyFor(At(path)))])

TemplateAssets == Seeded \cup {<<"asset", a>> : a \in brief.brand}

\* The stretch of the document a render covers: the beat's place in the
\* composition, or the part's own timeline, in whole milliseconds.
SourceWindow(beat) ==
    IF beat.part = None
      THEN <<Rounded(beat.start, PerMs), Rounded(beat.start + beat.dur, PerMs)>>
      ELSE <<0, Rounded(Parts[beat.part].motion, PerMs)>>

Segment(beat, fs) ==
    [beat |-> beat.id, part |-> beat.part,
     entry |-> IF beat.part = None THEN <<"composition">> ELSE Entry(beat.part, beat.id),
     assets |-> IF beat.part = None THEN TemplateAssets ELSE WorkingCopyAssets(fs, beat.part),
     frames |-> Frames(PlannedLength(beat)),
     window |-> SourceWindow(beat),
     audio |-> IF narration = None THEN None ELSE <<"narration", beat.id>>,
     voice |-> VoiceLength(beat)]

WholeComposition ==
    [beat |-> None, part |-> None, entry |-> <<"composition">>, assets |-> TemplateAssets,
     frames |-> SnapshotFrames(brief.ms),
     window |-> <<0, Rounded(SnapshotFrames(brief.ms) * 1000, Fps)>>, audio |-> None, voice |-> 0]

-----------------------------------------------------------------------------
(* Measuring the copy *)

Judged == SelectSeq(board, LAMBDA beat : CopyFor(beat) # <<>>)

\* A baseline is the part with its own copy, marked where this beat writes.
Baseline(part, copy) == [WorkingCopy(part, copy) EXCEPT !.slots = [k \in DOMAIN @ |-> "own"]]

\* One baseline a part: the last beat that fills it stands.
WithBaselines(fs) ==
    LET parts == {beat.part : beat \in Range(Judged)}
        Final(part) == Judged[Max({k \in DOMAIN Judged : Judged[k].part = part})]
    IN  WriteAll(WriteAll(fs, Copied(parts)),
                 [path \in {BaselineEntry(part) : part \in parts} |->
                    Baseline(path[2], CopyFor(Final(path[2])))])

\* All documents are written before the one browser session reads any.
Unmeasured(fs) ==
    \E k \in DOMAIN Judged :
        LET beat == Judged[k]
        IN  ~(DOMAIN CopyFor(beat) \subseteq
                fs[BaselineEntry(beat.part)].marks \cap fs[Entry(beat.part, beat.id)].marks)

Offends(fs, beat) ==
    \E k \in fs[Entry(beat.part, beat.id)].marks :
        fs[Entry(beat.part, beat.id)].slots[k] = "long"
Overflows(fs) == \E k \in DOMAIN Judged : Offends(fs, Judged[k])

-----------------------------------------------------------------------------
(* The authoring process *)

WriteAnswer(status) == answer = None /\ answer' = status /\ phase' = "answered"

\* Outcomes nobody read the brief for are not answered as a refusal of it.
NonRefusals ==
    [model_configuration_required |-> {"model unavailable"},
     model_timed_out |-> {"model timed out"},
     model_transport_failed |-> {"model transport failed", "voiceover synthesis failed"},
     executor_defect |-> {"catalog part overrides do not match storyboard beats",
                          "slot overflow probe failed to measure"},
     app_request_invalid |-> {"workspace is not a usable render workspace"}]
AnswerStatus(reason) ==
    IF \E status \in DOMAIN NonRefusals : reason \in NonRefusals[status]
    THEN CHOOSE status \in DOMAIN NonRefusals : reason \in NonRefusals[status]
    ELSE "rejected"
AnswerRefusal(reason) == WriteAnswer([status |-> AnswerStatus(reason), reason |-> reason])

\* An exception the entry does not translate ends the process with a
\* traceback and nothing on stdout.
Crash == phase' = "crashed" /\ UNCHANGED answer

ModelFails ==
    /\ phase \in {"asking", "repairing"}
    /\ \/ phase = "asking" /\ AnswerRefusal("model unavailable")
       \/ \E reason \in {"model timed out", "model transport failed", "model reply malformed"} :
            AnswerRefusal(reason)
    /\ UNCHANGED <<install, brief, board, script, narration, files, segments, repairs, film>>

\* author refuses a length one capture cannot hold before it asks the model.
TooLong ==
    /\ phase = "asking" /\ ~install.catalog
    /\ SnapshotFrames(brief.ms) > MaxShotFrames
    /\ AnswerRefusal("duration exceeds the snapshot frame budget")
    /\ UNCHANGED <<install, brief, board, script, narration, files, segments, repairs, film>>

Ask ==
    /\ phase = "asking"
    /\ install.catalog \/ SnapshotFrames(brief.ms) <= MaxShotFrames
    /\ \E b \in Boards, lines \in ScriptLengths, choices \in Overrides :
         LET drafted == Write(Write(files, <<"DESIGN">>, <<>>), <<"SCRIPT">>, <<lines>>)
         IN  IF choices # <<>> /\ Len(choices) # Len(b)
             THEN /\ files' = drafted
                  /\ AnswerRefusal("catalog part overrides do not match storyboard beats")
                  /\ UNCHANGED <<board, script>>
             ELSE /\ board' = ApplyOverrides(b, choices)
                  /\ script' = lines
                  /\ files' = Write(drafted, <<"STORYBOARD">>, board')
                  /\ phase' = IF install.narrator /\ install.catalog
                              THEN "narrating" ELSE "composing"
                  /\ UNCHANGED answer
    /\ UNCHANGED <<install, brief, narration, segments, repairs, film>>

Narrated(lengths) ==
    WriteAll(files, [path \in {<<"narration", board[i].id>> : i \in DOMAIN lengths} |->
                       LET i == CHOOSE k \in DOMAIN lengths : board[k].id = path[2]
                       IN  <<lengths[i]>>])

\* One line per beat, synthesized once and measured; any failure on the way,
\* a full disk included, refuses the run.
Narrate ==
    /\ phase = "narrating"
    /\ IF script # Len(board)
       THEN /\ AnswerRefusal("script beats must match storyboard beats one to one")
            /\ UNCHANGED <<files, narration>>
       ELSE \E k \in 0..Len(board) : \E lengths \in [1..k -> Lines] :
              IF k < Len(board)
              THEN /\ files' \in {Narrated(lengths), Rollback(files)}
                   /\ AnswerRefusal("voiceover synthesis failed")
                   /\ UNCHANGED narration
              ELSE /\ files' = Narrated(lengths)
                   /\ narration' = [id \in {board[i].id : i \in Beats} |->
                                      lengths[CHOOSE i \in Beats : board[i].id = id]]
                   /\ phase' = "composing"
                   /\ UNCHANGED answer
    /\ UNCHANGED <<install, brief, board, script, segments, repairs, film>>

Compose ==
    /\ phase = "composing"
    /\ IF ~Tiles(board, brief.ms)
       THEN AnswerRefusal("storyboard beats must tile the film") /\ UNCHANGED files
       ELSE /\ files' = Write(files, <<"composition">>, ByStart(board))
            /\ phase' = "assembling"
            /\ UNCHANGED answer
    /\ UNCHANGED <<install, brief, board, script, narration, segments, repairs, film>>

\* Every shot is planned before a part is copied; a shot one capture cannot
\* hold raises an error nobody translates.
Assemble ==
    /\ phase = "assembling"
    /\ \/ /\ ~install.catalog
          /\ IF \E i \in Beats : board[i].part # None
             THEN AnswerRefusal("no parts catalog") /\ UNCHANGED segments
             ELSE segments' = <<WholeComposition>> /\ phase' = "submitting" /\ UNCHANGED answer
          /\ UNCHANGED files
       \/ /\ install.catalog /\ ~FilmFits
          /\ Crash
          /\ UNCHANGED <<files, segments>>
       \/ /\ install.catalog /\ FilmFits
          /\ files' = WithCopies(files)
          /\ segments' = [i \in Beats |-> Segment(board[i], files')]
          /\ phase' = IF install.probe /\ Judged # <<>> THEN "measuring" ELSE "submitting"
          /\ UNCHANGED answer
    /\ UNCHANGED <<install, brief, board, script, narration, repairs, film>>

Measure ==
    /\ phase = "measuring"
    /\ files' = WithBaselines(files)
    /\ \/ AnswerRefusal("slot overflow probe failed to measure")
       \/ /\ ~Unmeasured(files')
          /\ IF ~Overflows(files') THEN phase' = "submitting" /\ UNCHANGED answer
             ELSE IF repairs = 0 THEN AnswerRefusal("copy overflows its slot after the repair round")
             ELSE phase' = "repairing" /\ UNCHANGED answer
    /\ UNCHANGED <<install, brief, board, script, narration, segments, repairs, film>>

Repair ==
    /\ phase = "repairing"
    /\ \E b \in Repairs(board) :
         IF OnlyCopyChanged(board, b)
         THEN /\ board' = b
              /\ files' = Write(files, <<"STORYBOARD">>, b)
              /\ repairs' = repairs - 1
              /\ phase' = "composing"
              /\ UNCHANGED answer
         ELSE /\ AnswerRefusal("repair round altered more than copy")
              /\ UNCHANGED <<board, files, repairs>>
    /\ UNCHANGED <<install, brief, script, narration, segments, film>>

Submit ==
    /\ phase = "submitting"
    /\ IF \A a \in TemplateAssets : Exists(a)
       THEN /\ files' = Write(files, <<"renderjob">>, <<SnapshotFrames(brief.ms)>>)
            /\ WriteAnswer([status |-> "authored", reason |-> None])
       ELSE AnswerRefusal("declared asset must exist") /\ UNCHANGED files
    /\ UNCHANGED <<install, brief, board, script, narration, segments, repairs, film>>

\* A write that fails takes every authored file back with it.
PersistenceFails ==
    /\ phase \in {"asking", "composing", "assembling", "measuring", "repairing", "submitting"}
    /\ files' = Rollback(files)
    /\ AnswerRefusal("workspace is not a usable render workspace")
    /\ UNCHANGED <<install, brief, board, script, narration, segments, repairs, film>>

-----------------------------------------------------------------------------
(* The App *)

\* accept_authored_render_job re-derives or re-checks every field.
SegmentAccepted(s) ==
    /\ Exists(s.entry) /\ \A a \in s.assets : Exists(a)
    /\ s.part = None => s.entry = <<"composition">> /\ Runtime \in s.assets
    /\ s.frames \in 1..MaxShotFrames
    /\ s.window[1] < s.window[2]
    /\ s.audio # None => /\ Exists(s.audio) /\ s.voice > 0
                         /\ s.voice * Fps <= (s.frames * 1000 + 500 * Fps) * PerMs

Accept ==
    /\ phase = "answered" /\ answer.status = "authored"
    /\ phase' = IF /\ Exists(<<"composition">>)
                   /\ \A i \in DOMAIN segments : SegmentAccepted(segments[i])
                THEN "accepted" ELSE "declined"
    /\ UNCHANGED <<install, brief, board, script, narration, files, segments, repairs, answer, film>>

\* Any other outcome deletes the workspace.
Discard ==
    /\ \/ phase \in {"crashed", "declined"}
       \/ phase = "answered" /\ answer.status # "authored"
    /\ phase' = "ended"
    /\ files' = [p \in {} |-> <<>>]
    /\ UNCHANGED <<install, brief, board, script, narration, segments, repairs, answer, film>>

Sum(s) == FoldSeq(+, 0, s)

NarrationStarts(shots) ==
    [i \in DOMAIN shots |-> Sum([k \in 1..(i - 1) |-> shots[k].frames])]

\* The shots are rendered and decoded, each within a frame of its declaration
\* and the film within a frame at every boundary; the lines are laid by the
\* declared frames.
Join ==
    /\ phase = "accepted"
    /\ \E drift \in [DOMAIN segments -> {-1, 0, 1}] :
         LET shots == [i \in DOMAIN segments |-> segments[i].frames + drift[i]]
         IN  /\ \A i \in DOMAIN segments : shots[i] > 0
             /\ \A i \in DOMAIN segments : Sum([k \in 1..i |-> drift[k]]) \in {-1, 0, 1}
             /\ film' = [shots |-> shots, lines |-> NarrationStarts(segments)]
    /\ phase' = "ended"
    /\ UNCHANGED <<install, brief, board, script, narration, files, segments, repairs, answer>>

-----------------------------------------------------------------------------
AuthoringInit ==
    /\ phase = "asking"
    /\ install \in [catalog : BOOLEAN, probe : BOOLEAN, narrator : BOOLEAN]
    /\ brief \in [ms : {s * 1000 : s \in BriefSeconds}, brand : BrandAssets]
    /\ board = <<>> /\ script = 0 /\ narration = None
    /\ files = [p \in Seeded |-> <<>>]
    /\ segments = <<>> /\ repairs = 1 /\ answer = None /\ film = None

AuthoringNext ==
    \/ ModelFails \/ TooLong \/ Ask \/ Narrate \/ Compose \/ Assemble \/ Measure
    \/ Repair \/ Submit \/ PersistenceFails \/ Accept \/ Discard \/ Join

AuthoringSpec == AuthoringInit /\ [][AuthoringNext]_authoringVars

-----------------------------------------------------------------------------
(* Properties *)

\* A beat of at most a millisecond, or such a part, whose window has no length
\* once both ends are rounded.
Vanishes(beat) ==
    /\ SourceWindow(beat)[1] >= SourceWindow(beat)[2]
    /\ PerMs >= IF beat.part = None THEN beat.dur ELSE Parts[beat.part].motion

\* Both sides derive the same frames, narration lengths and files, so a run
\* the user waited for is not lost to a disagreement.  The App declines what
\* the process answers as authored only over beats that vanish: the process
\* takes any length above zero (agent.py:841) and rounds the window
\* (film_assembly.py:297), the App wants one with a length
\* (motion_video_studio.rs:2032).
AuthoredIsAccepted ==
    phase = "declined" =>
        /\ Exists(<<"composition">>)
        /\ \A i \in DOMAIN segments :
              SegmentAccepted(segments[i]) \/ (install.catalog /\ Vanishes(board[i]))

\* Every run that ended without an authored film told the App so.
EveryFailureAnswers == phase # "crashed"
=============================================================================
