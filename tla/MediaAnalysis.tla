---------------------------- MODULE MediaAnalysis ----------------------------
(***************************************************************************)
(* What the workers find out about one file before a smart edit can use    *)
(* it.                                                                     *)
(*                                                                         *)
(*   import   ffprobe and a measuring pass become facts, which the worker, *)
(*            the desktop shell and the control plane each check again;    *)
(*   prepare  the picture is decoded whole, frames are chosen by scene     *)
(*            cuts and by time, a vision model names the shots, and voice  *)
(*            detection with transcription finds the speech;               *)
(*   store    a snapshot of the enriched material is taken, a silent one   *)
(*            is offered to the model that matches the script, the shell   *)
(*            checks the snapshot and the control plane takes it again,    *)
(*            not knowing the material's duration.                         *)
(*                                                                         *)
(* Times are the code's integer milliseconds.  A text is what the checks   *)
(* tell of it: its length, and whether it is plain, holds a line break or  *)
(* a tab, or is ill (with blanks around it, or another control character). *)
(* A file is a record of what its tools and models answer and of what a    *)
(* person wrote of it; the answers are fixed with the file, so that a      *)
(* behaviour is one file's way through the stages.                         *)
(***************************************************************************)
EXTENDS Integers, Sequences, SequencesExt, FiniteSets, FiniteSetsExt

CONSTANTS Media,       \* the files that may be imported
          MaxMediumMs, \* MAX_MATERIAL_DURATION_MS
          MaxEdge,     \* MAX_MATERIAL_DIMENSION
          LongScene,   \* _LONG_SCENE_INTERVAL_MS
          FrameLimits, \* _frame_limit: sequence of <<longest duration, frames>>
          MaxFrames,   \* the limit beyond the last of FrameLimits
          Chunk,       \* VAD_CHUNK_MILLISECONDS
          MinSpeechChunks, MinSilenceChunks, Padding,
          PrimaryMs,   \* MIN_PRIMARY_SPEECH_DURATION_MS
          BatchMs,     \* MAX_ASR_BATCH_DURATION_MS
          MaxTranscript, \* MAX_TRANSCRIPT_CHARACTERS
          MaxDescription, MaxTagLength, MaxTags, \* MAX_DESCRIPTION_CHARACTERS, MAX_TAG_CHARACTERS
          MaxPieces,   \* MAX_SHOT_BOUNDARIES, MAX_SPEECH_SEGMENTS, _MAX_SHOTS
          Unknown

Forms == {"plain", "layout", "ill"}

\* A text; "word" tells texts of one form and length apart.
Text == [form : Forms, chars : Nat, word : Nat]

\* A file as its tools and models tell of it: what ffprobe and the measuring
\* pass say, the picture as it decodes, the shots the vision model names, the
\* description (a person's, if "described", else the model's) and the model's
\* tags, the voice in each chunk of its sound and the words of a batch.
Medium ==
    {m \in [large : BOOLEAN, video : BOOLEAN, picture : BOOLEAN, track : BOOLEAN, ms : Int, edge : Int,
           reported : BOOLEAN, silent : BOOLEAN, loudness : Int \cup {Unknown}, decoded : Int,
           described : BOOLEAN, scenes : Seq(Nat), step : Nat \ {0}, lastPicture : Nat,
           shots : Seq(Int \X Int), description : Text, tags : Seq(Text),
           sound : Seq(BOOLEAN), soundMs : Nat, words : Nat, wording : Forms] :
        m.soundMs <= Len(m.sound) * Chunk}

Kinds == {"image", "video", "audio"}
Refusals == {"FILE_TOO_LARGE", "NO_USABLE_STREAM", "UNUSABLE_DURATION", "TOO_LONG",
             "UNUSABLE_FRAME_SIZE", "FRAME_TOO_LARGE", "PROBE_FAILED", "SILENT_AUDIO"}

ASSUME AnalysisAssumption ==
    /\ Media \subseteq Medium /\ Unknown \notin Int \cup Kinds \cup Refusals \cup Text
    /\ {MaxMediumMs, MaxEdge, LongScene, MaxFrames, Chunk, MinSpeechChunks,
        MinSilenceChunks, PrimaryMs, BatchMs, MaxTranscript,
        MaxDescription, MaxTagLength, MaxTags, MaxPieces} \subseteq Nat \ {0}
    /\ Padding \in Nat

VARIABLES
    medium,   \* the file
    phase,    \* the last stage that answered, or how it refused
    facts,    \* MaterialFacts, then the registered material
    frames,   \* [scenes, supplements, times]: chosen frames, and when they are
    voice,    \* [segments, confirmed]: what voice detection made of the sound
    analysis  \* what enriches the material: shots, speech and its transcript
              \* (chars, wording), description, tags, whether dated, by whom

mediaVars == <<medium, phase, facts, frames, voice, analysis>>

Absolute(n) == IF n < 0 THEN -n ELSE n
UpTo(a, b) == Min({a, b})

-----------------------------------------------------------------------------
(* Import *)

\* A picture container without sound is a still; the duration does not say.
Kind(m) == IF m.video THEN IF m.picture /\ ~m.track THEN "image" ELSE "video"
           ELSE IF m.track THEN "audio" ELSE Unknown

\* read_stream_facts and read_audio_facts, in the order they refuse.
ProbeRefusal(m) ==
    LET refusals == <<
            <<"FILE_TOO_LARGE", m.large>>,
            <<"NO_USABLE_STREAM", Kind(m) = Unknown>>,
            <<"UNUSABLE_DURATION", Kind(m) # "image" /\ m.ms < 1>>,
            <<"TOO_LONG", Kind(m) # "image" /\ m.ms > MaxMediumMs>>,
            <<"UNUSABLE_FRAME_SIZE", m.video /\ m.edge < 1>>,
            <<"FRAME_TOO_LARGE", m.video /\ m.edge > MaxEdge>>,
            <<"PROBE_FAILED", m.track /\ m.reported /\ m.loudness = Unknown>>,
            <<"SILENT_AUDIO", m.track /\ m.silent /\ Kind(m) = "audio">> >>
        holding == {i \in DOMAIN refusals : refusals[i][2]}
    IN  IF holding = {} THEN Unknown ELSE refusals[Min(holding)][1]

\* Mutant: a reading is kept as ffmpeg printed it.
PrintedLoudness(v) == v

\* The floor states absence, and above full scale cannot be stored.
StorableLoudness(v) == IF v # Unknown /\ v > -70 /\ v <= 0 THEN v ELSE Unknown

ProbedFacts(m) ==
    LET heard == m.track /\ ~m.silent IN
    [kind |-> Kind(m),
     ms |-> IF Kind(m) = "image" THEN Unknown ELSE m.ms,
     edge |-> IF m.video THEN m.edge ELSE Unknown,
     audio |-> heard,
     loudness |-> IF heard THEN StorableLoudness(m.loudness) ELSE Unknown]

Edge(f) == f.edge # Unknown /\ f.edge \in 1..MaxEdge
Lasts(f) == f.ms # Unknown /\ f.ms \in 1..MaxMediumMs

\* _material_facts_document: by kind.
DocumentOk(f) ==
    /\ f.loudness # Unknown => f.loudness \in -70..0
    /\ f.kind = "image" => f.ms = Unknown /\ ~f.audio /\ f.loudness = Unknown
    /\ f.kind # "image" => Lasts(f)
    /\ f.kind = "audio" => f.edge = Unknown /\ f.audio
    /\ f.kind # "audio" => Edge(f)
    /\ ~f.audio => f.loudness = Unknown

\* VideoWorkerLocalMaterialFacts::is_valid: by field.
ReceivedOk(f) ==
    /\ IF f.kind = "image" THEN f.ms = Unknown ELSE Lasts(f)
    /\ IF f.kind = "audio" THEN f.edge = Unknown /\ f.audio ELSE Edge(f)
    /\ f.loudness # Unknown => f.audio /\ f.loudness \in -70..0
    /\ ~(f.kind = "image" /\ f.audio)

\* _validate_text: something, not too long, nothing but text, breaks and tabs.
TextOk(t, longest) == t.form # "ill" /\ t.chars \in 1..longest

\* Speech lies in order inside the material and comes with its words.
SpeechOk(f, a) ==
    IF a.speech = <<>> THEN a.chars = 0
    ELSE /\ f.audio /\ Len(a.speech) <= MaxPieces
         /\ a.chars \in 1..MaxTranscript /\ a.wording # "ill"
         /\ \A i \in DOMAIN a.speech :
              /\ (IF i = 1 THEN 0 ELSE a.speech[i - 1][2]) <= a.speech[i][1]
              /\ a.speech[i][1] < a.speech[i][2]
              /\ f.ms # Unknown => a.speech[i][2] <= f.ms

BoundariesOk(f, a) ==
    a.shots # <<>> =>
        /\ f.kind # "audio" /\ f.ms # Unknown /\ Len(a.shots) <= MaxPieces
        /\ \A i \in DOMAIN a.shots :
             /\ (IF i = 1 THEN -1 ELSE a.shots[i - 1]) < a.shots[i]
             /\ a.shots[i] < f.ms

TagsOk(tags) ==
    /\ Len(tags) <= MaxTags /\ \A i \in DOMAIN tags : TextOk(tags[i], MaxTagLength)
    /\ IsInjective(tags)

\* Only a model tags, and what it says is dated; a person owns what he says.
DescriptionOk(a) ==
    /\ a.description # Unknown => TextOk(a.description, MaxDescription)
    /\ TagsOk(a.tags)
    /\ a.description = Unknown => a.tags = <<>> /\ ~a.dated /\ a.by = "ai"
    /\ a.description # Unknown /\ a.by = "ai" => a.dated
    /\ a.by = "user" => a.tags = <<>> /\ ~a.dated

Unanalysed == [shots |-> <<>>, speech |-> <<>>, chars |-> 0, wording |-> "plain",
               description |-> Unknown, tags |-> <<>>, dated |-> FALSE, by |-> "ai"]

\* Material.__post_init__
MaterialOk(f, a) ==
    /\ IF f.kind = "audio" THEN f.edge = Unknown /\ f.audio ELSE Edge(f)
    /\ IF f.kind = "image" THEN f.ms = Unknown /\ ~f.audio ELSE Lasts(f)
    /\ IF f.audio THEN f.loudness = Unknown \/ f.loudness \in -70..0 ELSE f.loudness = Unknown
    /\ SpeechOk(f, a) /\ BoundariesOk(f, a) /\ DescriptionOk(a)

-----------------------------------------------------------------------------
(* Frames *)

FrameLimit(ms) ==
    LET fitting == SelectSeq(FrameLimits, LAMBDA tier : ms <= tier[1])
    IN  IF fitting = <<>> THEN MaxFrames ELSE fitting[1][2]

\* _supplement_timestamps: every LongScene within a scene.
Supplements(scenes, ms) ==
    LET End(i) == IF i < Len(scenes) THEN scenes[i + 1] ELSE ms
        Count(i) == IF End(i) > scenes[i] THEN (End(i) - scenes[i] - 1) \div LongScene ELSE 0
    IN  FlattenSeq([i \in DOMAIN scenes |-> [k \in 1..Count(i) |-> scenes[i] + k * LongScene]])

\* Distance of the i-th time from the p-th of limit evenly spread targets,
\* scaled by their number; the first and the last time are targets themselves.
Distance(times, limit, p, i) ==
    Absolute(times[i] * (limit - 1)
             - (times[1] * (limit - 1) + (times[Len(times)] - times[1]) * p))

Cheapest(paths) ==
    SortSeq(paths, LAMBDA a, b : a.cost < b.cost \/ (a.cost = b.cost /\ Last(a.path) < Last(b.path)))[1]

\* The cheapest increasing choice that keeps both ends: best[p] holds, for
\* every time that can be the p-th, the cheapest way to get there.
GloballyUniform(times, limit) ==
    LET n == Len(times)
        best[p \in 0..(limit - 2)] ==
            IF p = 0 THEN << [cost |-> 0, path |-> <<1>>] >>
            ELSE LET Reach(i) ==
                         LET before == SelectSeq(best[p - 1], LAMBDA b : Last(b.path) < i)
                         IN  [cost |-> Cheapest(before).cost + Distance(times, limit, p, i),
                              path |-> Append(Cheapest(before).path, i)]
                 IN  [k \in 1..(n - limit + 1) |-> Reach(p + k)]
    IN  Append(Cheapest(best[limit - 2]).path, n)

UniformlySample(times, limit) ==
    LET n == Len(times)
        Middle(i) == Absolute(2 * times[i] - (times[1] + times[n]))
    IN  IF limit = 0 THEN <<>>
        ELSE IF n <= limit THEN times
        ELSE IF limit = 1
             THEN <<times[CHOOSE i \in 1..n :
                        \A j \in 1..n : Middle(i) < Middle(j) \/ (Middle(i) = Middle(j) /\ i <= j)]>>
        ELSE LET chosen == GloballyUniform(times, limit)
             IN  [k \in DOMAIN chosen |-> times[chosen[k]]]

\* _select_candidate_timestamps: scenes first, long shots with what is left.
Selected(scenes, ms) ==
    LET limit == FrameLimit(ms) IN
    IF Len(scenes) >= limit THEN [scenes |-> UniformlySample(scenes, limit), supplements |-> <<>>]
    ELSE [scenes |-> scenes,
          supplements |-> UniformlySample(Supplements(scenes, ms), limit - Len(scenes))]

\* A seek shows the first picture at or after the time, if there is one.
Shown(m, at) ==
    LET next == ((at + m.step - 1) \div m.step) * m.step
    IN  IF next <= m.lastPicture THEN next ELSE Unknown

\* Where a sorted sequence shows each of its times first.
Once(times) == SelectSeq([k \in DOMAIN times |-> k], LAMBDA k : k = 1 \/ times[k - 1] < times[k])

\* Seeks stop at the first that finds no picture: past the end of the final
\* scene this is the end of the picture, anywhere else the file is broken.
Sought(m, chosen) ==
    LET missing == SelectSeq(chosen.supplements, LAMBDA at : Shown(m, at) = Unknown)
        found == SelectSeq(chosen.supplements, LAMBDA at : missing = <<>> \/ at < missing[1])
        all == SortSeq(chosen.scenes \o [k \in DOMAIN found |-> Shown(m, found[k])], <)
    IN  IF missing # <<>> /\ missing[1] <= Last(m.scenes) THEN Unknown
        ELSE [k \in DOMAIN Once(all) |-> all[Once(all)[k]]]

\* read_adaptive_frame_artifacts
ArtifactsOk(times, ms) ==
    /\ Len(times) \in 1..MaxFrames
    /\ \A i \in DOMAIN times : /\ (IF i = 1 THEN -1 ELSE times[i - 1]) < times[i]
                               /\ times[i] < ms

-----------------------------------------------------------------------------
(* Understanding *)

\* A still's single shot ends wherever the model says and is taken as 1 ms.
Shots(m, ms) ==
    IF Kind(m) = "image" /\ Len(m.shots) = 1 /\ m.shots[1][1] = 0 /\ m.shots[1][2] >= 0
    THEN << <<0, 1>> >> ELSE m.shots

\* _parse_understanding_result and the result's own constructor
UnderstandingOk(shots, ms) ==
    /\ shots # <<>> /\ Len(shots) <= MaxPieces
    /\ \A i \in DOMAIN shots : /\ (IF i = 1 THEN 0 ELSE shots[i - 1][2]) <= shots[i][1]
                               /\ shots[i][1] < shots[i][2] /\ shots[i][2] <= ms

\* What the model calls the file; the shots' own descriptions are checked the
\* same way and thrown away.
NamedOk(m) == TextOk(m.description, MaxDescription) /\ TagsOk(m.tags)

-----------------------------------------------------------------------------
(* Speech *)

\* The scan: start of the open candidate, its voiced time, the run of voiced
\* chunks, whether a run was long enough, the run of silent chunks.
Quiet == [start |-> Unknown, voiced |-> 0, run |-> 0, long |-> FALSE, silent |-> 0]

\* _append_segment clips to the sound and joins what touches.
AppendSegment(segments, from, to, ms) ==
    LET start == Max({0, from})
        end == UpTo(ms, to)
    IN  IF end <= start THEN segments
        ELSE IF segments # <<>> /\ start <= Last(segments)[2]
             THEN Append(Front(segments), <<Last(segments)[1], Max({Last(segments)[2], end})>>)
             ELSE Append(segments, <<start, end>>)

\* Mutant: the segment keeps the silence that ended it.
ClosedLate(st, next, ms) ==
    [segments |-> AppendSegment(st.segments, st.open.start * Chunk - Padding,
                                next * Chunk + Padding, ms),
     confirmed |-> st.confirmed + st.open.voiced, open |-> Quiet]

Closed(st, next, ms) ==
    [segments |-> AppendSegment(st.segments, st.open.start * Chunk - Padding,
                                (next - st.open.silent) * Chunk + Padding, ms),
     confirmed |-> st.confirmed + st.open.voiced, open |-> Quiet]

Voiced(st, i, ms) ==
    LET o == st.open IN
    [st EXCEPT !.open =
        [start |-> IF o.start = Unknown THEN i ELSE o.start,
         voiced |-> o.voiced + Max({0, UpTo(ms, (i + 1) * Chunk) - i * Chunk}),
         run |-> o.run + 1, long |-> o.long \/ o.run + 1 >= MinSpeechChunks, silent |-> 0]]

Unvoiced(st, i, ms) ==
    IF st.open.start = Unknown THEN st
    ELSE IF ~st.open.long THEN [st EXCEPT !.open = Quiet]
    ELSE LET paused == [st EXCEPT !.open.silent = @ + 1, !.open.run = 0]
         IN  IF paused.open.silent < MinSilenceChunks THEN paused ELSE Closed(paused, i + 1, ms)

\* _aggregate_probability_evidence over the chunks of the sound.
Aggregated(sound, ms) ==
    LET after[n \in 0..Len(sound)] ==
            IF n = 0 THEN [segments |-> <<>>, confirmed |-> 0, open |-> Quiet]
            ELSE IF sound[n] THEN Voiced(after[n - 1], n - 1, ms)
            ELSE Unvoiced(after[n - 1], n - 1, ms)
        end == after[Len(sound)]
        all == IF end.open.long THEN Closed(end, Len(sound), ms) ELSE end
    IN  [segments |-> all.segments, confirmed |-> all.confirmed]

\* The extracted sound is read up to the material's duration.
Sound(m) == SubSeq(m.sound, 1, (UpTo(m.soundMs, m.ms) + Chunk - 1) \div Chunk)
SoundMs(m) == UpTo(m.ms, m.soundMs)

PcmOk(m) == m.soundMs \in 1..(m.ms + Chunk)

Primary(confirmed, ms) == confirmed >= PrimaryMs \/ confirmed * 100 >= ms * 30

\* _speech_audio_batches: the stretches of BatchMs that touch a segment.
Batches(segments, ms) ==
    {start \in {k * BatchMs : k \in 0..((ms - 1) \div BatchMs)} :
        \E i \in DOMAIN segments :
            segments[i][1] < UpTo(ms, start + BatchMs) /\ segments[i][2] > start}

\* The batches' words, joined by line breaks.
Transcribed(m, batches) == Cardinality(batches) * m.words + Cardinality(batches) - 1
Joined(m, batches) == IF Cardinality(batches) > 1 THEN "layout" ELSE m.wording

-----------------------------------------------------------------------------
(* Storing *)

\* SmartEditMaterialAnalysis and SmartEditMaterialAnalysisWriteback register
\* a stand-in video just long enough for the analysis.
StandIn(a) ==
    [kind |-> "video", edge |-> 1, audio |-> a.speech # <<>>, loudness |-> Unknown,
     ms |-> Max({1} \cup {a.speech[i][2] : i \in DOMAIN a.speech}
                    \cup {a.shots[i] + 1 : i \in DOMAIN a.shots})]

\* Only what changed a material is stored.
Changed(a) == a.by = "ai" \/ a.speech # <<>>

\* SemanticMatchingCandidate: of a description breaks and tabs may be part, of
\* a tag not.
CandidateOk(a) ==
    /\ a.description # Unknown /\ TextOk(a.description, MaxDescription)
    /\ TagsOk(a.tags) /\ \A i \in DOMAIN a.tags : a.tags[i].form = "plain"

\* SmartEditMaterialAnalysisRequest::validate, in the shell.
ShellOk(a) ==
    /\ Len(a.speech) <= MaxPieces /\ Len(a.shots) <= MaxPieces
    /\ \A i \in DOMAIN a.speech : /\ a.speech[i][1] < a.speech[i][2]
                                  /\ i > 1 => a.speech[i - 1][2] <= a.speech[i][1]
    /\ \A i \in DOMAIN a.shots : i > 1 => a.shots[i - 1] < a.shots[i]
    /\ a.speech # <<>> => a.chars \in 1..MaxTranscript /\ a.wording # "ill"
    /\ a.description # Unknown => TextOk(a.description, MaxDescription)
    /\ TagsOk(a.tags)
    /\ IF a.by = "user" THEN a.description # Unknown /\ a.tags = <<>> /\ ~a.dated
       ELSE (a.description # Unknown <=> a.dated) /\ (a.description = Unknown => a.tags = <<>>)

-----------------------------------------------------------------------------
MediaInit ==
    /\ medium \in Media /\ phase = "file"
    /\ facts = Unknown /\ frames = Unknown /\ voice = Unknown /\ analysis = Unanalysed

\* Every refusal ends the file's way and leaves what was found.
Refused(why) == phase' = why /\ UNCHANGED <<medium, facts, frames, voice, analysis>>

\* probe_material
Probe ==
    /\ phase = "file"
    /\ IF ProbeRefusal(medium) # Unknown THEN Refused(ProbeRefusal(medium))
       ELSE /\ facts' = ProbedFacts(medium) /\ phase' = "probed"
            /\ UNCHANGED <<medium, frames, voice, analysis>>

\* The facts cross the pipe and the API and become a material.
Register ==
    /\ phase = "probed"
    /\ IF ~DocumentOk(facts) THEN Refused("document_rejected")
       ELSE IF ~ReceivedOk(facts) THEN Refused("worker_protocol_invalid")
       ELSE IF ~MaterialOk(facts, Unanalysed) THEN Refused("registration_rejected")
       ELSE phase' = "registered" /\ UNCHANGED <<medium, facts, frames, voice, analysis>>

\* with_user_description: what a person says of a file, before an edit of it.
Describe ==
    /\ phase = "registered" /\ medium.described
    /\ LET told == [analysis EXCEPT !.description = medium.description, !.by = "user"]
       IN  IF ~MaterialOk(facts, told) THEN Refused("description_rejected")
           ELSE analysis' = told /\ phase' = "described" /\ UNCHANGED <<medium, facts, frames, voice>>

\* _prove_all_local_sources: sound alone has no place in a picture, and a
\* video must decode to its end.
ProveSource ==
    /\ phase \in {"registered", "described"} /\ (medium.described => phase = "described")
    /\ IF facts.kind = "audio" \/ (facts.kind = "video" /\ medium.decoded < 1)
       THEN Refused("source_rejected")
       ELSE phase' = "proved" /\ UNCHANGED <<medium, facts, frames, voice, analysis>>

PictureMs == IF facts.kind = "image" THEN 1 ELSE facts.ms

\* _needs_understanding: a person's description is never replaced.
\* extract_adaptive_frames
ExtractFrames ==
    /\ phase = "proved"
    /\ IF analysis.by = "user" THEN phase' = "understood" /\ UNCHANGED <<medium, facts, frames, voice, analysis>>
       ELSE IF medium.scenes = <<>> THEN Refused("frames_failed")
       ELSE LET chosen == Selected(medium.scenes, PictureMs) IN
            IF Sought(medium, chosen) = Unknown THEN Refused("frames_undecodable")
            ELSE /\ frames' = [scenes |-> chosen.scenes, supplements |-> chosen.supplements,
                               times |-> Sought(medium, chosen)]
                 /\ phase' = "framed"
                 /\ UNCHANGED <<medium, facts, voice, analysis>>

\* with_ai_understanding
Understood ==
    [analysis EXCEPT
        !.shots = IF facts.kind = "image" THEN <<>>
                  ELSE [i \in DOMAIN medium.shots |-> medium.shots[i][1]],
        !.description = medium.description, !.tags = medium.tags, !.dated = TRUE]

\* understand_material_artifacts
Understand ==
    /\ phase = "framed"
    /\ IF \/ ~ArtifactsOk(frames.times, PictureMs)
          \/ facts.kind = "image" /\ Len(frames.times) # 1
          \/ ~UnderstandingOk(Shots(medium, PictureMs), PictureMs)
          \/ ~NamedOk(medium)
       THEN Refused("understanding_rejected")
       ELSE IF ~MaterialOk(facts, Understood) THEN Refused("material_rejected")
       ELSE analysis' = Understood /\ phase' = "understood" /\ UNCHANGED <<medium, facts, frames, voice>>

\* with_speech_analysis
WithHeard(found, batches) ==
    [analysis EXCEPT !.speech = found.segments, !.chars = Transcribed(medium, batches),
                     !.wording = Joined(medium, batches)]

\* The funnel: no sound, no voice, too many or too little of it, transcription.
AnalyzeSpeech ==
    /\ phase = "understood"
    /\ IF facts.kind = "image" \/ ~facts.audio
       THEN phase' = "analysed" /\ UNCHANGED <<medium, facts, frames, voice, analysis>>
       ELSE IF ~PcmOk(medium) THEN Refused("sound_rejected")
       ELSE LET found == Aggregated(Sound(medium), SoundMs(medium))
                batches == Batches(found.segments, SoundMs(medium))
                told == medium.words > 0 /\ medium.wording # "ill" /\ Transcribed(medium, batches) <= MaxTranscript
                heard == IF found.segments = <<>> THEN analysis ELSE WithHeard(found, batches)
            IN  /\ voice' = found
                /\ phase' = IF Len(found.segments) > MaxPieces THEN "speech_in_pieces"
                            ELSE IF found.segments # <<>> /\ ~Primary(found.confirmed, facts.ms)
                            THEN "speech_not_primary"
                            ELSE IF found.segments # <<>> /\ ~told THEN "transcription_rejected"
                            ELSE IF ~MaterialOk(facts, heard) THEN "material_rejected" ELSE "analysed"
                /\ analysis' = IF phase' = "analysed" THEN heard ELSE analysis
                /\ UNCHANGED <<medium, facts, frames>>

\* from_material
Snapshot ==
    /\ phase = "analysed"
    /\ IF Changed(analysis) /\ ~(MaterialOk(facts, analysis) /\ MaterialOk(StandIn(analysis), analysis))
       THEN Refused("analysis_rejected")
       ELSE phase' = "prepared" /\ UNCHANGED <<medium, facts, frames, voice, analysis>>

\* _project_requests: what has no speech of its own is matched with a script.
MatchScript ==
    /\ phase = "prepared"
    /\ IF analysis.speech = <<>> /\ ~CandidateOk(analysis) THEN Refused("candidate_rejected")
       ELSE phase' = "matched" /\ UNCHANGED <<medium, facts, frames, voice, analysis>>

\* The shell, the same construction in the control plane, then the update of
\* the material itself.
StoreAnalysis ==
    /\ phase = "matched"
    /\ IF Changed(analysis) /\ ~(/\ ShellOk(analysis) /\ MaterialOk(StandIn(analysis), analysis)
                                 /\ MaterialOk(facts, analysis))
       THEN Refused("writeback_rejected")
       ELSE phase' = "stored" /\ UNCHANGED <<medium, facts, frames, voice, analysis>>

MediaNext ==
    \/ Probe \/ Register \/ Describe \/ ProveSource \/ ExtractFrames \/ Understand
    \/ AnalyzeSpeech \/ Snapshot \/ MatchScript \/ StoreAnalysis

-----------------------------------------------------------------------------
(* Properties *)

\* What the probe states, and what the analysis finds, is not refused further
\* down: the worker's document, the shell's checks, the material's own
\* constructor, the two stand-in constructors and the candidate of the match
\* each restate the rules of the one before, and a gap between two of them
\* would refuse a file after it was measured, or a whole smart edit after its
\* models were paid.  There is one gap: a tag with a line break or a tab
\* (semantic_matching.py:150) is an answer, a material and a snapshot, and no
\* candidate.  Nothing else is refused there, and speech passes it by.
DownstreamAccepts ==
    /\ phase \notin {"document_rejected", "worker_protocol_invalid", "registration_rejected",
                     "material_rejected", "analysis_rejected", "writeback_rejected"}
    /\ phase = "candidate_rejected" =>
         analysis.speech = <<>> /\ \E i \in DOMAIN analysis.tags : analysis.tags[i].form = "layout"

AllAre(sound, a, b, v) == \A k \in a..b : sound[k] = v

\* Chunk a is one of enough voiced chunks in a row.
InRun(sound, a) ==
    \E from \in (a - MinSpeechChunks + 1)..a :
        /\ from >= 1 /\ from + MinSpeechChunks - 1 <= Len(sound)
        /\ AllAre(sound, from, from + MinSpeechChunks - 1, TRUE)

\* Enough silent chunks in a row lie between chunks a and b.
Paused(sound, a, b) ==
    \E k \in a..(b - MinSilenceChunks + 1) : AllAre(sound, k, k + MinSilenceChunks - 1, FALSE)

\* Chunk i is heard: it is voiced, and reached from such a run without such
\* a pause.
HeardChunks(sound) ==
    {i \in DOMAIN sound : sound[i] /\ \E a \in 1..i : InRun(sound, a) /\ ~Paused(sound, a, i)}

\* Time t is covered by heard chunks, what is not a pause between two of
\* them, and the padding around.
Covered(sound, heard, t) ==
    \E a, b \in heard :
        /\ a <= b /\ ~Paused(sound, a, b)
        /\ (a - 1) * Chunk - Padding <= t /\ t < b * Chunk + Padding

Told(segments, t) == \E i \in DOMAIN segments : segments[i][1] <= t /\ t < segments[i][2]

\* How much of the sound those of its first chunks last that are in a set.
Lasting(chunks, ms, n) ==
    LET sum[k \in 0..n] == IF k = 0 THEN 0
                           ELSE sum[k - 1] + (IF k \in chunks THEN UpTo(ms, k * Chunk) - (k - 1) * Chunk ELSE 0)
    IN  sum

\* Voice detection, one pass with counters, agrees with what it is meant to
\* find: the segments cover the heard chunks, the pauses between them that
\* are too short to end a speech, and the padding, no millisecond more; they
\* are apart and in order; and the confirmed time is that of the heard chunks.
SpeechIsWhereHeard ==
    voice # Unknown =>
        LET sound == Sound(medium)
            ms == SoundMs(medium)
            heard == HeardChunks(sound)
        IN  /\ \A t \in 0..(ms - 1) : Told(voice.segments, t) = Covered(sound, heard, t)
            /\ \A i \in DOMAIN voice.segments :
                 /\ i > 1 => voice.segments[i - 1][2] < voice.segments[i][1]
                 /\ voice.segments[i][2] <= ms
            /\ voice.confirmed = Lasting(heard, ms, Len(sound))[Len(sound)]
=============================================================================
