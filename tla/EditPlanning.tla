---------------------------- MODULE EditPlanning ----------------------------
(***************************************************************************)
(* From analysed materials to an ffmpeg command: the pure stages a smart   *)
(* edit and its render pass through.                                       *)
(*                                                                         *)
(*   worker   scores, voiceovers and decodable intervals become segment    *)
(*            candidates, paragraphs, one assignment and a timeline draft; *)
(*   control  the draft becomes the first timeline, the user saves other   *)
(*   plane    cuts, and a submitted cut becomes three render plans;        *)
(*   worker   the plans become a frame grid, caption windows and the       *)
(*            inputs of one ffmpeg command.                                *)
(*                                                                         *)
(* Every stage rebuilds its argument through validating constructors, so   *)
(* a stage either returns a value or refuses its predecessor's.  Times are *)
(* the code's integer milliseconds and frames its integer frames.          *)
(***************************************************************************)
EXTENDS Integers, Sequences, SequencesExt, FiniteSets, FiniteSetsExt, Absent

CONSTANTS MaterialLists, \* the libraries a smart edit may start from
          RequestsOf(_), \* the voiceovers and scores of a library
          Fps,           \* output frame rates of a project
          MusicIds,      \* materials a user may lay under the picture
          Transitions,   \* transition lengths a user may choose, 0 a hard cut
          Trims,         \* lengths a user may give a still image
          MaxSaves,      \* cuts the user saves in a behaviour
          MaxTotalMs,    \* MAX_TIMELINE_DURATION_MS
          MaxParagraphs, \* MAX_LOCAL_EDITING_SEMANTIC_MATERIALS
          MaxMaterialMs, \* MAX_LOCAL_EDITING_MATERIAL_DURATION_MS
          MaxTransitionMs, MaxCaptionCharacters

MinTotalMs == 100
Threshold == 60

Modes == {"auto_duck", "fixed_volume", "muted"}
Rejections == {"CLIP_BELOW_ONE_FRAME", "TRANSITION_BELOW_ONE_FRAME", "TRANSITION_SWALLOWS_CLIP"}

\* A visual material: its decodable intervals, the beginnings of its shots
\* and the intervals of its speech.
Material == [kind : {"video", "image"}, decodable : Seq(Nat \X Nat), shots : Seq(Nat),
             speech : Seq(Nat \X Nat), audio : BOOLEAN, chars : Nat]

ASSUME PlanningAssumption ==
    /\ MaterialLists \subseteq Seq(Material)
    /\ MaxSaves \in Nat /\ MaxTotalMs \in Nat /\ MaxParagraphs \in Nat
    /\ MaxMaterialMs \in Nat /\ MaxTransitionMs \in Nat /\ MaxCaptionCharacters \in Nat
    /\ None \notin Modes \cup Rejections
    /\ Fps \subseteq 12..60 /\ Transitions \subseteq Nat /\ Trims \subseteq Nat \ {0}

VARIABLES
    stage,      \* the last stage that answered, or how it refused
    materials,  \* the library: sequence of visual materials, identity = index
    request,    \* sequence of [dur, score]: voiceover length, score by material
    plan,       \* originals, narrated paragraphs and the resolved choice
    timeline,   \* the stored cut
    edits,      \* cuts the user may still save
    command     \* the compiled command

planVars == <<stage, materials, request, plan, timeline, edits, command>>

Length(w) == w[2] - w[1]

\* The elements of a sequence that are in a set, in their order.
Among(s, T) ==
    LET kept[n \in 0..Len(s)] ==
            IF n = 0 THEN <<>>
            ELSE IF s[n] \in T THEN Append(kept[n - 1], s[n]) ELSE kept[n - 1]
    IN  kept[Len(s)]

Ids == DOMAIN materials
Silent == Among([i \in Ids |-> i], {i \in Ids : materials[i].speech = <<>>})
Spoken == Among([i \in Ids |-> i], {i \in Ids : materials[i].speech # <<>>})

-----------------------------------------------------------------------------
(* Segment selection *)

\* The two-pointer scan over shots and decodable intervals.  Without shot
\* boundaries the whole material is one shot.
EarliestFittingWindow(m, d) ==
    LET starts == IF m.shots = <<>> \/ m.shots[1] # 0 THEN <<0>> \o m.shots ELSE m.shots
        End(i) == IF i < Len(starts) THEN starts[i + 1] ELSE MaxMaterialMs
        scan[i \in 1..(Len(starts) + 1), j \in 1..(Len(m.decodable) + 1)] ==
            IF i > Len(starts) \/ j > Len(m.decodable) THEN None
            ELSE LET from == Max({m.decodable[j][1], starts[i]})
                     to == Min({m.decodable[j][2], End(i)})
                 IN  IF to - from >= d THEN <<from, from + d>>
                     ELSE scan[IF End(i) <= m.decodable[j][2] THEN i + 1 ELSE i,
                               IF m.decodable[j][2] <= End(i) THEN j + 1 ELSE j]
    IN  scan[1, 1]

\* match_script_materials orders the scores of a sentence by falling score,
\* ties by position in the library; select_fitting_segments does the same.
Ranked(score) ==
    SortSeq(Silent, LAMBDA a, b : score[a] > score[b] \/ (score[a] = score[b] /\ a < b))

Static(seg) == seg.win = None

SelectFittingSegments(d, score) ==
    LET Window(i) == IF materials[i].kind = "image" THEN None
                     ELSE EarliestFittingWindow(materials[i], d)
        Fits(i) == /\ score[i] >= Threshold
                   /\ materials[i].kind = "image" \/ Window(i) # None
        fitting == SelectSeq(Ranked(score), Fits)
    IN  [k \in DOMAIN fitting |-> [id |-> fitting[k], win |-> Window(fitting[k])]]

\* _SilentPlanner: a single still image that qualifies anywhere qualifies
\* everywhere.
Projected(score) ==
    LET reusable == /\ Len(Silent) = 1 /\ materials[Silent[1]].kind = "image"
                    /\ \E k \in DOMAIN request : request[k].score[Silent[1]] >= Threshold
    IN  IF reusable THEN [i \in DOMAIN score |-> Max({score[i], Threshold})] ELSE score

NarratedParagraph(line) ==
    LET score == Projected(line.score)
    IN  [dur |-> line.dur,
         qualified |-> SelectSeq(Ranked(score), LAMBDA i : score[i] >= Threshold),
         candidates |-> SelectFittingSegments(line.dur, score)]

\* NarratedParagraphDraft insists that candidates follow the qualified order.
ParagraphOk(p) ==
    /\ p.dur \in 1..MaxMaterialMs
    /\ \A j, k \in DOMAIN p.candidates :
         j < k => \E a, b \in DOMAIN p.qualified :
                    a < b /\ p.qualified[a] = p.candidates[j].id
                          /\ p.qualified[b] = p.candidates[k].id

-----------------------------------------------------------------------------
(* Assignment *)

\* The search for an assignment: who owns a material, 0 for nobody, and the
\* materials the augmenting path being tried has seen.
Searches(ps) == [ok : BOOLEAN, seen : SUBSET Ids, owner : [Ids -> 0..Len(ps)]]

\* One augmenting path from paragraph p, trying its candidates from the k-th.
\* A still image can always be taken; seen and owner are as the code's.
Assign(ps, blocked) ==
    LET try[p \in DOMAIN ps, k \in 1..(Len(materials) + 1), st \in Searches(ps)] ==
            IF k > Len(ps[p].candidates) THEN [st EXCEPT !.ok = FALSE]
            ELSE LET seg == ps[p].candidates[k]
                     visited == [st EXCEPT !.ok = TRUE, !.seen = @ \cup {seg.id}]
                     freed == IF st.owner[seg.id] = 0 THEN visited
                              ELSE try[st.owner[seg.id], 1, visited]
                 IN  IF Static(seg) THEN [st EXCEPT !.ok = TRUE]
                     ELSE IF seg.id \in blocked \cup st.seen THEN try[p, k + 1, st]
                     ELSE IF freed.ok THEN [freed EXCEPT !.owner[seg.id] = p]
                     ELSE try[p, k + 1, freed]
    IN  try

HasCompleteAssignment(ps, blocked) ==
    LET empty == [ok |-> TRUE, seen |-> {}, owner |-> [i \in Ids |-> 0]]
        Step(st, p) == IF st.ok THEN Assign(ps, blocked)[p, 1, [st EXCEPT !.seen = {}]] ELSE st
    IN  FoldLeft(Step, empty, [p \in DOMAIN ps |-> p]).ok

\* Mutant: the first unused candidate, without looking at later paragraphs.
ChooseGreedily(ps, k, used) ==
    LET free == SelectSeq(ps[k].candidates, LAMBDA seg : Static(seg) \/ seg.id \notin used)
    IN  IF free = <<>> THEN None ELSE free[1]

\* The first candidate of paragraph k that leaves the later ones assignable.
Choose(ps, k, used) ==
    LET rest == SubSeq(ps, k + 1, Len(ps))
        Admits(seg) ==
            /\ Static(seg) \/ seg.id \notin used
            /\ HasCompleteAssignment(rest, IF Static(seg) THEN used ELSE used \cup {seg.id})
        admitted == {c \in DOMAIN ps[k].candidates : Admits(ps[k].candidates[c])}
    IN  IF admitted = {} THEN None ELSE ps[k].candidates[Min(admitted)]

\* resolve_speech_aware_paragraph_draft: a choice per paragraph or a code.
Resolve(ps) ==
    LET Empty(k) == IF ps[k].qualified = <<>> THEN "NO_RELEVANT_MATERIAL"
                    ELSE IF ps[k].candidates = <<>> THEN "SOURCE_TOO_SHORT" ELSE None
        lacking == SelectSeq([k \in DOMAIN ps |-> Empty(k)], LAMBDA c : c # None)
        pick[k \in DOMAIN ps] ==
            LET before == {pick[j] : j \in 1..(k - 1)} IN
            IF None \in before THEN None
            ELSE Choose(ps, k, {seg.id : seg \in {b \in before : ~Static(b)}})
        chosen == [k \in DOMAIN ps |-> pick[k]]
    IN  IF lacking # <<>> THEN [code |-> lacking[1], chosen |-> <<>>]
        ELSE IF None \in Range(chosen) THEN [code |-> "INSUFFICIENT_MATERIALS", chosen |-> <<>>]
        ELSE [code |-> None, chosen |-> chosen]

-----------------------------------------------------------------------------
(* The draft *)

OriginalWindow(m) == <<Head(m.speech)[1], Last(m.speech)[2]>>

SpeechWindowIsDecodable(m) ==
    \E j \in DOMAIN m.decodable :
        /\ m.decodable[j][1] <= OriginalWindow(m)[1]
        /\ OriginalWindow(m)[2] <= m.decodable[j][2]

\* The narration of paragraph k is a material of its own.
NarrationId(k) == Len(materials) + k

\* Each paragraph: what is seen, what is heard and for how long.
Paragraphs(chosen) ==
    [k \in DOMAIN Spoken |->
        LET m == materials[Spoken[k]] IN
        [kind |-> "original_speech", visual |-> Spoken[k], audio |-> Spoken[k],
         win |-> OriginalWindow(m), dur |-> Length(OriginalWindow(m)), chars |-> m.chars]]
    \o [k \in DOMAIN chosen |->
        [kind |-> "narrated", visual |-> chosen[k].id, audio |-> NarrationId(k),
         win |-> chosen[k].win, dur |-> plan.narrated[k].dur, chars |-> 1]]

\* How long the first n paragraphs last.
Elapsed(ps) ==
    LET sum[n \in 0..Len(ps)] == IF n = 0 THEN 0 ELSE sum[n - 1] + ps[n].dur IN sum

\* The constructors of the resolved draft, the paragraphs and the draft.
DraftOk(ps) ==
    /\ Len(ps) \in 1..MaxParagraphs
    /\ \A k \in DOMAIN ps :
         /\ ps[k].dur \in 1..MaxTotalMs /\ ps[k].chars <= MaxCaptionCharacters
         /\ ps[k].win # None => Length(ps[k].win) = ps[k].dur /\ ps[k].win[2] <= MaxMaterialMs
         /\ (ps[k].kind = "narrated") # (ps[k].audio = ps[k].visual)
    /\ \A j, k \in DOMAIN ps : j # k =>
         /\ ps[j].visual = ps[k].visual => ps[j].win = None /\ ps[k].win = None
         /\ ps[j].audio # ps[k].audio
         /\ ps[j].kind = "narrated" => ps[j].audio # ps[k].visual
    /\ Elapsed(ps)[Len(ps)] \in MinTotalMs..MaxTotalMs

-----------------------------------------------------------------------------
(* The timeline *)

Clip(src, start, dur, win, trans, mode) ==
    [src |-> src, start |-> start, dur |-> dur, win |-> win, trans |-> trans, mode |-> mode]
EndMs(c) == c.start + c.dur

CreateTimeline(ps) ==
    LET Start(k) == Elapsed(ps)[k - 1]
        Of(kind) == Among([k \in DOMAIN ps |-> k], {k \in DOMAIN ps : ps[k].kind = kind})
        Lane(ks, F(_)) == [j \in DOMAIN ks |-> F(ks[j])]
        Picture(k) == Clip(ps[k].visual, Start(k), ps[k].dur, ps[k].win, 0, None)
        Voice(k) == Clip(ps[k].audio, Start(k), ps[k].dur, <<0, ps[k].dur>>, 0, None)
        Ambience(k) == Clip(ps[k].audio, Start(k), ps[k].dur, ps[k].win, 0, "auto_duck")
        Caption(k) == Clip(None, Start(k), ps[k].dur, None, 0, None)
    IN  [dur |-> Elapsed(ps)[Len(ps)],
         visual |-> [k \in DOMAIN ps |-> Picture(k)],
         narration |-> Lane(Of("narrated"), Voice),
         ambient |-> Lane(Of("original_speech"), Ambience),
         music |-> <<>>,
         caption |-> [k \in DOMAIN ps |-> Caption(k)]]

Audible == {"narration", "ambient", "music"}

\* A clip is positive, inside the limits and takes exactly its own length
\* of its source; a transition is shorter than the clip it leads into.
ClipOk(c) ==
    /\ c.start >= 0 /\ c.dur >= 1 /\ EndMs(c) <= MaxTotalMs
    /\ c.win # None => c.win[1] >= 0 /\ c.win[2] <= MaxMaterialMs /\ Length(c.win) = c.dur
    /\ c.trans <= MaxTransitionMs /\ c.trans < c.dur

\* The picture runs end to end; a transition overlaps the tail its
\* predecessor has left.
PictureLayoutOk(cs) ==
    /\ cs # <<>> /\ cs[1].start = 0 /\ cs[1].trans = 0
    /\ \A k \in 2..Len(cs) :
         /\ cs[k].start = EndMs(cs[k - 1]) - cs[k].trans
         /\ cs[k].trans > 0 => cs[k].trans < cs[k - 1].dur - cs[k - 1].trans

InOrder(cs) == \A k \in 2..Len(cs) : cs[k].start >= EndMs(cs[k - 1])

TimelineOk(t) ==
    /\ t.dur \in MinTotalMs..MaxTotalMs
    /\ PictureLayoutOk(t.visual) /\ EndMs(Last(t.visual)) = t.dur
    /\ \A lane \in {"visual", "narration", "ambient", "music", "caption"} :
         \A k \in DOMAIN t[lane] : ClipOk(t[lane][k]) /\ EndMs(t[lane][k]) <= t.dur
    /\ \A lane \in {"narration", "ambient", "music", "caption"} : InOrder(t[lane])
    /\ \A lane \in Audible : \A k \in DOMAIN t[lane] :
         /\ t[lane][k].win # None /\ t[lane][k].trans = 0
         /\ (lane = "ambient") = (t[lane][k].mode # None)

\* A cut the user may save: pictures get transitions and stills new lengths,
\* what is heard and read is laid under its picture up to the next one,
\* ambience gets a mode, music may run under everything and the captions
\* may be dropped.
Recut(t, trans, still, mode, music, read) ==
    LET n == Len(t.visual)
        Dur(k) == IF t.visual[k].win = None THEN still ELSE t.visual[k].dur
        Alone(k) == Dur(k) - (IF k < n THEN trans[k + 1] ELSE 0)
        At(k) == Elapsed([j \in 1..n |-> [dur |-> Alone(j)]])[k - 1]
        Picture(k) == Clip(t.visual[k].src, At(k), Dur(k), t.visual[k].win, trans[k], None)
        Under(c) == CHOOSE k \in 1..n : t.visual[k].start = c.start
        Fitted(c, m) == LET d == Min({c.dur, Alone(Under(c))}) IN
                        Clip(c.src, At(Under(c)), d,
                             IF c.win = None THEN None ELSE <<c.win[1], c.win[1] + d>>, 0, m)
        Refit(cs, m) == [k \in DOMAIN cs |-> Fitted(cs[k], m)]
        total == At(n) + Dur(n)
    IN  [dur |-> total,
         visual |-> [k \in 1..n |-> Picture(k)],
         narration |-> Refit(t.narration, None),
         ambient |-> Refit(t.ambient, mode),
         music |-> IF music = None THEN <<>> ELSE <<Clip(music, 0, total, <<0, total>>, 0, None)>>,
         caption |-> IF read THEN Refit(t.caption, None) ELSE <<>>]

-----------------------------------------------------------------------------
(* The render plans and the frame grid *)

FrameAt(ms, fps) == (ms * fps + 500) \div 1000

\* A picture with a window is rendered as video, one without as a still.
VisualPlan(t) ==
    LET Picture(c) == [kind |-> IF c.win = None THEN "image" ELSE "video", src |-> c.src,
                       start |-> c.start, dur |-> c.dur, win |-> c.win, trans |-> c.trans]
    IN  [k \in DOMAIN t.visual |-> Picture(t.visual[k])]

\* Narration, ambience, music: one sequence, each clip with its lane.
AudioPlan(t) ==
    LET Of(lane, c) == [lane |-> lane, src |-> c.src, start |-> c.start, dur |-> c.dur,
                        win |-> c.win, trans |-> c.trans, mode |-> c.mode]
        Lane(lane, cs) == [k \in DOMAIN cs |-> Of(lane, cs[k])]
    IN  Lane("narration", t.narration) \o Lane("ambient", t.ambient) \o Lane("music", t.music)

\* The three plan constructors; each repeats its part of the timeline's checks.
VisualPlanOk(t) ==
    LET cs == VisualPlan(t) IN
    /\ t.dur \in MinTotalMs..MaxTotalMs
    /\ PictureLayoutOk(cs) /\ EndMs(Last(cs)) = t.dur
    /\ \A k \in DOMAIN cs : ClipOk(cs[k]) /\ (cs[k].kind = "image") = (cs[k].win = None)

AudioPlanOk(t) ==
    \A lane \in Audible :
        LET cs == Among(AudioPlan(t), {c \in Range(AudioPlan(t)) : c.lane = lane}) IN
        /\ InOrder(cs)
        /\ \A k \in DOMAIN cs : /\ ClipOk(cs[k]) /\ EndMs(cs[k]) <= t.dur /\ cs[k].win # None
                                /\ (lane = "ambient") = (cs[k].mode # None)

CaptionPlanOk(t) ==
    InOrder(t.caption) /\ \A k \in DOMAIN t.caption : EndMs(t.caption[k]) <= t.dur

\* Frames are differences of absolute boundaries; a transition is what two
\* neighbours overlap on the grid.
GridClip(c, previous, fps) ==
    [src |-> c.src, kind |-> c.kind, start |-> FrameAt(c.start, fps),
     count |-> FrameAt(EndMs(c), fps) - FrameAt(c.start, fps),
     trans |-> IF c.trans = 0 THEN 0 ELSE FrameAt(EndMs(previous), fps) - FrameAt(c.start, fps)]

Grid(t, fps) ==
    LET cs == VisualPlan(t) IN
    [k \in DOMAIN cs |-> GridClip(cs[k], IF k = 1 THEN cs[1] ELSE cs[k - 1], fps)]

GridRejection(t, fps) ==
    LET cs == VisualPlan(t)
        g == Grid(t, fps)
        Why(k) == IF g[k].count < 1 THEN "CLIP_BELOW_ONE_FRAME"
                  ELSE IF cs[k].trans = 0 THEN None
                  ELSE IF g[k].trans < 1 THEN "TRANSITION_BELOW_ONE_FRAME"
                  ELSE IF g[k].trans >= g[k - 1].count - g[k - 1].trans \/ g[k].trans >= g[k].count
                       THEN "TRANSITION_SWALLOWS_CLIP" ELSE None
        rejected == {k \in DOMAIN g : Why(k) # None}
    IN  IF rejected = {} THEN None ELSE Why(Min(rejected))

CaptionFrames(t, fps) ==
    [k \in DOMAIN t.caption |-> <<FrameAt(t.caption[k].start, fps), FrameAt(EndMs(t.caption[k]), fps)>>]

CaptionBelowOneFrame(t, fps) == \E w \in Range(CaptionFrames(t, fps)) : w[2] <= w[1]

\* VisualCaptionOverlaySet: windows in order, inside the picture.
OverlaysOk(ws, frames) ==
    \A k \in DOMAIN ws : ws[k][2] <= frames /\ (k > 1 => ws[k - 1][2] <= ws[k][1])

\* What ffmpeg makes of the filter graph: a concat appends, an xfade at its
\* offset replaces the tail of what is there by the incoming clip.
ComposedFrames(g) ==
    LET composed[n \in 0..Len(g)] ==
            IF n = 0 THEN 0
            ELSE (IF g[n].trans = 0 THEN composed[n - 1] ELSE g[n].start) + g[n].count
    IN  composed[Len(g)]

-----------------------------------------------------------------------------
(* Audio and inputs *)

HasAudio(id) == IF id \in Ids THEN materials[id].audio ELSE TRUE

\* A silent source is left out of the ambience, anywhere else it is refused.
SilentSourceRefused(cs) ==
    \E k \in DOMAIN cs : ~HasAudio(cs[k].src) /\ cs[k].lane # "ambient"

Heard(cs) == Among(cs, {c \in Range(cs) : c.mode # "muted" /\ HasAudio(c.src)})

\* The buses of the mix: narration ducks what is duckable, the rest is fixed.
Bus(c) == IF c.lane = "narration" THEN "narration"
          ELSE IF c.lane = "music" \/ c.mode = "auto_duck" THEN "duckable" ELSE "fixed"

FinalMix(cs) ==
    LET On(b) == {k \in DOMAIN cs : Bus(cs[k]) = b}
        ducked == On("narration") # {} /\ On("duckable") # {}
    IN  IF ducked THEN [heard |-> On("narration") \cup On("duckable") \cup On("fixed"),
                        ducked |-> On("duckable")]
        ELSE [heard |-> On("narration") \cup On("duckable") \cup On("fixed"), ducked |-> {}]

\* Mutant: the captions' inputs are forgotten.
FirstAudioInputAfterPictures(t) == Len(t.visual)

\* Index of the first audio input: the inputs the visual command already has.
FirstAudioInput(t) == Len(t.visual) + Len(t.caption)

\* Inputs in argv order and the index each filter chain reads.
Compiled(t, fps) ==
    LET cs == AudioPlan(t)
        heard == Heard(cs)
        pictures == [k \in DOMAIN t.visual |-> <<"picture", t.visual[k].src>>]
        captions == [k \in DOMAIN t.caption |-> <<"caption", k>>]
        sounds == [k \in DOMAIN heard |-> <<"sound", heard[k].src>>]
    IN  [fps |-> fps, grid |-> Grid(t, fps), frames |-> FrameAt(t.dur, fps),
         captions |-> CaptionFrames(t, fps),
         inputs |-> pictures \o captions \o sounds,
         reads |-> {<<k - 1, pictures[k]>> : k \in DOMAIN pictures}
                   \cup {<<Len(t.visual) + k - 1, captions[k]>> : k \in DOMAIN captions}
                   \cup {<<FirstAudioInput(t) + k - 1, sounds[k]>> : k \in DOMAIN sounds},
         mix |-> FinalMix(heard)]

-----------------------------------------------------------------------------
PlanInit ==
    /\ stage = "analysed"
    /\ materials \in MaterialLists
    /\ request = <<>> /\ plan = None /\ timeline = None /\ edits = MaxSaves /\ command = None

\* Every stage may also refuse; the operation ends there.
Refuse(why) == stage' = why /\ UNCHANGED <<materials, request, plan, timeline, edits, command>>

\* segment, synthesize and match: the answers of the providers.  A library
\* that is all speech needs none.
Match ==
    /\ stage = "analysed"
    /\ request' \in IF Silent = <<>> THEN {<<>>} ELSE RequestsOf(materials)
    /\ request' \in Seq([dur : Nat, score : Seq(Nat)])
    /\ stage' = "matched"
    /\ UNCHANGED <<materials, plan, timeline, edits, command>>

Narrated == IF Silent = <<>> THEN <<>> ELSE [k \in DOMAIN request |-> NarratedParagraph(request[k])]

\* _select_smart_edit_paragraphs
Select ==
    /\ stage = "matched"
    /\ IF \/ \E i \in Ids : materials[i].speech # <<>> /\ ~SpeechWindowIsDecodable(materials[i])
          \/ \E k \in DOMAIN Narrated : ~ParagraphOk(Narrated[k])
       THEN Refuse("draft_rejected")
       ELSE /\ plan' = [narrated |-> Narrated, result |-> Resolve(Narrated)]
            /\ stage' = IF plan'.result.code = None THEN "selected" ELSE "failed"
            /\ UNCHANGED <<materials, request, timeline, edits, command>>

\* project_local_editing_timeline_draft and create_local_editing_timeline
Create ==
    /\ stage = "selected"
    /\ LET ps == Paragraphs(plan.result.chosen) IN
       IF ~DraftOk(ps) THEN Refuse("draft_rejected")
       ELSE IF ~TimelineOk(CreateTimeline(ps)) THEN Refuse("timeline_rejected")
       ELSE /\ timeline' = CreateTimeline(ps)
            /\ stage' = "saved"
            /\ UNCHANGED <<materials, request, plan, edits, command>>

\* TimelineService.save with a cut of the user's own.
Save ==
    /\ stage = "saved" /\ edits > 0
    /\ \E trans \in [DOMAIN timeline.visual -> Transitions], still \in Trims,
          mode \in Modes, music \in MusicIds \cup {None},
          read \in BOOLEAN :
         /\ timeline.ambient = <<>> => mode = "muted"
         /\ (\A k \in DOMAIN timeline.visual : timeline.visual[k].win # None) => still = Min(Trims)
         /\ timeline' = Recut(timeline, trans, still, mode, music, read)
         /\ TimelineOk(timeline')
    /\ edits' = edits - 1
    /\ UNCHANGED <<stage, materials, request, plan, command>>

\* The three plans, the caption overlays and the command of one render.
Compile ==
    /\ stage = "saved"
    /\ \E fps \in Fps :
         IF ~(VisualPlanOk(timeline) /\ AudioPlanOk(timeline) /\ CaptionPlanOk(timeline))
         THEN Refuse("plan_rejected")
         ELSE IF CaptionBelowOneFrame(timeline, fps) THEN Refuse("CAPTION_BELOW_ONE_FRAME")
         ELSE IF ~OverlaysOk(CaptionFrames(timeline, fps), FrameAt(timeline.dur, fps))
              THEN Refuse("overlays_rejected")
         ELSE IF GridRejection(timeline, fps) # None THEN Refuse(GridRejection(timeline, fps))
         ELSE IF SilentSourceRefused(AudioPlan(timeline)) THEN Refuse("AUDIO_REJECTED")
         ELSE /\ command' = Compiled(timeline, fps)
              /\ stage' = "compiled"
              /\ UNCHANGED <<materials, request, plan, timeline, edits>>

Stopped == stage \notin {"analysed", "matched", "selected", "saved"} /\ UNCHANGED planVars

PlanNext == Match \/ Select \/ Create \/ Save \/ Compile \/ Stopped

-----------------------------------------------------------------------------
(* Properties *)

\* Every place of material m, by shot and decodable interval, that can show
\* d milliseconds without a cut or a gap.
Places(m, d) ==
    LET cuts == {0, MaxMaterialMs} \cup Range(m.shots)
        Overlap(a, b, iv) == <<Max({a, iv[1]}), Min({b, iv[2]})>>
    IN  {o \in {Overlap(a, b, iv) : a, b \in cuts, iv \in Range(m.decodable)} :
            Length(o) >= d /\ \A c \in cuts : ~(o[1] < c /\ c < o[2])}

\* A choice of candidates that shows no video twice.
Assignments(ps) ==
    {f \in [DOMAIN ps -> 1..Len(materials)] :
        /\ \A k \in DOMAIN ps : f[k] <= Len(ps[k].candidates)
        /\ \A j, k \in DOMAIN ps :
             LET a == ps[j].candidates[f[j]]  b == ps[k].candidates[f[k]] IN
             j # k /\ a.id = b.id => Static(a)}

\* select_fitting_segments offers a qualified video exactly when some shot
\* holds the sentence, at its earliest place, and
\* resolve_speech_aware_paragraph_draft, which looks ahead by augmenting
\* paths only, returns the lexicographically first complete assignment and
\* reports INSUFFICIENT_MATERIALS only when there is none.
SelectionIsFirst ==
    stage \in {"selected", "failed"} =>
        LET ps == plan.narrated
            all == Assignments(ps)
            First(f) == \A g \in all : g = f \/ \E k \in DOMAIN ps :
                            f[k] < g[k] /\ \A j \in 1..(k - 1) : f[j] = g[j]
        IN  /\ \A k \in DOMAIN ps, q \in Ids :
                 LET places == Places(materials[q], ps[k].dur)
                     offered == {c \in Range(ps[k].candidates) : c.id = q}
                 IN  q \in Range(ps[k].qualified) /\ materials[q].kind = "video" =>
                       /\ (offered = {}) = (places = {})
                       /\ \A c \in offered : c.win[1] = Min({o[1] : o \in places})
            /\ plan.result.code = None =>
                 \E f \in all : /\ First(f)
                                /\ plan.result.chosen = [k \in DOMAIN ps |-> ps[k].candidates[f[k]]]
            /\ plan.result.code # None =>
                 /\ all = {}
                 /\ (plan.result.code = "INSUFFICIENT_MATERIALS")
                      = (\A k \in DOMAIN ps : ps[k].candidates # <<>>)

\* So many frames last so many milliseconds, to within one frame.
ToTheFrame(count, ms, fps) == 1000 * count - ms * fps \in (-1000)..1000

\* The picture ffmpeg composes from the grid is as long as the command says,
\* no clip or transition is lost in it and no boundary is off by a frame;
\* captions stay inside it; every filter chain reads the input that carries
\* its own material; what is audible reaches the mix and only what may be
\* ducked is ducked.
CommandMatchesCut ==
    stage = "compiled" =>
        LET g == command.grid  cs == AudioPlan(timeline)  heard == Heard(cs) IN
        /\ ComposedFrames(g) = command.frames
        /\ \A k \in DOMAIN g : LET c == timeline.visual[k] IN
             /\ g[k].count > g[k].trans /\ (g[k].trans = 0) = (c.trans = 0)
             /\ k > 1 => g[k].start + g[k].trans = g[k - 1].start + g[k - 1].count
             /\ ToTheFrame(g[k].count, c.dur, command.fps)
             /\ ToTheFrame(g[k].trans, c.trans, command.fps)
        /\ \A w \in Range(command.captions) : w[1] < w[2] /\ w[2] <= command.frames
        /\ \A r \in command.reads : command.inputs[r[1] + 1] = r[2]
        /\ Cardinality(command.reads) = Len(command.inputs)
        /\ command.mix.heard = DOMAIN heard
        /\ \A k \in command.mix.ducked : heard[k].lane # "narration" /\ heard[k].mode # "fixed_volume"
====
