-------------------------- MODULE MCMediaToTimeline --------------------------
(* Small libraries, and files that vary one stage each around a plain one.   *)
(* Chunks of 10 ms, 3 of them a run, 2 a pause, padded by half a pause, stand *)
(* for 32, 8, 4 and 64; a scene is long after 30 ms, a batch 50 ms.           *)
EXTENDS MediaToTimeline, TLC

CONSTANT none

Video(decodable, shots, speech, audio, chars) ==
    [kind |-> "video", decodable |-> decodable, shots |-> shots, speech |-> speech,
     audio |-> audio, chars |-> chars]
Still == [kind |-> "image", decodable |-> <<>>, shots |-> <<>>, speech |-> <<>>,
          audio |-> FALSE, chars |-> 0]

Whole == Video(<< <<0, 400>> >>, <<>>, <<>>, TRUE, 0)
Split == Video(<< <<0, 30>>, <<50, 190>> >>, <<0, 110, 250>>, <<>>, FALSE, 0)
Brief == Video(<< <<10, 75>> >>, <<>>, <<>>, TRUE, 0)
Talk == Video(<< <<0, 300>> >>, <<>>, << <<20, 60>>, <<90, 121>> >>, TRUE, 50)
MuteTalk == Video(<< <<0, 300>> >>, <<40>>, << <<20, 121>> >>, FALSE, 50)
Torn == Video(<< <<0, 70>>, <<80, 300>> >>, <<>>, << <<20, 60>>, <<90, 121>> >>, TRUE, 50)
Lecture == Video(<< <<0, 400>> >>, <<>>, << <<0, 130>> >>, TRUE, 3000)

\* Libraries of two pair a silent video with anything, libraries of three the hard ones.
MCMaterialLists ==
    {<<a>> : a \in {Whole, Still, Talk, Lecture}}
    \cup {<<a, b>> : a \in {Whole, Split, Brief}, b \in {Whole, Still, Talk, Torn, Lecture}}
    \cup {<<a, b, c>> : <<a, b>> \in {<<Whole, Split>>, <<Brief, Whole>>, <<Split, Brief>>},
                       c \in {Split, Brief, Still}}
    \cup {<<Whole, a, b>> : a, b \in {Talk, MuteTalk}}

\* One to four sentences; a third and a fourth only for libraries that can
\* be assigned in many ways or a single still; one for the library of a file.
Lines(lib, durs) == [dur : durs, score : [DOMAIN lib -> {50, 80}]]
MCRequestsOf(lib) ==
    IF lib \notin MCMaterialLists THEN {<<a>> : a \in [dur : {30, 101}, score : [{1} -> {80}]]} ELSE
    {<<a>> : a \in Lines(lib, {61, 130})}
    \cup {<<a, b>> : a, b \in Lines(lib, {61, 130})}
    \cup (IF Len(lib) = 3 /\ lib[1] # lib[2]
          THEN {<<a, b, c>> : a, c \in Lines(lib, {61}), b \in Lines(lib, {130})} ELSE {})
    \cup (IF lib = <<Still>> THEN {<<a, a, b, b>> : a, b \in Lines(lib, {61, 33})} ELSE {})

MCFps == {12, 30}
MCMusic == {2, 99}
MCTransitions == {0, 7, 40}
MCTrims == {5, 61}

Says(form, chars, word) == [form |-> form, chars |-> chars, word |-> word]

Plain == [large |-> FALSE, video |-> TRUE, picture |-> FALSE, track |-> FALSE, ms |-> 120, edge |-> 8,
          reported |-> FALSE, silent |-> FALSE, loudness |-> none, decoded |-> 118, described |-> FALSE,
          scenes |-> <<0>>, step |-> 4, lastPicture |-> 116, shots |-> << <<0, 120>> >>,
          description |-> Says("plain", 20, 1), tags |-> << Says("plain", 5, 1), Says("plain", 5, 2) >>,
          sound |-> <<>>, soundMs |-> 0, words |-> 4, wording |-> "plain"]
Spoken12 == [Plain EXCEPT !.track = TRUE, !.reported = TRUE, !.loudness = -20,
                          !.described = TRUE, !.soundMs = 120]

\* What the tools say of a file: every kind, length, size and loudness.
Probes ==
    {[Plain EXCEPT !.large = l, !.video = v, !.picture = p, !.track = t, !.ms = ms, !.edge = e,
                   !.sound = [i \in 1..13 |-> FALSE], !.soundMs = Max({ms, 0}), !.described = TRUE] :
        l, v, p, t \in BOOLEAN, ms \in {-1, 0, 1, 120, 300, 301}, e \in {0, 1, 8, 9}}
    \cup {[Plain EXCEPT !.video = v, !.track = TRUE, !.reported = r, !.silent = s, !.loudness = l,
                        !.sound = [i \in 1..12 |-> FALSE], !.soundMs = 120, !.described = TRUE] :
            v, r, s \in BOOLEAN, l \in {none, -71, -70, -69, 0, 1}}

\* Scene cuts anywhere on a coarse grid, after the last picture and after
\* the end too, pictures that end early or are rare.
Increasing(S) == SelectSeq([i \in 1..300 |-> i - 1], LAMBDA i : i \in S)
Cuts ==
    {[Plain EXCEPT !.scenes = Increasing({0} \cup S), !.step = st, !.lastPicture = l, !.decoded = Min({l + st, 120})] :
        S \in SUBSET {7, 20, 25, 68, 99, 110, 121}, st \in {4, 50}, l \in {40, 116}}
    \cup {[Plain EXCEPT !.scenes = Increasing(S), !.ms = ms, !.shots = << <<0, ms>> >>, !.decoded = ms, !.lastPicture = ms - 4] :
        S \in {T \in SUBSET {0, 3, 11, 31, 62, 100, 160, 200} : T # {}}, ms \in {60, 240}}
    \cup {[Plain EXCEPT !.scenes = <<>>]}
    \cup {[Plain EXCEPT !.scenes = s, !.picture = TRUE, !.shots = << <<0, e>> >>] : s \in {<<0>>, <<0, 40>>}, e \in {-1, 0, 9}}

\* What the vision model, and a person, may call a file, with and without
\* speech in it; a single tag, two, and one too many.
Names == {Says(f, c, 1) : f \in {"plain", "layout", "ill"}, c \in {0, 1, 8, 9}}
Named ==
    {[Plain EXCEPT !.description = [d EXCEPT !.chars = c], !.described = p] :
        d \in Names, c \in {0, 20, 21}, p \in BOOLEAN}
    \cup {[Spoken12 EXCEPT !.tags = t, !.described = FALSE, !.sound = [i \in 1..12 |-> v],
                           !.words = w, !.wording = f, !.picture = p, !.track = ~p] :
            t \in {<<>>, <<Says("plain", 8, 1), Says("plain", 8, 2), Says("plain", 8, 3)>>}
                  \cup {<<a>> : a \in Names} \cup {<<a, Says("plain", 8, 1)>> : a \in Names},
            v, p \in BOOLEAN, w \in {0, 4}, f \in {"plain", "layout", "ill"}}

\* Where the vision model may see shots.
Answers == {[Plain EXCEPT !.shots = s] :
    s \in {<<>>, << <<0, 40>>, <<40, 80>>, <<80, 120>> >>} \cup {<<a>> : a \in {-1, 0, 50} \X {0, 50, 120, 121}}
                 \cup {<<a, b>> : a \in {0, 20} \X {20, 70}, b \in {0, 70, 119} \X {70, 120, 121}}}

\* Every sound of ten chunks within 100 ms; some cut short or running over;
\* longer ones by threes, understood as well as heard.
Sounds ==
    {[Spoken12 EXCEPT !.sound = s, !.ms = 100, !.decoded = 100, !.soundMs = 95] : s \in [1..10 -> BOOLEAN]}
    \cup {[Spoken12 EXCEPT !.sound = s \o <<TRUE, TRUE, TRUE, FALSE, TRUE, FALSE>>, !.soundMs = l, !.ms = ms, !.decoded = ms, !.words = w] :
            s \in [1..6 -> BOOLEAN], l \in {0, 1, 73, 107, 120}, ms \in {96, 150, 300}, w \in {0, 4, 30}}
    \cup {[Spoken12 EXCEPT !.sound = FlattenSeq(s), !.ms = 150, !.soundMs = 150, !.decoded = 150, !.described = FALSE] :
            s \in [1..5 -> {<<TRUE, TRUE, TRUE>>, <<FALSE, FALSE, FALSE>>, <<TRUE, FALSE, TRUE>>}]}

MCMedia == {m \in Probes \cup Cuts \cup Answers \cup Named \cup Sounds : m.soundMs <= Len(m.sound) * 10}
MCFrameLimits == << <<60, 3>>, <<120, 5>>, <<240, 6>> >>
=============================================================================
