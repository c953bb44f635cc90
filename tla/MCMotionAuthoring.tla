------------------------- MODULE MCMotionAuthoring -------------------------
EXTENDS MotionAuthoring, TLC

\* A lower third with two slots and a visual-only part whose document keeps
\* dead references of its demo and runs longer than one capture.
PartsSmall == "third" :> [slots |-> 2, motion |-> 48000, refs |-> {"gsap", "font"}, dead |-> {}]
           @@ "visual" :> [slots |-> 0, motion |-> 210000, refs |-> {"gsap"}, dead |-> {"demo"}]

Texts == {<<"short">>, <<"long">>, <<"short", "long">>, <<"short", "short">>}
MCBeat(id, start, dur, part, texts) ==
    [id |-> id, start |-> start, dur |-> dur, part |-> part, texts |-> texts]

\* In tenths of a millisecond: two beats in and out of order, with a gap, with
\* a template beat one capture cannot hold, and with one of 0.3 ms.
Timings == {<<0, 50000, 50000, 70000>>, <<50000, 70000, 0, 50000>>, <<0, 50000, 60000, 60000>>,
            <<0, 205000, 205000, 35000>>, <<0, 3, 3, 119997>>}
BoardsSmall ==
    {<<MCBeat("a", t[1], t[2], p[1], x), MCBeat("b", t[3], t[4], p[2], y)>> :
        t \in Timings, p \in {None, "third", "visual"} \X {None, "third"}, x \in Texts, y \in Texts}

OverridesSmall == {<<>>, <<None, "third">>, <<"visual">>}

\* Shorter copy, the same copy, or a beat that moved.
RepairsSmall(b) ==
    {[i \in DOMAIN b |-> [b[i] EXCEPT !.texts = <<"short">>]], b,
     [b EXCEPT ![1].texts = <<"short">>],
     [b EXCEPT ![1].dur = @ - 1, ![2].start = @ - 1, ![2].dur = @ + 1]}
=============================================================================
