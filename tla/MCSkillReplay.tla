--------------------------- MODULE MCSkillReplay ---------------------------
(* Two designs of the website: the first version of the comment skill knows   *)
(* the old one and its successor the new one; the other skills know both.     *)
EXTENDS SkillReplay

MCLayouts == <<{"follow", "box", "send"}, {"follow", "box", "publish"}>>
MCParameters == [browse |-> {}, comment |-> {"message"}, direct_message |-> {"message"}]

MCStep(anchor, near, param, external, checkpoint, pre, post) ==
    [anchor |-> anchor, near |-> near, param |-> param, external |-> external,
     checkpoint |-> checkpoint, pre |-> pre, post |-> post]
MCVisible(anchor) == [kind |-> "visible", on |-> anchor]

MCBrowse ==
    [id |-> "browse", version |-> 1, parent |-> None, context |-> "profile", boundary |-> 0,
     steps |-> <<MCStep("follow", FALSE, None, FALSE, TRUE, {}, {})>>,
     evidence |-> {MCVisible("follow")}]

MCDialogGone == [kind |-> "absent", on |-> "dialog"]

MCSend(id, v, parent, button) ==
    [id |-> id, version |-> v, parent |-> parent, context |-> "page", boundary |-> 1,
     steps |-> <<MCStep("box", FALSE, "message", FALSE, TRUE, {}, {}),
                 MCStep("box", TRUE, None, FALSE, FALSE, {}, {}),
                 MCStep(button, TRUE, None, TRUE, TRUE, {MCVisible(button), MCDialogGone}, {MCVisible("toast")})>>,
     evidence |-> {MCVisible("toast")} \cup
                  (IF id = "comment" THEN {[kind |-> "path", on |-> "video"]} ELSE {})]

MCSigned(skill) == [skill |-> skill, signed |-> TRUE, approved |-> TRUE]

(* A message skill that was recorded without the act that sends; it may also  *)
(* ask for a parameter nobody passes.                                         *)
MCDraftOnly == [MCSend("direct_message", 1, None, "send") EXCEPT
                    !.steps = SubSeq(@, 1, 2), !.evidence = {MCVisible("box")}]

(* The message skill as a recording that saw the confirmation gives it.       *)
MCAct(anchor, param, external, shown) ==
    [anchor |-> anchor, near |-> FALSE, param |-> param, external |-> external, shown |-> shown]
MCTrajectory ==
    [id |-> "direct_message", entry |-> "page", ends |-> {"profile"},
     actions |-> <<MCAct("box", None, FALSE, {MCVisible("box")}), MCAct("box", "message", FALSE, {}),
                   MCAct("send", None, TRUE, {MCVisible("toast")})>>]

MCSeeds == {MCSigned(MCBrowse), MCSigned(MCSend("comment", 1, None, "send")),
            MCSigned(MCSend("comment", 2, 1, "publish")),
            MCSigned(Cleaned(MCTrajectory))}
(* Also a directory without the message skill, two with the draft, and one    *)
(* whose second comment version names no published parent.                    *)
MCLoads ==
    {MCSeeds,
     {MCSigned(MCBrowse), MCSigned(MCSend("comment", 1, None, "send"))},
     {MCSigned(MCDraftOnly)},
     {MCSigned([MCDraftOnly EXCEPT !.steps[2].param = "signature"])},
     {MCSigned(MCBrowse), MCSigned(MCSend("comment", 2, None, "publish"))}}
=============================================================================
