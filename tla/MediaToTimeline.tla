--------------------------- MODULE MediaToTimeline ---------------------------
(* One imported file on its way to a rendered cut: MediaAnalysis finds out   *)
(* what the file holds, and the library made of it is what EditPlanning      *)
(* selects from.  A behaviour starts with a file, or with a library whose    *)
(* materials were analysed before.                                           *)
EXTENDS EditPlanning, MediaAnalysis

allVars == <<planVars, mediaVars>>

WholeInit ==
    \/ PlanInit /\ medium = Unknown /\ phase = "stored" /\ facts = Unknown
            /\ frames = Unknown /\ voice = Unknown /\ analysis = Unanalysed
    \/ MediaInit /\ stage = "waiting" /\ materials = <<>> /\ request = <<>>
                 /\ plan = None /\ timeline = None /\ edits = MaxSaves /\ command = None

\* PreparedSmartEditMaterials: the enriched material and the interval that
\* verify_decodable_video proved.
Prepared ==
    [kind |-> facts.kind,
     decodable |-> IF facts.kind = "image" THEN <<>> ELSE << <<0, UpTo(facts.ms, medium.decoded)>> >>,
     shots |-> analysis.shots, speech |-> analysis.speech,
     audio |-> facts.audio, chars |-> analysis.chars]

\* generate_smart_edit_timeline_draft goes on with the prepared materials.
HandOver ==
    /\ stage = "waiting" /\ phase = "stored"
    /\ materials' = <<Prepared>> /\ stage' = "analysed"
    /\ medium' = Unknown /\ facts' = Unknown /\ frames' = Unknown /\ voice' = Unknown
    /\ analysis' = Unanalysed
    /\ UNCHANGED <<phase, request, plan, timeline, edits, command>>

\* A refused file stays what it is.
NotPrepared ==
    /\ stage = "waiting" /\ UNCHANGED allVars
    /\ phase \notin {"file", "probed", "registered", "described", "proved", "framed", "understood",
                     "analysed", "prepared", "matched", "stored"}

WholeNext ==
    \/ MediaNext /\ UNCHANGED planVars
    \/ HandOver
    \/ NotPrepared
    \/ stage # "waiting" /\ PlanNext /\ UNCHANGED mediaVars

WholeSpec == WholeInit /\ [][WholeNext]_allVars
=============================================================================
