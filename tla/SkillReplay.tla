----------------------------- MODULE SkillReplay -----------------------------
(***************************************************************************)
(* What happens inside one `action.execute': the action operation drives a  *)
(* browser page by replaying signed skills (declarative step lists), and    *)
(* turns the outcome into one result for the control plane.  A skill has    *)
(* published versions; the orchestrator routes to one by the record of past *)
(* replays, which lives as long as the process.                             *)
(*                                                                          *)
(* ExecutorLedger models the ledger transactions, crashes and controls of   *)
(* the same action with the page left open; here the page, the replay and   *)
(* the receipts are in detail and a ledger call only answers or refuses.    *)
(* The website may be redesigned between two runs (`layout').  A page is    *)
(* what a lookup sees of it at its deadline: for each anchor the distances  *)
(* of the visible matches to the goal's context text.                       *)
(***************************************************************************)
EXTENDS Absent, Integers, Sequences, FiniteSets, FiniteSetsExt

CONSTANTS
    Layouts,     \* the anchors a design of the website has, by design
    Loads,       \* what may lie in the seed directory: sets of signed records
    Parameters,  \* the runtime parameters an execution passes, by goal
    Threshold,   \* PROVEN_FAILING_THRESHOLD
    MaxRuns      \* bound on the commands executed

VARIABLES
    layout,      \* the website's present design
    registry,    \* the records of the seed directory
    stats,       \* SkillStatsStore: the record of each version, and its clock
    runs,        \* commands executed so far
    pc, kind,    \* where the operation stands, and the action it performs
    goal,        \* the skill being replayed: "browse" or `kind'
    version,     \* the version routed to
    k,           \* the step being replayed
    resume,      \* the last checkpoint reached
    done,        \* steps of this replay whose postconditions held
    dispatched,  \* dispatched_effects: permission obtained by this replay
    effect,      \* the side effect's row as this action last saw it
    path, toast, \* the page's address, and whether it says the effect was done
    seen,        \* whether the platform had the effect before this run
    touched,     \* external acts this run attempted on the page
    posted,      \* whether the platform took one of them
    handback,    \* the last HandbackDecision, or None
    reply        \* the result of the last run, or None

page == <<path, toast>>
run == <<kind, goal, version, k, resume, done, dispatched>>
platform == <<seen, touched, posted>>
vars == <<layout, registry, stats, runs, pc, run, effect, page, platform, handback, reply>>

-----------------------------------------------------------------------------
(* Records: parse_automation_skill, the lint and the lineage of a registry *)

MaxExternalSteps == 1

Externals(skill) == {i \in 1..Len(skill.steps) : skill.steps[i].external}

ConditionKinds == {"visible", "absent", "path"}

StepParses(step) ==
    /\ step.external \in BOOLEAN /\ step.checkpoint \in BOOLEAN
    /\ \A c \in step.pre \cup step.post : c.kind \in ConditionKinds

EvidenceParses(c) == c.kind \in {"visible", "path"}

(* The closed document: bounded external steps and evidence of the outcome.  *)
Parses(skill) ==
    /\ skill.version \in Nat \ {0} /\ skill.steps # << >>
    /\ \A i \in 1..Len(skill.steps) : StepParses(skill.steps[i])
    /\ skill.boundary \in 0..MaxExternalSteps
    /\ Cardinality(Externals(skill)) <= skill.boundary
    /\ skill.evidence # {}
    /\ \A c \in skill.evidence : EvidenceParses(c)
    /\ skill.parent # None => skill.parent \in 1..(skill.version - 1)

(* What a reviewer may sign: a checkpoint, and proof of an external outcome. *)
Lints(skill) ==
    /\ \E i \in 1..Len(skill.steps) : skill.steps[i].checkpoint
    /\ Externals(skill) # {} => \E c \in skill.evidence : c.kind \in {"path", "visible"}

(* Only such a candidate, replayed to its end in the sandbox, gets the        *)
(* publisher's signature; loading does not lint it again.                    *)
ASSUME SignedAssumption == \A R \in Loads : \A r \in R : r.signed => Lints(r.skill)

(* The seeds that are committed: a directory of documents whose steps are a   *)
(* list; browsing has no external step, and an external one is followed by   *)
(* the message that only its effect brings (test_douyin_skills.py:34-95).    *)
Confirmation == [kind |-> "visible", on |-> "toast"]

ASSUME SeedsAssumption ==
    \A R \in Loads :
        /\ IsFiniteSet(R)
        /\ \A r \in R :
               /\ r.skill.steps \in Seq({r.skill.steps[i] : i \in DOMAIN r.skill.steps})
               /\ r.skill.id = "browse" => Externals(r.skill) = {}
               /\ \A i \in Externals(r.skill) :
                      Confirmation \in r.skill.steps[i].post \cup r.skill.evidence

Verifies(record) == record.signed /\ record.approved /\ Parses(record.skill)

Lineage(record, R) ==
    /\ \A other \in R \ {record} :
           <<other.skill.id, other.skill.version>> # <<record.skill.id, record.skill.version>>
    /\ record.skill.version = 1 => record.skill.parent = None
    /\ record.skill.version # 1 =>
           \E other \in R : /\ other.skill.id = record.skill.id
                            /\ other.skill.version = record.skill.parent

(* One bad record refuses the whole directory.                               *)
Loadable(R) == \A record \in R : Verifies(record) /\ Lineage(record, R)

(* A recorded trajectory as a first version: what the page showed after an   *)
(* act becomes its postcondition, and a checkpoint stands at the first step  *)
(* and before an external one.                                               *)
CleanStep(actions, i) ==
    [anchor |-> actions[i].anchor, near |-> actions[i].near, param |-> actions[i].param,
     external |-> actions[i].external,
     checkpoint |-> \/ i = 1
                    \/ i < Len(actions) /\ actions[i + 1].external /\ ~actions[i].external,
     pre |-> {}, post |-> actions[i].shown]

Cleaned(trajectory) ==
    LET actions == trajectory.actions
    IN [id |-> trajectory.id, version |-> 1, parent |-> None, context |-> trajectory.entry,
        boundary |-> Cardinality({i \in 1..Len(actions) : actions[i].external}),
        steps |-> [i \in 1..Len(actions) |-> CleanStep(actions, i)],
        evidence |-> {[kind |-> "path", on |-> p] : p \in trajectory.ends}]

SkillsOf(id) == {record.skill : record \in {r \in registry : r.skill.id = id}}
SkillAt(id, v) == CHOOSE skill \in SkillsOf(id) : skill.version = v
Skill == SkillAt(goal, version)
Step == Skill.steps[k]

-----------------------------------------------------------------------------
(* Routing *)

Unobserved == [wins |-> 0, losses |-> 0, hit |-> 0]
RecordOf(id, v) == stats.of[<<id, v>>]
Observed(r) == r.wins + r.losses > 0

(* The context is the newest version's own, not the page's.                  *)
Eligible(id) ==
    LET newest == SkillAt(id, Max({s.version : s \in SkillsOf(id)}))
    IN {s.version : s \in {t \in SkillsOf(id) : t.context = newest.context}}

Class(r) ==
    IF ~Observed(r) THEN 1
    ELSE IF r.wins = 0 /\ r.losses >= Threshold THEN 0 ELSE 2

(* Success rates are compared as fractions; then the last hit, the version.  *)
RateOf(r) == IF Class(r) = 2 THEN <<r.wins, r.wins + r.losses>> ELSE <<0, 1>>

Outranks(id, v, w) ==
    LET a == RecordOf(id, v)   b == RecordOf(id, w)
        ra == RateOf(a)        rb == RateOf(b)
    IN \/ Class(a) > Class(b)
       \/ /\ Class(a) = Class(b)
          /\ \/ ra[1] * rb[2] > rb[1] * ra[2]
             \/ /\ ra[1] * rb[2] = rb[1] * ra[2]
                /\ a.hit > b.hit \/ (a.hit = b.hit /\ v >= w)

Route(id) == CHOOSE v \in Eligible(id) : \A w \in Eligible(id) : Outranks(id, v, w)

Recorded(won) ==
    [clock |-> stats.clock + 1,
     of |-> [stats.of EXCEPT ![<<goal, version>>] =
        [wins |-> @.wins + (IF won THEN 1 ELSE 0),
         losses |-> @.losses + (IF won THEN 0 ELSE 1), hit |-> stats.clock + 1]]]

-----------------------------------------------------------------------------
(* The page *)

(* What a lookup may see at its deadline: nothing, one match or two, at      *)
(* distances to the context text; 0 is a match the context does not hold for.*)
Views(anchor) ==
    IF anchor \in Layouts[layout] THEN {<< >>, <<0>>, <<1>>, <<1, 1>>, <<1, 2>>} ELSE {<< >>}

(* Without a context a match must be alone; with one the strictly closest of *)
(* those the context holds for is taken, and a tie is refused.               *)
Resolve(view, near) ==
    LET qualifying == {i \in 1..Len(view) : view[i] > 0}
        closest == {i \in qualifying : \A j \in qualifying : view[i] <= view[j]}
        chosen == IF near THEN closest ELSE 1..Len(view)
    IN IF Cardinality(chosen) = 1 THEN CHOOSE i \in chosen : TRUE ELSE None

Found(step) == \E view \in Views(step.anchor) : Resolve(view, step.near) # None
Missed(step) == \E view \in Views(step.anchor) : Resolve(view, step.near) = None

(* A condition is polled until it holds or the deadline passes.              *)
Holds(c) ==
    CASE c.kind = "path" -> path = c.on
      [] c.kind = "absent" -> TRUE
      [] c.kind \notin {"path", "absent"} /\ c.on = "toast" -> toast
      [] OTHER -> c.on \in Layouts[layout]
Fails(c) ==
    CASE c.kind = "path" -> path # c.on
      [] c.kind = "absent" -> TRUE
      [] c.kind \notin {"path", "absent"} /\ c.on = "toast" -> ~toast
      [] OTHER -> TRUE

(* Any address of the evidence will do, every element must be there.         *)
EvidenceHolds ==
    LET addresses == {c \in Skill.evidence : c.kind = "path"}
    IN /\ addresses # {} => \E c \in addresses : Holds(c)
       /\ \A c \in Skill.evidence \ addresses : Holds(c)
EvidenceFails ==
    LET addresses == {c \in Skill.evidence : c.kind = "path"}
    IN \/ addresses # {} /\ \A c \in addresses : Fails(c)
       \/ \E c \in Skill.evidence \ addresses : Fails(c)

-----------------------------------------------------------------------------
(* Receipts and results *)

Answer(type, evidence) ==
    /\ reply' = [type |-> type, evidence |-> evidence, of |-> kind]
    /\ pc' = "idle"
Failed(evidence) == Answer("step.failed", evidence)
Uncertain(evidence) == Answer("task.outcome_uncertain", evidence)
Completed == Answer("step.completed", "confirmed")

\* Mutant: an effect that was dispatched is taken for performed.
ExistingTrusting ==
    IF effect \in {"dispatched", "verified"} THEN Completed ELSE Uncertain("recovery_unconfirmed")

(* A receipt for an effect an earlier attempt at this action settled.        *)
Existing ==
    IF effect = "verified" THEN Completed ELSE Uncertain("recovery_unconfirmed")

(* The operation itself reconciles such an effect, with no page at hand: what *)
(* is still dispatched is settled as uncertain.                              *)
Reconciled ==
    /\ Existing
    /\ effect' \in (IF effect = "dispatched" THEN {"dispatched", "uncertain"} ELSE {effect})

Quiet == UNCHANGED <<layout, registry, runs, platform>>
Engine == UNCHANGED <<goal, version, k, resume, done, dispatched, kind>>

-----------------------------------------------------------------------------
(* The action operation *)

(* The row and the platform as an earlier run, if any, left them.            *)
Histories ==
    {<<"none", FALSE>>, <<"prepared", FALSE>>, <<"dispatched", FALSE>>,
     <<"dispatched", TRUE>>, <<"uncertain", TRUE>>, <<"verified", TRUE>>}

Start(what) ==
    /\ pc = "idle" /\ runs < MaxRuns
    /\ runs' = runs + 1
    /\ kind' = what /\ pc' = "admit"
    /\ IF what = "browse"
       THEN effect' = "none" /\ seen' = FALSE
       ELSE \E h \in Histories : effect' = h[1] /\ seen' = h[2]
    /\ touched' = 0 /\ posted' = FALSE /\ done' = {} /\ dispatched' = FALSE
    /\ goal' = "browse" /\ version' = 1 /\ k' = 1 /\ resume' = 0
    /\ path' = "blank" /\ toast' = FALSE /\ reply' = None /\ handback' = None
    /\ UNCHANGED <<layout, registry, stats>>

Admission ==
    /\ pc = "admit"
    /\ \/ pc' = "existing" /\ UNCHANGED reply
       \/ Failed("local_safety_limit")
       \/ Failed("admission_rejected")
    /\ UNCHANGED <<stats, effect, page, handback>> /\ Quiet /\ Engine

MayPerform(state) == state \in {"none", "prepared"}

(* An effect past preparation is only reconciled.                            *)
ReconcileExisting ==
    /\ pc = "existing"
    /\ \/ /\ MayPerform(effect)
          /\ pc' = "browser" /\ UNCHANGED <<effect, reply>>
       \/ ~MayPerform(effect) /\ Reconciled
       \/ kind # "browse" /\ Failed("executor_reported_failure") /\ UNCHANGED effect
    /\ UNCHANGED <<stats, page, handback>> /\ Quiet /\ Engine

(* A browser of its own for every run, closed at its end.                    *)
OpenBrowser ==
    /\ pc = "browser"
    /\ \/ pc' = "navigate" /\ UNCHANGED reply
       \/ Failed("page_unavailable")
    /\ UNCHANGED <<stats, effect, page, handback>> /\ Quiet /\ Engine

(* Browsing and commenting open the profile and replay the browse skill; a   *)
(* direct message opens the profile and goes straight to its own.            *)
Navigate ==
    /\ pc = "navigate"
    /\ \/ /\ path' = "profile"
          /\ pc' = IF kind = "direct_message" THEN "admit_again" ELSE "route"
          /\ UNCHANGED reply
       \/ /\ \/ kind # "direct_message" /\ Failed("timed_out")
             \/ Failed("page_unavailable")
          /\ UNCHANGED path
    /\ goal' = "browse"
    /\ UNCHANGED <<stats, effect, toast, handback, kind, version, k, resume, done, dispatched>>
    /\ Quiet

(* Where a link of the platform may lead, as its page model reads addresses. *)
Entries == {"home", "search", "profile", "video", "unknown"}

(* A comment goes to the author's first video, if that is what the first     *)
(* link is and the profile is not covered by a dialog.                       *)
EnterVideo ==
    /\ pc = "entry"
    /\ \/ \E destination \in Entries :
              IF destination = "video"
              THEN pc' = "admit_again" /\ path' = destination /\ UNCHANGED reply
              ELSE Failed("page_unavailable") /\ UNCHANGED path
       \/ Failed("page_unavailable") /\ UNCHANGED path
    /\ UNCHANGED <<stats, effect, toast, handback>> /\ Quiet /\ Engine

AdmitInExecution ==
    /\ pc = "admit_again"
    /\ \/ pc' = "prepare" /\ UNCHANGED reply
       \/ Failed("local_safety_limit")
       \/ Failed("admission_rejected")
    /\ UNCHANGED <<stats, effect, page, handback>> /\ Quiet /\ Engine

Prepare ==
    /\ pc = "prepare"
    /\ \/ IF MayPerform(effect)
          THEN effect' = "prepared" /\ pc' = "route" /\ UNCHANGED reply
          ELSE Existing /\ UNCHANGED effect
       \/ Failed("executor_reported_failure") /\ UNCHANGED effect
    /\ goal' = kind
    /\ UNCHANGED <<stats, page, handback, kind, version, k, resume, done, dispatched>>
    /\ Quiet

-----------------------------------------------------------------------------
(* The orchestrator and the replayer *)

Begin(id) ==
    /\ version' = Route(id) /\ k' = 1 /\ resume' = 0 /\ done' = {}
    /\ dispatched' = FALSE
    /\ pc' = "step"

RouteSkill ==
    /\ pc = "route"
    /\ \/ /\ Loadable(registry) /\ SkillsOf(goal) # {}
          /\ Begin(goal)
          /\ UNCHANGED reply
       \/ /\ Loadable(registry) => SkillsOf(goal) = {}
          /\ Failed(IF Loadable(registry) THEN "page_version_unknown" ELSE "page_unavailable")
          /\ UNCHANGED <<version, k, resume, done, dispatched>>
    /\ UNCHANGED <<stats, effect, page, handback, kind, goal>> /\ Quiet

Decision(at) ==
    [skill |-> goal, version |-> version, failed |-> k,
     from |-> IF at = 0 THEN 1 ELSE at, dispatched |-> dispatched]

(* Once permission was obtained the page may have acted; the mark itself may *)
(* fail and leave the row as dispatched.                                     *)
SettleFailing(evidence) ==
    IF dispatched
    THEN /\ Uncertain("final_state_unconfirmed")
         /\ effect' \in {"dispatched", "uncertain"}
    ELSE Failed(evidence) /\ UNCHANGED effect

(* A failed replay is the version's failure.  Before the external act it     *)
(* awaits repair from the last checkpoint; after it, only reconciliation.    *)
ReplayFails(at) ==
    /\ stats' = Recorded(FALSE)
    /\ handback' = Decision(at)
    /\ SettleFailing("page_version_unknown")
    /\ UNCHANGED page /\ UNCHANGED <<kind, goal, version, k, resume, done, dispatched>>
    /\ Quiet

\* Mutant: the checkpoint is taken over before the step before it is done.
CheckpointAfterNext(at) == IF k < Len(Skill.steps) /\ Skill.steps[k + 1].checkpoint THEN k + 1 ELSE at

CheckpointAfter(at) == IF Step.checkpoint THEN k ELSE at

Payable(step) == step.param # None => step.param \in Parameters[goal]

(* Every parameter is looked for before the first step.                      *)
Preflight == \A i \in 1..Len(Skill.steps) : Payable(Skill.steps[i])

(* Up to the action: checkpoint, payload, preconditions, anchor.             *)
Approach ==
    /\ pc = "step"
    /\ Preflight /\ Found(Step)
    /\ \A c \in Step.pre : Holds(c)
    /\ resume' = CheckpointAfter(resume)
    /\ pc' = IF Step.external THEN "dispatch" ELSE "act"
    /\ UNCHANGED <<stats, effect, page, handback, reply, kind, goal, version, k, done, dispatched>>
    /\ Quiet

ApproachFails ==
    /\ pc = "step"
    /\ IF Preflight
       THEN /\ Missed(Step) \/ \E c \in Step.pre : Fails(c)
            /\ ReplayFails(CheckpointAfter(resume))
       ELSE ReplayFails(0)

(* The hook before the external act: a refusal leaves the page untouched and *)
(* is not the skill's failure.                                               *)
Dispatch ==
    /\ pc = "dispatch"
    /\ \/ IF MayPerform(effect)
          THEN /\ effect' = "dispatched" /\ dispatched' = TRUE /\ pc' = "act"
               /\ UNCHANGED reply
          ELSE Existing /\ UNCHANGED <<effect, dispatched>>
       \/ Failed("executor_reported_failure") /\ UNCHANGED <<effect, dispatched>>
    /\ UNCHANGED <<stats, page, handback, kind, goal, version, k, resume, done>> /\ Quiet

(* An external act may raise before or after the page took it.               *)
Act ==
    /\ pc = "act"
    /\ touched' = touched + (IF Step.external THEN 1 ELSE 0)
    /\ posted' \in (IF Step.external THEN {posted, TRUE} ELSE {posted})
    /\ pc' \in {"post", "raised"}
    /\ UNCHANGED <<layout, registry, stats, runs, effect, page, seen, handback, reply>> /\ Engine

ActRaised == pc = "raised" /\ ReplayFails(resume)

Confirm ==
    /\ pc = "post"
    /\ \A c \in Step.post : Holds(c)
    /\ done' = done \cup {k}
    /\ IF k < Len(Skill.steps) THEN k' = k + 1 /\ pc' = "step"
                               ELSE pc' = "evidence" /\ UNCHANGED k
    /\ UNCHANGED <<stats, effect, page, handback, reply, kind, goal, version, resume, dispatched>>
    /\ Quiet

ConfirmFails ==
    /\ pc = "post"
    /\ \E c \in Step.post : Fails(c)
    /\ ReplayFails(resume)

EvidenceMissing ==
    /\ pc = "evidence"
    /\ EvidenceFails
    /\ ReplayFails(resume)

(* A replay that succeeded: browsing is done, or leads to the video; an      *)
(* external skill that dispatched nothing must not claim a success.          *)
Replayed ==
    /\ pc = "evidence"
    /\ EvidenceHolds
    /\ stats' = Recorded(TRUE)
    /\ CASE goal # kind -> pc' = "entry" /\ UNCHANGED reply
         [] goal = kind /\ kind = "browse" -> Completed
         [] goal = kind /\ kind # "browse" /\ ~dispatched -> Failed("page_unavailable")
         [] OTHER -> pc' = "verify" /\ UNCHANGED reply
    /\ UNCHANGED <<effect, page, handback>> /\ Quiet /\ Engine

(* Success is only reported under a verified row.                            *)
Verify ==
    /\ pc = "verify"
    /\ \/ effect' = "verified" /\ Completed
       \/ effect' \in {"dispatched", "uncertain"} /\ Uncertain("final_state_unconfirmed")
    /\ UNCHANGED <<stats, page, handback>> /\ Quiet /\ Engine

(* The adapter may raise outside the replayer's own failures.                *)
Breaks ==
    /\ pc \in {"step", "post", "evidence"}
    /\ SettleFailing("page_unavailable")
    /\ UNCHANGED <<stats, page, handback>> /\ Quiet /\ Engine

-----------------------------------------------------------------------------
(* The website *)

(* The page says so only when the platform took the act, and stops saying it.*)
ToastChanges ==
    /\ pc # "idle"
    /\ posted \/ toast
    /\ toast' = ~toast
    /\ UNCHANGED <<stats, effect, path, handback, reply, pc>> /\ Quiet /\ Engine

Redesign ==
    /\ pc = "idle"
    /\ layout + 1 \in DOMAIN Layouts
    /\ layout' = layout + 1
    /\ UNCHANGED <<registry, stats, runs, pc, run, effect, page, platform, handback, reply>>

Init ==
    /\ layout = 1 /\ registry \in Loads
    /\ stats = [clock |-> 0,
                of |-> [id \in {<<r.skill.id, r.skill.version>> : r \in registry} |-> Unobserved]]
    /\ runs = 0 /\ pc = "idle" /\ kind = "browse" /\ goal = "browse"
    /\ version = 1 /\ k = 1 /\ resume = 0 /\ done = {} /\ dispatched = FALSE
    /\ effect = "none" /\ path = "blank" /\ toast = FALSE
    /\ seen = FALSE /\ touched = 0 /\ posted = FALSE
    /\ handback = None /\ reply = None

Next ==
    \/ \E what \in DOMAIN Parameters : Start(what)
    \/ Admission \/ ReconcileExisting \/ OpenBrowser \/ Navigate \/ EnterVideo
    \/ AdmitInExecution \/ Prepare \/ RouteSkill
    \/ Approach \/ ApproachFails \/ Dispatch \/ Act \/ ActRaised
    \/ Confirm \/ ConfirmFails \/ EvidenceMissing \/ Replayed \/ Verify \/ Breaks
    \/ ToastChanges \/ Redesign

Spec == Init /\ [][Next]_vars

-----------------------------------------------------------------------------
(* Properties *)

\* The result sent to the control plane is what happened: a failure means this
\* run never acted on the platform, a completed comment or message is there, and
\* anything in between is uncertain (action_result.py, comment_action.py).
ResultIsTrue ==
    reply # None =>
        /\ reply.type = "step.failed" => touched = 0
        /\ reply.type = "step.completed" /\ reply.of # "browse" => posted \/ seen

\* An action is never performed a second time: not by a run that finds an effect
\* an earlier run may have performed, nor by a second external step.
NeverTwice == touched + (IF seen THEN 1 ELSE 0) <= 1

\* A handback resumes where the page really is: every step before the checkpoint
\* was completed, none after it was acted on outside, and once something was
\* dispatched nothing may be resumed (skill_handback.py).
HandbackResumesSafely ==
    handback # None /\ ~handback.dispatched =>
        /\ touched = 0
        /\ 1..(handback.from - 1) \subseteq done
        /\ handback.from <= handback.failed
        /\ \A i \in Externals(SkillAt(handback.skill, handback.version)) : i >= handback.failed

=============================================================================
