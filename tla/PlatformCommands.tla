-------------------------- MODULE PlatformCommands --------------------------
(***************************************************************************)
(* The executor's platform commands: the App logs a person in to the        *)
(* platform, fills a publish form up to the last button, shows the person   *)
(* what would be posted, and posts it when the person agrees.               *)
(*                                                                          *)
(* One worker thread reads authenticated commands from the App one at a     *)
(* time; a command that is rejected ends the process.  Beside it the main   *)
(* thread borrows the same browser for actions and discovery and engages    *)
(* the emergency latch, and a kill may fall between any two steps.  The     *)
(* ledger rows (dispatches, session, latch) survive; the rest is memory.    *)
(*                                                                          *)
(* A clock read is any time: the wall clock may be set between two reads.   *)
(***************************************************************************)
EXTENDS Integers, Sequences, FiniteSets

CONSTANTS
    Jobs,           \* publish jobs
    Contents,       \* an artifact with its title and description
    TitleOf,        \* the title a content is listed under
    Approvals,      \* confirmation ids of one run
    Identities,     \* browser executable, profile directory and headless flag
    None,
    MaxTime,        \* bound on the clock
    MinInterval,    \* the publish policy's minimum interval
    MaxEpoch,       \* bound on session revisions
    MaxCommands,    \* bound on the commands and takeovers
    ResultWriter    \* "worker" or "reporter": who writes a command's result

ASSUME ConstantsAssumption ==
    /\ IsFiniteSet(Jobs) /\ IsFiniteSet(Approvals)
    /\ DOMAIN TitleOf = Contents
    /\ None \notin Approvals \cup Contents \cup Identities \cup Jobs \cup {"blank"}
    /\ None \notin 0..MaxTime
    /\ MaxTime \in Nat /\ MinInterval \in Nat
    /\ MaxEpoch \in Nat /\ MaxCommands \in Nat
    /\ ResultWriter \in {"worker", "reporter"}

VARIABLES
    \* the executor's ledger
    dispatches, \* executor_publish_dispatches, by job
    session,    \* the platform's row of executor_platform_sessions
    latch,      \* the emergency latch
    \* the executor's memory
    worker,     \* the command being handled and how far it is
    login,      \* the login operation: the identity its open flow runs under
    publish,    \* the publish operation
    gate,       \* SideEffectConfirmationGate: approvals presented
    lock,       \* BrowserLaunchAuthority: who holds the operation lock
    request,    \* whether a launch request is authorized
    surface,    \* BrowserSurfaceLeaseManager
    \* the App and the platform
    answer,     \* the last result frame
    shown,      \* approvals the App has been told of, with what they would post
    clicks,     \* submit clicks made for a job, with the approval they spent
    works,      \* jobs whose work the platform lists
    left        \* commands and takeovers that may still come

ledger == <<dispatches, session, latch>>
browser == <<lock, request>>
outside == <<shown, clicks, works, left>>
vars == <<dispatches, session, latch, worker, login, publish, gate, lock, request,
          surface, answer, shown, clicks, works, left>>

-----------------------------------------------------------------------------
(* Data *)

Times == 0..MaxTime
SessionStates == {"healthy", "expired", "missing", "risk", "unknown"}

(* Exactly one class of evidence on an official page names the session.       *)
DetectedSession(official, visible) ==
    IF official /\ Cardinality(visible) = 1 THEN CHOOSE s \in visible : TRUE ELSE "unknown"

Detectable ==
    {DetectedSession(official, visible) :
        official \in BOOLEAN, visible \in SUBSET (SessionStates \ {"unknown"})}

(* What the login flow makes of a detected session; a missing or expired one *)
(* is told apart by the QR code beside it.                                   *)
QrStates(detected) ==
    CASE detected = "healthy" -> {"healthy"}
      [] detected = "risk" -> {"handoff_required"}
      [] detected \in {"missing", "expired"} ->
            {"login_required", "awaiting_scan", "awaiting_confirmation", "qr_expired", "unknown"}
      [] OTHER -> {"unknown"}
LoginStates == UNION {QrStates(detected) : detected \in Detectable}

(* What the publish page is taken for: one of these, by its route and the     *)
(* anchors visible on it.                                                    *)
PageStates == {"awaiting_artifact", "form_ready", "works_list_ready", "login_required",
               "risk_challenge", "dialog_blocked", "unknown"}

(* A page that is not the expected one hands over to a person or blocks.     *)
AfterPage(observed, expected) ==
    IF observed = expected THEN "go"
    ELSE IF observed \in {"login_required", "risk_challenge"} THEN "handover"
    ELSE "blocked"

NoDispatch == [state |-> "none", content |-> None, prepared |-> 0, dispatched |-> None]
Settled == {"verified", "uncertain"}
NoPublish == [latest |-> "none", intent |-> None, approval |-> None, window |-> None]
Idle == [pc |-> "idle"]
NoAnswer == [state |-> "none", job |-> None, approval |-> None]

PublishTypes == {"preflight", "dispatch", "release"}
(* A command carries the fields of its own type and no others.               *)
Commands ==
    [type : {"preflight"}, job : Jobs, content : Contents]
        \cup [type : {"dispatch"}, job : Jobs, approval : Approvals]
        \cup [type : {"release", "logout"}]
        \cup [type : {"open", "recheck"}, identity : Identities]

(* The proof of a command binds its type and every field; two proofs agree    *)
(* only when the commands do.                                                *)
Proof(command) == <<"command", command>>
Authentic(command, proof) == proof = Proof(command)

-----------------------------------------------------------------------------
Init ==
    /\ dispatches = [j \in Jobs |-> NoDispatch]
    /\ session = [state |-> "none", revision |-> 0, observed |-> 0]
    /\ latch = FALSE
    /\ worker = Idle
    /\ login = None
    /\ publish = NoPublish
    /\ gate = [p \in {} |-> None]
    /\ lock = "free"
    /\ request = FALSE
    /\ surface = "owner_active"
    /\ answer = NoAnswer
    /\ shown = {}
    /\ clicks = [j \in Jobs |-> <<>>]
    /\ works = {}
    /\ left = MaxCommands

(* The memory of a new process; its App-side facts and its ledger stay.      *)
ForgetMemory ==
    /\ worker' = Idle
    /\ login' = None
    /\ publish' = NoPublish
    /\ gate' = [p \in {} |-> None]
    /\ lock' = "free"
    /\ request' = FALSE
    /\ surface' = "owner_active"

(* A rejected command: the worker closes both operations and the process     *)
(* ends; the App starts the next one.                                        *)
Reject == ForgetMemory /\ UNCHANGED <<answer, outside>>

-----------------------------------------------------------------------------
(* Results *)

(* The approval a result carries: the pending one, when its account could be *)
(* read.  The process reporter drops it.                                     *)
CarriedApproval(p) == IF ResultWriter = "worker" THEN p.approval ELSE None

(* A ready preflight shows the terms of the content the App sent.            *)
Reply(state, job, p) ==
    /\ answer' = [state |-> state, job |-> job, approval |-> CarriedApproval(p)]
    /\ shown' = IF state = "publish_pre_submit_ready" /\ CarriedApproval(p) # None
                  THEN shown \cup {[approval |-> CarriedApproval(p),
                                    content |-> worker.command.content]}
                  ELSE shown
    /\ worker' = Idle

-----------------------------------------------------------------------------
(* The browser *)

LockAfterPublish == IF lock = "publish" THEN "free" ELSE lock
LockAfterLogin == IF lock = "login" THEN "free" ELSE lock

(* Mutant: the receipt goes with the window, its approval stays.             *)
ReleasedPublishKeepsApproval ==
    [publish EXCEPT !.latest = IF @ = "ready" THEN "none" ELSE @,
                    !.intent = None, !.window = None]

(* release_surface: a ready receipt, its intent and its approval go with the *)
(* window.                                                                   *)
ReleasedPublish ==
    [publish EXCEPT !.latest = IF @ = "ready" THEN "none" ELSE @,
                    !.intent = None, !.approval = None, !.window = None]

MainAcquires ==
    /\ lock = "free" /\ request
    /\ lock' = "main"
    /\ UNCHANGED <<ledger, worker, login, publish, gate, request, surface, answer, outside>>

MainReleases ==
    /\ lock = "main"
    /\ lock' = "free"
    /\ UNCHANGED <<ledger, worker, login, publish, gate, request, surface, answer, outside>>

(* A borrower takes the surface over and gives it back, fails or expires;    *)
(* after a failure the owner has to reclaim it.                              *)
Surface(from, to) ==
    /\ surface = from
    /\ surface' = to
    /\ UNCHANGED <<ledger, worker, login, publish, gate, browser, answer, shown, clicks, works>>

BeginTakeover == Surface("owner_active", "leased") /\ left > 0 /\ left' = left - 1
ReleaseTakeover == Surface("leased", "owner_active") /\ UNCHANGED left
BorrowerFailsOrExpires == Surface("leased", "reclaim_required") /\ UNCHANGED left
ConfirmReclaimed == Surface("reclaim_required", "owner_active") /\ UNCHANGED left

SurfaceOwned == surface = "owner_active"

-----------------------------------------------------------------------------
(* Reading a command *)

(* The router hands publish commands to the publish operation and releases   *)
(* its surface before any other one.                                         *)
Route(command) ==
    /\ worker' = [pc |-> IF command.type \in PublishTypes THEN command.type ELSE "session",
                  command |-> command]
    /\ IF command.type \in PublishTypes
         THEN UNCHANGED <<publish, lock>>
         ELSE publish' = ReleasedPublish /\ lock' = LockAfterPublish

(* One frame, authenticated; the App can only confirm what it was shown.     *)
Read(command, proof) ==
    /\ worker.pc = "idle"
    /\ Authentic(command, proof)
    /\ command.type = "dispatch" => \E s \in shown : s.approval = command.approval
    /\ Route(command)
    /\ left > 0 /\ left' = left - 1
    /\ UNCHANGED <<ledger, login, gate, request, surface, answer, shown, clicks, works>>

Go(pc) == worker' = [worker EXCEPT !.pc = pc]

-----------------------------------------------------------------------------
(* Login *)

(* record_platform_session: time must pass, and within an epoch an open      *)
(* circuit does not close.                                                   *)
MayRecord(state, t, advance) ==
    \/ session.state = "none"
    \/ /\ t > session.observed
       /\ advance \/ session.state = "healthy" \/ state # "healthy"
    \/ t = session.observed /\ ~advance /\ state = session.state

RecordSession(state, t, advance) ==
    /\ MayRecord(state, t, advance)
    /\ session' = [state |-> state, observed |-> t,
                   revision |-> IF session.state = "none" THEN 1
                                ELSE IF advance THEN session.revision + 1
                                ELSE session.revision]
    /\ session'.revision <= MaxEpoch

(* A health report: the persisted row, and the frame that carries it.        *)
ReportHealth(health, t, recovered) == RecordSession(health, t, recovered)

(* A command can still fail after its health row is written.                 *)
RejectReported(health, recovered) ==
    /\ Reject
    /\ UNCHANGED <<dispatches, latch>>
    /\ UNCHANGED session \/ \E t \in Times : ReportHealth(health, t, recovered)

(* Logout closes the flow, withdraws the launch request and opens a new      *)
(* epoch without a session.                                                  *)
Logout ==
    /\ worker.pc = "session" /\ worker.command.type = "logout"
    /\ \/ /\ LockAfterLogin = "free"
          /\ login' = None /\ lock' = "free" /\ request' = FALSE
          /\ \E t \in Times : ReportHealth("missing", t, TRUE)
          /\ Reply("logged_out", None, publish)
          /\ UNCHANGED <<dispatches, latch, publish, gate, surface, clicks, works, left>>
       \/ RejectReported("missing", TRUE)

(* An open flow is closed first; a recheck uses the open flow, which must    *)
(* have been opened under the same identity.                                 *)
StartLogin ==
    /\ worker.pc = "session" /\ worker.command.type # "logout"
    /\ \/ /\ worker.command.type = "recheck" /\ login = worker.command.identity
          /\ Go("observe")
          /\ UNCHANGED <<ledger, login, publish, gate, browser, surface, answer, outside>>
       \/ /\ worker.command.type = "open" \/ login = None
          /\ LockAfterLogin = "free"
          /\ login' = None /\ lock' = "free" /\ request' = TRUE
          /\ Go("acquire")
          /\ UNCHANGED <<ledger, publish, gate, surface, answer, outside>>
       \/ Reject /\ UNCHANGED ledger

AcquireLogin ==
    /\ worker.pc = "acquire" /\ worker.command.type # "preflight"
    /\ \/ /\ lock = "free"
          /\ lock' = "login" /\ login' = worker.command.identity
          /\ Go("observe")
          /\ UNCHANGED <<ledger, publish, gate, request, surface, answer, outside>>
       \/ Reject /\ UNCHANGED ledger

(* The page is read twice: for the state the App is told, and for the health *)
(* row.  Only a flow that saw a healthy session opens a new epoch; it closes *)
(* the browser.                                                              *)
ObserveLogin ==
    /\ worker.pc = "observe"
    /\ \/ \E state \in LoginStates, health \in Detectable, t \in Times :
              /\ ReportHealth(health, t, state = "healthy")
              /\ login' = IF state = "healthy" THEN None ELSE login
              /\ lock' = IF state = "healthy" THEN "free" ELSE lock
              /\ Reply(state, None, publish)
              /\ UNCHANGED <<dispatches, latch, publish, gate, request, surface, clicks, works, left>>
       \/ \E health \in Detectable, recovered \in BOOLEAN : RejectReported(health, recovered)

-----------------------------------------------------------------------------
(* Publish: up to the last button *)

ReleaseCommand ==
    /\ worker.pc = "release"
    /\ publish' = ReleasedPublish
    /\ lock' = LockAfterPublish
    /\ Reply("publish_released", None, publish')
    /\ UNCHANGED <<ledger, login, gate, request, surface, clicks, works, left>>

(* A blocked preflight leaves no window behind; one that hands over does.    *)
EndBlocked ==
    /\ publish' = [NoPublish EXCEPT !.latest = "blocked"]
    /\ lock' = LockAfterPublish
    /\ Reply("publish_blocked", None, publish')
    /\ UNCHANGED <<ledger, login, gate, request, surface, clicks, works, left>>

EndHandover ==
    /\ publish' = [publish EXCEPT !.latest = "handoff"]
    /\ Reply("publish_handoff_required", None, publish')
    /\ UNCHANGED <<ledger, login, gate, browser, surface, clicks, works, left>>

(* An artifact or a text that is refused ends the command before the old     *)
(* window is closed; a busy browser or a lent surface after it.              *)
RefuseContent ==
    /\ worker.pc = "preflight"
    /\ publish' = [NoPublish EXCEPT !.latest = "blocked", !.window = publish.window]
    /\ Reply("publish_blocked", None, publish')
    /\ UNCHANGED <<ledger, login, gate, browser, surface, clicks, works, left>>

StartPreflight ==
    /\ worker.pc = "preflight"
    /\ IF SurfaceOwned /\ LockAfterPublish = "free"
         THEN /\ publish' = NoPublish
              /\ lock' = "free" /\ request' = TRUE
              /\ Go("acquire")
              /\ UNCHANGED <<ledger, login, gate, surface, answer, outside>>
         ELSE EndBlocked

AcquirePublish ==
    /\ worker.pc = "acquire" /\ worker.command.type = "preflight"
    /\ \/ /\ lock = "free"
          /\ lock' = "publish"
          /\ publish' = [publish EXCEPT !.window = "blank"]
          /\ Go("entry")
          /\ UNCHANGED <<ledger, login, gate, request, surface, answer, outside>>
       \/ EndBlocked

OpenEntry ==
    /\ worker.pc = "entry"
    /\ \/ /\ SurfaceOwned
          /\ \E observed \in PageStates :
               CASE AfterPage(observed, "awaiting_artifact") = "go" ->
                      /\ Go("upload")
                      /\ UNCHANGED <<ledger, login, publish, gate, browser, surface, answer,
                                     outside>>
                 [] AfterPage(observed, "awaiting_artifact") = "handover" -> EndHandover
                 [] OTHER -> EndBlocked
       \/ ~SurfaceOwned /\ EndBlocked
       \/ Reject /\ UNCHANGED ledger

(* The artifact's digest is taken again on both sides of the upload.         *)
UploadArtifact ==
    /\ worker.pc = "upload"
    /\ \/ SurfaceOwned /\ Go("fill")
          /\ UNCHANGED <<ledger, login, publish, gate, browser, surface, answer, outside>>
       \/ EndBlocked

(* Mutant: confirmation ids are unique within a process only.                *)
PresentReused(p, content) ==
    /\ p \in Approvals \ DOMAIN gate
    /\ gate' = [q \in DOMAIN gate \cup {p} |->
                  IF q = p THEN [content |-> content, status |-> "presented"] ELSE gate[q]]

(* The confirmation the operator is to answer names the action, the account  *)
(* the page shows and the content's hash.  No readable account, no approval. *)
Present(p, content) ==
    /\ p \in Approvals \ (DOMAIN gate \cup {s.approval : s \in shown})
    /\ gate' = [q \in DOMAIN gate \cup {p} |->
                  IF q = p THEN [content |-> content, status |-> "presented"] ELSE gate[q]]

FillForm ==
    /\ worker.pc = "fill"
    /\ \/ /\ SurfaceOwned
          /\ LET content == worker.command.content
                 Ready(p) == [latest |-> "ready", intent |-> content, approval |-> p,
                              window |-> content]
             IN \/ \E p \in Approvals : Present(p, content) /\ publish' = Ready(p)
                \/ publish' = Ready(None) /\ UNCHANGED gate
          /\ Reply("publish_pre_submit_ready", None, publish')
          /\ UNCHANGED <<ledger, login, browser, surface, clicks, works, left>>
       \/ /\ \E observed \in PageStates : AfterPage(observed, "form_ready") = "handover"
          /\ EndHandover
       \/ EndBlocked

-----------------------------------------------------------------------------
(* Publish: the last button *)

Replied(state) == Reply(state, worker.command.job, publish)

NotDispatched ==
    /\ Replied("publish_not_dispatched")
    /\ UNCHANGED <<dispatches, session, latch, login, publish, gate, browser, surface, clicks,
                   works, left>>

(* Any answer but "not dispatched" clears the receipt and the intent.        *)
Dispatched(state) ==
    /\ publish' = [publish EXCEPT !.latest = "none", !.intent = None]
    /\ Reply(state, worker.command.job, publish')

ReplayState(row) ==
    IF row.state = "verified" THEN "publish_verified" ELSE "publish_outcome_uncertain"

(* The answer spends the pending approval whatever comes of it.              *)
StartDispatch ==
    /\ worker.pc = "dispatch"
    /\ IF publish.latest = "ready" /\ publish.window # None
          /\ publish.approval = worker.command.approval
         THEN /\ gate' = [gate EXCEPT ![publish.approval].status = "authorized"]
              /\ publish' = [publish EXCEPT !.approval = None]
              /\ Go("prepare")
              /\ UNCHANGED <<ledger, login, browser, surface, answer, outside>>
         ELSE NotDispatched

Job == worker.command.job
Row == dispatches[Job]

(* The job is recorded with the content it stands for; a job that was        *)
(* recorded with another content, or a stopped executor, refuses.            *)
PrepareDispatch ==
    /\ worker.pc = "prepare"
    /\ \/ NotDispatched
       \/ /\ SurfaceOwned
          /\ IF Row.state = "none"
               THEN /\ ~latch
                    /\ \E t \in Times :
                         dispatches' = [dispatches EXCEPT ![Job] =
                           [state |-> "prepared", content |-> publish.intent,
                            prepared |-> t, dispatched |-> None]]
                    /\ Go("arm")
                    /\ UNCHANGED <<publish, answer, shown>>
               ELSE /\ Row.content = publish.intent
                    /\ UNCHANGED dispatches
                    /\ IF Row.state = "prepared"
                         THEN Go("arm") /\ UNCHANGED <<publish, answer, shown>>
                         ELSE Dispatched(ReplayState(Row))
          /\ UNCHANGED <<session, latch, login, gate, browser, surface, clicks, works, left>>

(* The form is still there and its button enabled; the surface is checked    *)
(* again and the approval spent, once.                                       *)
ArmSubmit ==
    /\ worker.pc = "arm"
    /\ \/ /\ SurfaceOwned
          /\ gate[worker.command.approval] =
               [content |-> publish.intent, status |-> "authorized"]
          /\ gate' = [gate EXCEPT ![worker.command.approval].status = "dispatched"]
          /\ Go("begin")
          /\ UNCHANGED <<ledger, login, publish, browser, surface, answer, outside>>
       \/ NotDispatched

OtherDispatches == {dispatches[j].dispatched : j \in Jobs \ {Job}} \ {None}

(* begin_publish_dispatch: no stop, not before the preparation and not       *)
(* within the interval of another job's dispatch.                            *)
BeginDispatch ==
    /\ worker.pc = "begin"
    /\ \/ /\ ~latch
          /\ \E t \in Times :
               /\ t >= Row.prepared
               /\ \A d \in OtherDispatches : t - d >= MinInterval
               /\ dispatches' = [dispatches EXCEPT ![Job].state = "dispatched",
                                                   ![Job].dispatched = t]
          /\ Go("click")
          /\ UNCHANGED <<session, latch, login, publish, gate, browser, surface, answer, outside>>
       \/ NotDispatched

(* Mutant: a click that timed out is settled like one that returned.         *)
ClickIgnoresTimeout ==
    /\ worker.pc = "click"
    /\ \E reached \in BOOLEAN :
         /\ clicks' = IF reached
                        THEN [clicks EXCEPT ![Job] =
                               Append(@, [approval |-> worker.command.approval,
                                          content |-> publish.window])]
                        ELSE clicks
         /\ works' \in IF reached THEN {works, works \cup {Job}} ELSE {works}
         /\ Go("settle")
    /\ UNCHANGED <<ledger, login, publish, gate, browser, surface, answer, shown, left>>

(* A click that fails or times out may still have reached the page, and the  *)
(* platform lists the work or not.                                           *)
Click ==
    /\ worker.pc = "click"
    /\ \E reached, listed, returned \in BOOLEAN :
         /\ listed => reached
         /\ returned => reached
         /\ clicks' = IF reached
                        THEN [clicks EXCEPT ![Job] =
                               Append(@, [approval |-> worker.command.approval,
                                          content |-> publish.window])]
                        ELSE clicks
         /\ works' = IF listed THEN works \cup {Job} ELSE works
         /\ Go(IF returned THEN "settle" ELSE "uncertain")
    /\ UNCHANGED <<ledger, login, publish, gate, browser, surface, answer, shown, left>>

ListedTitles(title) == {j \in works : TitleOf[dispatches[j].content] = title}

(* verify_publish_dispatch or mark_publish_dispatch_uncertain: never before  *)
(* the dispatch.                                                             *)
Settle(state) ==
    /\ \E t \in Times : t >= Row.dispatched
    /\ dispatches' = [dispatches EXCEPT ![Job].state = state]

(* The works list is separate evidence: the title exactly once, or unknown.  *)
SettleAgainstWorks ==
    /\ worker.pc = "settle"
    /\ \/ /\ Cardinality(ListedTitles(TitleOf[publish.intent])) = 1
          /\ Settle("verified")
          /\ Dispatched("publish_verified")
          /\ UNCHANGED <<session, latch, login, gate, browser, surface, clicks, works, left>>
       \/ /\ Go("uncertain")
          /\ UNCHANGED <<ledger, login, publish, gate, browser, surface, answer, outside>>

(* The ledger may refuse to settle; the answer is the same.                  *)
MarkUncertain ==
    /\ worker.pc = "uncertain"
    /\ Settle("uncertain") \/ UNCHANGED dispatches
    /\ Dispatched("publish_outcome_uncertain")
    /\ UNCHANGED <<session, latch, login, gate, browser, surface, clicks, works, left>>

-----------------------------------------------------------------------------
(* Stops and failures *)

EngageLatch ==
    /\ ~latch
    /\ latch' = TRUE
    /\ UNCHANGED <<dispatches, session, worker, login, publish, gate, browser, surface, answer,
                   outside>>

Kill == ForgetMemory /\ UNCHANGED <<ledger, answer, outside>>

Next ==
    \/ \E command \in Commands : \E proof \in {Proof(command)} : Read(command, proof)
    \/ Logout \/ StartLogin \/ AcquireLogin \/ ObserveLogin
    \/ ReleaseCommand \/ RefuseContent \/ StartPreflight \/ AcquirePublish
    \/ OpenEntry \/ UploadArtifact \/ FillForm
    \/ StartDispatch \/ PrepareDispatch \/ ArmSubmit \/ BeginDispatch
    \/ Click \/ SettleAgainstWorks \/ MarkUncertain
    \/ MainAcquires \/ MainReleases
    \/ BeginTakeover \/ ReleaseTakeover \/ BorrowerFailsOrExpires \/ ConfirmReclaimed
    \/ EngageLatch \/ Kill

Spec == Init /\ [][Next]_vars

-----------------------------------------------------------------------------
(* Properties *)

(* The shape of the state: the rows the schema admits, the commands the      *)
(* worker handles, the holders of the browser.                               *)
TypeOK ==
    /\ dispatches \in [Jobs -> [state : {"none", "prepared", "dispatched"} \cup Settled,
                               content : Contents \cup {None}, prepared : Times,
                               dispatched : Times \cup {None}]]
    /\ session \in [state : SessionStates \cup {"none"}, revision : 0..MaxEpoch, observed : Times]
    /\ latch \in BOOLEAN /\ request \in BOOLEAN
    /\ worker = Idle \/ worker.command \in Commands
    /\ login \in Identities \cup {None}
    /\ publish \in [latest : {"none", "ready", "handoff", "blocked"},
                    intent : Contents \cup {None}, approval : Approvals \cup {None},
                    window : Contents \cup {None, "blank"}]
    /\ DOMAIN gate \subseteq Approvals
    /\ lock \in {"free", "publish", "login", "main"}
    /\ surface \in {"owner_active", "leased", "reclaim_required"}
    /\ left \in 0..MaxCommands

(* The publish rows keep the promise of the side-effect contract: a job's    *)
(* button is pressed at most once, only under a permission, and no verdict   *)
(* is taken back, through replays, kills and stops (begin_publish_dispatch,  *)
(* _settle_publish_dispatch).                                                *)
Verdict(row) ==
    CASE row.state \in {"none", "prepared"} -> "open"
      [] row.state = "dispatched" -> "permitted"
      [] row.state = "verified" -> "confirmed"
      [] OTHER -> "unknown"

Contract == INSTANCE SideEffectContract WITH
    Actions <- Jobs,
    verdict <- [j \in Jobs |-> Verdict(dispatches[j])],
    performed <- [j \in Jobs |-> Len(clicks[j])]

ImplementsContract == Contract!Spec

(* What is posted is what a person was shown: every click spends an approval *)
(* of its own, presses the form that approval named, and stands in the row   *)
(* of its job under the same content (SideEffectConfirmationGate,            *)
(* _confirmation_still_holds).                                               *)
ClicksOf(j) == {clicks[j][i] : i \in DOMAIN clicks[j]}
ApprovalCoversClick ==
    \A j \in Jobs : \A c \in ClicksOf(j) :
        /\ [approval |-> c.approval, content |-> c.content] \in shown
        /\ dispatches[j].content = c.content
        /\ \A k \in Jobs \ {j} : \A d \in ClicksOf(k) : d.approval # c.approval

(* An approval that can still be answered always has its window: the filled  *)
(* form of its content, held by the publish operation (release_surface,      *)
(* _close_active).                                                           *)
PendingApprovalIsLive ==
    publish.approval # None =>
        /\ lock = "publish"
        /\ publish.latest = "ready"
        /\ publish.intent = publish.window
        /\ gate[publish.approval] = [content |-> publish.window, status |-> "presented"]

(* The operation lock is held exactly by the operation whose browser is      *)
(* open, so no close path leaves the browser locked or shared.               *)
BrowserHeldByOwner ==
    /\ lock = "publish" <=> publish.window # None
    /\ lock = "login" <=> login # None

(* Two jobs are never dispatched within the policy's interval, whatever the  *)
(* wall clock does (begin_publish_dispatch).                                 *)
DispatchesSpaced ==
    \A j, k \in Jobs :
        j # k /\ dispatches[j].dispatched # None /\ dispatches[k].dispatched # None =>
            \/ dispatches[j].dispatched - dispatches[k].dispatched >= MinInterval
            \/ dispatches[k].dispatched - dispatches[j].dispatched >= MinInterval

-----------------------------------------------------------------------------
(* What the documents say, or the App relies on, and the code does not do    *)

(* The App is told the terms of the approval a ready preflight wants         *)
(* (write_platform_command_result: "A preflight that stopped before          *)
(* submission also carries the terms of the approval it wants").             *)
ReadyCarriesTerms ==
    answer.state = "publish_pre_submit_ready" /\ publish.approval # None =>
        answer.approval = publish.approval

(* The App is told "healthy" only of a session stored as healthy: the login  *)
(* page is read once for the answer and once more for the row (handle).      *)
ToldHealthyIsStored ==
    [][answer'.state = "healthy" /\ session' # session => session'.state = "healthy"]_vars

(* An answer "not dispatched" is for a publish that never reached the button *)
(* (_not_dispatched: "one publish that never reached the button").           *)
NotDispatchedNeverReached ==
    answer.state = "publish_not_dispatched" => clicks[answer.job] = <<>>
=============================================================================
