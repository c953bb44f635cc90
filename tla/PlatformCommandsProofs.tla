----------------------- MODULE PlatformCommandsProofs -----------------------
(***************************************************************************)
(* The platform commands for every set of jobs, contents and approvals: a   *)
(* click is covered by what a person was shown, a job's button follows the  *)
(* side-effect contract, the browser has one owner, and an open circuit of  *)
(* the session stays open within its epoch.                                 *)
(***************************************************************************)
EXTENDS PlatformCommands, FiniteSetTheorems, TLAPS

(* How far the worker may be with a command of each type.                    *)
StagesOf(type) ==
    CASE type = "preflight" -> {"preflight", "acquire", "entry", "upload", "fill"}
      [] type = "dispatch" -> {"dispatch", "prepare", "arm", "begin", "click", "settle", "uncertain"}
      [] type = "release" -> {"release"}
      [] type = "logout" -> {"session"}
      [] type \in {"open", "recheck"} -> {"session", "acquire", "observe"}

Clicked == [approval : Approvals, content : Contents]
Rows == [state : {"none", "prepared", "dispatched"} \cup Settled, content : Contents \cup {None},
         prepared : Times, dispatched : Times \cup {None}]
Sessions == [state : SessionStates \cup {"none"}, revision : 0..MaxEpoch, observed : Times]
Publishes == [latest : {"none", "ready", "handoff", "blocked"}, intent : Contents \cup {None},
              approval : Approvals \cup {None}, window : Contents \cup {None, "blank"}]

WorkerTypeOK ==
    \/ worker = Idle
    \/ /\ worker = [pc |-> worker.pc, command |-> worker.command]
       /\ worker.command \in Commands
       /\ worker.pc \in StagesOf(worker.command.type)

BrowserTypeOK ==
    /\ login \in Identities \cup {None}
    /\ lock \in {"free", "publish", "login", "main"}
    /\ surface \in {"owner_active", "leased", "reclaim_required"}
    /\ request \in BOOLEAN

MemoryTypeOK ==
    /\ WorkerTypeOK
    /\ BrowserTypeOK
    /\ publish \in Publishes
    /\ gate \in [DOMAIN gate -> [content : Contents,
                                 status : {"presented", "authorized", "dispatched"}]]
    /\ DOMAIN gate \subseteq Approvals

StoredTypeOK ==
    /\ dispatches \in [Jobs -> Rows]
    /\ session \in Sessions
    /\ latch \in BOOLEAN
    /\ shown \subseteq Clicked
    /\ clicks \in [Jobs -> Seq(Clicked)]
    /\ left \in 0..MaxCommands

Unspent(p) == \A j \in Jobs : \A c \in ClicksOf(j) : c.approval # p

Publishing == {"prepare", "arm", "begin", "click"}

(* What the worker has established where it stands: the login flow, the form *)
(* in its window, the approval it was given and has not spent, and the row   *)
(* of its job.                                                               *)
LoginStageOK == worker.pc = "observe" => login # None

FormStageOK ==
    /\ worker.pc \in {"entry", "upload", "fill"} => publish.window # None
    /\ worker.pc \in {"acquire", "entry", "upload", "fill", "settle", "uncertain"} =>
          publish.approval = None

ApprovedStageOK ==
    /\ worker.pc = "dispatch" => \E s \in shown : s.approval = worker.command.approval
    /\ worker.pc \in Publishing =>
          /\ publish.approval = None
          /\ publish.intent = publish.window
          /\ publish.window \in Contents
          /\ [approval |-> worker.command.approval, content |-> publish.window] \in shown
          /\ Unspent(worker.command.approval)

RowStageOK ==
    /\ worker.pc \in {"arm", "begin"} => Row.state = "prepared"
    /\ worker.pc \in {"arm", "begin", "click"} => Row.content = publish.intent
    /\ worker.pc \in {"click", "settle", "uncertain"} => Row.state = "dispatched"
    /\ worker.pc = "click" => clicks[Job] = <<>>
    /\ worker.pc = "settle" => Len(clicks[Job]) = 1

(* The approval that waits for its answer was shown with what is in the      *)
(* window, and nothing was posted under it.                                  *)
PendingOK ==
    /\ PendingApprovalIsLive
    /\ publish.approval # None =>
          /\ publish.window \in Contents
          /\ ResultWriter = "worker" =>
                [approval |-> publish.approval, content |-> publish.window] \in shown
          /\ Unspent(publish.approval)
    /\ ResultWriter = "reporter" => shown = {}

(* A job whose button was never armed has no click, and no job has two.      *)
ClicksCounted ==
    \A j \in Jobs :
        /\ Len(clicks[j]) <= 1
        /\ dispatches[j].state \in {"none", "prepared"} => clicks[j] = <<>>

MemoryInv == MemoryTypeOK /\ StoredTypeOK
StageInv == LoginStageOK /\ FormStageOK /\ ApprovedStageOK /\ RowStageOK
IInv ==
    /\ MemoryInv /\ StageInv
    /\ PendingOK /\ ClicksCounted /\ ApprovalCoversClick
    /\ BrowserHeldByOwner /\ DispatchesSpaced

-----------------------------------------------------------------------------
(* The worker *)

(* A worker that is not idle holds a command of the type its stage is for.   *)
LEMMA Working ==
  ASSUME WorkerTypeOK, worker.pc # "idle"
  PROVE  /\ worker = [pc |-> worker.pc, command |-> worker.command]
         /\ worker.command \in Commands
         /\ worker.pc \in StagesOf(worker.command.type)
  BY DEF WorkerTypeOK, Idle

(* The fields a command of each type carries.                                *)
LEMMA Carries ==
  ASSUME NEW command \in Commands
  PROVE  /\ command.type \in {"preflight", "dispatch", "release", "logout", "open", "recheck"}
         /\ command.type = "preflight" => command.content \in Contents
         /\ command.type = "dispatch" => command.job \in Jobs /\ command.approval \in Approvals
         /\ command.type \in {"open", "recheck"} => command.identity \in Identities
  BY DEF Commands

(* The stages tell the types apart.                                          *)
LEMMA StageTypes ==
  ASSUME NEW command \in Commands, NEW pc \in StagesOf(command.type)
  PROVE  /\ pc \in {"preflight", "entry", "upload", "fill"} => command.type = "preflight"
         /\ pc \in Publishing \cup {"dispatch", "settle", "uncertain"} => command.type = "dispatch"
         /\ pc \in {"session", "observe"} => command.type \in {"logout", "open", "recheck"}
         /\ pc = "observe" => command.type \in {"open", "recheck"}
         /\ pc = "acquire" => command.type \in {"preflight", "open", "recheck"}
         /\ pc = "release" => command.type = "release"
         /\ pc # "idle"
  BY Carries DEF StagesOf, Publishing

(* What the worker handles is a preflight while it fills the form.           *)
LEMMA FormCommand ==
  ASSUME WorkerTypeOK, worker.pc \in {"preflight", "entry", "upload", "fill"}
  PROVE  worker.command.type = "preflight" /\ worker.command.content \in Contents
  BY Working, Carries, StageTypes

(* What the worker handles is a dispatch from the answer to the verdict.     *)
LEMMA DispatchCommand ==
  ASSUME WorkerTypeOK, worker.pc \in Publishing \cup {"dispatch", "settle", "uncertain"}
  PROVE  /\ worker.command.type = "dispatch"
         /\ worker.command.job \in Jobs /\ worker.command.approval \in Approvals
<1>1. worker.pc # "idle"
  BY DEF Publishing
<1> QED
  BY <1>1, Working, Carries, StageTypes

(* Going on to a stage of the command's type.                                *)
LEMMA Going ==
  ASSUME WorkerTypeOK, worker.pc # "idle", NEW pc, Go(pc), pc \in StagesOf(worker.command.type)
  PROVE  WorkerTypeOK' /\ worker'.pc = pc /\ worker'.command = worker.command
<1>1. PICK a, c : worker = [pc |-> a, command |-> c]
  BY Working
<1>2. worker' = [pc |-> pc, command |-> c]
  BY <1>1 DEF Go
<1>3. worker'.pc = pc /\ worker'.command = c /\ worker.command = c
  BY <1>1, <1>2
<1> QED
  BY <1>1, <1>2, <1>3, Working DEF WorkerTypeOK

(* An idle worker has no stage to keep.                                      *)
LEMMA Ending ==
  ASSUME worker' = Idle
  PROVE  WorkerTypeOK' /\ StageInv'
<1>1. worker'.pc = "idle"
  BY DEF Idle
<1>2. WorkerTypeOK'
  BY DEF WorkerTypeOK
<1>3. LoginStageOK' /\ FormStageOK'
  BY <1>1 DEF LoginStageOK, FormStageOK
<1>4. ApprovedStageOK'
  BY <1>1 DEF ApprovedStageOK, Publishing
<1>5. RowStageOK'
  BY <1>1 DEF RowStageOK
<1> QED
  BY <1>2, <1>3, <1>4, <1>5 DEF StageInv

(* A reply other than a ready preflight shows nothing new.                   *)
LEMMA Replying ==
  ASSUME NEW state, NEW job, NEW p, Reply(state, job, p), state # "publish_pre_submit_ready"
  PROVE  worker' = Idle /\ shown' = shown
  BY DEF Reply

(* No state of the login flow is that of a publish.                          *)
LEMMA LoginIsNoPublish ==
  ASSUME NEW state \in LoginStates
  PROVE  state # "publish_pre_submit_ready"
<1>1. PICK detected \in Detectable : state \in QrStates(detected)
  BY DEF LoginStates
<1> QED
  BY <1>1 DEF QrStates

(* What is detected is one of the session states.                            *)
LEMMA DetectedIsState == Detectable \subseteq SessionStates
<1> SUFFICES ASSUME NEW official \in BOOLEAN, NEW visible \in SUBSET (SessionStates \ {"unknown"})
             PROVE  DetectedSession(official, visible) \in SessionStates
  BY DEF Detectable
<1>1. CASE Cardinality(visible) = 1
  <2>1. visible # {}
    BY <1>1, FS_EmptySet
  <2> QED
    BY <2>1 DEF DetectedSession, SessionStates
<1>2. CASE Cardinality(visible) # 1
  BY <1>2 DEF DetectedSession, SessionStates
<1> QED
  BY <1>1, <1>2

-----------------------------------------------------------------------------
(* What most steps leave alone *)

(* Nothing posted or recorded: what was posted stays covered.                *)
LEMMA RecordsKept ==
  ASSUME ClicksCounted, ApprovalCoversClick, DispatchesSpaced,
         clicks' = clicks, dispatches' = dispatches, shown \subseteq shown'
  PROVE  ClicksCounted' /\ ApprovalCoversClick' /\ DispatchesSpaced'
<1>1. ClicksCounted'
  BY DEF ClicksCounted
<1>2. ASSUME NEW j \in Jobs, NEW c \in ClicksOf(j)'
      PROVE  /\ ([approval |-> c.approval, content |-> c.content] \in shown)'
             /\ (dispatches[j].content = c.content)'
             /\ \A k \in Jobs \ {j} : \A d \in ClicksOf(k)' : d.approval # c.approval
  <2>1. \A k \in Jobs : ClicksOf(k)' = ClicksOf(k)
    BY DEF ClicksOf
  <2>2. c \in ClicksOf(j)
    BY <1>2, <2>1
  <2>3. [approval |-> c.approval, content |-> c.content] \in shown
    BY <2>2 DEF ApprovalCoversClick
  <2> QED
    BY <2>1, <2>2, <2>3 DEF ApprovalCoversClick
<1>3. DispatchesSpaced'
  BY DEF DispatchesSpaced
<1>4. ApprovalCoversClick'
  BY <1>2 DEF ApprovalCoversClick
<1> QED
  BY <1>1, <1>3, <1>4

(* A pending approval stays live while its window, its confirmation and the  *)
(* browser are left alone.                                                   *)
LEMMA PendingKept ==
  ASSUME PendingOK, publish' = publish, gate' = gate, lock' = lock, shown' = shown, clicks' = clicks
  PROVE  PendingOK'
<1>1. ASSUME NEW j \in Jobs
      PROVE  ClicksOf(j)' = ClicksOf(j)
  BY DEF ClicksOf
<1>2. Unspent(publish.approval) => Unspent(publish.approval)'
  BY <1>1 DEF Unspent
<1> QED
  BY <1>2 DEF PendingOK, PendingApprovalIsLive

(* Without a pending approval there is nothing to keep.                      *)
LEMMA NonePending ==
  ASSUME PendingOK, publish'.approval = None, shown' = shown
  PROVE  PendingOK'
  BY DEF PendingOK, PendingApprovalIsLive

(* A step that leaves the worker and what it works on alone.                 *)
LEMMA StagesKept ==
  ASSUME StageInv, worker' = worker, login' = login, publish' = publish,
         shown' = shown, clicks' = clicks, dispatches' = dispatches
  PROVE  StageInv'
<1>1. ASSUME NEW j \in Jobs
      PROVE  ClicksOf(j)' = ClicksOf(j)
  BY DEF ClicksOf
<1>2. Job' = Job /\ Row' = Row
  BY DEF Job, Row
<1>3. LoginStageOK' /\ FormStageOK'
  BY DEF StageInv, LoginStageOK, FormStageOK
<1>4. ApprovedStageOK'
  BY <1>1 DEF StageInv, ApprovedStageOK, Unspent
<1>5. RowStageOK'
  BY <1>2 DEF StageInv, RowStageOK
<1> QED
  BY <1>3, <1>4, <1>5 DEF StageInv

(* What the jobs recorded stays typed.                                       *)
LEMMA StoredKept ==
  ASSUME StoredTypeOK, dispatches' = dispatches, clicks' = clicks, shown' = shown,
         session' \in Sessions, latch' \in BOOLEAN, left' \in 0..MaxCommands
  PROVE  StoredTypeOK'
  BY DEF StoredTypeOK

(* A command counted down stays counted.                                     *)
LEMMA OneLess ==
  ASSUME left \in 0..MaxCommands, left > 0, left' = left - 1
  PROVE  left' \in 0..MaxCommands
  BY ConstantsAssumption

(* A session row written stays a session row.                                *)
LEMMA SessionRow ==
  ASSUME session \in Sessions, NEW state \in SessionStates, NEW t \in Times, NEW advance \in BOOLEAN,
         RecordSession(state, t, advance)
  PROVE  session' \in Sessions
<1> DEFINE r == IF session.state = "none" THEN 1
                ELSE IF advance THEN session.revision + 1 ELSE session.revision
<1>1. session' = [state |-> state, observed |-> t, revision |-> r]
  BY DEF RecordSession
<1>2. r \in Nat
  BY ConstantsAssumption DEF Sessions
<1>3. r <= MaxEpoch
  BY <1>1 DEF RecordSession
<1>4. r \in 0..MaxEpoch
  BY <1>2, <1>3, ConstantsAssumption
<1> QED
  BY <1>1, <1>4 DEF Sessions

(* The start of a process forgets everything at once.                        *)
LEMMA Forgetting ==
  ASSUME IInv, ForgetMemory, dispatches' = dispatches, clicks' = clicks, shown' = shown,
         latch' = latch, left' = left, session' \in Sessions
  PROVE  IInv'
<1> USE DEF IInv, MemoryInv
<1>1. worker' = Idle
  BY DEF ForgetMemory
<1>2. gate' = [p \in {} |-> None]
  BY DEF ForgetMemory
<1>3. MemoryTypeOK'
  <2>1. BrowserTypeOK'
    BY DEF ForgetMemory, BrowserTypeOK
  <2>2. publish' \in Publishes
    BY DEF ForgetMemory, NoPublish, Publishes
  <2>3. DOMAIN gate' = {}
    BY <1>2
  <2>4. gate' \in [DOMAIN gate' -> [content : Contents,
                                    status : {"presented", "authorized", "dispatched"}]]
    BY <1>2, <2>3
  <2> QED
    BY <1>1, <2>1, <2>2, <2>3, <2>4, Ending DEF MemoryTypeOK
<1>4. StoredTypeOK'
  BY DEF StoredTypeOK
<1>5. PendingOK'
  BY NonePending DEF ForgetMemory, NoPublish
<1>6. BrowserHeldByOwner'
  BY DEF ForgetMemory, NoPublish, BrowserHeldByOwner
<1> QED
  BY <1>1, <1>3, <1>4, <1>5, <1>6, Ending, RecordsKept

(* A kill leaves the ledger as it is.                                        *)
LEMMA KillKeeps == ASSUME IInv, Kill PROVE IInv'
  BY Forgetting DEF Kill, ledger, outside, IInv, MemoryInv, StoredTypeOK

(* A rejected command ends the process the same way.                         *)
LEMMA RejectKeeps == ASSUME IInv, Reject, UNCHANGED ledger PROVE IInv'
  BY Forgetting DEF Reject, ledger, outside, IInv, MemoryInv, StoredTypeOK

(* It may have written its health report.                                    *)
LEMMA RejectReportedKeeps ==
  ASSUME IInv, NEW health \in SessionStates, NEW recovered \in BOOLEAN,
         RejectReported(health, recovered)
  PROVE  IInv'
<1>1. session' \in Sessions
  BY SessionRow DEF RejectReported, ReportHealth, IInv, MemoryInv, StoredTypeOK
<1> QED
  BY <1>1, Forgetting DEF RejectReported, Reject, outside

(* The main thread, the borrowers and the latch stay beside the worker.      *)
LEMMA AsideKeeps ==
  ASSUME IInv,
         \/ MainAcquires \/ MainReleases
         \/ BeginTakeover \/ ReleaseTakeover \/ BorrowerFailsOrExpires \/ ConfirmReclaimed
         \/ EngageLatch
  PROVE  IInv'
<1> USE DEF IInv, MemoryInv
<1>1. UNCHANGED <<dispatches, session, worker, login, publish, gate, request, shown, clicks>>
  BY DEF MainAcquires, MainReleases, BeginTakeover, ReleaseTakeover, BorrowerFailsOrExpires,
         ConfirmReclaimed, EngageLatch, Surface, ledger, browser, outside
<1>2. latch' \in BOOLEAN /\ left' \in 0..MaxCommands
  BY OneLess DEF MainAcquires, MainReleases, BeginTakeover, ReleaseTakeover, BorrowerFailsOrExpires,
         ConfirmReclaimed, EngageLatch, Surface, ledger, browser, outside, StoredTypeOK
<1>3. StoredTypeOK'
  BY <1>1, <1>2, StoredKept DEF StoredTypeOK
<1>4. /\ lock' = lock \/ (lock = "free" /\ lock' = "main") \/ (lock = "main" /\ lock' = "free")
      /\ surface' \in {"owner_active", "leased", "reclaim_required"}
  BY DEF MainAcquires, MainReleases, BeginTakeover, ReleaseTakeover, BorrowerFailsOrExpires,
         ConfirmReclaimed, EngageLatch, Surface, ledger, browser, outside, MemoryTypeOK, BrowserTypeOK
<1>5. MemoryTypeOK'
  BY <1>1, <1>4 DEF MemoryTypeOK, BrowserTypeOK, WorkerTypeOK
<1>6. BrowserHeldByOwner'
  BY <1>1, <1>4 DEF BrowserHeldByOwner
<1>7. PendingOK'
  <2>1. CASE lock' = lock
    BY <1>1, <2>1, PendingKept
  <2>2. CASE lock' # lock
    BY <1>1, <1>4, <2>2, NonePending DEF PendingOK, PendingApprovalIsLive
  <2> QED
    BY <2>1, <2>2
<1> QED
  BY <1>1, <1>3, <1>5, <1>6, <1>7, StagesKept, RecordsKept

-----------------------------------------------------------------------------
(* Commands of the session *)

(* The publish operation without its window is still one.                    *)
LEMMA Released ==
  ASSUME publish \in Publishes
  PROVE  /\ ReleasedPublish \in Publishes
         /\ ReleasedPublish.approval = None /\ ReleasedPublish.window = None
  BY DEF ReleasedPublish, Publishes

(* A command read starts where its type starts; any other than a publish     *)
(* command closes the publish window.                                        *)
LEMMA ReadKeeps ==
  ASSUME IInv, NEW command \in Commands, NEW proof, Read(command, proof)
  PROVE  IInv'
<1> USE DEF IInv, MemoryInv
<1>0. PICK pc : /\ worker' = [pc |-> pc, command |-> command]
                /\ pc = IF command.type \in PublishTypes THEN command.type ELSE "session"
  BY DEF Read, Route
<1>1. /\ UNCHANGED <<dispatches, session, latch, login, gate, request, surface, shown, clicks>>
      /\ left' \in 0..MaxCommands
  BY OneLess DEF Read, ledger, StoredTypeOK
<1>2. \/ command.type \in PublishTypes /\ UNCHANGED <<publish, lock>>
      \/ command.type \notin PublishTypes /\ publish' = ReleasedPublish /\ lock' = LockAfterPublish
  BY DEF Read, Route
<1>3. pc \in StagesOf(command.type)
  BY <1>0, Carries DEF StagesOf, PublishTypes
<1>4. WorkerTypeOK'
  <2>1. worker'.pc = pc /\ worker'.command = command
    BY <1>0
  <2> QED
    BY <1>0, <1>3, <2>1 DEF WorkerTypeOK
<1>5. MemoryTypeOK'
  BY <1>1, <1>2, <1>4, Released DEF MemoryTypeOK, BrowserTypeOK, LockAfterPublish
<1>6. StoredTypeOK'
  BY <1>1, StoredKept DEF StoredTypeOK
<1>7. StageInv'
  <2>1. worker'.pc = pc /\ worker'.command = command /\ pc \in PublishTypes \cup {"session"}
    BY <1>0
  <2>2. LoginStageOK' /\ FormStageOK' /\ RowStageOK'
    BY <2>1 DEF LoginStageOK, FormStageOK, RowStageOK, PublishTypes
  <2>3. command.type = "dispatch" => \E s \in shown : s.approval = command.approval
    BY DEF Read
  <2>4. pc = "dispatch" => command.type = "dispatch"
    BY <1>0
  <2>5. ApprovedStageOK'
    BY <1>1, <2>1, <2>3, <2>4 DEF ApprovedStageOK, Publishing, PublishTypes
  <2> QED
    BY <2>2, <2>5 DEF StageInv
<1>8. PendingOK'
  BY <1>1, <1>2, PendingKept, NonePending, Released DEF MemoryTypeOK
<1>9. BrowserHeldByOwner'
  BY <1>1, <1>2, Released DEF BrowserHeldByOwner, MemoryTypeOK, LockAfterPublish
<1> QED
  BY <1>1, <1>5, <1>6, <1>7, <1>8, <1>9, RecordsKept

(* What a command of the session keeps when it only writes the health row,   *)
(* the flow, the lock and the launch request, beside a closed publish window *)
(* or one it leaves alone.                                                   *)
LEMMA SessionStep ==
  ASSUME IInv, WorkerTypeOK', StageInv',
         UNCHANGED <<dispatches, latch, publish, gate, surface, shown, clicks, left>>,
         session' \in Sessions,
         login' \in Identities \cup {None}, request' \in BOOLEAN,
         lock' \in {"free", "login", lock},
         lock' = lock \/ publish.window = None,
         lock' = "login" <=> login' # None
  PROVE  IInv'
<1> USE DEF IInv, MemoryInv
<1>1. MemoryTypeOK'
  BY DEF MemoryTypeOK, BrowserTypeOK
<1>2. StoredTypeOK'
  BY StoredKept DEF StoredTypeOK
<1>3. BrowserHeldByOwner'
  BY DEF BrowserHeldByOwner
<1>4. PendingOK'
  <2>1. CASE lock' = lock
    BY <2>1, PendingKept
  <2>2. CASE publish.window = None
    <3>1. publish.approval = None
      BY <2>2, ConstantsAssumption DEF PendingOK
    <3> QED
      BY <3>1, NonePending
  <2> QED
    BY <2>1, <2>2
<1> QED
  BY <1>1, <1>2, <1>3, <1>4, RecordsKept

(* The user logs out: the session is gone, approvals and rows stay.         *)
LEMMA LogoutKeeps == ASSUME IInv, Logout PROVE IInv'
<1> USE DEF IInv, MemoryInv
<1>1. CASE RejectReported("missing", TRUE)
  BY <1>1, RejectReportedKeeps DEF SessionStates
<1>2. CASE /\ LockAfterLogin = "free"
           /\ login' = None /\ lock' = "free" /\ request' = FALSE
           /\ \E t \in Times : ReportHealth("missing", t, TRUE)
           /\ Reply("logged_out", None, publish)
           /\ UNCHANGED <<dispatches, latch, publish, gate, surface, clicks, works, left>>
  <2>1. worker' = Idle /\ shown' = shown
    BY <1>2, Replying
  <2>2. session' \in Sessions
    BY <1>2, SessionRow DEF ReportHealth, StoredTypeOK, SessionStates
  <2>3. publish.window = None
    BY <1>2 DEF LockAfterLogin, BrowserHeldByOwner
  <2> QED
    BY <1>2, <2>1, <2>2, <2>3, Ending, SessionStep
<1> QED
  BY <1>1, <1>2 DEF Logout

(* A login closes an open flow first; a recheck uses it.                    *)
LEMMA StartLoginKeeps == ASSUME IInv, StartLogin PROVE IInv'
<1> USE DEF IInv, MemoryInv
<1>1. CASE Reject /\ UNCHANGED ledger
  BY <1>1, RejectKeeps
<1>2. worker.pc = "session" /\ worker.command \in Commands /\ worker.command.type \in {"open", "recheck"}
  BY Working, StageTypes DEF StartLogin, MemoryTypeOK
<1>3. {"observe", "acquire"} \subseteq StagesOf(worker.command.type)
  BY <1>2 DEF StagesOf
<1>4. CASE /\ worker.command.type = "recheck" /\ login = worker.command.identity
           /\ Go("observe")
           /\ UNCHANGED <<ledger, login, publish, gate, browser, surface, answer, outside>>
  <2>1. WorkerTypeOK' /\ worker'.pc = "observe"
    BY <1>2, <1>3, <1>4, Going DEF MemoryTypeOK
  <2>2. login # None
    BY <1>2, <1>4, Carries, ConstantsAssumption
  <2>3. StageInv'
    BY <1>4, <2>1, <2>2 DEF StageInv, LoginStageOK, FormStageOK, ApprovedStageOK, RowStageOK, Publishing
  <2> QED
    BY <1>4, <2>1, <2>3, SessionStep
       DEF ledger, browser, outside, StoredTypeOK, MemoryTypeOK, BrowserTypeOK, BrowserHeldByOwner
<1>5. CASE /\ LockAfterLogin = "free"
           /\ login' = None /\ lock' = "free" /\ request' = TRUE
           /\ Go("acquire")
           /\ UNCHANGED <<ledger, publish, gate, surface, answer, outside>>
  <2>1. WorkerTypeOK' /\ worker'.pc = "acquire"
    BY <1>2, <1>3, <1>5, Going DEF MemoryTypeOK
  <2>2. publish.window = None
    BY <1>5 DEF LockAfterLogin, BrowserHeldByOwner
  <2>3. publish.approval = None
    BY <2>2, ConstantsAssumption DEF PendingOK
  <2>4. StageInv'
    BY <1>5, <2>1, <2>3 DEF StageInv, LoginStageOK, FormStageOK, ApprovedStageOK, RowStageOK, Publishing
  <2> QED
    BY <1>5, <2>1, <2>2, <2>4, SessionStep DEF ledger, outside, StoredTypeOK
<1> QED
  BY <1>1, <1>4, <1>5 DEF StartLogin

(* A login takes the browser when no task has it.                           *)
LEMMA AcquireLoginKeeps == ASSUME IInv, AcquireLogin PROVE IInv'
<1> USE DEF IInv, MemoryInv
<1>1. CASE Reject /\ UNCHANGED ledger
  BY <1>1, RejectKeeps
<1>2. worker.pc = "acquire" /\ worker.command \in Commands /\ worker.command.type \in {"open", "recheck"}
  BY Working, StageTypes DEF AcquireLogin, MemoryTypeOK
<1>3. "observe" \in StagesOf(worker.command.type)
  BY <1>2 DEF StagesOf
<1>4. CASE /\ lock = "free"
           /\ lock' = "login" /\ login' = worker.command.identity
           /\ Go("observe")
           /\ UNCHANGED <<ledger, publish, gate, request, surface, answer, outside>>
  <2>1. WorkerTypeOK' /\ worker'.pc = "observe"
    BY <1>2, <1>3, <1>4, Going DEF MemoryTypeOK
  <2>2. login' \in Identities /\ login' # None
    BY <1>2, <1>4, Carries, ConstantsAssumption
  <2>3. StageInv'
    BY <1>4, <2>1, <2>2 DEF StageInv, LoginStageOK, FormStageOK, ApprovedStageOK, RowStageOK, Publishing
  <2>4. publish.window = None
    BY <1>4 DEF BrowserHeldByOwner
  <2> QED
    BY <1>4, <2>1, <2>2, <2>3, <2>4, SessionStep
       DEF ledger, outside, StoredTypeOK, MemoryTypeOK, BrowserTypeOK
<1> QED
  BY <1>1, <1>4 DEF AcquireLogin

(* A login that is seen opens a new epoch of the session.                   *)
LEMMA ObserveLoginKeeps == ASSUME IInv, ObserveLogin PROVE IInv'
<1> USE DEF IInv, MemoryInv
<1>1. CASE \E health \in Detectable, recovered \in BOOLEAN : RejectReported(health, recovered)
  BY <1>1, RejectReportedKeeps, DetectedIsState
<1>2. ASSUME NEW state \in LoginStates, NEW health \in Detectable, NEW t \in Times,
             ReportHealth(health, t, state = "healthy"),
             login' = IF state = "healthy" THEN None ELSE login,
             lock' = IF state = "healthy" THEN "free" ELSE lock,
             Reply(state, None, publish),
             UNCHANGED <<dispatches, latch, publish, gate, request, surface, clicks, works, left>>
      PROVE  IInv'
  <2>1. worker' = Idle /\ shown' = shown
    BY <1>2, Replying, LoginIsNoPublish
  <2>2. session' \in Sessions
    BY <1>2, SessionRow, DetectedIsState DEF ReportHealth, StoredTypeOK
  <2>3. lock = "login" /\ publish.window = None
    BY DEF ObserveLogin, StageInv, LoginStageOK, BrowserHeldByOwner
  <2> QED
    BY <1>2, <2>1, <2>2, <2>3, Ending, SessionStep
       DEF MemoryTypeOK, BrowserTypeOK, BrowserHeldByOwner
<1> QED
  BY <1>1, <1>2 DEF ObserveLogin

-----------------------------------------------------------------------------
(* Commands of the form *)

(* What a command of the form keeps when it ends without a ready window or   *)
(* goes on: it has no pending approval and changes the window and its lock   *)
(* together.                                                                 *)
LEMMA FormStep ==
  ASSUME IInv, WorkerTypeOK', StageInv',
         UNCHANGED <<dispatches, session, latch, login, gate, surface, shown, clicks, left>>,
         publish' \in Publishes, publish'.approval = None,
         request' \in BOOLEAN,
         \/ lock' = lock /\ publish'.window = publish.window
         \/ lock' = LockAfterPublish /\ publish'.window = None
         \/ lock = "free" /\ lock' = "publish" /\ publish'.window = "blank"
         \/ lock = "publish" /\ lock' = lock /\ publish'.window # None
  PROVE  IInv'
<1> USE DEF IInv, MemoryInv
<1>1. MemoryTypeOK'
  BY DEF MemoryTypeOK, BrowserTypeOK, LockAfterPublish
<1>2. StoredTypeOK'
  BY StoredKept DEF StoredTypeOK
<1>3. BrowserHeldByOwner'
  BY ConstantsAssumption DEF BrowserHeldByOwner, LockAfterPublish
<1>4. PendingOK'
  BY NonePending
<1> QED
  BY <1>1, <1>2, <1>3, <1>4, RecordsKept

(* No publish, or one blocked, is typed.                                     *)
LEMMA PlainPublish ==
  /\ NoPublish \in Publishes
  /\ [NoPublish EXCEPT !.latest = "blocked"] \in Publishes
  /\ NoPublish.approval = None /\ NoPublish.window = None
  /\ [NoPublish EXCEPT !.latest = "blocked"].approval = None
  /\ [NoPublish EXCEPT !.latest = "blocked"].window = None
  BY DEF NoPublish, Publishes

(* A blocked preflight leaves no window and no approval behind.             *)
LEMMA BlockedKeeps == ASSUME IInv, EndBlocked PROVE IInv'
<1>1. worker' = Idle /\ shown' = shown
  BY Replying DEF EndBlocked
<1> QED
  BY <1>1, Ending, FormStep, PlainPublish
     DEF EndBlocked, ledger, IInv, MemoryInv, MemoryTypeOK, BrowserTypeOK

(* A command that hands over keeps its window, which carries no approval.   *)
LEMMA HandoverKeeps ==
  ASSUME IInv, EndHandover, publish.approval = None
  PROVE  IInv'
<1>1. worker' = Idle /\ shown' = shown
  BY Replying DEF EndHandover
<1>2. publish' \in Publishes /\ publish'.approval = None /\ publish'.window = publish.window
  BY DEF EndHandover, IInv, MemoryInv, MemoryTypeOK, Publishes
<1> QED
  BY <1>1, <1>2, Ending, FormStep
     DEF EndHandover, ledger, browser, IInv, MemoryInv, MemoryTypeOK, BrowserTypeOK

(* A release closes the window and frees the browser.                       *)
LEMMA ReleaseKeeps == ASSUME IInv, ReleaseCommand PROVE IInv'
<1>1. worker' = Idle /\ shown' = shown
  BY Replying DEF ReleaseCommand
<1> QED
  BY <1>1, Ending, FormStep, Released
     DEF ReleaseCommand, ledger, IInv, MemoryInv, MemoryTypeOK, BrowserTypeOK

(* Content that is refused ends the command before the old window is        *)
(* closed.                                                                  *)
LEMMA RefuseKeeps == ASSUME IInv, RefuseContent PROVE IInv'
<1>1. worker' = Idle /\ shown' = shown
  BY Replying DEF RefuseContent
<1>2. publish' \in Publishes /\ publish'.approval = None /\ publish'.window = publish.window
  BY DEF RefuseContent, NoPublish, IInv, MemoryInv, MemoryTypeOK, Publishes
<1> QED
  BY <1>1, <1>2, Ending, FormStep
     DEF RefuseContent, ledger, browser, IInv, MemoryInv, MemoryTypeOK, BrowserTypeOK

(* While it fills the form the worker may go on to every stage of it.        *)
LEMMA FormGoing ==
  ASSUME IInv, NEW pc \in {"acquire", "entry", "upload", "fill"}, Go(pc),
         worker.pc # "idle", worker.command.type = "preflight", publish'.approval = None,
         pc # "acquire" => publish'.window # None
  PROVE  WorkerTypeOK' /\ StageInv'
<1>1. pc \in StagesOf(worker.command.type)
  BY DEF StagesOf
<1>2. WorkerTypeOK' /\ worker'.pc = pc
  BY <1>1, Going DEF IInv, MemoryInv, MemoryTypeOK
<1> QED
  BY <1>2 DEF StageInv, LoginStageOK, FormStageOK, ApprovedStageOK, RowStageOK, Publishing

(* A preflight closes the old window before it asks for the browser.        *)
LEMMA StartPreflightKeeps == ASSUME IInv, StartPreflight PROVE IInv'
<1> USE DEF IInv, MemoryInv, MemoryTypeOK
<1>1. CASE EndBlocked
  BY <1>1, BlockedKeeps
<1>2. CASE /\ LockAfterPublish = "free"
           /\ publish' = NoPublish
           /\ lock' = "free" /\ request' = TRUE
           /\ Go("acquire")
           /\ UNCHANGED <<ledger, login, gate, surface, answer, outside>>
  <2>1. worker.pc # "idle" /\ worker.command.type = "preflight"
    BY FormCommand DEF StartPreflight
  <2>2. WorkerTypeOK' /\ StageInv'
    BY <1>2, <2>1, FormGoing, PlainPublish
  <2> QED
    BY <1>2, <2>2, FormStep, PlainPublish DEF ledger, outside
<1> QED
  BY <1>1, <1>2 DEF StartPreflight

(* A publication takes the browser when no other command has it.            *)
LEMMA AcquirePublishKeeps == ASSUME IInv, AcquirePublish PROVE IInv'
<1> USE DEF IInv, MemoryInv, MemoryTypeOK
<1>1. CASE EndBlocked
  BY <1>1, BlockedKeeps
<1>2. CASE /\ lock = "free"
           /\ lock' = "publish"
           /\ publish' = [publish EXCEPT !.window = "blank"]
           /\ Go("entry")
           /\ UNCHANGED <<ledger, login, gate, request, surface, answer, outside>>
  <2>1. worker.pc # "idle" /\ worker.command.type = "preflight" /\ publish.approval = None
    BY DEF AcquirePublish, StageInv, FormStageOK
  <2>2. publish' \in Publishes /\ publish'.approval = None /\ publish'.window = "blank"
    BY <1>2, <2>1 DEF Publishes
  <2>3. WorkerTypeOK' /\ StageInv'
    BY <1>2, <2>1, <2>2, FormGoing, ConstantsAssumption
  <2> QED
    BY <1>2, <2>2, <2>3, FormStep DEF ledger, outside, BrowserTypeOK
<1> QED
  BY <1>1, <1>2 DEF AcquirePublish

(* A stage of the form that changes nothing but the stage.                   *)
LEMMA NextFormStage ==
  ASSUME IInv, worker.pc \in {"entry", "upload"}, NEW pc \in {"upload", "fill"}, Go(pc),
         UNCHANGED <<ledger, login, publish, gate, browser, surface, answer, outside>>
  PROVE  IInv'
<1> USE DEF IInv, MemoryInv, MemoryTypeOK
<1>1. /\ worker.pc # "idle" /\ worker.command.type = "preflight"
      /\ publish.approval = None /\ publish.window # None
  BY FormCommand DEF StageInv, FormStageOK
<1>2. WorkerTypeOK' /\ StageInv'
  BY <1>1, FormGoing
<1> QED
  BY <1>1, <1>2, FormStep DEF ledger, browser, outside, BrowserTypeOK

(* Opening the entry page changes neither approvals nor rows.               *)
LEMMA OpenEntryKeeps == ASSUME IInv, OpenEntry PROVE IInv'
<1>1. publish.approval = None
  BY DEF OpenEntry, IInv, StageInv, FormStageOK
<1>2. \/ /\ Go("upload")
         /\ UNCHANGED <<ledger, login, publish, gate, browser, surface, answer, outside>>
      \/ EndHandover
      \/ EndBlocked
      \/ Reject /\ UNCHANGED ledger
  BY DEF OpenEntry
<1> QED
  BY <1>1, <1>2, NextFormStage, HandoverKeeps, BlockedKeeps, RejectKeeps DEF OpenEntry

(* Uploading the artifact changes neither approvals nor rows.               *)
LEMMA UploadKeeps == ASSUME IInv, UploadArtifact PROVE IInv'
  BY NextFormStage, BlockedKeeps DEF UploadArtifact

(* The form filled: an approval that was never shown is presented with what  *)
(* the window holds and shown with it, or there is none.                     *)
LEMMA ReadyKeeps ==
  ASSUME IInv, worker.pc = "fill",
         NEW p \in Approvals \cup {None},
         \/ Present(p, worker.command.content)
         \/ p = None /\ UNCHANGED gate,
         publish' = [latest |-> "ready", intent |-> worker.command.content, approval |-> p,
                     window |-> worker.command.content],
         Reply("publish_pre_submit_ready", None, publish'),
         UNCHANGED <<ledger, login, browser, surface, clicks, works, left>>
  PROVE  IInv'
<1> USE DEF IInv, MemoryInv, MemoryTypeOK
<1> DEFINE content == worker.command.content
           carried == IF ResultWriter = "worker" THEN p ELSE None
<1>1. content \in Contents
  BY FormCommand
<1>2. /\ publish' \in Publishes
      /\ publish'.approval = p /\ publish'.window = content
      /\ publish'.intent = content /\ publish'.latest = "ready"
  BY <1>1 DEF Publishes
<1>3. /\ worker' = Idle
      /\ shown' = IF carried # None THEN shown \cup {[approval |-> carried, content |-> content]}
                  ELSE shown
  BY <1>2 DEF Reply, CarriedApproval
<1>4. shown \subseteq shown' /\ shown' \subseteq Clicked
  BY <1>1, <1>3 DEF Clicked, StoredTypeOK
<1>5. lock = "publish" /\ lock' = lock
  BY DEF browser, StageInv, FormStageOK, BrowserHeldByOwner
<1>6. /\ DOMAIN gate' \subseteq Approvals
      /\ gate' \in [DOMAIN gate' -> [content : Contents,
                                     status : {"presented", "authorized", "dispatched"}]]
  <2>1. CASE UNCHANGED gate
    BY <2>1
  <2>2. CASE Present(p, content)
    <3>1. /\ p \in Approvals \ DOMAIN gate
          /\ gate' = [q \in DOMAIN gate \cup {p} |->
                        IF q = p THEN [content |-> content, status |-> "presented"] ELSE gate[q]]
      BY <2>2 DEF Present
    <3> HIDE DEF content
    <3>2. DOMAIN gate' = DOMAIN gate \cup {p}
      BY <3>1
    <3>3. [content |-> content, status |-> "presented"]
            \in [content : Contents, status : {"presented", "authorized", "dispatched"}]
      BY <1>1
    <3> QED
      BY <3>1, <3>2, <3>3
  <2> QED
    BY <2>1, <2>2
<1>7. MemoryTypeOK'
  BY <1>2, <1>3, <1>6, Ending DEF BrowserTypeOK, browser
<1>8. StoredTypeOK'
  BY <1>4 DEF StoredTypeOK, ledger
<1>9. BrowserHeldByOwner'
  BY <1>1, <1>2, <1>5, ConstantsAssumption DEF BrowserHeldByOwner
<1>10. p # None =>
         /\ gate'[p] = [content |-> content, status |-> "presented"]
         /\ Unspent(p)'
  <2> SUFFICES ASSUME p # None
               PROVE  /\ gate'[p] = [content |-> content, status |-> "presented"]
                      /\ Unspent(p)'
    OBVIOUS
  <2>1. Present(p, content)
    OBVIOUS
  <2>2. gate'[p] = [content |-> content, status |-> "presented"]
    <3> HIDE DEF content
    <3> QED
      BY <2>1 DEF Present
  <2>3. ASSUME NEW j \in Jobs, NEW c \in ClicksOf(j)
        PROVE  c.approval # p
    <3>1. [approval |-> c.approval, content |-> c.content] \in shown
      BY <2>3 DEF ApprovalCoversClick
    <3>2. [approval |-> c.approval, content |-> c.content].approval = c.approval
      OBVIOUS
    <3>3. p \notin {s.approval : s \in shown}
      BY <2>1 DEF Present
    <3> QED
      BY <3>1, <3>2, <3>3
  <2>4. Unspent(p)'
    BY <2>3 DEF Unspent, ClicksOf
  <2> QED
    BY <2>2, <2>4
<1>11. PendingOK'
  <2>1. (ResultWriter = "reporter" => shown = {})'
    BY <1>3 DEF PendingOK
  <2>2. p # None /\ ResultWriter = "worker" => [approval |-> p, content |-> content] \in shown'
    BY <1>3
  <2> HIDE DEF content, carried
  <2>3. PendingApprovalIsLive'
    BY <1>2, <1>5, <1>10 DEF PendingApprovalIsLive
  <2>4. publish'.approval # None =>
          /\ publish'.window \in Contents
          /\ ResultWriter = "worker" =>
                [approval |-> publish'.approval, content |-> publish'.window] \in shown'
          /\ Unspent(publish.approval)'
    BY <1>1, <1>2, <1>10, <2>2 DEF Unspent
  <2> QED
    BY <2>1, <2>3, <2>4 DEF PendingOK
<1> QED
  BY <1>3, <1>4, <1>7, <1>8, <1>9, <1>11, Ending, RecordsKept DEF ledger

(* The filled form is presented under an approval that is not in use.       *)
LEMMA FillKeeps == ASSUME IInv, FillForm PROVE IInv'
<1> USE DEF IInv, MemoryInv, MemoryTypeOK
<1>1. CASE EndBlocked
  BY <1>1, BlockedKeeps
<1>2. CASE EndHandover
  BY <1>2, HandoverKeeps DEF FillForm, StageInv, FormStageOK
<1>3. ASSUME NEW p \in Approvals \cup {None},
             \/ Present(p, worker.command.content)
             \/ p = None /\ UNCHANGED gate,
             publish' = [latest |-> "ready", intent |-> worker.command.content, approval |-> p,
                         window |-> worker.command.content],
             Reply("publish_pre_submit_ready", None, publish'),
             UNCHANGED <<ledger, login, browser, surface, clicks, works, left>>
      PROVE  IInv'
  BY <1>3, ReadyKeeps DEF FillForm
<1> QED
  BY <1>1, <1>2, <1>3 DEF FillForm

-----------------------------------------------------------------------------
(* Commands of the last button *)

(* What a step of a dispatch keeps that clicks nothing: the window it posts   *)
(* and its lock are left alone, and no approval waits.                       *)
LEMMA DispatchStep ==
  ASSUME IInv, WorkerTypeOK', StageInv',
         UNCHANGED <<session, latch, login, browser, surface, shown, left>>,
         publish' \in Publishes, publish'.approval = None, publish'.window = publish.window,
         DOMAIN gate' \subseteq Approvals,
         gate' \in [DOMAIN gate' -> [content : Contents,
                                     status : {"presented", "authorized", "dispatched"}]],
         dispatches' \in [Jobs -> Rows], clicks' \in [Jobs -> Seq(Clicked)],
         ClicksCounted', ApprovalCoversClick', DispatchesSpaced'
  PROVE  IInv'
<1> USE DEF IInv, MemoryInv
<1>1. MemoryTypeOK'
  BY DEF MemoryTypeOK, BrowserTypeOK, browser
<1>2. StoredTypeOK'
  BY DEF StoredTypeOK
<1>3. BrowserHeldByOwner'
  BY DEF BrowserHeldByOwner, browser
<1>4. PendingOK'
  BY NonePending
<1> QED
  BY <1>1, <1>2, <1>3, <1>4

(* A refusal before the button leaves everything but the answer.             *)
LEMMA NotDispatchedKeeps == ASSUME IInv, NotDispatched PROVE IInv'
<1> USE DEF IInv, MemoryInv
<1>1. worker' = Idle /\ shown' = shown
  BY Replying DEF NotDispatched, Replied
<1>2. UNCHANGED <<dispatches, session, latch, login, publish, gate, browser, surface, clicks, left>>
  BY DEF NotDispatched
<1>3. MemoryTypeOK'
  BY <1>1, <1>2, Ending DEF MemoryTypeOK, BrowserTypeOK, browser
<1>4. StoredTypeOK'
  BY <1>1, <1>2 DEF StoredTypeOK
<1>5. BrowserHeldByOwner' /\ PendingOK'
  BY <1>1, <1>2, PendingKept DEF BrowserHeldByOwner, browser
<1> QED
  BY <1>1, <1>2, <1>3, <1>4, <1>5, Ending, RecordsKept

(* The other answers clear the receipt and the intent.                       *)
LEMMA DispatchedClears ==
  ASSUME publish \in Publishes, NEW state, Dispatched(state), state # "publish_pre_submit_ready"
  PROVE  /\ worker' = Idle /\ shown' = shown
         /\ publish' \in Publishes
         /\ publish'.approval = publish.approval /\ publish'.window = publish.window
  BY Replying DEF Dispatched, Publishes

(* While it publishes the worker may go on to every stage of a dispatch.     *)
LEMMA DispatchGoing ==
  ASSUME IInv, NEW pc \in Publishing \cup {"settle", "uncertain"}, Go(pc),
         worker.pc \in Publishing \cup {"dispatch", "settle", "uncertain"}
  PROVE  /\ WorkerTypeOK' /\ worker'.pc = pc /\ worker'.command = worker.command
         /\ Job' = Job
<1>1. worker.pc # "idle" /\ worker.command.type = "dispatch"
  BY DispatchCommand DEF IInv, MemoryInv, MemoryTypeOK, Publishing
<1>2. pc \in StagesOf(worker.command.type)
  BY <1>1 DEF StagesOf, Publishing
<1> QED
  BY <1>1, <1>2, Going DEF IInv, MemoryInv, MemoryTypeOK, Job

(* The answer of the person: the pending approval is the one the command     *)
(* names, so the window holds what was shown under it.                       *)
LEMMA StartDispatchKeeps == ASSUME IInv, StartDispatch PROVE IInv'
<1> USE DEF IInv, MemoryInv, MemoryTypeOK
<1>1. CASE NotDispatched
  BY <1>1, NotDispatchedKeeps
<1>2. CASE /\ publish.approval = worker.command.approval
           /\ gate' = [gate EXCEPT ![publish.approval].status = "authorized"]
           /\ publish' = [publish EXCEPT !.approval = None]
           /\ Go("prepare")
           /\ UNCHANGED <<ledger, login, browser, surface, answer, outside>>
  <2>1. /\ publish.approval \in Approvals /\ publish.approval # None
        /\ \E s \in shown : s.approval = publish.approval
    BY <1>2, DispatchCommand, ConstantsAssumption DEF StartDispatch, StageInv, ApprovedStageOK
  <2>2. ResultWriter = "worker"
    BY <2>1, ConstantsAssumption DEF PendingOK
  <2>3. /\ publish.intent = publish.window /\ publish.window \in Contents
        /\ [approval |-> publish.approval, content |-> publish.window] \in shown
        /\ Unspent(publish.approval)
    BY <2>1, <2>2 DEF PendingOK, PendingApprovalIsLive
  <2>4. /\ publish' \in Publishes /\ publish'.approval = None
        /\ publish'.window = publish.window /\ publish'.intent = publish.intent
    BY <1>2 DEF Publishes
  <2>5. /\ WorkerTypeOK' /\ worker'.pc = "prepare" /\ worker'.command = worker.command
    BY <1>2, DispatchGoing DEF StartDispatch, Publishing
  <2>6. /\ DOMAIN gate' \subseteq Approvals
        /\ gate' \in [DOMAIN gate' -> [content : Contents,
                                       status : {"presented", "authorized", "dispatched"}]]
    BY <1>2
  <2>7. \A j \in Jobs : \A c \in ClicksOf(j)' : c.approval # publish.approval
    BY <1>2, <2>3 DEF outside, ClicksOf, Unspent
  <2>8. Unspent(worker.command.approval)'
    BY <1>2, <2>5, <2>7 DEF Unspent
  <2>9. StageInv'
    BY <1>2, <2>3, <2>4, <2>5, <2>8
       DEF outside, StageInv, LoginStageOK, FormStageOK, ApprovedStageOK, RowStageOK
  <2>10. ClicksCounted' /\ ApprovalCoversClick' /\ DispatchesSpaced'
    BY <1>2, RecordsKept DEF outside, ledger
  <2> QED
    BY <1>2, <2>4, <2>5, <2>6, <2>9, <2>10, DispatchStep DEF ledger, outside, StoredTypeOK
<1> QED
  BY <1>1, <1>2 DEF StartDispatch

(* A row rewritten under its clicks.                                         *)
LEMMA RowRewritten ==
  ASSUME IInv, NEW j \in Jobs, NEW r \in Rows,
         dispatches' = [dispatches EXCEPT ![j] = r], clicks' = clicks, shown' = shown,
         r.state \in {"none", "prepared"} => clicks[j] = <<>>,
         clicks[j] = <<>> \/ r.content = dispatches[j].content,
         r.dispatched # None =>
            \A k \in Jobs \ {j} : dispatches[k].dispatched # None =>
               \/ r.dispatched - dispatches[k].dispatched >= MinInterval
               \/ dispatches[k].dispatched - r.dispatched >= MinInterval
  PROVE  /\ dispatches' \in [Jobs -> Rows] /\ clicks' \in [Jobs -> Seq(Clicked)]
         /\ ClicksCounted' /\ ApprovalCoversClick' /\ DispatchesSpaced'
<1> USE DEF IInv, MemoryInv
<1>1. dispatches \in [Jobs -> Rows] /\ clicks \in [Jobs -> Seq(Clicked)]
  BY DEF StoredTypeOK
<1>2. /\ dispatches' \in [Jobs -> Rows]
      /\ dispatches'[j] = r
      /\ \A k \in Jobs \ {j} : dispatches'[k] = dispatches[k]
  BY <1>1
<1>3. ClicksCounted'
  <2> SUFFICES ASSUME NEW k \in Jobs
               PROVE  /\ Len(clicks[k]) <= 1
                      /\ dispatches'[k].state \in {"none", "prepared"} => clicks[k] = <<>>
    BY DEF ClicksCounted
  <2> QED
    BY <1>2 DEF ClicksCounted
<1>4. \A k \in Jobs : ClicksOf(k)' = ClicksOf(k)
  BY DEF ClicksOf
<1>5. ASSUME NEW k \in Jobs, NEW c \in ClicksOf(k)
      PROVE  dispatches'[k].content = c.content
  <2>1. clicks[k] # <<>>
    BY <1>5 DEF ClicksOf
  <2>2. dispatches[k].content = c.content
    BY <1>5 DEF ApprovalCoversClick
  <2> QED
    BY <1>2, <2>1, <2>2
<1>6. ApprovalCoversClick'
  <2> SUFFICES ASSUME NEW k \in Jobs, NEW c \in ClicksOf(k)'
               PROVE  /\ ([approval |-> c.approval, content |-> c.content] \in shown)'
                      /\ (dispatches[k].content = c.content)'
                      /\ \A l \in Jobs \ {k} : \A d \in ClicksOf(l)' : d.approval # c.approval
    BY DEF ApprovalCoversClick
  <2>1. c \in ClicksOf(k)
    BY <1>4
  <2>2. [approval |-> c.approval, content |-> c.content] \in shown
    BY <2>1 DEF ApprovalCoversClick
  <2> QED
    BY <1>4, <1>5, <2>1, <2>2 DEF ApprovalCoversClick
<1>7. DispatchesSpaced'
  <2> SUFFICES ASSUME NEW k \in Jobs, NEW l \in Jobs, k # l,
                      dispatches'[k].dispatched # None, dispatches'[l].dispatched # None
               PROVE  \/ dispatches'[k].dispatched - dispatches'[l].dispatched >= MinInterval
                      \/ dispatches'[l].dispatched - dispatches'[k].dispatched >= MinInterval
    BY DEF DispatchesSpaced
  <2>1. CASE k = j
    BY <1>2, <2>1
  <2>2. CASE l = j
    BY <1>2, <2>2
  <2>3. CASE k # j /\ l # j
    BY <1>2, <2>3 DEF DispatchesSpaced
  <2> QED
    BY <2>1, <2>2, <2>3
<1> QED
  BY <1>1, <1>2, <1>3, <1>6, <1>7

(* A job's first row is prepared; a job that has one answers from it.        *)
LEMMA PrepareKeeps == ASSUME IInv, PrepareDispatch PROVE IInv'
<1> USE DEF IInv, MemoryInv, MemoryTypeOK
<1>1. CASE NotDispatched
  BY <1>1, NotDispatchedKeeps
<1>2. /\ Job \in Jobs /\ Row \in Rows
      /\ publish.approval = None /\ publish.intent = publish.window /\ publish.window \in Contents
  BY DispatchCommand
     DEF PrepareDispatch, Publishing, Job, Row, StoredTypeOK, StageInv, ApprovedStageOK
<1>3. ASSUME NEW t \in Times, Row.state = "none",
             dispatches' = [dispatches EXCEPT ![Job] =
               [state |-> "prepared", content |-> publish.intent,
                prepared |-> t, dispatched |-> None]],
             Go("arm"),
             UNCHANGED <<publish, answer, shown>>,
             UNCHANGED <<session, latch, login, gate, browser, surface, clicks, works, left>>
      PROVE  IInv'
  <2> DEFINE r == [state |-> "prepared", content |-> publish.intent,
                   prepared |-> t, dispatched |-> None]
  <2>1. r \in Rows
    BY <1>2 DEF Rows
  <2>2. clicks[Job] = <<>>
    BY <1>2, <1>3 DEF ClicksCounted, Row
  <2>3. /\ dispatches' \in [Jobs -> Rows] /\ clicks' \in [Jobs -> Seq(Clicked)]
        /\ ClicksCounted' /\ ApprovalCoversClick' /\ DispatchesSpaced'
    BY <1>2, <1>3, <2>1, <2>2, RowRewritten
  <2>4. WorkerTypeOK' /\ worker'.pc = "arm" /\ worker'.command = worker.command /\ Job' = Job
    BY <1>3, DispatchGoing DEF PrepareDispatch, Publishing
  <2>5. Row' = r
    BY <1>2, <1>3, <2>4 DEF Row, StoredTypeOK
  <2>6. Unspent(worker.command.approval)'
    BY <1>3, <2>4 DEF PrepareDispatch, StageInv, ApprovedStageOK, Publishing, Unspent, ClicksOf
  <2>7. ApprovedStageOK'
    BY <1>3, <2>4, <2>6 DEF PrepareDispatch, StageInv, ApprovedStageOK, Publishing
  <2>8. StageInv'
    BY <1>3, <2>4, <2>5, <2>7 DEF StageInv, LoginStageOK, FormStageOK, RowStageOK
  <2> QED
    BY <1>2, <1>3, <2>3, <2>4, <2>8, DispatchStep
<1>4. ASSUME Row.state = "prepared", Row.content = publish.intent, Go("arm"),
             UNCHANGED <<dispatches, publish, answer, shown>>,
             UNCHANGED <<session, latch, login, gate, browser, surface, clicks, works, left>>
      PROVE  IInv'
  <2>1. ClicksCounted' /\ ApprovalCoversClick' /\ DispatchesSpaced'
    BY <1>4, RecordsKept
  <2>2. WorkerTypeOK' /\ worker'.pc = "arm" /\ worker'.command = worker.command /\ Job' = Job
    BY <1>4, DispatchGoing DEF PrepareDispatch, Publishing
  <2>3. Row' = Row
    BY <1>4, <2>2 DEF Row
  <2>4. Unspent(worker.command.approval)'
    BY <1>4, <2>2 DEF PrepareDispatch, StageInv, ApprovedStageOK, Publishing, Unspent, ClicksOf
  <2>5. ApprovedStageOK'
    BY <1>4, <2>2, <2>4 DEF PrepareDispatch, StageInv, ApprovedStageOK, Publishing
  <2>6. StageInv'
    BY <1>4, <2>2, <2>3, <2>5 DEF StageInv, LoginStageOK, FormStageOK, RowStageOK
  <2> QED
    BY <1>2, <1>4, <2>1, <2>2, <2>6, DispatchStep DEF StoredTypeOK
<1>5. ASSUME Dispatched(ReplayState(Row)), UNCHANGED dispatches,
             UNCHANGED <<session, latch, login, gate, browser, surface, clicks, works, left>>
      PROVE  IInv'
  <2>1. /\ worker' = Idle /\ shown' = shown
        /\ publish' \in Publishes
        /\ publish'.approval = None /\ publish'.window = publish.window
    BY <1>2, <1>5, DispatchedClears DEF ReplayState
  <2>2. ClicksCounted' /\ ApprovalCoversClick' /\ DispatchesSpaced'
    BY <1>5, <2>1, RecordsKept
  <2> QED
    BY <1>5, <2>1, <2>2, Ending, DispatchStep DEF StoredTypeOK
<1> QED
  BY <1>1, <1>3, <1>4, <1>5 DEF PrepareDispatch

(* The approval is spent before the row is armed.                            *)
LEMMA ArmKeeps == ASSUME IInv, ArmSubmit PROVE IInv'
<1> USE DEF IInv, MemoryInv, MemoryTypeOK
<1>1. CASE NotDispatched
  BY <1>1, NotDispatchedKeeps
<1>2. CASE /\ gate' = [gate EXCEPT ![worker.command.approval].status = "dispatched"]
           /\ Go("begin")
           /\ UNCHANGED <<ledger, login, publish, browser, surface, answer, outside>>
  <2>1. ClicksCounted' /\ ApprovalCoversClick' /\ DispatchesSpaced'
    BY <1>2, RecordsKept DEF ledger, outside
  <2>2. WorkerTypeOK' /\ worker'.pc = "begin" /\ worker'.command = worker.command /\ Job' = Job
    BY <1>2, DispatchGoing DEF ArmSubmit, Publishing
  <2>3. Row' = Row
    BY <1>2, <2>2 DEF Row, ledger
  <2>4. Unspent(worker.command.approval)'
    BY <1>2, <2>2 DEF outside, ArmSubmit, StageInv, ApprovedStageOK, Publishing, Unspent, ClicksOf
  <2>5. ApprovedStageOK'
    BY <1>2, <2>2, <2>4 DEF outside, ArmSubmit, StageInv, ApprovedStageOK, Publishing
  <2>6. StageInv'
    BY <1>2, <2>2, <2>3, <2>5
       DEF ArmSubmit, ledger, outside, StageInv, LoginStageOK, FormStageOK, RowStageOK
  <2>7. /\ DOMAIN gate' \subseteq Approvals
        /\ gate' \in [DOMAIN gate' -> [content : Contents,
                                       status : {"presented", "authorized", "dispatched"}]]
    BY <1>2
  <2>8. publish.approval = None
    BY DEF ArmSubmit, StageInv, ApprovedStageOK, Publishing
  <2> QED
    BY <1>2, <2>1, <2>2, <2>6, <2>7, <2>8, DispatchStep DEF ledger, outside, StoredTypeOK
<1> QED
  BY <1>1, <1>2 DEF ArmSubmit

(* The row is armed away from every other dispatch.                          *)
LEMMA BeginKeeps == ASSUME IInv, BeginDispatch PROVE IInv'
<1> USE DEF IInv, MemoryInv, MemoryTypeOK
<1>1. CASE NotDispatched
  BY <1>1, NotDispatchedKeeps
<1>2. /\ Job \in Jobs /\ Row \in Rows /\ publish.approval = None /\ clicks[Job] = <<>>
  BY DispatchCommand
     DEF BeginDispatch, Publishing, Job, Row, StoredTypeOK, StageInv, ApprovedStageOK,
         RowStageOK, ClicksCounted
<1>3. ASSUME NEW t \in Times,
             \A d \in OtherDispatches : t - d >= MinInterval,
             dispatches' = [dispatches EXCEPT ![Job].state = "dispatched", ![Job].dispatched = t],
             Go("click"),
             UNCHANGED <<session, latch, login, publish, gate, browser, surface, answer, outside>>
      PROVE  IInv'
  <2> DEFINE r == [Row EXCEPT !.state = "dispatched", !.dispatched = t]
  <2>1. r \in Rows /\ r.state = "dispatched" /\ r.dispatched = t /\ r.content = Row.content
    BY <1>2 DEF Rows
  <2>2. dispatches' = [dispatches EXCEPT ![Job] = r]
    BY <1>2, <1>3 DEF Row, StoredTypeOK
  <2>3. \A k \in Jobs \ {Job} : dispatches[k].dispatched # None =>
            t - dispatches[k].dispatched >= MinInterval
    BY <1>3 DEF OtherDispatches
  <2> HIDE DEF r
  <2>4. /\ dispatches' \in [Jobs -> Rows] /\ clicks' \in [Jobs -> Seq(Clicked)]
        /\ ClicksCounted' /\ ApprovalCoversClick' /\ DispatchesSpaced'
    BY <1>2, <1>3, <2>1, <2>2, <2>3, RowRewritten DEF outside
  <2>5. WorkerTypeOK' /\ worker'.pc = "click" /\ worker'.command = worker.command /\ Job' = Job
    BY <1>3, DispatchGoing DEF BeginDispatch, Publishing
  <2>6. Row' = r
    BY <1>2, <2>2, <2>5 DEF Row, StoredTypeOK
  <2>7. Unspent(worker.command.approval)'
    BY <1>3, <2>5 DEF outside, BeginDispatch, StageInv, ApprovedStageOK, Publishing, Unspent, ClicksOf
  <2>8. ApprovedStageOK'
    BY <1>3, <2>5, <2>7 DEF outside, BeginDispatch, StageInv, ApprovedStageOK, Publishing
  <2>9. StageInv'
    BY <1>2, <1>3, <2>1, <2>5, <2>6, <2>8
       DEF BeginDispatch, outside, StageInv, LoginStageOK, FormStageOK, RowStageOK
  <2> QED
    BY <1>2, <1>3, <2>4, <2>5, <2>9, DispatchStep DEF outside
<1> QED
  BY <1>1, <1>3 DEF BeginDispatch

(* The click presses the window of the approval it spent, under the content  *)
(* the row stands for.                                                       *)
LEMMA ClickKeeps == ASSUME IInv, Click PROVE IInv'
<1> USE DEF IInv, MemoryInv, MemoryTypeOK
<1> DEFINE x == [approval |-> worker.command.approval, content |-> publish.window]
<1>1. /\ Job \in Jobs /\ clicks[Job] = <<>> /\ Row.state = "dispatched"
      /\ Row.content = publish.window /\ publish.approval = None
      /\ x \in Clicked /\ x \in shown /\ Unspent(x.approval)
  BY DispatchCommand
     DEF Click, Publishing, Job, Clicked, StageInv, ApprovedStageOK, RowStageOK
<1>2. PICK reached, returned \in BOOLEAN :
        /\ returned => reached
        /\ clicks' = IF reached THEN [clicks EXCEPT ![Job] = Append(@, x)] ELSE clicks
        /\ Go(IF returned THEN "settle" ELSE "uncertain")
  BY DEF Click
<1>3. UNCHANGED <<dispatches, session, latch, login, publish, gate, browser, surface, shown, left>>
  BY DEF Click, ledger
<1> HIDE DEF x
<1>4. /\ clicks' \in [Jobs -> Seq(Clicked)]
      /\ clicks'[Job] = IF reached THEN <<x>> ELSE <<>>
      /\ \A k \in Jobs \ {Job} : clicks'[k] = clicks[k]
  BY <1>1, <1>2 DEF StoredTypeOK
<1>5. ClicksCounted'
  <2> SUFFICES ASSUME NEW k \in Jobs
               PROVE  /\ Len(clicks'[k]) <= 1
                      /\ dispatches'[k].state \in {"none", "prepared"} => clicks'[k] = <<>>
    BY DEF ClicksCounted
  <2>1. CASE k = Job
    <3>1. clicks'[k] = IF reached THEN <<x>> ELSE <<>>
      BY <1>4, <2>1
    <3>2. clicks'[k] = <<x>> \/ clicks'[k] = <<>>
      BY <3>1
    <3>3. Len(clicks'[k]) <= 1
      <4>1. Len(<<x>>) = 1 /\ Len(<<>>) = 0
        OBVIOUS
      <4>2. CASE clicks'[k] = <<x>>
        BY <4>1, <4>2
      <4>3. CASE clicks'[k] = <<>>
        BY <4>1, <4>3
      <4> QED
        BY <3>2, <4>2, <4>3
    <3>4. dispatches'[k].state = "dispatched"
      BY <1>1, <1>3, <2>1 DEF Row
    <3> QED
      BY <3>3, <3>4
  <2>2. CASE k # Job
    BY <1>3, <1>4, <2>2 DEF ClicksCounted
  <2> QED
    BY <2>1, <2>2
<1>6. /\ ClicksOf(Job)' \subseteq {x}
      /\ \A k \in Jobs : k # Job' => ClicksOf(k)' = ClicksOf(k)
      /\ Job' = Job
  <2>1. Job' = Job
    BY <1>2, DispatchGoing DEF Click, Publishing
  <2>2. ClicksOf(Job)' \subseteq {x}
    BY <1>4, <2>1 DEF ClicksOf
  <2>3. ASSUME NEW k \in Jobs, k # Job
        PROVE  ClicksOf(k)' = ClicksOf(k)
    BY <1>4, <2>3 DEF ClicksOf
  <2> QED
    BY <2>1, <2>2, <2>3
<1>7. ApprovalCoversClick'
  <2> SUFFICES ASSUME NEW k \in Jobs, NEW c \in ClicksOf(k)'
               PROVE  /\ ([approval |-> c.approval, content |-> c.content] \in shown)'
                      /\ (dispatches[k].content = c.content)'
                      /\ \A l \in Jobs \ {k} : \A d \in ClicksOf(l)' : d.approval # c.approval
    BY DEF ApprovalCoversClick
  <2>1. x = [approval |-> x.approval, content |-> x.content] /\ x.content = publish.window
    BY DEF x
  <2>2. PICK job \in Jobs : job = Job
    BY <1>1
  <2>3. ClicksOf(job)' \subseteq {x}
    <3>1. ClicksOf(job)' = ClicksOf(Job)'
      BY <1>6, <2>2 DEF ClicksOf
    <3> QED
      BY <1>6, <3>1
  <2>4. \A l \in Jobs \ {job} : ClicksOf(l)' = ClicksOf(l)
    BY <1>6, <2>2
  <2>5. CASE k = job
    <3>1. c = x
      BY <2>3, <2>5
    <3>2. dispatches[k].content = publish.window
      BY <1>1, <2>2, <2>5 DEF Row
    <3>3. \A l \in Jobs \ {k} : \A d \in ClicksOf(l)' : d.approval # x.approval
      BY <1>1, <2>4, <2>5 DEF Unspent
    <3> QED
      BY <1>1, <1>3, <2>1, <3>1, <3>2, <3>3
  <2>6. CASE k # job
    <3>1. c \in ClicksOf(k)
      BY <2>4, <2>6
    <3>2. /\ [approval |-> c.approval, content |-> c.content] \in shown
          /\ dispatches[k].content = c.content
          /\ \A l \in Jobs \ {k} : \A d \in ClicksOf(l) : d.approval # c.approval
      BY <3>1 DEF ApprovalCoversClick
    <3>3. c.approval # x.approval
      BY <1>1, <3>1 DEF Unspent
    <3>4. ASSUME NEW l \in Jobs \ {k}, NEW d \in ClicksOf(l)'
          PROVE  d.approval # c.approval
      BY <2>3, <2>4, <3>2, <3>3, <3>4
    <3> QED
      BY <1>3, <3>2, <3>4
  <2> QED
    BY <2>5, <2>6
<1>8. DispatchesSpaced'
  BY <1>3 DEF DispatchesSpaced
<1>9. /\ WorkerTypeOK' /\ worker'.pc = (IF returned THEN "settle" ELSE "uncertain")
      /\ Job' = Job
  BY <1>2, DispatchGoing DEF Click, Publishing
<1>10. Row' = Row /\ clicks'[Job'] = IF reached THEN <<x>> ELSE <<>>
  BY <1>3, <1>4, <1>9 DEF Row
<1>11. StageInv'
  BY <1>1, <1>2, <1>3, <1>9, <1>10
     DEF StageInv, LoginStageOK, FormStageOK, ApprovedStageOK, RowStageOK, Publishing
<1> QED
  BY <1>1, <1>3, <1>4, <1>5, <1>7, <1>8, <1>9, <1>11, DispatchStep DEF StoredTypeOK

(* A settled row keeps its content and the time of its dispatch.             *)
LEMMA Settling ==
  ASSUME IInv, Job \in Jobs, Row.state = "dispatched", NEW state \in Settled, Settle(state),
         clicks' = clicks, shown' = shown
  PROVE  /\ dispatches' \in [Jobs -> Rows] /\ clicks' \in [Jobs -> Seq(Clicked)]
         /\ ClicksCounted' /\ ApprovalCoversClick' /\ DispatchesSpaced'
<1> DEFINE r == [Row EXCEPT !.state = state]
<1>1. Row \in Rows /\ dispatches \in [Jobs -> Rows]
  BY DEF Row, IInv, MemoryInv, StoredTypeOK
<1>2. /\ r \in Rows /\ r.content = Row.content /\ r.dispatched = Row.dispatched
      /\ r.state \notin {"none", "prepared"}
  BY <1>1 DEF Rows, Settled
<1>3. dispatches' = [dispatches EXCEPT ![Job] = r]
  BY <1>1 DEF Settle, Row
<1> HIDE DEF r
<1>4. \A k \in Jobs \ {Job} : r.dispatched # None /\ dispatches[k].dispatched # None =>
         \/ r.dispatched - dispatches[k].dispatched >= MinInterval
         \/ dispatches[k].dispatched - r.dispatched >= MinInterval
  BY <1>2 DEF IInv, DispatchesSpaced, Row
<1> QED
  BY <1>1, <1>2, <1>3, <1>4, RowRewritten DEF Row

(* The works list settles a dispatched row, and only such a row.            *)
LEMMA SettleKeeps == ASSUME IInv, SettleAgainstWorks PROVE IInv'
<1> USE DEF IInv, MemoryInv, MemoryTypeOK
<1>1. Job \in Jobs /\ Row.state = "dispatched" /\ publish.approval = None
  BY DispatchCommand DEF SettleAgainstWorks, Job, StageInv, FormStageOK, RowStageOK
<1>2. CASE /\ Settle("verified")
           /\ Dispatched("publish_verified")
           /\ UNCHANGED <<session, latch, login, gate, browser, surface, clicks, works, left>>
  <2>1. /\ worker' = Idle /\ shown' = shown
        /\ publish' \in Publishes
        /\ publish'.approval = None /\ publish'.window = publish.window
    BY <1>1, <1>2, DispatchedClears
  <2>2. /\ dispatches' \in [Jobs -> Rows] /\ clicks' \in [Jobs -> Seq(Clicked)]
        /\ ClicksCounted' /\ ApprovalCoversClick' /\ DispatchesSpaced'
    BY <1>1, <1>2, <2>1, Settling DEF Settled
  <2> QED
    BY <1>2, <2>1, <2>2, Ending, DispatchStep
<1>3. CASE /\ Go("uncertain")
           /\ UNCHANGED <<ledger, login, publish, gate, browser, surface, answer, outside>>
  <2>1. WorkerTypeOK' /\ worker'.pc = "uncertain" /\ Job' = Job
    BY <1>3, DispatchGoing DEF SettleAgainstWorks
  <2>2. Row' = Row
    BY <1>3, <2>1 DEF Row, ledger
  <2>3. StageInv'
    BY <1>1, <1>3, <2>1, <2>2
       DEF StageInv, LoginStageOK, FormStageOK, ApprovedStageOK, RowStageOK, Publishing
  <2>4. ClicksCounted' /\ ApprovalCoversClick' /\ DispatchesSpaced'
    BY <1>3, RecordsKept DEF ledger, outside
  <2> QED
    BY <1>1, <1>3, <2>1, <2>3, <2>4, DispatchStep DEF ledger, outside, StoredTypeOK
<1> QED
  BY <1>2, <1>3 DEF SettleAgainstWorks

(* A dispatched row without evidence becomes uncertain, or stays            *)
(* dispatched.                                                              *)
LEMMA UncertainKeeps == ASSUME IInv, MarkUncertain PROVE IInv'
<1> USE DEF IInv, MemoryInv, MemoryTypeOK
<1>1. Job \in Jobs /\ Row.state = "dispatched" /\ publish.approval = None
  BY DispatchCommand DEF MarkUncertain, Job, StageInv, FormStageOK, RowStageOK
<1>2. /\ worker' = Idle /\ shown' = shown
      /\ publish' \in Publishes
      /\ publish'.approval = None /\ publish'.window = publish.window
  BY <1>1, DispatchedClears DEF MarkUncertain
<1>3. UNCHANGED <<session, latch, login, gate, browser, surface, clicks, left>>
  BY DEF MarkUncertain
<1>4. /\ dispatches' \in [Jobs -> Rows] /\ clicks' \in [Jobs -> Seq(Clicked)]
      /\ ClicksCounted' /\ ApprovalCoversClick' /\ DispatchesSpaced'
  <2>1. CASE Settle("uncertain")
    BY <1>1, <1>2, <1>3, <2>1, Settling DEF Settled
  <2>2. CASE UNCHANGED dispatches
    BY <1>2, <1>3, <2>2, RecordsKept DEF StoredTypeOK
  <2> QED
    BY <2>1, <2>2 DEF MarkUncertain
<1> QED
  BY <1>2, <1>3, <1>4, Ending, DispatchStep

-----------------------------------------------------------------------------
(* The invariant *)

(* A first process starts with nothing open and nothing recorded.            *)
LEMMA InitHolds == ASSUME Init PROVE IInv
<1> USE DEF Init
<1>1. StageInv /\ WorkerTypeOK
  BY DEF Idle, WorkerTypeOK, StageInv, LoginStageOK, FormStageOK, ApprovedStageOK, RowStageOK,
         Publishing
<1>2. \A j \in Jobs : dispatches[j] = NoDispatch /\ clicks[j] = <<>>
  OBVIOUS
<1>3. MemoryTypeOK
  <2>1. publish \in Publishes
    BY DEF NoPublish, Publishes
  <2>2. DOMAIN gate = {}
    OBVIOUS
  <2>3. gate \in [DOMAIN gate -> [content : Contents,
                                  status : {"presented", "authorized", "dispatched"}]]
    BY <2>2
  <2> QED
    BY <1>1, <2>1, <2>2, <2>3 DEF MemoryTypeOK, BrowserTypeOK
<1>4. StoredTypeOK
  <2>1. NoDispatch \in Rows
    BY ConstantsAssumption DEF NoDispatch, Rows, Times
  <2>2. session \in Sessions
    BY ConstantsAssumption DEF Sessions, Times
  <2>3. clicks \in [Jobs -> Seq(Clicked)]
    OBVIOUS
  <2>4. left \in 0..MaxCommands
    BY ConstantsAssumption
  <2> QED
    BY <2>1, <2>2, <2>3, <2>4 DEF StoredTypeOK
<1>5. ClicksCounted /\ ApprovalCoversClick /\ DispatchesSpaced
  BY <1>2 DEF ClicksCounted, ApprovalCoversClick, ClicksOf, DispatchesSpaced, NoDispatch
<1>6. BrowserHeldByOwner /\ PendingOK
  BY DEF BrowserHeldByOwner, PendingOK, PendingApprovalIsLive, NoPublish
<1> QED
  BY <1>1, <1>3, <1>4, <1>5, <1>6 DEF IInv, MemoryInv

(* Every step keeps it.                                                      *)
LEMMA NextHolds == ASSUME IInv, [Next]_vars PROVE IInv'
<1>1. ASSUME NEW command \in Commands, Read(command, Proof(command))
      PROVE  IInv'
  BY <1>1, ReadKeeps
<1>2. CASE Logout \/ StartLogin \/ AcquireLogin \/ ObserveLogin
  BY <1>2, LogoutKeeps, StartLoginKeeps, AcquireLoginKeeps, ObserveLoginKeeps
<1>3. CASE \/ ReleaseCommand \/ RefuseContent \/ StartPreflight \/ AcquirePublish
           \/ OpenEntry \/ UploadArtifact \/ FillForm
  BY <1>3, ReleaseKeeps, RefuseKeeps, StartPreflightKeeps, AcquirePublishKeeps, OpenEntryKeeps,
     UploadKeeps, FillKeeps
<1>4. CASE \/ StartDispatch \/ PrepareDispatch \/ ArmSubmit \/ BeginDispatch
           \/ Click \/ SettleAgainstWorks \/ MarkUncertain
  BY <1>4, StartDispatchKeeps, PrepareKeeps, ArmKeeps, BeginKeeps, ClickKeeps, SettleKeeps,
     UncertainKeeps
<1>5. CASE \/ MainAcquires \/ MainReleases
           \/ BeginTakeover \/ ReleaseTakeover \/ BorrowerFailsOrExpires \/ ConfirmReclaimed
           \/ EngageLatch
  BY <1>5, AsideKeeps
<1>6. CASE Kill
  BY <1>6, KillKeeps
<1>7. CASE UNCHANGED vars
  <2>1. UNCHANGED <<dispatches, session, latch, worker, login, publish, gate, lock, request,
                    surface, shown, clicks, left>>
    BY <1>7 DEF vars
  <2> QED
    BY <2>1, StagesKept, RecordsKept, PendingKept
       DEF IInv, MemoryInv, MemoryTypeOK, WorkerTypeOK, BrowserTypeOK, StoredTypeOK,
           BrowserHeldByOwner
<1> QED
  BY <1>1, <1>2, <1>3, <1>4, <1>5, <1>6, <1>7 DEF Next

(* The invariant of the platform commands holds in every reachable state.    *)
THEOREM Invariance == Spec => []IInv
  BY InitHolds, NextHolds, PTL DEF Spec

(* Through kills, takeovers, replays and stops, what is posted is what a     *)
(* person was shown, under an approval no other job spent                    *)
(* (_confirmation_still_holds, authorize_dispatch).                          *)
THEOREM ClicksAreCovered == Spec => []ApprovalCoversClick
  BY Invariance, PTL DEF IInv

(* An approval that can still be answered always has its filled window       *)
(* (release_surface, _close_active).                                         *)
THEOREM PendingStaysLive == Spec => []PendingApprovalIsLive
<1>1. IInv => PendingApprovalIsLive
  BY DEF IInv, PendingOK
<1> QED
  BY <1>1, Invariance, PTL

(* No path leaves the browser locked without its operation, or shared        *)
(* (BrowserLaunchAuthority, _close_active).                                  *)
THEOREM BrowserStaysOwned == Spec => []BrowserHeldByOwner
  BY Invariance, PTL DEF IInv

(* Two jobs are never dispatched within the interval, whatever the clock     *)
(* does (begin_publish_dispatch).                                            *)
THEOREM DispatchesStaySpaced == Spec => []DispatchesSpaced
  BY Invariance, PTL DEF IInv

-----------------------------------------------------------------------------
(* The side-effect contract *)

(* A job's button is permitted, pressed, confirmed or given up, one job at a *)
(* time.                                                                     *)
Moves(j) ==
    \/ /\ Verdict(dispatches'[j]) = Verdict(dispatches[j]) /\ clicks'[j] = clicks[j]
    \/ /\ Verdict(dispatches[j]) = "open" /\ Verdict(dispatches'[j]) = "permitted"
       /\ clicks'[j] = clicks[j]
    \/ /\ Verdict(dispatches[j]) = "permitted" /\ Verdict(dispatches'[j]) = "permitted"
       /\ Len(clicks[j]) = 0 /\ Len(clicks'[j]) = 1
    \/ /\ Verdict(dispatches[j]) = "permitted" /\ Verdict(dispatches'[j]) = "confirmed"
       /\ Len(clicks[j]) = 1 /\ clicks'[j] = clicks[j]
    \/ /\ Verdict(dispatches[j]) = "permitted" /\ Verdict(dispatches'[j]) = "unknown"
       /\ clicks'[j] = clicks[j]

(* Each of these is a step of the contract.                                  *)
LEMMA MovesMap ==
  ASSUME NEW j \in Jobs, Moves(j),
         \A k \in Jobs \ {j} : dispatches'[k] = dispatches[k] /\ clicks'[k] = clicks[k]
  PROVE  Contract!Next \/ UNCHANGED Contract!vars
<1> DEFINE v == [k \in Jobs |-> Verdict(dispatches[k])]
           w == [k \in Jobs |-> Verdict(dispatches'[k])]
           p == [k \in Jobs |-> Len(clicks[k])]
           q == [k \in Jobs |-> Len(clicks'[k])]
<1>1. /\ v[j] = Verdict(dispatches[j]) /\ w[j] = Verdict(dispatches'[j])
      /\ p[j] = Len(clicks[j]) /\ q[j] = Len(clicks'[j])
      /\ \A k \in Jobs \ {j} : w[k] = v[k] /\ q[k] = p[k]
  OBVIOUS
<1>2. /\ v = [k \in Jobs |-> v[k]] /\ w = [k \in Jobs |-> w[k]]
      /\ p = [k \in Jobs |-> p[k]] /\ q = [k \in Jobs |-> q[k]]
  OBVIOUS
<1> HIDE DEF v, w, p, q
<1>3. w[j] = v[j] => w = v
  BY <1>1, <1>2
<1>4. q[j] = p[j] => q = p
  BY <1>1, <1>2
<1>5. w = [v EXCEPT ![j] = w[j]] /\ q = [p EXCEPT ![j] = q[j]]
  BY <1>1, <1>2
<1>6. CASE Verdict(dispatches'[j]) = Verdict(dispatches[j]) /\ clicks'[j] = clicks[j]
  <2>1. w = v /\ q = p
    BY <1>1, <1>3, <1>4, <1>6
  <2> QED
    BY <2>1 DEF Contract!vars, v, w, p, q
<1>7. CASE /\ Verdict(dispatches[j]) = "open" /\ Verdict(dispatches'[j]) = "permitted"
           /\ clicks'[j] = clicks[j]
  <2>1. v[j] = "open" /\ w = [v EXCEPT ![j] = "permitted"] /\ q = p
    BY <1>1, <1>4, <1>5, <1>7
  <2>2. Contract!Permit(j)
    BY <2>1 DEF Contract!Permit, v, w, p, q
  <2> QED
    BY <2>2 DEF Contract!Next
<1>8. CASE /\ Verdict(dispatches[j]) = "permitted" /\ Verdict(dispatches'[j]) = "permitted"
           /\ Len(clicks[j]) = 0 /\ Len(clicks'[j]) = 1
  <2>1. v[j] = "permitted" /\ p[j] = 0 /\ q = [p EXCEPT ![j] = 1] /\ w = v
    BY <1>1, <1>3, <1>5, <1>8
  <2>2. Contract!Perform(j)
    BY <2>1 DEF Contract!Perform, v, w, p, q
  <2> QED
    BY <2>2 DEF Contract!Next
<1>9. CASE /\ Verdict(dispatches[j]) = "permitted" /\ Verdict(dispatches'[j]) = "confirmed"
           /\ Len(clicks[j]) = 1 /\ clicks'[j] = clicks[j]
  <2>1. v[j] = "permitted" /\ p[j] = 1 /\ w = [v EXCEPT ![j] = "confirmed"] /\ q = p
    BY <1>1, <1>4, <1>5, <1>9
  <2>2. Contract!Confirm(j)
    BY <2>1 DEF Contract!Confirm, v, w, p, q
  <2> QED
    BY <2>2 DEF Contract!Next
<1>10. CASE /\ Verdict(dispatches[j]) = "permitted" /\ Verdict(dispatches'[j]) = "unknown"
            /\ clicks'[j] = clicks[j]
  <2>1. v[j] = "permitted" /\ w[j] = "unknown" /\ q = p
    BY <1>1, <1>4, <1>10
  <2>2. w = [k \in Jobs |-> IF k \in {j} THEN "unknown" ELSE v[k]]
    BY <1>1, <1>2, <2>1
  <2>3. Contract!GiveUp({j})
    BY <2>1, <2>2 DEF Contract!GiveUp, v, w, p, q
  <2> QED
    BY <2>3 DEF Contract!Next
<1> QED
  BY <1>6, <1>7, <1>8, <1>9, <1>10 DEF Moves

(* A step that posts nothing and records nothing is invisible.               *)
LEMMA SilentMaps ==
  ASSUME dispatches' = dispatches, clicks' = clicks
  PROVE  UNCHANGED Contract!vars
  BY DEF Contract!vars

(* The steps of a dispatch that write its row or press the button.           *)
LEMMA DispatchMaps ==
  ASSUME IInv, PrepareDispatch \/ BeginDispatch \/ Click \/ SettleAgainstWorks \/ MarkUncertain
  PROVE  Contract!Next \/ UNCHANGED Contract!vars
<1> USE DEF IInv, MemoryInv, MemoryTypeOK
<1>1. PICK j \in Jobs : j = Job
  BY DispatchCommand DEF PrepareDispatch, BeginDispatch, Click, SettleAgainstWorks, MarkUncertain,
     Publishing, Job
<1>2. dispatches \in [Jobs -> Rows] /\ clicks \in [Jobs -> Seq(Clicked)]
  BY DEF StoredTypeOK
<1>3. CASE dispatches' = dispatches /\ clicks' = clicks
  BY <1>3, SilentMaps
<1>4. CASE PrepareDispatch /\ dispatches' # dispatches
  <2>1. PICK t \in Times :
          /\ dispatches[j].state = "none"
          /\ dispatches' = [dispatches EXCEPT ![j] =
                              [state |-> "prepared", content |-> publish.intent,
                               prepared |-> t, dispatched |-> None]]
          /\ clicks' = clicks
    BY <1>1, <1>4 DEF PrepareDispatch, NotDispatched, Row
  <2>2. /\ dispatches'[j].state = "prepared"
        /\ \A k \in Jobs \ {j} : dispatches'[k] = dispatches[k] /\ clicks'[k] = clicks[k]
    BY <1>2, <2>1
  <2> QED
    BY <2>1, <2>2, MovesMap DEF Moves, Verdict
<1>5. CASE BeginDispatch /\ dispatches' # dispatches
  <2>1. /\ dispatches[j].state = "prepared"
        /\ dispatches'[j].state = "dispatched"
        /\ clicks' = clicks
        /\ \A k \in Jobs \ {j} : dispatches'[k] = dispatches[k]
    <3>1. PICK t \in Times :
            /\ dispatches' = [dispatches EXCEPT ![j].state = "dispatched", ![j].dispatched = t]
            /\ clicks' = clicks
      BY <1>1, <1>5 DEF BeginDispatch, NotDispatched, outside
    <3>2. dispatches[j] \in Rows /\ dispatches[j].state = "prepared"
      BY <1>1, <1>2, <1>5 DEF BeginDispatch, StageInv, RowStageOK, Row
    <3>3. dispatches'[j] = [dispatches[j] EXCEPT !.state = "dispatched", !.dispatched = t]
      BY <1>2, <3>1
    <3> QED
      BY <1>2, <3>1, <3>2, <3>3 DEF Rows
  <2> QED
    BY <2>1, MovesMap DEF Moves, Verdict
<1>6. CASE Click /\ clicks' # clicks
  <2>1. /\ dispatches[j].state = "dispatched" /\ clicks[j] = <<>> /\ dispatches' = dispatches
    BY <1>1, <1>6 DEF Click, StageInv, RowStageOK, Row, ledger
  <2>2. PICK x : clicks' = [clicks EXCEPT ![j] = Append(@, x)]
    BY <1>1, <1>6 DEF Click
  <2>3. /\ clicks'[j] = <<x>>
        /\ \A k \in Jobs \ {j} : clicks'[k] = clicks[k]
    BY <1>2, <2>1, <2>2
  <2>4. Len(clicks[j]) = 0 /\ Len(<<x>>) = 1
    BY <2>1
  <2> QED
    BY <2>1, <2>3, <2>4, MovesMap DEF Moves, Verdict
<1>7. CASE (SettleAgainstWorks \/ MarkUncertain) /\ dispatches' # dispatches
  <2>1. PICK state \in Settled :
          /\ dispatches' = [dispatches EXCEPT ![j].state = state]
          /\ state = "verified" => SettleAgainstWorks
          /\ clicks' = clicks
    BY <1>1, <1>7 DEF SettleAgainstWorks, MarkUncertain, Settle, Settled, ledger
  <2>2. /\ dispatches[j].state = "dispatched"
        /\ state = "verified" => Len(clicks[j]) = 1
    BY <1>1, <1>7, <2>1 DEF SettleAgainstWorks, MarkUncertain, StageInv, RowStageOK, Row
  <2>3. dispatches'[j] = [dispatches[j] EXCEPT !.state = state] /\ dispatches[j] \in Rows
    BY <1>2, <2>1
  <2>4. /\ dispatches'[j].state = state
        /\ \A k \in Jobs \ {j} : dispatches'[k] = dispatches[k] /\ clicks'[k] = clicks[k]
    BY <1>2, <2>1, <2>3 DEF Rows
  <2> QED
    BY <2>1, <2>2, <2>4, MovesMap DEF Moves, Verdict, Settled
<1>8. CASE PrepareDispatch \/ BeginDispatch \/ SettleAgainstWorks \/ MarkUncertain
  <2>1. clicks' = clicks
    BY <1>8 DEF PrepareDispatch, NotDispatched, BeginDispatch, SettleAgainstWorks, MarkUncertain,
       outside
  <2> QED
    BY <1>3, <1>4, <1>5, <1>7, <1>8, <2>1
<1>9. CASE Click
  BY <1>3, <1>6, <1>9 DEF Click, ledger
<1> QED
  BY <1>8, <1>9

(* Every other step is silent.                                               *)
LEMMA OthersMap ==
  ASSUME [Next]_vars,
         ~(PrepareDispatch \/ BeginDispatch \/ Click \/ SettleAgainstWorks \/ MarkUncertain)
  PROVE  UNCHANGED Contract!vars
<1>1. dispatches' = dispatches /\ clicks' = clicks
  BY DEF Next, vars, ledger, outside, Read, Logout, StartLogin, AcquireLogin, ObserveLogin, Reject,
     RejectReported, ReleaseCommand, RefuseContent, StartPreflight, AcquirePublish, OpenEntry,
     UploadArtifact, FillForm, EndBlocked, EndHandover, StartDispatch, NotDispatched, ArmSubmit,
     MainAcquires, MainReleases, BeginTakeover, ReleaseTakeover, BorrowerFailsOrExpires,
     ConfirmReclaimed, Surface, EngageLatch, Kill
<1> QED
  BY <1>1, SilentMaps

(* The publish dispatches implement the side-effect contract: through every  *)
(* kill, stop, replay and clock a job's button is pressed at most once, under *)
(* a permission, and no verdict is taken back.                               *)
THEOREM Implementation == Spec => ImplementsContract
<1>1. Init => Contract!Init
  <2> SUFFICES ASSUME Init PROVE Contract!Init
    OBVIOUS
  <2>1. \A j \in Jobs : Verdict(dispatches[j]) = "open" /\ Len(clicks[j]) = 0
    BY DEF Init, NoDispatch, Verdict
  <2> QED
    BY <2>1 DEF Contract!Init
<1>2. IInv /\ [Next]_vars => [Contract!Next]_(Contract!vars)
  BY DispatchMaps, OthersMap
<1> QED
  BY <1>1, <1>2, Invariance, PTL DEF Spec, ImplementsContract, Contract!Spec
=============================================================================
