------------------------- MODULE BilibiliPublishing -------------------------
(***************************************************************************)
(* Publishing one video to Bilibili through its open API: the durable      *)
(* attempt, the in-memory session of the API runtime, the chunked upload,  *)
(* the single admission of the archive creation, and the reconciliation    *)
(* that settles what became of it by listing and viewing the archives of   *)
(* the account or from a notification of the platform.                     *)
(*                                                                         *)
(* HTTP requests run concurrently (Callers); every await on the database   *)
(* or on the platform ends a step.  The process may be killed between any  *)
(* two steps, and a creation request the platform has received may be      *)
(* carried out after its sender has given up.  A response of the platform  *)
(* is one of the classes the parsers tell apart.                           *)
(***************************************************************************)
EXTENDS Absent, Integers, FiniteSets, Sequences, SequencesExt

CONSTANTS
    Jobs,           \* publish jobs
    ContentsOf,     \* the archive fields prepare may be given for a job
    PartsOf,        \* parts planned for a job's video, 0 for a small file
    CoverJobs,      \* jobs prepared with a cover
    Installations, Callers,
    OldTitles,      \* titles of archives from before the match window
    SerialUploads,  \* the desktop sends one upload of a job at a time
    MaxOpen,        \* _MAX_SESSIONS
    PageSize,       \* page_size_max of the archive list
    MaxPages,       \* max_list_pages
    MaxSessions, MaxTokens, MaxCalls, MaxKills, MaxRounds

(* What is stored of a job's attempt.                                        *)
Phases == {"prepared", "video_uploaded", "dispatched", "submitted", "failed",
           "outcome_uncertain"}
Contents == UNION {ContentsOf[j] : j \in Jobs}
Attempts == [phase : Phases, content : Contents, token : Nat \cup {None},
             cover : BOOLEAN, resource : Nat \cup {None}]
Answers == [kind : {"created", "refused", "lost"}, id : Nat \cup {None}]

ASSUME BilibiliAssumption ==
    /\ PartsOf \in [Jobs -> Nat] /\ CoverJobs \subseteq Jobs
    /\ PageSize \in Nat \ {0} /\ {MaxPages, MaxOpen, MaxSessions} \subseteq Nat
    /\ {MaxTokens, MaxCalls, MaxKills, MaxRounds} \subseteq Nat
    /\ SerialUploads \in BOOLEAN /\ OldTitles \in Seq(STRING)
    /\ None \notin Jobs \cup Nat \cup Phases
    /\ None \notin Attempts /\ None \notin Answers

VARIABLES
    attempt,     \* bilibili_publish_attempts, by job
    parts,       \* bilibili_upload_parts, by job
    outcome,     \* bilibili_publish_reconciliations, by job
    sessions,    \* the runtime's open sessions
    issued,      \* session tokens handed out so far
    caller,      \* the requests being handled
    reconciler,  \* the reconciliation service's current call
    uploads,     \* platform: upload token -> parts received
    requests,    \* platform: creation requests received and not yet decided
    answers,     \* platform: what it decided on a job's creation request
    archives,    \* platform: the account's archives, newest first
    calls, kills, rounds

durable == <<attempt, parts, outcome>>
runtime == <<sessions, issued, caller>>
platform == <<uploads, requests, answers, archives>>
budget == <<calls, kills, rounds>>
vars == <<durable, runtime, reconciler, platform, budget>>

-----------------------------------------------------------------------------
(* Pure parts: the upload plan, the classification of the platform's       *)
(* answers and the publish job's state machine.                            *)

(* The locked contract must have room for the largest video it allows.      *)
ContractAccepts(partSize, maxParts, videoMax) == maxParts * partSize >= videoMax

PlanUploadParts(size, partSize) ==
    LET full == [n \in 1..(size \div partSize) |-> partSize]
    IN IF size % partSize = 0 THEN full ELSE Append(full, size % partSize)

ErrorCategories == {"request_malformed", "auth_rejected", "rate_limited",
    "platform_busy", "content_rejected", "archive_conflict",
    "human_verification_required", "unknown"}

FailureCode(category) ==
    CASE category \in {"request_malformed", "content_rejected"} -> "invalid_input"
      [] category \in {"rate_limited", "platform_busy"} -> "dependency_unavailable"
      [] OTHER -> "platform_error"

(* A reprint (copyright 2) names its source, an original does not; the      *)
(* title is not empty and the tags are a non-empty list.                    *)
ValidSubmission(fields) ==
    /\ fields.title # "" /\ Len(fields.tags) > 0
    /\ fields.copyright \in {1, 2}
    /\ (fields.copyright = 2) <=> (fields.source # None)

TerminalStatuses == {"published", "rejected", "failed", "cancelled"}

Transitions ==
    [draft |-> {"awaiting_approval", "cancelling"},
     awaiting_approval |-> {"draft", "approved", "cancelling"},
     approved |-> {"dispatching", "cancelling"},
     dispatching |-> {"published", "rejected", "failed", "outcome_uncertain",
                      "cancelling"},
     cancelling |-> {"cancelled", "published", "rejected", "failed",
                     "outcome_uncertain"},
     outcome_uncertain |-> {"published", "rejected", "failed"},
     published |-> {}, rejected |-> {}, failed |-> {}, cancelled |-> {}]

(* publish_job_target_for raises unless both a dispatching and an uncertain *)
(* job may move to the settled outcome.                                     *)
JobTargetFor(o) ==
    IF /\ o \in TerminalStatuses
       /\ o \in Transitions["dispatching"] \cap Transitions["outcome_uncertain"]
    THEN o ELSE None

-----------------------------------------------------------------------------
Idle == [pc |-> "idle", job |-> None, session |-> None, token |-> None,
         todo |-> {}, answer |-> None]

Resting == [pc |-> "idle", queue |-> <<>>, job |-> None, resource |-> None,
            page |-> 1, total |-> None, seen |-> 0, found |-> {}, state |-> None]

Reconcilable == {"dispatched", "submitted", "outcome_uncertain"}

Archive(id, title, job, token, recent) ==
    [id |-> id, title |-> title, job |-> job, token |-> token,
     recent |-> recent, state |-> "review"]

(* What parse_archive_add makes of a response. *)
Answer(kind, id) == [kind |-> kind, id |-> id]

Init ==
    /\ attempt = [j \in Jobs |-> None]
    /\ parts = [j \in Jobs |-> {}]
    /\ outcome = [j \in Jobs |-> None]
    /\ sessions = {} /\ issued = 0
    /\ caller = [c \in Callers |-> Idle]
    /\ reconciler = Resting
    /\ uploads = <<>> /\ requests = {} /\ answers = [j \in Jobs |-> None]
    /\ archives = [n \in 1..Len(OldTitles) |->
                     Archive(n, OldTitles[n], None, None, FALSE)]
    /\ calls = 0 /\ kills = 0 /\ rounds = 0

-----------------------------------------------------------------------------
(* The runtime: sessions, and the calls of the HTTP API.                    *)

Starts(c) ==
    /\ caller[c].pc = "idle" /\ calls < MaxCalls
    /\ calls' = calls + 1

Phase(j) == IF attempt[j] = None THEN None ELSE attempt[j].phase

NewAttempt(content) ==
    [phase |-> "prepared", content |-> content, token |-> None, cover |-> FALSE,
     resource |-> None]

(* The digest of a stored attempt covers the job, the material, the fields  *)
(* and whether there is a cover.                                            *)
SameRequest(j, content) == attempt[j] # None => attempt[j].content = content

(* runtime.prepare: the attempt is created, or found with the same digest;  *)
(* the new session replaces the installation's other ones, and is turned    *)
(* away when too many of the others are open.                               *)
Prepare(i, j, content) ==
    /\ calls < MaxCalls /\ issued < MaxSessions
    /\ ValidSubmission(content) /\ SameRequest(j, content)
    /\ LET others == {s \in sessions : s.installation # i}
           new == [token |-> issued + 1, installation |-> i, job |-> j]
       IN sessions' = IF Cardinality(others) >= MaxOpen THEN others
                      ELSE others \cup {new}
    /\ attempt' = IF attempt[j] # None THEN attempt ELSE
          [attempt EXCEPT ![j] = NewAttempt(content)]
    /\ issued' = issued + 1 /\ calls' = calls + 1
    /\ UNCHANGED <<parts, outcome, caller, reconciler, platform, kills, rounds>>

(* cancel, the end of a session's lifetime *)
CloseSession(s) ==
    /\ sessions' = sessions \ {s}
    /\ UNCHANGED <<durable, issued, caller, reconciler, platform, budget>>

(* A closed session's HTTP client sends nothing any more. *)
Open(c) == \E s \in sessions : s.token = caller[c].session

Retired(c) == {s \in sessions : s.token # caller[c].session}

Goto(c, pc) == caller' = [caller EXCEPT ![c].pc = pc]
Finish(c) == caller' = [caller EXCEPT ![c] = Idle]

Uploading(j) == \E c \in Callers : /\ caller[c].job = j
                                   /\ caller[c].pc \in {"plan", "init", "token",
                                        "part", "record", "small", "uploaded"}

-----------------------------------------------------------------------------
(* upload_video: the record as loaded decides, the completed parts are read *)
(* later, and what the upload needs is transferred and recorded one by one. *)

(* Plausible bug: every upload asks for a token of its own. *)
UploadBeginAfresh(c, s) ==
    /\ Starts(c) /\ Phase(s.job) = "prepared"
    /\ SerialUploads => ~Uploading(s.job)
    /\ caller' = [caller EXCEPT ![c] = [Idle EXCEPT !.pc = "plan", !.job = s.job,
                     !.session = s.token]]
    /\ UNCHANGED <<durable, sessions, issued, reconciler, platform, kills, rounds>>

UploadBegin(c, s) ==
    /\ Starts(c) /\ Phase(s.job) = "prepared"
    /\ SerialUploads => ~Uploading(s.job)
    /\ caller' = [caller EXCEPT ![c] = [Idle EXCEPT !.pc = "plan", !.job = s.job,
                     !.session = s.token, !.token = attempt[s.job].token]]
    /\ UNCHANGED <<durable, sessions, issued, reconciler, platform, kills, rounds>>

Continue(c, token) ==
    IF token = None THEN "init" ELSE IF PartsOf[caller[c].job] = 0 THEN "small" ELSE "part"

UploadPlan(c) ==
    /\ caller[c].pc = "plan"
    /\ LET j == caller[c].job
       IN caller' = [caller EXCEPT ![c].todo = (1..PartsOf[j]) \ parts[j],
                                   ![c].pc = Continue(c, caller[c].token)]
    /\ UNCHANGED <<durable, sessions, issued, reconciler, platform, budget>>

InitializeUpload(c) ==
    /\ caller[c].pc = "init" /\ Open(c) /\ Len(uploads) < MaxTokens
    /\ uploads' = Append(uploads, {})
    /\ caller' = [caller EXCEPT ![c].token = Len(uploads) + 1, ![c].pc = "token"]
    /\ UNCHANGED <<durable, sessions, issued, reconciler, requests, answers, archives, budget>>

RecordUploadToken(c) ==
    LET j == caller[c].job IN
    /\ caller[c].pc = "token"
    /\ IF Phase(j) = "prepared"
       THEN /\ attempt' = [attempt EXCEPT ![j].token = caller[c].token]
            /\ Goto(c, Continue(c, caller[c].token))
       ELSE UNCHANGED attempt /\ Finish(c)
    /\ UNCHANGED <<parts, outcome, sessions, issued, reconciler, platform, budget>>

NextPart(c) == CHOOSE p \in caller[c].todo : \A q \in caller[c].todo : p <= q

UploadPart(c) ==
    /\ caller[c].pc = "part" /\ Open(c) /\ caller[c].todo # {}
    /\ uploads' = [uploads EXCEPT ![caller[c].token] = @ \cup {NextPart(c)}]
    /\ Goto(c, "record")
    /\ UNCHANGED <<durable, sessions, issued, reconciler, requests, answers, archives, budget>>

RecordPartCompleted(c) ==
    LET j == caller[c].job IN
    /\ caller[c].pc = "record"
    /\ IF Phase(j) = "prepared"
       THEN /\ parts' = [parts EXCEPT ![j] = @ \cup {NextPart(c)}]
            /\ caller' = [caller EXCEPT ![c].todo = @ \ {NextPart(c)}, ![c].pc = "part"]
       ELSE UNCHANGED parts /\ Finish(c)
    /\ UNCHANGED <<attempt, outcome, sessions, issued, reconciler, platform, budget>>

(* The whole of a small file goes in one transfer, part 1 of its upload.    *)
UploadSmallFile(c) ==
    /\ caller[c].pc = "small" /\ Open(c)
    /\ uploads' = [uploads EXCEPT ![caller[c].token] = {1}]
    /\ Goto(c, "uploaded")
    /\ UNCHANGED <<durable, sessions, issued, reconciler, requests, answers, archives, budget>>

CompleteUpload(c) ==
    /\ caller[c].pc = "part" /\ Open(c) /\ caller[c].todo = {}
    /\ Goto(c, "uploaded")
    /\ UNCHANGED <<durable, sessions, issued, reconciler, platform, budget>>

RecordVideoUploaded(c) ==
    LET j == caller[c].job IN
    /\ caller[c].pc = "uploaded"
    /\ attempt' = IF Phase(j) = "prepared" /\ attempt[j].token # None
                  THEN [attempt EXCEPT ![j].phase = "video_uploaded"] ELSE attempt
    /\ Finish(c)
    /\ UNCHANGED <<parts, outcome, sessions, issued, reconciler, platform, budget>>

(* The material differs, the platform refuses or does not answer, or the    *)
(* store fails: upload_video raises, keeping what it has recorded.          *)
UploadFails(c) ==
    /\ caller[c].pc \in {"plan", "init", "token", "part", "record", "small", "uploaded"}
    /\ Finish(c)
    /\ UNCHANGED <<durable, sessions, issued, reconciler, platform, budget>>

UploadCover(j) ==
    /\ j \in CoverJobs /\ Phase(j) \in {"prepared", "video_uploaded"}
    /\ ~attempt[j].cover
    /\ attempt' = [attempt EXCEPT ![j].cover = TRUE]
    /\ UNCHANGED <<parts, outcome, runtime, reconciler, platform, budget>>

-----------------------------------------------------------------------------
(* submit: create_archive under its single admission, then the pending      *)
(* reconciliation; the session is retired however the call ends.            *)

Submittable(j) ==
    /\ Phase(j) = "video_uploaded" /\ attempt[j].token # None
    /\ j \in CoverJobs => attempt[j].cover

SubmitBegin(c, s) ==
    /\ Starts(c) /\ attempt[s.job] # None
    /\ LET next == IF Phase(s.job) \in {"submitted", "dispatched"} THEN "conclude"
                   ELSE IF Submittable(s.job) THEN "admit" ELSE "retire"
       IN caller' = [caller EXCEPT ![c] = [Idle EXCEPT !.pc = next, !.job = s.job,
                        !.session = s.token, !.token = attempt[s.job].token]]
    /\ UNCHANGED <<durable, sessions, issued, reconciler, platform, kills, rounds>>

(* Plausible bug: what is not known to have been created is created again. *)
AdmittedAgain(j) == Phase(j) \in {"video_uploaded", "dispatched", "outcome_uncertain"}

Admitted(j) == Phase(j) = "video_uploaded"

BeginArchiveCreation(c) ==
    LET j == caller[c].job IN
    /\ caller[c].pc = "admit"
    /\ IF Admitted(j)
       THEN attempt' = [attempt EXCEPT ![j].phase = "dispatched"] /\ Goto(c, "send")
       ELSE /\ UNCHANGED attempt
            /\ Goto(c, IF Phase(j) = "submitted" THEN "conclude" ELSE "retire")
    /\ UNCHANGED <<parts, outcome, sessions, issued, reconciler, platform, budget>>

(* The access token cannot be had: the call ends before the admission.      *)
TokenUnavailable(c) ==
    /\ caller[c].pc = "admit" /\ Goto(c, "retire")
    /\ UNCHANGED <<durable, sessions, issued, reconciler, platform, budget>>

SendArchiveAdd(c) ==
    /\ caller[c].pc = "send" /\ Open(c)
    /\ requests' = requests \cup {[job |-> caller[c].job, token |-> caller[c].token]}
    /\ Goto(c, "await")
    /\ UNCHANGED <<durable, sessions, issued, reconciler, uploads, answers, archives, budget>>

ReceiveAnswer(c) ==
    /\ caller[c].pc = "await" /\ answers[caller[c].job] # None
    /\ caller' = [caller EXCEPT ![c].answer = answers[caller[c].job], ![c].pc = "settle"]
    /\ UNCHANGED <<durable, sessions, issued, reconciler, platform, budget>>

(* Nothing was sent, or no answer came, or not one that can be parsed.      *)
AnswerLost(c) ==
    /\ caller[c].pc \in {"send", "await"}
    /\ caller' = [caller EXCEPT ![c].answer = Answer("lost", None), ![c].pc = "settle"]
    /\ UNCHANGED <<durable, sessions, issued, reconciler, platform, budget>>

SettlePhase(j, answer) ==
    [attempt EXCEPT ![j].phase = CASE answer.kind = "lost" -> "outcome_uncertain"
                                   [] answer.kind = "refused" -> "failed"
                                   [] answer.kind = "created" -> "submitted",
                    ![j].resource = answer.id]

SettleCreation(c) ==
    LET j == caller[c].job IN
    /\ caller[c].pc = "settle"
    /\ IF Phase(j) = "dispatched"
       THEN attempt' = SettlePhase(j, caller[c].answer) /\ Goto(c, "conclude")
       ELSE UNCHANGED attempt /\ Goto(c, "retire")
    /\ UNCHANGED <<parts, outcome, sessions, issued, reconciler, platform, budget>>

Pending(resource) == [result |-> "pending", resource |-> resource]

EnsurePending(j, resource) ==
    outcome' = IF outcome[j] # None THEN outcome
               ELSE [outcome EXCEPT ![j] = Pending(resource)]

Conclude(c) ==
    LET j == caller[c].job IN
    /\ caller[c].pc = "conclude"
    /\ IF Phase(j) \in Reconcilable THEN EnsurePending(j, attempt[j].resource)
                                    ELSE UNCHANGED outcome
    /\ sessions' = Retired(c) /\ Finish(c)
    /\ UNCHANGED <<attempt, parts, issued, reconciler, platform, budget>>

RetireSession(c) ==
    /\ caller[c].pc = "retire"
    /\ sessions' = Retired(c) /\ Finish(c)
    /\ UNCHANGED <<durable, issued, reconciler, platform, budget>>

-----------------------------------------------------------------------------
(* The platform (external): it carries out or refuses a creation request it *)
(* has received, and reviews the archives.                                  *)

CarryOut(r) ==
    /\ requests' = requests \ {r}
    /\ LET id == Len(archives) + 1
       IN /\ archives' = <<Archive(id, attempt[r.job].content.title, r.job,
                                   r.token, TRUE)>> \o archives
          /\ answers' = [answers EXCEPT ![r.job] = Answer("created", id)]
    /\ UNCHANGED <<durable, runtime, reconciler, uploads, budget>>

Refuse(r) ==
    /\ requests' = requests \ {r}
    /\ answers' = [answers EXCEPT ![r.job] = Answer("refused", None)]
    /\ UNCHANGED <<durable, runtime, reconciler, uploads, archives, budget>>

Review(n) ==
    /\ archives[n].state = "review" /\ archives[n].job # None
    /\ \E verdict \in {"open", "rejected"} :
          archives' = [archives EXCEPT ![n].state = verdict]
    /\ UNCHANGED <<durable, runtime, reconciler, uploads, requests, answers, budget>>

-----------------------------------------------------------------------------
(* Reconciliation: recover lists what needs it, reconcile_once settles one  *)
(* job, apply_notification settles what a notification names.               *)

Abort == reconciler' = Resting

Fenced(j) == [attempt EXCEPT ![j].phase = "outcome_uncertain"]

RecoverBegin ==
    LET listed == {j \in Jobs : Phase(j) \in Reconcilable} IN
    /\ reconciler.pc = "idle" /\ rounds < MaxRounds /\ listed # {}
    /\ reconciler' = [Resting EXCEPT !.pc = "recover",
          !.queue = LET order == SetToSeq(listed)
                    IN [n \in 1..Len(order) |-> [job |-> order[n],
                          phase |-> Phase(order[n]), resource |-> attempt[order[n]].resource]]]
    /\ rounds' = rounds + 1
    /\ UNCHANGED <<durable, runtime, platform, calls, kills>>

RecoverFence ==
    /\ reconciler.pc = "recover" /\ Head(reconciler.queue).phase = "dispatched"
    /\ LET j == Head(reconciler.queue).job
       IN IF Phase(j) = "dispatched"
          THEN /\ attempt' = Fenced(j)
               /\ reconciler' = [reconciler EXCEPT !.queue[1].phase = "outcome_uncertain"]
          ELSE UNCHANGED attempt /\ Abort
    /\ UNCHANGED <<parts, outcome, runtime, platform, budget>>

RecoverEnsure ==
    /\ reconciler.pc = "recover" /\ Head(reconciler.queue).phase # "dispatched"
    /\ EnsurePending(Head(reconciler.queue).job, Head(reconciler.queue).resource)
    /\ IF Len(reconciler.queue) = 1 THEN Abort
       ELSE reconciler' = [reconciler EXCEPT !.queue = Tail(@)]
    /\ UNCHANGED <<attempt, parts, runtime, platform, budget>>

IsPending(j) == outcome[j] # None /\ outcome[j].result = "pending"

KnownResource(j) ==
    IF outcome[j].resource # None THEN outcome[j].resource ELSE attempt[j].resource

ReconcileBegin(j) ==
    /\ reconciler.pc = "idle" /\ rounds < MaxRounds
    /\ IsPending(j) /\ Phase(j) \in Reconcilable
    /\ reconciler' = [Resting EXCEPT !.job = j, !.resource = KnownResource(j),
          !.pc = IF Phase(j) = "dispatched" THEN "fence"
                 ELSE IF KnownResource(j) = None THEN "list" ELSE "view"]
    /\ rounds' = rounds + 1
    /\ UNCHANGED <<durable, runtime, platform, calls, kills>>

ReconcileFence ==
    /\ reconciler.pc = "fence"
    /\ IF Phase(reconciler.job) = "dispatched"
       THEN /\ attempt' = Fenced(reconciler.job)
            /\ reconciler' = [reconciler EXCEPT !.pc = IF reconciler.resource = None
                                               THEN "list" ELSE "view"]
       ELSE UNCHANGED attempt /\ Abort
    /\ UNCHANGED <<parts, outcome, runtime, platform, budget>>

IsCandidate(j, item) ==
    item.title = attempt[j].content.title /\ item.recent

PageItems(n) ==
    SubSeq(archives, (n - 1) * PageSize + 1,
           IF n * PageSize < Len(archives) THEN n * PageSize ELSE Len(archives))

(* The listing is complete: nothing is a candidate, one is, or several are. *)
Located(found) ==
    CASE found = {} -> [reconciler EXCEPT !.pc = "absent"]
      [] Cardinality(found) = 1 ->
            [reconciler EXCEPT !.pc = "adopt", !.resource = CHOOSE id \in found : TRUE]
      [] OTHER -> Resting

ListPage ==
    LET items == PageItems(reconciler.page)
        total == IF reconciler.total = None THEN Len(archives) ELSE reconciler.total
        seen == reconciler.seen + Len(items)
        found == reconciler.found \cup {items[n].id : n \in {m \in 1..Len(items) :
                                                   IsCandidate(reconciler.job, items[m])}}
    IN
    /\ reconciler.pc = "list"
    /\ reconciler' =
          IF reconciler.page > MaxPages \/ total # Len(archives) THEN Resting
          ELSE IF seen < total /\ items # <<>>
          THEN [reconciler EXCEPT !.page = @ + 1, !.total = total, !.seen = seen, !.found = found]
          ELSE IF seen < total THEN Resting
          ELSE Located(found)
    /\ UNCHANGED <<durable, runtime, platform, budget>>

AdoptResourceId ==
    LET j == reconciler.job IN
    /\ reconciler.pc = "adopt"
    /\ IF IsPending(j) /\ outcome[j].resource = None
       THEN /\ outcome' = [outcome EXCEPT ![j].resource = reconciler.resource]
            /\ reconciler' = [reconciler EXCEPT !.pc = "view"]
       ELSE UNCHANGED outcome /\ Abort
    /\ UNCHANGED <<attempt, parts, runtime, platform, budget>>

QueryView ==
    /\ reconciler.pc = "view"
    /\ \E n \in 1..Len(archives) :
          /\ archives[n].id = reconciler.resource
          /\ reconciler' = [reconciler EXCEPT !.pc = "settle", !.state = archives[n].state]
    /\ UNCHANGED <<durable, runtime, platform, budget>>

(* Rate limited, unreachable, refused or ambiguous: the job stays pending.  *)
QuerySetback ==
    /\ reconciler.pc \in {"list", "view"} /\ Abort
    /\ UNCHANGED <<durable, runtime, platform, budget>>

(* settle is a conditional update of a pending row; the table's check wants *)
(* a resource of everything published or rejected.                          *)
Settles(j, result) ==
    IsPending(j) /\ (result \in {"published", "rejected"} => outcome[j].resource # None)

Settled(j, result) ==
    IF Settles(j, result) THEN [outcome EXCEPT ![j].result = result] ELSE outcome

VerdictOf(state) == IF state = "open" THEN "published" ELSE "rejected"

SettleView ==
    /\ reconciler.pc = "settle" /\ Abort
    /\ outcome' = IF reconciler.state = "review" THEN outcome
                  ELSE Settled(reconciler.job, VerdictOf(reconciler.state))
    /\ UNCHANGED <<attempt, parts, runtime, platform, budget>>

SettleAbsent ==
    /\ reconciler.pc = "absent" /\ Abort
    /\ outcome' = Settled(reconciler.job, "failed")
    /\ UNCHANGED <<attempt, parts, runtime, platform, budget>>

RowsOf(id) == {j \in Jobs : outcome[j] # None /\ outcome[j].resource = id}

ApplyNotification(n) ==
    /\ archives[n].state # "review"
    /\ \E j \in Jobs : /\ RowsOf(archives[n].id) = {j} /\ IsPending(j)
                       /\ outcome' = Settled(j, VerdictOf(archives[n].state))
    /\ UNCHANGED <<attempt, parts, runtime, reconciler, platform, budget>>

-----------------------------------------------------------------------------
(* The process is killed and started again; the platform keeps what it got. *)
Kill ==
    /\ kills < MaxKills /\ kills' = kills + 1
    /\ caller' = [c \in Callers |-> Idle]
    /\ sessions' = {} /\ reconciler' = Resting
    /\ UNCHANGED <<durable, issued, platform, calls, rounds>>

Publishing ==
    \/ \E i \in Installations, j \in Jobs : \E ct \in ContentsOf[j] : Prepare(i, j, ct)
    \/ \E s \in sessions : CloseSession(s)
    \/ \E c \in Callers, s \in sessions : UploadBegin(c, s) \/ SubmitBegin(c, s)
    \/ \E c \in Callers : \/ UploadPlan(c) \/ InitializeUpload(c) \/ RecordUploadToken(c)
                          \/ UploadPart(c) \/ RecordPartCompleted(c) \/ UploadSmallFile(c)
                          \/ CompleteUpload(c) \/ RecordVideoUploaded(c) \/ UploadFails(c)
                          \/ BeginArchiveCreation(c) \/ TokenUnavailable(c)
                          \/ SendArchiveAdd(c) \/ ReceiveAnswer(c) \/ AnswerLost(c)
                          \/ SettleCreation(c) \/ Conclude(c) \/ RetireSession(c)
    \/ \E j \in Jobs : UploadCover(j)

Platform ==
    \/ \E r \in requests : CarryOut(r) \/ Refuse(r)
    \/ \E n \in 1..Len(archives) : Review(n)

Reconciliation ==
    \/ RecoverBegin \/ RecoverFence \/ RecoverEnsure
    \/ \E j \in Jobs : ReconcileBegin(j)
    \/ ReconcileFence \/ ListPage \/ AdoptResourceId \/ QueryView \/ QuerySetback
    \/ SettleView \/ SettleAbsent
    \/ \E n \in 1..Len(archives) : ApplyNotification(n)

Next == Publishing \/ Platform \/ Reconciliation \/ Kill

Spec == Init /\ [][Next]_vars

-----------------------------------------------------------------------------
(* A job's video is created on the platform at most once, whatever requests *)
(* are repeated or overlap, whatever is lost, and wherever the process is   *)
(* killed: creation is admitted once (begin_archive_creation) and no path   *)
(* of the reconciliation sends it again.                                    *)
ArchivedOnce ==
    \A m, n \in 1..Len(archives) :
        archives[m].job # None /\ archives[m].job = archives[n].job => m = n

(* An archive the platform creates is made of an upload that received every *)
(* part of the video: the parts recorded as completed were sent under the   *)
(* very upload token that create_archive submits, across failed uploads,    *)
(* retries, replaced sessions and kills.                                    *)
ArchiveIsWhole ==
    \A n \in 1..Len(archives) : archives[n].job # None =>
        LET needed == IF PartsOf[archives[n].job] = 0 THEN 1 ELSE PartsOf[archives[n].job]
        IN uploads[archives[n].token] = 1..needed

(* A job settled as failed has no archive: reconciliation enumerates the    *)
(* account's archives "to decide whether the archive actually exists".      *)
FailedIsAbsent ==
    \A j \in Jobs : outcome[j] # None /\ outcome[j].result = "failed" =>
        \A n \in 1..Len(archives) : archives[n].job # j

=============================================================================
