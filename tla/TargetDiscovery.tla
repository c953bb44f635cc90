--------------------------- MODULE TargetDiscovery ---------------------------
(***************************************************************************)
(* Target discovery and confirmation of one task.                           *)
(*                                                                          *)
(* The control plane starts a discovery attempt; the executor searches the  *)
(* platform, extracts candidates and leaves an acceptance, the candidate    *)
(* batches and a completion in its outbox, which is resent from the oldest  *)
(* unexpired row on every connection.  The control plane collects batches   *)
(* in memory and persists targets with the completion.  A person reads the  *)
(* targets page by page, excludes some and confirms the rest, and execution *)
(* starts from what was confirmed.                                          *)
(*                                                                          *)
(* Handlers are split where the code awaits the database; a replaced        *)
(* connection finishes the frame it is in.  Reads are READ COMMITTED: the   *)
(* task row and the targets of one page are separate reads.  Replayed       *)
(* requests change nothing and are left out, and so is the platform session *)
(* that starting also requires: that only allows more starts.               *)
(***************************************************************************)
EXTENDS Integers, Sequences, FiniteSets, SequencesExt

CONSTANTS
    Accounts,           \* platform accounts a search may show
    Blacklist,          \* accounts never to be targeted
    Recent,             \* accounts other tasks evaluated within the history window
    None,
    MaxAttempts,        \* bound on the attempts of the task
    SearchPages,        \* result pages: for each row the accounts owning its links
    TargetLimit,        \* the task's target limit
    BatchSize,          \* MAX_DISCOVERY_BATCH_CANDIDATES
    PageSize,           \* targets on a preview page
    MaxConnections,     \* bound on executor connections
    MaxRequests,        \* bound on selection and confirmation requests
    MaxEvents,          \* bound on attempts, connections and requests together
    MaxAccumulated      \* attempts the batch accumulator may hold

ASSUME DiscoveryAssumption ==
    /\ IsFiniteSet(Accounts) /\ Blacklist \subseteq Accounts /\ Recent \subseteq Accounts
    /\ {MaxAttempts, MaxConnections, MaxRequests, MaxEvents} \subseteq Nat
    /\ {TargetLimit, BatchSize, PageSize, MaxAccumulated} \subseteq Nat \ {0}
    /\ SearchPages \subseteq Seq(SUBSET Accounts)
    /\ None \notin Accounts
    /\ None \notin [outcome : {"completed", "login_required", "handoff_required", "failed"},
                    items : Seq(Accounts)]

VARIABLES
    \* the control plane's database
    task,           \* status, revision and current attempt (0: none)
    attempts,       \* execution_attempts in order of attempt_number
    targets,        \* task_targets in order of ordinal
    page,           \* their page revision
    excluded,       \* task_target_exclusions
    confirmation,   \* task_target_confirmations
    \* the control plane's memory
    accumulator,    \* TaskDiscoveryBatchAccumulator
    handler,        \* the frame each connection is handling
    \* the executor
    found,          \* the discovery result of an attempt, written with its rows
    outbox,         \* rows of the executor's outbox that have not expired
    link,           \* rows on the current connection
    connection,     \* its number
    \* the person's client
    view,           \* the pages read so far, with the task row of the next
    requests,       \* requests on their way
    sent            \* how many were sent

database == <<task, attempts, targets, page, excluded, confirmation>>
wire == <<accumulator, handler, link, connection>>
executor == <<found, outbox>>
client == <<view, requests, sent>>
discoveryVars == <<task, attempts, targets, page, excluded, confirmation,
                   accumulator, handler, found, outbox, link, connection, view, requests,
                   sent>>

-----------------------------------------------------------------------------
(* Data *)

Ended == {"succeeded", "failed"}
Active == {"offered", "accepted", "running"}
Startable == {"draft", "awaiting_platform_login", "awaiting_human", "awaiting_confirmation"}

(* A row yields a candidate when exactly one account owns its links.         *)
CandidateOf(row) == IF Cardinality(row) = 1 THEN CHOOSE a \in row : TRUE ELSE None

(* The rows whose candidates are kept: those that yield one, up to the limit. *)
Kept(rows) ==
    LET yielding == {i \in DOMAIN rows : CandidateOf(rows[i]) # None}
    IN {i \in yielding : Cardinality({j \in yielding : j < i}) < TargetLimit}

(* Their candidates in page order: a set of one sequence.                    *)
Extract(rows) ==
    {[n \in DOMAIN p |-> CandidateOf(rows[p[n]])] :
        p \in {q \in [1..Cardinality(Kept(rows)) -> Kept(rows)] :
                 \A m, n \in DOMAIN q : m < n => q[m] < q[n]}}

(* How a run's search ends: it does not start without a healthy local        *)
(* session, times out or fails, meets a page no skill knows, or finds rows.  *)
SearchFailures == {"not_logged_in", "page_version_unknown", "unavailable"}

(* What a discovery run reports: no healthy local session asks for a login,  *)
(* an unknown page for a person, and everything else that is not a candidate *)
(* is a failure.                                                             *)
Discovered(search, items) ==
    CASE search = "not_logged_in" -> [outcome |-> "login_required", items |-> <<>>]
      [] search = "page_version_unknown" -> [outcome |-> "handoff_required", items |-> <<>>]
      [] search = "unavailable" -> [outcome |-> "failed", items |-> <<>>]
      [] search = "results_ready" ->
            [outcome |-> IF items = <<>> THEN "failed" ELSE "completed", items |-> items]

(* An account met twice is eligible the first time only.                     *)
Disposition(items, i) ==
    CASE items[i] \in Blacklist -> "blacklisted"
      [] items[i] \notin Blacklist /\ \E j \in 1..(i - 1) : items[j] = items[i] ->
            "duplicate_in_task"
      [] items[i] \notin Blacklist /\ (\A j \in 1..(i - 1) : items[j] # items[i]) ->
            IF items[i] \in Recent THEN "duplicate_in_history" ELSE "eligible"

Evaluated(items) ==
    [i \in DOMAIN items |-> [account |-> items[i], disposition |-> Disposition(items, i)]]

(* The rows of a result: its acceptance, its batches and its completion.     *)
BatchCount(result) == (Len(result.items) + BatchSize - 1) \div BatchSize
Batch(result, n) ==
    SubSeq(result.items, (n - 1) * BatchSize + 1,
           IF n * BatchSize < Len(result.items) THEN n * BatchSize ELSE Len(result.items))
RowsOf(a, result) ==
    <<[type |-> "accept", attempt |-> a]>>
        \o [n \in 1..BatchCount(result) |->
              [type |-> "batch", attempt |-> a, index |-> n, count |-> BatchCount(result),
               items |-> Batch(result, n)]]
        \o <<[type |-> "completed", attempt |-> a, outcome |-> result.outcome,
              count |-> BatchCount(result), total |-> Len(result.items)]>>

DiscoveryInit ==
    /\ task = [status |-> "draft", revision |-> 1, current |-> 0]
    /\ attempts = <<>>
    /\ targets = <<>> /\ page = 0 /\ excluded = {} /\ confirmation = None
    /\ accumulator = [a \in {} |-> None]
    /\ handler = [c \in 1..MaxConnections |-> None]
    /\ found = [a \in 1..MaxAttempts |-> None]
    /\ outbox = <<>> /\ link = <<>> /\ connection = 0
    /\ view = None /\ requests = {} /\ sent = 0

Within == Len(attempts) + connection + sent < MaxEvents

-----------------------------------------------------------------------------
(* Starting attempts *)

(* Mutant: only a running attempt keeps the installation busy.               *)
BusyWhileRunning == \E a \in DOMAIN attempts : attempts[a].status \in Active

(* Any attempt of the installation that has not ended keeps it busy.         *)
InstallationBusy == \E a \in DOMAIN attempts : attempts[a].status \notin Ended

Offered(kind) == Append(attempts, [kind |-> kind, status |-> "offered"])

StartDiscovery ==
    /\ ~InstallationBusy
    /\ task.status \in Startable
    /\ Len(attempts) < MaxAttempts /\ Within
    /\ attempts' = Offered("discovery")
    /\ task' = [status |-> "discovering_targets", revision |-> task.revision + 1,
                current |-> Len(attempts) + 1]
    /\ UNCHANGED <<targets, page, excluded, confirmation, wire, executor,
                   client>>

(* Execution of a confirmed task, up to a hand-over or its end.              *)
StartExecution ==
    /\ task.status = "queued" /\ task.current = 0
    /\ Len(attempts) < MaxAttempts /\ Within
    /\ attempts' = Append(attempts, [kind |-> "execution", status |-> "running"])
    /\ task' = [status |-> "running", revision |-> task.revision + 1,
                current |-> Len(attempts) + 1]
    /\ UNCHANGED <<targets, page, excluded, confirmation, wire, executor,
                   client>>

ExecutionHandsOver ==
    /\ task.status = "running"
    /\ task' = [task EXCEPT !.status = "awaiting_human", !.revision = @ + 1]
    /\ attempts' = [attempts EXCEPT ![task.current].status = "awaiting_human"]
    /\ UNCHANGED <<targets, page, excluded, confirmation, wire, executor,
                   client>>

-----------------------------------------------------------------------------
(* The executor *)

Connected == connection > 0 /\ link # None

(* A new connection resends every unexpired row, oldest first.               *)
Connect ==
    /\ connection < MaxConnections /\ Within
    /\ connection' = connection + 1
    /\ link' = outbox
    /\ UNCHANGED <<database, accumulator, handler, executor, client>>

(* The rows of a run are committed together; a run cut short before that is  *)
(* repeated when the command is delivered again.                             *)
RunDiscovery(a, search, rows) ==
    /\ Connected
    /\ a = task.current /\ attempts[a].kind = "discovery" /\ attempts[a].status = "offered"
    /\ found[a] = None
    /\ \E items \in Extract(rows) :
         LET result == Discovered(search, items) IN
         /\ found' = [found EXCEPT ![a] = result]
         /\ outbox' = outbox \o RowsOf(a, result)
         /\ link' = link \o RowsOf(a, result)
    /\ UNCHANGED <<database, accumulator, handler, connection, client>>

(* The oldest row passes its deadline.                                       *)
ExpireRow ==
    /\ outbox # <<>>
    /\ outbox' = Tail(outbox)
    /\ UNCHANGED <<database, wire, found, client>>

-----------------------------------------------------------------------------
(* The control plane's connection handlers *)

Handling(c) == handler[c] # None
Idle(c) == [handler EXCEPT ![c] = None]

(* A rejected frame closes its connection; only the current one has a link.  *)
Closed(c) == IF c = connection THEN None ELSE link
Rejected(c) == handler' = Idle(c) /\ link' = Closed(c)

(* A frame counts until its row's deadline.                                  *)
InTime(frame) == \E i \in DOMAIN outbox : outbox[i] = frame

(* The current connection's handler takes the next frame.                    *)
Frame == Head(link)
Receives(type) ==
    /\ Connected /\ link # <<>> /\ ~Handling(connection)
    /\ Frame.type = type

HandleNext(step, items) ==
    /\ handler' = [handler EXCEPT ![connection] =
                      [frame |-> Frame, step |-> step, items |-> items]]
    /\ link' = Tail(link)
RejectNext == link' = None /\ UNCHANGED handler

(* The acceptance acknowledges the command; a repeated one changes nothing.  *)
Accept ==
    /\ Receives("accept")
    /\ attempts' = IF attempts[Frame.attempt].status = "offered"
                     THEN [attempts EXCEPT ![Frame.attempt].status = "accepted"] ELSE attempts
    /\ link' = Tail(link)
    /\ UNCHANGED <<task, targets, page, excluded, confirmation, accumulator, handler,
                   connection, executor, client>>

(* Only an acknowledged command's attempt takes results.                     *)
ActiveAttempt(a) ==
    /\ task.current = a /\ task.status = "discovering_targets"
    /\ attempts[a].status \in Active \ {"offered"}

PersistedItems == [i \in DOMAIN targets |-> targets[i].account]

(* A batch that comes again after its discovery completed has to repeat what *)
(* was persisted.                                                            *)
CompletedReplay(frame) ==
    /\ task.current = frame.attempt /\ task.status = "awaiting_confirmation"
    /\ attempts[frame.attempt].status = "succeeded"
    /\ page = frame.attempt
    /\ SubSeq(PersistedItems, (frame.index - 1) * BatchSize + 1,
              (frame.index - 1) * BatchSize + Len(frame.items)) = frame.items

AuthorizeBatch ==
    /\ Receives("batch")
    /\ IF InTime(Frame) /\ (ActiveAttempt(Frame.attempt) \/ CompletedReplay(Frame))
         THEN HandleNext("authorized", <<>>)
         ELSE RejectNext
    /\ UNCHANGED <<database, accumulator, connection, executor, client>>

Accumulated(a) == IF a \in DOMAIN accumulator THEN accumulator[a] ELSE <<>>

(* The next batch of the attempt.                                            *)
Addable(frame, state) == frame.index = Len(state) + 1

AddBatch(c) ==
    /\ Handling(c) /\ handler[c].step = "authorized"
    /\ LET frame == handler[c].frame
           state == Accumulated(frame.attempt)
       IN \/ /\ frame.index \in DOMAIN state
             /\ IF state[frame.index] = frame THEN handler' = Idle(c) /\ UNCHANGED link
                ELSE Rejected(c)
             /\ UNCHANGED accumulator
          \/ /\ frame.index \notin DOMAIN state
             /\ IF /\ Addable(frame, state)
                   /\ frame.attempt \in DOMAIN accumulator
                        \/ Cardinality(DOMAIN accumulator) < MaxAccumulated
                   /\ state # <<>> => state[1].count = frame.count
                  THEN /\ accumulator' = [a \in DOMAIN accumulator \cup {frame.attempt} |->
                                            IF a = frame.attempt THEN Append(state, frame)
                                            ELSE accumulator[a]]
                       /\ handler' = Idle(c) /\ UNCHANGED link
                  ELSE Rejected(c) /\ UNCHANGED accumulator
    /\ UNCHANGED <<database, connection, executor, client>>

(* Mutant: the batches that came are taken for all of them.                  *)
WholeUnlessEmpty(frame, state) ==
    IF frame.outcome = "completed" THEN state # <<>> ELSE state = <<>>

Items(state) == FlattenSeq([n \in DOMAIN state |-> state[n].items])

(* A completion needs all of its batches, any other outcome none.            *)
Whole(frame, state) ==
    IF frame.outcome = "completed"
      THEN /\ state # <<>> /\ state[1].count = frame.count
           /\ Len(state) = frame.count /\ Len(Items(state)) = frame.total
      ELSE state = <<>>

TakeCompleted ==
    /\ Receives("completed")
    /\ LET state == Accumulated(Frame.attempt) IN
         IF InTime(Frame) /\ Whole(Frame, state) THEN HandleNext("taken", Items(state))
         ELSE RejectNext
    /\ UNCHANGED <<database, accumulator, connection, executor, client>>

OutcomeStatus ==
    [completed |-> "awaiting_confirmation", login_required |-> "awaiting_platform_login",
     handoff_required |-> "awaiting_human", failed |-> "failed"]
EndStatus(outcome) == IF outcome = "completed" THEN "succeeded" ELSE "failed"

(* A completion that was converged before changes nothing and has to find    *)
(* the task still where it left it.                                          *)
FinalReplay(frame, items) ==
    /\ task.current = frame.attempt /\ task.status = OutcomeStatus[frame.outcome]
    /\ attempts[frame.attempt].status = EndStatus(frame.outcome)
    /\ frame.outcome = "completed" => page = frame.attempt /\ PersistedItems = items

(* New targets replace the old ones with their exclusions and confirmation,  *)
(* and only under a later page revision.                                     *)
ReplaceTargets(a, items) ==
    /\ targets' = Evaluated(items) /\ page' = a
    /\ excluded' = {} /\ confirmation' = None

Converge(c) ==
    /\ Handling(c) /\ handler[c].step = "taken"
    /\ LET frame == handler[c].frame
           a == frame.attempt
           proceed == [handler EXCEPT ![c].step = "converged"]
       IN \/ /\ attempts[a].status \in Ended
             /\ IF FinalReplay(frame, handler[c].items)
                  THEN handler' = proceed /\ UNCHANGED link ELSE Rejected(c)
             /\ UNCHANGED <<task, attempts, targets, page, excluded, confirmation>>
          \/ /\ attempts[a].status \notin Ended
             /\ ActiveAttempt(a) /\ (frame.outcome = "completed" => a > page)
             /\ IF frame.outcome = "completed" THEN ReplaceTargets(a, handler[c].items)
                ELSE UNCHANGED <<targets, page, excluded, confirmation>>
             /\ task' = [task EXCEPT !.status = OutcomeStatus[frame.outcome],
                                     !.revision = @ + 1]
             /\ attempts' = [attempts EXCEPT ![a].status = EndStatus(frame.outcome)]
             /\ handler' = proceed /\ UNCHANGED link
          \/ /\ attempts[a].status \notin Ended /\ ~ActiveAttempt(a)
             /\ Rejected(c)
             /\ UNCHANGED <<task, attempts, targets, page, excluded, confirmation>>
    /\ UNCHANGED <<accumulator, connection, executor, client>>

ClearAccumulator(c) ==
    /\ Handling(c) /\ handler[c].step = "converged"
    /\ accumulator' = [a \in DOMAIN accumulator \ {handler[c].frame.attempt} |-> accumulator[a]]
    /\ handler' = Idle(c)
    /\ UNCHANGED <<database, link, connection, executor, client>>

(* The control plane restarts and forgets.  A connection that only drops is  *)
(* one whose frames are not received any more.                               *)
Restart ==
    /\ connection > 0
    /\ link' = None
    /\ accumulator' = [a \in {} |-> None]
    /\ handler' = [c \in 1..MaxConnections |-> None]
    /\ UNCHANGED <<database, connection, executor, client>>

-----------------------------------------------------------------------------
(* Reading, selecting and confirming *)

Id(i) == <<page, i, targets[i].account>>
SelectedAmong(ordinals) ==
    {Id(i) : i \in {j \in ordinals : targets[j].disposition = "eligible"
                                       /\ Id(j) \notin excluded}}
Selected == SelectedAmong(DOMAIN targets)

(* The task row comes first; a later page insists on the revision of the     *)
(* pages before it.                                                          *)
BeginRead ==
    /\ \/ view = None /\ view' = [step |-> "row", row |-> task, upto |-> 0, page |-> 0,
                                  more |-> TRUE, selected |-> {}]
       \/ /\ view # None /\ view.step = "page" /\ view.more
          /\ view' = IF task.revision = view.row.revision
                       THEN [view EXCEPT !.step = "row", !.row = task] ELSE None
    /\ UNCHANGED <<database, wire, executor, requests, sent>>

(* Without a confirmation the task must have been awaiting one; with one it  *)
(* must have left the statuses before it.                                    *)
Readable ==
    /\ page # 0
    /\ IF confirmation = None THEN view.row.status = "awaiting_confirmation"
       ELSE view.row.status \notin {"draft", "discovering_targets", "awaiting_confirmation"}
    /\ view.upto > 0 => page = view.page

(* A confirmation has to describe what is selected now.                      *)
StillConfirmed == confirmation # None => confirmation.selected = Selected

FinishRead ==
    /\ view # None /\ view.step = "row"
    /\ view' =
         IF ~(Readable /\ StillConfirmed) THEN None
         ELSE LET upto == IF view.upto + PageSize < Len(targets)
                            THEN view.upto + PageSize ELSE Len(targets)
              IN [view EXCEPT !.step = "page", !.page = page, !.upto = upto,
                              !.more = upto < Len(targets),
                              !.selected = @ \cup SelectedAmong((view.upto + 1)..upto)]
    /\ UNCHANGED <<database, wire, executor, requests, sent>>

(* A request names the revision its reader saw; what was seen is kept beside *)
(* it for the properties.                                                    *)
Request(kind, excluding) ==
    [kind |-> kind, expected |-> view.row.revision, page |-> view.page,
     excluding |-> excluding, seen |-> view.selected]

(* A person who has read every page asks to exclude some or to confirm.      *)
Send ==
    /\ view # None /\ view.step = "page" /\ ~view.more
    /\ sent < MaxRequests /\ Within /\ sent' = sent + 1
    /\ \/ \E excluding \in SUBSET view.selected :
            requests' = requests \cup {Request("exclude", excluding)}
       \/ requests' = requests \cup {Request("confirm", {})}
    /\ view' = None
    /\ UNCHANGED <<database, wire, executor>>

(* Mutant: a request is good for any later revision of the same page.        *)
CurrentOrLater(request) ==
    /\ task.status = "awaiting_confirmation"
    /\ task.revision >= request.expected /\ page = request.page

(* The preview the request is about is still the current one.                *)
Current(request) ==
    /\ task.status = "awaiting_confirmation"
    /\ task.revision = request.expected /\ page = request.page

Record(status, current) ==
    task' = [status |-> status, revision |-> task.revision + 1, current |-> current]

Arrives(request, kind) ==
    /\ request.kind = kind
    /\ requests' = requests \ {request}

Eligible == {Id(i) : i \in {j \in DOMAIN targets : targets[j].disposition = "eligible"}}

ReplaceExclusions(request) ==
    /\ Arrives(request, "exclude")
    /\ Current(request) /\ request.excluding \subseteq Eligible
    /\ excluded' = request.excluding
    /\ Record("awaiting_confirmation", task.current)
    /\ UNCHANGED <<attempts, targets, page, confirmation, wire, executor, view, sent>>

Confirm(request) ==
    /\ Arrives(request, "confirm")
    /\ Current(request) /\ Selected # {}
    /\ task.current # 0 => attempts[task.current].status \in Ended
    /\ confirmation' = [selected |-> Selected, seen |-> request.seen, page |-> page]
    /\ Record("queued", 0)
    /\ UNCHANGED <<attempts, targets, page, excluded, wire, executor, view, sent>>

(* A request about anything else is a conflict.                              *)
Refuse(request) ==
    /\ ~Current(request)
    /\ requests' = requests \ {request}
    /\ UNCHANGED <<database, wire, executor, view, sent>>

-----------------------------------------------------------------------------
DiscoveryNext ==
    \/ StartDiscovery \/ StartExecution \/ ExecutionHandsOver
    \/ Connect \/ Restart \/ ExpireRow
    \/ Accept \/ AuthorizeBatch \/ TakeCompleted
    \/ \E a \in DOMAIN attempts, search \in SearchFailures : RunDiscovery(a, search, <<>>)
    \/ \E a \in DOMAIN attempts : \E rows \in SearchPages :
            RunDiscovery(a, "results_ready", rows)
    \/ \E c \in 1..MaxConnections :
            AddBatch(c) \/ Converge(c) \/ ClearAccumulator(c)
    \/ BeginRead \/ FinishRead \/ Send
    \/ \E request \in requests :
            ReplaceExclusions(request) \/ Confirm(request) \/ Refuse(request)

DiscoverySpec == DiscoveryInit /\ [][DiscoveryNext]_discoveryVars

-----------------------------------------------------------------------------
(* Properties *)

(* What a person is asked to confirm is exactly what the current discovery   *)
(* found, in page order, whatever was resent, handled by a replaced          *)
(* connection or forgotten by a restart (TaskDiscoveryBatchAccumulator,      *)
(* converge).                                                                *)
TargetsAreFound ==
    /\ task.status = "awaiting_confirmation" => page = task.current
    /\ page # 0 => found[page].outcome = "completed" /\ PersistedItems = found[page].items

(* A confirmation covers exactly the targets its sender had been shown as    *)
(* selected, although pages are read in steps and requests arrive late       *)
(* (confirm, read_page).                                                     *)
ConfirmedIsSeen == confirmation # None => confirmation.selected = confirmation.seen

(* While an execution of the task has not ended, nothing changes the targets *)
(* and the confirmation it runs from (start, evaluate_and_replace).          *)
ConfirmationStands ==
    [][(\E a \in DOMAIN attempts : attempts[a].kind = "execution" /\ attempts[a].status \notin Ended)
         => UNCHANGED <<targets, excluded, confirmation>>]_discoveryVars
=============================================================================
