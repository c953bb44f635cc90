------------------------ MODULE ExecutorConnections ------------------------
(***************************************************************************)
(* The executor's WebSocket, the registry of the serving connection, and    *)
(* the health of the platform session reported over it.                     *)
(*                                                                          *)
(* The server runs one handler per connection; the registry, under a lock,  *)
(* holds the one that serves.  A handler awaits between its steps, so       *)
(* handlers of one executor interleave: a connection is lost, the executor  *)
(* opens the next, and the server may still read what the old one carried.  *)
(* The executor is one process; the desktop starts it again when it ends.   *)
(* Its ledger holds the epoch of the session (session_revision) and         *)
(* survives; the queue of unsent reports is memory.                         *)
(*                                                                          *)
(* There is one installation, and one clock on the machine, which is not    *)
(* set back: `now' is the time of the latest observation.  Bearers,         *)
(* identities and frames are well formed.  Commands and task events, whose  *)
(* delivery over the connection TaskDispatch models, only show here as a    *)
(* dispatch that fails.                                                     *)
(***************************************************************************)
EXTENDS Integers, Sequences

CONSTANTS
    MaxConnections,   \* bound on connections opened
    MaxReports,       \* bound on observations of the session
    MaxFrames,        \* bound on the frames a connection buffers
    MaxStops          \* bound on server restarts and killed executors

ASSUME ConnectionsAssumption ==
    /\ {MaxConnections, MaxReports, MaxStops} \subseteq Nat
    /\ MaxFrames \in Nat \ {0}

VARIABLES
    handler,    \* by connection: where its handler stands, what it evicts
    serving,    \* _connections: the registered connection, 0 for none
    last,       \* the connection registered last, since the server started
    closed,     \* _closed: the registry was shut down
    wire,       \* by connection: frames the server is not done with
    down,       \* by connection: the close code on its way to the executor
    conn,       \* the connection the executor uses, 0 for none
    opened,     \* connections opened so far
    queue,      \* the pending message, then the local outbox
    epoch,      \* the executor ledger's row of the session
    health,     \* the server's row of the session, and
    updated,    \* its updated_at, as a rank among readings of the clock
    reading,    \* by connection: the report its handler is at
    gate,       \* platform_session_gates
    leaving,    \* a logout was prepared and not yet completed
    now,
    stops

registryVars == <<handler, serving, last, closed>>
executorVars == <<conn, opened, queue, epoch>>
sessionVars == <<health, updated, reading, gate, leaving>>
linkVars == <<handler, serving, last, closed, wire, down, conn, opened, queue, epoch,
              health, updated, reading, gate, leaving, now, stops>>

Conns == 1..MaxConnections

NoSession == [state |-> "none", revision |-> 0, at |-> 0]
NoReading == [received |-> 0, passed |-> FALSE]
NoGate == [revision |-> 0, at |-> 0, behind |-> 0]
Hello == [kind |-> "hello"]
Beat == [kind |-> "heartbeat"]
Health(row) == [kind |-> "health", state |-> row.state, revision |-> row.revision, at |-> row.at]

-----------------------------------------------------------------------------
(* The executor: observations of the session *)

(* The first row is in epoch 1 whatever is asked.                            *)
Revision(advance) == IF epoch = NoSession \/ advance THEN epoch.revision + 1 ELSE epoch.revision

(* record_platform_session: within its epoch an open circuit stays open.     *)
Record(state, advance) ==
    /\ now < MaxReports
    /\ epoch.state = "missing" /\ state = "healthy" => advance
    /\ epoch' = [state |-> state, revision |-> Revision(advance), at |-> now + 1]
    /\ now' = now + 1
    /\ queue' = Append(queue, Health(epoch'))
    /\ UNCHANGED <<registryVars, wire, down, conn, opened, health, updated, reading, gate, stops>>

(* A login or its recheck.  The flow saw the session healthy, or not; the    *)
(* reporter looks at the page again, and may see the other.                  *)
ObserveLogin ==
    /\ \E state \in {"healthy", "missing"}, recovered \in BOOLEAN : Record(state, recovered)
    /\ UNCHANGED leaving

CompleteLogout == leaving /\ leaving' = FALSE /\ Record("missing", TRUE)

-----------------------------------------------------------------------------
(* The executor: the connection *)

Leaves(c) == conn' = 0 /\ down' = [down EXCEPT ![c] = "gone"]

Connect ==
    /\ conn = 0 /\ opened < MaxConnections
    /\ opened' = opened + 1 /\ conn' = opened'
    /\ handler' = [handler EXCEPT ![opened'] = [at |-> "accepted", evicts |-> 0]]
    /\ wire' = [wire EXCEPT ![opened'] = <<Hello>>]
    /\ UNCHANGED <<serving, last, closed, down, queue, epoch, sessionVars, now, stops>>

Sendable == conn # 0 /\ down[conn] = "open" /\ Len(wire[conn]) < MaxFrames

Heartbeat ==
    /\ Sendable /\ Beat \notin {wire[conn][i] : i \in DOMAIN wire[conn]}
    /\ wire' = [wire EXCEPT ![conn] = Append(@, Beat)]
    /\ UNCHANGED <<registryVars, down, executorVars, sessionVars, now, stops>>

(* _send_local_outbox, one message of it.                                    *)
SendReport ==
    /\ Sendable /\ queue # <<>>
    /\ wire' = [wire EXCEPT ![conn] = Append(@, Head(queue))]
    /\ queue' = Tail(queue)
    /\ UNCHANGED <<registryVars, down, conn, opened, epoch, sessionVars, now, stops>>

(* A mutant: the unsent message is put back into the outbox.                 *)
KeptInOutbox(q) == IF q = <<>> THEN q ELSE Append(Tail(q), Head(q))

(* _pending_local_message goes out first on the next connection.             *)
Kept(q) == q

(* The connection breaks without a close frame, maybe under a send; frames   *)
(* on their way arrive or not; the one a handler is at has arrived.          *)
Break ==
    /\ conn # 0 /\ down[conn] = "open"
    /\ \E n \in (IF handler[conn].at = "converge" THEN 1 ELSE 0)..Len(wire[conn]) :
          wire' = [wire EXCEPT ![conn] = SubSeq(@, 1, n)]
    /\ queue' \in {queue, Kept(queue)}
    /\ Leaves(conn)
    /\ UNCHANGED <<registryVars, opened, epoch, sessionVars, now, stops>>

(* The process ends, and its queue with it; the desktop starts another.       *)
Ends == queue' = <<>>

(* _is_recoverable_transport_error: of the close codes only a restart of the *)
(* server lets the process go on.                                            *)
SeeClosed ==
    /\ conn # 0 /\ down[conn] \notin {"open", "gone"}
    /\ IF down[conn] = "restart" THEN UNCHANGED queue ELSE Ends
    /\ Leaves(conn)
    /\ UNCHANGED <<registryVars, wire, opened, epoch, sessionVars, now, stops>>

Kill ==
    /\ stops < MaxStops
    /\ stops' = stops + 1
    /\ Ends
    /\ IF conn = 0 THEN UNCHANGED <<conn, down>> ELSE Leaves(conn)
    /\ UNCHANGED <<registryVars, wire, opened, epoch, sessionVars, now>>

-----------------------------------------------------------------------------
(* The server: handlers and the registry *)

Registered(c) == handler[c].at \in {"evicting", "check", "receive", "converge", "leaving"}

Goes(c, at) == handler' = [handler EXCEPT ![c] = [at |-> at, evicts |-> 0]]

(* A close on a connection already closed is suppressed.                     *)
Closes(c, code) == down' = IF c # 0 /\ down[c] = "open" THEN [down EXCEPT ![c] = code] ELSE down

(* A registered handler returns through its finally, others at once.         *)
Return(c, code) ==
    /\ Goes(c, IF Registered(c) THEN "leaving" ELSE "done")
    /\ Closes(c, code)
    /\ wire' = [wire EXCEPT ![c] = <<>>]
    /\ reading' = [reading EXCEPT ![c] = NoReading]
    /\ UNCHANGED <<serving, last, closed, executorVars, health, updated, gate, leaving, now, stops>>

(* bind_hello and register, in one hold of the lock.                         *)
Register(c) ==
    /\ handler[c].at = "accepted" /\ wire[c] # <<>> /\ ~closed
    /\ serving' = c /\ last' = c
    /\ handler' = [handler EXCEPT ![c] = [at |-> IF serving = 0 THEN "check" ELSE "evicting",
                                          evicts |-> serving]]
    /\ wire' = [wire EXCEPT ![c] = Tail(@)]
    /\ UNCHANGED <<closed, down, executorVars, sessionVars, now, stops>>

RegisterRefused(c) ==
    handler[c].at = "accepted" /\ wire[c] # <<>> /\ closed /\ Return(c, "failed")

NoHello(c) ==
    /\ handler[c].at = "accepted" /\ wire[c] = <<>> /\ down[c] = "gone" /\ Return(c, "failed")

HelloTimeout(c) == handler[c].at = "accepted" /\ Return(c, "hello timeout")

(* After the lock, the previous connection's channel is closed.              *)
Evict(c) ==
    /\ handler[c].at = "evicting"
    /\ Closes(handler[c].evicts, "replaced")
    /\ Goes(c, "check")
    /\ UNCHANGED <<serving, last, closed, wire, executorVars, sessionVars, now, stops>>

(* is_current, then advance and dispatch_current, and on to the receive.     *)
Serve(c) ==
    /\ handler[c].at = "check" /\ serving = c
    /\ Goes(c, "receive")
    /\ UNCHANGED <<serving, last, closed, wire, down, executorVars, sessionVars, now, stops>>

DispatchFails(c) == handler[c].at = "check" /\ serving = c /\ Return(c, "failed")

Stale(c) == handler[c].at = "check" /\ serving # c /\ Return(c, "replaced")

(* The recheck interval passes without a frame.                              *)
ReceiveTimeout(c) ==
    /\ handler[c].at = "receive"
    /\ Goes(c, "check")
    /\ UNCHANGED <<serving, last, closed, wire, down, executorVars, sessionVars, now, stops>>

(* What was buffered is received first, unless the server closed.            *)
Disconnected(c) ==
    /\ handler[c].at = "receive"
    /\ down[c] # "open" /\ (down[c] = "gone" => wire[c] = <<>>)
    /\ Return(c, "failed")

Receives(c, kind) == handler[c].at = "receive" /\ wire[c] # <<>> /\ Head(wire[c]).kind = kind

(* record_heartbeat.                                                         *)
ReceiveBeat(c) ==
    /\ Receives(c, "heartbeat") /\ serving = c
    /\ Goes(c, "check")
    /\ wire' = [wire EXCEPT ![c] = Tail(@)]
    /\ UNCHANGED <<serving, last, closed, down, executorVars, sessionVars, now, stops>>

ReceiveBeatStale(c) == Receives(c, "heartbeat") /\ serving # c /\ Return(c, "replaced")

(* Only the order of the server's readings of the clock counts: the next one *)
(* is not before the stored one or that of a handler that waits for the row, *)
(* and may be after those.                                                   *)
AtRow == {d \in Conns : handler[d].at = "converge"}
Readings ==
    {t \in {updated} \cup {reading[d].received + k : d \in AtRow, k \in {0, 1}} :
        t >= updated /\ \A d \in AtRow : t >= reading[d].received}

(* PlatformSessionHealthService.receive: the clock is read, then converge is *)
(* awaited.  The frame stays at the head of its wire until that is done.     *)
(* `passed' is history: another handler stored a report meanwhile.           *)
ReadReport(c) ==
    /\ Receives(c, "health")
    /\ \E t \in Readings :
          reading' = [reading EXCEPT ![c] = [received |-> t, passed |-> FALSE]]
    /\ Goes(c, "converge")
    /\ UNCHANGED <<serving, last, closed, wire, down, executorVars, health, updated, gate,
                   leaving, now, stops>>

(* Its deadline has passed.                                                  *)
RefuseLate(c) == Receives(c, "health") /\ Return(c, "refused")

(* Times of observation differ, so the same one comes from the same report.  *)
Duplicate(r) == health # NoSession /\ r.revision = health.revision /\ r.at = health.at

(* The rules of converge, in their order.                                    *)
Refusal(r, received) ==
    IF health = NoSession THEN "none"
    ELSE IF r.revision < health.revision THEN "revision_went_backwards"
    ELSE IF r.revision = health.revision /\ r.at < health.at THEN "same_revision_observed_earlier"
    ELSE IF Duplicate(r) THEN "none"
    ELSE IF r.revision = health.revision /\ health.state = "missing" /\ r.state = "healthy"
         THEN "circuit_reopened_without_cause"
    ELSE IF r.revision > health.revision /\ r.at <= health.at
         THEN "newer_revision_observed_no_later"
    ELSE IF received < updated THEN "received_before_last_update"
    ELSE "none"

(* converge: the first row leaves the gate as it is, a duplicate everything. *)
Opens(r) ==
    /\ health # NoSession /\ ~Duplicate(r)
    /\ r.state = "healthy" /\ gate # NoGate /\ r.revision > gate.revision

(* A report is stored, and other handlers that wait for the row are passed.  *)
Store(c, r) ==
    /\ health' = [state |-> r.state, revision |-> r.revision, at |-> r.at]
    /\ updated' = reading[c].received
    /\ reading' = [d \in Conns |->
           IF d = c THEN NoReading
           ELSE IF d \in AtRow THEN [reading[d] EXCEPT !.passed = TRUE]
           ELSE reading[d]]

ReceiveHealth(c) ==
    LET r == Head(wire[c])
    IN /\ handler[c].at = "converge" /\ Refusal(r, reading[c].received) = "none"
       /\ IF Duplicate(r)
            THEN reading' = [reading EXCEPT ![c] = NoReading] /\ UNCHANGED <<health, updated>>
            ELSE Store(c, r)
       /\ gate' = IF Opens(r) THEN NoGate ELSE gate
       /\ wire' = [wire EXCEPT ![c] = Tail(@)]
       /\ Goes(c, "check")
       /\ UNCHANGED <<serving, last, closed, down, executorVars, leaving, now, stops>>

(* Refused by a rule.                                                        *)
RefuseHealth(c) ==
    /\ handler[c].at = "converge" /\ Refusal(Head(wire[c]), reading[c].received) # "none"
    /\ Return(c, "refused")

(* A mutant: whoever is registered is removed.                               *)
AfterUnregisterAny(c) == 0

AfterUnregister(c) == IF serving = c THEN 0 ELSE serving

Leave(c) ==
    /\ handler[c].at = "leaving"
    /\ Goes(c, "done")
    /\ serving' = AfterUnregister(c)
    /\ UNCHANGED <<last, closed, wire, down, executorVars, sessionVars, now, stops>>

-----------------------------------------------------------------------------
(* The server: logout, shutdown, restart *)

(* A mutant: the gate is at the stored revision.                             *)
GateRevisionStored == health.revision

GateRevision == health.revision + 1

(* begin_logout; behind: how far the server was behind the executor.         *)
NewGate ==
    [revision |-> GateRevision, at |-> now, behind |-> epoch.revision - health.revision]

(* The desktop prepares the logout before the executor completes it; an      *)
(* existing gate is returned.                                                *)
BeginLogout ==
    /\ ~leaving /\ now < MaxReports
    /\ leaving' = TRUE
    /\ gate' = IF gate = NoGate THEN NewGate ELSE gate
    /\ UNCHANGED <<registryVars, wire, down, executorVars, health, updated, reading, now, stops>>

(* The lifespan ends: the registry is emptied under the lock and then the    *)
(* connection it held is closed.                                             *)
Shutdown ==
    /\ ~closed /\ stops < MaxStops
    /\ closed' = TRUE /\ serving' = 0 /\ stops' = stops + 1
    /\ UNCHANGED <<handler, last, wire, down, executorVars, sessionVars, now>>

CloseAll ==
    /\ closed /\ last # 0 /\ down[last] = "open"
    /\ Closes(last, "restart")
    /\ UNCHANGED <<registryVars, wire, executorVars, sessionVars, now, stops>>

(* The process goes; the database stays.                                     *)
Restart ==
    /\ closed
    /\ closed' = FALSE /\ serving' = 0 /\ last' = 0
    /\ handler' = [c \in Conns |-> [at |-> IF c <= opened THEN "done" ELSE "none", evicts |-> 0]]
    /\ wire' = [c \in Conns |-> <<>>]
    /\ down' = [c \in Conns |-> IF c <= opened THEN "gone" ELSE "open"]
    /\ reading' = [c \in Conns |-> NoReading]
    /\ conn' = 0
    /\ UNCHANGED <<opened, queue, epoch, health, updated, gate, leaving, now, stops>>

-----------------------------------------------------------------------------
LinkInit ==
    /\ handler = [c \in Conns |-> [at |-> "none", evicts |-> 0]]
    /\ serving = 0 /\ last = 0 /\ closed = FALSE
    /\ wire = [c \in Conns |-> <<>>] /\ down = [c \in Conns |-> "open"]
    /\ conn = 0 /\ opened = 0 /\ queue = <<>>
    /\ epoch = NoSession /\ health = NoSession /\ updated = 0 /\ gate = NoGate
    /\ reading = [c \in Conns |-> NoReading]
    /\ leaving = FALSE /\ now = 0 /\ stops = 0

HandlerSteps(c) ==
    \/ Register(c) \/ RegisterRefused(c) \/ NoHello(c) \/ HelloTimeout(c) \/ Evict(c)
    \/ Serve(c) \/ DispatchFails(c) \/ Stale(c)
    \/ ReceiveTimeout(c) \/ Disconnected(c) \/ ReceiveBeat(c) \/ ReceiveBeatStale(c)
    \/ ReadReport(c) \/ RefuseLate(c) \/ ReceiveHealth(c) \/ RefuseHealth(c) \/ Leave(c)

LinkNext ==
    \/ ObserveLogin \/ CompleteLogout
    \/ Connect \/ Heartbeat \/ SendReport \/ Break \/ SeeClosed \/ Kill
    \/ \E c \in Conns : HandlerSteps(c)
    \/ BeginLogout \/ Shutdown \/ CloseAll \/ Restart

LinkSpec == LinkInit /\ [][LinkNext]_linkVars

-----------------------------------------------------------------------------
(* Properties *)

(* The registry names the connection registered last, from its registration  *)
(* until its handler leaves or the registry is shut down: the late cleanup   *)
(* of a replaced handler never unregisters its successor (unregister         *)
(* compares connection_id, executor_connection_registry.py:219).             *)
RegistryServes ==
    /\ serving # 0 => serving = last /\ Registered(serving)
    /\ last # 0 /\ Registered(last) /\ ~closed => serving = last

(* Through reconnections, kept messages, restarts and frames left on old     *)
(* connections, what the executor sends is newer than what was stored: of a  *)
(* report read from the connection the executor is on, converge refuses      *)
(* nothing but the order of two clock readings, and that only if the handler *)
(* of an older connection stored a report between its reading and its turn   *)
(* at the row (platform_session_health.py:193).  Such a refusal ends the     *)
(* process, with code 4406, for nothing.                                     *)
FreshReportsAreTaken ==
    \A c \in Conns :
        c = conn /\ handler[c].at = "converge" =>
            LET refusal == Refusal(Head(wire[c]), reading[c].received)
            IN \/ refusal = "none"
               \/ refusal = "received_before_last_update" /\ reading[c].passed

(* The gate of a logout opens by a login observed after the logout began,    *)
(* never by a report still on its way from before, as long as the server was *)
(* at most one epoch behind the executor (begin_logout blocks one revision   *)
(* beyond the stored one).                                                   *)
GateOpensByLogin ==
    [][gate # NoGate /\ gate' = NoGate /\ gate.behind <= 1
          => health'.state = "healthy" /\ health'.at > gate.at]_linkVars
=============================================================================
