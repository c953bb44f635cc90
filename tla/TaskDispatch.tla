---------------------------- MODULE TaskDispatch ----------------------------
(***************************************************************************)
(* One confirmed task between the Control Plane and the Local Executor.     *)
(*                                                                          *)
(* The Control Plane side is PostgreSQL rows changed by transactions of two *)
(* kinds of process: the user's HTTP requests (EnqueueControl) and the      *)
(* coroutine that serves the executor's WebSocket, whose loop advances the  *)
(* task, dispatches due commands and receives one message.  Each of its     *)
(* transactions is a step, so requests, lost connections and a restart of   *)
(* the Control Plane fall between any two of them.                          *)
(*                                                                          *)
(* The executor is seen through its ledger: a checkpoint and an outbox.     *)
(* ExecutorLedger has the inside of an action and of crash recovery.        *)
(*                                                                          *)
(* Timers are nondeterministic: a lease, an acknowledgement timeout, a      *)
(* retry delay, an interval or a daily limit may have run out or not at any *)
(* look; deadlines are per command (`late').                                *)
(***************************************************************************)
EXTENDS Integers, Sequences, FiniteSets

CONSTANTS
    Actions,          \* the confirmed targets; each gets one authorized action
    None,             \* no action
    FailureThreshold, \* consecutive_failure_threshold of the risk policy
    TaskActionLimit,  \* task_action_limit of the risk policy: actions of one task
    UserControls,     \* the controls the user may request
    MaxDisturbances,  \* bound on the controls requested and the commands that
                      \* reach their deadline, together
    MaxWire,          \* bound on the frames a dispatch finds underway
    MayKill           \* whether the executor process may be killed

ASSUME ConstantsAssumption ==
    /\ IsFiniteSet(Actions) /\ Actions # {}
    /\ None \notin Actions
    /\ FailureThreshold \in Nat \ {0}
    /\ TaskActionLimit \in Nat \ {0}
    /\ UserControls \subseteq {"task.pause", "task.resume", "task.cancel", "task.emergency_stop"}
    /\ MaxDisturbances \in Nat
    /\ MaxWire \in Nat \ {0}
    /\ MayKill \in BOOLEAN

VARIABLES
    \* PostgreSQL
    task,       \* tasks.status
    attempt,    \* execution_attempts.status of the current attempt, or "none"
    lastEvent,  \* tasks.last_event_sequence
    action,     \* task_actions: status and outcome, or "none"
    circuit,    \* action_failure_circuits: consecutive failures and whether open
    commands,   \* task_commands of the attempt, by sequence
    accepted,   \* the executor's events in task_events, as outbox indexes
    \* the connection
    handler,    \* the WebSocket coroutine: where it is and what it holds
    conn,       \* "none", "open", "closing" (by the executor), "rejected", "lost"
    down, up,   \* frames underway: command sequences, outbox indexes
    \* the executor
    proc,       \* "online", "offline", "exited" or "killed"
    checkpoint, \* state, last_command_sequence and last_event_sequence
    busy,       \* the action.execute command being run, or 0
    outbox      \* executor_outbox, in order

database == <<task, attempt, lastEvent, action, circuit, commands, accepted>>
wires == <<conn, down, up>>
executor == <<proc, checkpoint, busy, outbox>>
vars == <<database, handler, wires, executor>>

-----------------------------------------------------------------------------
(* Data *)

Terminations == {"task.cancel", "task.emergency_stop"}
PauseResume == {"task.pause", "task.resume"}
Controls == Terminations \cup PauseResume

TerminalStatus ==
    {"succeeded", "partially_succeeded", "failed", "cancelled", "outcome_uncertain"}
TerminalAction == {"succeeded", "failed", "outcome_uncertain"}

(* The edges of the task state machine from a confirmed task on.             *)
TaskTransitions ==
    [queued |-> {"running", "cancelling", "failed"},
     running |-> {"paused", "awaiting_human", "cancelling"} \cup (TerminalStatus \ {"cancelled"}),
     paused |-> {"running", "awaiting_human", "cancelling"},
     awaiting_human |-> {"running", "cancelling", "failed", "outcome_uncertain"},
     cancelling |-> TerminalStatus,
     succeeded |-> {}, partially_succeeded |-> {}, failed |-> {},
     cancelled |-> {}, outcome_uncertain |-> {}]

AttemptTransitions ==
    [offered |-> {"running", "awaiting_human"},
     running |-> {"paused", "awaiting_human"} \cup TerminalStatus,
     paused |-> {"running", "awaiting_human", "cancelled", "outcome_uncertain"},
     awaiting_human |-> {"running", "failed", "cancelled", "outcome_uncertain"},
     cancelling |-> TerminalStatus,
     succeeded |-> {}, partially_succeeded |-> {}, failed |-> {},
     cancelled |-> {}, outcome_uncertain |-> {}]

Cancellable == {"offered", "running", "paused", "awaiting_human"}

(* The statuses an executor event moves the task and the attempt to; step    *)
(* events move neither.                                                      *)
EventPlan(type) ==
    CASE type \in {"task.started", "task.resumed"} -> "running"
      [] type = "task.paused" -> "paused"
      [] type = "task.cancelled" -> "cancelled"
      [] type = "task.outcome_uncertain" -> "outcome_uncertain"
      [] OTHER -> "none"

NewCommand(type, act) == [type |-> type, act |-> act, status |-> "pending", late |-> FALSE]
Disturbances ==
    Cardinality({k \in DOMAIN commands : commands[k].type \in Controls})
        + Cardinality({k \in DOMAIN commands : commands[k].late})
Unsettled == {"pending", "in_flight", "delivered"}
Running == task = "running" /\ attempt = "running"
(* Mutant: the gap is seen in the actions alone.                             *)
UncommandedByStatus == {a \in Actions : action[a] = "authorized"}

Uncommanded ==
    {a \in Actions : action[a] = "authorized" /\ \A k \in DOMAIN commands : commands[k].act # a}

Serving == conn \in {"open", "closing"}
At(pc) == Serving /\ handler.pc = pc
Start == [pc |-> "advance", k |-> 0, act |-> None, round |-> 1]
Goto(pc) == handler' = [Start EXCEPT !.pc = pc]

(* The handler closes with 1011 or 4406 and ends.                            *)
CloseRejected ==
    /\ conn' = IF conn = "open" THEN "rejected" ELSE "none"
    /\ up' = << >>
    /\ handler' = Start
    /\ UNCHANGED <<down, executor>>

-----------------------------------------------------------------------------
Init ==
    /\ task = "queued"
    /\ attempt = "none"
    /\ lastEvent = 0
    /\ action = [a \in Actions |-> "none"]
    /\ circuit = [failures |-> 0, open |-> FALSE]
    /\ commands = << >>
    /\ accepted = {}
    /\ handler = Start
    /\ conn = "none"
    /\ down = << >>
    /\ up = << >>
    /\ proc = "offline"
    /\ checkpoint = [state |-> "absent", last |-> 0, ev |-> 0]
    /\ busy = 0
    /\ outbox = << >>

-----------------------------------------------------------------------------
(* The user's requests *)

(* Mutant: a termination is refused only while one is underway.              *)
ControllableUnlessCancelling(type) ==
    CASE type = "task.pause" -> Running
      [] type = "task.resume" -> task = "paused" /\ attempt = "paused"
      [] OTHER -> task # "cancelling"

Controllable(type) ==
    CASE type = "task.pause" -> Running
      [] type = "task.resume" -> task = "paused" /\ attempt = "paused"
      [] OTHER -> /\ "cancelling" \in TaskTransitions[task]
                  /\ attempt \in Cancellable

(* Mutant: only the task row is moved to cancelling.                         *)
EnqueueControlTaskOnly(type) ==
    /\ Disturbances < MaxDisturbances
    /\ attempt # "none"
    /\ Controllable(type)
    /\ commands' = Append(commands, NewCommand(type, None))
    /\ task' = IF type \in Terminations THEN "cancelling" ELSE task
    /\ UNCHANGED <<attempt, lastEvent, action, circuit, accepted, handler, wires, executor>>

EnqueueControl(type) ==
    /\ Disturbances < MaxDisturbances
    /\ attempt # "none"
    /\ Controllable(type)
    /\ commands' = Append(commands, NewCommand(type, None))
    /\ IF type \in Terminations
       THEN task' = "cancelling" /\ attempt' = "cancelling"
       ELSE UNCHANGED <<task, attempt>>
    /\ UNCHANGED <<lastEvent, action, circuit, accepted, handler, wires, executor>>

(* A command reaches its deadline.                                           *)
DeadlinePasses(k) ==
    /\ ~commands[k].late
    /\ Disturbances < MaxDisturbances
    /\ commands' = [commands EXCEPT ![k].late = TRUE]
    /\ UNCHANGED <<task, attempt, lastEvent, action, circuit, accepted, handler,
                   wires, executor>>

-----------------------------------------------------------------------------
(* The handler's loop: advance the task *)

EnqueueAuthorizedOf(a) ==
    \/ /\ Running
       /\ commands' = Append(commands, NewCommand("action.execute", a))
       /\ Goto("expire")
       /\ UNCHANGED <<wires, executor>>
    \/ /\ ~Running
       /\ CloseRejected
       /\ UNCHANGED commands

(* An authorization without its command comes before everything else.        *)
FillGap ==
    /\ At("advance")
    /\ \E a \in Uncommanded : EnqueueAuthorizedOf(a)
    /\ UNCHANGED <<task, attempt, lastEvent, action, circuit, accepted>>

OfferNextConfirmed ==
    /\ At("advance")
    /\ Uncommanded = {}
    /\ attempt = "none"
    /\ task = "queued"
    /\ attempt' = "offered"
    /\ commands' = <<NewCommand("task.offer", None)>>
    /\ Goto("expire")
    /\ UNCHANGED <<task, lastEvent, action, circuit, accepted, wires, executor>>

Idle ==
    /\ At("advance")
    /\ Uncommanded = {}
    /\ attempt # "none"
    /\ ~Running \/ \E a \in Actions : action[a] \in {"authorized", "dispatched"}
    /\ Goto("expire")
    /\ UNCHANGED <<database, wires, executor>>

Settled == \A a \in Actions : action[a] \in TerminalAction \cup {"none"}

(* Mutant: one success makes the task a success.                             *)
FinalStatusOptimistic ==
    LET outcomes == {action[a] : a \in Actions} IN
    IF "outcome_uncertain" \in outcomes THEN "outcome_uncertain"
    ELSE IF "succeeded" \in outcomes THEN "succeeded" ELSE "failed"

FinalStatus ==
    LET outcomes == {action[a] : a \in Actions} IN
    IF "outcome_uncertain" \in outcomes THEN "outcome_uncertain"
    ELSE IF outcomes = {"succeeded"} THEN "succeeded"
    ELSE IF "succeeded" \in outcomes THEN "partially_succeeded" ELSE "failed"

(* No target left: the Control Plane writes the last event itself.           *)
FinalizeCompletedTask ==
    /\ At("advance")
    /\ Uncommanded = {}
    /\ Running
    /\ \A a \in Actions : action[a] \in TerminalAction
    /\ task' = FinalStatus
    /\ attempt' = FinalStatus
    /\ lastEvent' = lastEvent + 1
    /\ Goto("expire")
    /\ UNCHANGED <<action, circuit, commands, accepted, wires, executor>>

(* Mutant: the next target does not wait for the open one.                   *)
NextTargetAtOnce(a) ==
    /\ At("advance")
    /\ Uncommanded = {}
    /\ Running
    /\ action[a] = "none"
    /\ handler' = [handler EXCEPT !.pc = "authorize", !.act = a]
    /\ UNCHANGED <<database, wires, executor>>

NextTarget(a) ==
    /\ At("advance")
    /\ Uncommanded = {}
    /\ Running
    /\ Settled
    /\ action[a] = "none"
    /\ handler' = [handler EXCEPT !.pc = "authorize", !.act = a]
    /\ UNCHANGED <<database, wires, executor>>

(* The count of the task's authorizations, which nothing ever resets.        *)
TaskLimitReached == Cardinality({a \in Actions : action[a] # "none"}) >= TaskActionLimit

(* The task's limit, the interval or the daily limit, or the open circuit.   *)
AuthorizeLimited ==
    /\ At("authorize")
    /\ Goto("expire")
    /\ UNCHANGED <<database, wires, executor>>

(* The task moved on since it was prepared: prepare once more, then give up. *)
AuthorizeRejected ==
    /\ At("authorize")
    /\ ~circuit.open
    /\ ~Running
    /\ handler' = IF handler.round = 1 THEN [Start EXCEPT !.round = 2]
                  ELSE [Start EXCEPT !.pc = "expire"]
    /\ UNCHANGED <<database, wires, executor>>

(* A transaction of its own; another one writes the command.                 *)
AuthorizeGranted ==
    /\ At("authorize")
    /\ ~circuit.open
    /\ Running
    /\ ~TaskLimitReached
    /\ action' = [action EXCEPT ![handler.act] = "authorized"]
    /\ handler' = [handler EXCEPT !.pc = "enqueue"]
    /\ UNCHANGED <<task, attempt, lastEvent, circuit, commands, accepted, wires, executor>>

EnqueueAuthorized ==
    /\ At("enqueue")
    /\ EnqueueAuthorizedOf(handler.act)
    /\ UNCHANGED <<task, attempt, lastEvent, action, circuit, accepted>>

-----------------------------------------------------------------------------
(* The handler's loop: dispatch due commands *)

ExpireDue ==
    /\ At("expire")
    /\ commands' = [k \in DOMAIN commands |->
           IF commands[k].late /\ commands[k].status \in Unsettled
           THEN [commands[k] EXCEPT !.status = "expired"] ELSE commands[k]]
    /\ Goto("claim")
    /\ UNCHANGED <<task, attempt, lastEvent, action, circuit, accepted, wires, executor>>

(* Mutant: a command once claimed is never claimed again.                    *)
ClaimableOnce(k) ==
    /\ commands[k].status = "pending"
    /\ ~commands[k].late
    /\ commands[k].type \in {"task.offer", "action.execute"} => task \in {"queued", "running"}

(* Offers and actions are withheld unless the task is queued or running.     *)
Claimable(k) ==
    /\ commands[k].status \in Unsettled
    /\ ~commands[k].late
    /\ commands[k].type \in {"task.offer", "action.execute"} => task \in {"queued", "running"}

(* Claim and send; nothing tells the two steps apart.  A frame for a         *)
(* connection the executor has closed is lost.                               *)
ClaimNext(k) ==
    /\ At("claim")
    /\ Claimable(k)
    /\ Len(down) < MaxWire /\ Len(up) < Len(outbox) + MaxWire
    /\ commands' = [commands EXCEPT ![k].status = "in_flight"]
    /\ down' = IF conn = "open" THEN Append(down, k) ELSE down
    /\ handler' = [handler EXCEPT !.pc = "mark", !.k = k]
    /\ UNCHANGED <<task, attempt, lastEvent, action, circuit, accepted, conn, up, executor>>

(* The send fails: the claimed command is released and the batch ends.       *)
ReleaseForRetry(k) ==
    /\ At("claim")
    /\ conn = "closing"
    /\ Claimable(k)
    /\ commands' = [commands EXCEPT ![k].status = "pending"]
    /\ Goto("receive")
    /\ UNCHANGED <<task, attempt, lastEvent, action, circuit, accepted, wires, executor>>

MarkDelivered ==
    /\ At("mark")
    /\ commands' = [commands EXCEPT ![handler.k].status = "delivered"]
    /\ Goto("claim")
    /\ UNCHANGED <<task, attempt, lastEvent, action, circuit, accepted, wires, executor>>

(* Nothing (more) is due.                                                    *)
BatchEnds ==
    /\ At("claim")
    /\ Goto("receive")
    /\ UNCHANGED <<database, wires, executor>>

-----------------------------------------------------------------------------
(* The handler's loop: receive one message *)

Row == outbox[Head(up)]

(* A response to a command: only a delivered one can be acknowledged.        *)
Acknowledge ==
    /\ At("receive") /\ up # << >>
    /\ Row.type = "ack"
    /\ LET c == commands[Row.src] IN
       \/ /\ c.status = "acknowledged"
          /\ up' = Tail(up) /\ Goto("advance")
          /\ UNCHANGED <<commands, conn, down, executor>>
       \/ /\ c.status = "delivered" /\ ~c.late
          /\ commands' = [commands EXCEPT ![Row.src].status = "acknowledged"]
          /\ up' = Tail(up) /\ Goto("advance")
          /\ UNCHANGED <<conn, down, executor>>
       \/ /\ c.status = "delivered" /\ c.late
          /\ commands' = [commands EXCEPT ![Row.src].status = "expired"]
          /\ CloseRejected
       \/ /\ c.status \in {"pending", "in_flight", "expired"}
          /\ UNCHANGED commands
          /\ CloseRejected
    /\ UNCHANGED <<task, attempt, lastEvent, action, circuit, accepted>>

(* The control an event answers is the latest of its family, acknowledged.   *)
ControlConfirmed(e) ==
    LET family == IF e.type \in {"task.paused", "task.resumed"} THEN PauseResume
                  ELSE Terminations
        latest == {k \in DOMAIN commands :
                      /\ commands[k].type \in family
                      /\ \A j \in DOMAIN commands :
                            commands[j].type \in family => j <= k}
        expected == CASE e.type = "task.paused" -> {"task.pause"}
                      [] e.type = "task.resumed" -> {"task.resume"}
                      [] OTHER -> Terminations
    IN \/ /\ e.type \notin {"task.paused", "task.resumed", "task.cancelled"}
          /\ ~(e.type = "task.outcome_uncertain" /\ task = "cancelling")
       \/ \E k \in latest : /\ commands[k].type \in expected
                            /\ commands[k].status = "acknowledged"
                            /\ e.src = k

(* The status an event gives its action, and those it may come from.         *)
NextAction(type) ==
    CASE type = "step.started" -> "dispatched"
      [] type = "step.completed" -> "succeeded"
      [] type = "step.failed" -> "failed"
      [] OTHER -> "outcome_uncertain"

ActionAllows(e) ==
    e.act # None =>
        action[e.act] \in IF e.type \in {"step.started", "step.failed"}
                          THEN {"authorized", "dispatched"} ELSE {"dispatched"}

(* Mutant: the circuit opens one failure too late.                           *)
CircuitAfterOneMore(e) ==
    CASE e.type = "step.completed" ->
             IF circuit.open THEN circuit ELSE [circuit EXCEPT !.failures = 0]
      [] e.type = "step.failed" ->
             [failures |-> circuit.failures + 1,
              open |-> circuit.open \/ circuit.failures + 1 > FailureThreshold]
      [] OTHER -> circuit

(* The circuit after a result or a resumption by the task that opened it     *)
(* (here there is one task), and whether the event opened it.                *)
CircuitAfter(e) ==
    CASE e.type = "step.completed" ->
             IF circuit.open THEN circuit ELSE [circuit EXCEPT !.failures = 0]
      [] e.type = "step.failed" ->
             [failures |-> circuit.failures + 1,
              open |-> circuit.open \/ circuit.failures + 1 >= FailureThreshold]
      [] e.type = "task.resumed" /\ circuit.open -> [failures |-> 0, open |-> FALSE]
      [] OTHER -> circuit

OpensCircuit(e) == ~circuit.open /\ CircuitAfter(e).open

Movable(e) ==
    IF EventPlan(e.type) = "none"
    THEN task \in {"running", "cancelling"} /\ attempt \in {"running", "cancelling"}
    ELSE /\ EventPlan(e.type) \in TaskTransitions[task]
         /\ EventPlan(e.type) \in AttemptTransitions[attempt]

Convergent(e) ==
    /\ e.ev = lastEvent + 1
    /\ ControlConfirmed(e)
    /\ ActionAllows(e)
    /\ (OpensCircuit(e) /\ task = "running") \/ Movable(e)

(* An executor event and all its projections, in one transaction.            *)
Converge ==
    /\ At("receive") /\ up # << >>
    /\ Row.type # "ack"
    /\ Head(up) \notin accepted
    /\ Convergent(Row)
    /\ LET e == Row
           moved == IF OpensCircuit(e) /\ task = "running" THEN "awaiting_human"
                    ELSE EventPlan(e.type)
       IN /\ task' = IF moved = "none" THEN task ELSE moved
          /\ attempt' = IF moved = "none" THEN attempt ELSE moved
          /\ action' = IF e.act = None THEN action
                       ELSE [action EXCEPT ![e.act] = NextAction(e.type)]
          /\ circuit' = CircuitAfter(e)
    /\ lastEvent' = lastEvent + 1
    /\ accepted' = accepted \cup {Head(up)}
    /\ up' = Tail(up)
    /\ Goto("advance")
    /\ UNCHANGED <<commands, conn, down, executor>>

ConvergeDuplicate ==
    /\ At("receive") /\ up # << >>
    /\ Row.type # "ack"
    /\ Head(up) \in accepted
    /\ up' = Tail(up)
    /\ Goto("advance")
    /\ UNCHANGED <<database, conn, down, executor>>

ConvergeRejected ==
    /\ At("receive") /\ up # << >>
    /\ Row.type # "ack"
    /\ Head(up) \notin accepted
    /\ ~Convergent(Row)
    /\ CloseRejected
    /\ UNCHANGED database

(* Nothing within the recheck interval, or a heartbeat.                      *)
ReceiveTimeout ==
    /\ At("receive")
    /\ conn = "open"
    /\ Goto("advance")
    /\ UNCHANGED <<database, wires, executor>>

(* The executor's close frame comes after everything it sent.                *)
ReceiveClose ==
    /\ At("receive")
    /\ conn = "closing"
    /\ up = << >>
    /\ conn' = "none"
    /\ handler' = Start
    /\ UNCHANGED <<database, down, up, executor>>

-----------------------------------------------------------------------------
(* The executor *)

Ack(k) == [type |-> "ack", act |-> None, src |-> k, ev |-> 0]
Event(type, act, src, n) == [type |-> type, act |-> act, src |-> src, ev |-> checkpoint.ev + n]
Indexes(rows) == [i \in 1..Len(rows) |-> Len(outbox) + i]
(* The rows of a command, in the order of the outbox: there is one such list. *)
Rows(k) == {i \in 1..Len(outbox) : outbox[i].src = k}
RowsOf(k) ==
    {rows \in [1..Cardinality(Rows(k)) -> Rows(k)] :
        \A i, j \in DOMAIN rows : i < j => rows[i] < rows[j]}

RequiredStates(type) ==
    CASE type = "task.offer" -> {"absent"}
      [] type \in {"task.pause", "action.execute"} -> {"running"}
      [] type = "task.resume" -> {"paused"}
      [] OTHER -> {"running", "paused"}

(* Frames are sent on an open connection; on a closed one the send fails,    *)
(* which ends the process or makes it reconnect.                             *)
Send(frames, rest) ==
    IF conn = "open"
    THEN /\ up' = up \o frames
         /\ down' = rest
         /\ UNCHANGED <<conn, proc>>
    ELSE /\ proc' = IF conn = "rejected" THEN "exited" ELSE "offline"
         /\ conn' = "none"
         /\ down' = << >>
         /\ UNCHANGED up

Leave(status) ==
    /\ proc' = status
    /\ conn' = IF conn = "open" THEN "closing" ELSE "none"
    /\ down' = << >>

EmergencyStopReceived ==
    \E k \in 1..checkpoint.last : commands[k].type = "task.emergency_stop"

(* Hello, then the whole outbox; once an emergency stop was received, the    *)
(* process stops again.                                                      *)
Connect ==
    /\ proc \in {"offline", "exited"}
    /\ conn \in {"none", "closing"}
    /\ up' = [i \in 1..Len(outbox) |-> i]
    /\ proc' = IF EmergencyStopReceived THEN "exited" ELSE "online"
    /\ conn' = IF EmergencyStopReceived THEN "closing" ELSE "open"
    /\ down' = << >>
    /\ handler' = Start
    /\ UNCHANGED <<database, checkpoint, busy, outbox>>

(* The network or the Control Plane goes away: close code 1012 or none.      *)
ConnectionLost ==
    /\ Serving
    /\ conn' = IF conn = "open" THEN "lost" ELSE "none"
    /\ down' = << >> /\ up' = << >>
    /\ handler' = Start
    /\ UNCHANGED <<database, executor>>

NoticeClose ==
    /\ proc = "online"
    /\ busy = 0
    /\ conn \in {"rejected", "lost"}
    /\ Leave(IF conn = "rejected" THEN "exited" ELSE "offline")
    /\ UNCHANGED <<database, handler, up, checkpoint, busy, outbox>>

Ready == proc = "online" /\ busy = 0 /\ down # << >>
Fits(k) ==
    /\ k = checkpoint.last + 1
    /\ checkpoint.state \in RequiredStates(commands[k].type)
HasRows(k) == Rows(k) # {}
Answered(k) == k <= checkpoint.last /\ HasRows(k)
(* Received before a crash, but not carried out.                             *)
Unanswered(k) ==
    /\ k <= checkpoint.last
    /\ ~HasRows(k)
    /\ checkpoint.state = "running"

(* handle() raises ExecutorCommandExpired: the loop goes on.                 *)
IgnoreExpired ==
    /\ Ready
    /\ commands[Head(down)].late
    /\ down' = Tail(down)
    /\ UNCHANGED <<database, handler, conn, up, executor>>

ResendAnswer ==
    /\ Ready
    /\ ~commands[Head(down)].late
    /\ Answered(Head(down))
    /\ \E rows \in RowsOf(Head(down)) : Send(rows, Tail(down))
    /\ UNCHANGED <<database, handler, checkpoint, busy, outbox>>

(* Out of order or in the wrong state: exit code 1.                          *)
RefuseCommand ==
    /\ Ready
    /\ LET k == Head(down) IN
       /\ ~commands[k].late
       /\ ~Answered(k) /\ ~Unanswered(k) /\ ~Fits(k)
    /\ Leave("exited")
    /\ UNCHANGED <<database, handler, up, checkpoint, busy, outbox>>

AcceptOffer ==
    /\ Ready
    /\ LET k == Head(down)
           rows == <<Ack(k), Event("task.started", None, k, 1)>>
       IN /\ commands[k].type = "task.offer" /\ ~commands[k].late
          /\ Fits(k)
          /\ outbox' = outbox \o rows
          /\ checkpoint' = [state |-> "running", last |-> k, ev |-> checkpoint.ev + 1]
          /\ Send(Indexes(rows), Tail(down))
    /\ UNCHANGED <<database, handler, busy>>

BeginAction ==
    /\ Ready
    /\ LET k == Head(down) IN
       /\ commands[k].type = "action.execute" /\ ~commands[k].late
       /\ Fits(k) \/ Unanswered(k)
       /\ checkpoint' = [checkpoint EXCEPT !.last = IF Fits(k) THEN k ELSE @]
       /\ busy' = k
    /\ down' = Tail(down)
    /\ UNCHANGED <<database, handler, conn, up, proc, outbox>>

(* accept, step.started and the fact are committed together.                 *)
FinishAction(type) ==
    /\ proc = "online"
    /\ busy # 0
    /\ LET act == commands[busy].act
           rows == <<Ack(busy), Event("step.started", act, busy, 1), Event(type, act, busy, 2)>>
       IN /\ outbox' = outbox \o rows
          /\ checkpoint' = [checkpoint EXCEPT
                 !.state = IF type = "task.outcome_uncertain" THEN "outcome_uncertain" ELSE @,
                 !.ev = @ + 2]
          /\ Send(Indexes(rows), down)
    /\ busy' = 0
    /\ UNCHANGED <<database, handler>>

ControlEvent(type) ==
    CASE type = "task.pause" -> "task.paused"
      [] type = "task.resume" -> "task.resumed"
      [] type = "task.cancel" -> "task.cancelled"
      [] OTHER -> "task.outcome_uncertain"

(* Mutant: the pause is reported but not recorded.                           *)
StateAfterForgetsPause(type) ==
    CASE type \in PauseResume -> "running"
      [] type = "task.cancel" -> "terminal"
      [] OTHER -> "outcome_uncertain"

StateAfter(type) ==
    CASE type = "task.pause" -> "paused"
      [] type = "task.resume" -> "running"
      [] type = "task.cancel" -> "terminal"
      [] OTHER -> "outcome_uncertain"

(* The acknowledgement and the projection: no action is running, so the safe *)
(* checkpoint is reached at once.                                            *)
Projected(k) == <<Ack(k), Event(ControlEvent(commands[k].type), None, k, 1)>>
CheckpointAfter(k) ==
    [state |-> StateAfter(commands[k].type), last |-> k, ev |-> checkpoint.ev + 1]

HandleControl ==
    /\ Ready
    /\ LET k == Head(down) IN
       /\ commands[k].type \in Controls \ {"task.emergency_stop"} /\ ~commands[k].late
       /\ Fits(k)
       /\ outbox' = outbox \o Projected(k)
       /\ checkpoint' = CheckpointAfter(k)
       /\ Send(Indexes(Projected(k)), Tail(down))
    /\ UNCHANGED <<database, handler, busy>>

(* The same, and the loop ends the process.                                  *)
HandleEmergencyStop ==
    /\ Ready
    /\ LET k == Head(down) IN
       /\ commands[k].type = "task.emergency_stop" /\ ~commands[k].late
       /\ Fits(k)
       /\ outbox' = outbox \o Projected(k)
       /\ checkpoint' = CheckpointAfter(k)
       /\ up' = IF conn = "open" THEN up \o Indexes(Projected(k)) ELSE up
    /\ Leave("exited")
    /\ UNCHANGED <<database, handler, busy>>

-----------------------------------------------------------------------------
(* Executor crash and supervised recovery *)

Kill ==
    /\ MayKill
    /\ proc \in {"online", "offline"}
    /\ Leave("killed")
    /\ UNCHANGED <<database, handler, up, checkpoint, busy, outbox>>

(* A recovery event carries the offer as its source.                         *)
Recovered(a) == \E i \in 1..Len(outbox) : outbox[i].act = a /\ outbox[i].src = 1
Reported(a, type) ==
    \E i \in 1..Len(outbox) : outbox[i].act = a /\ outbox[i].type = type

RecoveryEvent(a, type) ==
    /\ outbox' = Append(outbox, Event(type, a, 1, 1))
    /\ checkpoint' = [checkpoint EXCEPT
           !.state = IF type = "task.outcome_uncertain" THEN "outcome_uncertain" ELSE @,
           !.ev = @ + 1]

(* The action that was running: nothing dispatched, or a fact of its own.    *)
RecoverBusy ==
    /\ proc = "killed"
    /\ busy # 0
    /\ busy' = 0
    /\ \/ UNCHANGED <<checkpoint, outbox>>
       \/ \E type \in {"step.completed", "task.outcome_uncertain"} :
              /\ ~Recovered(commands[busy].act)
              /\ RecoveryEvent(commands[busy].act, type)
    /\ UNCHANGED <<database, handler, wires, proc>>

(* Verified effects are reported by recovery also when they already were.    *)
Facts == {a \in Actions : Reported(a, "step.completed") /\ ~Recovered(a)}

RecoverProject(a) ==
    /\ proc = "killed"
    /\ busy = 0
    /\ a \in Facts
    /\ checkpoint.state \in {"running", "paused"}
    /\ RecoveryEvent(a, "step.completed")
    /\ UNCHANGED <<database, handler, wires, proc, busy>>

(* An attempt already uncertain by another way than recovery cannot be       *)
(* projected again: the restart fails.                                       *)
RecoverEnds ==
    /\ proc = "killed"
    /\ busy = 0
    /\ checkpoint.state \in {"running", "paused"} => Facts = {}
    /\ LET uncertain == {a \in Actions : Reported(a, "task.outcome_uncertain")} IN
       proc' = IF /\ checkpoint.state = "outcome_uncertain"
                  /\ Facts \cup uncertain # {}
                  /\ \A a \in uncertain : ~Recovered(a)
               THEN "exited" ELSE "offline"
    /\ UNCHANGED <<database, handler, wires, checkpoint, busy, outbox>>

-----------------------------------------------------------------------------
AdvanceTask ==
    \/ FillGap \/ OfferNextConfirmed \/ Idle \/ FinalizeCompletedTask
    \/ AuthorizeLimited \/ AuthorizeRejected \/ AuthorizeGranted \/ EnqueueAuthorized
    \/ \E a \in Actions : NextTarget(a)

DispatchCurrent ==
    \/ ExpireDue \/ MarkDelivered \/ BatchEnds
    \/ \E k \in DOMAIN commands : ClaimNext(k) \/ ReleaseForRetry(k)

ReceiveMessage == Acknowledge \/ Converge \/ ConvergeDuplicate \/ ConvergeRejected

ReceiveOne == ReceiveMessage \/ ReceiveTimeout \/ ReceiveClose

Execute ==
    \/ NoticeClose \/ IgnoreExpired \/ ResendAnswer \/ RefuseCommand
    \/ AcceptOffer \/ BeginAction \/ HandleControl \/ HandleEmergencyStop
    \/ \E type \in {"step.completed", "step.failed", "task.outcome_uncertain"} :
          FinishAction(type)

Recover == RecoverBusy \/ RecoverEnds \/ \E a \in Actions : RecoverProject(a)

Next ==
    \/ \E type \in UserControls : EnqueueControl(type)
    \/ \E k \in DOMAIN commands : DeadlinePasses(k)
    \/ AdvanceTask \/ DispatchCurrent \/ ReceiveOne
    \/ Connect \/ ConnectionLost \/ Execute
    \/ Kill \/ Recover

Spec == Init /\ [][Next]_vars

-----------------------------------------------------------------------------
(* What the tables accept.  A transaction whose rows break a constraint is    *)
(* rolled back and raises in the coroutine, which closes the connection.     *)

(* fk_tasks_current_attempt_binding.                                         *)
TaskRow == task # "queued" => attempt # "none"

(* A finished task leaves no row that uq_execution_attempts_one_active_      *)
(* installation would hold against the next one.                             *)
AttemptRow ==
    /\ attempt \in {"none", "offered", "running", "paused", "awaiting_human", "cancelling"}
                  \cup TerminalStatus
    /\ task \in TerminalStatus => attempt \in TerminalStatus

(* A row exists only under an attempt, and a verdict has the evidence of an  *)
(* event that gives it.                                                      *)
ActionRow(a) ==
    action[a] # "none" =>
        /\ attempt # "none"
        /\ action[a] \in TerminalAction =>
               \E i \in accepted : /\ outbox[i].act = a
                                  /\ NextAction(outbox[i].type) = action[a]

(* A failure counts, a success has reset the count or found the circuit      *)
(* open, and only enough failures hand the task over.                        *)
ResultRow(e) ==
    /\ e.type = "step.failed" => CircuitAfter(e).failures > 0
    /\ e.type = "step.completed" => CircuitAfter(e).failures = 0 \/ CircuitAfter(e).open
    /\ OpensCircuit(e) =>
           e.type = "step.failed" /\ CircuitAfter(e).failures >= FailureThreshold

(* ck_action_failure_circuits_open_state, and the result that opened it.     *)
CircuitRow ==
    circuit.open => circuit.failures > 0 /\ \E a \in Actions : action[a] = "failed"

(* pk_task_events; fk_task_events_action_binding.                            *)
EventRow(i) ==
    /\ outbox[i].ev \in 1..lastEvent
    /\ \A j \in accepted : outbox[j].ev = outbox[i].ev => j = i
    /\ outbox[i].act # None => action[outbox[i].act] # "none"

(* Only an acknowledged command has a response, of the type its own type     *)
(* calls for, in a message that answers no other command.                    *)
CommandResponse(k) ==
    commands[k].status = "acknowledged" =>
        \E i \in 1..Len(outbox) : outbox[i].type = "ack" /\ outbox[i].src = k

(* uq_task_commands_action, the action and baseline scopes.                  *)
CommandScope(k) ==
    /\ commands[k].type = "action.execute" <=> commands[k].act # None
    /\ commands[k].type = "task.offer" <=> k = 1
    /\ commands[k].act # None =>
           /\ action[commands[k].act] # "none"
           /\ \A j \in DOMAIN commands : commands[j].act = commands[k].act => j = k

-----------------------------------------------------------------------------
(* Properties *)

Statuses == TerminalStatus \cup {"running", "paused", "awaiting_human", "cancelling"}
EventTypes ==
    {"task.started", "step.started", "step.completed", "step.failed", "task.paused",
     "task.resumed", "task.cancelled", "task.outcome_uncertain"}
Command ==
    [type : Controls \cup {"task.offer", "action.execute"}, act : Actions \cup {None},
     status : Unsettled \cup {"acknowledged", "expired"}, late : BOOLEAN]
OutboxRow ==
    [type : EventTypes \cup {"ack"}, act : Actions \cup {None}, src : Nat, ev : Nat]

\* Type correctness of the rows, the connection and the executor's ledger.
TypeOK ==
    /\ task \in Statuses \cup {"queued"}
    /\ attempt \in Statuses \cup {"none", "offered"}
    /\ lastEvent \in Nat
    /\ action \in [Actions -> TerminalAction \cup {"none", "authorized", "dispatched"}]
    /\ circuit \in [failures : Nat, open : BOOLEAN]
    /\ commands \in Seq(Command)
    /\ accepted \subseteq 1..Len(outbox)
    /\ handler \in [pc : {"advance", "authorize", "enqueue", "expire", "claim", "mark",
                          "receive"},
                     k : Nat, act : Actions \cup {None}, round : {1, 2}]
    /\ conn \in {"none", "open", "closing", "rejected", "lost"}
    /\ down \in Seq(Nat) /\ up \in Seq(Nat)
    /\ proc \in {"online", "offline", "exited", "killed"}
    /\ checkpoint \in [state : {"absent", "running", "paused", "terminal", "outcome_uncertain"},
                        last : Nat, ev : Nat]
    /\ busy \in Nat
    /\ outbox \in Seq(OutboxRow)

\* The task and its attempt, two rows changed by requests, orchestration and
\* executor events, never tell different stories.
TaskAttemptAgree ==
    \/ task = attempt
    \/ task = "queued" /\ attempt \in {"none", "offered"}

Converged == \A i \in 1..Len(outbox) : outbox[i].type = "ack" \/ i \in accepted

\* When every event of the executor has converged, the status the user sees is
\* the one of the executor's checkpoint, up to a cancellation underway, a
\* takeover or the end the Control Plane wrote itself.
ConvergedAgrees ==
    Converged =>
        task \in
            CASE checkpoint.state = "absent" -> {"queued", "cancelling"}
              [] checkpoint.state = "running" ->
                     {"running", "cancelling", "awaiting_human",
                      "succeeded", "partially_succeeded", "failed"}
              [] checkpoint.state = "paused" -> {"paused", "cancelling"}
              [] checkpoint.state = "terminal" -> {"cancelled"}
              [] OTHER -> {"outcome_uncertain"}

\* A final status is what the executor's own records say of the targets, and a
\* cancelled task's executor has stopped: its attempt is closed, no action is
\* running and none is in doubt.
EndIsTruthful ==
    LET done == {a \in Actions : Reported(a, "step.completed")} IN
    /\ task = "succeeded" => done = Actions
    /\ task = "partially_succeeded" => done # {} /\ done # Actions
    /\ task = "failed" => done = {}
    /\ task = "cancelled" =>
           /\ checkpoint.state = "terminal"
           /\ busy = 0
           /\ \A a \in Actions : ~Reported(a, "task.outcome_uncertain")

\* The executor only runs an action the Control Plane has authorized and holds
\* no verdict on, and never beside another open one.
RunsOnlyAuthorized ==
    busy # 0 =>
        \A a \in Actions :
            IF commands[busy].act = a THEN action[a] = "authorized"
            ELSE action[a] \in TerminalAction \cup {"none"}

\* Whatever the order of requests, dispatches, retries and executor events, the
\* rows their transactions leave satisfy the constraints of the tables: one
\* command per action, one event per sequence, a response for an acknowledged
\* command and for it alone, an open circuit with the failures that opened it.
RowsAreStorable ==
    /\ TaskRow /\ AttemptRow /\ CircuitRow
    /\ \A a \in Actions : ActionRow(a)
    /\ \A i \in accepted : EventRow(i)
    /\ At("receive") /\ up # << >> => Row.type = "ack" \/ ResultRow(Row)
    /\ \A k \in DOMAIN commands : CommandResponse(k) /\ CommandScope(k)

\* As many consecutive failures as the risk policy tolerates open the circuit,
\* and the task does not run on: a human takes over, unless the user is
\* cancelling it.
FailuresHandOver ==
    circuit.failures >= FailureThreshold =>
        circuit.open /\ task \in {"awaiting_human", "cancelling"} \cup TerminalStatus

\* Nothing that arrives or is replayed later changes a finished task.
TerminalIsFinal ==
    [][(task \in TerminalStatus) =>
           UNCHANGED <<task, attempt, lastEvent, action>>]_vars

-----------------------------------------------------------------------------
(* Liveness *)

MaxSequence == 1 + Cardinality(Actions) + MaxDisturbances

(* The coroutine and the executor keep running; an offline executor          *)
(* reconnects and an exited one is started again by its user.  A due command *)
(* is claimed, a target is authorized and a frame is read if that stays      *)
(* possible again and again: timers run out, the interval and the daily      *)
(* limit pass (the task's own limit is a guard, it never does), and the      *)
(* stream is read in order.                                                  *)
Fairness ==
    /\ WF_vars(AdvanceTask) /\ WF_vars(DispatchCurrent) /\ WF_vars(ReceiveOne)
    /\ SF_vars(AuthorizeGranted)
    /\ SF_vars(ReceiveMessage)
    /\ \A k \in 1..MaxSequence : SF_vars(k \in DOMAIN commands /\ ClaimNext(k))
    /\ WF_vars(Execute) /\ WF_vars(Connect) /\ WF_vars(Recover)

FairSpec == Spec /\ Fairness

(* Targets are left and the task has used up its actions: it stays running.  *)
AtTaskLimit ==
    /\ Running /\ Settled /\ TaskLimitReached
    /\ \E a \in Actions : action[a] = "none"

\* Left alone, a confirmed task is carried through to its end or to a takeover,
\* or until it has used up the actions the risk policy allows a task, with every
\* one of them settled: if the connection is lost only finitely often, no control
\* is requested, no deadline passes and the executor process is not killed.
TaskFinishes ==
    (/\ <>[][~ConnectionLost]_vars
     /\ [](proc # "killed" /\ Disturbances = 0))
        => <>(task \in TerminalStatus \cup {"awaiting_human"} \/ AtTaskLimit)

-----------------------------------------------------------------------------
(* What the documents say and the code does not do *)

\* A cancellation reaches a final status, also when no authorization waits for
\* its command.
CancelConverges ==
    <>[][~ConnectionLost]_vars /\ <>[](Uncommanded = {})
        => (task = "cancelling" ~> task \in TerminalStatus)

\* A paused task the user resumes leaves the pause.
ResumeConverges ==
    <>[][~ConnectionLost]_vars =>
        ((task = "paused" /\ \E k \in DOMAIN commands :
              commands[k].type = "task.resume" /\ commands[k].status = "pending")
             ~> task # "paused")

\* The event that crash recovery writes is accepted when its turn comes.
RecoveryAccepted ==
    /\ At("receive") /\ up # << >>
    /\ Head(up) \notin accepted
    /\ Row.act # None /\ Row.src = 1
    /\ Row.ev = lastEvent + 1
    => Convergent(Row)
=============================================================================
