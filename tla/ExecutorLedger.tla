--------------------------- MODULE ExecutorLedger ---------------------------
(***************************************************************************)
(* The Local Executor as a client of its SQLite ledger: one process, one    *)
(* main thread that receives task commands, runs browser actions and        *)
(* projects controls, plus the crash-recovery pass of a supervised restart. *)
(*                                                                          *)
(* Every ledger transaction is one step, so a crash can fall between any    *)
(* two of them; everything the process keeps in memory is in `op' and is    *)
(* lost.  The control plane is the environment: it may send the next        *)
(* command of an attempt or send again any command the ledger holds.        *)
(*                                                                          *)
(* The wall clock is a value of `Time' that may be set to any other value   *)
(* between two steps (the code reads datetime.now(UTC) and has no           *)
(* monotonic source for ledger times); readings within one step coincide.   *)
(***************************************************************************)
EXTENDS Integers, Sequences, FiniteSets

CONSTANTS
    Attempts,        \* execution attempts, each of one task
    Actions,         \* authorized actions the control plane may command
    AttemptOf,       \* the attempt an action belongs to
    KindOf,          \* "browse", "comment" or "direct_message"
    None,            \* stands for no action and no attempt
    MaxTime,         \* bound on the wall clock
    AuthLifetime,    \* ACTION_AUTHORIZATION_MAX_LIFETIME, in clock units
    MinInterval,     \* minimum interval between admissions of one kind
    TaskActionLimit, \* admissions of one kind a task may have
    MaxCommands      \* bound on the commands of one attempt

ASSUME ConstantsAssumption ==
    /\ AttemptOf \in [Actions -> Attempts]
    /\ KindOf \in [Actions -> {"browse", "comment", "direct_message"}]
    /\ None \notin Actions
    /\ MaxTime \in Nat
    /\ AuthLifetime \in Nat \ {0}
    /\ MinInterval \in Nat \ {0}
    /\ TaskActionLimit \in Nat \ {0}
    /\ MaxCommands \in Nat

VARIABLES
    \* the SQLite file
    now,         \* wall clock
    latch,       \* executor_action_guard.engaged; nothing in production clears it
    net,         \* executor_action_guard.network_connected
    admission,   \* executor_action_admissions.authorized_at, or NotAdmitted
    effect,      \* executor_side_effects: state and the time its next guard reads
    checkpoint,  \* executor_attempt_checkpoints: state and last_event_sequence
    received,    \* executor_commands of an attempt, by sequence
    acked,       \* sequences whose task.control_ack is in executor_outbox
    events,      \* the event rows of executor_outbox, in order
    \* the process
    proc,        \* "stopped", "killed", "recovering", "up" or "connected"
    op,          \* the command being handled and how far
    \* the platform
    performed    \* how often the platform has seen an action's effect

ledger == <<latch, net, admission, effect, checkpoint, received, acked, events>>
vars == <<now, ledger, proc, op, performed>>

-----------------------------------------------------------------------------
(* Data *)

Time == 0..MaxTime
NotAdmitted == -1
EffectStates == {"none", "prepared", "dispatched", "verified", "uncertain"}
CheckpointStates ==
    {"absent", "received", "running", "paused", "terminal", "outcome_uncertain"}
Controls == {"task.pause", "task.resume", "task.cancel", "task.emergency_stop"}
CommandTypes == Controls \cup {"task.offer", "task.discover", "action.execute"}
Command == [type : CommandTypes, act : Actions \cup {None}]
EventTypes ==
    {"task.started", "step.started", "step.completed", "step.failed",
     "task.paused", "task.resumed", "task.cancelled", "task.outcome_uncertain",
     "discovery.completed"}
Event == [type : EventTypes, act : Actions \cup {None}, seq : Nat,
          src : Nat, key : {"event", "recovery"}]

Stages == {"idle", "ack", "start", "admit", "inspect", "admit_again", "prepare",
           "replay", "act", "settle", "commit"}
Results == {"none", "confirmed", "completed", "uncertain", "failed",
            "local_safety_limit", "admission_rejected"}
Idle == [stage |-> "idle", att |-> None, k |-> 0, result |-> "none"]

OpAction == received[op.att][op.k].act
EffectsOf(t, states) ==
    \E a \in Actions : AttemptOf[a] = t /\ effect[a].state \in states
Last(t) == received[t][Len(received[t])]
FactType(result) ==
    CASE result = "completed" -> "step.completed"
      [] result = "uncertain" -> "task.outcome_uncertain"
      [] OTHER -> "step.failed"

EmergencyStopReceived ==
    \E t \in Attempts : \E k \in 1..Len(received[t]) :
        received[t][k].type = "task.emergency_stop"

Appended(t, type, act, src, key) ==
    Append(events[t], [type |-> type, act |-> act, seq |-> checkpoint[t].ev + 1,
                       src |-> src, key |-> key])

(* A process whose command is refused ends with exit code 1. *)
ProcessFails == proc' = "stopped" /\ net' = "offline" /\ op' = Idle

Goto(stage) == op' = [op EXCEPT !.stage = stage]
Finish(result) == op' = [op EXCEPT !.stage = "commit", !.result = result]

-----------------------------------------------------------------------------
Init ==
    /\ now = 0
    /\ latch = "clear"
    /\ net = "online"
    /\ admission = [a \in Actions |-> NotAdmitted]
    /\ effect = [a \in Actions |-> [state |-> "none", at |-> 0]]
    /\ checkpoint = [t \in Attempts |-> [state |-> "absent", ev |-> 0]]
    /\ received = [t \in Attempts |-> << >>]
    /\ acked = [t \in Attempts |-> {}]
    /\ events = [t \in Attempts |-> << >>]
    /\ proc = "stopped"
    /\ op = Idle
    /\ performed = [a \in Actions |-> 0]

(* The wall clock moves, or is set, to another value. *)
ClockMoves ==
    /\ now' \in Time \ {now}
    /\ UNCHANGED <<ledger, proc, op, performed>>

-----------------------------------------------------------------------------
(* Process life cycle *)

(* Checkpoint states in which a command is accepted.                         *)
RequiredStates(type) ==
    CASE type = "task.pause" -> {"running"}
      [] type = "task.resume" -> {"paused"}
      [] type = "task.cancel" -> {"running", "paused"}
      [] type = "task.emergency_stop" -> {"running", "paused"}
      [] type = "action.execute" -> {"running"}
      [] OTHER -> {"absent"}

\* Mutant: pause and cancel wait for an uncertain effect as well.
PendingControlWhenSettled(t) ==
    /\ Len(received[t]) \in acked[t]
    /\ Last(t).type \in Controls
    /\ checkpoint[t].state \in RequiredStates(Last(t).type)
    /\ Last(t).type \in {"task.pause", "task.cancel"}
           => ~EffectsOf(t, {"dispatched", "uncertain"})

(* A control acknowledged but not yet projected; pause and cancel wait until *)
(* nothing of the attempt is dispatched.                                     *)
PendingControl(t) ==
    /\ Len(received[t]) \in acked[t]
    /\ Last(t).type \in Controls
    /\ checkpoint[t].state \in RequiredStates(Last(t).type)
    /\ Last(t).type \in {"task.pause", "task.cancel"} => ~EffectsOf(t, {"dispatched"})

Polled == \A t \in Attempts : ~PendingControl(t)

StartPlain ==
    /\ proc \in {"stopped", "killed"}
    /\ proc' = "up"
    /\ net' = "offline"
    /\ UNCHANGED <<now, latch, admission, effect, checkpoint, received, acked,
                   events, op, performed>>

(* Only an exit by signal is restarted by the supervisor, and only such a    *)
(* restart asks for crash recovery.                                          *)
StartRecovering ==
    /\ proc = "killed"
    /\ proc' = "recovering"
    /\ UNCHANGED <<now, ledger, op, performed>>

StartLocalEmergencyStop ==
    /\ proc \in {"stopped", "killed"}
    /\ proc' = "up"
    /\ latch' = "engaged"
    /\ net' = "offline"
    /\ UNCHANGED <<now, admission, effect, checkpoint, received, acked,
                   events, op, performed>>

(* Hello, outbox replay and a poll of the controls come before the gate.     *)
Connect ==
    /\ proc = "up"
    /\ Polled
    /\ IF EmergencyStopReceived
       THEN proc' = "stopped" /\ net' = "offline"
       ELSE proc' = "connected" /\ net' = "online"
    /\ UNCHANGED <<now, latch, admission, effect, checkpoint, received, acked,
                   events, op, performed>>

(* A lost connection is retried; a refused one, a stop request or a handled  *)
(* emergency stop ends the process.  Noticed only between two commands, each *)
(* of which ends by advancing the controls.                                  *)
Disconnect ==
    /\ proc = "connected"
    /\ op = Idle
    /\ Polled
    /\ net' = "offline"
    /\ proc' \in {"up", "stopped"}
    /\ UNCHANGED <<now, latch, admission, effect, checkpoint, received, acked,
                   events, op, performed>>

(* The process dies, at any point; network_connected keeps its last value.   *)
Kill ==
    /\ proc \notin {"stopped", "killed"}
    /\ proc' = "killed"
    /\ op' = Idle
    /\ UNCHANGED <<now, ledger, performed>>

-----------------------------------------------------------------------------
(* Receiving commands *)

Receivable(t, c) == checkpoint[t].state \in RequiredStates(c.type)

(* What the control plane may send as the next command of an attempt: an     *)
(* offer or a discovery first, an action at most once.                       *)
NextCommand(t) ==
    {c \in Command :
        /\ c.type \in {"task.offer", "task.discover"} => received[t] = << >>
        /\ IF c.type = "action.execute"
           THEN /\ c.act \in Actions /\ AttemptOf[c.act] = t
                /\ \A k \in 1..Len(received[t]) : received[t][k].act # c.act
           ELSE c.act = None}

(* The main loop polls controls before every receive.                        *)
Listening ==
    /\ proc = "connected"
    /\ op = Idle
    /\ ~EmergencyStopReceived
    /\ Polled

(* An emergency stop also engages the latch and settles as uncertain what    *)
(* the attempt had dispatched, unless the clock reads before the dispatch.   *)
StopSettles(t) ==
    \A a \in Actions : AttemptOf[a] = t /\ effect[a].state = "dispatched"
                       => effect[a].at <= now
StoppedEffects(t) ==
    [a \in Actions |-> IF AttemptOf[a] = t /\ effect[a].state = "dispatched"
                       THEN [state |-> "uncertain", at |-> 0] ELSE effect[a]]

FirstStage(type) ==
    CASE type \in Controls -> "ack"
      [] type = "action.execute" -> "admit"
      [] OTHER -> "start"

ReceiveNew(t, c) ==
    /\ Listening
    /\ Len(received[t]) < MaxCommands
    /\ Receivable(t, c)
    /\ c.type = "task.emergency_stop" => StopSettles(t)
    /\ received' = [received EXCEPT ![t] = Append(@, c)]
    /\ checkpoint' = [checkpoint EXCEPT ![t].state =
                          IF @ = "absent" THEN "received" ELSE @]
    /\ IF c.type = "task.emergency_stop"
       THEN latch' = "engaged" /\ effect' = StoppedEffects(t)
       ELSE UNCHANGED <<latch, effect>>
    /\ op' = [stage |-> FirstStage(c.type), att |-> t,
              k |-> Len(received[t]) + 1, result |-> "none"]
    /\ UNCHANGED <<now, net, admission, acked, events, proc, performed>>

(* A command in the wrong state is rejected, which ends the process.         *)
RejectNew(t, c) ==
    /\ Listening
    /\ ~Receivable(t, c) \/ (c.type = "task.emergency_stop" /\ ~StopSettles(t))
    /\ ProcessFails
    /\ UNCHANGED <<now, latch, admission, effect, checkpoint, received, acked,
                   events, performed>>

(* An exact replay: a command that already has rows in the outbox only sends *)
(* them again; otherwise it is handled from the start.                       *)
Answered(t, k) ==
    \/ k \in acked[t]
    \/ \E i \in 1..Len(events[t]) : events[t][i].src = k

Resumable(t, k) ==
    CASE received[t][k].type \in Controls -> TRUE
      [] received[t][k].type = "action.execute" -> checkpoint[t].state = "running"
      [] OTHER -> checkpoint[t].state = "received"

ReceiveReplay(t, k) ==
    /\ Listening
    /\ ~Answered(t, k)
    /\ IF Resumable(t, k)
       THEN /\ op' = [stage |-> FirstStage(received[t][k].type), att |-> t,
                      k |-> k, result |-> "none"]
            /\ UNCHANGED <<net, proc>>
       ELSE ProcessFails
    /\ UNCHANGED <<now, latch, admission, effect, checkpoint, received, acked,
                   events, performed>>

AcknowledgeControl ==
    /\ op.stage = "ack"
    /\ acked' = [acked EXCEPT ![op.att] = @ \cup {op.k}]
    /\ op' = Idle
    /\ UNCHANGED <<now, latch, net, admission, effect, checkpoint, received,
                   events, proc, performed>>

(* The offer's or the discovery's outcome: accept plus one event (the chunks *)
(* of candidates before discovery.completed are left out).                   *)
CommitStart ==
    /\ op.stage = "start"
    /\ LET t == op.att
           offer == received[t][op.k].type = "task.offer"
       IN /\ events' = [events EXCEPT ![t] =
                Appended(t, IF offer THEN "task.started" ELSE "discovery.completed",
                         None, op.k, "event")]
          /\ checkpoint' = [checkpoint EXCEPT ![t] =
                [state |-> IF offer THEN "running" ELSE "terminal", ev |-> @.ev + 1]]
    /\ op' = Idle
    /\ UNCHANGED <<now, latch, net, admission, effect, received, acked, proc, performed>>

(* A discovery that raises or returns a foreign page is a rejected command.  *)
DiscoveryFails ==
    /\ op.stage = "start"
    /\ received[op.att][op.k].type = "task.discover"
    /\ ProcessFails
    /\ UNCHANGED <<now, latch, admission, effect, checkpoint, received, acked,
                   events, performed>>

-----------------------------------------------------------------------------
(* Controls at a safe checkpoint *)

ControlEvent(t) ==
    CASE Last(t).type = "task.pause" -> "task.paused"
      [] Last(t).type = "task.resume" -> "task.resumed"
      [] Last(t).type = "task.cancel" /\ ~EffectsOf(t, {"uncertain"}) -> "task.cancelled"
      [] OTHER -> "task.outcome_uncertain"

StateAfter(eventType) ==
    CASE eventType = "task.paused" -> "paused"
      [] eventType = "task.resumed" -> "running"
      [] eventType = "task.cancelled" -> "terminal"
      [] OTHER -> "outcome_uncertain"

AdvanceControl(t) ==
    /\ proc \in {"up", "connected"}
    /\ op = Idle
    /\ PendingControl(t)
    /\ events' = [events EXCEPT ![t] =
           Appended(t, ControlEvent(t), None, Len(received[t]), "event")]
    /\ checkpoint' = [checkpoint EXCEPT ![t] =
           [state |-> StateAfter(ControlEvent(t)), ev |-> @.ev + 1]]
    /\ UNCHANGED <<now, latch, net, admission, effect, received, acked, proc, op,
                   performed>>

-----------------------------------------------------------------------------
(* Running one action *)

(* The gate stamps authorized_at with its own clock at every call, and the   *)
(* ledger accepts a replay only if the stamp is the stored one.              *)
AdmissionsLike(a) == {b \in Actions : KindOf[b] = KindOf[a] /\ admission[b] # NotAdmitted}

AdmissionLimited(a) ==
    \/ latch = "engaged"
    \/ /\ admission[a] = NotAdmitted
       /\ \/ /\ \E b \in AdmissionsLike(a) : now - admission[b] < MinInterval
             /\ \A b \in AdmissionsLike(a) : now >= admission[b]
          \/ /\ \A b \in AdmissionsLike(a) : now - admission[b] >= MinInterval
             /\ Cardinality({b \in AdmissionsLike(a) : AttemptOf[b] = AttemptOf[a]})
                    >= TaskActionLimit

AdmissionRejected(a) ==
    /\ ~AdmissionLimited(a)
    /\ IF admission[a] = NotAdmitted
       THEN \E b \in AdmissionsLike(a) : now < admission[b]
       ELSE admission[a] # now

Admit(stage, next) ==
    /\ op.stage = stage
    /\ LET a == OpAction IN
       \/ /\ AdmissionLimited(a)
          /\ Finish("local_safety_limit")
          /\ UNCHANGED admission
       \/ /\ AdmissionRejected(a)
          /\ Finish("admission_rejected")
          /\ UNCHANGED admission
       \/ /\ ~AdmissionLimited(a) /\ ~AdmissionRejected(a)
          /\ admission' = [admission EXCEPT ![a] = now]
          /\ Goto(next)
    /\ UNCHANGED <<now, latch, net, effect, checkpoint, received, acked, events,
                   proc, performed>>

AdmitCommand == Admit("admit", "inspect")
AdmitInAction == Admit("admit_again", "prepare")

(* An effect that went past its preparation is only projected, never redone. *)
ProjectExisting ==
    /\ op.stage = "inspect"
    /\ LET a == OpAction IN
       /\ effect[a].state \in {"dispatched", "verified", "uncertain"}
       /\ Finish(IF effect[a].state = "verified" THEN "completed" ELSE "uncertain")
       /\ effect' = [effect EXCEPT ![a] =
              IF @.state = "dispatched" /\ now >= @.at
              THEN [state |-> "uncertain", at |-> 0] ELSE @]
    /\ UNCHANGED <<now, latch, net, admission, checkpoint, received, acked, events,
                   proc, performed>>

(* The leased browser: a browse ends here, a comment or a message goes on.   *)
OpenPage ==
    /\ op.stage = "inspect"
    /\ effect[OpAction].state \in {"none", "prepared"}
    /\ \/ Finish("failed")
       \/ /\ KindOf[OpAction] = "browse" /\ Finish("completed")
       \/ /\ KindOf[OpAction] # "browse" /\ Goto("admit_again")
    /\ UNCHANGED <<now, ledger, proc, performed>>

Deadline(a) == admission[a] + AuthLifetime

PrepareSideEffect ==
    /\ op.stage = "prepare"
    /\ LET a == OpAction
           permitted == now >= admission[a] /\ now < Deadline(a) /\ latch = "clear"
       IN \/ /\ effect[a].state = "prepared"
             /\ Goto("replay")
             /\ UNCHANGED effect
          \/ /\ effect[a].state = "none"
             /\ permitted
             /\ effect' = [effect EXCEPT ![a] = [state |-> "prepared", at |-> now]]
             /\ Goto("replay")
          \/ /\ effect[a].state = "none"
             /\ ~permitted
             /\ Finish("failed")
             /\ UNCHANGED effect
    /\ UNCHANGED <<now, latch, net, admission, checkpoint, received, acked, events,
                   proc, performed>>

(* No route, a failed precondition or a page that drifts, all before the     *)
(* external step: the effect stays prepared.                                 *)
ReplayFails ==
    /\ op.stage = "replay"
    /\ Finish("failed")
    /\ UNCHANGED <<now, ledger, proc, performed>>

\* Mutant: only a closed attempt blocks the permission.
DispatchBlockedWhenClosed(t) == checkpoint[t].state \in {"terminal", "outcome_uncertain"}

DispatchBlocked(t) ==
    \/ checkpoint[t].state \in {"terminal", "outcome_uncertain"}
    \/ /\ Last(t).type \in {"task.pause", "task.cancel", "task.emergency_stop"}
       /\ checkpoint[t].state \in {"running", "paused"}

DispatchPermitted(a) ==
    /\ now >= effect[a].at
    /\ now < Deadline(a)
    /\ ~DispatchBlocked(AttemptOf[a])
    /\ latch = "clear"
    /\ net = "online"

(* The replayer's hook, called before the external step.                     *)
BeginSideEffectDispatch ==
    /\ op.stage = "replay"
    /\ LET a == OpAction IN
       \/ /\ DispatchPermitted(a)
          /\ effect' = [effect EXCEPT ![a] = [state |-> "dispatched", at |-> now]]
          /\ Goto("act")
       \/ /\ ~DispatchPermitted(a)
          /\ Finish("failed")
          /\ UNCHANGED effect
    /\ UNCHANGED <<now, latch, net, admission, checkpoint, received, acked, events,
                   proc, performed>>

(* External: the click reaches the platform or not; success evidence is seen *)
(* only when it did, and may be missed.                                      *)
ActOnPage ==
    /\ op.stage = "act"
    /\ \/ /\ performed' = [performed EXCEPT ![OpAction] = @ + 1]
          /\ op' = [op EXCEPT !.stage = "settle", !.result = "confirmed"]
       \/ /\ performed' = [performed EXCEPT ![OpAction] = @ + 1]
          /\ Goto("settle")
       \/ /\ Goto("settle")
          /\ UNCHANGED performed
    /\ UNCHANGED <<now, ledger, proc>>

\* Mutant: the replay's outcome counts as confirmed without its evidence.
SettleSideEffectTrusting ==
    /\ op.stage = "settle"
    /\ effect' = [effect EXCEPT ![OpAction] = [state |-> "verified", at |-> 0]]
    /\ Finish("completed")
    /\ UNCHANGED <<now, latch, net, admission, checkpoint, received, acked, events,
                   proc, performed>>

(* Evidence seen: verified; otherwise uncertain.  A clock set back before    *)
(* the dispatch makes both transitions fail and leaves the row dispatched.   *)
SettleSideEffect ==
    /\ op.stage = "settle"
    /\ LET a == OpAction
           settles == now >= effect[a].at
           verified == settles /\ op.result = "confirmed"
       IN /\ effect' = [effect EXCEPT ![a] =
                 IF ~settles THEN @
                 ELSE [state |-> IF verified THEN "verified" ELSE "uncertain", at |-> 0]]
          /\ Finish(IF verified THEN "completed" ELSE "uncertain")
    /\ UNCHANGED <<now, latch, net, admission, checkpoint, received, acked, events,
                   proc, performed>>

(* action.accept, step.started and the fact, with the checkpoint, at once.   *)
CommitAction ==
    /\ op.stage = "commit"
    /\ LET t == op.att
           n == checkpoint[t].ev
           event(type, act, seq) == [type |-> type, act |-> act, seq |-> seq,
                                     src |-> op.k, key |-> "event"]
       IN /\ events' = [events EXCEPT ![t] =
                 @ \o <<event("step.started", OpAction, n + 1),
                        event(FactType(op.result), OpAction, n + 2)>>]
          /\ checkpoint' = [checkpoint EXCEPT ![t] =
                 [state |-> IF op.result = "uncertain" THEN "outcome_uncertain"
                            ELSE "running",
                  ev |-> n + 2]]
    /\ op' = Idle
    /\ UNCHANGED <<now, latch, net, admission, effect, received, acked, proc, performed>>

-----------------------------------------------------------------------------
(* Crash recovery, before the restarted process connects *)

RecoveryEvents(a) ==
    {i \in 1..Len(events[AttemptOf[a]]) :
        events[AttemptOf[a]][i].act = a /\ events[AttemptOf[a]][i].key = "recovery"}

InRecovery ==
    {a \in Actions : /\ effect[a].state # "none"
                     /\ checkpoint[AttemptOf[a]].state
                            \in {"running", "paused", "outcome_uncertain"}}

(* Effects past preparation with no recovery event of their own.             *)
Facts == {a \in InRecovery : RecoveryEvents(a) = {} /\ effect[a].state # "prepared"}

UncertainRecovered ==
    \E a \in InRecovery : \E i \in RecoveryEvents(a) :
        events[AttemptOf[a]][i].type = "task.outcome_uncertain"

\* Mutant: an effect that cannot be confirmed is offered for another try.
RecoverSettleForRetry(a) ==
    /\ proc = "recovering"
    /\ a \in Facts
    /\ effect[a].state = "dispatched"
    /\ now >= effect[a].at
    /\ effect' = [effect EXCEPT ![a] = [state |-> "prepared", at |-> now]]
    /\ UNCHANGED <<now, latch, net, admission, checkpoint, received, acked, events,
                   proc, op, performed>>

(* Without a page nothing can be confirmed: dispatched becomes uncertain.    *)
RecoverSettle(a) ==
    /\ proc = "recovering"
    /\ a \in Facts
    /\ effect[a].state = "dispatched"
    /\ now >= effect[a].at
    /\ effect' = [effect EXCEPT ![a] = [state |-> "uncertain", at |-> 0]]
    /\ UNCHANGED <<now, latch, net, admission, checkpoint, received, acked, events,
                   proc, op, performed>>

(* One uncertain fact is projected alone; otherwise every verified one is.   *)
Projectable(a) ==
    /\ a \in Facts
    /\ \A b \in Facts : effect[b].state # "dispatched"
    /\ ~UncertainRecovered
    /\ (\E b \in Facts : effect[b].state = "uncertain") => effect[a].state = "uncertain"

\* Mutant: the projection does not look at the attempt's checkpoint.
RecoverProjectAlways(a) ==
    /\ proc = "recovering"
    /\ Projectable(a)
    /\ LET t == AttemptOf[a] IN
       /\ events' = [events EXCEPT ![t] =
              Appended(t, IF effect[a].state = "uncertain" THEN "task.outcome_uncertain"
                          ELSE "step.completed", a, 1, "recovery")]
       /\ checkpoint' = [checkpoint EXCEPT ![t].ev = @ + 1]
    /\ UNCHANGED <<now, latch, net, admission, effect, received, acked, proc, op,
                   performed>>

RecoverProject(a) ==
    /\ proc = "recovering"
    /\ Projectable(a)
    /\ checkpoint[AttemptOf[a]].state \in {"running", "paused"}
    /\ LET t == AttemptOf[a]
           uncertain == effect[a].state = "uncertain"
       IN /\ events' = [events EXCEPT ![t] =
                 Appended(t, IF uncertain THEN "task.outcome_uncertain"
                             ELSE "step.completed", a, 1, "recovery")]
          /\ checkpoint' = [checkpoint EXCEPT ![t] =
                 [state |-> IF uncertain THEN "outcome_uncertain" ELSE @.state,
                  ev |-> @.ev + 1]]
    /\ UNCHANGED <<now, latch, net, admission, effect, received, acked, proc, op,
                   performed>>

(* A fact that cannot be settled or whose attempt is already uncertain ends  *)
(* the process before it connects.                                           *)
RecoverRejected ==
    /\ proc = "recovering"
    /\ \/ \E a \in Facts : effect[a].state = "dispatched" /\ now < effect[a].at
       \/ \E a \in Facts : /\ Projectable(a)
                           /\ checkpoint[AttemptOf[a]].state = "outcome_uncertain"
    /\ proc' = "stopped"
    /\ UNCHANGED <<now, ledger, op, performed>>

RecoverDone ==
    /\ proc = "recovering"
    /\ \A a \in Facts : effect[a].state # "dispatched"
    /\ Facts = {} \/ UncertainRecovered
    /\ proc' = "up"
    /\ net' = "offline"
    /\ UNCHANGED <<now, latch, admission, effect, checkpoint, received, acked,
                   events, op, performed>>

-----------------------------------------------------------------------------
Lifecycle ==
    \/ ClockMoves \/ StartPlain \/ StartRecovering \/ StartLocalEmergencyStop
    \/ Connect \/ Disconnect \/ Kill

Receive ==
    \E t \in Attempts :
        \/ \E c \in NextCommand(t) : ReceiveNew(t, c) \/ RejectNew(t, c)
        \/ \E k \in 1..Len(received[t]) : ReceiveReplay(t, k)

Handle ==
    \/ AcknowledgeControl \/ CommitStart \/ DiscoveryFails
    \/ AdmitCommand \/ ProjectExisting \/ OpenPage \/ AdmitInAction
    \/ PrepareSideEffect \/ ReplayFails \/ BeginSideEffectDispatch
    \/ ActOnPage \/ SettleSideEffect \/ CommitAction

Recover ==
    \/ \E a \in Actions : RecoverSettle(a) \/ RecoverProject(a)
    \/ RecoverRejected \/ RecoverDone

Next ==
    \/ Lifecycle \/ Receive \/ Handle \/ Recover
    \/ \E t \in Attempts : AdvanceControl(t)

Spec == Init /\ [][Next]_vars

-----------------------------------------------------------------------------
(* Properties *)

\* Type correctness of the ledger rows, the process and the platform's count.
TypeOK ==
    /\ now \in Time
    /\ latch \in {"clear", "engaged"}
    /\ net \in {"offline", "online"}
    /\ admission \in [Actions -> Time \cup {NotAdmitted}]
    /\ effect \in [Actions -> [state : EffectStates, at : Time]]
    /\ checkpoint \in [Attempts -> [state : CheckpointStates, ev : Nat]]
    /\ received \in [Attempts -> Seq(Command)]
    /\ acked \in [Attempts -> SUBSET Nat]
    /\ events \in [Attempts -> Seq(Event)]
    /\ proc \in {"stopped", "killed", "recovering", "up", "connected"}
    /\ op \in [stage : Stages, att : Attempts \cup {None}, k : Nat, result : Results]
    /\ performed \in [Actions -> Nat]

\* However often the process dies, is restarted and is sent the command again,
\* the platform sees one action's comment or message at most once: the point of
\* begin_side_effect_dispatch granting a single permission.
AtMostOncePerformed == \A a \in Actions : performed[a] <= 1

\* A step.completed event for a comment or a message is only ever written, by the
\* handler or by crash recovery, after the platform saw it.
SuccessIsTrue ==
    \A t \in Attempts : \A i \in 1..Len(events[t]) :
        LET e == events[t][i] IN
        e.type = "step.completed" /\ KindOf[e.act] # "browse" => performed[e.act] = 1

\* task.cancelled promises that the attempt left nothing in doubt: no effect of
\* it is, then or ever after, dispatched or uncertain.
CancelledIsClean ==
    \A t \in Attempts :
        (\E i \in 1..Len(events[t]) : events[t][i].type = "task.cancelled")
            => ~EffectsOf(t, {"dispatched", "uncertain"})

\* A paused attempt has no action in flight on the platform.
PausedIsQuiet ==
    \A t \in Attempts : checkpoint[t].state = "paused" => ~EffectsOf(t, {"dispatched"})

\* The platform never sees an effect once the latch is engaged or the attempt's
\* latest command asks it to pause, to cancel or to stop.
NoEffectAfterStop ==
    [][\A a \in Actions : performed'[a] # performed[a] =>
         /\ latch = "clear"
         /\ checkpoint[AttemptOf[a]].state = "running"
         /\ Last(AttemptOf[a]).type
                \notin {"task.pause", "task.cancel", "task.emergency_stop"}]_vars

\* Once an attempt is terminal or uncertain nothing more is reported or performed
\* for it, whatever is redelivered or recovered.
ClosedAttemptIsSilent ==
    [][\A t \in Attempts :
         checkpoint[t].state \in {"terminal", "outcome_uncertain"} =>
             /\ events'[t] = events[t]
             /\ checkpoint'[t] = checkpoint[t]
             /\ \A a \in Actions : AttemptOf[a] = t => performed'[a] = performed[a]]_vars

\* The control plane accepts only last_event_sequence + 1: the events of an
\* attempt number 1, 2, 3, ... without a gap across batches, controls and
\* recovery, and the checkpoint counts them.
EventsContiguous ==
    \A t \in Attempts :
        /\ checkpoint[t].ev = Len(events[t])
        /\ \A i \in 1..Len(events[t]) : events[t][i].seq = i

\* Two admissions of one kind are at least the minimum interval apart, even when
\* the wall clock is set back in between.
AdmissionsSpaced ==
    \A a \in Actions : \A b \in AdmissionsLike(a) \ {a} :
        admission[a] # NotAdmitted =>
            \/ admission[a] - admission[b] >= MinInterval
            \/ admission[b] - admission[a] >= MinInterval

(* What the ledger row of an action tells the contract.                      *)
Verdict ==
    [a \in Actions |->
        CASE effect[a].state \in {"none", "prepared"} -> "open"
          [] effect[a].state = "dispatched" -> "permitted"
          [] effect[a].state = "verified" -> "confirmed"
          [] OTHER -> "unknown"]

Contract == INSTANCE SideEffectContract WITH verdict <- Verdict

\* The executor, with its crashes, restarts and replays, implements the contract:
\* one permission per action, one performance under it, a truthful final verdict.
ImplementsContract == Contract!Spec

-----------------------------------------------------------------------------
(* Liveness *)

(* The handler, the poll and the recovery pass run on as long as the process *)
(* lives; the supervisor or the user starts it again, and it reconnects.     *)
(* Nothing is assumed of the control plane: a command is sent again only     *)
(* until its deadline (one minute for a control), and one that arrives later *)
(* is dropped without an answer.                                             *)
Fairness ==
    /\ WF_vars(Handle)
    /\ WF_vars(Recover)
    /\ WF_vars(StartPlain \/ StartRecovering)
    /\ WF_vars(Connect)
    /\ \A t \in Attempts : WF_vars(AdvanceControl(t))

FairSpec == Spec /\ Fairness

UnmetControl(t) ==
    /\ received[t] # << >>
    /\ Last(t).type \in Controls
    /\ checkpoint[t].state \in RequiredStates(Last(t).type)

\* Killed after the control was stored and before it was acknowledged: only the
\* same command sent again, before its deadline, has it acknowledged.
Orphaned(t) ==
    /\ Len(received[t]) \notin acked[t]
    /\ ~(op.stage = "ack" /\ op.att = t)

\* Unless the process is killed for ever, a control in the ledger reaches its safe
\* checkpoint without being sent again, across kills, restarts and lost
\* connections. Two exceptions: an effect of the attempt is left dispatched, which
\* pause and cancel wait for; the process was killed before it acknowledged the
\* control.
ControlConverges ==
    <>[][~Kill]_vars =>
        \A t \in Attempts :
            UnmetControl(t)
                ~> (~UnmetControl(t) \/ EffectsOf(t, {"dispatched"}) \/ Orphaned(t))

-----------------------------------------------------------------------------
(* What the documents say and the code does not do *)

\* A step.failed result promises that nothing was dispatched: after the permission
\* no failure may fall back to a plain failure.
FailedMeansNotPerformed ==
    \A t \in Attempts : \A i \in 1..Len(events[t]) :
        LET e == events[t][i] IN
        e.type = "step.failed" => performed[e.act] = 0

\* An action the ledger has admitted is admitted again as an exact replay.
AdmissionReplayed ==
    op.stage = "commit" /\ op.result = "admission_rejected"
        => admission[OpAction] = NotAdmitted

\* An emergency stop once in the ledger converges to task.outcome_uncertain, if the
\* process is killed only finitely often.
EmergencyStopConverges ==
    <>[][~Kill]_vars =>
        \A t \in Attempts :
            (UnmetControl(t) /\ Last(t).type = "task.emergency_stop")
                ~> ~UnmetControl(t)
=============================================================================
