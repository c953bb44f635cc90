------------------------- MODULE TaskDispatchProofs -------------------------
(***************************************************************************)
(* Proofs about TaskDispatch, for every set of targets, every failure      *)
(* threshold and every bound: which statuses a step may leave, that what is*)
(* stored is storable, and what the Control Plane's rows and the executor's*)
(* outbox say of each other.                                               *)
(***************************************************************************)
EXTENDS TaskDispatch, FiniteSetTheorems, TLAPS

(* The four rows a finished task must keep.                                  *)
record == <<task, attempt, lastEvent, action>>

-----------------------------------------------------------------------------
(* Which steps change the record, and from which statuses.                   *)

(* A finished task has no edge to another status.                            *)
LEMMA TerminalHasNoTransition ==
    ASSUME task \in TerminalStatus
    PROVE  TaskTransitions[task] = {} /\ task \notin {"queued", "running", "paused", "cancelling"}
BY DEF TaskTransitions, TerminalStatus

(* A control moves both rows to cancelling, from a status that allows it, or *)
(* neither.                                                                  *)
LEMMA ControlMoves ==
    ASSUME NEW type \in UserControls, EnqueueControl(type)
    PROVE  /\ UNCHANGED <<lastEvent, action>>
           /\ \/ UNCHANGED <<task, attempt>>
              \/ /\ task' = "cancelling" /\ attempt' = "cancelling"
                 /\ "cancelling" \in TaskTransitions[task]
<1>1. CASE type \in Terminations
  BY <1>1 DEF EnqueueControl, Controllable, Terminations
<1>2. CASE type \notin Terminations
  BY <1>2 DEF EnqueueControl
<1> QED
  BY <1>1, <1>2

(* Orchestration writes the record only for a queued or a running task.      *)
LEMMA AdvanceMoves ==
    ASSUME AdvanceTask
    PROVE  \/ UNCHANGED record
           \/ task = "queued" /\ attempt' = "offered" /\ UNCHANGED task
           \/ task = "running" /\ task' = attempt'
           \/ task = "running" /\ UNCHANGED <<task, attempt>>
<1>1. CASE FillGap
  BY <1>1 DEF FillGap, record
<1>2. CASE OfferNextConfirmed
  BY <1>2 DEF OfferNextConfirmed
<1>3. CASE Idle
  BY <1>3 DEF Idle, database, record
<1>4. CASE FinalizeCompletedTask
  BY <1>4 DEF FinalizeCompletedTask, Running
<1>5. CASE AuthorizeLimited
  BY <1>5 DEF AuthorizeLimited, database, record
<1>6. CASE AuthorizeRejected
  BY <1>6 DEF AuthorizeRejected, database, record
<1>7. CASE AuthorizeGranted
  BY <1>7 DEF AuthorizeGranted, Running
<1>8. CASE EnqueueAuthorized
  BY <1>8 DEF EnqueueAuthorized, record
<1>9. ASSUME NEW a \in Actions, NextTarget(a) PROVE UNCHANGED record
  BY <1>9 DEF NextTarget, database, record
<1> QED
  BY <1>1, <1>2, <1>3, <1>4, <1>5, <1>6, <1>7, <1>8, <1>9 DEF AdvanceTask

(* Dispatching changes the commands only.                                    *)
LEMMA DispatchMoves == DispatchCurrent => UNCHANGED record
BY DEF DispatchCurrent, ExpireDue, MarkDelivered, BatchEnds, ClaimNext, ReleaseForRetry,
   database, record

(* An executor event moves both rows to the same status, or neither, and     *)
(* only for a task that is not finished.                                     *)
LEMMA ConvergeMoves ==
    ASSUME Converge
    PROVE  /\ task' = attempt' \/ UNCHANGED <<task, attempt>>
           /\ task \notin TerminalStatus
<1>1. Convergent(Row)
  BY DEF Converge
<1>2. \/ task = "running"
      \/ task \in {"running", "cancelling"}
      \/ TaskTransitions[task] # {}
  BY <1>1 DEF Convergent, Movable
<1>3. task \notin TerminalStatus
  BY <1>2, TerminalHasNoTransition
<1>4. task' = attempt' \/ UNCHANGED <<task, attempt>>
  BY DEF Converge
<1> QED
  BY <1>3, <1>4

(* Of the messages received only a new event changes the record.             *)
LEMMA ReceiveMoves ==
    ASSUME ReceiveOne
    PROVE  UNCHANGED record \/ Converge
BY DEF ReceiveOne, ReceiveMessage, Acknowledge, ConvergeDuplicate, ConvergeRejected,
   ReceiveTimeout, ReceiveClose, database, record

(* Deadlines, connections and the executor's own steps do not touch it.      *)
LEMMA OtherMoves ==
    ASSUME \/ \E k \in DOMAIN commands : DeadlinePasses(k)
           \/ Connect \/ ConnectionLost \/ Execute \/ Kill \/ Recover
    PROVE  UNCHANGED record
<1>1. CASE \E k \in DOMAIN commands : DeadlinePasses(k)
  BY <1>1 DEF DeadlinePasses, record
<1>2. CASE Connect \/ ConnectionLost \/ Kill
  BY <1>2 DEF Connect, ConnectionLost, Kill, database, record
<1>3. CASE Execute
  BY <1>3 DEF Execute, NoticeClose, IgnoreExpired, ResendAnswer, RefuseCommand, AcceptOffer,
     BeginAction, HandleControl, HandleEmergencyStop, FinishAction, database, record
<1>4. CASE Recover
  BY <1>4 DEF Recover, RecoverBusy, RecoverEnds, RecoverProject, database, record
<1> QED
  BY <1>1, <1>2, <1>3, <1>4

-----------------------------------------------------------------------------
(* The task and its attempt never tell different stories: every transaction  *)
(* that moves one of the rows moves the other with it, whichever of the      *)
(* requests, the orchestration and the convergence commits first.            *)
THEOREM TaskAndAttemptAgree == Spec => []TaskAttemptAgree
<1>1. Init => TaskAttemptAgree
  BY DEF Init, TaskAttemptAgree
<1>2. TaskAttemptAgree /\ [Next]_vars => TaskAttemptAgree'
  <2> SUFFICES ASSUME TaskAttemptAgree, [Next]_vars PROVE TaskAttemptAgree'
    OBVIOUS
  <2> USE DEF TaskAttemptAgree
  <2>1. ASSUME NEW type \in UserControls, EnqueueControl(type) PROVE TaskAttemptAgree'
    BY <2>1, ControlMoves
  <2>2. CASE AdvanceTask
    BY <2>2, AdvanceMoves DEF record
  <2>3. CASE DispatchCurrent
    BY <2>3, DispatchMoves DEF record
  <2>4. CASE ReceiveOne
    BY <2>4, ReceiveMoves, ConvergeMoves DEF record
  <2>5. CASE \/ \E k \in DOMAIN commands : DeadlinePasses(k)
             \/ Connect \/ ConnectionLost \/ Execute \/ Kill \/ Recover
    BY <2>5, OtherMoves DEF record
  <2>6. CASE UNCHANGED vars
    BY <2>6 DEF vars, database
  <2> QED
    BY <2>1, <2>2, <2>3, <2>4, <2>5, <2>6 DEF Next
<1> QED
  BY <1>1, <1>2, PTL DEF Spec

(* Nothing that arrives or is replayed later changes a finished task: not a  *)
(* late control, not a resent or recovered event, not the orchestration.     *)
THEOREM TerminalStays == Spec => TerminalIsFinal
<1>1. [Next]_vars => ((task \in TerminalStatus) => UNCHANGED record)
  <2> SUFFICES ASSUME [Next]_vars, task \in TerminalStatus PROVE UNCHANGED record
    OBVIOUS
  <2>0. TaskTransitions[task] = {} /\ task \notin {"queued", "running", "paused", "cancelling"}
    BY TerminalHasNoTransition
  <2>1. ASSUME NEW type \in UserControls, EnqueueControl(type) PROVE UNCHANGED record
    BY <2>0, <2>1, ControlMoves DEF record
  <2>2. CASE AdvanceTask
    BY <2>0, <2>2, AdvanceMoves
  <2>3. CASE DispatchCurrent
    BY <2>3, DispatchMoves
  <2>4. CASE ReceiveOne
    BY <2>4, ReceiveMoves, ConvergeMoves
  <2>5. CASE \/ \E k \in DOMAIN commands : DeadlinePasses(k)
             \/ Connect \/ ConnectionLost \/ Execute \/ Kill \/ Recover
    BY <2>5, OtherMoves
  <2>6. CASE UNCHANGED vars
    BY <2>6 DEF vars, database, record
  <2> QED
    BY <2>1, <2>2, <2>3, <2>4, <2>5, <2>6 DEF Next
<1> QED
  BY <1>1, PTL DEF Spec, TerminalIsFinal, record

-----------------------------------------------------------------------------
(* The rows and the frames: what they hold, and what they refer to.          *)
StepTypes == {"step.started", "step.completed", "step.failed"}
StateTypes ==
    {"task.started", "task.paused", "task.resumed", "task.cancelled", "task.outcome_uncertain"}

(* What a command and an outbox row may hold.                                *)
CommandOK(k) ==
    /\ commands[k] \in Command
    /\ commands[k].type = "action.execute" => commands[k].act \in Actions
RowOK(i) ==
    /\ outbox[i] \in OutboxRow
    /\ outbox[i].src \in 1..checkpoint.last
    /\ outbox[i].act # None =>
          outbox[i].act \in Actions /\ outbox[i].type \in StepTypes \cup {"task.outcome_uncertain"}
    /\ outbox[i].type \in StepTypes => outbox[i].act \in Actions

(* Everything underway or held in memory refers to what is stored.           *)
References ==
    /\ down \in Seq(1..Len(commands))
    /\ up \in Seq(1..Len(outbox))
    /\ handler.pc = "mark" => handler.k \in 1..Len(commands)
    /\ handler.pc \in {"authorize", "enqueue"} => handler.act \in Actions
    /\ checkpoint.last \in 0..Len(commands)
    /\ checkpoint.state # "absent" => checkpoint.last > 0
    /\ busy # 0 =>
          /\ busy \in 1..checkpoint.last
          /\ commands[busy].type = "action.execute"
          /\ checkpoint.state = "running"

Stored ==
    /\ TypeOK
    /\ attempt = "none" => commands = << >>
    /\ \A k \in 1..Len(commands) : CommandOK(k)
    /\ \A i \in 1..Len(outbox) : RowOK(i)
    /\ References

(* The frame to be read, and the rest of the stream.                         *)
LEMMA HeadOf ==
    ASSUME NEW S, NEW q \in Seq(S), q # << >>
    PROVE  Head(q) \in S /\ Tail(q) \in Seq(S)
OBVIOUS

(* The next frame to the Control Plane is a row of the outbox.              *)
LEMMA HeadUp ==
    ASSUME Stored, up # << >>
    PROVE  Head(up) \in 1..Len(outbox) /\ RowOK(Head(up))
BY HeadOf DEF Stored, References

(* The next frame to the executor is a stored command.                      *)
LEMMA HeadDown ==
    ASSUME Stored, down # << >>
    PROVE  Head(down) \in 1..Len(commands) /\ CommandOK(Head(down))
BY HeadOf DEF Stored, References

-----------------------------------------------------------------------------
(* Commands are only appended, and keep their type and their action.         *)
CommandSteps ==
    /\ commands' \in Seq(Command)
    /\ Len(commands) <= Len(commands')
    /\ \A k \in 1..Len(commands) :
          commands'[k].type = commands[k].type /\ commands'[k].act = commands[k].act
    /\ \A k \in 1..Len(commands') : k > Len(commands) =>
          /\ commands'[k] \in Command
          /\ commands'[k].type = "action.execute" => commands'[k].act \in Actions

(* A new command leaves the stored ones as they are.                        *)
LEMMA Appending ==
    ASSUME Stored, NEW type \in Controls \cup {"task.offer", "action.execute"},
           NEW act \in Actions \cup {None}, type = "action.execute" => act \in Actions,
           commands' = Append(commands, NewCommand(type, act))
    PROVE  CommandSteps
<1> DEFINE c == NewCommand(type, act)
<1>1. c \in Command /\ c.type = type /\ c.act = act
  BY DEF NewCommand, Command, Unsettled
<1>2. commands \in Seq(Command)
  BY DEF Stored, TypeOK
<1> HIDE DEF c
<1>3. /\ commands' \in Seq(Command)
      /\ Len(commands) \in Nat
      /\ Len(commands') = Len(commands) + 1
      /\ \A k \in 1..Len(commands) : commands'[k] = commands[k]
      /\ commands'[Len(commands) + 1] = c
  BY <1>1, <1>2 DEF c
<1>4. \A k \in 1..Len(commands') : k > Len(commands) => commands'[k] = c
  BY <1>3
<1> QED
  BY <1>1, <1>3, <1>4 DEF CommandSteps

(* Restating one command's delivery leaves its content and the others       *)
(* alone.                                                                   *)
LEMMA Updating ==
    ASSUME Stored, NEW status \in Unsettled \cup {"acknowledged", "expired"},
           NEW k \in 1..Len(commands), commands' = [commands EXCEPT ![k].status = status]
    PROVE  CommandSteps
<1>1. commands \in Seq(Command)
  BY DEF Stored, TypeOK
<1>2. commands[k] \in Command
  BY <1>1
<1>3. [commands[k] EXCEPT !.status = status] \in Command
  BY <1>2 DEF Command
<1>4. commands' = [commands EXCEPT ![k] = [commands[k] EXCEPT !.status = status]]
  OBVIOUS
<1>5. commands' \in Seq(Command) /\ Len(commands') = Len(commands)
  BY <1>1, <1>3, <1>4
<1>6. \A j \in 1..Len(commands) :
         commands'[j].type = commands[j].type /\ commands'[j].act = commands[j].act
  BY <1>1, <1>2 DEF Command
<1> QED
  BY <1>1, <1>5, <1>6 DEF CommandSteps

(* No step withdraws or rewrites a command.                                 *)
LEMMA CommandStep == ASSUME Stored, [Next]_vars PROVE CommandSteps
<1>0. commands \in Seq(Command)
  BY DEF Stored, TypeOK
<1>1. CASE UNCHANGED commands
  BY <1>0, <1>1 DEF CommandSteps
<1>2. ASSUME NEW type \in UserControls, EnqueueControl(type) PROVE CommandSteps
  <2>1. type \in Controls
    BY ConstantsAssumption DEF Controls, Terminations, PauseResume
  <2> QED
    BY <1>2, <2>1, Appending DEF EnqueueControl, Controls, Terminations, PauseResume
<1>3. ASSUME NEW k \in DOMAIN commands, DeadlinePasses(k) PROVE CommandSteps
  <2>0. commands[k] \in Command
    BY <1>0
  <2>1. [commands[k] EXCEPT !.late = TRUE] \in Command
    BY <2>0 DEF Command
  <2>2. commands' = [commands EXCEPT ![k] = [commands[k] EXCEPT !.late = TRUE]]
    BY <1>3 DEF DeadlinePasses
  <2>3. commands' \in Seq(Command) /\ Len(commands') = Len(commands)
    BY <1>0, <2>1, <2>2
  <2> QED
    BY <1>0, <2>1, <2>2, <2>3 DEF CommandSteps, Command
<1>4. ASSUME NEW a \in Actions, EnqueueAuthorizedOf(a) PROVE CommandSteps
  <2>1. CASE Running
    BY <1>4, <2>1, Appending DEF EnqueueAuthorizedOf
  <2> QED
    BY <1>1, <1>4, <2>1 DEF EnqueueAuthorizedOf
<1>5. CASE OfferNextConfirmed
  <2>1. commands = << >>
    BY <1>5 DEF OfferNextConfirmed, Stored
  <2>2. commands' = Append(commands, NewCommand("task.offer", None))
    BY <1>5, <2>1 DEF OfferNextConfirmed
  <2> QED
    BY <2>2, Appending
<1>6. CASE ExpireDue
  <2> DEFINE Expired(k) == IF commands[k].late /\ commands[k].status \in Unsettled
                           THEN [commands[k] EXCEPT !.status = "expired"] ELSE commands[k]
  <2>1. commands' = [k \in 1..Len(commands) |-> Expired(k)] /\ Len(commands) \in Nat
    BY <1>0, <1>6 DEF ExpireDue
  <2>2. ASSUME NEW k \in 1..Len(commands)
        PROVE  /\ Expired(k) \in Command
               /\ Expired(k).type = commands[k].type /\ Expired(k).act = commands[k].act
    <3>1. commands[k] \in Command
      BY <1>0
    <3>2. CASE Expired(k) = commands[k]
      BY <3>1, <3>2
    <3>3. CASE Expired(k) = [commands[k] EXCEPT !.status = "expired"]
      <4> HIDE DEF Expired
      <4> QED
        BY <3>1, <3>3 DEF Command
    <3> QED
      BY <3>2, <3>3
  <2> HIDE DEF Expired
  <2>3. commands' \in Seq(Command) /\ Len(commands') = Len(commands)
    BY <2>1, <2>2
  <2> QED
    BY <2>1, <2>2, <2>3 DEF CommandSteps
<1>7. ASSUME NEW k \in DOMAIN commands, ClaimNext(k) \/ ReleaseForRetry(k) PROVE CommandSteps
  BY <1>0, <1>7, Updating DEF ClaimNext, ReleaseForRetry, Unsettled
<1>8. CASE MarkDelivered
  BY <1>8, Updating DEF MarkDelivered, At, Stored, References, Unsettled
<1>9. CASE Acknowledge
  <2>2. Row.src \in 1..Len(commands)
    BY <1>9, HeadUp DEF Acknowledge, Row, RowOK, Stored, References
  <2>3. \/ UNCHANGED commands
        \/ commands' = [commands EXCEPT ![Row.src].status = "acknowledged"]
        \/ commands' = [commands EXCEPT ![Row.src].status = "expired"]
    BY <1>9 DEF Acknowledge
  <2> QED
    BY <1>1, <2>2, <2>3, Updating
<1>10. CASE FillGap \/ EnqueueAuthorized
  <2>1. \E a \in Actions : EnqueueAuthorizedOf(a)
    BY <1>10 DEF FillGap, EnqueueAuthorized, Uncommanded, At, Stored, References
  <2> QED
    BY <1>4, <2>1
<1>11. CASE AdvanceTask
  BY <1>1, <1>5, <1>10, <1>11 DEF AdvanceTask, Idle, FinalizeCompletedTask, AuthorizeLimited,
     AuthorizeRejected, AuthorizeGranted, NextTarget, database
<1>12. CASE DispatchCurrent
  BY <1>1, <1>6, <1>7, <1>8, <1>12 DEF DispatchCurrent, BatchEnds, database
<1>13. CASE ReceiveOne
  BY <1>1, <1>9, <1>13 DEF ReceiveOne, ReceiveMessage, Converge, ConvergeDuplicate,
     ConvergeRejected, ReceiveTimeout, ReceiveClose, database
<1>14. CASE Connect \/ ConnectionLost \/ Kill \/ UNCHANGED vars
  BY <1>1, <1>14 DEF Connect, ConnectionLost, Kill, vars, database
<1>15. CASE Execute
  BY <1>1, <1>15 DEF Execute, NoticeClose, IgnoreExpired, ResendAnswer, RefuseCommand,
     AcceptOffer, BeginAction, HandleControl, HandleEmergencyStop, FinishAction, database
<1>16. CASE Recover
  BY <1>1, <1>16 DEF Recover, RecoverBusy, RecoverEnds, RecoverProject, database
<1> QED
  BY <1>2, <1>3, <1>11, <1>12, <1>13, <1>14, <1>15, <1>16 DEF Next

-----------------------------------------------------------------------------
(* The executor's outbox is only appended to, in batches of three kinds.     *)

StateOf(type) ==
    CASE type \in {"task.started", "task.resumed"} -> "running"
      [] type = "task.paused" -> "paused"
      [] type = "task.cancelled" -> "terminal"
      [] OTHER -> "outcome_uncertain"

(* A command that moves the attempt is answered and projected.               *)
Answers(k, type) ==
    /\ k = checkpoint.last + 1 /\ busy' = 0
    /\ outbox' = outbox \o <<Ack(k), Event(type, None, k, 1)>>
    /\ checkpoint' = [state |-> StateOf(type), last |-> k, ev |-> checkpoint.ev + 1]
    /\ type = "task.started" => checkpoint.state = "absent"
    /\ type # "task.started" => checkpoint.state \in {"running", "paused"}

(* An action ends with its fact.                                             *)
Reports(type) ==
    /\ busy # 0 /\ busy' = 0
    /\ outbox' = outbox \o <<Ack(busy), Event("step.started", commands[busy].act, busy, 1),
                             Event(type, commands[busy].act, busy, 2)>>
    /\ checkpoint'.ev = checkpoint.ev + 2
    /\ checkpoint'.last = checkpoint.last
    /\ checkpoint'.state = IF type = "task.outcome_uncertain" THEN "outcome_uncertain"
                           ELSE checkpoint.state

(* Crash recovery reports on the action that was running, or on one that was *)
(* reported as carried out.                                                  *)
Recovers(a, type) ==
    /\ busy' = 0
    /\ \/ busy # 0 /\ commands[busy].act = a
       \/ type = "step.completed" /\ Reported(a, type)
    /\ outbox' = Append(outbox, Event(type, a, 1, 1))
    /\ checkpoint.state \in {"running", "paused"}
    /\ checkpoint'.ev = checkpoint.ev + 1
    /\ checkpoint'.last = checkpoint.last
    /\ checkpoint'.state = IF type = "task.outcome_uncertain" THEN "outcome_uncertain"
                           ELSE checkpoint.state

(* Most steps leave the outbox alone.                                        *)
Untouched ==
    /\ outbox' = outbox
    /\ checkpoint'.state = checkpoint.state /\ checkpoint'.ev = checkpoint.ev
    /\ checkpoint'.last \in {checkpoint.last, checkpoint.last + 1}

Appends ==
    \/ \E k \in 1..Len(commands) : \E type \in StateTypes : Answers(k, type)
    \/ \E type \in {"step.completed", "step.failed", "task.outcome_uncertain"} : Reports(type)
    \/ \E a \in Actions : \E type \in {"step.completed", "task.outcome_uncertain"} :
           Recovers(a, type)

(* The outbox is left alone or appended to.                                 *)
LEMMA OutboxStep ==
    ASSUME Stored, [Next]_vars
    PROVE  Untouched \/ Appends
<1>0. /\ checkpoint \in [state : {"absent", "running", "paused", "terminal", "outcome_uncertain"},
                         last : Nat, ev : Nat]
      /\ down # << >> => Head(down) \in 1..Len(commands)
  <2>1. down # << >> => Head(down) \in 1..Len(commands)
    BY HeadDown
  <2> QED
    BY <2>1 DEF Stored, TypeOK
<1>1. CASE UNCHANGED <<checkpoint, outbox>>
  BY <1>1 DEF Untouched
<1>2. CASE AcceptOffer
  <2>1. /\ checkpoint.state = "absent" /\ Head(down) \in 1..Len(commands)
        /\ Head(down) = checkpoint.last + 1 /\ busy' = 0
        /\ outbox' = outbox \o <<Ack(Head(down)), Event("task.started", None, Head(down), 1)>>
        /\ checkpoint' = [state |-> "running", last |-> Head(down), ev |-> checkpoint.ev + 1]
    BY <1>0, <1>2 DEF AcceptOffer, Ready, Fits, RequiredStates
  <2>2. Answers(Head(down), "task.started")
    BY <2>1 DEF Answers, StateOf
  <2> QED
    BY <2>1, <2>2 DEF StateTypes, Appends
<1>3. CASE HandleControl \/ HandleEmergencyStop
  <2> DEFINE k == Head(down)
             type == ControlEvent(commands[k].type)
  <2>1. /\ k \in 1..Len(commands) /\ commands[k].type \in Controls
        /\ k = checkpoint.last + 1 /\ busy' = 0
        /\ checkpoint.state \in RequiredStates(commands[k].type)
        /\ outbox' = outbox \o Projected(k) /\ checkpoint' = CheckpointAfter(k)
    BY <1>0, <1>3 DEF HandleControl, HandleEmergencyStop, Ready, Fits, Controls, Terminations
  <2>2. checkpoint.state \in {"running", "paused"}
    BY <2>1 DEF RequiredStates, Controls, Terminations, PauseResume
  <2>3. /\ type \in StateTypes \ {"task.started"}
        /\ StateOf(type) = StateAfter(commands[k].type)
    BY <2>1 DEF ControlEvent, StateOf, StateAfter, StateTypes, Controls, Terminations,
       PauseResume
  <2>4. Answers(k, type)
    BY <2>1, <2>2, <2>3 DEF Answers, Projected, CheckpointAfter
  <2> QED
    BY <2>1, <2>3, <2>4 DEF Appends
<1>4. ASSUME NEW type \in {"step.completed", "step.failed", "task.outcome_uncertain"},
             FinishAction(type)
      PROVE  Reports(type)
  BY <1>0, <1>4 DEF FinishAction, Reports
<1>5. ASSUME NEW a \in Actions, NEW type \in {"step.completed", "task.outcome_uncertain"},
             RecoveryEvent(a, type), checkpoint.state \in {"running", "paused"}, busy' = 0,
             \/ busy # 0 /\ commands[busy].act = a
             \/ type = "step.completed" /\ Reported(a, type)
      PROVE  Recovers(a, type)
  BY <1>0, <1>5 DEF RecoveryEvent, Recovers
<1>6. CASE Recover
  <2>1. CASE RecoverBusy
    <3>1. busy \in 1..Len(commands) /\ commands[busy].act \in Actions
          /\ checkpoint.state = "running" /\ busy # 0 /\ busy' = 0
      BY <2>1 DEF RecoverBusy, Stored, References, CommandOK
    <3>2. \/ UNCHANGED <<checkpoint, outbox>>
          \/ \E type \in {"step.completed", "task.outcome_uncertain"} :
                 RecoveryEvent(commands[busy].act, type)
      BY <2>1 DEF RecoverBusy
    <3> QED
      BY <1>1, <1>5, <3>1, <3>2 DEF Appends
  <2>2. ASSUME NEW a \in Actions, RecoverProject(a) PROVE Recovers(a, "step.completed")
    BY <1>5, <2>2 DEF RecoverProject, Facts
  <2>3. CASE RecoverEnds
    BY <1>1, <2>3 DEF RecoverEnds
  <2> QED
    BY <1>6, <2>1, <2>2, <2>3 DEF Recover, Appends
<1>7. CASE BeginAction
  <2>1. /\ outbox' = outbox
        /\ checkpoint' = [checkpoint EXCEPT !.last = IF Fits(Head(down)) THEN Head(down) ELSE @]
    BY <1>7 DEF BeginAction
  <2>2. Fits(Head(down)) => Head(down) = checkpoint.last + 1
    BY DEF Fits
  <2>3. \/ checkpoint' = [checkpoint EXCEPT !.last = @ + 1]
        \/ checkpoint' = checkpoint
    BY <1>0, <2>1, <2>2
  <2> QED
    BY <1>0, <2>1, <2>3 DEF Untouched
<1>8. CASE Execute
  <2>1. CASE NoticeClose \/ IgnoreExpired \/ ResendAnswer \/ RefuseCommand
    BY <1>1, <2>1 DEF NoticeClose, IgnoreExpired, ResendAnswer, RefuseCommand, executor
  <2>2. ASSUME NEW type \in {"step.completed", "step.failed", "task.outcome_uncertain"},
               FinishAction(type)
        PROVE  Appends
    BY <1>4, <2>2 DEF Appends
  <2> QED
    BY <1>2, <1>3, <1>7, <1>8, <2>1, <2>2 DEF Execute
<1>9. CASE \/ \E type \in UserControls : EnqueueControl(type)
           \/ \E k \in DOMAIN commands : DeadlinePasses(k)
           \/ UNCHANGED vars
  BY <1>1, <1>9 DEF EnqueueControl, DeadlinePasses, vars, executor
<1>10. CASE AdvanceTask
  BY <1>1, <1>10 DEF AdvanceTask, FillGap, OfferNextConfirmed, Idle, FinalizeCompletedTask,
     AuthorizeLimited, AuthorizeRejected, AuthorizeGranted, EnqueueAuthorized, NextTarget,
     EnqueueAuthorizedOf, CloseRejected, executor
<1>11. CASE DispatchCurrent
  BY <1>1, <1>11 DEF DispatchCurrent, ExpireDue, MarkDelivered, BatchEnds, ClaimNext,
     ReleaseForRetry, executor
<1>12. CASE ReceiveOne
  BY <1>1, <1>12 DEF ReceiveOne, ReceiveMessage, Acknowledge, Converge, ConvergeDuplicate,
     ConvergeRejected, CloseRejected, ReceiveTimeout, ReceiveClose, executor
<1>13. CASE Connect \/ ConnectionLost \/ Kill
  BY <1>1, <1>13 DEF Connect, ConnectionLost, Kill, executor
<1> QED
  BY <1>6, <1>8, <1>9, <1>10, <1>11, <1>12, <1>13 DEF Next

(* What any step adds to the outbox: events with new numbers, at most one    *)
(* that gives the attempt its state, and that one last.                      *)
EventAt(i) == outbox[i].type # "ack"
StateAt(i) == outbox[i].type \in StateTypes

Grown ==
    /\ outbox' \in Seq(OutboxRow)
    /\ Len(outbox) <= Len(outbox')
    /\ \A i \in 1..Len(outbox) : outbox'[i] = outbox[i]
    /\ checkpoint'.ev \in Nat /\ checkpoint.ev <= checkpoint'.ev
    /\ checkpoint'.last \in Nat /\ checkpoint.last <= checkpoint'.last
    /\ checkpoint'.state # checkpoint.state => Len(outbox') > Len(outbox) /\ StateAt(Len(outbox))'
    /\ checkpoint'.state = "absent" => checkpoint.state = "absent" /\ checkpoint'.ev = checkpoint.ev

NewRow(i) ==
    /\ RowOK(i)'
    /\ EventAt(i)' => outbox'[i].ev \in (checkpoint.ev + 1)..checkpoint'.ev
    /\ \A j \in 1..Len(outbox') :
          i < j /\ EventAt(i)' /\ EventAt(j)' => outbox'[i].ev < outbox'[j].ev
    /\ StateAt(i)' =>
          /\ i = Len(outbox')
          /\ StateOf(outbox'[i].type) = checkpoint'.state
          /\ checkpoint.state \notin {"terminal", "outcome_uncertain"}
    /\ outbox'[i].type = "task.started" => checkpoint.state = "absent" /\ checkpoint'.ev = checkpoint.ev + 1

(* Appending one, two or three rows to a sequence.                           *)
LEMMA OneMore ==
    ASSUME NEW S, NEW q \in Seq(S), NEW a \in S
    PROVE  LET r == Append(q, a) IN
           /\ r \in Seq(S) /\ Len(q) \in Nat /\ Len(r) = Len(q) + 1
           /\ \A i \in 1..Len(q) : r[i] = q[i]
           /\ r[Len(q) + 1] = a
OBVIOUS

(* Two elements appended to a sequence.                                     *)
LEMMA TwoMore ==
    ASSUME NEW S, NEW q \in Seq(S), NEW a \in S, NEW b \in S
    PROVE  LET r == q \o <<a, b>> IN
           /\ r \in Seq(S) /\ Len(q) \in Nat /\ Len(r) = Len(q) + 2
           /\ \A i \in 1..Len(q) : r[i] = q[i]
           /\ r[Len(q) + 1] = a /\ r[Len(q) + 2] = b
OBVIOUS

(* Three elements appended to a sequence.                                   *)
LEMMA ThreeMore ==
    ASSUME NEW S, NEW q \in Seq(S), NEW a \in S, NEW b \in S, NEW c \in S
    PROVE  LET r == q \o <<a, b, c>> IN
           /\ r \in Seq(S) /\ Len(q) \in Nat /\ Len(r) = Len(q) + 3
           /\ \A i \in 1..Len(q) : r[i] = q[i]
           /\ r[Len(q) + 1] = a /\ r[Len(q) + 2] = b /\ r[Len(q) + 3] = c
OBVIOUS

(* An acknowledgement names its command and no action.                      *)
LEMMA AckFields ==
    ASSUME NEW k \in Nat
    PROVE  Ack(k) \in OutboxRow /\ Ack(k).type = "ack" /\ Ack(k).src = k /\ Ack(k).act = None
BY DEF Ack, OutboxRow

(* The answer to a command is committed as one batch of rows.               *)
LEMMA AnswersGrow ==
    ASSUME Stored, NEW k \in 1..Len(commands), NEW type \in StateTypes, Answers(k, type)
    PROVE  /\ Grown
           /\ \A i \in 1..Len(outbox') : i > Len(outbox) => NewRow(i)
           /\ \A i \in 1..Len(outbox') : i > Len(outbox) => outbox'[i].act = None /\ outbox'[i].src = k
<1> DEFINE n == Len(outbox)
           e == Event(type, None, k, 1)
<1>0. /\ k \in Nat /\ type \in EventTypes /\ outbox \in Seq(OutboxRow) /\ type # "ack"
      /\ checkpoint.ev \in Nat
  BY DEF Stored, TypeOK, StateTypes, EventTypes
<1>1. /\ Ack(k) \in OutboxRow /\ Ack(k).type = "ack" /\ Ack(k).src = k /\ Ack(k).act = None
      /\ e \in OutboxRow /\ e.type = type /\ e.act = None /\ e.src = k
      /\ e.ev = checkpoint.ev + 1
  <2>1. /\ Ack(k) \in OutboxRow /\ Ack(k).type = "ack" /\ Ack(k).src = k /\ Ack(k).act = None
    BY <1>0, AckFields
  <2>2. /\ e \in OutboxRow /\ e.type = type /\ e.act = None /\ e.src = k
        /\ e.ev = checkpoint.ev + 1
    BY <1>0 DEF Event, OutboxRow
  <2> QED
    BY <2>1, <2>2
<1>2. outbox' = outbox \o <<Ack(k), e>>
  BY DEF Answers
<1>3. /\ checkpoint'.state = StateOf(type) /\ checkpoint'.last = k /\ k = checkpoint.last + 1
      /\ checkpoint'.ev = checkpoint.ev + 1
      /\ checkpoint.ev \in Nat /\ checkpoint.last \in Nat
      /\ type = "task.started" => checkpoint.state = "absent"
      /\ checkpoint.state \notin {"terminal", "outcome_uncertain"}
  BY DEF Answers, Stored, TypeOK
<1>4. StateOf(type) # "absent"
  BY DEF StateOf
<1> HIDE DEF e
<1>5. /\ outbox' \in Seq(OutboxRow) /\ n \in Nat /\ Len(outbox') = n + 2
      /\ \A i \in 1..n : outbox'[i] = outbox[i]
      /\ outbox'[n + 1] = Ack(k) /\ outbox'[n + 2] = e
  BY <1>0, <1>1, <1>2, TwoMore
<1>6. \A i \in 1..Len(outbox') : i > n => i \in {n + 1, n + 2}
  BY <1>5
<1> HIDE DEF n
<1>7. Grown
  BY <1>1, <1>3, <1>4, <1>5 DEF Grown, StateAt, n
<1>8. ASSUME NEW i \in 1..Len(outbox'), i > n PROVE NewRow(i) /\ outbox'[i].act = None /\ outbox'[i].src = k
  <2>1. CASE i = n + 1
    <3>1. outbox'[i] = Ack(k)
      BY <1>5, <2>1
    <3>2. RowOK(i)'
      BY <1>1, <1>3, <3>1 DEF RowOK, StateTypes, StepTypes
    <3> QED
      BY <1>1, <3>1, <3>2 DEF NewRow, EventAt, StateAt, StateTypes
  <2>2. CASE i = n + 2
    <3>1. outbox'[i] = e /\ i = Len(outbox')
      BY <1>5, <2>2
    <3>2. RowOK(i)'
      BY <1>0, <1>1, <1>3, <3>1 DEF RowOK, StateTypes, StepTypes
    <3>3. \A j \in 1..Len(outbox') : ~(i < j)
      BY <1>5, <3>1
    <3> QED
      BY <1>0, <1>1, <1>3, <3>1, <3>2, <3>3 DEF NewRow, EventAt, StateAt
  <2> QED
    BY <1>6, <1>8, <2>1, <2>2
<1> QED
  BY <1>7, <1>8 DEF n

(* The result of an action is committed with the acknowledgement of its     *)
(* command.                                                                 *)
LEMMA ReportsGrow ==
    ASSUME Stored, NEW type \in {"step.completed", "step.failed", "task.outcome_uncertain"},
           Reports(type)
    PROVE  /\ Grown
           /\ \A i \in 1..Len(outbox') : i > Len(outbox) => NewRow(i)
           /\ \A i \in 1..Len(outbox') : i > Len(outbox) =>
                 /\ outbox'[i].src = busy
                 /\ \/ outbox'[i].act = None /\ outbox'[i].type = "ack"
                    \/ /\ outbox'[i].act = commands[busy].act
                       /\ outbox'[i].type \in {"step.started", type}
<1> DEFINE n == Len(outbox)
           k == busy
           a == commands[busy].act
           s == Event("step.started", a, k, 1)
           e == Event(type, a, k, 2)
<1>0. /\ k \in Nat /\ k \in 1..checkpoint.last /\ type \in EventTypes /\ outbox \in Seq(OutboxRow)
      /\ type # "ack" /\ a \in Actions /\ a # None
      /\ checkpoint.ev \in Nat /\ checkpoint.last \in Nat /\ checkpoint.state = "running"
  BY ConstantsAssumption DEF Stored, TypeOK, References, CommandOK, EventTypes, Reports
<1>1. /\ Ack(k) \in OutboxRow /\ Ack(k).type = "ack" /\ Ack(k).src = k /\ Ack(k).act = None
      /\ s \in OutboxRow /\ s.type = "step.started" /\ s.act = a /\ s.src = k
      /\ s.ev = checkpoint.ev + 1
      /\ e \in OutboxRow /\ e.type = type /\ e.act = a /\ e.src = k
      /\ e.ev = checkpoint.ev + 2
  <2> HIDE DEF k, a
  <2>1. /\ Ack(k) \in OutboxRow /\ Ack(k).type = "ack" /\ Ack(k).src = k /\ Ack(k).act = None
    BY <1>0, AckFields
  <2>2. /\ e \in OutboxRow /\ e.type = type /\ e.act = a /\ e.src = k
        /\ e.ev = checkpoint.ev + 2
    BY <1>0 DEF Event, OutboxRow
  <2>3. /\ s \in OutboxRow /\ s.type = "step.started" /\ s.act = a /\ s.src = k
        /\ s.ev = checkpoint.ev + 1
    BY <1>0 DEF Event, OutboxRow, EventTypes
  <2> QED
    BY <2>1, <2>2, <2>3
<1>2. outbox' = outbox \o <<Ack(k), s, e>>
  BY DEF Reports
<1>3. /\ checkpoint'.ev = checkpoint.ev + 2 /\ checkpoint'.last = checkpoint.last
      /\ checkpoint'.state = IF type = "task.outcome_uncertain" THEN "outcome_uncertain"
                             ELSE "running"
  BY <1>0 DEF Reports
<1> HIDE DEF k, a, s, e
<1>5. /\ outbox' \in Seq(OutboxRow) /\ n \in Nat /\ Len(outbox') = n + 3
      /\ \A i \in 1..n : outbox'[i] = outbox[i]
      /\ outbox'[n + 1] = Ack(k) /\ outbox'[n + 2] = s /\ outbox'[n + 3] = e
  BY <1>0, <1>1, <1>2, ThreeMore
<1>6. \A i \in 1..Len(outbox') : i > n => i \in {n + 1, n + 2, n + 3}
  BY <1>5
<1> HIDE DEF n
<1>7. Grown
  BY <1>0, <1>1, <1>3, <1>5 DEF Grown, StateAt, StateTypes, n
<1>8. ASSUME NEW i \in 1..Len(outbox'), i > n
      PROVE  /\ NewRow(i)
             /\ outbox'[i].src = k
             /\ \/ outbox'[i].act = None /\ outbox'[i].type = "ack"
                \/ outbox'[i].act = a /\ outbox'[i].type \in {"step.started", type}
  <2>1. CASE i = n + 1
    <3>1. outbox'[i] = Ack(k)
      BY <1>5, <2>1
    <3>2. RowOK(i)'
      BY <1>0, <1>1, <1>3, <3>1 DEF RowOK, StateTypes, StepTypes
    <3> QED
      BY <1>1, <3>1, <3>2 DEF NewRow, EventAt, StateAt, StateTypes
  <2>2. CASE i = n + 2
    <3>1. outbox'[i] = s
      BY <1>5, <2>2
    <3>2. RowOK(i)'
      BY <1>0, <1>1, <1>3, <3>1 DEF RowOK, StateTypes, StepTypes
    <3>3. \A j \in 1..Len(outbox') : i < j => outbox'[j] = e
      BY <1>5, <1>6, <2>2
    <3> QED
      BY <1>0, <1>1, <1>3, <3>1, <3>2, <3>3 DEF NewRow, EventAt, StateAt, StateTypes
  <2>3. CASE i = n + 3
    <3>1. outbox'[i] = e /\ i = Len(outbox')
      BY <1>5, <2>3
    <3>2. RowOK(i)'
      BY <1>0, <1>1, <1>3, <3>1 DEF RowOK, StateTypes, StepTypes
    <3>3. \A j \in 1..Len(outbox') : ~(i < j)
      BY <1>5, <3>1
    <3>4. type \in StateTypes => type = "task.outcome_uncertain"
      BY DEF StateTypes
    <3> QED
      BY <1>0, <1>1, <1>3, <3>1, <3>2, <3>3, <3>4 DEF NewRow, EventAt, StateAt, StateOf
  <2> QED
    BY <1>6, <1>8, <2>1, <2>2, <2>3
<1> QED
  BY <1>7, <1>8 DEF n, k, a

(* The recovery commits the result of an action left open.                  *)
LEMMA RecoversGrow ==
    ASSUME Stored, NEW a \in Actions, NEW type \in {"step.completed", "task.outcome_uncertain"},
           Recovers(a, type)
    PROVE  /\ Grown
           /\ \A i \in 1..Len(outbox') : i > Len(outbox) => NewRow(i)
           /\ \A i \in 1..Len(outbox') : i > Len(outbox) =>
                 outbox'[i].src = 1 /\ outbox'[i].act = a /\ outbox'[i].type = type
<1> DEFINE n == Len(outbox)
           e == Event(type, a, 1, 1)
<1>0. /\ type \in EventTypes /\ outbox \in Seq(OutboxRow) /\ type # "ack" /\ a # None
      /\ checkpoint.ev \in Nat /\ checkpoint.last \in Nat /\ checkpoint.last > 0
      /\ checkpoint.state \in {"running", "paused"}
  BY ConstantsAssumption DEF Stored, TypeOK, References, EventTypes, Recovers
<1>1. /\ e \in OutboxRow /\ e.type = type /\ e.act = a /\ e.src = 1
      /\ e.ev = checkpoint.ev + 1
  BY <1>0 DEF Event, OutboxRow
<1>2. outbox' = Append(outbox, e)
  BY DEF Recovers
<1>3. /\ checkpoint'.ev = checkpoint.ev + 1 /\ checkpoint'.last = checkpoint.last
      /\ checkpoint'.state = IF type = "task.outcome_uncertain" THEN "outcome_uncertain"
                             ELSE checkpoint.state
  BY <1>0 DEF Recovers
<1> HIDE DEF e
<1>5. /\ outbox' \in Seq(OutboxRow) /\ n \in Nat /\ Len(outbox') = n + 1
      /\ \A i \in 1..n : outbox'[i] = outbox[i]
      /\ outbox'[n + 1] = e
  BY <1>0, <1>1, <1>2, OneMore
<1> HIDE DEF n
<1>7. Grown
  BY <1>0, <1>1, <1>3, <1>5 DEF Grown, StateAt, StateTypes, n
<1>8. ASSUME NEW i \in 1..Len(outbox'), i > n
      PROVE  NewRow(i) /\ outbox'[i].src = 1 /\ outbox'[i].act = a /\ outbox'[i].type = type
  <2>1. outbox'[i] = e /\ i = Len(outbox')
    BY <1>5, <1>8
  <2>2. RowOK(i)'
    BY <1>0, <1>1, <1>3, <2>1 DEF RowOK, StateTypes, StepTypes
  <2>3. \A j \in 1..Len(outbox') : ~(i < j)
    BY <1>5, <2>1
  <2>4. type \in StateTypes => type = "task.outcome_uncertain"
    BY DEF StateTypes
  <2> QED
    BY <1>0, <1>1, <1>3, <2>1, <2>2, <2>3, <2>4 DEF NewRow, EventAt, StateAt, StateOf
<1> QED
  BY <1>7, <1>8 DEF n

(* Rows are only appended, each of a shape the outbox may hold.             *)
LEMMA Growing ==
    ASSUME Stored, [Next]_vars
    PROVE  Grown /\ \A i \in 1..Len(outbox') : i > Len(outbox) => NewRow(i)
<1>1. CASE Untouched
  BY <1>1 DEF Untouched, Grown, Stored, TypeOK
<1>2. CASE Appends
  BY <1>2, AnswersGrow, ReportsGrow, RecoversGrow DEF Appends
<1> QED
  BY <1>1, <1>2, OutboxStep

-----------------------------------------------------------------------------
(* What is stored and underway keeps its type and its references.            *)

(* A sequence over a set is one over any larger set.                        *)
LEMMA WiderSeq ==
    ASSUME NEW S, NEW T, S \subseteq T, NEW q \in Seq(S)
    PROVE  q \in Seq(T)
OBVIOUS

(* Frames name rows of the outbox, commands rows of task_commands.           *)
Frames(q) == q \in Seq(1..Len(outbox'))
WiresOK ==
    /\ conn' \in {"none", "open", "closing", "rejected", "lost"}
    /\ proc' \in {"online", "offline", "exited", "killed"}
    /\ down' \in Seq(1..Len(commands'))
    /\ up' \in Seq(1..Len(outbox'))

(* What was on the wires still names stored commands and rows.              *)
LEMMA OldWires ==
    ASSUME Stored, [Next]_vars
    PROVE  /\ conn \in {"none", "open", "closing", "rejected", "lost"}
           /\ proc \in {"online", "offline", "exited", "killed"}
           /\ down \in Seq(1..Len(commands')) /\ up \in Seq(1..Len(outbox'))
           /\ << >> \in Seq(1..Len(commands')) /\ << >> \in Seq(1..Len(outbox'))
           /\ down # << >> => Tail(down) \in Seq(1..Len(commands'))
           /\ up # << >> => Tail(up) \in Seq(1..Len(outbox'))
<1>1. /\ Len(commands) \in Nat /\ Len(commands') \in Nat /\ Len(commands) <= Len(commands')
      /\ commands' \in Seq(Command)
  <2>1. commands \in Seq(Command)
    BY DEF Stored, TypeOK
  <2>2. commands' \in Seq(Command) /\ Len(commands) <= Len(commands')
    BY CommandStep DEF CommandSteps
  <2> QED
    BY <2>1, <2>2
<1>2. Len(outbox) \in Nat /\ Len(outbox') \in Nat /\ Len(outbox) <= Len(outbox')
  BY Growing DEF Grown, Stored, TypeOK
<1>3. 1..Len(commands) \subseteq 1..Len(commands') /\ 1..Len(outbox) \subseteq 1..Len(outbox')
  BY <1>1, <1>2
<1>4. down \in Seq(1..Len(commands')) /\ up \in Seq(1..Len(outbox'))
  BY <1>3, WiderSeq DEF Stored, References
<1>5. /\ down # << >> => Tail(down) \in Seq(1..Len(commands'))
      /\ up # << >> => Tail(up) \in Seq(1..Len(outbox'))
  BY <1>4, HeadOf
<1> QED
  BY <1>4, <1>5 DEF Stored, TypeOK

(* Two sequences over a set, one after the other.                           *)
LEMMA Joining ==
    ASSUME NEW S, NEW q \in Seq(S), NEW r \in Seq(S)
    PROVE  q \o r \in Seq(S)
OBVIOUS

(* Frames that are sent name stored commands and rows.                      *)
LEMMA Sending ==
    ASSUME Stored, [Next]_vars, NEW frames, Frames(frames),
           NEW rest \in Seq(1..Len(commands')), Send(frames, rest)
    PROVE  WiresOK
<1>1. up \o frames \in Seq(1..Len(outbox'))
  BY OldWires, Joining DEF Frames
<1> QED
  BY <1>1, OldWires DEF Send, WiresOK

(* A process or connection that ends leaves such frames, or none.           *)
LEMMA Leaving ==
    ASSUME Stored, [Next]_vars, NEW status \in {"exited", "offline", "killed"}, Leave(status),
           Frames(up')
    PROVE  WiresOK
BY OldWires DEF Leave, WiresOK, Frames

(* The indexes of appended elements lie in the longer sequence.             *)
LEMMA IndexesFit ==
    ASSUME NEW n \in Nat, NEW l \in Nat
    PROVE  [i \in 1..l |-> n + i] \in Seq(1..(n + l))
OBVIOUS

(* The frames of a committed batch are rows of the outbox.                  *)
LEMMA BatchFrames ==
    ASSUME Stored, NEW b \in Seq(OutboxRow), outbox' = outbox \o b
    PROVE  Frames(Indexes(b))
<1>1. outbox \in Seq(OutboxRow) /\ Len(outbox) \in Nat /\ Len(b) \in Nat
  BY DEF Stored, TypeOK
<1>2. Len(outbox') = Len(outbox) + Len(b)
  BY <1>1
<1> QED
  BY <1>1, <1>2, IndexesFit DEF Frames, Indexes

(* Every step keeps the frames on the wires stored commands and rows.       *)
LEMMA WiresStep == ASSUME Stored, [Next]_vars PROVE WiresOK
<1>0. /\ outbox \in Seq(OutboxRow) /\ commands \in Seq(Command) /\ checkpoint.ev \in Nat
  BY DEF Stored, TypeOK
<1>1. CASE UNCHANGED <<conn, proc, down, up>>
  BY <1>1, OldWires DEF WiresOK
<1>2. CASE CloseRejected
  BY <1>2, OldWires DEF CloseRejected, WiresOK, executor
<1>3. ASSUME UNCHANGED <<conn, proc, down>>, up # << >>, up' = Tail(up) PROVE WiresOK
  BY <1>3, OldWires DEF WiresOK
<1>4. CASE \/ \E type \in UserControls : EnqueueControl(type)
           \/ \E k \in DOMAIN commands : DeadlinePasses(k)
           \/ UNCHANGED vars
  BY <1>1, <1>4 DEF EnqueueControl, DeadlinePasses, vars, executor, wires
<1>5. ASSUME NEW a, EnqueueAuthorizedOf(a) PROVE WiresOK
  BY <1>1, <1>2, <1>5 DEF EnqueueAuthorizedOf, wires, executor
<1>6. CASE AdvanceTask
  BY <1>1, <1>5, <1>6 DEF AdvanceTask, FillGap, OfferNextConfirmed, Idle, FinalizeCompletedTask,
     AuthorizeLimited, AuthorizeRejected, AuthorizeGranted, EnqueueAuthorized, NextTarget,
     executor, wires
<1>7. CASE DispatchCurrent
  <2>1. ASSUME NEW k \in DOMAIN commands, ClaimNext(k) PROVE WiresOK
    <3>1. k \in 1..Len(commands')
      BY <1>0, CommandStep DEF CommandSteps
    <3>2. down' \in Seq(1..Len(commands'))
      BY <2>1, <3>1, OldWires, OneMore DEF ClaimNext
    <3> QED
      BY <2>1, <3>2, OldWires DEF ClaimNext, executor, WiresOK
  <2> QED
    BY <1>1, <1>7, <2>1 DEF DispatchCurrent, ExpireDue, MarkDelivered, BatchEnds,
       ReleaseForRetry, executor, wires
<1>8. CASE ReceiveOne
  <2>1. CASE ReceiveClose
    BY <2>1, OldWires DEF ReceiveClose, executor, WiresOK
  <2>2. CASE Acknowledge
    BY <1>2, <1>3, <2>2 DEF Acknowledge, executor
  <2> QED
    BY <1>1, <1>2, <1>3, <1>8, <2>1, <2>2 DEF ReceiveOne, ReceiveMessage, Converge,
       ConvergeDuplicate, ConvergeRejected, ReceiveTimeout, executor, wires
<1>9. CASE Connect
  <2>1. up' = [i \in 1..Len(outbox') |-> i] /\ Len(outbox') \in Nat
    BY <1>0, <1>9 DEF Connect
  <2>2. up' \in Seq(1..Len(outbox'))
    BY <2>1
  <2> QED
    BY <1>9, <2>2, OldWires DEF Connect, WiresOK
<1>10. CASE ConnectionLost
  BY <1>10, OldWires DEF ConnectionLost, executor, WiresOK
<1>11. CASE Kill
  BY <1>11, OldWires, Leaving DEF Kill, Frames
<1>12. CASE Recover
  <2>1. CASE RecoverEnds
    BY <2>1, OldWires DEF RecoverEnds, wires, WiresOK
  <2> QED
    BY <1>1, <1>12, <2>1 DEF Recover, RecoverBusy, RecoverProject, wires
<1>13. CASE NoticeClose \/ RefuseCommand
  BY <1>13, OldWires, Leaving DEF NoticeClose, RefuseCommand, Frames
<1>14. CASE IgnoreExpired \/ BeginAction
  BY <1>14, OldWires DEF IgnoreExpired, BeginAction, Ready, executor, WiresOK
<1>15. CASE ResendAnswer
  <2>1. PICK rows \in RowsOf(Head(down)) : Send(rows, Tail(down))
    BY <1>15 DEF ResendAnswer
  <2>2. Rows(Head(down)) \subseteq 1..Len(outbox)
    BY DEF Rows
  <2>3. Cardinality(Rows(Head(down))) \in Nat
    <3>1. IsFiniteSet(1..Len(outbox))
      BY <1>0, FS_Interval
    <3>2. IsFiniteSet(Rows(Head(down)))
      BY <2>2, <3>1, FS_Subset
    <3> QED
      BY <3>2, FS_CardinalityType
  <2>4. rows \in [1..Cardinality(Rows(Head(down))) -> 1..Len(outbox)]
    BY <2>2 DEF RowsOf
  <2>5. Frames(rows)
    BY <1>15, <2>3, <2>4 DEF Frames, ResendAnswer
  <2> QED
    BY <1>15, <2>1, <2>5, OldWires, Sending DEF ResendAnswer, Ready
<1>16. CASE AcceptOffer
  <2> DEFINE b == <<Ack(Head(down)), Event("task.started", None, Head(down), 1)>>
  <2>1. b \in Seq(OutboxRow)
    BY <1>0, <1>16, HeadDown DEF Ack, Event, OutboxRow, EventTypes, AcceptOffer, Ready
  <2>2. outbox' = outbox \o b /\ Send(Indexes(b), Tail(down)) /\ down # << >>
    BY <1>16 DEF AcceptOffer, Ready
  <2> HIDE DEF b
  <2> QED
    BY <2>1, <2>2, BatchFrames, OldWires, Sending
<1>17. CASE HandleControl \/ HandleEmergencyStop
  <2> DEFINE b == Projected(Head(down))
  <2>1. ControlEvent(commands[Head(down)].type) \in EventTypes
    BY DEF ControlEvent, EventTypes
  <2>2. b \in Seq(OutboxRow)
    BY <1>0, <1>17, <2>1, HeadDown DEF Ack, Event, OutboxRow, HandleControl,
       HandleEmergencyStop, Ready, Projected
  <2>3. outbox' = outbox \o b /\ down # << >>
    BY <1>17 DEF HandleControl, HandleEmergencyStop, Ready
  <2>4. Frames(Indexes(b))
    BY <2>2, <2>3, BatchFrames
  <2>5. CASE HandleControl
    BY <2>3, <2>4, <2>5, OldWires, Sending DEF HandleControl
  <2>6. CASE HandleEmergencyStop
    <3>1. Frames(up')
      BY <2>4, <2>6, OldWires, Joining DEF HandleEmergencyStop, Frames
    <3> QED
      BY <2>6, <3>1, Leaving DEF HandleEmergencyStop
  <2> QED
    BY <1>17, <2>5, <2>6
<1>18. ASSUME NEW type \in {"step.completed", "step.failed", "task.outcome_uncertain"},
              FinishAction(type)
       PROVE  WiresOK
  <2> DEFINE a == commands[busy].act
             b == <<Ack(busy), Event("step.started", a, busy, 1), Event(type, a, busy, 2)>>
  <2>1. busy \in Nat /\ a \in Actions
    BY <1>18 DEF FinishAction, Stored, TypeOK, References, CommandOK
  <2>2. outbox' = outbox \o b /\ Send(Indexes(b), down)
    BY <1>18 DEF FinishAction
  <2> HIDE DEF a
  <2>3. b \in Seq(OutboxRow)
    BY <1>0, <2>1 DEF Ack, Event, OutboxRow, EventTypes
  <2> HIDE DEF b
  <2> QED
    BY <2>2, <2>3, BatchFrames, OldWires, Sending
<1>19. CASE Execute
  BY <1>13, <1>14, <1>15, <1>16, <1>17, <1>18, <1>19 DEF Execute
<1> QED
  BY <1>4, <1>6, <1>7, <1>8, <1>9, <1>10, <1>11, <1>12, <1>19 DEF Next

(* The checkpoint follows the commands received, and an action runs only     *)
(* while the attempt does.                                                   *)
CheckpointOK ==
    /\ checkpoint' \in [state : {"absent", "running", "paused", "terminal", "outcome_uncertain"},
                         last : Nat, ev : Nat]
    /\ checkpoint'.last \in 0..Len(commands')
    /\ checkpoint'.state # "absent" => checkpoint'.last > 0
    /\ busy' \in Nat
    /\ busy' # 0 =>
          /\ busy' \in 1..checkpoint'.last
          /\ commands'[busy'].type = "action.execute"
          /\ checkpoint'.state = "running"

(* Every step keeps the executor's checkpoint within its types.             *)
LEMMA CheckpointStep == ASSUME Stored, [Next]_vars PROVE CheckpointOK
<1>0. /\ checkpoint \in [state : {"absent", "running", "paused", "terminal", "outcome_uncertain"},
                         last : Nat, ev : Nat]
      /\ checkpoint.last \in 0..Len(commands)
      /\ checkpoint.state # "absent" => checkpoint.last > 0
      /\ busy \in Nat
      /\ busy # 0 => /\ busy \in 1..checkpoint.last
                     /\ commands[busy].type = "action.execute"
                     /\ checkpoint.state = "running"
      /\ outbox \in Seq(OutboxRow) /\ commands \in Seq(Command)
  BY DEF Stored, TypeOK, References
<1>1. /\ Len(commands) \in Nat /\ Len(commands') \in Nat /\ Len(commands) <= Len(commands')
      /\ \A k \in 1..Len(commands) : commands'[k].type = commands[k].type
  <2>1. /\ commands' \in Seq(Command) /\ Len(commands) <= Len(commands')
        /\ \A k \in 1..Len(commands) : commands'[k].type = commands[k].type
    BY CommandStep DEF CommandSteps
  <2> QED
    BY <1>0, <2>1
<1>2. CASE UNCHANGED <<checkpoint, busy>>
  BY <1>0, <1>1, <1>2 DEF CheckpointOK
<1>3. ASSUME NEW state \in {"running", "paused", "terminal", "outcome_uncertain"},
             NEW k \in 1..Len(commands), NEW ev \in Nat,
             checkpoint' = [state |-> state, last |-> k, ev |-> ev], busy' = 0
      PROVE  CheckpointOK
  BY <1>0, <1>1, <1>3 DEF CheckpointOK
<1>4. CASE AcceptOffer
  <2>1. Head(down) \in 1..Len(commands) /\ busy' = 0
    BY <1>4, HeadDown DEF AcceptOffer, Ready
  <2>2. checkpoint' = [state |-> "running", last |-> Head(down), ev |-> checkpoint.ev + 1]
        /\ checkpoint.ev + 1 \in Nat
    BY <1>0, <1>4 DEF AcceptOffer
  <2> QED
    BY <1>3, <2>1, <2>2
<1>5. CASE HandleControl \/ HandleEmergencyStop
  <2> DEFINE k == Head(down)
  <2>1. k \in 1..Len(commands) /\ busy' = 0
    BY <1>5, HeadDown DEF HandleControl, HandleEmergencyStop, Ready
  <2>2. /\ checkpoint' = [state |-> StateAfter(commands[k].type), last |-> k,
                          ev |-> checkpoint.ev + 1]
        /\ checkpoint.ev + 1 \in Nat
    BY <1>0, <1>5 DEF HandleControl, HandleEmergencyStop, CheckpointAfter
  <2>3. StateAfter(commands[k].type) \in {"running", "paused", "terminal", "outcome_uncertain"}
    BY DEF StateAfter
  <2> HIDE DEF k
  <2> QED
    BY <1>3, <2>1, <2>2, <2>3
<1>6. CASE BeginAction
  <2> DEFINE k == Head(down)
  <2>1. /\ k \in 1..Len(commands) /\ busy' = k
        /\ commands[k].type = "action.execute"
        /\ checkpoint' = [checkpoint EXCEPT !.last = IF Fits(k) THEN k ELSE @]
        /\ Fits(k) \/ Unanswered(k)
    BY <1>6, HeadDown DEF BeginAction, Ready
  <2>2. Fits(k) => checkpoint.state = "running"
    BY <2>1 DEF Fits, RequiredStates
  <2>3. ~Fits(k) => checkpoint.state = "running" /\ k <= checkpoint.last
    BY <2>1 DEF Unanswered
  <2> HIDE DEF k
  <2>4. checkpoint'.state = "running" /\ checkpoint'.last \in k..Len(commands)
        /\ checkpoint' \in [state : {"absent", "running", "paused", "terminal",
                                     "outcome_uncertain"}, last : Nat, ev : Nat]
    BY <1>0, <2>1, <2>2, <2>3
  <2> QED
    BY <1>0, <1>1, <2>1, <2>4 DEF CheckpointOK
<1>7. ASSUME busy' = 0, NEW n \in Nat, NEW type,
             checkpoint' = [checkpoint EXCEPT
                 !.state = IF type = "task.outcome_uncertain" THEN "outcome_uncertain" ELSE @,
                 !.ev = @ + n],
             checkpoint.state # "absent"
      PROVE  CheckpointOK
  <2>1. /\ checkpoint' \in [state : {"absent", "running", "paused", "terminal",
                                     "outcome_uncertain"}, last : Nat, ev : Nat]
        /\ checkpoint'.last = checkpoint.last
    <3>1. PICK state \in {checkpoint.state, "outcome_uncertain"} :
             checkpoint' = [checkpoint EXCEPT !.state = state, !.ev = checkpoint.ev + n]
      BY <1>7
    <3>2. checkpoint.ev + n \in Nat
      BY <1>0
    <3> QED
      BY <1>0, <3>1, <3>2
  <2> QED
    BY <1>0, <1>1, <1>7, <2>1 DEF CheckpointOK
<1>8. ASSUME NEW type \in {"step.completed", "step.failed", "task.outcome_uncertain"},
             FinishAction(type)
      PROVE  CheckpointOK
  BY <1>0, <1>7, <1>8 DEF FinishAction
<1>9. ASSUME NEW a, NEW type, RecoveryEvent(a, type), checkpoint.state # "absent", busy' = 0
      PROVE  CheckpointOK
  BY <1>7, <1>9 DEF RecoveryEvent
<1>10. CASE Recover
  <2>1. CASE RecoverBusy
    <3>1. CASE UNCHANGED <<checkpoint, outbox>>
      BY <1>0, <1>1, <2>1, <3>1 DEF RecoverBusy, CheckpointOK
    <3>2. busy' = 0 /\ checkpoint.state # "absent"
      BY <1>0, <2>1 DEF RecoverBusy
    <3> QED
      BY <1>9, <2>1, <3>1, <3>2 DEF RecoverBusy
  <2>2. ASSUME NEW a \in Actions, RecoverProject(a) PROVE CheckpointOK
    BY <1>9, <2>2 DEF RecoverProject
  <2>3. CASE RecoverEnds
    BY <1>2, <2>3 DEF RecoverEnds
  <2> QED
    BY <1>10, <2>1, <2>2, <2>3 DEF Recover
<1>11. CASE Execute
  BY <1>2, <1>4, <1>5, <1>6, <1>8, <1>11 DEF Execute, NoticeClose, IgnoreExpired, ResendAnswer,
     RefuseCommand, executor
<1>12. CASE AdvanceTask
  BY <1>2, <1>12 DEF AdvanceTask, FillGap, OfferNextConfirmed, Idle, FinalizeCompletedTask,
     AuthorizeLimited, AuthorizeRejected, AuthorizeGranted, EnqueueAuthorized, NextTarget,
     EnqueueAuthorizedOf, CloseRejected, executor
<1>13. CASE DispatchCurrent
  BY <1>2, <1>13 DEF DispatchCurrent, ExpireDue, MarkDelivered, BatchEnds, ClaimNext,
     ReleaseForRetry, executor
<1>14. CASE ReceiveOne
  BY <1>2, <1>14 DEF ReceiveOne, ReceiveMessage, Acknowledge, Converge, ConvergeDuplicate,
     ConvergeRejected, CloseRejected, ReceiveTimeout, ReceiveClose, executor
<1>15. CASE \/ \E type \in UserControls : EnqueueControl(type)
            \/ \E k \in DOMAIN commands : DeadlinePasses(k)
            \/ Connect \/ ConnectionLost \/ Kill \/ UNCHANGED vars
  BY <1>2, <1>15 DEF EnqueueControl, DeadlinePasses, Connect, ConnectionLost, Kill, vars, executor
<1> QED
  BY <1>10, <1>11, <1>12, <1>13, <1>14, <1>15 DEF Next

(* What the coroutine holds in memory between two transactions.              *)
HandlerOK ==
    /\ handler' \in [pc : {"advance", "authorize", "enqueue", "expire", "claim", "mark", "receive"},
                      k : Nat, act : Actions \cup {None}, round : {1, 2}]
    /\ handler'.pc = "mark" => handler'.k \in 1..Len(commands')
    /\ handler'.pc \in {"authorize", "enqueue"} => handler'.act \in Actions

(* Every step keeps what the coroutine holds in memory within its types.    *)
LEMMA HandlerStep == ASSUME Stored, [Next]_vars PROVE HandlerOK
<1>0. /\ handler \in [pc : {"advance", "authorize", "enqueue", "expire", "claim", "mark", "receive"},
                       k : Nat, act : Actions \cup {None}, round : {1, 2}]
      /\ handler.pc = "mark" => handler.k \in 1..Len(commands)
      /\ handler.pc \in {"authorize", "enqueue"} => handler.act \in Actions
      /\ commands \in Seq(Command)
  BY DEF Stored, TypeOK, References
<1>1. Len(commands) \in Nat /\ Len(commands') \in Nat /\ Len(commands) <= Len(commands')
  <2>1. commands' \in Seq(Command) /\ Len(commands) <= Len(commands')
    BY CommandStep DEF CommandSteps
  <2> QED
    BY <1>0, <2>1
<1>2. CASE UNCHANGED handler
  BY <1>0, <1>1, <1>2 DEF HandlerOK
<1>3. handler' = [Start EXCEPT !.round = 2] => HandlerOK
  BY DEF HandlerOK, Start
<1>4. ASSUME NEW pc \in {"advance", "expire", "claim", "receive"}, Goto(pc) PROVE HandlerOK
  BY <1>4 DEF Goto, Start, HandlerOK
<1>5. CASE handler' = Start
  BY <1>5 DEF HandlerOK, Start
<1>6. CASE CloseRejected
  BY <1>5, <1>6 DEF CloseRejected
<1>7. ASSUME NEW a, EnqueueAuthorizedOf(a) PROVE HandlerOK
  BY <1>4, <1>6, <1>7 DEF EnqueueAuthorizedOf
<1>8. CASE AuthorizeRejected
  BY <1>3, <1>4, <1>8 DEF AuthorizeRejected, Goto
<1>9. CASE AuthorizeGranted
  <2>1. handler.act \in Actions /\ handler' = [handler EXCEPT !.pc = "enqueue"]
    BY <1>0, <1>9 DEF AuthorizeGranted, At
  <2> QED
    BY <1>0, <2>1 DEF HandlerOK
<1>10. ASSUME NEW a \in Actions, NextTarget(a) PROVE HandlerOK
  BY <1>0, <1>10 DEF NextTarget, HandlerOK
<1>11. ASSUME NEW k \in DOMAIN commands, ClaimNext(k) PROVE HandlerOK
  <2>1. k \in 1..Len(commands') /\ k \in Nat /\ handler' = [handler EXCEPT !.pc = "mark", !.k = k]
    BY <1>0, <1>1, <1>11 DEF ClaimNext
  <2> QED
    BY <1>0, <2>1 DEF HandlerOK
<1>12. CASE AdvanceTask
  BY <1>4, <1>7, <1>8, <1>9, <1>10, <1>12 DEF AdvanceTask, FillGap, OfferNextConfirmed, Idle,
     FinalizeCompletedTask, AuthorizeLimited, EnqueueAuthorized
<1>13. CASE DispatchCurrent
  BY <1>4, <1>11, <1>13 DEF DispatchCurrent, ExpireDue, MarkDelivered, BatchEnds, ReleaseForRetry
<1>14. CASE ReceiveOne
  BY <1>4, <1>5, <1>6, <1>14 DEF ReceiveOne, ReceiveMessage, Acknowledge, Converge,
     ConvergeDuplicate, ConvergeRejected, ReceiveTimeout, ReceiveClose
<1>15. CASE Execute
  BY <1>2, <1>15 DEF Execute, NoticeClose, IgnoreExpired, ResendAnswer, RefuseCommand,
     AcceptOffer, BeginAction, HandleControl, HandleEmergencyStop, FinishAction
<1>16. CASE \/ \E type \in UserControls : EnqueueControl(type)
            \/ \E k \in DOMAIN commands : DeadlinePasses(k)
            \/ Connect \/ ConnectionLost \/ Kill \/ Recover \/ UNCHANGED vars
  BY <1>2, <1>5, <1>16 DEF EnqueueControl, DeadlinePasses, Connect, ConnectionLost, Kill, vars,
     Recover, RecoverBusy, RecoverProject, RecoverEnds
<1> QED
  BY <1>12, <1>13, <1>14, <1>15, <1>16 DEF Next

(* The steps that write the task, its actions, its circuit or its events.    *)
Kept == UNCHANGED <<task, attempt, lastEvent, action, circuit, accepted>>
Cancelled ==
    /\ task' = "cancelling" /\ attempt' = "cancelling"
    /\ "cancelling" \in TaskTransitions[task]
    /\ attempt # "none"
    /\ UNCHANGED <<lastEvent, action, circuit, accepted>>

(* What a transaction of the Control Plane may write of a task.             *)
LEMMA Writes ==
    ASSUME [Next]_vars
    PROVE  \/ Kept \/ Cancelled \/ Converge
           \/ OfferNextConfirmed \/ FinalizeCompletedTask \/ AuthorizeGranted
<1>1. ASSUME NEW type \in UserControls, EnqueueControl(type) PROVE Kept \/ Cancelled
  <2>1. CASE type \in Terminations
    BY <1>1, <2>1 DEF EnqueueControl, Controllable, Terminations, Cancelled
  <2>2. CASE type \notin Terminations
    BY <1>1, <2>2 DEF EnqueueControl, Kept
  <2> QED
    BY <2>1, <2>2
<1>2. CASE AdvanceTask
  BY <1>2 DEF AdvanceTask, FillGap, Idle, AuthorizeLimited, AuthorizeRejected, EnqueueAuthorized,
     NextTarget, database, Kept
<1>3. CASE DispatchCurrent
  BY <1>3 DEF DispatchCurrent, ExpireDue, MarkDelivered, BatchEnds, ClaimNext, ReleaseForRetry,
     database, Kept
<1>4. CASE ReceiveOne
  BY <1>4 DEF ReceiveOne, ReceiveMessage, Acknowledge, ConvergeDuplicate, ConvergeRejected,
     ReceiveTimeout, ReceiveClose, database, Kept
<1>5. CASE Execute
  BY <1>5 DEF Execute, NoticeClose, IgnoreExpired, ResendAnswer, RefuseCommand, AcceptOffer,
     BeginAction, HandleControl, HandleEmergencyStop, FinishAction, database, Kept
<1>6. CASE \/ \E k \in DOMAIN commands : DeadlinePasses(k)
           \/ Connect \/ ConnectionLost \/ Kill \/ Recover \/ UNCHANGED vars
  BY <1>6 DEF DeadlinePasses, Connect, ConnectionLost, Kill, Recover, RecoverBusy, RecoverProject,
     RecoverEnds, vars, database, Kept
<1> QED
  BY <1>1, <1>2, <1>3, <1>4, <1>5, <1>6 DEF Next

RecordOK ==
    /\ task' \in Statuses \cup {"queued"}
    /\ attempt' \in Statuses \cup {"none", "offered"}
    /\ lastEvent' \in Nat
    /\ action' \in [Actions -> TerminalAction \cup {"none", "authorized", "dispatched"}]
    /\ circuit' \in [failures : Nat, open : BOOLEAN]
    /\ accepted' \subseteq 1..Len(outbox')

(* An event counts a failure, resets the count, or opens the circuit.       *)
LEMMA CircuitType ==
    ASSUME NEW e, circuit \in [failures : Nat, open : BOOLEAN]
    PROVE  CircuitAfter(e) \in [failures : Nat, open : BOOLEAN]
<1>1. CASE e.type = "step.completed"
  BY <1>1 DEF CircuitAfter
<1>2. CASE e.type = "step.failed"
  <2>1. CircuitAfter(e) = [failures |-> circuit.failures + 1,
                           open |-> circuit.open \/ circuit.failures + 1 >= FailureThreshold]
    BY <1>2 DEF CircuitAfter
  <2>2. /\ circuit.failures + 1 \in Nat
        /\ (circuit.open \/ circuit.failures + 1 >= FailureThreshold) \in BOOLEAN
    OBVIOUS
  <2> QED
    BY <2>1, <2>2
<1>3. CASE e.type \notin {"step.completed", "step.failed"}
  BY <1>3 DEF CircuitAfter
<1> QED
  BY <1>1, <1>2, <1>3

(* Every step keeps the Control Plane's rows within their types.            *)
LEMMA RecordStep == ASSUME Stored, [Next]_vars PROVE RecordOK
<1>0. /\ task \in Statuses \cup {"queued"}
      /\ attempt \in Statuses \cup {"none", "offered"}
      /\ lastEvent \in Nat
      /\ action \in [Actions -> TerminalAction \cup {"none", "authorized", "dispatched"}]
      /\ circuit \in [failures : Nat, open : BOOLEAN]
      /\ accepted \subseteq 1..Len(outbox)
  BY DEF Stored, TypeOK
<1>1. accepted \subseteq 1..Len(outbox') /\ 1..Len(outbox) \subseteq 1..Len(outbox')
  <2>1. outbox \in Seq(OutboxRow) /\ outbox' \in Seq(OutboxRow) /\ Len(outbox) <= Len(outbox')
    BY Growing DEF Grown, Stored, TypeOK
  <2>2. Len(outbox) \in Nat /\ Len(outbox') \in Nat
    BY <2>1
  <2> QED
    BY <1>0, <2>1, <2>2
<1>2. CASE Kept
  BY <1>0, <1>1, <1>2 DEF Kept, RecordOK
<1>3. CASE Cancelled
  BY <1>0, <1>1, <1>3 DEF Cancelled, RecordOK, Statuses
<1>4. CASE OfferNextConfirmed
  BY <1>0, <1>1, <1>4 DEF OfferNextConfirmed, RecordOK
<1>5. CASE FinalizeCompletedTask
  <2>1. FinalStatus \in Statuses
    BY DEF FinalStatus, Statuses, TerminalStatus
  <2> QED
    BY <1>0, <1>1, <1>5, <2>1 DEF FinalizeCompletedTask, RecordOK
<1>6. CASE AuthorizeGranted
  BY <1>0, <1>1, <1>6 DEF AuthorizeGranted, RecordOK
<1>7. CASE Converge
  <2>1. /\ Head(up) \in 1..Len(outbox)
        /\ Row.act # None => Row.act \in Actions
    BY <1>7, HeadUp DEF Converge, RowOK, Row
  <2>2. EventPlan(Row.type) \in Statuses \cup {"none"}
    BY DEF EventPlan, Statuses, TerminalStatus
  <2>3. /\ task' \in {task, "awaiting_human", EventPlan(Row.type)}
        /\ attempt' \in {attempt, "awaiting_human", EventPlan(Row.type)}
        /\ task' # "none" /\ (attempt' = "none" => attempt = "none")
    BY <1>0, <1>7 DEF Converge, Statuses, TerminalStatus
  <2>4. task' \in Statuses \cup {"queued"} /\ attempt' \in Statuses \cup {"none", "offered"}
    BY <1>0, <2>2, <2>3 DEF Statuses
  <2>5. action' \in [Actions -> TerminalAction \cup {"none", "authorized", "dispatched"}]
    <3>1. NextAction(Row.type) \in TerminalAction \cup {"dispatched"}
      BY DEF NextAction, TerminalAction
    <3> QED
      BY <1>0, <1>7, <2>1, <3>1 DEF Converge
  <2>6. circuit' \in [failures : Nat, open : BOOLEAN]
    BY <1>0, <1>7, CircuitType DEF Converge
  <2>7. lastEvent' = lastEvent + 1 /\ accepted' = accepted \cup {Head(up)}
    BY <1>7 DEF Converge
  <2>8. lastEvent' \in Nat
    BY <1>0, <2>7
  <2>9. accepted' \subseteq 1..Len(outbox')
    BY <1>1, <2>1, <2>7
  <2> QED
    BY <2>4, <2>5, <2>6, <2>8, <2>9 DEF RecordOK
<1> QED
  BY <1>2, <1>3, <1>4, <1>5, <1>6, <1>7, Writes

(* No command is stored before there is an attempt to command.              *)
LEMMA NoAttemptStep ==
    ASSUME Stored, [Next]_vars, attempt' = "none"
    PROVE  commands' = << >>
<1>1. attempt = "none" /\ commands = << >>
  <2>1. attempt \in Statuses \cup {"none", "offered"}
    BY DEF Stored, TypeOK
  <2>2. CASE Kept
    BY <2>2 DEF Kept, Stored
  <2>3. CASE Converge
    BY <2>3 DEF Converge, EventPlan, Stored
  <2>4. ~Cancelled /\ ~OfferNextConfirmed /\ ~FinalizeCompletedTask
    BY DEF Cancelled, OfferNextConfirmed, FinalizeCompletedTask, FinalStatus
  <2>5. CASE AuthorizeGranted
    BY <2>5 DEF AuthorizeGranted, Stored
  <2> QED
    BY <2>2, <2>3, <2>4, <2>5, Writes
<1>2. ~\E type \in UserControls : EnqueueControl(type)
  BY <1>1 DEF EnqueueControl
<1>3. ~\E k \in DOMAIN commands : TRUE
  BY <1>1
<1>4. ~Running
  BY <1>1 DEF Running
<1>5. ~OfferNextConfirmed
  BY DEF OfferNextConfirmed
<1>6. ASSUME NEW a, EnqueueAuthorizedOf(a) PROVE UNCHANGED commands
  BY <1>4, <1>6 DEF EnqueueAuthorizedOf
<1>7. CASE AdvanceTask
  BY <1>1, <1>5, <1>6, <1>7 DEF AdvanceTask, FillGap, Idle, FinalizeCompletedTask,
     AuthorizeLimited, AuthorizeRejected, AuthorizeGranted, EnqueueAuthorized, NextTarget, database
<1>8. CASE DispatchCurrent
  <2>1. CASE ExpireDue
    <3>1. DOMAIN commands' = {}
      BY <1>3, <2>1 DEF ExpireDue
    <3> QED
      BY <3>1, CommandStep DEF CommandSteps
  <2>2. CASE MarkDelivered
    BY <1>1, <2>2 DEF MarkDelivered, At, Stored, References
  <2>3. ~\E k \in DOMAIN commands : ClaimNext(k) \/ ReleaseForRetry(k)
    BY <1>3
  <2>4. CASE BatchEnds
    BY <1>1, <2>4 DEF BatchEnds, database
  <2> QED
    BY <1>8, <2>1, <2>2, <2>3, <2>4 DEF DispatchCurrent
<1>9. CASE ReceiveOne
  <2>1. CASE Acknowledge
    <3>1. Row.src \in 1..checkpoint.last /\ checkpoint.last \in 0..Len(commands)
      BY <2>1, HeadUp DEF Acknowledge, Row, RowOK, Stored, References
    <3> QED
      BY <1>1, <3>1
  <2> QED
    BY <1>1, <1>9, <2>1 DEF ReceiveOne, ReceiveMessage, Converge, ConvergeDuplicate,
       ConvergeRejected, ReceiveTimeout, ReceiveClose, database
<1>10. CASE Execute
  BY <1>1, <1>10 DEF Execute, NoticeClose, IgnoreExpired, ResendAnswer, RefuseCommand,
     AcceptOffer, BeginAction, HandleControl, HandleEmergencyStop, FinishAction, database
<1>11. CASE \/ Connect \/ ConnectionLost \/ Kill \/ Recover \/ UNCHANGED vars
  BY <1>1, <1>11 DEF Connect, ConnectionLost, Kill, Recover, RecoverBusy, RecoverProject,
     RecoverEnds, vars, database
<1>12. ~\E k \in DOMAIN commands : DeadlinePasses(k)
  BY <1>3
<1> QED
  BY <1>2, <1>7, <1>8, <1>9, <1>10, <1>11, <1>12 DEF Next

(* At the start nothing is stored.                                          *)
LEMMA StoredInit == Init => Stored
<1>1. Init => TypeOK
  BY DEF Init, TypeOK, Start, Statuses
<1>2. Init => References
  BY DEF Init, References, Start
<1> QED
  BY <1>1, <1>2 DEF Init, Stored

(* Every step keeps what is stored within its types and references.         *)
LEMMA StoredStep == ASSUME Stored, [Next]_vars PROVE Stored'
<1>1. /\ outbox \in Seq(OutboxRow) /\ outbox' \in Seq(OutboxRow)
      /\ commands \in Seq(Command) /\ commands' \in Seq(Command)
      /\ Len(outbox) <= Len(outbox') /\ Len(commands) <= Len(commands')
      /\ \A i \in 1..Len(outbox) : outbox'[i] = outbox[i]
      /\ checkpoint.last \in Nat /\ checkpoint'.last \in Nat /\ checkpoint.last <= checkpoint'.last
  BY Growing, CommandStep DEF Grown, CommandSteps, Stored, TypeOK
<1>2. /\ Len(outbox) \in Nat /\ Len(outbox') \in Nat
      /\ Len(commands) \in Nat /\ Len(commands') \in Nat
  BY <1>1
<1>3. down' \in Seq(Nat) /\ up' \in Seq(Nat)
  <2>1. 1..Len(commands') \subseteq Nat /\ 1..Len(outbox') \subseteq Nat
    BY <1>2
  <2> QED
    BY <2>1, WiresStep, WiderSeq DEF WiresOK
<1>4. TypeOK'
  BY <1>1, <1>3, WiresStep, CheckpointStep, HandlerStep, RecordStep
     DEF WiresOK, CheckpointOK, HandlerOK, RecordOK, TypeOK
<1>5. References'
  BY WiresStep, CheckpointStep, HandlerStep DEF WiresOK, CheckpointOK, HandlerOK, References
<1>6. ASSUME NEW k \in 1..Len(commands') PROVE CommandOK(k)'
  <2>1. commands'[k] \in Command
    BY <1>1
  <2>2. k \in 1..Len(commands) \/ k > Len(commands)
    BY <1>2
  <2>3. commands'[k].type = "action.execute" => commands'[k].act \in Actions
    BY <2>2, CommandStep DEF CommandSteps, Stored, CommandOK
  <2> QED
    BY <2>1, <2>3 DEF CommandOK
<1>7. ASSUME NEW i \in 1..Len(outbox') PROVE RowOK(i)'
  <2>1. CASE i \in 1..Len(outbox)
    <3>1. RowOK(i) /\ outbox'[i] = outbox[i]
      BY <1>1, <2>1 DEF Stored
    <3> QED
      BY <1>1, <3>1 DEF RowOK
  <2>2. CASE i > Len(outbox)
    BY <2>2, Growing DEF NewRow
  <2> QED
    BY <1>2, <2>1, <2>2
<1> QED
  BY <1>4, <1>5, <1>6, <1>7, NoAttemptStep DEF Stored

(* Every row, every frame underway and everything the two processes hold in  *)
(* memory keeps its type.                                                    *)
THEOREM TypeCorrect == Spec => []TypeOK
<1>1. Stored /\ [Next]_vars => Stored'
  BY StoredStep
<1>2. Stored => TypeOK
  BY DEF Stored
<1> QED
  BY <1>1, <1>2, StoredInit, PTL DEF Spec

-----------------------------------------------------------------------------
(* The executor's log: its events are numbered in their order, the attempt   *)
(* starts once, nothing follows an end, and its state is the last one told.  *)
LogOrdered ==
    /\ \A i \in 1..Len(outbox) : EventAt(i) => outbox[i].ev \in 1..checkpoint.ev
    /\ \A i, j \in 1..Len(outbox) :
          i < j /\ EventAt(i) /\ EventAt(j) => outbox[i].ev < outbox[j].ev
    /\ \A i \in 1..Len(outbox) : outbox[i].type = "task.started" => outbox[i].ev = 1
    /\ \A i, j \in 1..Len(outbox) : i < j /\ StateAt(i) /\ StateAt(j) =>
          outbox[i].type \notin {"task.cancelled", "task.outcome_uncertain"}
    /\ checkpoint.state = "absent" => checkpoint.ev = 0

(* The state that a set of rows tells.                                       *)
Tells(rows, state) ==
    \/ state = "absent" /\ \A i \in rows : ~StateAt(i)
    \/ \E i \in rows : /\ StateAt(i) /\ StateOf(outbox[i].type) = state
                       /\ \A j \in rows : StateAt(j) => j <= i

StateIsTold == Tells(1..Len(outbox), checkpoint.state)

(* Every step keeps the executor's log in order and its state the last one  *)
(* told.                                                                    *)
LEMMA LogStep == ASSUME Stored, LogOrdered, StateIsTold, [Next]_vars PROVE LogOrdered' /\ StateIsTold'
<1> DEFINE n == Len(outbox)
           m == Len(outbox')
<1>0. /\ n \in Nat /\ m \in Nat /\ n <= m
      /\ \A i \in 1..n : i \in 1..m /\ outbox'[i] = outbox[i]
      /\ checkpoint.ev \in Nat /\ checkpoint'.ev \in Nat /\ checkpoint.ev <= checkpoint'.ev
      /\ \A i \in 1..m : outbox'[i].ev \in Nat
  <2>1. Grown /\ outbox \in Seq(OutboxRow) /\ checkpoint.ev \in Nat
    BY Growing DEF Stored, TypeOK
  <2>2. outbox' \in Seq(OutboxRow) /\ n \in Nat /\ m \in Nat
    BY <2>1 DEF Grown
  <2>3. \A i \in 1..m : outbox'[i] \in OutboxRow
    BY <2>2
  <2>4. \A i \in 1..m : outbox'[i].ev \in Nat
    BY <2>3 DEF OutboxRow
  <2> QED
    BY <2>1, <2>2, <2>4 DEF Grown
<1>1. \A i \in 1..m : i \in 1..n \/ (i > n /\ NewRow(i))
  <2>1. \A i \in 1..m : i > n => NewRow(i)
    BY Growing
  <2>2. \A i \in 1..m : i \in 1..n \/ i > n
    BY <1>0
  <2> QED
    BY <2>1, <2>2
<1>2. \A i \in 1..n : EventAt(i)' = EventAt(i) /\ StateAt(i)' = StateAt(i)
  BY <1>0 DEF EventAt, StateAt
<1>3. ASSUME NEW i \in 1..m, EventAt(i)' PROVE outbox'[i].ev \in 1..checkpoint'.ev
  BY <1>0, <1>1, <1>2, <1>3 DEF NewRow, LogOrdered
<1>4. ASSUME NEW i \in 1..m, NEW j \in 1..m, i < j, EventAt(i)', EventAt(j)'
      PROVE  outbox'[i].ev < outbox'[j].ev
  <2>1. CASE i > n
    BY <1>1, <1>4, <2>1 DEF NewRow
  <2>2. CASE i \in 1..n /\ j \in 1..n
    BY <1>0, <1>2, <1>4, <2>2 DEF LogOrdered
  <2>3. CASE i \in 1..n /\ j > n
    <3>1. outbox'[i].ev \in 1..checkpoint.ev
      BY <1>0, <1>2, <1>4, <2>3 DEF LogOrdered
    <3>2. outbox'[j].ev \in (checkpoint.ev + 1)..checkpoint'.ev
      BY <1>0, <1>1, <1>4, <2>3 DEF NewRow
    <3> QED
      BY <1>0, <3>1, <3>2
  <2> QED
    BY <1>1, <2>1, <2>2, <2>3
<1>5. ASSUME NEW i \in 1..m, outbox'[i].type = "task.started" PROVE outbox'[i].ev = 1
  <2>1. CASE i \in 1..n
    BY <1>0, <1>5, <2>1 DEF LogOrdered
  <2>2. CASE NewRow(i)
    BY <1>0, <1>5, <2>2 DEF NewRow, LogOrdered, EventAt
  <2> QED
    BY <1>1, <2>1, <2>2
<1>6. ASSUME NEW i \in 1..m, NEW j \in 1..m, i < j, StateAt(i)', StateAt(j)'
      PROVE  outbox'[i].type \notin {"task.cancelled", "task.outcome_uncertain"}
  <2>1. CASE i > n
    BY <1>0, <1>1, <1>6, <2>1 DEF NewRow
  <2>2. CASE i \in 1..n /\ j \in 1..n
    BY <1>0, <1>2, <1>6, <2>2 DEF LogOrdered
  <2>3. CASE i \in 1..n /\ j > n
    <3>1. checkpoint.state \notin {"terminal", "outcome_uncertain"}
      BY <1>1, <1>6, <2>3 DEF NewRow
    <3>2. StateAt(i) /\ outbox'[i].type = outbox[i].type
      BY <1>0, <1>2, <1>6, <2>3
    <3>3. PICK l \in 1..n : /\ StateAt(l) /\ StateOf(outbox[l].type) = checkpoint.state
                           /\ \A h \in 1..n : StateAt(h) => h <= l
      BY <2>3, <3>2 DEF StateIsTold, Tells
    <3>4. i < l \/ i = l
      BY <2>3, <3>2, <3>3
    <3>5. outbox[l].type \notin {"task.cancelled", "task.outcome_uncertain"}
      BY <3>1, <3>3 DEF StateOf
    <3> QED
      BY <2>3, <3>2, <3>3, <3>4, <3>5 DEF LogOrdered
  <2> QED
    BY <1>1, <2>1, <2>2, <2>3
<1>7. checkpoint'.state = "absent" => checkpoint'.ev = 0
  BY Growing DEF Grown, LogOrdered
<1>8. StateIsTold'
  <2>1. CASE \E i \in 1..m : i > n /\ StateAt(i)'
    <3>1. PICK i \in 1..m : i > n /\ StateAt(i)'
      BY <2>1
    <3>2. i = m /\ StateOf(outbox'[i].type) = checkpoint'.state
      BY <1>0, <1>1, <3>1 DEF NewRow
    <3>3. \A j \in 1..m : j <= i
      BY <1>0, <3>2
    <3> QED
      BY <3>1, <3>2, <3>3 DEF StateIsTold, Tells
  <2>2. CASE \A i \in 1..m : i > n => ~StateAt(i)'
    <3>1. checkpoint'.state = checkpoint.state
      <4>1. checkpoint'.state # checkpoint.state => m > n /\ outbox'[m].type \in StateTypes
        BY Growing DEF Grown, StateAt
      <4> QED
        BY <1>0, <2>2, <4>1 DEF StateAt
    <3>2. \A j \in 1..m : StateAt(j)' => j \in 1..n /\ StateAt(j)
      BY <1>0, <1>1, <1>2, <2>2
    <3>3. CASE checkpoint.state = "absent" /\ \A i \in 1..n : ~StateAt(i)
      BY <3>1, <3>2, <3>3 DEF StateIsTold, Tells
    <3>4. ASSUME NEW i \in 1..n, StateAt(i), StateOf(outbox[i].type) = checkpoint.state,
                 \A j \in 1..n : StateAt(j) => j <= i
          PROVE  StateIsTold'
      <4>1. /\ i \in 1..m /\ StateAt(i)' /\ StateOf(outbox'[i].type) = checkpoint'.state
            /\ \A j \in 1..m : StateAt(j)' => j <= i
        BY <1>0, <1>2, <3>1, <3>2, <3>4
      <4> QED
        BY <4>1 DEF StateIsTold, Tells
    <3> QED
      BY <3>3, <3>4 DEF StateIsTold, Tells
  <2> QED
    BY <2>1, <2>2
<1> QED
  BY <1>3, <1>4, <1>5, <1>6, <1>7, <1>8 DEF LogOrdered

-----------------------------------------------------------------------------
(* What the Control Plane accepted of the log, and what it made of it.       *)

AcceptedOK == \A i \in accepted : EventAt(i) /\ outbox[i].ev \in 1..lastEvent

(* The statuses the task may have after the executor told a state.           *)
Shown(state) ==
    CASE state = "absent" -> {"queued", "cancelling"}
      [] state = "running" ->
             {"running", "cancelling", "awaiting_human",
              "succeeded", "partially_succeeded", "failed"}
      [] state = "paused" -> {"paused", "cancelling"}
      [] state = "terminal" -> {"cancelled"}
      [] OTHER -> {"outcome_uncertain"}

Followed == \E state \in {"absent", "running", "paused", "terminal", "outcome_uncertain"} :
    Tells(accepted, state) /\ task \in Shown(state)

(* A doubt about an action is one about the task.                            *)
NoDoubt == \A a \in Actions : action[a] = "outcome_uncertain" => task = "outcome_uncertain"

(* The circuit opens with the failure that reaches the threshold, and hands  *)
(* the task over.                                                            *)
CircuitOK ==
    /\ circuit.failures >= FailureThreshold => circuit.open
    /\ circuit.open => task \in {"awaiting_human", "cancelling"} \cup TerminalStatus

ConvergenceInv == LogOrdered /\ StateIsTold /\ AcceptedOK /\ Followed /\ NoDoubt /\ CircuitOK

(* What is told by rows that stay as they are, stays told.                   *)
LEMMA SameTale ==
    ASSUME Stored, [Next]_vars, NEW state, accepted' = accepted, Tells(accepted, state)
    PROVE  Tells(accepted, state)'
<1>1. \A i \in accepted : outbox'[i] = outbox[i]
  BY Growing DEF Grown, Stored, TypeOK
<1> QED
  BY <1>1 DEF Tells, StateAt

(* Only the statuses that a cancellation may leave can be told.              *)
LEMMA CancelShown ==
    ASSUME NEW state, task \in Shown(state), "cancelling" \in TaskTransitions[task]
    PROVE  "cancelling" \in Shown(state)
<1>1. task \in {"queued", "running", "paused", "awaiting_human"}
  <2>1. task \in {"queued", "cancelling", "running", "awaiting_human", "succeeded",
                  "partially_succeeded", "failed", "paused", "cancelled", "outcome_uncertain"}
    BY DEF Shown
  <2> QED
    BY <2>1 DEF TaskTransitions, TerminalStatus
<1> QED
  BY <1>1 DEF Shown

(* An accepted event is the next one of the log: the executor numbered it    *)
(* after all that were accepted before.                                      *)
LEMMA ConvergesNext ==
    ASSUME Stored, LogOrdered, AcceptedOK, Converge
    PROVE  /\ Head(up) \in 1..Len(outbox) /\ EventAt(Head(up)) /\ RowOK(Head(up))
           /\ Row.ev = lastEvent + 1 /\ lastEvent \in Nat /\ lastEvent' = lastEvent + 1
           /\ \A i \in accepted : i < Head(up) /\ i \in 1..Len(outbox)
           /\ accepted' = accepted \cup {Head(up)} /\ outbox' = outbox
           /\ Convergent(Row)
<1>1. /\ Head(up) \in 1..Len(outbox) /\ RowOK(Head(up))
      /\ accepted \subseteq 1..Len(outbox) /\ lastEvent \in Nat /\ Len(outbox) \in Nat
  BY HeadUp DEF Converge, Stored, TypeOK
<1>2. /\ EventAt(Head(up)) /\ Convergent(Row) /\ Row.ev = lastEvent + 1
      /\ lastEvent' = lastEvent + 1 /\ accepted' = accepted \cup {Head(up)}
      /\ Head(up) \notin accepted
      /\ outbox' = outbox
  BY DEF Converge, Convergent, EventAt, Row, executor
<1>3. ASSUME NEW i \in accepted PROVE i < Head(up)
  <2>1. i \in 1..Len(outbox) /\ EventAt(i) /\ outbox[i].ev <= lastEvent /\ outbox[i].ev \in Nat
    BY <1>1, <1>3 DEF AcceptedOK
  <2>2. ~(outbox[Head(up)].ev < outbox[i].ev)
    BY <1>1, <1>2, <2>1 DEF Row
  <2>3. ~(Head(up) < i)
    BY <1>1, <1>2, <2>1, <2>2 DEF LogOrdered
  <2> QED
    BY <1>1, <1>2, <1>3, <2>1, <2>3
<1> QED
  BY <1>1, <1>2, <1>3

(* A state event moves the task to the status it shows, the others leave it  *)
(* where the state before shows it.                                          *)
LEMMA ConvergesShown ==
    ASSUME Stored, ConvergenceInv, Converge
    PROVE  /\ Followed'
           /\ StateAt(Head(up)) => task' = EventPlan(Row.type) /\ ~OpensCircuit(Row)
           /\ ~StateAt(Head(up)) =>
                 \/ task' = task /\ ~(OpensCircuit(Row) /\ task = "running")
                 \/ task = "running" /\ OpensCircuit(Row) /\ task' = "awaiting_human"
<1>0. /\ Head(up) \in 1..Len(outbox) /\ EventAt(Head(up)) /\ RowOK(Head(up))
      /\ \A i \in accepted : i < Head(up) /\ i \in 1..Len(outbox)
      /\ accepted' = accepted \cup {Head(up)} /\ outbox' = outbox
      /\ Convergent(Row) /\ Len(outbox) \in Nat
  BY ConvergesNext DEF ConvergenceInv, Stored, TypeOK
<1>1. CASE StateAt(Head(up))
  <2>1. ~OpensCircuit(Row)
    BY <1>1 DEF OpensCircuit, CircuitAfter, StateAt, StateTypes, Row
  <2>2. EventPlan(Row.type) # "none" /\ EventPlan(Row.type) \in Shown(StateOf(Row.type))
    BY <1>1 DEF EventPlan, Shown, StateOf, StateAt, StateTypes, Row
  <2>3. task' = EventPlan(Row.type)
    BY <2>1, <2>2 DEF Converge
  <2>4. PICK state \in {"absent", "running", "paused", "terminal", "outcome_uncertain"},
             i \in 1..Len(outbox) : state = StateOf(Row.type) /\ i = Head(up)
    BY <1>0 DEF StateOf
  <2>5. /\ i \in accepted' /\ outbox'[i].type \in StateTypes
        /\ StateOf(outbox'[i].type) = state
        /\ \A j \in accepted' : j <= i
    BY <1>0, <1>1, <2>4 DEF StateAt, Row
  <2>6. Tells(accepted, state)'
    BY <2>5 DEF Tells, StateAt
  <2> QED
    BY <1>1, <2>1, <2>2, <2>3, <2>4, <2>6 DEF Followed
<1>2. CASE ~StateAt(Head(up))
  <2>1. Row.type \in StepTypes
    BY <1>0, <1>2 DEF RowOK, OutboxRow, EventTypes, EventAt, StateAt, StateTypes, StepTypes, Row
  <2>2. EventPlan(Row.type) = "none"
    BY <2>1 DEF EventPlan, StepTypes
  <2>3. \/ task' = task /\ ~(OpensCircuit(Row) /\ task = "running")
        \/ task = "running" /\ OpensCircuit(Row) /\ task' = "awaiting_human"
    BY <2>2 DEF Converge
  <2>4. PICK state \in {"absent", "running", "paused", "terminal", "outcome_uncertain"} :
           Tells(accepted, state) /\ task \in Shown(state)
    BY DEF ConvergenceInv, Followed
  <2>5. task' \in Shown(state)
    BY <2>3, <2>4 DEF Shown
  <2>6. Tells(accepted, state)'
    <3>1. \A i \in accepted' : outbox'[i].type \in StateTypes => i \in accepted /\ StateAt(i)
      BY <1>0, <1>2 DEF StateAt
    <3>2. \A i \in accepted : StateAt(i) => i \in accepted' /\ outbox'[i].type \in StateTypes
      BY <1>0 DEF StateAt
    <3> QED
      BY <1>0, <2>4, <3>1, <3>2 DEF Tells, StateAt
  <2> QED
    BY <1>2, <2>3, <2>4, <2>5, <2>6 DEF Followed
<1> QED
  BY <1>1, <1>2

(* The Control Plane accepts the executor's events in their order           *)
(* (event_seq).                                                             *)
LEMMA AcceptedStep ==
    ASSUME Stored, ConvergenceInv, [Next]_vars
    PROVE  AcceptedOK'
<1>1. /\ \A i \in accepted : outbox'[i] = outbox[i] /\ i \in 1..Len(outbox)
      /\ lastEvent \in Nat
  BY Growing DEF Grown, Stored, TypeOK
<1>2. AcceptedOK
  BY DEF ConvergenceInv
<1>3. CASE accepted' = accepted /\ lastEvent' \in {lastEvent, lastEvent + 1}
  BY <1>1, <1>2, <1>3 DEF AcceptedOK, EventAt
<1>4. CASE Converge
  <2>1. /\ EventAt(Head(up)) /\ Row.ev = lastEvent + 1 /\ lastEvent' = lastEvent + 1
        /\ accepted' = accepted \cup {Head(up)} /\ outbox' = outbox
    BY <1>4, ConvergesNext DEF ConvergenceInv
  <2> QED
    BY <1>1, <1>2, <2>1 DEF AcceptedOK, EventAt, Row
<1> QED
  BY <1>3, <1>4, Writes DEF Kept, Cancelled, OfferNextConfirmed, FinalizeCompletedTask,
     AuthorizeGranted

(* The Control Plane's rows follow the events it has accepted.              *)
LEMMA FollowedStep ==
    ASSUME Stored, ConvergenceInv, [Next]_vars
    PROVE  Followed'
<1>1. PICK state \in {"absent", "running", "paused", "terminal", "outcome_uncertain"} :
         Tells(accepted, state) /\ task \in Shown(state)
  BY DEF ConvergenceInv, Followed
<1>2. ASSUME accepted' = accepted, task' \in Shown(state) PROVE Followed'
  BY <1>1, <1>2, SameTale DEF Followed
<1>3. CASE Kept \/ OfferNextConfirmed \/ AuthorizeGranted
  BY <1>1, <1>2, <1>3 DEF Kept, OfferNextConfirmed, AuthorizeGranted
<1>4. CASE Cancelled
  BY <1>1, <1>2, <1>4, CancelShown DEF Cancelled
<1>5. CASE FinalizeCompletedTask
  <2>1. task = "running" /\ \A a \in Actions : action[a] \in TerminalAction
    BY <1>5 DEF FinalizeCompletedTask, Running
  <2>2. FinalStatus \in {"succeeded", "partially_succeeded", "failed"}
    BY <2>1 DEF FinalStatus, ConvergenceInv, NoDoubt
  <2>3. state = "running"
    BY <1>1, <2>1 DEF Shown
  <2> QED
    BY <1>2, <1>5, <2>2, <2>3 DEF FinalizeCompletedTask, Shown
<1>6. CASE Converge
  BY <1>6, ConvergesShown
<1> QED
  BY <1>3, <1>4, <1>5, <1>6, Writes

(* A doubt about an action stays one about the task.                        *)
LEMMA NoDoubtStep ==
    ASSUME Stored, ConvergenceInv, [Next]_vars
    PROVE  NoDoubt'
<1>1. NoDoubt
  BY DEF ConvergenceInv
<1>2. \A a \in Actions : action[a] = "outcome_uncertain" => task = "outcome_uncertain"
  BY <1>1 DEF NoDoubt
<1>3. task = "outcome_uncertain" =>
         TaskTransitions[task] = {} /\ task \notin {"queued", "running", "cancelling"}
  BY TerminalHasNoTransition DEF TerminalStatus
<1>4. CASE Kept \/ OfferNextConfirmed
  BY <1>2, <1>4 DEF Kept, OfferNextConfirmed, NoDoubt
<1>5. CASE Cancelled
  BY <1>2, <1>3, <1>5 DEF Cancelled, NoDoubt
<1>6. CASE FinalizeCompletedTask
  BY <1>2, <1>3, <1>6 DEF FinalizeCompletedTask, Running, NoDoubt
<1>7. CASE AuthorizeGranted
  BY <1>2, <1>7 DEF AuthorizeGranted, NoDoubt, Stored, TypeOK
<1>8. CASE Converge
  <2>1. task \notin TerminalStatus
    BY <1>8, ConvergeMoves
  <2>2. \A a \in Actions : action[a] # "outcome_uncertain"
    BY <1>2, <2>1 DEF TerminalStatus
  <2>3. RowOK(Head(up))
    BY <1>8, HeadUp DEF Converge
  <2>4. CASE Row.act = None
    BY <1>8, <2>2, <2>4 DEF Converge, NoDoubt
  <2>5. CASE Row.act # None /\ Row.type \in StepTypes
    <3>1. NextAction(Row.type) # "outcome_uncertain"
      BY <2>5 DEF NextAction, StepTypes
    <3>2. action' = [action EXCEPT ![Row.act] = NextAction(Row.type)]
      BY <1>8, <2>5 DEF Converge
    <3> QED
      BY <2>2, <3>1, <3>2 DEF NoDoubt, Stored, TypeOK
  <2>6. CASE Row.type = "task.outcome_uncertain"
    <3>1. StateAt(Head(up))
      BY <2>6 DEF StateAt, StateTypes, Row
    <3>2. task' = "outcome_uncertain"
      BY <1>8, <2>6, <3>1, ConvergesShown DEF EventPlan
    <3> QED
      BY <3>2 DEF NoDoubt
  <2> QED
    BY <2>3, <2>4, <2>5, <2>6 DEF RowOK, Row
<1> QED
  BY <1>4, <1>5, <1>6, <1>7, <1>8, Writes

(* Only the first event starts the attempt: before it no failure was counted *)
(* and no human took over.                                                   *)
LEMMA StartsQueued ==
    ASSUME Stored, ConvergenceInv, Converge, Row.type = "task.started"
    PROVE  task \in {"queued", "cancelling"}
<1>1. Row.ev = 1 /\ Row.ev = lastEvent + 1 /\ lastEvent \in Nat
  BY ConvergesNext DEF ConvergenceInv, LogOrdered, Row
<1>2. accepted = {}
  BY <1>1 DEF ConvergenceInv, AcceptedOK
<1>3. PICK state \in {"absent", "running", "paused", "terminal", "outcome_uncertain"} :
         Tells(accepted, state) /\ task \in Shown(state)
  BY DEF ConvergenceInv, Followed
<1> QED
  BY <1>2, <1>3 DEF Tells, Shown

(* The circuit opens with the failure that reaches the threshold, and       *)
(* hands the task over.                                                     *)
LEMMA CircuitStep ==
    ASSUME Stored, ConvergenceInv, [Next]_vars
    PROVE  CircuitOK'
<1>0. /\ circuit.failures >= FailureThreshold => circuit.open
      /\ circuit.open => task \in {"awaiting_human", "cancelling"} \cup TerminalStatus
      /\ circuit \in [failures : Nat, open : BOOLEAN]
      /\ FailureThreshold \in Nat \ {0}
  BY ConstantsAssumption DEF ConvergenceInv, CircuitOK, Stored, TypeOK
<1>1. task \in TerminalStatus =>
         TaskTransitions[task] = {} /\ task \notin {"queued", "running", "cancelling"}
  BY TerminalHasNoTransition
<1>2. CASE Kept \/ OfferNextConfirmed \/ AuthorizeGranted \/ Cancelled
  BY <1>0, <1>2 DEF Kept, OfferNextConfirmed, AuthorizeGranted, Cancelled, CircuitOK
<1>3. CASE FinalizeCompletedTask
  BY <1>0, <1>3 DEF FinalizeCompletedTask, Running, CircuitOK, TerminalStatus
<1>4. CASE Converge
  <2>1. task \notin TerminalStatus /\ circuit' = CircuitAfter(Row)
    BY <1>4, ConvergeMoves DEF Converge
  <2>2. circuit'.failures >= FailureThreshold => circuit'.open
    <3>1. CASE Row.type = "step.completed"
      BY <1>0, <2>1, <3>1 DEF CircuitAfter
    <3>2. CASE Row.type = "step.failed"
      BY <1>0, <2>1, <3>2 DEF CircuitAfter
    <3>3. CASE Row.type \notin {"step.completed", "step.failed"}
      BY <1>0, <2>1, <3>3 DEF CircuitAfter
    <3> QED
      BY <3>1, <3>2, <3>3
  <2>3. ASSUME circuit'.open PROVE task' \in {"awaiting_human", "cancelling"} \cup TerminalStatus
    <3>1. CASE OpensCircuit(Row)
      <4>1. ~StateAt(Head(up))
        BY <1>4, <3>1, ConvergesShown
      <4>2. RowOK(Head(up)) /\ EventAt(Head(up))
        BY <1>4, ConvergesNext DEF ConvergenceInv
      <4>3. Row.type \in StepTypes
        BY <4>1, <4>2 DEF RowOK, OutboxRow, EventTypes, EventAt, StateAt, StateTypes, StepTypes, Row
      <4>4. CASE task = "running"
        BY <1>4, <3>1, <4>4 DEF Converge
      <4>5. CASE task # "running"
        <5>1. Movable(Row)
          BY <1>4, <4>5 DEF Converge, Convergent
        <5>2. EventPlan(Row.type) = "none"
          BY <4>3 DEF EventPlan, StepTypes
        <5> QED
          BY <1>4, <4>5, <5>1, <5>2 DEF Movable, Converge
      <4> QED
        BY <4>4, <4>5
    <3>2. CASE ~OpensCircuit(Row)
      <4>1. circuit.open /\ task \in {"awaiting_human", "cancelling"}
        BY <1>0, <2>1, <2>3, <3>2 DEF OpensCircuit
      <4>2. CASE ~StateAt(Head(up))
        BY <1>4, <3>2, <4>1, <4>2, ConvergesShown
      <4>3. CASE StateAt(Head(up))
        <5>1. task' = EventPlan(Row.type) /\ EventPlan(Row.type) # "none"
          BY <1>4, <4>3, ConvergesShown DEF EventPlan, StateAt, StateTypes, Row
        <5>2. EventPlan(Row.type) \in TaskTransitions[task]
          BY <1>4, <3>2, <5>1 DEF Converge, Convergent, Movable
        <5>3. Row.type # "task.resumed"
          BY <2>1, <2>3, <4>1 DEF CircuitAfter
        <5>4. CASE Row.type = "task.started"
          <6>1. task = "cancelling"
            BY <1>4, <4>1, <5>4, StartsQueued
          <6> QED
            BY <5>1, <5>2, <6>1 DEF TaskTransitions
        <5>5. CASE Row.type = "task.paused"
          BY <4>1, <5>2, <5>5 DEF TaskTransitions, EventPlan, TerminalStatus
        <5>6. CASE Row.type \in {"task.cancelled", "task.outcome_uncertain"}
          BY <5>1, <5>6 DEF EventPlan, TerminalStatus
        <5> QED
          BY <4>3, <5>3, <5>4, <5>5, <5>6 DEF StateAt, StateTypes, Row
      <4> QED
        BY <4>2, <4>3
    <3> QED
      BY <3>1, <3>2
  <2> QED
    BY <2>2, <2>3 DEF CircuitOK
<1> QED
  BY <1>2, <1>3, <1>4, Writes

(* At the start nothing has been told or accepted.                          *)
LEMMA ConvergenceInit == Init => ConvergenceInv
<1>1. Init => LogOrdered /\ StateIsTold
  BY DEF Init, LogOrdered, StateIsTold, Tells
<1>2. Init => AcceptedOK /\ Followed /\ NoDoubt
  BY DEF Init, AcceptedOK, Followed, Tells, Shown, NoDoubt
<1>3. Init => CircuitOK
  BY ConstantsAssumption DEF Init, CircuitOK
<1> QED
  BY <1>1, <1>2, <1>3 DEF ConvergenceInv

(* What the Control Plane says of a task is what the executor's accepted    *)
(* events tell.                                                             *)
THEOREM Convergence == Spec => [](Stored /\ ConvergenceInv)
<1>1. Stored /\ ConvergenceInv /\ [Next]_vars => ConvergenceInv'
  <2> SUFFICES ASSUME Stored, ConvergenceInv, [Next]_vars PROVE ConvergenceInv'
    OBVIOUS
  <2>1. LogOrdered' /\ StateIsTold'
    BY LogStep DEF ConvergenceInv
  <2> QED
    BY <2>1, AcceptedStep, FollowedStep, NoDoubtStep, CircuitStep DEF ConvergenceInv
<1>2. Stored /\ [Next]_vars => Stored'
  BY StoredStep
<1> QED
  BY <1>1, <1>2, StoredInit, ConvergenceInit, PTL DEF Spec

(* When every event has converged, the last state that was accepted is the   *)
(* executor's own: the status the user sees follows the checkpoint.          *)
THEOREM ConvergedTasksAgree == Spec => []ConvergedAgrees
<1>1. Stored /\ ConvergenceInv => ConvergedAgrees
  <2> SUFFICES ASSUME Stored, ConvergenceInv, Converged PROVE task \in Shown(checkpoint.state)
    BY DEF ConvergedAgrees, Shown
  <2>1. PICK state \in {"absent", "running", "paused", "terminal", "outcome_uncertain"} :
           Tells(accepted, state) /\ task \in Shown(state)
    BY DEF ConvergenceInv, Followed
  <2>2. Tells(1..Len(outbox), checkpoint.state)
    BY DEF ConvergenceInv, StateIsTold
  <2>3. \A i : i \in 1..Len(outbox) /\ StateAt(i) <=> i \in accepted /\ StateAt(i)
    BY DEF Converged, StateAt, StateTypes, Stored, TypeOK
  <2>4. checkpoint.state \in {"absent", "running", "paused", "terminal", "outcome_uncertain"}
        /\ \A i \in 1..Len(outbox) : i \in Nat
    BY DEF Stored, TypeOK
  <2>5. state = checkpoint.state
    <3>1. CASE \A i \in accepted : ~StateAt(i)
      BY <2>1, <2>2, <2>3, <3>1 DEF Tells
    <3>2. CASE \E i \in accepted : StateAt(i)
      <4>1. PICK i \in accepted : /\ StateAt(i) /\ StateOf(outbox[i].type) = state
                                  /\ \A j \in accepted : StateAt(j) => j <= i
        BY <2>1, <3>2 DEF Tells
      <4>2. PICK l \in 1..Len(outbox) :
               /\ StateAt(l) /\ StateOf(outbox[l].type) = checkpoint.state
               /\ \A j \in 1..Len(outbox) : StateAt(j) => j <= l
        BY <2>2, <2>3, <3>2 DEF Tells
      <4>3. i \in 1..Len(outbox) /\ l \in accepted
        BY <2>3, <4>1, <4>2
      <4>4. i <= l /\ l <= i /\ i \in Nat /\ l \in Nat
        BY <2>4, <4>1, <4>2, <4>3
      <4> QED
        BY <4>1, <4>2, <4>4
    <3> QED
      BY <3>1, <3>2
  <2> QED
    BY <2>1, <2>5
<1> QED
  BY <1>1, Convergence, PTL

(* The failure that reaches the threshold hands the task to a human in the   *)
(* same transaction, and nothing but a resumption gives it back.             *)
THEOREM FailuresAreHandedOver == Spec => []FailuresHandOver
<1>1. ConvergenceInv => FailuresHandOver
  BY DEF ConvergenceInv, CircuitOK, FailuresHandOver
<1> QED
  BY <1>1, Convergence, PTL

-----------------------------------------------------------------------------
(* One authorization at a time, and one command for each.                    *)

Open(a) == action[a] \in {"authorized", "dispatched"}
NoCommand(a) == \A k \in 1..Len(commands) : commands[k].act # a

(* A step adds at most one command: a control, the offer, or the one that an *)
(* authorization waits for.                                                  *)
Adds(type, act) ==
    /\ commands' = Append(commands, NewCommand(type, act))
    /\ Len(commands') = Len(commands) + 1
    /\ commands'[Len(commands) + 1].type = type /\ commands'[Len(commands) + 1].act = act
    /\ UNCHANGED <<outbox, action, accepted>>

Birth ==
    \/ Len(commands') = Len(commands)
    \/ \E type \in Controls : Adds(type, None) /\ attempt # "none"
    \/ Adds("task.offer", None) /\ attempt = "none" /\ attempt' # "none"
    \/ \E a \in Actions :
          /\ Adds("action.execute", a)
          /\ Running
          /\ a \in Uncommanded \/ (handler.pc = "enqueue" /\ a = handler.act)
          /\ handler'.pc = "expire"

(* Appending a command touches neither the outbox nor an action.            *)
LEMMA Adding ==
    ASSUME Stored, NEW type, NEW act, commands' = Append(commands, NewCommand(type, act)),
           UNCHANGED <<outbox, action, accepted>>
    PROVE  Adds(type, act)
<1>1. commands \in Seq(Command)
  BY DEF Stored, TypeOK
<1>2. NewCommand(type, act).type = type /\ NewCommand(type, act).act = act
  BY DEF NewCommand
<1>3. /\ Len(commands') = Len(commands) + 1
      /\ commands'[Len(commands) + 1] = NewCommand(type, act)
  BY <1>1
<1> QED
  BY <1>2, <1>3 DEF Adds

(* A step adds at most one command: a control, the offer, or the one an     *)
(* authorization waits for.                                                 *)
LEMMA BirthStep == ASSUME Stored, [Next]_vars PROVE Birth
<1>0. commands \in Seq(Command)
  BY DEF Stored, TypeOK
<1>1. CASE UNCHANGED commands
  BY <1>1 DEF Birth
<1>2. ASSUME NEW type \in UserControls, EnqueueControl(type) PROVE Birth
  <2>1. type \in Controls
    BY ConstantsAssumption DEF Controls, Terminations, PauseResume
  <2> QED
    BY <1>2, <2>1, Adding DEF EnqueueControl, executor, Birth
<1>3. ASSUME NEW k \in DOMAIN commands, NEW c, commands' = [commands EXCEPT ![k] = c]
      PROVE  Birth
  BY <1>0, <1>3 DEF Birth
<1>4. ASSUME NEW k \in DOMAIN commands, DeadlinePasses(k) PROVE Birth
  <2>1. commands' = [commands EXCEPT ![k] = [commands[k] EXCEPT !.late = TRUE]]
    BY <1>4 DEF DeadlinePasses
  <2> QED
    BY <1>3, <2>1
<1>5. ASSUME NEW a \in Actions, EnqueueAuthorizedOf(a), UNCHANGED <<action, accepted>>,
             a \in Uncommanded \/ (handler.pc = "enqueue" /\ a = handler.act)
      PROVE  Birth
  <2>1. CASE Running
    <3>1. handler'.pc = "expire"
      BY <1>5, <2>1 DEF EnqueueAuthorizedOf, Goto, Start
    <3> QED
      BY <1>5, <2>1, <3>1, Adding DEF EnqueueAuthorizedOf, executor, Birth
  <2>2. CASE ~Running
    BY <1>1, <1>5, <2>2 DEF EnqueueAuthorizedOf
  <2> QED
    BY <2>1, <2>2
<1>6. CASE OfferNextConfirmed
  <2>1. commands = << >> /\ attempt = "none" /\ attempt' # "none"
    BY <1>6 DEF OfferNextConfirmed, Stored
  <2>2. commands' = Append(commands, NewCommand("task.offer", None))
    BY <1>6, <2>1 DEF OfferNextConfirmed
  <2> QED
    BY <1>6, <2>1, <2>2, Adding DEF OfferNextConfirmed, executor, Birth
<1>7. CASE ExpireDue
  <2>1. DOMAIN commands' = DOMAIN commands
    BY <1>7 DEF ExpireDue
  <2>2. DOMAIN commands' = 1..Len(commands) /\ commands' \in Seq(Command)
    BY <1>0, <2>1, CommandStep DEF CommandSteps
  <2> QED
    BY <1>0, <2>2 DEF Birth
<1>8. ASSUME NEW k \in DOMAIN commands, NEW status, commands' = [commands EXCEPT ![k].status = status]
      PROVE  Birth
  BY <1>0, <1>8 DEF Birth
<1>9. ASSUME NEW k \in DOMAIN commands, ClaimNext(k) \/ ReleaseForRetry(k) PROVE Birth
  BY <1>8, <1>9 DEF ClaimNext, ReleaseForRetry
<1>10. CASE MarkDelivered
  <2>1. handler.k \in DOMAIN commands
    BY <1>0, <1>10 DEF MarkDelivered, At, Stored, References
  <2> QED
    BY <1>8, <1>10, <2>1 DEF MarkDelivered
<1>11. CASE Acknowledge
  <2>1. Row.src \in DOMAIN commands
    BY <1>0, <1>11, HeadUp DEF Acknowledge, Row, RowOK, Stored, References
  <2> QED
    BY <1>1, <1>8, <1>11, <2>1 DEF Acknowledge
<1>12. CASE FillGap \/ EnqueueAuthorized
  <2>1. CASE FillGap
    BY <1>5, <2>1 DEF FillGap, Uncommanded
  <2>2. CASE EnqueueAuthorized
    <3>1. handler.act \in Actions /\ handler.pc = "enqueue"
      BY <2>2 DEF EnqueueAuthorized, At, Stored, References
    <3> QED
      BY <1>5, <2>2, <3>1 DEF EnqueueAuthorized
  <2> QED
    BY <1>12, <2>1, <2>2
<1>13. CASE AdvanceTask
  BY <1>1, <1>6, <1>12, <1>13 DEF AdvanceTask, Idle, FinalizeCompletedTask, AuthorizeLimited,
     AuthorizeRejected, AuthorizeGranted, NextTarget, database
<1>14. CASE DispatchCurrent
  BY <1>1, <1>7, <1>9, <1>10, <1>14 DEF DispatchCurrent, BatchEnds, database
<1>15. CASE ReceiveOne
  BY <1>1, <1>11, <1>15 DEF ReceiveOne, ReceiveMessage, Converge, ConvergeDuplicate,
     ConvergeRejected, ReceiveTimeout, ReceiveClose, database
<1>16. CASE Connect \/ ConnectionLost \/ Kill \/ Recover \/ UNCHANGED vars
  BY <1>1, <1>16 DEF Connect, ConnectionLost, Kill, vars, database, Recover, RecoverBusy,
     RecoverEnds, RecoverProject
<1>17. CASE Execute
  BY <1>1, <1>17 DEF Execute, NoticeClose, IgnoreExpired, ResendAnswer, RefuseCommand,
     AcceptOffer, BeginAction, HandleControl, HandleEmergencyStop, FinishAction, database
<1> QED
  BY <1>2, <1>4, <1>13, <1>14, <1>15, <1>16, <1>17 DEF Next

(* Where the coroutine stands when it authorizes.                            *)
Permits ==
    /\ handler'.pc = "authorize" =>
          (\E a \in Actions : NextTarget(a)) \/ UNCHANGED <<handler, action>>
    /\ handler'.pc = "enqueue" =>
          \/ AuthorizeGranted
          \/ UNCHANGED <<handler, action>> /\ ~EnqueueAuthorized /\ ~FillGap

(* The coroutine authorizes the next target only, and then writes its       *)
(* command.                                                                 *)
LEMMA Authorizing == ASSUME [Next]_vars PROVE Permits
<1>1. CASE handler'.pc \notin {"authorize", "enqueue"}
  BY <1>1 DEF Permits
<1>2. CASE ~AdvanceTask /\ UNCHANGED <<handler, action>>
  BY <1>2 DEF AdvanceTask, Permits
<1>3. ASSUME NEW pc \in {"advance", "expire", "claim", "receive"}, Goto(pc)
      PROVE  handler'.pc \notin {"authorize", "enqueue"}
  BY <1>3 DEF Goto, Start
<1>4. handler' = Start => handler'.pc \notin {"authorize", "enqueue"}
  BY DEF Start
<1>5. CloseRejected => handler'.pc \notin {"authorize", "enqueue"}
  BY <1>4 DEF CloseRejected
<1>6. CASE AdvanceTask
  <2>1. CASE \/ FillGap \/ OfferNextConfirmed \/ Idle \/ FinalizeCompletedTask
             \/ AuthorizeLimited \/ EnqueueAuthorized
    BY <1>1, <1>3, <1>5, <2>1 DEF FillGap, OfferNextConfirmed, Idle, FinalizeCompletedTask,
       AuthorizeLimited, EnqueueAuthorized, EnqueueAuthorizedOf
  <2>2. CASE AuthorizeRejected
    BY <1>1, <2>2 DEF AuthorizeRejected, Start
  <2>3. CASE AuthorizeGranted
    <3>1. handler.pc = "authorize" /\ handler' = [handler EXCEPT !.pc = "enqueue"]
      BY <2>3 DEF AuthorizeGranted, At
    <3>2. handler'.pc # "authorize"
      BY <3>1
    <3> QED
      BY <2>3, <3>2 DEF Permits
  <2>4. ASSUME NEW a \in Actions, NextTarget(a) PROVE Permits
    <3>1. handler' = [handler EXCEPT !.pc = "authorize", !.act = a]
      BY <2>4 DEF NextTarget
    <3>2. handler'.pc # "enqueue"
      BY <3>1
    <3> QED
      BY <2>4, <3>2 DEF Permits
  <2> QED
    BY <1>6, <2>1, <2>2, <2>3, <2>4 DEF AdvanceTask
<1>7. CASE DispatchCurrent
  <2>1. ASSUME NEW k \in DOMAIN commands, ClaimNext(k)
        PROVE  handler'.pc \notin {"authorize", "enqueue"}
    BY <2>1 DEF ClaimNext
  <2> QED
    BY <1>1, <1>3, <1>7, <2>1 DEF DispatchCurrent, ExpireDue, MarkDelivered, BatchEnds,
       ReleaseForRetry
<1>8. CASE ReceiveOne
  BY <1>1, <1>3, <1>4, <1>5, <1>8 DEF ReceiveOne, ReceiveMessage, Acknowledge, Converge,
     ConvergeDuplicate, ConvergeRejected, ReceiveTimeout, ReceiveClose
<1>9. CASE \/ \E type \in UserControls : EnqueueControl(type)
           \/ \E k \in DOMAIN commands : DeadlinePasses(k)
           \/ Connect \/ ConnectionLost \/ Execute \/ Kill \/ Recover \/ UNCHANGED vars
  <2>1. UNCHANGED <<handler, action>> \/ handler' = Start
    BY <1>9 DEF EnqueueControl, DeadlinePasses, Connect, ConnectionLost, Execute, NoticeClose,
       IgnoreExpired, ResendAnswer, RefuseCommand, AcceptOffer, BeginAction, HandleControl,
       HandleEmergencyStop, FinishAction, Kill, Recover, RecoverBusy, RecoverEnds,
       RecoverProject, vars, database
  <2>2. CASE AdvanceTask
    BY <1>6, <2>2
  <2> QED
    BY <1>1, <1>2, <1>4, <2>1, <2>2
<1> QED
  BY <1>6, <1>7, <1>8, <1>9 DEF Next

(* A command is the action's own, its action has a row, and an authorization *)
(* is given only when every other action is decided.                         *)
Scoped(k) ==
    /\ commands[k].type = "action.execute" <=> commands[k].act # None
    /\ commands[k].type = "task.offer" <=> k = 1
    /\ commands[k].act # None => action[commands[k].act] # "none"

ScopeOK ==
    /\ attempt # "none" => commands # << >>
    /\ \A a \in Actions : action[a] # "none" => attempt # "none"
    /\ \A k \in 1..Len(commands) : Scoped(k)
    /\ \A j, k \in 1..Len(commands) :
          commands[k].act # None /\ commands[j].act = commands[k].act => j = k
    /\ \A a, b \in Actions : Open(a) /\ Open(b) => a = b
    /\ handler.pc = "authorize" => Settled /\ action[handler.act] = "none"
    /\ handler.pc = "enqueue" => action[handler.act] = "authorized" /\ NoCommand(handler.act)

(* An action's row changes by an authorization or by an event about it.      *)
LEMMA ActionMoves ==
    ASSUME Stored, ScopeOK, [Next]_vars, NEW a \in Actions
    PROVE  \/ action'[a] = action[a]
           \/ /\ AuthorizeGranted /\ a = handler.act /\ Settled
              /\ action[a] = "none" /\ action'[a] = "authorized"
           \/ /\ Converge /\ Row.act = a /\ Open(a)
              /\ Row.type \notin {"step.started", "step.failed"} => action[a] = "dispatched"
              /\ action'[a] = NextAction(Row.type)
<1>0. action \in [Actions -> TerminalAction \cup {"none", "authorized", "dispatched"}]
      /\ None \notin Actions
  BY ConstantsAssumption DEF Stored, TypeOK
<1>1. CASE AuthorizeGranted
  BY <1>0, <1>1 DEF AuthorizeGranted, At, ScopeOK
<1>2. CASE Converge
  <2>1. ActionAllows(Row)
    BY <1>2 DEF Converge, Convergent
  <2>2. CASE Row.act = None
    BY <1>2, <2>2 DEF Converge
  <2>3. CASE Row.act # None
    <3>1. action' = [action EXCEPT ![Row.act] = NextAction(Row.type)]
      BY <1>2, <2>3 DEF Converge
    <3> QED
      BY <1>0, <1>2, <2>1, <2>3, <3>1 DEF ActionAllows, Open
  <2> QED
    BY <2>2, <2>3
<1> QED
  BY <1>1, <1>2, Writes DEF Kept, Cancelled, OfferNextConfirmed, FinalizeCompletedTask

(* An action's row is never withdrawn.                                      *)
LEMMA RowStays ==
    ASSUME Stored, ScopeOK, [Next]_vars, NEW a \in Actions, action[a] # "none"
    PROVE  action'[a] # "none"
BY ActionMoves DEF NextAction

(* Every step keeps at most one authorization open at a time.               *)
LEMMA ScopeStep == ASSUME Stored, ScopeOK, [Next]_vars PROVE ScopeOK'
<1>0. /\ commands \in Seq(Command) /\ commands' \in Seq(Command)
      /\ Len(commands) <= Len(commands')
      /\ \A k \in 1..Len(commands) :
            commands'[k].type = commands[k].type /\ commands'[k].act = commands[k].act
      /\ None \notin Actions
      /\ \A k \in 1..Len(commands) : commands[k].act # None => commands[k].act \in Actions
  <2>1. commands \in Seq(Command) /\ None \notin Actions
    BY ConstantsAssumption DEF Stored, TypeOK
  <2>2. \A k \in 1..Len(commands) : commands[k] \in Command
    BY <2>1
  <2>3. \A k \in 1..Len(commands) : commands[k].act # None => commands[k].act \in Actions
    BY <2>2 DEF Command
  <2> QED
    BY <2>1, <2>3, CommandStep DEF CommandSteps
<1>1. Len(commands) \in Nat /\ Len(commands') \in Nat
  BY <1>0
<1>2. attempt' # "none" => commands' # << >>
  <2>1. CASE commands # << >>
    BY <1>0, <1>1, <2>1
  <2>2. CASE commands = << >> /\ attempt = "none"
    <3>1. CASE OfferNextConfirmed
      BY <1>1, <3>1 DEF OfferNextConfirmed
    <3>2. ~Converge
      <4>1. Len(commands) = 0
        BY <2>2
      <4> QED
        BY <4>1, HeadUp DEF Converge, RowOK, Stored, References
    <3>3. ~FinalizeCompletedTask /\ ~AuthorizeGranted /\ ~Cancelled
      BY <2>2 DEF FinalizeCompletedTask, AuthorizeGranted, Cancelled, Running
    <3> QED
      BY <2>2, <3>1, <3>2, <3>3, Writes DEF Kept
  <2> QED
    BY <2>1, <2>2 DEF ScopeOK
<1>3. ASSUME NEW a \in Actions, action'[a] # "none" PROVE attempt' # "none"
  <2>1. attempt # "none"
    <3>1. CASE action[a] # "none"
      BY <3>1 DEF ScopeOK
    <3>2. CASE AuthorizeGranted
      BY <3>2 DEF AuthorizeGranted, Running
    <3>3. CASE Converge /\ Open(a)
      BY <3>3 DEF Open, ScopeOK
    <3> QED
      BY <1>3, <3>1, <3>2, <3>3, ActionMoves
  <2>2. attempt' = "none" => commands' = << >>
    BY NoAttemptStep
  <2>3. commands # << >>
    BY <2>1 DEF ScopeOK
  <2> QED
    BY <1>0, <1>1, <2>2, <2>3
<1>4. ASSUME NEW a \in Actions, NEW b \in Actions, Open(a)', Open(b)' PROVE a = b
  <2>1. ASSUME NEW c \in Actions, Open(c)'
        PROVE  Open(c) \/ (AuthorizeGranted /\ c = handler.act /\ Settled)
    BY <2>1, ActionMoves DEF Open
  <2>2. Settled => ~Open(a) /\ ~Open(b)
    BY DEF Settled, Open, TerminalAction
  <2>3. (Open(a) \/ (a = handler.act /\ Settled)) /\ (Open(b) \/ (b = handler.act /\ Settled))
    BY <1>4, <2>1
  <2> QED
    BY <2>2, <2>3 DEF ScopeOK
<1>5. \A k \in 1..Len(commands') :
         \/ k \in 1..Len(commands)
         \/ k = Len(commands) + 1 /\ Len(commands') = Len(commands) + 1
  BY <1>0, <1>1, BirthStep DEF Birth, Adds
<1>6. ASSUME NEW k \in 1..Len(commands') PROVE Scoped(k)'
  <2>1. CASE k \in 1..Len(commands)
    <3>1. Scoped(k)
      BY <2>1 DEF ScopeOK
    <3>2. commands[k].act # None => action'[commands[k].act] # "none"
      BY <1>0, <2>1, <3>1, RowStays DEF Scoped
    <3> QED
      BY <1>0, <2>1, <3>1, <3>2 DEF Scoped
  <2>2. CASE k = Len(commands) + 1 /\ Len(commands') = Len(commands) + 1
    <3>1. ASSUME NEW type \in Controls, Adds(type, None), attempt # "none" PROVE Scoped(k)'
      <4>1. k # 1
        BY <1>0, <1>1, <2>2, <3>1 DEF ScopeOK
      <4> QED
        BY <2>2, <3>1, <4>1 DEF Adds, Scoped, Controls, Terminations, PauseResume
    <3>2. CASE Adds("task.offer", None) /\ attempt = "none"
      <4>1. k = 1
        BY <2>2, <3>2 DEF Stored
      <4> QED
        BY <2>2, <3>2, <4>1 DEF Adds, Scoped
    <3>3. ASSUME NEW a \in Actions, Adds("action.execute", a), Running,
                 \/ a \in Uncommanded
                 \/ (handler.pc = "enqueue" /\ a = handler.act)
          PROVE  Scoped(k)'
      <4>1. k # 1
        BY <1>0, <1>1, <2>2, <3>3 DEF ScopeOK, Running
      <4>2. action[a] = "authorized"
        BY <3>3 DEF ScopeOK, Uncommanded
      <4> QED
        BY <1>0, <2>2, <3>3, <4>1, <4>2 DEF Adds, Scoped
    <3> QED
      BY <1>1, <2>2, <3>1, <3>2, <3>3, BirthStep DEF Birth
  <2> QED
    BY <1>5, <2>1, <2>2
<1>7. ASSUME NEW a \in Actions, Adds("action.execute", a),
             \/ a \in Uncommanded
             \/ (handler.pc = "enqueue" /\ a = handler.act)
      PROVE  NoCommand(a)
  BY <1>0, <1>7 DEF ScopeOK, Uncommanded, NoCommand
<1>8. ASSUME NEW j \in 1..Len(commands'), NEW k \in 1..Len(commands'), commands'[k].act # None,
             commands'[j].act = commands'[k].act
      PROVE  j = k
  <2>1. CASE j \in 1..Len(commands) /\ k \in 1..Len(commands)
    BY <1>0, <1>8, <2>1 DEF ScopeOK
  <2>2. ASSUME NEW n \in 1..Len(commands'), NEW o \in 1..Len(commands), n \notin 1..Len(commands),
               commands'[n].act # None
        PROVE  commands'[o].act # commands'[n].act
    <3>1. n = Len(commands) + 1 /\ Len(commands') = Len(commands) + 1
      BY <1>5, <2>2
    <3>2. PICK a \in Actions : Adds("action.execute", a) /\ NoCommand(a)
      BY <1>1, <1>7, <2>2, <3>1, BirthStep DEF Birth, Adds
    <3> QED
      BY <1>0, <3>1, <3>2 DEF Adds, NoCommand
  <2>3. CASE j \notin 1..Len(commands) /\ k \notin 1..Len(commands)
    BY <1>5, <2>3
  <2> QED
    BY <1>8, <2>1, <2>2, <2>3
<1>9. handler'.pc = "authorize" => Settled' /\ action'[handler'.act] = "none"
  <2>1. ASSUME NEW a \in Actions, NextTarget(a) PROVE Settled' /\ action'[handler'.act] = "none"
    <3>1. handler'.act = a /\ action' = action /\ Settled /\ action[a] = "none"
      BY <2>1 DEF NextTarget, database, Stored, TypeOK
    <3> QED
      BY <3>1 DEF Settled
  <2>2. ASSUME UNCHANGED <<handler, action>>, handler'.pc = "authorize"
        PROVE  Settled' /\ action'[handler'.act] = "none"
    BY <2>2 DEF ScopeOK, Settled
  <2> QED
    BY <2>1, <2>2, Authorizing DEF Permits
<1>10. handler'.pc = "enqueue" => action'[handler'.act] = "authorized" /\ NoCommand(handler.act)'
  <2>1. CASE AuthorizeGranted
    <3>1. /\ handler.act \in Actions /\ action[handler.act] = "none"
          /\ handler'.act = handler.act /\ commands' = commands
          /\ action' = [action EXCEPT ![handler.act] = "authorized"]
      BY <2>1 DEF AuthorizeGranted, At, ScopeOK, Stored, References, TypeOK
    <3>2. action'[handler.act] = "authorized"
      BY <3>1 DEF Stored, TypeOK
    <3>3. \A k \in 1..Len(commands) : commands[k].act # handler.act
      BY <1>0, <3>1 DEF ScopeOK, Scoped
    <3> QED
      BY <3>1, <3>2, <3>3 DEF NoCommand
  <2>2. CASE handler'.pc = "enqueue" /\ UNCHANGED <<handler, action>>
    <3>1. action[handler.act] = "authorized" /\ NoCommand(handler.act) /\ handler.act \in Actions
      BY <2>2 DEF ScopeOK, Stored, References
    <3>2. ASSUME NEW k \in 1..Len(commands'), k \notin 1..Len(commands)
          PROVE  commands'[k].act = None
      <4>1. k = Len(commands) + 1 /\ Len(commands') = Len(commands) + 1
        BY <1>5, <3>2
      <4>2. handler'.pc # "expire"
        BY <2>2
      <4> QED
        BY <1>1, <4>1, <4>2, BirthStep DEF Birth, Adds
    <3>3. \A k \in 1..Len(commands') : commands'[k].act # handler.act
      BY <1>0, <3>1, <3>2 DEF NoCommand
    <3> QED
      BY <2>2, <3>1, <3>3 DEF NoCommand
  <2> QED
    BY <2>1, <2>2, Authorizing DEF Permits
<1> QED
  BY <1>2, <1>3, <1>4, <1>6, <1>8, <1>9, <1>10 DEF ScopeOK

(* At the start no action is authorized.                                    *)
LEMMA ScopeInit == Init => ScopeOK
BY DEF Init, ScopeOK, Start, Open

-----------------------------------------------------------------------------
(* The executor runs an action only while its authorization stands: what it  *)
(* has not answered, nothing that was accepted tells of.                     *)

NoRows(k) == \A i \in 1..Len(outbox) : outbox[i].src # k
Undone(k) ==
    /\ action[commands[k].act] = "authorized"
    /\ \A i \in 1..Len(outbox) : outbox[i].act = commands[k].act =>
          i \notin accepted /\ outbox[i].type \in {"step.completed", "task.outcome_uncertain"}

ExecutionOK ==
    /\ \A i \in 1..Len(outbox) : outbox[i].act # None =>
          \E k \in 1..Len(commands) : commands[k].act = outbox[i].act
    /\ \A k \in 1..Len(commands) : commands[k].act # None /\ NoRows(k) => Undone(k)
    /\ busy # 0 => NoRows(busy)

(* A row that is new answers the running action, is crash recovery's, or is  *)
(* about no action.                                                          *)
NewFact(i) ==
    \/ outbox'[i].act = None
    \/ /\ busy # 0 /\ outbox'[i].src = busy /\ outbox'[i].act = commands[busy].act
    \/ /\ outbox'[i].src = 1
       /\ outbox'[i].type \in {"step.completed", "task.outcome_uncertain"}
       /\ \/ busy # 0 /\ outbox'[i].act = commands[busy].act
          \/ outbox'[i].type = "step.completed" /\ Reported(outbox'[i].act, "step.completed")

(* A new row answers the running action, is crash recovery's, or is about   *)
(* no action.                                                               *)
LEMMA NewFacts ==
    ASSUME Stored, [Next]_vars, NEW i \in 1..Len(outbox'), i > Len(outbox)
    PROVE  NewFact(i) /\ busy' = 0 /\ accepted' = accepted
<1>0. Len(outbox') \in Nat /\ outbox' # outbox
  <2>1. outbox' \in Seq(OutboxRow)
    BY Growing DEF Grown
  <2> QED
    BY <2>1
<1>1. ~Converge
  BY <1>0 DEF Converge, executor
<1>2. accepted' = accepted
  BY <1>1, Writes DEF Kept, Cancelled, OfferNextConfirmed, FinalizeCompletedTask, AuthorizeGranted
<1>3. ASSUME NEW k \in 1..Len(commands), NEW type \in StateTypes, Answers(k, type)
      PROVE  NewFact(i) /\ busy' = 0
  BY <1>3, AnswersGrow DEF NewFact, Answers
<1>4. ASSUME NEW type \in {"step.completed", "step.failed", "task.outcome_uncertain"}, Reports(type)
      PROVE  NewFact(i) /\ busy' = 0
  BY <1>4, ReportsGrow DEF NewFact, Reports
<1>5. ASSUME NEW a \in Actions, NEW type \in {"step.completed", "task.outcome_uncertain"},
             Recovers(a, type)
      PROVE  NewFact(i) /\ busy' = 0
  BY <1>5, RecoversGrow DEF NewFact, Recovers
<1>6. ~Untouched
  BY <1>0 DEF Untouched
<1> QED
  BY <1>2, <1>3, <1>4, <1>5, <1>6, OutboxStep DEF Appends

(* The executor begins an action only on an authorized command.             *)
LEMMA Beginning ==
    ASSUME Stored, [Next]_vars
    PROVE  \/ busy' = 0 \/ busy' = busy
           \/ BeginAction
<1>1. CASE Execute
  BY <1>1 DEF Execute, NoticeClose, IgnoreExpired, ResendAnswer, RefuseCommand, AcceptOffer,
     HandleControl, HandleEmergencyStop, FinishAction, executor
<1>2. CASE Recover
  BY <1>2 DEF Recover, RecoverBusy, RecoverEnds, RecoverProject
<1>3. CASE \/ \E type \in UserControls : EnqueueControl(type)
           \/ \E k \in DOMAIN commands : DeadlinePasses(k)
           \/ Connect \/ ConnectionLost \/ Kill \/ UNCHANGED vars
  BY <1>3 DEF EnqueueControl, DeadlinePasses, Connect, ConnectionLost, Kill, executor, vars
<1>4. CASE AdvanceTask
  BY <1>4 DEF AdvanceTask, FillGap, OfferNextConfirmed, Idle, FinalizeCompletedTask,
     AuthorizeLimited, AuthorizeRejected, AuthorizeGranted, EnqueueAuthorized, NextTarget,
     EnqueueAuthorizedOf, CloseRejected, executor
<1>5. CASE DispatchCurrent
  BY <1>5 DEF DispatchCurrent, ExpireDue, MarkDelivered, BatchEnds, ClaimNext, ReleaseForRetry,
     executor
<1>6. CASE ReceiveOne
  BY <1>6 DEF ReceiveOne, ReceiveMessage, Acknowledge, Converge, ConvergeDuplicate,
     ConvergeRejected, CloseRejected, ReceiveTimeout, ReceiveClose, executor
<1> QED
  BY <1>1, <1>2, <1>3, <1>4, <1>5, <1>6 DEF Next

(* Every step keeps what is executed authorized.                            *)
LEMMA ExecutionStep == ASSUME Stored, ScopeOK, ExecutionOK, [Next]_vars PROVE ExecutionOK'
<1>0. /\ outbox \in Seq(OutboxRow) /\ outbox' \in Seq(OutboxRow)
      /\ commands \in Seq(Command) /\ commands' \in Seq(Command)
      /\ Len(outbox) <= Len(outbox') /\ Len(commands) <= Len(commands')
      /\ \A i \in 1..Len(outbox) : outbox'[i] = outbox[i]
      /\ \A k \in 1..Len(commands) : commands'[k].act = commands[k].act
  BY Growing, CommandStep DEF Grown, CommandSteps, Stored, TypeOK
<1>1. /\ Len(outbox) \in Nat /\ Len(outbox') \in Nat
      /\ Len(commands) \in Nat /\ Len(commands') \in Nat
  BY <1>0
<1>2. \A i \in 1..Len(outbox') : i \in 1..Len(outbox) \/ (i > Len(outbox) /\ NewFact(i))
  <2>1. \A i \in 1..Len(outbox') : i > Len(outbox) => NewFact(i)
    BY NewFacts
  <2> QED
    BY <1>1, <2>1
<1>3. busy # 0 => busy \in 1..Len(commands) /\ commands[busy].act # None
  BY ConstantsAssumption DEF Stored, TypeOK, References, CommandOK
<1>4. ASSUME NEW i \in 1..Len(outbox'), outbox'[i].act # None
      PROVE  \E k \in 1..Len(commands') : commands'[k].act = outbox'[i].act
  <2>1. \E k \in 1..Len(commands) : commands[k].act = outbox'[i].act
    <3>1. CASE i \in 1..Len(outbox)
      BY <1>0, <1>4, <3>1 DEF ExecutionOK
    <3>2. CASE NewFact(i)
      BY <1>3, <1>4, <3>2 DEF NewFact, Reported, ExecutionOK
    <3> QED
      BY <1>2, <3>1, <3>2
  <2> QED
    BY <1>0, <1>1, <2>1
<1>5. ASSUME NEW k \in 1..Len(commands'), commands'[k].act # None, NoRows(k)'
      PROVE  Undone(k)'
  <2>1. CASE k \in 1..Len(commands)
    <3> DEFINE a == commands[k].act
    <3>1. NoRows(k) /\ a # None /\ commands'[k].act = a
      <4>1. \A i \in 1..Len(outbox) : i \in 1..Len(outbox') /\ outbox'[i] = outbox[i]
        BY <1>0, <1>1
      <4>2. NoRows(k)
        BY <1>5, <4>1 DEF NoRows
      <4> QED
        BY <1>0, <1>5, <2>1, <4>2
    <3>2. /\ action[a] = "authorized" /\ a \in Actions
          /\ \A i \in 1..Len(outbox) : outbox[i].act = a =>
                i \notin accepted /\ outbox[i].type \in {"step.completed", "task.outcome_uncertain"}
      BY <2>1, <3>1 DEF ExecutionOK, Undone, Stored, CommandOK, Command
    <3> HIDE DEF a
    <3>3. ASSUME Converge PROVE Row.act # a
      <4>1. Head(up) \in 1..Len(outbox) /\ ActionAllows(Row)
        BY <3>3, HeadUp DEF Converge, Convergent
      <4>2. ASSUME Row.act = a PROVE Row.type \in {"step.completed", "task.outcome_uncertain"}
        BY <3>2, <4>1, <4>2 DEF Row
      <4> QED
        BY <3>1, <3>2, <4>1, <4>2 DEF ActionAllows
    <3>4. action'[a] = "authorized"
      BY <3>2, <3>3, ActionMoves
    <3>5. ASSUME NEW i \in 1..Len(outbox'), outbox'[i].act = a
          PROVE  i \notin accepted' /\ outbox'[i].type \in {"step.completed", "task.outcome_uncertain"}
      <4>1. CASE i \in 1..Len(outbox)
        <5>1. i \notin accepted /\ outbox'[i].type \in {"step.completed", "task.outcome_uncertain"}
          BY <1>0, <3>2, <3>5, <4>1
        <5>2. CASE Converge
          BY <1>0, <3>3, <3>5, <4>1, <5>1, <5>2 DEF Converge, Row
        <5>3. CASE ~Converge
          BY <5>1, <5>3, Writes DEF Kept, Cancelled, OfferNextConfirmed, FinalizeCompletedTask,
             AuthorizeGranted
        <5> QED
          BY <5>2, <5>3
      <4>2. CASE i > Len(outbox)
        <5>1. NewFact(i) /\ accepted' = accepted /\ accepted \subseteq 1..Len(outbox)
          BY <4>2, NewFacts DEF Stored, TypeOK
        <5>2. ASSUME busy # 0, outbox'[i].src = busy, outbox'[i].act = commands[busy].act
              PROVE  FALSE
          <6>1. busy = k
            BY <1>3, <2>1, <3>1, <3>5, <5>2 DEF ScopeOK, a
          <6> QED
            BY <1>5, <5>2, <6>1 DEF NoRows
        <5>3. outbox'[i].type \in {"step.completed", "task.outcome_uncertain"}
          BY <3>1, <3>5, <5>1, <5>2 DEF NewFact
        <5> QED
          BY <1>1, <4>2, <5>1, <5>3
      <4> QED
        BY <1>1, <4>1, <4>2
    <3> QED
      BY <3>1, <3>4, <3>5 DEF Undone
  <2>2. CASE k \notin 1..Len(commands)
    <3>1. PICK a \in Actions :
             /\ Adds("action.execute", a)
             /\ a \in Uncommanded \/ (handler.pc = "enqueue" /\ a = handler.act)
             /\ k = Len(commands) + 1
      <4>1. k = Len(commands) + 1 /\ Len(commands') = Len(commands) + 1
        BY <1>0, <1>1, <2>2, BirthStep DEF Birth, Adds
      <4> QED
        BY <1>1, <1>5, <4>1, BirthStep DEF Birth, Adds
    <3>2. /\ commands'[k].act = a /\ UNCHANGED <<outbox, action, accepted>>
          /\ a # None
      BY <1>5, <3>1 DEF Adds
    <3>3. action[a] = "authorized" /\ \A j \in 1..Len(commands) : commands[j].act # a
      BY <1>0, <3>1 DEF Uncommanded, ScopeOK, NoCommand
    <3>4. \A i \in 1..Len(outbox) : outbox[i].act # a
      BY <3>2, <3>3 DEF ExecutionOK
    <3> QED
      BY <3>2, <3>3, <3>4 DEF Undone
  <2> QED
    BY <2>1, <2>2
<1>6. ASSUME busy' # 0 PROVE NoRows(busy)'
  <2>1. outbox' = outbox
    <3>1. Appends => busy' = 0
      BY DEF Appends, Answers, Reports, Recovers
    <3> QED
      BY <1>6, <3>1, OutboxStep DEF Untouched
  <2>2. CASE busy' = busy
    BY <1>6, <2>1, <2>2 DEF ExecutionOK, NoRows
  <2>3. CASE BeginAction
    <3>1. PICK k \in 1..Len(commands) : k = Head(down) /\ busy' = k
      BY <2>3, HeadDown DEF BeginAction, Ready
    <3>2. CASE Fits(k)
      <4>1. \A i \in 1..Len(outbox) : outbox[i].src \in 1..checkpoint.last
        BY DEF Stored, RowOK
      <4>2. k = checkpoint.last + 1 /\ checkpoint.last \in Nat
        BY <3>2 DEF Fits, Stored, TypeOK
      <4> QED
        BY <2>1, <3>1, <4>1, <4>2 DEF NoRows
    <3>3. CASE Unanswered(k)
      BY <2>1, <3>1, <3>3 DEF Unanswered, HasRows, Rows, NoRows
    <3> QED
      BY <2>3, <3>1, <3>2, <3>3 DEF BeginAction
  <2> QED
    BY <1>6, <2>2, <2>3, Beginning
<1> QED
  BY <1>4, <1>5, <1>6 DEF ExecutionOK

(* At the start nothing is executed.                                        *)
LEMMA ExecutionInit == Init => ExecutionOK
BY DEF Init, ExecutionOK

(* Only one action is authorized at a time, and what runs is authorized.    *)
THEOREM Authority == Spec => [](Stored /\ ScopeOK /\ ExecutionOK)
<1>1. Stored /\ ScopeOK /\ ExecutionOK /\ [Next]_vars => (Stored /\ ScopeOK /\ ExecutionOK)'
  BY StoredStep, ScopeStep, ExecutionStep
<1> QED
  BY <1>1, StoredInit, ScopeInit, ExecutionInit, PTL DEF Spec

(* The executor runs an action only while the Control Plane's authorization  *)
(* of it stands and no other action is open: however often a command is sent *)
(* again, a connection replaced or the process killed and recovered.         *)
THEOREM OnlyAuthorizedRuns == Spec => []RunsOnlyAuthorized
<1>1. Stored /\ ScopeOK /\ ExecutionOK => RunsOnlyAuthorized
  <2> SUFFICES ASSUME Stored, ScopeOK, ExecutionOK, busy # 0, NEW a \in Actions
               PROVE  IF commands[busy].act = a THEN action[a] = "authorized"
                      ELSE action[a] \in TerminalAction \cup {"none"}
    BY DEF RunsOnlyAuthorized
  <2>1. busy \in 1..Len(commands) /\ commands[busy].act \in Actions /\ commands[busy].act # None
    BY ConstantsAssumption DEF Stored, TypeOK, References, CommandOK
  <2>2. action[commands[busy].act] = "authorized"
    BY <2>1 DEF ExecutionOK, Undone
  <2>3. action \in [Actions -> TerminalAction \cup {"none", "authorized", "dispatched"}]
    BY DEF Stored, TypeOK
  <2> QED
    BY <2>1, <2>2, <2>3 DEF ScopeOK, Open
<1> QED
  BY <1>1, Authority, PTL

-----------------------------------------------------------------------------
(* What a final status says of the targets is what the executor recorded.    *)

Says(i, a, type) == outbox[i].act = a /\ outbox[i].type = type

(* Nothing is skipped while the task runs, an accepted completion stands, a  *)
(* verdict has its event, and no completion follows a failure.               *)
VerdictOK ==
    /\ task \notin TerminalStatus =>
          /\ lastEvent <= checkpoint.ev
          /\ \A i \in 1..Len(outbox) :
                EventAt(i) /\ outbox[i].ev <= lastEvent => i \in accepted
    /\ \A a \in Actions : \A i \in accepted :
          Says(i, a, "step.completed") => action[a] = "succeeded"
    /\ \A a \in Actions : action[a] \in TerminalAction =>
          \E i \in accepted : outbox[i].act = a /\ NextAction(outbox[i].type) = action[a]
    /\ \A a \in Actions : \A i, j \in 1..Len(outbox) :
          Says(i, a, "step.failed") /\ Says(j, a, "step.completed") =>
              \E h \in 1..Len(outbox) : h < i /\ Says(h, a, "step.completed")
    /\ \A a \in Actions : action[a] = "failed" => ~Reported(a, "step.completed")
    /\ task = "succeeded" => \A a \in Actions : action[a] = "succeeded"
    /\ task = "partially_succeeded" =>
          (\E a \in Actions : action[a] = "succeeded") /\ \E a \in Actions : action[a] = "failed"
    /\ task = "failed" => \A a \in Actions : action[a] = "failed"

AllOK == Stored /\ ConvergenceInv /\ ScopeOK /\ ExecutionOK

(* A finished task keeps its rows.                                          *)
LEMMA FinishedStays ==
    ASSUME [Next]_vars, task \in TerminalStatus
    PROVE  Kept
<1>1. TaskTransitions[task] = {} /\ task \notin {"queued", "running", "paused", "cancelling"}
  BY TerminalHasNoTransition
<1> QED
  BY <1>1, Writes, ConvergeMoves DEF Cancelled, OfferNextConfirmed, FinalizeCompletedTask,
     AuthorizeGranted, Running

(* While an action runs, nothing in the log says that it failed.             *)
LEMMA BusyIsUndone ==
    ASSUME AllOK, busy # 0
    PROVE  /\ commands[busy].act \in Actions
           /\ action[commands[busy].act] = "authorized"
           /\ \A i \in 1..Len(outbox) : outbox[i].act = commands[busy].act =>
                 outbox[i].type \in {"step.completed", "task.outcome_uncertain"}
<1>1. busy \in 1..Len(commands) /\ commands[busy].act \in Actions /\ commands[busy].act # None
  BY ConstantsAssumption DEF AllOK, Stored, TypeOK, References, CommandOK
<1> QED
  BY <1>1 DEF AllOK, ExecutionOK, Undone

(* No accepted event has a predecessor that was not accepted.               *)
LEMMA GaplessStep ==
    ASSUME AllOK, VerdictOK, [Next]_vars, task' \notin TerminalStatus
    PROVE  /\ lastEvent' <= checkpoint'.ev
           /\ \A i \in 1..Len(outbox') :
                 EventAt(i)' /\ outbox'[i].ev <= lastEvent' => i \in accepted'
<1>0. /\ lastEvent \in Nat /\ checkpoint.ev \in Nat /\ checkpoint'.ev \in Nat
      /\ checkpoint.ev <= checkpoint'.ev
      /\ Len(outbox) \in Nat /\ Len(outbox') \in Nat /\ Len(outbox) <= Len(outbox')
      /\ \A i \in 1..Len(outbox) : outbox'[i] = outbox[i]
      /\ \A i \in 1..Len(outbox) : outbox[i].ev \in Nat
  <2>1. /\ lastEvent \in Nat /\ checkpoint.ev \in Nat /\ outbox \in Seq(OutboxRow)
        /\ \A i \in 1..Len(outbox) : outbox[i] \in OutboxRow
    BY DEF AllOK, Stored, TypeOK, RowOK
  <2>2. Grown
    BY Growing DEF AllOK
  <2>3. outbox' \in Seq(OutboxRow)
    BY <2>2 DEF Grown
  <2>4. \A i \in 1..Len(outbox) : outbox[i].ev \in Nat
    BY <2>1 DEF OutboxRow
  <2> QED
    BY <2>1, <2>2, <2>3, <2>4 DEF Grown
<1>1. task \notin TerminalStatus
  BY FinishedStays DEF Kept
<1>2. /\ lastEvent <= checkpoint.ev
      /\ \A i \in 1..Len(outbox) : EventAt(i) /\ outbox[i].ev <= lastEvent => i \in accepted
  BY <1>1 DEF VerdictOK
<1>3. CASE Converge
  <2>1. /\ Head(up) \in 1..Len(outbox) /\ EventAt(Head(up))
        /\ Row.ev = lastEvent + 1 /\ lastEvent' = lastEvent + 1
        /\ accepted' = accepted \cup {Head(up)} /\ outbox' = outbox
    BY <1>3, ConvergesNext DEF AllOK, ConvergenceInv
  <2>2. Row.ev \in 1..checkpoint.ev
    BY <2>1 DEF AllOK, ConvergenceInv, LogOrdered, Row
  <2>3. lastEvent' <= checkpoint'.ev
    BY <1>0, <2>1, <2>2
  <2>4. ASSUME NEW i \in 1..Len(outbox), EventAt(i), outbox[i].ev = lastEvent + 1
        PROVE  i = Head(up)
    <3>1. outbox[Head(up)].ev = outbox[i].ev /\ outbox[i].ev \in Nat
      BY <1>0, <2>1, <2>4 DEF Row
    <3>2. ~(i < Head(up)) /\ ~(Head(up) < i)
      BY <2>1, <2>4, <3>1 DEF AllOK, ConvergenceInv, LogOrdered
    <3> QED
      BY <1>0, <2>1, <3>2
  <2>5. ASSUME NEW i \in 1..Len(outbox'), EventAt(i)', outbox'[i].ev <= lastEvent'
        PROVE  i \in accepted'
    <3>1. EventAt(i) /\ i \in 1..Len(outbox) /\ outbox[i].ev \in Nat
          /\ outbox[i].ev <= lastEvent + 1
      BY <1>0, <2>1, <2>5 DEF EventAt
    <3>2. outbox[i].ev <= lastEvent \/ outbox[i].ev = lastEvent + 1
      BY <1>0, <3>1
    <3> QED
      BY <1>2, <2>1, <2>4, <3>1, <3>2
  <2> QED
    BY <2>3, <2>5
<1>4. CASE lastEvent' = lastEvent /\ accepted' = accepted
  <2>1. ASSUME NEW i \in 1..Len(outbox'), EventAt(i)', outbox'[i].ev <= lastEvent'
        PROVE  i \in accepted'
    <3>1. CASE i \in 1..Len(outbox)
      BY <1>0, <1>2, <1>4, <2>1, <3>1 DEF EventAt
    <3>2. CASE i > Len(outbox)
      <4>1. outbox'[i].ev \in (checkpoint.ev + 1)..checkpoint'.ev
        BY <2>1, <3>2, Growing DEF NewRow, AllOK
      <4> QED
        BY <1>0, <1>2, <1>4, <2>1, <4>1
    <3> QED
      BY <1>0, <3>1, <3>2
  <2> QED
    BY <1>0, <1>2, <1>4, <2>1
<1>5. ~FinalizeCompletedTask
  BY DEF FinalizeCompletedTask, FinalStatus, TerminalStatus
<1> QED
  BY <1>3, <1>4, <1>5, Writes DEF Kept, Cancelled, OfferNextConfirmed, AuthorizeGranted

(* The rows that were there stay as they are.                                *)
LEMMA Keeps ==
    ASSUME AllOK, [Next]_vars
    PROVE  /\ Len(outbox) \in Nat /\ Len(outbox') \in Nat /\ Len(outbox) <= Len(outbox')
           /\ \A i \in 1..Len(outbox) : i \in 1..Len(outbox') /\ outbox'[i] = outbox[i]
           /\ accepted \subseteq 1..Len(outbox)
           /\ accepted' = accepted \/ (Converge /\ accepted' = accepted \cup {Head(up)}
                                       /\ Head(up) \in 1..Len(outbox) /\ outbox' = outbox)
<1>1. /\ outbox \in Seq(OutboxRow) /\ outbox' \in Seq(OutboxRow) /\ Len(outbox) <= Len(outbox')
      /\ \A i \in 1..Len(outbox) : outbox'[i] = outbox[i]
      /\ accepted \subseteq 1..Len(outbox)
  BY Growing DEF Grown, AllOK, Stored, TypeOK
<1>2. Len(outbox) \in Nat /\ Len(outbox') \in Nat
  BY <1>1
<1>3. Converge => /\ accepted' = accepted \cup {Head(up)}
                  /\ Head(up) \in 1..Len(outbox) /\ outbox' = outbox
  BY ConvergesNext DEF AllOK, ConvergenceInv
<1>4. ~Converge => accepted' = accepted
  BY Writes DEF Kept, Cancelled, OfferNextConfirmed, FinalizeCompletedTask, AuthorizeGranted
<1> QED
  BY <1>1, <1>2, <1>3, <1>4

(* An action ends as its accepted event says, and a completion is never     *)
(* overruled.                                                               *)
LEMMA CompletionStep ==
    ASSUME AllOK, VerdictOK, [Next]_vars, NEW a \in Actions
    PROVE  /\ \A i \in accepted' : Says(i, a, "step.completed")' => action'[a] = "succeeded"
           /\ action'[a] \in TerminalAction =>
                 \E i \in accepted' : outbox'[i].act = a /\ NextAction(outbox'[i].type) = action'[a]
<1>1. /\ \A i \in accepted : Says(i, a, "step.completed") => action[a] = "succeeded"
      /\ action[a] \in TerminalAction =>
            \E i \in accepted : outbox[i].act = a /\ NextAction(outbox[i].type) = action[a]
  BY DEF VerdictOK
<1>2. \A i \in accepted : i \in accepted' /\ outbox'[i] = outbox[i]
  BY Keeps
<1>3. action[a] = "succeeded" => action'[a] = "succeeded"
  BY ActionMoves DEF AllOK, Open
<1>4. ASSUME NEW i \in accepted', Says(i, a, "step.completed")' PROVE action'[a] = "succeeded"
  <2>1. CASE i \in accepted
    BY <1>1, <1>2, <1>3, <1>4, <2>1 DEF Says
  <2>2. CASE Converge /\ i = Head(up) /\ outbox' = outbox
    <3>1. Row.act = a /\ Row.type = "step.completed" /\ a # None
      BY <1>4, <2>2, ConstantsAssumption DEF Says, Row
    <3>2. action' = [action EXCEPT ![a] = "succeeded"]
      BY <2>2, <3>1 DEF Converge, NextAction
    <3> QED
      BY <3>2 DEF AllOK, Stored, TypeOK
  <2> QED
    BY <1>4, <2>1, <2>2, Keeps
<1>5. ASSUME action'[a] \in TerminalAction
      PROVE  \E i \in accepted' : outbox'[i].act = a /\ NextAction(outbox'[i].type) = action'[a]
  <2>1. CASE action'[a] = action[a]
    BY <1>1, <1>2, <1>5, <2>1
  <2>2. CASE action'[a] = "authorized"
    BY <1>5, <2>2 DEF TerminalAction
  <2>3. CASE Converge /\ Row.act = a /\ action'[a] = NextAction(Row.type)
    <3>1. Head(up) \in accepted' /\ outbox' = outbox
      BY <2>3, ConvergesNext DEF AllOK, ConvergenceInv
    <3>2. outbox'[Head(up)].act = a /\ NextAction(outbox'[Head(up)].type) = action'[a]
      BY <2>3, <3>1 DEF Row
    <3> QED
      BY <3>1, <3>2
  <2> QED
    BY <2>1, <2>2, <2>3, ActionMoves DEF AllOK
<1> QED
  BY <1>4, <1>5

(* A failure and a completion of one action are never of one run of it.      *)
LEMMA OneFactPerRun ==
    ASSUME Stored, [Next]_vars, NEW i \in 1..Len(outbox'), NEW j \in 1..Len(outbox'),
           i > Len(outbox), j > Len(outbox), outbox'[i].type = "step.failed"
    PROVE  outbox'[j].type # "step.completed" /\ busy # 0 /\ outbox'[i].act = commands[busy].act
<1>1. ASSUME NEW k \in 1..Len(commands), NEW type \in StateTypes, Answers(k, type)
      PROVE  FALSE
  <2>1. RowOK(i)' /\ outbox'[i].act = None
    BY <1>1, AnswersGrow DEF NewRow
  <2> QED
    BY <2>1, ConstantsAssumption DEF RowOK, StepTypes
<1>2. ASSUME NEW type \in {"step.completed", "step.failed", "task.outcome_uncertain"}, Reports(type)
      PROVE  outbox'[j].type # "step.completed" /\ busy # 0 /\ outbox'[i].act = commands[busy].act
  BY <1>2, ReportsGrow DEF Reports
<1>3. ASSUME NEW a \in Actions, NEW type \in {"step.completed", "task.outcome_uncertain"},
             Recovers(a, type)
      PROVE  FALSE
  BY <1>3, RecoversGrow
<1>4. ~Untouched
  <2>1. outbox' \in Seq(OutboxRow)
    BY Growing DEF Grown
  <2> QED
    BY <2>1 DEF Untouched
<1> QED
  BY <1>1, <1>2, <1>3, <1>4, OutboxStep DEF Appends

(* No completion is reported after a failure, and a failed action was not   *)
(* completed.                                                               *)
LEMMA FailureStep ==
    ASSUME AllOK, VerdictOK, [Next]_vars, NEW a \in Actions
    PROVE  /\ \A i, j \in 1..Len(outbox') :
                 Says(i, a, "step.failed")' /\ Says(j, a, "step.completed")' =>
                     \E h \in 1..Len(outbox') : h < i /\ Says(h, a, "step.completed")'
           /\ action'[a] = "failed" => ~Reported(a, "step.completed")'
<1>0. /\ Len(outbox) \in Nat /\ Len(outbox') \in Nat /\ Len(outbox) <= Len(outbox')
      /\ \A i \in 1..Len(outbox) : i \in 1..Len(outbox') /\ outbox'[i] = outbox[i]
  BY Keeps
<1>1. \A i, j \in 1..Len(outbox) : Says(i, a, "step.failed") /\ Says(j, a, "step.completed") =>
         \E h \in 1..Len(outbox) : h < i /\ Says(h, a, "step.completed")
  BY DEF VerdictOK
<1>2. \A i \in 1..Len(outbox') : i \in 1..Len(outbox) \/ i > Len(outbox)
  BY <1>0
<1>3. a # None
  BY ConstantsAssumption

(* A new completion of an action is of the one that was running, or repeats  *)
(* an old one.                                                               *)
<1>4. ASSUME NEW j \in 1..Len(outbox'), j > Len(outbox), Says(j, a, "step.completed")'
      PROVE  \/ busy # 0 /\ commands[busy].act = a
             \/ Reported(a, "step.completed")
  <2>1. NewFact(j)
    BY <1>4, NewFacts DEF AllOK
  <2> QED
    BY <1>3, <1>4, <2>1 DEF NewFact, Says
<1>5. ASSUME NEW i \in 1..Len(outbox'), NEW j \in 1..Len(outbox'),
             Says(i, a, "step.failed")', Says(j, a, "step.completed")'
      PROVE  \E h \in 1..Len(outbox') : h < i /\ Says(h, a, "step.completed")'
  <2>1. CASE i \in 1..Len(outbox)
    <3>1. Says(i, a, "step.failed")
      BY <1>0, <1>5, <2>1 DEF Says
    <3>2. \E l \in 1..Len(outbox) : Says(l, a, "step.completed")
      <4>1. CASE j \in 1..Len(outbox)
        BY <1>0, <1>5, <4>1 DEF Says
      <4>2. CASE j > Len(outbox)
        <5>1. ~(busy # 0 /\ commands[busy].act = a)
          BY <2>1, <3>1, BusyIsUndone DEF Says
        <5> QED
          BY <1>4, <1>5, <4>2, <5>1 DEF Reported, Says
      <4> QED
        BY <1>2, <4>1, <4>2
    <3>3. PICK h \in 1..Len(outbox) : h < i /\ Says(h, a, "step.completed")
      BY <1>1, <2>1, <3>1, <3>2
    <3> QED
      BY <1>0, <3>3 DEF Says
  <2>2. CASE i > Len(outbox)
    <3>1. j \in 1..Len(outbox)
      BY <1>2, <1>5, <2>2, OneFactPerRun DEF AllOK, Says
    <3>2. j < i
      BY <1>0, <2>2, <3>1
    <3> QED
      BY <1>5, <3>2
  <2> QED
    BY <1>2, <2>1, <2>2
<1>6. ASSUME action'[a] = "failed", NEW j \in 1..Len(outbox'), Says(j, a, "step.completed")'
      PROVE  FALSE
  <2>1. CASE action[a] = "failed"
    <3>1. ~Reported(a, "step.completed")
      BY <2>1 DEF VerdictOK
    <3>2. j > Len(outbox)
      BY <1>0, <1>2, <1>6, <3>1 DEF Reported, Says
    <3>3. busy # 0 /\ commands[busy].act = a
      BY <1>4, <1>6, <3>1, <3>2
    <3> QED
      BY <2>1, <3>3, BusyIsUndone
  <2>2. CASE /\ Converge /\ Row.act = a /\ Open(a) /\ NextAction(Row.type) = "failed"
    <3>1. /\ Head(up) \in 1..Len(outbox) /\ Row.ev = lastEvent + 1 /\ lastEvent \in Nat
          /\ outbox' = outbox /\ EventAt(Head(up))
      BY <2>2, ConvergesNext DEF AllOK, ConvergenceInv
    <3>2. Says(Head(up), a, "step.failed")
      BY <2>2 DEF NextAction, Says, Row
    <3>3. PICK h \in 1..Len(outbox) : h < Head(up) /\ Says(h, a, "step.completed")
      BY <1>1, <1>6, <3>1, <3>2 DEF Says
    <3>4. EventAt(h) /\ outbox[h].ev < lastEvent + 1 /\ outbox[h].ev \in Nat
      <4>1. EventAt(h)
        BY <3>3 DEF EventAt, Says
      <4>2. outbox[h].ev < outbox[Head(up)].ev /\ outbox[h].ev \in 1..checkpoint.ev
        BY <3>1, <3>3, <4>1 DEF AllOK, ConvergenceInv, LogOrdered
      <4> QED
        BY <3>1, <4>1, <4>2 DEF Row
    <3>5. task \notin TerminalStatus
      BY <2>2, ConvergeMoves
    <3>6. h \in accepted
      BY <3>1, <3>4, <3>5 DEF VerdictOK
    <3>7. action[a] = "succeeded"
      BY <3>3, <3>6 DEF VerdictOK
    <3> QED
      BY <2>2, <3>7 DEF Open
  <2> QED
    BY <1>6, <2>1, <2>2, ActionMoves DEF AllOK
<1>7. action'[a] = "failed" => ~Reported(a, "step.completed")'
  BY <1>6 DEF Reported, Says
<1> QED
  BY <1>5, <1>7

(* A task's final status is that of its actions.                            *)
LEMMA FinalStep ==
    ASSUME AllOK, VerdictOK, [Next]_vars
    PROVE  /\ task' = "succeeded" => \A a \in Actions : action'[a] = "succeeded"
           /\ task' = "partially_succeeded" =>
                 /\ \E a \in Actions : action'[a] = "succeeded"
                 /\ \E a \in Actions : action'[a] = "failed"
           /\ task' = "failed" => \A a \in Actions : action'[a] = "failed"
<1>1. CASE Kept
  BY <1>1 DEF Kept, VerdictOK
<1>2. CASE FinalizeCompletedTask
  <2>1. /\ \A a \in Actions : action[a] \in TerminalAction /\ action[a] # "outcome_uncertain"
        /\ task' = FinalStatus /\ action' = action
    BY <1>2 DEF FinalizeCompletedTask, Running, AllOK, ConvergenceInv, NoDoubt
  <2>2. \A a \in Actions : action[a] \in {"succeeded", "failed"}
    BY <2>1 DEF TerminalAction
  <2>3. Actions # {}
    BY ConstantsAssumption
  <2> DEFINE outcomes == {action[a] : a \in Actions}
  <2>4. /\ outcomes = {"succeeded"} => \A a \in Actions : action[a] = "succeeded"
        /\ outcomes # {"succeeded"} => \E a \in Actions : action[a] = "failed"
        /\ "succeeded" \in outcomes <=> \E a \in Actions : action[a] = "succeeded"
        /\ "outcome_uncertain" \notin outcomes
    BY <2>1, <2>2, <2>3
  <2>5. task' = IF "outcome_uncertain" \in outcomes THEN "outcome_uncertain"
                ELSE IF outcomes = {"succeeded"} THEN "succeeded"
                ELSE IF "succeeded" \in outcomes THEN "partially_succeeded" ELSE "failed"
    BY <2>1 DEF FinalStatus
  <2> HIDE DEF outcomes
  <2>6. CASE outcomes = {"succeeded"}
    <3>1. task' = "succeeded"
      BY <2>4, <2>5, <2>6
    <3> QED
      BY <2>1, <2>4, <2>6, <3>1
  <2>7. CASE outcomes # {"succeeded"} /\ "succeeded" \in outcomes
    <3>1. task' = "partially_succeeded"
      BY <2>4, <2>5, <2>7
    <3> QED
      BY <2>1, <2>4, <2>7, <3>1
  <2>8. CASE "succeeded" \notin outcomes
    <3>1. task' = "failed"
      BY <2>4, <2>5, <2>8
    <3>2. \A a \in Actions : action[a] = "failed"
      BY <2>2, <2>4, <2>8
    <3> QED
      BY <2>1, <3>1, <3>2
  <2> QED
    BY <2>6, <2>7, <2>8
<1>3. CASE Converge
  <2>1. task' \in {task, "awaiting_human", EventPlan(Row.type)} /\ task \notin TerminalStatus
    BY <1>3, ConvergeMoves DEF Converge
  <2>2. EventPlan(Row.type) \notin {"succeeded", "partially_succeeded", "failed"}
    BY DEF EventPlan
  <2> QED
    BY <2>1, <2>2 DEF TerminalStatus
<1>4. CASE Cancelled \/ OfferNextConfirmed \/ AuthorizeGranted
  BY <1>4 DEF Cancelled, OfferNextConfirmed, AuthorizeGranted, Running
<1> QED
  BY <1>1, <1>2, <1>3, <1>4, Writes

(* Every step keeps the verdicts of actions and task truthful.              *)
LEMMA VerdictStep == ASSUME AllOK, VerdictOK, [Next]_vars PROVE VerdictOK'
BY GaplessStep, CompletionStep, FailureStep, FinalStep DEF VerdictOK

(* At the start nothing has ended.                                          *)
LEMMA VerdictInit == Init => VerdictOK
BY DEF Init, VerdictOK, TerminalAction, TerminalStatus

(* Actions and tasks end as the executor's events say.                      *)
THEOREM Verdicts == Spec => [](AllOK /\ VerdictOK)
<1>1. VerdictOK /\ AllOK /\ [Next]_vars => VerdictOK'
  BY VerdictStep
<1>2. Init => VerdictOK
  BY VerdictInit
<1>3. Stored /\ ConvergenceInv /\ (Stored /\ ScopeOK /\ ExecutionOK) => AllOK
  BY DEF AllOK
<1> QED
  BY <1>1, <1>2, <1>3, Convergence, Authority, PTL DEF Spec

(* A finished task tells what the executor recorded of every target: success *)
(* of all, of some or of none; and a cancelled one has stopped, with its     *)
(* attempt closed, no action running and none in doubt.                      *)
THEOREM EndsAreTruthful == Spec => []EndIsTruthful
<1>1. ASSUME AllOK, VerdictOK, NEW a \in Actions, action[a] = "succeeded"
      PROVE  Reported(a, "step.completed")
  <2>1. PICK i \in accepted : outbox[i].act = a /\ NextAction(outbox[i].type) = "succeeded"
    BY <1>1 DEF VerdictOK, TerminalAction
  <2>2. i \in 1..Len(outbox) /\ outbox[i].type = "step.completed"
    BY <1>1, <2>1 DEF AllOK, Stored, TypeOK, NextAction
  <2> QED
    BY <2>1, <2>2 DEF Reported
<1>2. ASSUME AllOK, task = "cancelled"
      PROVE  /\ checkpoint.state = "terminal"
             /\ busy = 0
             /\ \A a \in Actions : ~Reported(a, "task.outcome_uncertain")
  <2>1. PICK i \in accepted : StateAt(i) /\ StateOf(outbox[i].type) = "terminal"
    <3>1. PICK state \in {"absent", "running", "paused", "terminal", "outcome_uncertain"} :
             Tells(accepted, state) /\ task \in Shown(state)
      BY <1>2 DEF AllOK, ConvergenceInv, Followed
    <3>2. state = "terminal"
      BY <1>2, <3>1 DEF Shown
    <3> QED
      BY <3>1, <3>2 DEF Tells
  <2>2. i \in 1..Len(outbox) /\ outbox[i].type = "task.cancelled"
    BY <1>2, <2>1 DEF AllOK, Stored, TypeOK, StateAt, StateTypes, StateOf
  <2>3. PICK l \in 1..Len(outbox) : /\ StateAt(l) /\ StateOf(outbox[l].type) = checkpoint.state
                                    /\ \A j \in 1..Len(outbox) : StateAt(j) => j <= l
    BY <1>2, <2>1, <2>2 DEF AllOK, ConvergenceInv, StateIsTold, Tells
  <2>4. i < l \/ i = l
    BY <2>1, <2>2, <2>3
  <2>5. i = l
    BY <1>2, <2>1, <2>2, <2>3, <2>4 DEF AllOK, ConvergenceInv, LogOrdered
  <2>6. checkpoint.state = "terminal"
    BY <2>1, <2>3, <2>5
  <2>7. busy = 0
    BY <1>2, <2>6 DEF AllOK, Stored, References
  <2>8. ASSUME NEW j \in 1..Len(outbox), outbox[j].type = "task.outcome_uncertain" PROVE FALSE
    <3>1. StateAt(j) /\ j # i
      BY <2>2, <2>8 DEF StateAt, StateTypes
    <3>2. j < i
      BY <2>2, <2>3, <2>5, <3>1
    <3> QED
      BY <1>2, <2>1, <2>2, <2>8, <3>1, <3>2 DEF AllOK, ConvergenceInv, LogOrdered
  <2> QED
    BY <2>6, <2>7, <2>8 DEF Reported
<1>3. AllOK /\ VerdictOK => EndIsTruthful
  <2> SUFFICES ASSUME AllOK, VerdictOK PROVE EndIsTruthful
    OBVIOUS
  <2> DEFINE done == {a \in Actions : Reported(a, "step.completed")}
  <2>1. task = "succeeded" => done = Actions
    BY <1>1 DEF VerdictOK
  <2>2. task = "partially_succeeded" => done # {} /\ done # Actions
    BY <1>1 DEF VerdictOK
  <2>3. task = "failed" => done = {}
    BY DEF VerdictOK
  <2>4. task = "cancelled" => /\ checkpoint.state = "terminal"
                              /\ busy = 0
                              /\ \A a \in Actions : ~Reported(a, "task.outcome_uncertain")
    BY <1>2
  <2> QED
    BY <2>1, <2>2, <2>3, <2>4 DEF EndIsTruthful
<1> QED
  BY <1>3, Verdicts, PTL

-----------------------------------------------------------------------------
(* The constraints of the tables that the sections before leave open: the    *)
(* circuit's own and the responses of acknowledged commands.                 *)
Acked(k) == \E i \in 1..Len(outbox) : outbox[i].type = "ack" /\ outbox[i].src = k
AcksOK == \A k \in 1..Len(commands) : commands[k].status = "acknowledged" => Acked(k)
StorableOK == CircuitRow /\ AcksOK

(* A command is acknowledged by its row in the log, and by nothing else.     *)
Acknowledges ==
    \A k \in 1..Len(commands') : commands'[k].status = "acknowledged" =>
        \/ k \in 1..Len(commands) /\ commands[k].status = "acknowledged"
        \/ Acked(k)

(* A new command is not acknowledged yet.                                   *)
LEMMA Appended ==
    ASSUME Stored, NEW type, NEW act, commands' = Append(commands, NewCommand(type, act))
    PROVE  Acknowledges
<1>1. NewCommand(type, act).status = "pending"
  BY DEF NewCommand
<1> HIDE DEF NewCommand
<1>2. commands \in Seq(Command)
  BY DEF Stored, TypeOK
<1>3. ASSUME NEW k \in 1..Len(commands'), commands'[k].status = "acknowledged"
      PROVE  k \in 1..Len(commands) /\ commands[k].status = "acknowledged"
  <2>1. /\ Len(commands') = Len(commands) + 1 /\ Len(commands) \in Nat
        /\ commands'[Len(commands) + 1] = NewCommand(type, act)
        /\ \A j \in 1..Len(commands) : commands'[j] = commands[j]
    BY <1>2
  <2>2. k # Len(commands) + 1
    BY <1>1, <1>3, <2>1
  <2>3. k \in 1..Len(commands)
    BY <2>1, <2>2
  <2> QED
    BY <1>3, <2>1, <2>3
<1> QED
  BY <1>3 DEF Acknowledges

(* A command whose delivery is restated is not acknowledged by it.          *)
LEMMA Restated ==
    ASSUME Stored, NEW j \in DOMAIN commands, NEW status \in {"pending", "in_flight", "delivered", "expired"},
           commands' = [commands EXCEPT ![j].status = status]
    PROVE  Acknowledges
<1>1. commands \in Seq(Command)
  BY DEF Stored, TypeOK
<1>2. ASSUME NEW k \in 1..Len(commands'), commands'[k].status = "acknowledged"
      PROVE  k \in 1..Len(commands) /\ commands[k].status = "acknowledged"
  <2>1. Len(commands') = Len(commands) /\ DOMAIN commands = 1..Len(commands)
    BY <1>1
  <2>2. commands[j] \in Command
    BY <1>1
  <2>3. k = j => commands'[k].status = status
    BY <2>1, <2>2 DEF Command
  <2>4. k # j
    BY <1>2, <2>3
  <2> QED
    BY <1>2, <2>1, <2>4
<1> QED
  BY <1>2 DEF Acknowledges

(* A command is acknowledged by the receipt of its acknowledgement.         *)
LEMMA AcknowledgeStep == ASSUME Stored, [Next]_vars PROVE Acknowledges
<1>0. commands \in Seq(Command) /\ DOMAIN commands = 1..Len(commands)
  BY DEF Stored, TypeOK
<1>1. CASE UNCHANGED commands
  BY <1>1 DEF Acknowledges
<1>2. ASSUME NEW type \in UserControls, EnqueueControl(type) PROVE Acknowledges
  BY <1>2, Appended DEF EnqueueControl
<1>3. ASSUME NEW k \in DOMAIN commands, DeadlinePasses(k) PROVE Acknowledges
  <2>1. commands' = [commands EXCEPT ![k].late = TRUE]
    BY <1>3 DEF DeadlinePasses
  <2>2. commands[k] \in Command
    BY <1>0
  <2>3. Len(commands') = Len(commands)
    BY <1>0, <2>1
  <2>4. \A j \in 1..Len(commands) : commands'[j].status = commands[j].status
    BY <1>0, <2>1, <2>2 DEF Command
  <2> QED
    BY <2>3, <2>4 DEF Acknowledges
<1>4. ASSUME NEW a, EnqueueAuthorizedOf(a) PROVE Acknowledges
  BY <1>1, <1>4, Appended DEF EnqueueAuthorizedOf
<1>5. CASE OfferNextConfirmed
  <2>1. commands = << >> /\ commands' = <<NewCommand("task.offer", None)>>
    BY <1>5 DEF OfferNextConfirmed, Stored
  <2>2. commands' = Append(commands, NewCommand("task.offer", None))
    BY <2>1
  <2> QED
    BY <2>2, Appended
<1>6. CASE ExpireDue
  <2>1. DOMAIN commands' = DOMAIN commands
    BY <1>6 DEF ExpireDue
  <2>2. DOMAIN commands' = 1..Len(commands')
    BY CommandStep DEF CommandSteps
  <2>3. ASSUME NEW k \in 1..Len(commands'), commands'[k].status = "acknowledged"
        PROVE  k \in 1..Len(commands) /\ commands[k].status = "acknowledged"
    <3>1. k \in DOMAIN commands /\ commands[k] \in Command
      BY <1>0, <2>1, <2>2
    <3>2. CASE commands[k].late /\ commands[k].status \in Unsettled
      <4>1. commands'[k] = [commands[k] EXCEPT !.status = "expired"]
        BY <1>6, <3>1, <3>2 DEF ExpireDue
      <4> QED
        BY <2>3, <3>1, <4>1 DEF Command
    <3>3. CASE ~(commands[k].late /\ commands[k].status \in Unsettled)
      <4>1. commands'[k] = commands[k]
        BY <1>6, <3>1, <3>3 DEF ExpireDue
      <4> QED
        BY <1>0, <2>3, <3>1, <4>1
    <3> QED
      BY <3>2, <3>3
  <2> QED
    BY <2>3 DEF Acknowledges
<1>7. CASE DispatchCurrent
  <2>1. ASSUME NEW k \in DOMAIN commands, ClaimNext(k) PROVE Acknowledges
    BY <2>1, Restated DEF ClaimNext
  <2>2. ASSUME NEW k \in DOMAIN commands, ReleaseForRetry(k) PROVE Acknowledges
    BY <2>2, Restated DEF ReleaseForRetry
  <2>3. CASE MarkDelivered
    <3>1. handler.k \in DOMAIN commands
      BY <1>0, <2>3 DEF MarkDelivered, At, Stored, References
    <3> QED
      BY <2>3, <3>1, Restated DEF MarkDelivered
  <2> QED
    BY <1>1, <1>6, <1>7, <2>1, <2>2, <2>3 DEF DispatchCurrent, BatchEnds, database
<1>8. CASE Acknowledge
  <2>1. /\ Head(up) \in 1..Len(outbox) /\ Row.src \in DOMAIN commands /\ Row.type = "ack"
    <3>1. up # << >> /\ Row.type = "ack"
      BY <1>8 DEF Acknowledge
    <3>2. Head(up) \in 1..Len(outbox) /\ RowOK(Head(up))
      BY <1>0, <3>1, HeadUp
    <3>3. Row.src \in 1..checkpoint.last
      BY <3>2 DEF Row, RowOK
    <3>4. checkpoint.last \in 0..Len(commands)
      BY <1>0 DEF Stored, References
    <3> QED
      BY <1>0, <3>1, <3>2, <3>3, <3>4
  <2>2. Acked(Row.src)
    BY <2>1 DEF Acked, Row
  <2>3. CASE commands' = [commands EXCEPT ![Row.src].status = "acknowledged"]
    <3>1. /\ Len(commands') = Len(commands)
          /\ \A k \in 1..Len(commands) : k # Row.src => commands'[k] = commands[k]
      BY <1>0, <2>1, <2>3
    <3> QED
      BY <2>2, <3>1 DEF Acknowledges
  <2>4. CASE commands' = [commands EXCEPT ![Row.src].status = "expired"]
    BY <2>1, <2>4, Restated
  <2> QED
    BY <1>1, <1>8, <2>3, <2>4 DEF Acknowledge
<1>9. CASE AdvanceTask
  BY <1>1, <1>4, <1>5, <1>9 DEF AdvanceTask, FillGap, Idle, FinalizeCompletedTask,
     AuthorizeLimited, AuthorizeRejected, AuthorizeGranted, EnqueueAuthorized, NextTarget, database
<1>10. CASE ReceiveOne
  BY <1>1, <1>8, <1>10 DEF ReceiveOne, ReceiveMessage, Converge, ConvergeDuplicate,
     ConvergeRejected, ReceiveTimeout, ReceiveClose, database
<1>11. CASE Execute
  BY <1>1, <1>11 DEF Execute, NoticeClose, IgnoreExpired, ResendAnswer, RefuseCommand,
     AcceptOffer, BeginAction, HandleControl, HandleEmergencyStop, FinishAction, database
<1>12. CASE Connect \/ ConnectionLost \/ Kill \/ Recover \/ UNCHANGED vars
  BY <1>1, <1>12 DEF Connect, ConnectionLost, Kill, vars, database, Recover, RecoverBusy,
     RecoverEnds, RecoverProject
<1> QED
  BY <1>2, <1>3, <1>7, <1>9, <1>10, <1>11, <1>12 DEF Next

(* The circuit opens by a failure, which its action keeps.                   *)
LEMMA CircuitRowStep == ASSUME AllOK, CircuitRow, [Next]_vars PROVE CircuitRow'
<1>0. /\ circuit \in [failures : Nat, open : BOOLEAN]
      /\ circuit.open => circuit.failures > 0 /\ \E a \in Actions : action[a] = "failed"
      /\ FailureThreshold \in Nat \ {0}
  BY ConstantsAssumption DEF AllOK, Stored, TypeOK, CircuitRow
<1>1. ASSUME NEW a \in Actions, action[a] = "failed" PROVE action'[a] = "failed"
  BY <1>1, ActionMoves DEF AllOK, Open
<1>2. CASE UNCHANGED circuit
  BY <1>0, <1>1, <1>2 DEF CircuitRow
<1>3. CASE Converge
  <2>1. circuit' = CircuitAfter(Row)
    BY <1>3 DEF Converge
  <2>2. CASE Row.type = "step.failed"
    <3>1. RowOK(Head(up))
      BY <1>3, ConvergesNext DEF AllOK, ConvergenceInv
    <3>2. Row.act \in Actions /\ Row.act # None
      BY <2>2, <3>1, ConstantsAssumption DEF RowOK, Row, StepTypes
    <3>3. action' = [action EXCEPT ![Row.act] = "failed"]
      BY <1>3, <2>2, <3>2 DEF Converge, NextAction
    <3>4. action'[Row.act] = "failed"
      BY <3>2, <3>3 DEF AllOK, Stored, TypeOK
    <3>5. circuit'.failures = circuit.failures + 1
      BY <2>1, <2>2 DEF CircuitAfter
    <3> QED
      BY <1>0, <3>2, <3>4, <3>5 DEF CircuitRow
  <2>3. CASE Row.type # "step.failed"
    <3>1. circuit'.open => circuit' = circuit
      BY <1>0, <2>1, <2>3 DEF CircuitAfter
    <3> QED
      BY <1>0, <1>1, <3>1 DEF CircuitRow
  <2> QED
    BY <2>2, <2>3
<1> QED
  BY <1>2, <1>3, Writes DEF Kept, Cancelled, OfferNextConfirmed, FinalizeCompletedTask,
     AuthorizeGranted

(* Every step keeps an acknowledgement behind each acknowledged command.    *)
LEMMA AcksStep == ASSUME AllOK, AcksOK, [Next]_vars PROVE AcksOK'
<1>1. ASSUME NEW k, Acked(k) PROVE Acked(k)'
  BY <1>1, Keeps DEF Acked
<1> QED
  BY <1>1, AcknowledgeStep DEF Acknowledges, AcksOK, AllOK

(* What is told of the rows holds of every row the invariants describe.      *)
LEMMA ResultRowHolds == ASSUME Stored, NEW e PROVE ResultRow(e)
<1>1. circuit \in [failures : Nat, open : BOOLEAN] /\ FailureThreshold \in Nat \ {0}
  BY ConstantsAssumption DEF Stored, TypeOK
<1>2. CASE e.type = "step.failed"
  BY <1>1, <1>2 DEF ResultRow, CircuitAfter, OpensCircuit
<1>3. CASE e.type = "step.completed"
  BY <1>1, <1>3 DEF ResultRow, CircuitAfter, OpensCircuit
<1>4. CASE e.type \notin {"step.failed", "step.completed"}
  BY <1>1, <1>4 DEF ResultRow, CircuitAfter, OpensCircuit
<1> QED
  BY <1>2, <1>3, <1>4

(* Whatever transactions interleave, no row they leave breaks a constraint   *)
(* of its table, for every set of targets, threshold and bound.              *)
THEOREM RowsStayStorable == Spec => []RowsAreStorable
<1>1. AllOK /\ StorableOK /\ [Next]_vars => StorableOK'
  BY CircuitRowStep, AcksStep DEF StorableOK
<1>2. Init => StorableOK
  BY DEF Init, StorableOK, CircuitRow, AcksOK
<1>3. TaskAttemptAgree /\ AllOK /\ VerdictOK /\ StorableOK => RowsAreStorable
  <2> SUFFICES ASSUME TaskAttemptAgree, AllOK, VerdictOK, StorableOK PROVE RowsAreStorable
    OBVIOUS
  <2>1. TaskRow /\ AttemptRow
    <3>1. task \in Statuses \cup {"queued"} /\ attempt \in Statuses \cup {"none", "offered"}
      BY DEF AllOK, Stored, TypeOK
    <3> QED
      BY <3>1 DEF TaskAttemptAgree, TaskRow, AttemptRow, Statuses, TerminalStatus
  <2>2. ASSUME NEW a \in Actions PROVE ActionRow(a)
    BY DEF AllOK, ScopeOK, VerdictOK, ActionRow
  <2>3. ASSUME NEW i \in accepted PROVE EventRow(i)
    <3>1. i \in 1..Len(outbox) /\ accepted \subseteq 1..Len(outbox) /\ RowOK(i)
      BY DEF AllOK, Stored, TypeOK
    <3>2. outbox[i].ev \in 1..lastEvent /\ lastEvent \in Nat
      BY DEF AllOK, ConvergenceInv, AcceptedOK, Stored, TypeOK
    <3>3. ASSUME NEW j \in accepted, outbox[j].ev = outbox[i].ev PROVE j = i
      <4>1. EventAt(i) /\ EventAt(j) /\ j \in 1..Len(outbox) /\ outbox[i].ev \in Nat
        BY <3>1, <3>2 DEF AllOK, ConvergenceInv, AcceptedOK
      <4>2. ~(i < j) /\ ~(j < i)
        BY <3>1, <3>3, <4>1 DEF AllOK, ConvergenceInv, LogOrdered
      <4> QED
        BY <3>1, <4>1, <4>2
    <3>4. ASSUME outbox[i].act # None PROVE action[outbox[i].act] # "none"
      <4>1. PICK k \in 1..Len(commands) : commands[k].act = outbox[i].act
        BY <3>1, <3>4 DEF AllOK, ExecutionOK
      <4> QED
        BY <3>4, <4>1 DEF AllOK, ScopeOK, Scoped
    <3> QED
      BY <3>2, <3>3, <3>4 DEF EventRow
  <2>4. ResultRow(Row)
    BY ResultRowHolds DEF AllOK
  <2>5. ASSUME NEW k \in DOMAIN commands PROVE CommandResponse(k) /\ CommandScope(k)
    <3>1. k \in 1..Len(commands) /\ DOMAIN commands = 1..Len(commands)
      BY DEF AllOK, Stored, TypeOK
    <3>2. CommandResponse(k)
      BY <3>1 DEF StorableOK, AcksOK, Acked, CommandResponse
    <3>3. CommandScope(k)
      BY <3>1 DEF AllOK, ScopeOK, Scoped, CommandScope
    <3> QED
      BY <3>2, <3>3
  <2> QED
    BY <2>1, <2>2, <2>3, <2>4, <2>5 DEF StorableOK, RowsAreStorable
<1> QED
  BY <1>1, <1>2, <1>3, Verdicts, TaskAndAttemptAgree, PTL DEF Spec
=============================================================================
