------------------------ MODULE ExecutorLedgerProofs ------------------------
(***************************************************************************)
(* Proofs about ExecutorLedger, for every set of attempts and actions and  *)
(* every clock, lifetime, interval and limit: each action is performed at  *)
(* most once, the ledger's events are true, numbered without gaps and closed*)
(* by a final state, admissions keep their distance, and the side effects  *)
(* follow their contract.                                                  *)
(***************************************************************************)
EXTENDS ExecutorLedger, TLAPS

(* The stages in which the handler works on an action.execute command.       *)
ActionStages == Stages \ {"idle", "ack", "start"}

(* A command that names an action names one of its attempt.                  *)
CommandsOK ==
    \A t \in Attempts : \A k \in 1..Len(received[t]) :
        received[t][k].type = "action.execute" =>
            received[t][k].act \in Actions /\ AttemptOf[received[t][k].act] = t

(* Memory is only held by a connected process, and points into the ledger.   *)
OpOK ==
    /\ op.stage = "idle" => op = Idle
    /\ op.stage # "idle" =>
          /\ proc = "connected"
          /\ op.att \in Attempts
          /\ op.k \in 1..Len(received[op.att])
    /\ op.stage \in ActionStages => received[op.att][op.k].type = "action.execute"

(* Before the permission nothing was performed, the permission is used by    *)
(* the one handler that holds it, and a verified effect was performed.       *)
EffectOK ==
    /\ \A a \in Actions :
          /\ performed[a] \in {0, 1}
          /\ effect[a].state \in {"none", "prepared"} => performed[a] = 0
          /\ effect[a].state = "verified" => performed[a] = 1
    /\ op.stage = "act" =>
          effect[OpAction].state = "dispatched" /\ performed[OpAction] = 0
    /\ op.stage = "settle" =>
          /\ effect[OpAction].state = "dispatched"
          /\ op.result = "confirmed" => performed[OpAction] = 1
    /\ op.stage = "replay" => effect[OpAction].state = "prepared"
    /\ op.stage # "settle" => op.result # "confirmed"

Inv == TypeOK /\ CommandsOK /\ OpOK /\ EffectOK

-----------------------------------------------------------------------------
(* The handler's action is one of the attempt it works on.                  *)
LEMMA OpActionOK ==
    ASSUME Inv, op.stage \in ActionStages
    PROVE  OpAction \in Actions /\ AttemptOf[OpAction] = op.att
BY DEF Inv, OpOK, CommandsOK, OpAction, ActionStages

(* An empty ledger satisfies the invariant.                                 *)
LEMMA InitInv == Init => Inv
<1> SUFFICES ASSUME Init PROVE Inv
  OBVIOUS
<1>1. TypeOK
  BY ConstantsAssumption DEF Init, TypeOK, Time, NotAdmitted, EffectStates, CheckpointStates,
     Idle, Stages, Results
<1>2. CommandsOK
  BY DEF Init, CommandsOK
<1>3. OpOK
  BY DEF Init, OpOK, Idle, ActionStages, Stages
<1>4. EffectOK
  BY DEF Init, EffectOK, Idle
<1> QED
  BY <1>1, <1>2, <1>3, <1>4 DEF Inv

(* The clock, starts, connections and kills only change what is in memory.  *)
LEMMA LifecycleInv == ASSUME Inv, Lifecycle PROVE Inv'
<1>1. CASE ClockMoves
  BY <1>1 DEF ClockMoves, ledger, Inv, TypeOK, CommandsOK, OpOK, EffectOK, OpAction
<1>2. CASE StartPlain
  BY <1>2 DEF StartPlain, Inv, TypeOK, CommandsOK, OpOK, EffectOK, OpAction
<1>3. CASE StartRecovering
  BY <1>3 DEF StartRecovering, ledger, Inv, TypeOK, CommandsOK, OpOK, EffectOK, OpAction
<1>4. CASE StartLocalEmergencyStop
  BY <1>4 DEF StartLocalEmergencyStop, Inv, TypeOK, CommandsOK, OpOK, EffectOK, OpAction
<1>5. CASE Connect
  BY <1>5 DEF Connect, Inv, TypeOK, CommandsOK, OpOK, EffectOK, OpAction
<1>6. CASE Disconnect
  BY <1>6 DEF Disconnect, Inv, TypeOK, CommandsOK, OpOK, EffectOK, OpAction, Idle
<1>7. CASE Kill
  BY <1>7 DEF Kill, ledger, Inv, TypeOK, CommandsOK, OpOK, EffectOK, OpAction, Idle,
     ActionStages, Stages, Results
<1> QED
  BY <1>1, <1>2, <1>3, <1>4, <1>5, <1>6, <1>7 DEF Lifecycle

-----------------------------------------------------------------------------
(* Appending to the ledger's sequences keeps their types and prefixes.       *)
LEMMA AppendedType ==
    ASSUME TypeOK, NEW t \in Attempts, NEW type \in EventTypes,
           NEW act \in Actions \cup {None}, NEW src \in Nat,
           NEW key \in {"event", "recovery"}
    PROVE  Appended(t, type, act, src, key) \in Seq(Event)
<1>1. events[t] \in Seq(Event) /\ checkpoint[t].ev + 1 \in Nat
  BY DEF TypeOK
<1>2. [type |-> type, act |-> act, seq |-> checkpoint[t].ev + 1, src |-> src,
       key |-> key] \in Event
  BY <1>1 DEF Event
<1> QED
  BY <1>1, <1>2 DEF Appended

(* A command is recorded before it is handled (receive_command).            *)
LEMMA ReceiveNewInv ==
    ASSUME Inv, NEW t \in Attempts, NEW c \in NextCommand(t), ReceiveNew(t, c)
    PROVE  Inv'
<1> USE DEF ReceiveNew, Listening, Inv
<1>0. op = Idle /\ op.stage = "idle" /\ proc = "connected"
  BY DEF Idle
<1>1. c \in Command /\ c.type \in CommandTypes
  BY DEF NextCommand, Command
<1>2. FirstStage(c.type) \in Stages \ {"idle", "act", "settle", "replay"}
  BY <1>1 DEF FirstStage, Stages, Controls
<1>3. StoppedEffects(t) \in [Actions -> [state : EffectStates, at : Time]]
  BY ConstantsAssumption DEF StoppedEffects, TypeOK, EffectStates, Time
<1>4. Len(received[t]) \in Nat /\ Len(received[t]) + 1 \in Nat
  BY DEF TypeOK
<1>5. received' \in [Attempts -> Seq(Command)]
  BY <1>1 DEF TypeOK
<1>6. checkpoint' \in [Attempts -> [state : CheckpointStates, ev : Nat]]
  BY DEF TypeOK, CheckpointStates
<1>7. op' \in [stage : Stages, att : Attempts \cup {None}, k : Nat, result : Results]
  BY <1>2, <1>4 DEF Results
<1>8. effect' \in [Actions -> [state : EffectStates, at : Time]] /\ latch' \in {"clear", "engaged"}
  BY <1>3 DEF TypeOK
<1>9. TypeOK'
  BY <1>5, <1>6, <1>7, <1>8 DEF TypeOK
<1>10. /\ received'[t] = Append(received[t], c)
       /\ \A u \in Attempts \ {t} : received'[u] = received[u]
  BY DEF TypeOK
<1>11. /\ Len(received'[t]) = Len(received[t]) + 1
       /\ \A k \in 1..Len(received[t]) : received'[t][k] = received[t][k]
       /\ received'[t][Len(received[t]) + 1] = c
  BY <1>1, <1>10 DEF TypeOK
<1>12. c.type = "action.execute" => c.act \in Actions /\ AttemptOf[c.act] = t
  BY DEF NextCommand
<1>13. CommandsOK'
  BY <1>4, <1>10, <1>11, <1>12 DEF CommandsOK
<1>14. FirstStage(c.type) \in ActionStages => c.type = "action.execute"
  BY <1>1 DEF FirstStage, ActionStages, CommandTypes, Controls
<1>15. OpOK'
  BY <1>0, <1>2, <1>4, <1>11, <1>14 DEF OpOK
<1>16. \A a \in Actions :
         \/ effect'[a] = effect[a]
         \/ effect[a].state = "dispatched" /\ effect'[a].state = "uncertain"
  <2>1. CASE c.type = "task.emergency_stop"
    BY <2>1 DEF StoppedEffects
  <2>2. CASE c.type # "task.emergency_stop"
    BY <2>2
  <2> QED
    BY <2>1, <2>2
<1>17. EffectOK'
  BY <1>2, <1>16 DEF EffectOK
<1> QED
  BY <1>9, <1>13, <1>15, <1>17

(* A command in the wrong state is rejected, which ends the process.        *)
LEMMA RejectNewInv ==
    ASSUME Inv, NEW t \in Attempts, NEW c \in NextCommand(t), RejectNew(t, c)
    PROVE  Inv'
BY DEF RejectNew, ProcessFails, Inv, TypeOK, CommandsOK, OpOK, EffectOK, OpAction, Idle,
   ActionStages, Stages, Results

(* A command that arrives again unanswered is handled from the start.       *)
LEMMA ReceiveReplayInv ==
    ASSUME Inv, NEW t \in Attempts, NEW k \in 1..Len(received[t]), ReceiveReplay(t, k)
    PROVE  Inv'
<1>0. /\ op = Idle /\ op.stage = "idle" /\ proc = "connected"
      /\ UNCHANGED <<now, latch, admission, effect, checkpoint, received, acked,
                     events, performed>>
  BY DEF ReceiveReplay, Listening, Idle
<1>1. CASE Resumable(t, k)
  <2>1. received[t][k] \in Command /\ k \in Nat
    BY DEF Inv, TypeOK
  <2>2. received[t][k].type \in CommandTypes
    BY <2>1 DEF Command
  <2>3. FirstStage(received[t][k].type) \in Stages \ {"idle", "act", "settle", "replay"}
    BY <2>2 DEF FirstStage, Stages, Controls
  <2>4. /\ op' = [stage |-> FirstStage(received[t][k].type), att |-> t, k |-> k,
                  result |-> "none"]
        /\ UNCHANGED <<net, proc>>
    BY <1>1 DEF ReceiveReplay
  <2>5. FirstStage(received[t][k].type) \in ActionStages
          => received[t][k].type = "action.execute"
    BY <2>2 DEF FirstStage, ActionStages, CommandTypes, Controls
  <2>6. TypeOK'
    BY <1>0, <2>1, <2>3, <2>4 DEF Inv, TypeOK, Results
  <2>7. CommandsOK' /\ OpOK'
    BY <1>0, <2>3, <2>4, <2>5 DEF Inv, CommandsOK, OpOK
  <2>8. EffectOK'
    BY <1>0, <2>3, <2>4 DEF Inv, EffectOK
  <2> QED
    BY <2>6, <2>7, <2>8 DEF Inv
<1>2. CASE ~Resumable(t, k)
  BY <1>0, <1>2 DEF ReceiveReplay, ProcessFails, Inv, TypeOK, CommandsOK, OpOK, EffectOK,
     OpAction, Idle, ActionStages, Stages, Results
<1> QED
  BY <1>1, <1>2

(* A pending control appends its event and moves the checkpoint.            *)
LEMMA AdvanceControlInv ==
    ASSUME Inv, NEW t \in Attempts, AdvanceControl(t)
    PROVE  Inv'
<1> USE DEF AdvanceControl
<1>1. ControlEvent(t) \in EventTypes
  BY DEF ControlEvent, EventTypes
<1>2. StateAfter(ControlEvent(t)) \in CheckpointStates
  BY <1>1 DEF StateAfter, CheckpointStates
<1>3. Len(received[t]) \in Nat
  BY DEF Inv, TypeOK
<1>4. Appended(t, ControlEvent(t), None, Len(received[t]), "event") \in Seq(Event)
  BY <1>1, <1>3, AppendedType DEF Inv
<1>5. TypeOK'
  BY <1>2, <1>4 DEF Inv, TypeOK
<1> QED
  BY <1>5 DEF Inv, CommandsOK, OpOK, EffectOK, OpAction

-----------------------------------------------------------------------------
(* The handler *)

(* Acknowledging a control frees the handler.                               *)
LEMMA AcknowledgeControlInv == ASSUME Inv, AcknowledgeControl PROVE Inv'
<1>1. TypeOK'
  BY DEF AcknowledgeControl, Inv, OpOK, TypeOK, Idle, Stages, Results
<1> QED
  BY <1>1 DEF AcknowledgeControl, Inv, CommandsOK, OpOK, EffectOK, OpAction, Idle,
     ActionStages

(* Starting an attempt commits its first event with its checkpoint.         *)
LEMMA CommitStartInv == ASSUME Inv, CommitStart PROVE Inv'
<1> USE DEF CommitStart
<1>1. op.att \in Attempts /\ op.k \in Nat /\ op' = Idle
  BY DEF Inv, OpOK, TypeOK
<1> DEFINE type == IF received[op.att][op.k].type = "task.offer"
                   THEN "task.started" ELSE "discovery.completed"
<1>2. type \in EventTypes
  BY DEF EventTypes
<1>3. Appended(op.att, type, None, op.k, "event") \in Seq(Event)
  <2> HIDE DEF type
  <2> QED BY <1>1, <1>2, AppendedType DEF Inv
<1>4. events' \in [Attempts -> Seq(Event)]
  BY <1>1, <1>3 DEF Inv, TypeOK
<1>5. checkpoint' \in [Attempts -> [state : CheckpointStates, ev : Nat]]
  BY <1>1 DEF Inv, TypeOK, CheckpointStates
<1>6. TypeOK'
  BY <1>1, <1>4, <1>5 DEF Inv, TypeOK, Idle, Stages, Results
<1> QED
  BY <1>1, <1>6 DEF Inv, CommandsOK, OpOK, EffectOK, OpAction, Idle, ActionStages

(* A discovery that fails is a rejected command and ends the process.       *)
LEMMA DiscoveryFailsInv == ASSUME Inv, DiscoveryFails PROVE Inv'
BY DEF DiscoveryFails, ProcessFails, Inv, TypeOK, CommandsOK, OpOK, EffectOK, OpAction, Idle,
   ActionStages, Stages, Results

(* The gate admits an action, or answers it, and performs nothing.          *)
LEMMA AdmitInv ==
    ASSUME Inv, NEW stage \in {"admit", "admit_again"},
           NEW next \in {"inspect", "prepare"}, Admit(stage, next)
    PROVE  Inv'
<1> USE DEF Admit, Finish, Goto
<1>1. OpAction \in Actions /\ op.stage \in ActionStages
  BY OpActionOK DEF ActionStages, Stages
<1>2. admission' \in [Actions -> Time \cup {NotAdmitted}]
  BY <1>1 DEF Inv, TypeOK
<1>3. /\ op' \in [stage : Stages, att : Attempts \cup {None}, k : Nat, result : Results]
      /\ op'.att = op.att /\ op'.k = op.k
      /\ op'.stage \in {"inspect", "prepare", "commit"} /\ op'.result # "confirmed"
  BY DEF Inv, TypeOK, EffectOK, Stages, Results
<1>4. TypeOK'
  BY <1>2, <1>3 DEF Inv, TypeOK
<1>5. OpOK'
  BY <1>1, <1>3 DEF Inv, OpOK, ActionStages
<1> QED
  BY <1>3, <1>4, <1>5 DEF Inv, CommandsOK, EffectOK

(* An effect past its preparation is answered as it stands.                 *)
LEMMA ProjectExistingInv == ASSUME Inv, ProjectExisting PROVE Inv'
<1> USE DEF ProjectExisting, Finish
<1>1. OpAction \in Actions /\ op.stage \in ActionStages
  BY OpActionOK DEF ActionStages, Stages
<1>2. /\ op' \in [stage : Stages, att : Attempts \cup {None}, k : Nat, result : Results]
      /\ op'.att = op.att /\ op'.k = op.k /\ op'.stage = "commit"
      /\ op'.result # "confirmed"
  BY DEF Inv, TypeOK, Stages, Results
<1>3. effect' \in [Actions -> [state : EffectStates, at : Time]]
  BY <1>1, ConstantsAssumption DEF Inv, TypeOK, EffectStates, Time
<1>4. \A a \in Actions :
         \/ effect'[a] = effect[a]
         \/ effect[a].state = "dispatched" /\ effect'[a].state = "uncertain"
  BY <1>1 DEF Inv, TypeOK
<1>5. TypeOK'
  BY <1>2, <1>3 DEF Inv, TypeOK
<1>6. OpOK'
  BY <1>1, <1>2 DEF Inv, OpOK, ActionStages
<1>7. EffectOK'
  BY <1>2, <1>4 DEF Inv, EffectOK
<1> QED
  BY <1>5, <1>6, <1>7 DEF Inv, CommandsOK

(* Opening the page touches no row.                                         *)
LEMMA OpenPageInv == ASSUME Inv, OpenPage PROVE Inv'
<1> USE DEF OpenPage, Finish, Goto, ledger
<1>1. op.stage \in ActionStages
  BY DEF ActionStages, Stages
<1>2. /\ op' \in [stage : Stages, att : Attempts \cup {None}, k : Nat, result : Results]
      /\ op'.att = op.att /\ op'.k = op.k /\ op'.stage \in {"commit", "admit_again"}
      /\ op'.result # "confirmed"
  BY DEF Inv, TypeOK, EffectOK, Stages, Results
<1>3. TypeOK'
  BY <1>2 DEF Inv, TypeOK
<1>4. OpOK'
  BY <1>1, <1>2 DEF Inv, OpOK, ActionStages
<1> QED
  BY <1>2, <1>3, <1>4 DEF Inv, CommandsOK, EffectOK

(* An effect is prepared once, or found as it was left.                     *)
LEMMA PrepareSideEffectInv == ASSUME Inv, PrepareSideEffect PROVE Inv'
<1> USE DEF PrepareSideEffect, Finish, Goto
<1>1. OpAction \in Actions /\ op.stage \in ActionStages
  BY OpActionOK DEF ActionStages, Stages
<1>2. /\ op' \in [stage : Stages, att : Attempts \cup {None}, k : Nat, result : Results]
      /\ op'.att = op.att /\ op'.k = op.k /\ op'.stage \in {"commit", "replay"}
      /\ OpAction' = OpAction /\ op'.result # "confirmed"
  BY DEF Inv, TypeOK, EffectOK, Stages, Results, OpAction
<1>3. effect' \in [Actions -> [state : EffectStates, at : Time]]
  BY <1>1 DEF Inv, TypeOK, EffectStates
<1>4. /\ \A a \in Actions : \/ effect'[a] = effect[a]
                            \/ effect[a].state = "none" /\ effect'[a].state = "prepared"
      /\ op'.stage = "replay" => effect'[OpAction].state = "prepared"
  <2>1. \/ effect' = effect /\ (effect[OpAction].state = "prepared" \/ op'.stage = "commit")
        \/ /\ effect[OpAction].state = "none"
           /\ effect' = [effect EXCEPT ![OpAction] = [state |-> "prepared", at |-> now]]
    BY DEF Inv, TypeOK
  <2> HIDE DEF PrepareSideEffect
  <2>2. CASE effect' = effect /\ (effect[OpAction].state = "prepared" \/ op'.stage = "commit")
    BY <2>2
  <2>3. CASE /\ effect[OpAction].state = "none"
             /\ effect' = [effect EXCEPT ![OpAction] = [state |-> "prepared", at |-> now]]
    BY <1>1, <2>3 DEF Inv, TypeOK
  <2> QED
    BY <2>1, <2>2, <2>3
<1>5. TypeOK'
  BY <1>2, <1>3 DEF Inv, TypeOK
<1>6. OpOK'
  BY <1>1, <1>2 DEF Inv, OpOK, ActionStages
<1>7. EffectOK'
  BY <1>2, <1>4 DEF Inv, EffectOK
<1> QED
  BY <1>5, <1>6, <1>7 DEF Inv, CommandsOK

(* A replay that fails before the permission performed nothing.             *)
LEMMA ReplayFailsInv == ASSUME Inv, ReplayFails PROVE Inv'
<1> USE DEF ReplayFails, Finish, ledger
<1>1. op.stage \in ActionStages
  BY DEF ActionStages, Stages
<1>2. /\ op' \in [stage : Stages, att : Attempts \cup {None}, k : Nat, result : Results]
      /\ op'.att = op.att /\ op'.k = op.k /\ op'.stage = "commit"
      /\ op'.result # "confirmed"
  BY DEF Inv, TypeOK, Stages, Results
<1>3. TypeOK'
  BY <1>2 DEF Inv, TypeOK
<1>4. OpOK'
  BY <1>1, <1>2 DEF Inv, OpOK, ActionStages
<1> QED
  BY <1>2, <1>3, <1>4 DEF Inv, CommandsOK, EffectOK

(* The permission is given once per row, to the one handler that holds it.  *)
LEMMA BeginSideEffectDispatchInv == ASSUME Inv, BeginSideEffectDispatch PROVE Inv'
<1> USE DEF BeginSideEffectDispatch, Finish, Goto
<1>1. OpAction \in Actions /\ op.stage \in ActionStages
  BY OpActionOK DEF ActionStages, Stages
<1>2. /\ op' \in [stage : Stages, att : Attempts \cup {None}, k : Nat, result : Results]
      /\ op'.att = op.att /\ op'.k = op.k /\ op'.stage \in {"commit", "act"}
      /\ OpAction' = OpAction /\ op'.result # "confirmed"
  BY DEF Inv, TypeOK, EffectOK, Stages, Results, OpAction
<1>3. \/ effect' = effect /\ op'.stage = "commit"
      \/ effect' = [effect EXCEPT ![OpAction] = [state |-> "dispatched", at |-> now]]
  BY DEF Inv, TypeOK
<1>4. /\ effect' \in [Actions -> [state : EffectStates, at : Time]]
      /\ \A a \in Actions : \/ effect'[a] = effect[a]
                            \/ effect[a].state = "prepared" /\ effect'[a].state = "dispatched"
      /\ op'.stage = "act" => effect'[OpAction].state = "dispatched"
  <2> HIDE DEF BeginSideEffectDispatch
  <2>1. effect[OpAction].state = "prepared"
    BY DEF BeginSideEffectDispatch, Inv, EffectOK
  <2>2. CASE effect' = effect /\ op'.stage = "commit"
    BY <2>2 DEF Inv, TypeOK
  <2>3. CASE effect' = [effect EXCEPT ![OpAction] = [state |-> "dispatched", at |-> now]]
    BY <1>1, <2>1, <2>3 DEF Inv, TypeOK, EffectStates
  <2> QED
    BY <1>3, <2>2, <2>3
<1>5. performed[OpAction] = 0
  BY <1>1 DEF Inv, EffectOK
<1>6. TypeOK'
  BY <1>2, <1>4 DEF Inv, TypeOK
<1>7. OpOK'
  BY <1>1, <1>2 DEF Inv, OpOK, ActionStages
<1>8. EffectOK'
  BY <1>2, <1>4, <1>5 DEF Inv, EffectOK
<1> QED
  BY <1>6, <1>7, <1>8 DEF Inv, CommandsOK

(* The external step is taken by the holder of the permission, once.        *)
LEMMA ActOnPageInv == ASSUME Inv, ActOnPage PROVE Inv'
<1> USE DEF ActOnPage, Goto, ledger
<1>1. /\ OpAction \in Actions /\ op.stage \in ActionStages
      /\ performed[OpAction] = 0 /\ effect[OpAction].state = "dispatched"
  BY OpActionOK DEF ActionStages, Stages, Inv, EffectOK
<1>2. /\ op' \in [stage : Stages, att : Attempts \cup {None}, k : Nat, result : Results]
      /\ op'.att = op.att /\ op'.k = op.k /\ op'.stage = "settle"
      /\ OpAction' = OpAction
  BY DEF Inv, TypeOK, Stages, Results, OpAction
<1>3. /\ performed' \in [Actions -> Nat]
      /\ \A a \in Actions : a # OpAction => performed'[a] = performed[a]
      /\ performed'[OpAction] \in {0, 1}
  BY <1>1 DEF Inv, TypeOK
<1>4. op'.result = "confirmed" => performed'[OpAction] = 1
  BY <1>1 DEF Inv, TypeOK, EffectOK
<1>5. TypeOK'
  BY <1>2, <1>3 DEF Inv, TypeOK
<1>6. OpOK'
  BY <1>1, <1>2 DEF Inv, OpOK, ActionStages
<1>7. EffectOK'
  BY <1>1, <1>2, <1>3, <1>4 DEF Inv, EffectOK
<1> QED
  BY <1>5, <1>6, <1>7 DEF Inv, CommandsOK

(* Settling an effect records what the page showed.                         *)
LEMMA SettleSideEffectInv == ASSUME Inv, SettleSideEffect PROVE Inv'
<1> DEFINE settles == now >= effect[OpAction].at
           verified == settles /\ op.result = "confirmed"
<1>0. /\ op.stage = "settle"
      /\ effect' = [effect EXCEPT ![OpAction] =
             IF ~settles THEN @
             ELSE [state |-> IF verified THEN "verified" ELSE "uncertain", at |-> 0]]
      /\ op' = [op EXCEPT !.stage = "commit",
                          !.result = IF verified THEN "completed" ELSE "uncertain"]
      /\ UNCHANGED <<now, latch, net, admission, checkpoint, received, acked, events,
                     proc, performed>>
  BY DEF SettleSideEffect, Finish
<1>1. /\ OpAction \in Actions /\ op.stage \in ActionStages
      /\ effect[OpAction].state = "dispatched"
      /\ op.result = "confirmed" => performed[OpAction] = 1
  BY <1>0, OpActionOK DEF ActionStages, Stages, Inv, EffectOK
<1> HIDE DEF settles
<1>2. /\ op' \in [stage : Stages, att : Attempts \cup {None}, k : Nat, result : Results]
      /\ op'.att = op.att /\ op'.k = op.k /\ op'.stage = "commit"
      /\ op'.result # "confirmed"
  BY <1>0 DEF Inv, TypeOK, Stages, Results
<1>3. effect' \in [Actions -> [state : EffectStates, at : Time]]
  BY <1>0, <1>1, ConstantsAssumption DEF Inv, TypeOK, EffectStates, Time
<1>4. \A a \in Actions :
         \/ effect'[a] = effect[a]
         \/ effect[a].state = "dispatched" /\ effect'[a].state = "uncertain"
         \/ effect'[a].state = "verified" /\ performed[a] = 1
  BY <1>0, <1>1 DEF Inv, TypeOK
<1>5. TypeOK'
  BY <1>0, <1>2, <1>3 DEF Inv, TypeOK
<1>6. OpOK'
  BY <1>0, <1>1, <1>2 DEF Inv, OpOK, ActionStages
<1>7. EffectOK'
  BY <1>0, <1>2, <1>4 DEF Inv, EffectOK
<1> QED
  BY <1>0, <1>5, <1>6, <1>7 DEF Inv, CommandsOK

(* The action's result is committed with its event and acknowledgement.     *)
LEMMA CommitActionInv == ASSUME Inv, CommitAction PROVE Inv'
<1> DEFINE t == op.att
           n == checkpoint[t].ev
           started == [type |-> "step.started", act |-> OpAction, seq |-> n + 1,
                       src |-> op.k, key |-> "event"]
           result == [type |-> FactType(op.result), act |-> OpAction, seq |-> n + 2,
                      src |-> op.k, key |-> "event"]
<1>0. /\ op.stage = "commit"
      /\ events' = [events EXCEPT ![t] = @ \o <<started, result>>]
      /\ checkpoint' = [checkpoint EXCEPT ![t] =
             [state |-> IF op.result = "uncertain" THEN "outcome_uncertain" ELSE "running",
              ev |-> n + 2]]
      /\ op' = Idle
      /\ UNCHANGED <<now, latch, net, admission, effect, received, acked, proc, performed>>
  BY DEF CommitAction
<1>1. OpAction \in Actions /\ t \in Attempts /\ n \in Nat /\ op.k \in Nat
  BY <1>0, OpActionOK DEF ActionStages, Stages, Inv, OpOK, TypeOK
<1>2. FactType(op.result) \in EventTypes
  BY DEF FactType, EventTypes
<1>3. started \in Event /\ result \in Event
  BY <1>1, <1>2 DEF Event, EventTypes
<1>4. <<started, result>> \in Seq(Event)
  <2> HIDE DEF started, result
  <2> QED BY <1>3
<1>5. events[t] \o <<started, result>> \in Seq(Event)
  <2>1. events[t] \in Seq(Event)
    BY <1>1 DEF Inv, TypeOK
  <2> HIDE DEF started, result, t
  <2> QED BY <1>4, <2>1
<1>6. events' \in [Attempts -> Seq(Event)]
  BY <1>0, <1>1, <1>5 DEF Inv, TypeOK
<1>7. checkpoint' \in [Attempts -> [state : CheckpointStates, ev : Nat]]
  BY <1>0, <1>1 DEF Inv, TypeOK, CheckpointStates
<1>8. TypeOK'
  BY <1>0, <1>6, <1>7 DEF Inv, TypeOK, Idle, Stages, Results
<1> QED
  BY <1>0, <1>8 DEF Inv, CommandsOK, OpOK, EffectOK, Idle, ActionStages

-----------------------------------------------------------------------------
(* Crash recovery *)

(* After a crash a dispatched effect is settled as uncertain.               *)
LEMMA RecoverSettleInv == ASSUME Inv, NEW a \in Actions, RecoverSettle(a) PROVE Inv'
<1> USE DEF RecoverSettle
<1>1. op = Idle /\ op.stage = "idle"
  BY DEF Inv, OpOK, TypeOK, Idle
<1>2. effect' \in [Actions -> [state : EffectStates, at : Time]]
  BY ConstantsAssumption DEF Inv, TypeOK, EffectStates, Time
<1>3. \A b \in Actions :
         \/ effect'[b] = effect[b]
         \/ effect[b].state = "dispatched" /\ effect'[b].state = "uncertain"
  BY DEF Inv, TypeOK
<1>4. TypeOK'
  BY <1>2 DEF Inv, TypeOK
<1>5. EffectOK'
  BY <1>1, <1>3 DEF Inv, EffectOK
<1> QED
  BY <1>4, <1>5 DEF Inv, CommandsOK, OpOK

(* After a crash an open action is answered by its effect's row.            *)
LEMMA RecoverProjectInv == ASSUME Inv, NEW a \in Actions, RecoverProject(a) PROVE Inv'
<1> DEFINE t == AttemptOf[a]
           type == IF effect[a].state = "uncertain" THEN "task.outcome_uncertain"
                   ELSE "step.completed"
<1>0. /\ events' = [events EXCEPT ![t] = Appended(t, type, a, 1, "recovery")]
      /\ checkpoint' = [checkpoint EXCEPT ![t] =
             [state |-> IF effect[a].state = "uncertain" THEN "outcome_uncertain"
                        ELSE @.state,
              ev |-> @.ev + 1]]
      /\ UNCHANGED <<now, latch, net, admission, effect, received, acked, proc, op,
                     performed>>
  BY DEF RecoverProject
<1>1. t \in Attempts /\ type \in EventTypes
  BY ConstantsAssumption DEF EventTypes
<1>2. Appended(t, type, a, 1, "recovery") \in Seq(Event)
  <2> HIDE DEF t, type
  <2> QED BY <1>1, AppendedType DEF Inv
<1>3. events' \in [Attempts -> Seq(Event)]
  BY <1>0, <1>1, <1>2 DEF Inv, TypeOK
<1>4. checkpoint' \in [Attempts -> [state : CheckpointStates, ev : Nat]]
  BY <1>0, <1>1 DEF Inv, TypeOK, CheckpointStates
<1>5. TypeOK'
  BY <1>0, <1>3, <1>4 DEF Inv, TypeOK
<1> QED
  BY <1>0, <1>5 DEF Inv, CommandsOK, OpOK, EffectOK, OpAction

(* The recovery ends: the process goes up, or stops.                        *)
LEMMA RecoverEndsInv == ASSUME Inv, RecoverRejected \/ RecoverDone PROVE Inv'
<1>1. CASE RecoverRejected
  <2>1. /\ proc = "recovering" /\ proc' = "stopped"
        /\ UNCHANGED <<now, ledger, op, performed>>
    BY <1>1 DEF RecoverRejected
  <2> QED
    BY <2>1 DEF ledger, Inv, TypeOK, CommandsOK, OpOK, EffectOK, OpAction
<1>2. CASE RecoverDone
  BY <1>2 DEF RecoverDone, Inv, TypeOK, CommandsOK, OpOK, EffectOK, OpAction
<1> QED
  BY <1>1, <1>2

-----------------------------------------------------------------------------
(* A step of another component leaves the ledger alone.                     *)
LEMMA StutterInv == ASSUME Inv, UNCHANGED vars PROVE Inv'
BY DEF vars, ledger, Inv, TypeOK, CommandsOK, OpOK, EffectOK, OpAction

(* Every step of the handler keeps the invariant.                           *)
LEMMA HandleInv == ASSUME Inv, Handle PROVE Inv'
<1>1. CASE AcknowledgeControl
  BY <1>1, AcknowledgeControlInv
<1>2. CASE CommitStart
  BY <1>2, CommitStartInv
<1>3. CASE AdmitCommand
  BY <1>3, AdmitInv DEF AdmitCommand
<1>4. CASE AdmitInAction
  BY <1>4, AdmitInv DEF AdmitInAction
<1>5. CASE ProjectExisting
  BY <1>5, ProjectExistingInv
<1>6. CASE OpenPage
  BY <1>6, OpenPageInv
<1>7. CASE PrepareSideEffect
  BY <1>7, PrepareSideEffectInv
<1>8. CASE ReplayFails
  BY <1>8, ReplayFailsInv
<1>9. CASE BeginSideEffectDispatch
  BY <1>9, BeginSideEffectDispatchInv
<1>10. CASE ActOnPage
  BY <1>10, ActOnPageInv
<1>11. CASE SettleSideEffect
  BY <1>11, SettleSideEffectInv
<1>12. CASE CommitAction
  BY <1>12, CommitActionInv
<1>13. CASE DiscoveryFails
  BY <1>13, DiscoveryFailsInv
<1> QED
  BY <1>1, <1>2, <1>3, <1>4, <1>5, <1>6, <1>7, <1>8, <1>9, <1>10, <1>11, <1>12, <1>13
     DEF Handle

(* Every step keeps the invariant.                                          *)
LEMMA NextInv == Inv /\ [Next]_vars => Inv'
<1> SUFFICES ASSUME Inv, [Next]_vars PROVE Inv'
  OBVIOUS
<1>1. CASE Lifecycle
  BY <1>1, LifecycleInv
<1>2. CASE Receive
  BY <1>2, ReceiveNewInv, RejectNewInv, ReceiveReplayInv DEF Receive
<1>3. CASE Handle
  BY <1>3, HandleInv
<1>4. CASE Recover
  BY <1>4, RecoverSettleInv, RecoverProjectInv, RecoverEndsInv DEF Recover
<1>5. CASE \E t \in Attempts : AdvanceControl(t)
  BY <1>5, AdvanceControlInv
<1>6. CASE UNCHANGED vars
  BY <1>6, StutterInv
<1> QED
  BY <1>1, <1>2, <1>3, <1>4, <1>5, <1>6 DEF Next

\* The inductive invariant holds of every reachable state.
THEOREM Invariance == Spec => []Inv
<1>1. Init => Inv
  BY InitInv
<1>2. Inv /\ [Next]_vars => Inv'
  BY NextInv
<1> QED
  BY <1>1, <1>2, PTL DEF Spec

\* Type correctness, for every value of the constants.
THEOREM TypeCorrect == Spec => []TypeOK
<1>1. Inv => TypeOK
  BY DEF Inv
<1> QED
  BY <1>1, Invariance, PTL

\* Crashes, restarts, replays and clock changes never make the platform see an
\* action's effect twice.
THEOREM AtMostOnce == Spec => []AtMostOncePerformed
<1>1. Inv => AtMostOncePerformed
  BY DEF Inv, EffectOK, AtMostOncePerformed
<1> QED
  BY <1>1, Invariance, PTL

\* The gate admits an action only at a time no admission of its kind is after,
\* and the minimum interval past every one.
LEMMA AdmitSpaced ==
    ASSUME Inv, AdmissionsSpaced, NEW stage \in {"admit", "admit_again"}, NEW next,
           Admit(stage, next)
    PROVE  AdmissionsSpaced'
<1>1. CASE admission' = admission
  BY <1>1 DEF AdmissionsSpaced, AdmissionsLike
<1>2. CASE admission' # admission
  <2>1. PICK a \in Actions :
          /\ ~AdmissionLimited(a) /\ ~AdmissionRejected(a)
          /\ admission' = [admission EXCEPT ![a] = now]
    <3>1. OpAction \in Actions
      BY OpActionOK DEF Admit, ActionStages, Stages
    <3> QED
      BY <1>2, <3>1 DEF Admit
  <2>2. /\ now \in Int /\ MinInterval \in Int
        /\ \A b \in Actions : admission[b] \in Int
        /\ DOMAIN admission = Actions
    BY ConstantsAssumption DEF Inv, TypeOK, Time, NotAdmitted
  <2>3. admission[a] = NotAdmitted
    BY <1>2, <2>1, <2>2 DEF AdmissionRejected, Inv, TypeOK
  <2>4. \A b \in AdmissionsLike(a) : now >= admission[b]
    BY <2>1, <2>2, <2>3 DEF AdmissionRejected, AdmissionsLike
  <2>5. \A b \in AdmissionsLike(a) : now - admission[b] >= MinInterval
    BY <2>1, <2>2, <2>3, <2>4 DEF AdmissionLimited, AdmissionsLike
  <2>6. admission'[a] = now /\ \A b \in Actions \ {a} : admission'[b] = admission[b]
    BY <2>1, <2>2
  <2> SUFFICES ASSUME NEW b \in Actions, NEW c \in Actions, b # c, KindOf[b] = KindOf[c],
                      admission'[b] # NotAdmitted, admission'[c] # NotAdmitted
               PROVE  \/ admission'[b] - admission'[c] >= MinInterval
                      \/ admission'[c] - admission'[b] >= MinInterval
    BY DEF AdmissionsSpaced, AdmissionsLike
  <2>7. CASE b # a /\ c # a
    BY <2>6, <2>7 DEF AdmissionsSpaced, AdmissionsLike
  <2>8. CASE b = a
    BY <2>5, <2>6, <2>8 DEF AdmissionsLike
  <2>9. CASE c = a
    BY <2>5, <2>6, <2>9 DEF AdmissionsLike
  <2> QED
    BY <2>7, <2>8, <2>9
<1> QED
  BY <1>1, <1>2

\* Every other step leaves the admissions alone.
LEMMA AdmissionsStep ==
    ASSUME Inv, AdmissionsSpaced, [Next]_vars
    PROVE  AdmissionsSpaced'
<1>1. CASE UNCHANGED admission
  BY <1>1 DEF AdmissionsSpaced, AdmissionsLike
<1>2. CASE AdmitCommand \/ AdmitInAction
  BY <1>2, AdmitSpaced DEF AdmitCommand, AdmitInAction
<1>3. CASE Lifecycle \/ UNCHANGED vars
  BY <1>1, <1>3 DEF Lifecycle, ClockMoves, StartPlain, StartRecovering,
     StartLocalEmergencyStop, Connect, Disconnect, Kill, ledger, vars
<1>4. CASE Receive
  <2>1. admission' = admission
    BY <1>4 DEF Receive, ReceiveNew, RejectNew, ReceiveReplay
  <2> QED
    BY <1>1, <2>1
<1>5. CASE Handle
  <2>1. CASE AcknowledgeControl
    BY <1>1, <2>1 DEF AcknowledgeControl
  <2>2. CASE CommitStart
    BY <1>1, <2>2 DEF CommitStart
  <2>3. CASE DiscoveryFails
    BY <1>1, <2>3 DEF DiscoveryFails
  <2>4. CASE CommitAction
    BY <1>1, <2>4 DEF CommitAction
  <2>5. CASE ProjectExisting
    BY <1>1, <2>5 DEF ProjectExisting
  <2>6. CASE OpenPage
    BY <1>1, <2>6 DEF OpenPage, ledger
  <2>7. CASE PrepareSideEffect
    BY <1>1, <2>7 DEF PrepareSideEffect
  <2>8. CASE ReplayFails
    BY <1>1, <2>8 DEF ReplayFails, ledger
  <2>9. CASE BeginSideEffectDispatch
    BY <1>1, <2>9 DEF BeginSideEffectDispatch
  <2>10. CASE ActOnPage
    BY <1>1, <2>10 DEF ActOnPage, ledger
  <2>11. CASE SettleSideEffect
    BY <1>1, <2>11 DEF SettleSideEffect
  <2> QED
    BY <1>2, <1>5, <2>1, <2>2, <2>3, <2>4, <2>5, <2>6, <2>7, <2>8, <2>9, <2>10, <2>11
       DEF Handle
<1>6. CASE Recover
  <2>1. ASSUME NEW a \in Actions, RecoverSettle(a)
        PROVE  AdmissionsSpaced'
    BY <1>1, <2>1 DEF RecoverSettle
  <2>2. ASSUME NEW a \in Actions, RecoverProject(a)
        PROVE  AdmissionsSpaced'
    BY <1>1, <2>2 DEF RecoverProject
  <2>3. CASE RecoverRejected \/ RecoverDone
    BY <1>1, <2>3 DEF RecoverRejected, RecoverDone, ledger
  <2> QED
    BY <1>6, <2>1, <2>2, <2>3 DEF Recover
<1>7. CASE \E t \in Attempts : AdvanceControl(t)
  BY <1>1, <1>7 DEF AdvanceControl
<1> QED
  BY <1>3, <1>4, <1>5, <1>6, <1>7 DEF Next

\* Two admissions of one kind are the minimum interval apart although the clock
\* they are stamped with may be set back (the action gate's risk policy).
THEOREM AdmissionsStaySpaced == Spec => []AdmissionsSpaced
<1>1. Init => AdmissionsSpaced
  BY DEF Init, AdmissionsSpaced, AdmissionsLike
<1>2. Inv /\ AdmissionsSpaced /\ [Next]_vars => AdmissionsSpaced'
  BY AdmissionsStep
<1> QED
  BY <1>1, <1>2, Invariance, PTL DEF Spec

-----------------------------------------------------------------------------
Stopping == {"task.pause", "task.cancel", "task.emergency_stop"}

(* The attempt the handler works on stands where its command requires, and   *)
(* no stop can slip in between the permission and the external step.         *)
StageOK ==
    /\ op.stage = "start" => checkpoint[op.att].state = "received"
    /\ op.stage \in ActionStages => checkpoint[op.att].state = "running"
    /\ op.stage = "act" => latch = "clear" /\ Last(op.att).type \notin Stopping

(* A success that is about to be committed, or was, is one the platform saw. *)
Seen(a) == a \in Actions /\ (KindOf[a] # "browse" => performed[a] = 1)

SuccessOK ==
    /\ op.stage = "commit" /\ op.result = "completed" => Seen(OpAction)
    /\ \A t \in Attempts : \A i \in 1..Len(events[t]) :
          events[t][i].type = "step.completed" => Seen(events[t][i].act)

(* Only a terminal attempt was reported cancelled, and it left no doubt.     *)
InDoubt(t) == EffectsOf(t, {"dispatched", "uncertain"})

CancelOK ==
    \A t \in Attempts : \A i \in 1..Len(events[t]) :
        events[t][i].type = "task.cancelled" =>
            checkpoint[t].state = "terminal" /\ ~InDoubt(t)

HistoryInv ==
    /\ Inv
    /\ StageOK
    /\ SuccessOK
    /\ CancelOK
    /\ PausedIsQuiet
    /\ EventsContiguous

-----------------------------------------------------------------------------
(* While the handler holds a command, nothing that the ledger knows of its   *)
(* attempt is touched by anything else.                                      *)
LEMMA IdleOutside ==
    ASSUME Inv, proc # "connected" PROVE op = Idle
BY DEF Inv, OpOK

(* At the start no handler is at work.                                      *)
LEMMA StageInit == Init => StageOK
BY DEF Init, StageOK, Idle, ActionStages, Stages

(* A command is received when the handler is idle, and begins its first stage.*)
LEMMA StageReceive == ASSUME Inv, StageOK, Receive PROVE StageOK'
<1>1. ASSUME NEW t \in Attempts, NEW c \in NextCommand(t), ReceiveNew(t, c)
      PROVE  StageOK'
  <2>1. /\ c.type \in CommandTypes
        /\ checkpoint[t].state \in RequiredStates(c.type)
        /\ op' = [stage |-> FirstStage(c.type), att |-> t,
                  k |-> Len(received[t]) + 1, result |-> "none"]
        /\ checkpoint'[t].state = IF checkpoint[t].state = "absent" THEN "received"
                                  ELSE checkpoint[t].state
    BY <1>1 DEF ReceiveNew, Receivable, NextCommand, Command, Inv, TypeOK
  <2>2. FirstStage(c.type) \in {"ack", "start", "admit"}
    BY DEF FirstStage
  <2>3. FirstStage(c.type) = "start" => checkpoint'[t].state = "received"
    BY <2>1 DEF FirstStage, RequiredStates, Controls, CommandTypes
  <2>4. FirstStage(c.type) = "admit" => checkpoint'[t].state = "running"
    BY <2>1 DEF FirstStage, RequiredStates, Controls, CommandTypes
  <2> QED
    BY <2>1, <2>2, <2>3, <2>4 DEF StageOK, ActionStages, Stages
<1>2. ASSUME NEW t \in Attempts, NEW c \in NextCommand(t), RejectNew(t, c)
      PROVE  StageOK'
  BY <1>2 DEF RejectNew, ProcessFails, Idle, StageOK, ActionStages, Stages
<1>3. ASSUME NEW t \in Attempts, NEW k \in 1..Len(received[t]), ReceiveReplay(t, k)
      PROVE  StageOK'
  <2>0. checkpoint' = checkpoint
    BY <1>3 DEF ReceiveReplay
  <2>1. CASE Resumable(t, k)
    <3>1. op' = [stage |-> FirstStage(received[t][k].type), att |-> t, k |-> k,
                 result |-> "none"]
      BY <1>3, <2>1 DEF ReceiveReplay
    <3>2. FirstStage(received[t][k].type) \in {"ack", "start", "admit"}
      BY DEF FirstStage
    <3>3. /\ FirstStage(received[t][k].type) = "start" => checkpoint[t].state = "received"
          /\ FirstStage(received[t][k].type) = "admit" => checkpoint[t].state = "running"
      BY <2>1 DEF FirstStage, Resumable, Controls
    <3> QED
      BY <2>0, <3>1, <3>2, <3>3 DEF StageOK, ActionStages, Stages
  <2>2. CASE ~Resumable(t, k)
    BY <1>3, <2>2 DEF ReceiveReplay, ProcessFails, Idle, StageOK, ActionStages, Stages
  <2> QED
    BY <2>1, <2>2
<1> QED
  BY <1>1, <1>2, <1>3 DEF Receive

(* The handler goes on only while its attempt may go on.                    *)
LEMMA StageHandle == ASSUME Inv, StageOK, Handle PROVE StageOK'
<1>1. CASE AcknowledgeControl \/ CommitStart \/ DiscoveryFails \/ CommitAction
  BY <1>1 DEF AcknowledgeControl, CommitStart, DiscoveryFails, CommitAction, ProcessFails,
     Idle, StageOK, ActionStages, Stages
<1>2. CASE AdmitCommand \/ AdmitInAction \/ ProjectExisting \/ OpenPage
           \/ PrepareSideEffect \/ ReplayFails \/ ActOnPage \/ SettleSideEffect
  <2>1. /\ op.stage \in ActionStages /\ op'.stage \in ActionStages \ {"act"}
        /\ op'.att = op.att /\ checkpoint' = checkpoint
    BY <1>2 DEF AdmitCommand, AdmitInAction, Admit, ProjectExisting, OpenPage,
       PrepareSideEffect, ReplayFails, ActOnPage, SettleSideEffect, Finish, Goto, ledger,
       ActionStages, Stages, Inv, TypeOK
  <2> QED
    BY <2>1 DEF StageOK, ActionStages
<1>3. CASE BeginSideEffectDispatch
  <2>1. /\ op.stage \in ActionStages /\ op'.stage \in {"commit", "act"}
        /\ op'.att = op.att /\ UNCHANGED <<checkpoint, latch, received>>
        /\ op'.stage = "act" => DispatchPermitted(OpAction)
    BY <1>3 DEF BeginSideEffectDispatch, Finish, Goto, ActionStages, Stages, Inv, TypeOK
  <2>2. AttemptOf[OpAction] = op.att /\ checkpoint[op.att].state = "running"
    BY <2>1, OpActionOK DEF StageOK
  <2>3. op'.stage = "act" => latch = "clear" /\ Last(op.att).type \notin Stopping
    BY <2>1, <2>2 DEF DispatchPermitted, DispatchBlocked, Stopping
  <2> QED
    BY <2>1, <2>2, <2>3 DEF StageOK, Last, ActionStages, Stages
<1> QED
  BY <1>1, <1>2, <1>3 DEF Handle

(* Every step leaves the handler where its command requires it.             *)
LEMMA StageNext == ASSUME Inv, StageOK, [Next]_vars PROVE StageOK'
<1>1. CASE Lifecycle
  <2>1. op' = Idle \/ (op' = op /\ UNCHANGED <<latch, checkpoint, received>>)
    BY <1>1, IdleOutside DEF Lifecycle, ClockMoves, StartPlain, StartRecovering,
       StartLocalEmergencyStop, Connect, Disconnect, Kill, ledger
  <2> QED
    BY <2>1 DEF StageOK, Idle, ActionStages, Stages, Last
<1>2. CASE Recover \/ \E t \in Attempts : AdvanceControl(t)
  <2>1. op' = Idle
    BY <1>2, IdleOutside DEF Recover, RecoverSettle, RecoverProject, RecoverRejected,
       RecoverDone, AdvanceControl
  <2> QED
    BY <2>1 DEF StageOK, Idle, ActionStages, Stages
<1>3. CASE UNCHANGED vars
  BY <1>3 DEF vars, ledger, StageOK, Last
<1> QED
  BY <1>1, <1>2, <1>3, StageReceive, StageHandle DEF Next

-----------------------------------------------------------------------------
(* What one step does to an attempt's effects, checkpoint and events *)

(* An effect gets on only in the handler of its own attempt; any other step  *)
(* can only give a permission up as uncertain.                               *)
EffectSteps ==
    \A a \in Actions :
        \/ effect'[a].state = effect[a].state
        \/ op.stage \in ActionStages /\ AttemptOf[a] = op.att
        \/ effect[a].state = "dispatched" /\ effect'[a].state = "uncertain"

(* A new event carries the next number and is true when it is written.       *)
GoodEvent(t, e, n) ==
    /\ e.seq = checkpoint[t].ev + n
    /\ e.type = "step.completed" => Seen(e.act)
    /\ e.type = "task.cancelled" =>
          checkpoint'[t].state = "terminal" /\ ~InDoubt(t) /\ effect' = effect

EventSteps ==
    \A t \in Attempts :
        /\ Len(events'[t]) - Len(events[t]) = checkpoint'[t].ev - checkpoint[t].ev
        /\ \A i \in 1..Len(events[t]) : events'[t][i] = events[t][i]
        /\ \A i \in 1..Len(events'[t]) :
              i > Len(events[t]) => GoodEvent(t, events'[t][i], i - Len(events[t]))

(* A closed attempt stays as it is, and none is paused with an effect of it  *)
(* out.                                                                      *)
CheckpointSteps ==
    \A t \in Attempts :
        /\ checkpoint[t].state \in {"terminal", "outcome_uncertain"} =>
              checkpoint'[t] = checkpoint[t] /\ events'[t] = events[t]
        /\ checkpoint'[t].state = "paused" =>
              \/ checkpoint[t].state = "paused"
              \/ ~EffectsOf(t, {"dispatched"}) /\ effect' = effect

(* Each step moves an effect along the edges of its state machine, or       *)
(* leaves it.                                                               *)
LEMMA EffectStep == ASSUME Inv, [Next]_vars PROVE EffectSteps
<1>1. CASE Lifecycle \/ UNCHANGED vars
  BY <1>1 DEF EffectSteps, Lifecycle, ClockMoves, StartPlain, StartRecovering,
     StartLocalEmergencyStop, Connect, Disconnect, Kill, ledger, vars
<1>2. CASE Receive
  <2>1. ASSUME NEW t \in Attempts, NEW c \in NextCommand(t), ReceiveNew(t, c)
        PROVE  EffectSteps
    <3>1. CASE c.type = "task.emergency_stop"
      BY <2>1, <3>1 DEF ReceiveNew, StoppedEffects, EffectSteps
    <3>2. CASE c.type # "task.emergency_stop"
      BY <2>1, <3>2 DEF ReceiveNew, EffectSteps
    <3> QED
      BY <3>1, <3>2
  <2>2. ASSUME NEW t \in Attempts, NEW c \in NextCommand(t), RejectNew(t, c)
        PROVE  EffectSteps
    BY <2>2 DEF RejectNew, EffectSteps
  <2>3. ASSUME NEW t \in Attempts, NEW k \in 1..Len(received[t]), ReceiveReplay(t, k)
        PROVE  EffectSteps
    BY <2>3 DEF ReceiveReplay, EffectSteps
  <2> QED
    BY <1>2, <2>1, <2>2, <2>3 DEF Receive
<1>3. CASE Handle
  <2>1. CASE ProjectExisting \/ PrepareSideEffect \/ BeginSideEffectDispatch
             \/ SettleSideEffect
    <3>1. op.stage \in ActionStages
      BY <2>1 DEF ProjectExisting, PrepareSideEffect, BeginSideEffectDispatch,
         SettleSideEffect, ActionStages, Stages
    <3>2. OpAction \in Actions /\ AttemptOf[OpAction] = op.att
      BY <3>1, OpActionOK
    <3>3. \A a \in Actions : a # OpAction => effect'[a] = effect[a]
      BY <2>1, <3>2 DEF ProjectExisting, PrepareSideEffect, BeginSideEffectDispatch,
         SettleSideEffect, Inv, TypeOK
    <3> QED
      BY <3>1, <3>2, <3>3 DEF EffectSteps
  <2>2. CASE ~(ProjectExisting \/ PrepareSideEffect \/ BeginSideEffectDispatch
               \/ SettleSideEffect)
    BY <1>3, <2>2 DEF Handle, AcknowledgeControl, CommitStart, DiscoveryFails, AdmitCommand,
       AdmitInAction, Admit, OpenPage, ReplayFails, ActOnPage, CommitAction, ledger,
       EffectSteps
  <2> QED
    BY <2>1, <2>2
<1>4. CASE Recover
  <2>1. ASSUME NEW a \in Actions, RecoverSettle(a) PROVE EffectSteps
    BY <2>1 DEF RecoverSettle, EffectSteps, Inv, TypeOK
  <2>2. CASE RecoverRejected \/ RecoverDone \/ \E a \in Actions : RecoverProject(a)
    BY <2>2 DEF RecoverProject, RecoverRejected, RecoverDone, ledger, EffectSteps
  <2> QED
    BY <1>4, <2>1, <2>2 DEF Recover
<1>5. CASE \E t \in Attempts : AdvanceControl(t)
  BY <1>5 DEF AdvanceControl, EffectSteps
<1> QED
  BY <1>1, <1>2, <1>3, <1>4, <1>5 DEF Next

(* Appending one event is a good step when the event is good.                *)
LEMMA OneEvent ==
    ASSUME Inv, NEW t \in Attempts, NEW e \in Event, NEW state \in CheckpointStates,
           events' = [events EXCEPT ![t] = Append(@, e)],
           checkpoint' = [checkpoint EXCEPT ![t] = [state |-> state, ev |-> @.ev + 1]],
           GoodEvent(t, e, 1)
    PROVE  EventSteps
<1>1. /\ events'[t] = Append(events[t], e)
      /\ checkpoint'[t].ev = checkpoint[t].ev + 1
      /\ \A u \in Attempts \ {t} : events'[u] = events[u] /\ checkpoint'[u] = checkpoint[u]
      /\ \A u \in Attempts : events[u] \in Seq(Event) /\ checkpoint[u].ev \in Nat
  BY DEF Inv, TypeOK
<1>2. /\ Len(events'[t]) = Len(events[t]) + 1
      /\ \A i \in 1..Len(events[t]) : events'[t][i] = events[t][i]
      /\ events'[t][Len(events[t]) + 1] = e
  BY <1>1
<1>3. \A i \in 1..Len(events'[t]) :
         i > Len(events[t]) => GoodEvent(t, events'[t][i], i - Len(events[t]))
  <2>1. Len(events[t]) \in Nat
    BY <1>1
  <2> TAKE i \in 1..Len(events'[t])
  <2> HAVE i > Len(events[t])
  <2>2. i = Len(events[t]) + 1 /\ i - Len(events[t]) = 1
    BY <1>2, <2>1
  <2> QED
    BY <1>2, <2>2
<1>4. ASSUME NEW u \in Attempts \ {t}
      PROVE  /\ Len(events'[u]) - Len(events[u]) = checkpoint'[u].ev - checkpoint[u].ev
             /\ \A i \in 1..Len(events'[u]) : ~(i > Len(events[u]))
  BY <1>1
<1> QED
  BY <1>1, <1>2, <1>3, <1>4 DEF EventSteps

(* Starting an attempt appends its first event and moves its checkpoint.    *)
LEMMA CommitStartEvents ==
    ASSUME Inv, StageOK, CommitStart PROVE EventSteps /\ CheckpointSteps
<1> USE DEF CommitStart
<1> DEFINE t == op.att
           offer == received[t][op.k].type = "task.offer"
           e == [type |-> IF offer THEN "task.started" ELSE "discovery.completed",
                 act |-> None, seq |-> checkpoint[t].ev + 1, src |-> op.k, key |-> "event"]
           state == IF offer THEN "running" ELSE "terminal"
<1>1. /\ t \in Attempts /\ op.k \in Nat /\ checkpoint[t].ev \in Nat
      /\ checkpoint[t].state = "received"
  BY DEF Inv, OpOK, TypeOK, StageOK
<1>2. e \in Event /\ state \in CheckpointStates
  BY <1>1 DEF Event, EventTypes, CheckpointStates
<1>3. /\ events' = [events EXCEPT ![t] = Append(@, e)]
      /\ checkpoint' = [checkpoint EXCEPT ![t] = [state |-> state, ev |-> @.ev + 1]]
  BY <1>1 DEF Appended, Inv, TypeOK
<1>4. GoodEvent(t, e, 1)
  BY DEF GoodEvent
<1> HIDE DEF e, state
<1>5. EventSteps
  BY <1>1, <1>2, <1>3, <1>4, OneEvent
<1>6. state # "paused"
  BY DEF state
<1>7. CheckpointSteps
  BY <1>1, <1>3, <1>6 DEF CheckpointSteps, Inv, TypeOK
<1> QED
  BY <1>5, <1>7

(* A control appends the event of the state it leads to.                    *)
LEMMA AdvanceControlEvents ==
    ASSUME Inv, NEW t \in Attempts, AdvanceControl(t) PROVE EventSteps /\ CheckpointSteps
<1> USE DEF AdvanceControl
<1> DEFINE e == [type |-> ControlEvent(t), act |-> None, seq |-> checkpoint[t].ev + 1,
                 src |-> Len(received[t]), key |-> "event"]
           state == StateAfter(ControlEvent(t))
<1>1. /\ Len(received[t]) \in Nat /\ checkpoint[t].ev \in Nat
      /\ ControlEvent(t) \in {"task.paused", "task.resumed", "task.cancelled",
                              "task.outcome_uncertain"}
  BY DEF Inv, TypeOK, ControlEvent
<1>2. e \in Event /\ state \in CheckpointStates
  BY <1>1 DEF Event, EventTypes, StateAfter, CheckpointStates
<1>3. /\ events' = [events EXCEPT ![t] = Append(@, e)]
      /\ checkpoint' = [checkpoint EXCEPT ![t] = [state |-> state, ev |-> @.ev + 1]]
      /\ effect' = effect
  BY DEF Appended, Inv, TypeOK
<1>4. checkpoint[t].state \in {"running", "paused"}
  BY DEF PendingControl, RequiredStates, Controls
<1>5. ControlEvent(t) \in {"task.paused", "task.cancelled"} => ~EffectsOf(t, {"dispatched"})
  BY DEF PendingControl, ControlEvent
<1>6. ControlEvent(t) = "task.cancelled" => state = "terminal" /\ ~InDoubt(t)
  BY <1>5 DEF ControlEvent, StateAfter, InDoubt, EffectsOf
<1>7. state = "paused" => ~EffectsOf(t, {"dispatched"})
  BY <1>1, <1>5 DEF StateAfter
<1>8. GoodEvent(t, e, 1)
  BY <1>1, <1>3, <1>6 DEF GoodEvent, Inv, TypeOK
<1> HIDE DEF e, state
<1>9. EventSteps
  BY <1>2, <1>3, <1>8, OneEvent
<1>10. CheckpointSteps
  BY <1>3, <1>4, <1>7 DEF CheckpointSteps, Inv, TypeOK
<1> QED
  BY <1>9, <1>10

(* The recovery appends the result of an open action, and no success it     *)
(* has not seen.                                                            *)
LEMMA RecoverProjectEvents ==
    ASSUME Inv, NEW a \in Actions, RecoverProject(a) PROVE EventSteps /\ CheckpointSteps
<1> USE DEF RecoverProject
<1> DEFINE t == AttemptOf[a]
           uncertain == effect[a].state = "uncertain"
           e == [type |-> IF uncertain THEN "task.outcome_uncertain" ELSE "step.completed",
                 act |-> a, seq |-> checkpoint[t].ev + 1, src |-> 1, key |-> "recovery"]
           state == IF uncertain THEN "outcome_uncertain" ELSE checkpoint[t].state
<1>1. t \in Attempts /\ checkpoint[t].ev \in Nat /\ checkpoint[t].state \in {"running", "paused"}
  BY ConstantsAssumption DEF Inv, TypeOK
<1>2. e \in Event /\ state \in CheckpointStates
  BY <1>1 DEF Event, EventTypes, CheckpointStates
<1>3. /\ events' = [events EXCEPT ![t] = Append(@, e)]
      /\ checkpoint' = [checkpoint EXCEPT ![t] = [state |-> state, ev |-> @.ev + 1]]
      /\ effect' = effect
  BY <1>1 DEF Appended, Inv, TypeOK
<1>4. ~uncertain => performed[a] = 1
  <2>1. effect[a].state \in {"dispatched", "verified", "uncertain"}
    BY DEF Projectable, Facts, InRecovery, Inv, TypeOK, EffectStates
  <2>2. effect[a].state # "dispatched"
    BY DEF Projectable
  <2> QED
    BY <2>1, <2>2 DEF Inv, EffectOK
<1>5. GoodEvent(t, e, 1)
  BY <1>4 DEF GoodEvent, Seen
<1> HIDE DEF e, state, t
<1>6. EventSteps
  BY <1>1, <1>2, <1>3, <1>5, OneEvent
<1>7. state = "paused" => checkpoint[t].state = "paused"
  BY DEF state
<1>8. CheckpointSteps
  BY <1>1, <1>3, <1>7 DEF CheckpointSteps, Inv, TypeOK
<1> QED
  BY <1>6, <1>8

(* So is appending two good events at once.                                   *)
LEMMA TwoEvents ==
    ASSUME Inv, NEW t \in Attempts, NEW e \in Event, NEW f \in Event,
           NEW state \in CheckpointStates,
           events' = [events EXCEPT ![t] = @ \o <<e, f>>],
           checkpoint' = [checkpoint EXCEPT ![t] = [state |-> state, ev |-> @.ev + 2]],
           GoodEvent(t, e, 1), GoodEvent(t, f, 2)
    PROVE  EventSteps
<1>1. /\ events'[t] = events[t] \o <<e, f>>
      /\ checkpoint'[t].ev = checkpoint[t].ev + 2
      /\ \A u \in Attempts \ {t} : events'[u] = events[u] /\ checkpoint'[u] = checkpoint[u]
      /\ \A u \in Attempts : events[u] \in Seq(Event) /\ checkpoint[u].ev \in Nat
  BY DEF Inv, TypeOK
<1>2. /\ Len(events[t]) \in Nat
      /\ Len(events'[t]) = Len(events[t]) + 2
      /\ \A i \in 1..Len(events[t]) : events'[t][i] = events[t][i]
      /\ events'[t][Len(events[t]) + 1] = e
      /\ events'[t][Len(events[t]) + 2] = f
  BY <1>1
<1>3. ASSUME NEW i \in 1..Len(events'[t]), i > Len(events[t])
      PROVE  GoodEvent(t, events'[t][i], i - Len(events[t]))
  <2>1. \/ i = Len(events[t]) + 1 /\ i - Len(events[t]) = 1
        \/ i = Len(events[t]) + 2 /\ i - Len(events[t]) = 2
    BY <1>2, <1>3
  <2> QED
    BY <1>2, <2>1
<1>4. ASSUME NEW u \in Attempts \ {t}
      PROVE  /\ Len(events'[u]) - Len(events[u]) = checkpoint'[u].ev - checkpoint[u].ev
             /\ \A i \in 1..Len(events'[u]) : ~(i > Len(events[u]))
  BY <1>1
<1>5. /\ Len(events'[t]) - Len(events[t]) = checkpoint'[t].ev - checkpoint[t].ev
      /\ \A u \in Attempts : \A i \in 1..Len(events[u]) : events'[u][i] = events[u][i]
  BY <1>1, <1>2
<1> QED
  BY <1>3, <1>4, <1>5 DEF EventSteps

(* A result appends the action's event and moves the checkpoint with it.    *)
LEMMA CommitActionEvents ==
    ASSUME Inv, StageOK, SuccessOK, CommitAction PROVE EventSteps /\ CheckpointSteps
<1> DEFINE t == op.att
           n == checkpoint[t].ev
           started == [type |-> "step.started", act |-> OpAction, seq |-> n + 1,
                       src |-> op.k, key |-> "event"]
           result == [type |-> FactType(op.result), act |-> OpAction, seq |-> n + 2,
                      src |-> op.k, key |-> "event"]
           state == IF op.result = "uncertain" THEN "outcome_uncertain" ELSE "running"
<1>1. /\ op.stage = "commit" /\ op.stage \in ActionStages
      /\ events' = [events EXCEPT ![t] = @ \o <<started, result>>]
      /\ checkpoint' = [checkpoint EXCEPT ![t] = [state |-> state, ev |-> n + 2]]
  BY DEF CommitAction, ActionStages, Stages
<1>2. /\ t \in Attempts /\ n \in Nat /\ op.k \in Nat /\ checkpoint[t].state = "running"
      /\ OpAction \in Actions
  BY <1>1, OpActionOK DEF Inv, OpOK, TypeOK, StageOK
<1>3. started \in Event /\ result \in Event /\ state \in CheckpointStates
  BY <1>2 DEF Event, EventTypes, FactType, CheckpointStates
<1>4. GoodEvent(t, started, 1)
  BY <1>1 DEF GoodEvent
<1>5. GoodEvent(t, result, 2)
  BY <1>1 DEF GoodEvent, FactType, SuccessOK
<1>6. state # "paused"
  BY DEF state
<1> HIDE DEF started, result, state
<1>7. checkpoint' = [checkpoint EXCEPT ![t] = [state |-> state, ev |-> @.ev + 2]]
  BY <1>1, <1>2 DEF Inv, TypeOK
<1>8. EventSteps
  BY <1>1, <1>2, <1>3, <1>4, <1>5, <1>7, TwoEvents
<1>9. CheckpointSteps
  BY <1>1, <1>2, <1>6 DEF CheckpointSteps, Inv, TypeOK
<1> QED
  BY <1>8, <1>9

(* Events are only appended, in the transaction that moves the checkpoint.  *)
LEMMA EventStep ==
    ASSUME Inv, StageOK, SuccessOK, [Next]_vars PROVE EventSteps /\ CheckpointSteps
<1>0. \A t \in Attempts : events[t] \in Seq(Event) /\ checkpoint[t].ev \in Nat
  BY DEF Inv, TypeOK
<1>1. CASE UNCHANGED <<events, checkpoint>>
  BY <1>0, <1>1 DEF EventSteps, CheckpointSteps
<1>2. ASSUME NEW t \in Attempts, NEW c \in NextCommand(t), ReceiveNew(t, c)
      PROVE  EventSteps /\ CheckpointSteps
  <2>1. /\ events' = events
        /\ checkpoint[t].state \in {"absent", "running", "paused"}
        /\ checkpoint' = [checkpoint EXCEPT ![t].state = IF @ = "absent" THEN "received" ELSE @]
    BY <1>2 DEF ReceiveNew, Receivable, RequiredStates
  <2>2. \A u \in Attempts :
           /\ checkpoint'[u].ev = checkpoint[u].ev
           /\ checkpoint'[u].state = "paused" => checkpoint[u].state = "paused"
           /\ checkpoint[u].state \in {"terminal", "outcome_uncertain"} =>
                 checkpoint'[u] = checkpoint[u]
    BY <2>1 DEF Inv, TypeOK
  <2> QED
    BY <1>0, <2>1, <2>2 DEF EventSteps, CheckpointSteps
<1>3. CASE CommitStart \/ CommitAction \/ (\E a \in Actions : RecoverProject(a))
           \/ (\E t \in Attempts : AdvanceControl(t))
  BY <1>3, CommitStartEvents, CommitActionEvents, RecoverProjectEvents, AdvanceControlEvents
<1>4. \/ UNCHANGED <<events, checkpoint>>
      \/ \E t \in Attempts : \E c \in NextCommand(t) : ReceiveNew(t, c)
      \/ CommitStart \/ CommitAction \/ \E a \in Actions : RecoverProject(a)
      \/ \E t \in Attempts : AdvanceControl(t)
  <2>1. CASE Lifecycle \/ UNCHANGED vars
    BY <2>1 DEF Lifecycle, ClockMoves, StartPlain, StartRecovering,
       StartLocalEmergencyStop, Connect, Disconnect, Kill, ledger, vars
  <2>2. CASE Receive
    BY <2>2 DEF Receive, RejectNew, ReceiveReplay
  <2>3. CASE Handle
    BY <2>3 DEF Handle, AcknowledgeControl, DiscoveryFails, AdmitCommand, AdmitInAction,
       Admit, ProjectExisting, OpenPage, PrepareSideEffect, ReplayFails,
       BeginSideEffectDispatch, ActOnPage, SettleSideEffect, ledger
  <2>4. CASE Recover
    BY <2>4 DEF Recover, RecoverSettle, RecoverRejected, RecoverDone, ledger
  <2> QED
    BY <2>1, <2>2, <2>3, <2>4 DEF Next
<1> QED
  BY <1>1, <1>2, <1>3, <1>4

(* The platform only sees the effect the permission was given for.           *)
LEMMA PerformStep ==
    ASSUME Inv, [Next]_vars, NEW a \in Actions, performed'[a] # performed[a]
    PROVE  op.stage = "act" /\ a = OpAction
<1>1. performed' = performed \/ ActOnPage
  <2>1. CASE Lifecycle \/ UNCHANGED vars
    BY <2>1 DEF Lifecycle, ClockMoves, StartPlain, StartRecovering,
       StartLocalEmergencyStop, Connect, Disconnect, Kill, vars
  <2>2. CASE Receive \/ Recover \/ \E t \in Attempts : AdvanceControl(t)
    BY <2>2 DEF Receive, ReceiveNew, RejectNew, ReceiveReplay, Recover, RecoverSettle,
       RecoverProject, RecoverRejected, RecoverDone, AdvanceControl
  <2>3. CASE Handle
    BY <2>3 DEF Handle, AcknowledgeControl, CommitStart, DiscoveryFails, AdmitCommand,
       AdmitInAction, Admit, ProjectExisting, OpenPage, PrepareSideEffect, ReplayFails,
       BeginSideEffectDispatch, SettleSideEffect, CommitAction
  <2> QED
    BY <2>1, <2>2, <2>3 DEF Next
<1> QED
  BY <1>1 DEF ActOnPage, Inv, TypeOK

-----------------------------------------------------------------------------
(* The parts of the invariant *)

(* What the platform has seen stays seen.                                    *)
LEMMA SeenStays ==
    ASSUME Inv, [Next]_vars, NEW a, Seen(a) PROVE Seen(a)'
<1>1. CASE performed'[a] # performed[a]
  BY <1>1, PerformStep DEF Seen, Inv, EffectOK
<1> QED
  BY <1>1 DEF Seen

(* The handler only finishes with a success it has evidence for.             *)
LEMMA SuccessHandle ==
    ASSUME Inv, SuccessOK, Handle, op'.stage = "commit", op'.result = "completed"
    PROVE  Seen(OpAction)'
<1>1. CASE ProjectExisting \/ SettleSideEffect \/ OpenPage
  <2>1. /\ op.stage \in ActionStages /\ OpAction' = OpAction /\ performed' = performed
    BY <1>1 DEF ProjectExisting, SettleSideEffect, OpenPage, Finish, Goto, ledger,
       ActionStages, Stages, Inv, TypeOK, OpAction
  <2>2. OpAction \in Actions
    BY <2>1, OpActionOK
  <2>3. CASE ProjectExisting
    <3>1. effect[OpAction].state = "verified"
      BY <2>3 DEF ProjectExisting, Finish, Inv, TypeOK
    <3> QED
      BY <2>1, <2>2, <3>1 DEF Seen, Inv, EffectOK
  <2>4. CASE SettleSideEffect
    <3>1. op.stage = "settle" /\ op.result = "confirmed"
      BY <2>4 DEF SettleSideEffect, Finish, Inv, TypeOK
    <3> QED
      BY <2>1, <2>2, <3>1 DEF Seen, Inv, EffectOK
  <2>5. CASE OpenPage
    <3>1. KindOf[OpAction] = "browse"
      BY <2>5 DEF OpenPage, Finish, Goto, Inv, TypeOK
    <3> QED
      BY <2>1, <2>2, <3>1 DEF Seen
  <2> QED
    BY <1>1, <2>3, <2>4, <2>5
<1>2. CASE ~(ProjectExisting \/ SettleSideEffect \/ OpenPage)
  <2>1. CASE AcknowledgeControl \/ CommitStart \/ DiscoveryFails \/ CommitAction
    BY <2>1 DEF AcknowledgeControl, CommitStart, DiscoveryFails, CommitAction, ProcessFails,
       Idle
  <2>2. CASE \/ AdmitCommand \/ AdmitInAction \/ PrepareSideEffect \/ ReplayFails
             \/ BeginSideEffectDispatch \/ ActOnPage
    BY <2>2 DEF AdmitCommand, AdmitInAction, Admit, PrepareSideEffect, ReplayFails,
       BeginSideEffectDispatch, ActOnPage, Finish, Goto, Inv, TypeOK
  <2> QED
    BY <1>2, <2>1, <2>2 DEF Handle
<1> QED
  BY <1>1, <1>2

(* A success stays one the platform saw.                                    *)
LEMMA SuccessNext ==
    ASSUME Inv, StageOK, SuccessOK, [Next]_vars PROVE SuccessOK'
<1>1. ASSUME op'.stage = "commit", op'.result = "completed" PROVE Seen(OpAction)'
  <2>1. CASE Handle
    BY <1>1, <2>1, SuccessHandle
  <2>2. CASE op' = op /\ received' = received
    <3>1. op.stage = "commit" /\ OpAction' = OpAction
      BY <1>1, <2>2 DEF OpAction
    <3> QED
      BY <1>1, <2>2, <3>1, SeenStays DEF SuccessOK
  <2>3. \/ Handle
        \/ op' = op /\ received' = received
        \/ op' = Idle
        \/ op'.result = "none"
    <3>1. CASE Lifecycle \/ UNCHANGED vars
      BY <3>1 DEF Lifecycle, ClockMoves, StartPlain, StartRecovering,
         StartLocalEmergencyStop, Connect, Disconnect, Kill, ledger, vars
    <3>2. CASE Receive
      BY <3>2 DEF Receive, ReceiveNew, RejectNew, ReceiveReplay, ProcessFails
    <3>3. CASE Recover \/ \E t \in Attempts : AdvanceControl(t)
      BY <3>3 DEF Recover, RecoverSettle, RecoverProject, RecoverRejected, RecoverDone,
         AdvanceControl, ledger
    <3> QED
      BY <3>1, <3>2, <3>3 DEF Next
  <2> QED
    BY <1>1, <2>1, <2>2, <2>3 DEF Idle
<1>2. ASSUME NEW t \in Attempts, NEW i \in 1..Len(events'[t]), NEW a,
             a = events'[t][i].act, events'[t][i].type = "step.completed"
      PROVE  Seen(a)'
  <2>1. Seen(a)
    <3>1. CASE i > Len(events[t])
      BY <1>2, <3>1, EventStep DEF EventSteps, GoodEvent
    <3>2. CASE ~(i > Len(events[t]))
      <4>1. i \in 1..Len(events[t])
        BY <3>2 DEF Inv, TypeOK
      <4>2. events[t][i] = events'[t][i]
        BY <4>1, EventStep DEF EventSteps
      <4> QED
        BY <1>2, <4>1, <4>2 DEF SuccessOK
    <3> QED
      BY <3>1, <3>2
  <2> QED
    BY <2>1, SeenStays
<1> QED
  BY <1>1, <1>2 DEF SuccessOK, Seen, OpAction

(* Nothing is appended to a paused attempt but what resumes or ends it.     *)
LEMMA PausedNext ==
    ASSUME Inv, StageOK, SuccessOK, PausedIsQuiet, [Next]_vars PROVE PausedIsQuiet'
<1> SUFFICES ASSUME NEW t \in Attempts, checkpoint'[t].state = "paused",
                    NEW a \in Actions, AttemptOf[a] = t, effect'[a].state = "dispatched"
             PROVE  FALSE
  BY DEF PausedIsQuiet, EffectsOf
<1>1. \/ checkpoint[t].state = "paused"
      \/ ~EffectsOf(t, {"dispatched"}) /\ effect' = effect
  BY EventStep DEF CheckpointSteps
<1>2. CASE checkpoint[t].state = "paused"
  <2>1. effect[a].state # "dispatched"
    BY <1>2 DEF PausedIsQuiet, EffectsOf
  <2>2. op.stage \in ActionStages /\ op.att = t
    BY <2>1, EffectStep DEF EffectSteps
  <2> QED
    BY <1>2, <2>2 DEF StageOK
<1> QED
  BY <1>1, <1>2 DEF EffectsOf

(* A cancelled attempt stays without doubt about its effects.               *)
LEMMA CancelNext ==
    ASSUME Inv, StageOK, SuccessOK, CancelOK, [Next]_vars PROVE CancelOK'
<1> SUFFICES ASSUME NEW t \in Attempts, NEW i \in 1..Len(events'[t]),
                    events'[t][i].type = "task.cancelled"
             PROVE  checkpoint'[t].state = "terminal" /\ ~InDoubt(t)'
  BY DEF CancelOK
<1>1. CASE i > Len(events[t])
  BY <1>1, EventStep DEF EventSteps, GoodEvent, InDoubt, EffectsOf
<1>2. CASE ~(i > Len(events[t]))
  <2>1. i \in 1..Len(events[t])
    BY <1>2 DEF Inv, TypeOK
  <2>2. events[t][i] = events'[t][i]
    BY <2>1, EventStep DEF EventSteps
  <2>3. checkpoint[t].state = "terminal" /\ ~InDoubt(t)
    BY <2>1, <2>2 DEF CancelOK
  <2>4. checkpoint'[t].state = "terminal"
    BY <2>3, EventStep DEF CheckpointSteps
  <2>5. ASSUME NEW a \in Actions, AttemptOf[a] = t PROVE effect'[a].state = effect[a].state
    <3>1. effect[a].state # "dispatched"
      BY <2>3, <2>5 DEF InDoubt, EffectsOf
    <3>2. ~(op.stage \in ActionStages /\ op.att = t)
      BY <2>3 DEF StageOK
    <3> QED
      BY <2>5, <3>1, <3>2, EffectStep DEF EffectSteps
  <2> QED
    BY <2>3, <2>4, <2>5 DEF InDoubt, EffectsOf
<1> QED
  BY <1>1, <1>2

(* Events keep their numbers without gaps.                                  *)
LEMMA ContiguousNext ==
    ASSUME Inv, StageOK, SuccessOK, EventsContiguous, [Next]_vars PROVE EventsContiguous'
<1> SUFFICES ASSUME NEW t \in Attempts
             PROVE  /\ checkpoint'[t].ev = Len(events'[t])
                    /\ \A i \in 1..Len(events'[t]) : events'[t][i].seq = i
  BY DEF EventsContiguous
<1>1. /\ checkpoint[t].ev = Len(events[t]) /\ Len(events[t]) \in Nat
      /\ Len(events'[t]) \in Nat /\ checkpoint'[t].ev \in Nat
  BY NextInv DEF EventsContiguous, Inv, TypeOK
<1>2. checkpoint'[t].ev = Len(events'[t])
  <2>1. Len(events'[t]) - Len(events[t]) = checkpoint'[t].ev - checkpoint[t].ev
    BY EventStep DEF EventSteps
  <2>2. \A k, l, m, n \in Nat : k - l = m - n /\ n = l => m = k
    OBVIOUS
  <2> QED
    BY <1>1, <2>1, <2>2
<1>3. ASSUME NEW i \in 1..Len(events'[t]) PROVE events'[t][i].seq = i
  <2>1. CASE i > Len(events[t])
    <3>1. GoodEvent(t, events'[t][i], i - Len(events[t]))
      BY <2>1, EventStep DEF EventSteps
    <3> QED
      BY <1>1, <3>1 DEF GoodEvent
  <2>2. CASE ~(i > Len(events[t]))
    <3>1. i \in 1..Len(events[t])
      BY <1>1, <2>2
    <3> QED
      BY <3>1, EventStep DEF EventSteps, EventsContiguous
  <2> QED
    BY <2>1, <2>2
<1> QED
  BY <1>2, <1>3

(* At the start nothing is recorded.                                        *)
LEMMA HistoryInit == Init => HistoryInv
<1> SUFFICES ASSUME Init PROVE HistoryInv
  OBVIOUS
<1>1. Inv /\ StageOK
  BY InitInv, StageInit
<1>2. SuccessOK /\ CancelOK /\ PausedIsQuiet /\ EventsContiguous
  BY DEF Init, SuccessOK, CancelOK, PausedIsQuiet, EventsContiguous, Idle
<1> QED
  BY <1>1, <1>2 DEF HistoryInv

(* Every step keeps what the ledger has recorded true.                      *)
LEMMA HistoryNext == HistoryInv /\ [Next]_vars => HistoryInv'
BY NextInv, StageNext, SuccessNext, CancelNext, PausedNext, ContiguousNext DEF HistoryInv

-----------------------------------------------------------------------------
\* The inductive invariant of the recorded history holds of every reachable state.
THEOREM History == Spec => []HistoryInv
BY HistoryInit, HistoryNext, PTL DEF Spec

\* A reported success of a comment or a message is one the platform saw, whoever
\* wrote it: the handler, a replay of the command, or crash recovery.
THEOREM SuccessTrue == Spec => []SuccessIsTrue
<1>1. HistoryInv => SuccessIsTrue
  BY DEF HistoryInv, SuccessOK, SuccessIsTrue, Seen
<1> QED
  BY <1>1, History, PTL

\* The events of every attempt are numbered 1, 2, 3, ... without a gap, across
\* batches, controls, crashes and recovery.
THEOREM Contiguous == Spec => []EventsContiguous
<1>1. HistoryInv => EventsContiguous
  BY DEF HistoryInv
<1> QED
  BY <1>1, History, PTL

\* An attempt reported as cancelled has nothing in doubt, then or ever after.
THEOREM CancelledClean == Spec => []CancelledIsClean
<1>1. HistoryInv => CancelledIsClean
  BY DEF HistoryInv, CancelOK, CancelledIsClean, InDoubt
<1> QED
  BY <1>1, History, PTL

\* A paused attempt has no action in flight.
THEOREM PausedQuiet == Spec => []PausedIsQuiet
<1>1. HistoryInv => PausedIsQuiet
  BY DEF HistoryInv
<1> QED
  BY <1>1, History, PTL

\* No step makes the platform see an effect of an attempt that is told to stop.
THEOREM SilentAfterStop == Spec => NoEffectAfterStop
<1> DEFINE Silent ==
        \A a \in Actions : performed'[a] # performed[a] =>
           /\ latch = "clear"
           /\ checkpoint[AttemptOf[a]].state = "running"
           /\ Last(AttemptOf[a]).type
                  \notin {"task.pause", "task.cancel", "task.emergency_stop"}
<1>1. HistoryInv /\ [Next]_vars => [Silent]_vars
  <2> SUFFICES ASSUME HistoryInv, [Next]_vars, NEW a \in Actions, performed'[a] # performed[a]
               PROVE  /\ latch = "clear"
                      /\ checkpoint[AttemptOf[a]].state = "running"
                      /\ Last(AttemptOf[a]).type \notin Stopping
    BY DEF Stopping
  <2>1. op.stage = "act" /\ a = OpAction
    BY PerformStep DEF HistoryInv
  <2>2. op.stage \in ActionStages
    BY <2>1 DEF ActionStages, Stages
  <2>3. AttemptOf[a] = op.att
    BY <2>1, <2>2, OpActionOK DEF HistoryInv
  <2> QED
    BY <2>1, <2>2, <2>3 DEF HistoryInv, StageOK
<1> QED
  BY <1>1, History, PTL DEF Spec, NoEffectAfterStop

\* Nothing is reported or performed for an attempt that is terminal or uncertain.
THEOREM ClosedSilent == Spec => ClosedAttemptIsSilent
<1> DEFINE Silent ==
        \A t \in Attempts :
           checkpoint[t].state \in {"terminal", "outcome_uncertain"} =>
               /\ events'[t] = events[t]
               /\ checkpoint'[t] = checkpoint[t]
               /\ \A a \in Actions : AttemptOf[a] = t => performed'[a] = performed[a]
<1>1. HistoryInv /\ [Next]_vars => [Silent]_vars
  <2> SUFFICES ASSUME HistoryInv, [Next]_vars, NEW t \in Attempts,
                      checkpoint[t].state \in {"terminal", "outcome_uncertain"}
               PROVE  /\ events'[t] = events[t]
                      /\ checkpoint'[t] = checkpoint[t]
                      /\ \A a \in Actions : AttemptOf[a] = t => performed'[a] = performed[a]
    OBVIOUS
  <2>1. events'[t] = events[t] /\ checkpoint'[t] = checkpoint[t]
    BY EventStep DEF HistoryInv, CheckpointSteps
  <2>2. ASSUME NEW a \in Actions, AttemptOf[a] = t, performed'[a] # performed[a] PROVE FALSE
    <3>1. op.stage = "act" /\ a = OpAction
      BY <2>2, PerformStep DEF HistoryInv
    <3>2. op.stage \in ActionStages
      BY <3>1 DEF ActionStages, Stages
    <3>3. AttemptOf[a] = op.att
      BY <3>1, <3>2, OpActionOK DEF HistoryInv
    <3> QED
      BY <2>2, <3>2, <3>3 DEF HistoryInv, StageOK
  <2> QED
    BY <2>1, <2>2
<1> QED
  BY <1>1, History, PTL DEF Spec, ClosedAttemptIsSilent

-----------------------------------------------------------------------------
(* The contract *)

VerdictOf(state) ==
    CASE state \in {"none", "prepared"} -> "open"
      [] state = "dispatched" -> "permitted"
      [] state = "verified" -> "confirmed"
      [] OTHER -> "unknown"

(* The contract's view of the rows, row by row.                             *)
LEMMA VerdictIs == Verdict = [a \in Actions |-> VerdictOf(effect[a].state)]
BY DEF Verdict, VerdictOf

(* The same, after a step.                                                  *)
LEMMA VerdictIsNext == Verdict' = [a \in Actions |-> VerdictOf(effect'[a].state)]
BY DEF Verdict, VerdictOf

(* A step that at most gives permissions up is one of the contract's.        *)
LEMMA GivesUp ==
    ASSUME performed' = performed,
           \A a \in Actions :
              \/ effect'[a].state = effect[a].state
              \/ effect[a].state = "dispatched" /\ effect'[a].state = "uncertain"
    PROVE  Contract!Next
<1> DEFINE S == {a \in Actions : effect[a].state = "dispatched" /\ effect'[a].state = "uncertain"}
<1>1. \A a \in S : Verdict[a] = "permitted"
  BY VerdictIs DEF VerdictOf
<1>2. Verdict' = [a \in Actions |-> IF a \in S THEN "unknown" ELSE Verdict[a]]
  BY VerdictIs, VerdictIsNext DEF VerdictOf
<1>3. S \in SUBSET Actions
  OBVIOUS
<1> HIDE DEF S
<1>4. Contract!GiveUp(S)
  BY <1>1, <1>2 DEF Contract!GiveUp
<1> QED
  BY <1>3, <1>4 DEF Contract!Next

(* So is one that gives one action's effect its next state.                  *)
LEMMA MovesOn ==
    ASSUME Inv, NEW a \in Actions, NEW state,
           performed' = performed,
           effect'[a].state = state,
           \A b \in Actions \ {a} : effect'[b] = effect[b],
           \/ effect[a].state = "none" /\ state = "prepared"
           \/ effect[a].state = "prepared" /\ state = "dispatched"
           \/ effect[a].state = "dispatched" /\ state = "verified" /\ performed[a] = 1
    PROVE  Contract!Next \/ UNCHANGED Verdict
<1>1. Verdict' = [Verdict EXCEPT ![a] = VerdictOf(state)]
  BY VerdictIs, VerdictIsNext
<1>2. Verdict[a] = VerdictOf(effect[a].state)
  BY VerdictIs
<1>3. CASE effect[a].state = "none" /\ state = "prepared"
  <2>1. VerdictOf(state) = Verdict[a]
    BY <1>2, <1>3 DEF VerdictOf
  <2> QED
    BY <1>1, <2>1, VerdictIs
<1>4. CASE effect[a].state = "prepared" /\ state = "dispatched"
  <2>1. Contract!Permit(a)
    BY <1>1, <1>2, <1>4 DEF VerdictOf, Contract!Permit
  <2> QED
    BY <2>1 DEF Contract!Next
<1>5. CASE effect[a].state = "dispatched" /\ state = "verified" /\ performed[a] = 1
  <2>1. Contract!Confirm(a)
    BY <1>1, <1>2, <1>5 DEF VerdictOf, Contract!Confirm
  <2> QED
    BY <2>1 DEF Contract!Next
<1> QED
  BY <1>3, <1>4, <1>5

(* Taking the external step is the contract's Perform.                      *)
LEMMA PerformMaps == ASSUME Inv, ActOnPage PROVE Contract!Next \/ UNCHANGED Contract!vars
<1>1. /\ OpAction \in Actions /\ effect[OpAction].state = "dispatched"
      /\ performed[OpAction] = 0 /\ performed \in [Actions -> Nat]
  BY OpActionOK DEF ActOnPage, ActionStages, Stages, Inv, EffectOK, TypeOK
<1>2. effect' = effect
  BY DEF ActOnPage, ledger
<1>3. Verdict' = Verdict /\ Verdict[OpAction] = "permitted"
  BY <1>1, <1>2, VerdictIs, VerdictIsNext DEF VerdictOf
<1>4. performed' = performed \/ performed' = [performed EXCEPT ![OpAction] = 1]
  BY <1>1 DEF ActOnPage
<1>5. CASE performed' = performed
  BY <1>3, <1>5 DEF Contract!vars
<1>6. CASE performed' = [performed EXCEPT ![OpAction] = 1]
  <2>1. Contract!Perform(OpAction)
    BY <1>1, <1>3, <1>6 DEF Contract!Perform
  <2> QED
    BY <1>1, <2>1 DEF Contract!Next
<1> QED
  BY <1>4, <1>5, <1>6

(* Preparing, permitting and settling are steps of the contract, or         *)
(* stutter.                                                                 *)
LEMMA EffectsMap ==
    ASSUME Inv, PrepareSideEffect \/ BeginSideEffectDispatch \/ SettleSideEffect
    PROVE  Contract!Next \/ UNCHANGED Contract!vars
<1>1. /\ op.stage \in ActionStages /\ performed' = performed
  BY DEF PrepareSideEffect, BeginSideEffectDispatch, SettleSideEffect, ActionStages, Stages
<1>2. OpAction \in Actions
  BY <1>1, OpActionOK
<1>3. /\ \A b \in Actions \ {OpAction} : effect'[b] = effect[b]
      /\ \/ effect'[OpAction] = effect[OpAction]
         \/ effect[OpAction].state = "none" /\ effect'[OpAction].state = "prepared"
         \/ effect[OpAction].state = "prepared" /\ effect'[OpAction].state = "dispatched"
         \/ effect[OpAction].state = "dispatched" /\ effect'[OpAction].state = "uncertain"
         \/ /\ effect[OpAction].state = "dispatched" /\ effect'[OpAction].state = "verified"
            /\ performed[OpAction] = 1
  <2>1. CASE PrepareSideEffect
    BY <1>2, <2>1 DEF PrepareSideEffect, Inv, TypeOK
  <2>2. CASE BeginSideEffectDispatch
    <3>1. effect[OpAction].state = "prepared"
      BY <2>2 DEF BeginSideEffectDispatch, Inv, EffectOK
    <3> QED
      BY <1>2, <2>2, <3>1 DEF BeginSideEffectDispatch, Inv, TypeOK
  <2>3. CASE SettleSideEffect
    <3>1. /\ effect[OpAction].state = "dispatched"
          /\ op.result = "confirmed" => performed[OpAction] = 1
      BY <2>3 DEF SettleSideEffect, Inv, EffectOK
    <3> QED
      BY <1>2, <2>3, <3>1 DEF SettleSideEffect, Inv, TypeOK
  <2> QED
    BY <2>1, <2>2, <2>3
<1>4. CASE \/ effect'[OpAction] = effect[OpAction]
           \/ effect[OpAction].state = "dispatched" /\ effect'[OpAction].state = "uncertain"
  BY <1>1, <1>3, <1>4, GivesUp
<1>5. CASE \/ effect[OpAction].state = "none" /\ effect'[OpAction].state = "prepared"
           \/ effect[OpAction].state = "prepared" /\ effect'[OpAction].state = "dispatched"
           \/ /\ effect[OpAction].state = "dispatched" /\ effect'[OpAction].state = "verified"
              /\ performed[OpAction] = 1
  BY <1>1, <1>2, <1>3, <1>5, MovesOn DEF Contract!vars
<1> QED
  BY <1>3, <1>4, <1>5

(* No other step touches what the contract sees.                            *)
LEMMA OthersMap ==
    ASSUME Inv, [Next]_vars,
           ~(PrepareSideEffect \/ BeginSideEffectDispatch \/ SettleSideEffect \/ ActOnPage)
    PROVE  Contract!Next
<1> SUFFICES /\ performed' = performed
             /\ \A a \in Actions :
                   \/ effect'[a].state = effect[a].state
                   \/ effect[a].state = "dispatched" /\ effect'[a].state = "uncertain"
  BY GivesUp
<1>1. CASE Lifecycle \/ UNCHANGED vars
  BY <1>1 DEF Lifecycle, ClockMoves, StartPlain, StartRecovering,
     StartLocalEmergencyStop, Connect, Disconnect, Kill, ledger, vars
<1>2. CASE Receive
  <2>1. ASSUME NEW t \in Attempts, NEW c \in NextCommand(t), ReceiveNew(t, c)
        PROVE  /\ performed' = performed
               /\ effect' = effect \/ effect' = StoppedEffects(t)
    BY <2>1 DEF ReceiveNew
  <2>2. \A t : effect' = StoppedEffects(t) =>
           \A a \in Actions :
              \/ effect'[a].state = effect[a].state
              \/ effect[a].state = "dispatched" /\ effect'[a].state = "uncertain"
    BY DEF StoppedEffects
  <2>3. CASE performed' = performed /\ effect' = effect
    BY <2>3
  <2>4. \/ performed' = performed /\ effect' = effect
        \/ \E t \in Attempts : \E c \in NextCommand(t) : ReceiveNew(t, c)
    BY <1>2 DEF Receive, RejectNew, ReceiveReplay
  <2> QED
    BY <2>1, <2>2, <2>3, <2>4
<1>3. CASE Handle
  <2>1. CASE ProjectExisting
    <3>1. OpAction \in Actions
      BY <2>1, OpActionOK DEF ProjectExisting, ActionStages, Stages
    <3> QED
      BY <2>1, <3>1 DEF ProjectExisting, Inv, TypeOK
  <2>2. CASE ~ProjectExisting
    BY <1>3, <2>2 DEF Handle, AcknowledgeControl, CommitStart, DiscoveryFails, AdmitCommand,
       AdmitInAction, Admit, OpenPage, ReplayFails, CommitAction, ledger
  <2> QED
    BY <2>1, <2>2
<1>4. CASE Recover
  <2>1. ASSUME NEW a \in Actions, RecoverSettle(a)
        PROVE  /\ performed' = performed
               /\ \A b \in Actions :
                     \/ effect'[b].state = effect[b].state
                     \/ effect[b].state = "dispatched" /\ effect'[b].state = "uncertain"
    BY <2>1 DEF RecoverSettle, Inv, TypeOK
  <2>2. CASE RecoverRejected \/ RecoverDone \/ \E a \in Actions : RecoverProject(a)
    BY <2>2 DEF RecoverProject, RecoverRejected, RecoverDone, ledger
  <2> QED
    BY <1>4, <2>1, <2>2 DEF Recover
<1>5. CASE \E t \in Attempts : AdvanceControl(t)
  BY <1>5 DEF AdvanceControl
<1> QED
  BY <1>1, <1>2, <1>3, <1>4, <1>5 DEF Next

\* The executor's side-effect ledger implements the contract, whatever crashes,
\* restarts, replays and clock changes happen: every step of it is a permission, a
\* performance, a confirmation, a giving up, or invisible to the contract.
THEOREM Implementation == Spec => ImplementsContract
<1>1. Init => Contract!Init
  BY DEF Init, Contract!Init, Verdict
<1>2. Inv /\ [Next]_vars => [Contract!Next]_(Contract!vars)
  BY PerformMaps, EffectsMap, OthersMap
<1> QED
  BY <1>1, <1>2, Invariance, PTL DEF Spec, ImplementsContract, Contract!Spec
=============================================================================
