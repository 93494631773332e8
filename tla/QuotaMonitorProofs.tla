------------------------- MODULE QuotaMonitorProofs -------------------------
(***************************************************************************)
(* Theorems about QuotaMonitor, for every headroom, channel capacity and   *)
(* bound.                                                                  *)
(***************************************************************************)
EXTENDS QuotaMonitor, TLAPS

\* The token counters stay in their range (accumulateUsage, onRawOutput).
LEMMA TokenArithmetic ==
    /\ 0 \in Tokens
    /\ \A a, b \in Tokens : Sat(a + b) \in Tokens /\ Sat(a + 1) \in Tokens
    /\ \A a, b \in Tokens : ~(a < b) => a - b \in Tokens
  BY ConstantsAssumption DEF Tokens, Sat

\* A record of the right fields is an event.
LEMMA EventType ==
    ASSUME NEW n \in Tokens PROVE
    /\ Ev("init", n) \in Events /\ Ev("idle", n) \in Events
    /\ Ev("running", n) \in Events /\ Ev("assistant", n) \in Events
    /\ Ev("control_request", n) \in Events /\ Ev("requires_action", n) \in Events
    /\ Ev("result", n) \in Events
  BY DEF Ev, Events

\* handleCreate leaves the session well typed.
LEMMA InitType == Init => TypeOK
  <1> SUFFICES ASSUME Init PROVE TypeOK
    OBVIOUS
  <1>1. Ev("init", 0) \in Events /\ Ev("idle", 0) \in Events
    BY TokenArithmetic, EventType
  <1>2. sess \in SessionType /\ kv \in States
    <2>1. PICK p \in Policies :
             sess = [State |-> "pending", PausedVia |-> "", ResumeAt |-> "none", usage |-> 0,
                     pending |-> FALSE, policy |-> p]
      BY DEF Init
    <2>2. sess \in SessionType
      BY <2>1, TokenArithmetic DEF SessionType, States
    <2> QED
      BY <2>2 DEF Init, States
  <1>3. q \in FieldsType
    BY TokenArithmetic DEF Init, FieldsType, StopReasons
  <1>4. mon \in MonitorType
    BY DEF Init, MonitorType, MonitorIdle, States
  <1>5. ch \in ChannelType
    <2>1. ch = [quota |-> << >>, perm |-> FALSE, ended |-> FALSE, stop |-> FALSE]
      BY DEF Init
    <2>2. << >> \in Seq(Updates)
      OBVIOUS
    <2> QED
      BY <2>1, <2>2 DEF ChannelType
  <1>6. rt \in RouterType
    BY <1>1 DEF Init, RouterType, RouterIdle, States
  <1>7. cl \in ClaudeType
    <2>1. <<Ev("init", 0), Ev("idle", 0)>> \in Seq(Events)
      BY <1>1
    <2> QED
      BY <2>1, TokenArithmetic DEF Init, ClaudeType
  <1>8. stdin \in Seq(Lines) /\ inputs \in Seq(Messages) /\ cmd \in CommandType /\ panicked \in BOOLEAN
    <2>1. stdin = << >> /\ inputs = << >> /\ cmd = "serve" /\ panicked = FALSE
      BY DEF Init
    <2>2. stdin \in Seq(Lines)
      BY <2>1
    <2>3. inputs \in Seq(Messages)
      BY <2>1
    <2> QED
      BY <2>1, <2>2, <2>3 DEF CommandType
  <1>9. env \in EnvType
    <2>1. env = [quota |-> MaxQuota, user |-> MaxUser]
      BY DEF Init
    <2>2. MaxQuota \in 0 .. MaxQuota /\ MaxUser \in 0 .. MaxUser
      BY ConstantsAssumption
    <2> QED
      BY <2>1, <2>2 DEF EnvType
  <1>10. log \in LogType
    BY DEF Init, LogType
  <1> QED
    BY <1>2, <1>3, <1>4, <1>5, <1>6, <1>7, <1>8, <1>9, <1>10 DEF TypeOK

-----------------------------------------------------------------------------
(* Type correctness, one lemma per goroutine                               *)

\* The monitor's own steps that only move its control point.
LEMMA GotoType ==
    ASSUME TypeOK, NEW pc \in {"loop", "select", "mark", "setRunning", "turnEnd", "write",
                               "reset", "exit", "close", "done"},
           Goto(pc)
    PROVE  mon' \in MonitorType
  BY DEF TypeOK, MonitorType, Goto

\* A state change with its KV snapshot.
LEMMA SetAndWriteType ==
    ASSUME TypeOK, NEW new \in SessionType, NEW next \in {"loop", "reset", "exit", "close"},
           SetAndWrite(new, next)
    PROVE  sess' \in SessionType /\ mon' \in MonitorType
  BY DEF TypeOK, MonitorType, SessionType, SetAndWrite

\* A dropped or queued interrupt keeps stdinCh well typed.
LEMMA InterruptType == ASSUME TypeOK, sendHardInterrupt PROVE stdin' \in Seq(Lines)
  <1>1. stdin \in Seq(Lines) /\ "interrupt" \in Lines
    BY DEF TypeOK, Lines
  <1> QED
    BY <1>1 DEF sendHardInterrupt

\* Counters and flags of the history.
LEMMA LogType1 ==
    ASSUME TypeOK, NEW n \in Nat, NEW b \in BOOLEAN
    PROVE  /\ [log EXCEPT !.marks = n] \in LogType /\ [log EXCEPT !.pauses = n] \in LogType
           /\ [log EXCEPT !.interrupts = n] \in LogType
           /\ [log EXCEPT !.prompts = n, !.low = b] \in LogType
           /\ [log EXCEPT !.nudges = n, !.low = b] \in LogType
           /\ [log EXCEPT !.low = b] \in LogType /\ [log EXCEPT !.failed = b] \in LogType
           /\ [log EXCEPT !.ended = b] \in LogType
  BY DEF TypeOK, LogType

LEMMA LogFields ==
    ASSUME TypeOK
    PROVE  /\ log.marks + 1 \in Nat /\ log.pauses + 1 \in Nat /\ log.interrupts + 1 \in Nat
           /\ log.prompts + 1 \in Nat /\ log.nudges + 1 \in Nat
           /\ log.low \in BOOLEAN /\ log.failed \in BOOLEAN /\ log.ended \in BOOLEAN
  BY DEF TypeOK, LogType

LEMMA MonitorStepType == TypeOK /\ MonitorStep => TypeOK'
  <1> SUFFICES ASSUME TypeOK, MonitorStep PROVE TypeOK'
    OBVIOUS
  <1>a. AfterTurn \in {"exit", "loop"}
    BY DEF AfterTurn
  <1>1. CASE PriorityCheck
    BY <1>1 DEF TypeOK, MonitorType, ChannelType, PriorityCheck, At, Goto
  <1>2. CASE SelectStop
    BY <1>2 DEF TypeOK, MonitorType, SelectStop, At, Goto
  <1>3. CASE SelectPermDenied
    <2>1. ch' \in ChannelType
      BY <1>3 DEF TypeOK, ChannelType, SelectPermDenied
    <2>2. q' \in FieldsType
      BY <1>3 DEF TypeOK, FieldsType, StopReasons, SelectPermDenied
    <2>3. sess' \in SessionType /\ mon' \in MonitorType
      <3>1. [sess EXCEPT !.State = "needs_spec_fix"] \in SessionType
        BY DEF TypeOK, SessionType, States
      <3>2. CASE q.stopReason = ""
        BY <1>3, <3>1, <3>2, SetAndWriteType DEF SelectPermDenied
      <3>3. CASE q.stopReason # ""
        BY <1>3, <3>3, GotoType DEF SelectPermDenied, TypeOK
      <3> QED
        BY <3>2, <3>3
    <2> QED
      BY <1>3, <2>1, <2>2, <2>3 DEF SelectPermDenied, TypeOK
  <1>4. CASE SelectQuota
    <2> DEFINE u == Head(ch.quota)
    <2>1. u \in Updates /\ Tail(ch.quota) \in Seq(Updates)
      BY <1>4 DEF TypeOK, ChannelType, SelectQuota
    <2>2. ch' \in ChannelType
      BY <1>4, <2>1 DEF TypeOK, ChannelType, SelectQuota
    <2>3. u.r5 \in {"zero", "future"}
      BY <2>1, ConstantsAssumption DEF Updates
    <2>4. q' \in FieldsType
      BY <1>4, <2>3 DEF TypeOK, FieldsType, StopReasons, SelectQuota
    <2>5. mon' \in MonitorType
      BY <1>4, GotoType DEF SelectQuota
    <2>6. inputs' \in Seq(Messages)
      <3>1. inputs \in Seq(Messages) /\ "prompt" \in Messages /\ "nudge" \in Messages
        BY DEF TypeOK, Messages
      <3>2. inputs' \in {inputs, Append(inputs, "prompt"), Append(inputs, "nudge")}
        BY <1>4 DEF SelectQuota
      <3> QED
        BY <3>1, <3>2
    <2>7. log' \in LogType
      <3>1. (log.low \/ u.u5 = "low") \in BOOLEAN
        OBVIOUS
      <3> QED
        BY <1>4, <3>1, LogType1, LogFields DEF SelectQuota, TypeOK
    <2> QED
      BY <1>4, <2>2, <2>4, <2>5, <2>6, <2>7 DEF SelectQuota, TypeOK
  <1>5. CASE SetRunning
    <2>1. [sess EXCEPT !.State = "running", !.PausedVia = "", !.ResumeAt = "none"] \in SessionType
      BY DEF TypeOK, SessionType, States
    <2> QED
      BY <1>5, <2>1, SetAndWriteType DEF SetRunning, TypeOK
  <1>6. CASE SoftMark
    <2>1. q' \in FieldsType
      <3>1. sess.usage \in Tokens /\ 0 \in Tokens
        BY TokenArithmetic DEF TypeOK, SessionType
      <3> QED
        BY <1>6, <3>1 DEF TypeOK, FieldsType, StopReasons, SoftMark
    <2>2. inputs' \in Seq(Messages)
      <3>1. inputs \in Seq(Messages) /\ "stop" \in Messages
        BY DEF TypeOK, Messages
      <3> QED
        BY <1>6, <3>1 DEF SoftMark
    <2>3. stdin' \in Seq(Lines)
      BY <1>6, InterruptType DEF SoftMark, TypeOK
    <2>4. log' \in LogType
      <3> DEFINE i == IF Headroom = 0 THEN log.interrupts + 1 ELSE log.interrupts
      <3>1. log.marks + 1 \in Nat /\ i \in Nat
        BY LogFields DEF TypeOK, LogType
      <3>2. log' = [log EXCEPT !.marks = log.marks + 1, !.interrupts = i]
        BY <1>6 DEF SoftMark, TypeOK, LogType
      <3> HIDE DEF i
      <3> QED
        BY <3>1, <3>2 DEF TypeOK, LogType
    <2>5. mon' \in MonitorType
      BY <1>6, GotoType DEF SoftMark
    <2> QED
      BY <1>6, <2>1, <2>2, <2>3, <2>4, <2>5 DEF SoftMark, TypeOK
  <1>7. CASE SelectTurnEnded
    BY <1>7 DEF TypeOK, MonitorType, ChannelType, SelectTurnEnded, At, Goto
  <1>8. CASE SelectDone
    BY <1>8 DEF TypeOK, MonitorType, ChannelType, SelectDone, At
  <1>9. CASE handleTurnEnd
    <2>1. q' \in FieldsType
      BY <1>9 DEF TypeOK, FieldsType, handleTurnEnd
    <2>2. log' \in LogType
      BY <1>9, LogType1, LogFields DEF handleTurnEnd, TypeOK
    <2>3. sess' \in SessionType /\ mon' \in MonitorType
      <3>1. CASE q.stopReason \in QuotaStop
        <4> DEFINE new == [sess EXCEPT !.State = "paused", !.PausedVia = q.stopReason,
                             !.ResumeAt = IF AutoContinue /\ q.r5 # "zero" THEN q.r5 ELSE @]
        <4>1. new \in SessionType
          BY <3>1 DEF TypeOK, SessionType, FieldsType, States, QuotaStop
        <4>2. SetAndWrite(new, "reset")
          BY <1>9, <3>1 DEF handleTurnEnd, QuotaStop
        <4> QED
          BY <4>1, <4>2, SetAndWriteType
      <3>2. CASE q.stopReason = ""
        <4>1. [sess EXCEPT !.State = "completed"] \in SessionType
          BY DEF TypeOK, SessionType, States
        <4> QED
          BY <1>9, <1>a, <3>2, <4>1, SetAndWriteType DEF handleTurnEnd, QuotaStop
      <3>3. CASE q.stopReason = "permDenied"
        BY <1>9, <1>a, <3>3, GotoType DEF handleTurnEnd, QuotaStop, TypeOK
      <3> QED
        BY <1>9, <3>1, <3>2, <3>3 DEF handleTurnEnd
    <2> QED
      BY <1>9, <2>1, <2>2, <2>3 DEF handleTurnEnd, TypeOK
  <1>10. CASE MonitorWriteKV
    BY <1>10 DEF TypeOK, MonitorType, MonitorWriteKV, MonitorIdle, At, States
  <1>11. CASE ResetStop
    <2>1. q' \in FieldsType
      BY <1>11, TokenArithmetic DEF ResetStop, TypeOK, FieldsType, StopReasons
    <2>2. mon' \in MonitorType
      BY <1>11, <1>a, GotoType DEF ResetStop
    <2> QED
      BY <1>11, <2>1, <2>2 DEF ResetStop, TypeOK
  <1>12. CASE handleSubprocessExit
    <2>1. [sess EXCEPT !.State = "failed"] \in SessionType
      BY DEF TypeOK, SessionType, States
    <2>2. log' \in LogType
      BY <1>12 DEF handleSubprocessExit, TypeOK, LogType
    <2>3. CASE q.terminal
      BY <1>12, <2>2, <2>3, GotoType DEF handleSubprocessExit, TypeOK
    <2>4. CASE ~q.terminal
      BY <1>12, <2>1, <2>2, <2>4, SetAndWriteType DEF handleSubprocessExit, TypeOK
    <2> QED
      BY <2>3, <2>4
  <1>13. CASE CloseStopCh
    BY <1>13 DEF TypeOK, MonitorType, ChannelType, CloseStopCh, At, Goto
  <1> QED
    BY <1>1, <1>2, <1>3, <1>4, <1>5, <1>6, <1>7, <1>8, <1>9, <1>10, <1>11, <1>12, <1>13
       DEF MonitorStep

LEMMA RouterStepType == TypeOK /\ RouterStep => TypeOK'
  <1> SUFFICES ASSUME TypeOK, RouterStep PROVE TypeOK'
    OBVIOUS
  <1>a. RouterIdle \in RouterType
    BY EventType, TokenArithmetic DEF RouterIdle, RouterType, States
  <1>b. ASSUME NEW pc \in {"read", "escalate", "signal", "side", "write", "approve", "deny",
                         "approved", "denied", "done"},
               RGoto(pc)
        PROVE  rt' \in RouterType
    BY <1>a, <1>b DEF RGoto, TypeOK, RouterType
  <1>1. CASE RouteEvent
    <2> DEFINE ev == Head(cl.out)
    <2>1. ev \in Events /\ Tail(cl.out) \in Seq(Events)
      BY <1>1 DEF RouteEvent, TypeOK, ClaudeType
    <2>2. cl' \in ClaudeType
      BY <1>1, <2>1 DEF RouteEvent, TypeOK, ClaudeType
    <2>3. SinceMark(ev) \in Tokens
      <3>1. ev.tokens \in Tokens /\ q.since \in Tokens /\ q.atMark \in Tokens
        BY <2>1 DEF Events, TypeOK, FieldsType
      <3> QED
        BY <3>1, TokenArithmetic DEF SinceMark
    <2>4. CASE ev.type \in {"assistant", "result"}
      <3>1. q' \in FieldsType
        BY <1>1, <2>3, <2>4 DEF RouteEvent, TypeOK, FieldsType
      <3>2. [rt EXCEPT !.pc = "escalate", !.ev = ev] \in RouterType /\ [rt EXCEPT !.pc = "signal", !.ev = ev] \in RouterType
        BY <2>1 DEF TypeOK, RouterType
      <3>3. rt' \in RouterType /\ sess' = sess
        BY <1>1, <1>a, <2>4, <3>2 DEF RouteEvent
      <3> QED
        BY <1>1, <2>2, <3>1, <3>3 DEF RouteEvent, TypeOK
    <2>5. CASE ev.type \in {"init", "idle", "running", "requires_action"}
      <3>1. sess' \in SessionType
        BY <1>1, <2>5 DEF RouteEvent, TypeOK, SessionType, States
      <3>2. rt' = [rt EXCEPT !.ev = ev, !.pc = "write", !.snap = sess'.State] /\ q' = q
        BY <1>1, <2>5 DEF RouteEvent
      <3>3. rt' \in RouterType
        BY <2>1, <3>1, <3>2 DEF TypeOK, RouterType, SessionType
      <3> QED
        BY <1>1, <2>2, <3>1, <3>2, <3>3 DEF RouteEvent, TypeOK
    <2>6. CASE ev.type = "control_request"
      <3>1. rt' = [rt EXCEPT !.ev = ev, !.pc = "write", !.snap = sess.State] /\ q' = q /\ sess' = sess
        BY <1>1, <2>6 DEF RouteEvent
      <3>2. rt' \in RouterType
        BY <2>1, <3>1 DEF TypeOK, RouterType, SessionType
      <3> QED
        BY <1>1, <2>2, <3>1, <3>2 DEF RouteEvent, TypeOK
    <2> QED
      BY <2>1, <2>4, <2>5, <2>6 DEF Events
  <1>2. CASE Escalate
    <2>1. q' \in FieldsType
      BY <1>2 DEF Escalate, TypeOK, FieldsType, StopReasons
    <2>2. rt' \in RouterType
      BY <1>2, <1>b DEF Escalate, AfterBudget
    <2>3. stdin' \in Seq(Lines)
      BY <1>2, InterruptType DEF Escalate
    <2>4. log' \in LogType
      BY <1>2, LogType1, LogFields DEF Escalate
    <2> QED
      BY <1>2, <2>1, <2>2, <2>3, <2>4 DEF Escalate, TypeOK
  <1>3. CASE SignalTurnEnd
    <2>1. ch' \in ChannelType
      BY <1>3 DEF SignalTurnEnd, TypeOK, ChannelType
    <2>2. log' \in LogType
      BY <1>3, LogType1 DEF SignalTurnEnd
    <2>3. rt' \in RouterType
      BY <1>3, <1>b DEF SignalTurnEnd
    <2> QED
      BY <1>3, <2>1, <2>2, <2>3 DEF SignalTurnEnd, TypeOK
  <1>4. CASE ResultSideEffect
    <2>1. Sat(sess.usage + rt.ev.tokens) \in Tokens
      <3>1. sess.usage \in Tokens /\ rt.ev.tokens \in Tokens
        BY DEF TypeOK, SessionType, RouterType, Events
      <3> QED
        BY <3>1, TokenArithmetic
    <2>2. sess' \in SessionType
      BY <1>4, <2>1 DEF ResultSideEffect, TypeOK, SessionType
    <2>3. rt' \in RouterType
      BY <1>4 DEF ResultSideEffect, TypeOK, RouterType, SessionType
    <2> QED
      BY <1>4, <2>2, <2>3 DEF ResultSideEffect, TypeOK
  <1>5. CASE RouterWriteKV
    <2>1. rt' \in RouterType
      <3>1. \A v \in Verdicts : v \in {"read", "approve", "deny"}
        BY DEF Verdicts
      <3> QED
        BY <1>5, <1>b, <3>1 DEF RouterWriteKV
    <2>2. kv' \in States
      BY <1>5 DEF RouterWriteKV, TypeOK, RouterType
    <2>3. sess' \in SessionType
      <3>1. ASSUME NEW v PROVE (sess.pending \/ v = "read") \in BOOLEAN
        OBVIOUS
      <3> QED
        BY <1>5, <3>1 DEF RouterWriteKV, TypeOK, SessionType
    <2> QED
      BY <1>5, <2>1, <2>2, <2>3 DEF RouterWriteKV, TypeOK
  <1>6. CASE AutoAnswer
    <2>1. stdin' \in Seq(Lines)
      <3>1. stdin \in Seq(Lines) /\ rt.pc \in Lines
        BY <1>6 DEF AutoAnswer, TypeOK, Lines
      <3> QED
        BY <1>6, <3>1 DEF AutoAnswer
    <2>2. rt' \in RouterType
      BY <1>6 DEF AutoAnswer, TypeOK, RouterType, SessionType
    <2> QED
      BY <1>6, <2>1, <2>2 DEF AutoAnswer, TypeOK
  <1>7. CASE AnswerWriteKV
    <2>1. rt' \in RouterType
      BY <1>7, <1>b DEF AnswerWriteKV
    <2>2. kv' \in States
      BY <1>7 DEF AnswerWriteKV, TypeOK, RouterType
    <2>3. ch' \in ChannelType
      <3>1. (ch.perm \/ rt.pc = "denied") \in BOOLEAN
        OBVIOUS
      <3> QED
        BY <1>7, <3>1 DEF AnswerWriteKV, TypeOK, ChannelType
    <2> QED
      BY <1>7, <2>1, <2>2, <2>3 DEF AnswerWriteKV, TypeOK
  <1>8. CASE RouterDone
    <2>1. rt' \in RouterType
      BY <1>8, <1>b DEF RouterDone
    <2> QED
      BY <1>8, <2>1 DEF RouterDone, TypeOK
  <1> QED
    BY <1>1, <1>2, <1>3, <1>4, <1>5, <1>6, <1>7, <1>8 DEF RouterStep

LEMMA CommandStepType == TypeOK /\ (handleInput \/ handleControl \/ handleDelete \/ CommandStep) => TypeOK'
  <1> SUFFICES ASSUME TypeOK, handleInput \/ handleControl \/ handleDelete \/ CommandStep PROVE TypeOK'
    OBVIOUS
  <1>1. CASE handleInput
    <2>1. Head(inputs) \in Lines /\ Tail(inputs) \in Seq(Messages) /\ stdin \in Seq(Lines)
      BY <1>1 DEF handleInput, TypeOK, Lines
    <2>2. stdin' \in Seq(Lines) /\ inputs' \in Seq(Messages)
      BY <1>1, <2>1 DEF handleInput
    <2> QED
      BY <1>1, <2>2 DEF handleInput, TypeOK
  <1>2. CASE handleDelete
    BY <1>2 DEF handleDelete, TypeOK, CommandType
  <1>3. CASE StopCheck
    BY <1>3 DEF StopCheck, TypeOK, CommandType
  <1>4. CASE StopClose
    BY <1>4 DEF StopClose, TypeOK, CommandType, ChannelType
  <1>5. CASE StopInterrupt
    BY <1>5, InterruptType DEF StopInterrupt, TypeOK, CommandType
  <1>6. CASE StopKill
    <2>1. cl' \in ClaudeType
      BY <1>6, TokenArithmetic DEF StopKill, ProcessGone, TurnOver, TypeOK, ClaudeType
    <2> QED
      BY <1>6, <2>1 DEF StopKill, TypeOK
  <1>7. CASE StopDone
    BY <1>7 DEF StopDone, TypeOK, CommandType
  <1>8. CASE DeleteKV
    BY <1>8 DEF DeleteKV, TypeOK, CommandType
  <1>9. CASE handleControl
    <2>1. stdin \in Seq(Lines) /\ "approve" \in Lines
      BY DEF TypeOK, Lines
    <2>2. stdin' \in Seq(Lines)
      BY <1>9, <2>1 DEF handleControl
    <2>3. sess' \in SessionType /\ kv' \in States
      BY <1>9 DEF handleControl, TypeOK, SessionType
    <2> QED
      BY <1>9, <2>2, <2>3 DEF handleControl, TypeOK
  <1> QED
    BY <1>1, <1>2, <1>3, <1>4, <1>5, <1>6, <1>7, <1>8, <1>9 DEF CommandStep

\* One quota update or one user message fewer may still be published.
LEMMA SpendBudget ==
    ASSUME TypeOK
    PROVE  /\ env.quota > 0 => [env EXCEPT !.quota = @ - 1] \in EnvType
           /\ env.user > 0 => [env EXCEPT !.user = @ - 1] \in EnvType
  <1>1. env.quota \in 0 .. MaxQuota /\ env.user \in 0 .. MaxUser
    BY DEF TypeOK, EnvType
  <1>2. env.quota > 0 => env.quota - 1 \in 0 .. MaxQuota
    BY <1>1, ConstantsAssumption
  <1>3. env.user > 0 => env.user - 1 \in 0 .. MaxUser
    BY <1>1, ConstantsAssumption
  <1> QED
    BY <1>2, <1>3 DEF TypeOK, EnvType

LEMMA EnvironmentType == TypeOK /\ Environment => TypeOK'
  <1> SUFFICES ASSUME TypeOK, Environment PROVE TypeOK'
    OBVIOUS
  <1>a. cl.tokens \in Tokens /\ cl.out \in Seq(Events)
    BY DEF TypeOK, ClaudeType
  <1>b. ASSUME NEW new \in ClaudeType, NEW evs \in Seq(Events), Emit(new, evs)
        PROVE  cl' \in ClaudeType
    <2>1. new.out \o evs \in Seq(Events)
      BY <1>b DEF ClaudeType
    <2> QED
      BY <1>b, <2>1 DEF Emit, ClaudeType
  <1>c. TurnOver \in ClaudeType /\ ProcessGone \in ClaudeType
    BY TokenArithmetic DEF ProcessGone, TurnOver, TypeOK, ClaudeType
  <1>d. /\ <<Ev("running", 0)>> \in Seq(Events)
        /\ <<Ev("idle", 0), Ev("result", cl.tokens)>> \in Seq(Events)
        /\ <<Ev("assistant", 0)>> \in Seq(Events)
        /\ <<Ev("assistant", 0), Ev("control_request", 0), Ev("requires_action", 0)>> \in Seq(Events)
    BY <1>a, EventType, TokenArithmetic
  <1>e. Sat(cl.tokens + 1) \in Tokens
    BY <1>a, TokenArithmetic
  <1>1. CASE ClaudeRead
    <2>1. stdin' \in Seq(Lines)
      BY <1>1 DEF ClaudeRead, TypeOK
    <2>2. [cl EXCEPT !.turn = "work", !.tokens = 0] \in ClaudeType /\ [cl EXCEPT !.turn = "work"] \in ClaudeType
      BY TokenArithmetic DEF TypeOK, ClaudeType
    <2>3. cl' \in ClaudeType
      BY <1>1, <1>b, <1>c, <1>d, <2>2 DEF ClaudeRead, TypeOK
    <2> QED
      BY <1>1, <2>1, <2>3 DEF ClaudeRead, TypeOK
  <1>2. CASE ClaudeOutput
    <2>1. [cl EXCEPT !.tokens = Sat(@ + 1)] \in ClaudeType
      BY <1>e DEF TypeOK, ClaudeType
    <2>2. cl' \in ClaudeType
      BY <1>2, <1>b, <1>d, <2>1 DEF ClaudeOutput
    <2> QED
      BY <1>2, <2>2 DEF ClaudeOutput, TypeOK
  <1>3. CASE ClaudeAsks
    <2>1. [cl EXCEPT !.turn = "ask", !.tokens = Sat(@ + 1)] \in ClaudeType
      BY <1>e DEF TypeOK, ClaudeType
    <2>2. cl' \in ClaudeType
      BY <1>3, <1>b, <1>d, <2>1 DEF ClaudeAsks
    <2> QED
      BY <1>3, <2>2 DEF ClaudeAsks, TypeOK
  <1>4. CASE ClaudeEndsTurn
    <2>1. cl' \in ClaudeType
      BY <1>4, <1>b, <1>c, <1>d DEF ClaudeEndsTurn
    <2> QED
      BY <1>4, <2>1 DEF ClaudeEndsTurn, TypeOK
  <1>5. CASE ClaudeExits
    BY <1>5, <1>c DEF ClaudeExits, TypeOK
  <1>6. CASE \E u \in Updates : QuotaUpdate(u)
    <2>1. PICK u \in Updates : QuotaUpdate(u)
      BY <1>6
    <2>2. env' \in EnvType
      BY <2>1, SpendBudget DEF QuotaUpdate
    <2>3. Append(ch.quota, u) \in Seq(Updates)
      BY DEF TypeOK, ChannelType
    <2>4. ch' \in ChannelType
      BY <2>1, <2>3 DEF QuotaUpdate, TypeOK, ChannelType
    <2> QED
      BY <2>1, <2>2, <2>4 DEF QuotaUpdate, TypeOK
  <1>7. CASE UserMessage
    <2>1. env' \in EnvType
      BY <1>7, SpendBudget DEF UserMessage
    <2>2. inputs' \in Seq(Messages)
      <3>1. inputs \in Seq(Messages) /\ "user" \in Messages
        BY DEF TypeOK, Messages
      <3> QED
        BY <1>7, <3>1 DEF UserMessage
    <2> QED
      BY <1>7, <2>1, <2>2 DEF UserMessage, TypeOK
  <1>8. CASE ResetTimePasses
    BY <1>8 DEF ResetTimePasses, TypeOK, SessionType
  <1> QED
    BY <1>1, <1>2, <1>3, <1>4, <1>5, <1>6, <1>7, <1>8 DEF Environment

\* Every variable keeps its type: the monitor, the router, the command
\* goroutine and the process never leave the states the code names.
THEOREM TypeCorrect == Spec => []TypeOK
  <1>1. TypeOK /\ [Next]_vars => TypeOK'
    <2>1. TypeOK /\ UNCHANGED vars => TypeOK'
      BY DEF vars, TypeOK
    <2> QED
      BY <2>1, MonitorStepType, RouterStepType, CommandStepType, EnvironmentType DEF Next
  <1> QED
    BY InitType, <1>1, PTL DEF Spec

-----------------------------------------------------------------------------
(* A turn end wins over the exit of the process                            *)

\* A signalled turn end is in turnEndedCh, at hand, or accounted for in
\* terminal; the monitor prepares to exit only with the router gone and the
\* channel empty, and only then reports a failure.
TurnEndInv ==
    /\ log.ended => (ch.ended \/ q.terminal \/ mon.pc = "turnEnd")
    /\ mon.exiting => (rt.pc = "done" /\ ~ch.ended)
    /\ (mon.pc = "exit" \/ mon.next = "exit") => mon.exiting
    /\ log.failed => (rt.pc = "done" /\ ~log.ended)

LEMMA TurnEndInit == Init => TurnEndInv
  <1> SUFFICES ASSUME Init PROVE TurnEndInv
    OBVIOUS
  <1>1. mon.pc = "loop" /\ mon.next = "loop" /\ mon.exiting = FALSE
    BY DEF Init, MonitorIdle
  <1>2. log.ended = FALSE /\ log.failed = FALSE
    BY DEF Init
  <1> QED
    BY <1>1, <1>2 DEF TurnEndInv

LEMMA TurnEndMonitor == TypeOK /\ TurnEndInv /\ MonitorStep => TurnEndInv'
  <1> SUFFICES ASSUME TypeOK, TurnEndInv, MonitorStep PROVE TurnEndInv'
    OBVIOUS
  <1>a. /\ mon \in MonitorType /\ ch \in ChannelType /\ q \in FieldsType
        /\ rt \in RouterType /\ log \in LogType
    BY DEF TypeOK
  <1>1. CASE PriorityCheck
    BY <1>a, <1>1 DEF TurnEndInv, MonitorType, ChannelType, PriorityCheck, At, Goto
  <1>2. CASE SelectStop
    BY <1>a, <1>2 DEF TurnEndInv, MonitorType, SelectStop, At, Goto
  <1>3. CASE SelectPermDenied
    BY <1>a, <1>3 DEF TurnEndInv, MonitorType, ChannelType, FieldsType, SelectPermDenied, At, Goto, SetAndWrite
  <1>4. CASE SelectQuota
    <2>1. ch'.ended = ch.ended /\ q'.terminal = q.terminal /\ rt' = rt
      BY <1>a, <1>4 DEF SelectQuota, ChannelType, FieldsType
    <2>2. log'.ended = log.ended /\ log'.failed = log.failed
      BY <1>a, <1>4 DEF SelectQuota, LogType
    <2>3. /\ mon.pc = "select" /\ mon'.pc \notin {"exit", "turnEnd"}
          /\ mon'.exiting = mon.exiting /\ mon'.next = mon.next
      BY <1>a, <1>4 DEF SelectQuota, MonitorType, At, Goto
    <2> QED
      BY <2>1, <2>2, <2>3 DEF TurnEndInv
  <1>5. CASE SetRunning
    BY <1>a, <1>5 DEF TurnEndInv, MonitorType, SetRunning, At, SetAndWrite
  <1>6. CASE SoftMark
    <2>1. q'.terminal = q.terminal /\ ch' = ch /\ rt' = rt
      BY <1>a, <1>6 DEF SoftMark, FieldsType
    <2>2. log'.ended = log.ended /\ log'.failed = log.failed
      BY <1>a, <1>6 DEF SoftMark, LogType
    <2>3. /\ mon.pc = "mark" /\ mon'.pc = "loop"
          /\ mon'.exiting = mon.exiting /\ mon'.next = mon.next
      BY <1>a, <1>6 DEF SoftMark, MonitorType, At, Goto
    <2> QED
      BY <2>1, <2>2, <2>3 DEF TurnEndInv
  <1>7. CASE SelectTurnEnded
    BY <1>a, <1>7 DEF TurnEndInv, MonitorType, ChannelType, SelectTurnEnded, At, Goto
  <1>8. CASE SelectDone
    BY <1>a, <1>8 DEF TurnEndInv, MonitorType, ChannelType, SelectDone, At
  <1>9. CASE handleTurnEnd
    <2>1. q'.terminal /\ ch' = ch /\ rt' = rt
      BY <1>a, <1>9 DEF handleTurnEnd, FieldsType
    <2>2. log'.ended = log.ended /\ log'.failed = log.failed
      BY <1>a, <1>9 DEF handleTurnEnd, LogType
    <2>3. mon'.exiting = mon.exiting /\ ((mon'.pc = "exit" \/ mon'.next = "exit") => mon.exiting)
      BY <1>a, <1>9 DEF handleTurnEnd, MonitorType, At, Goto, SetAndWrite, AfterTurn, TurnEndInv
    <2> QED
      BY <2>1, <2>2, <2>3 DEF TurnEndInv
  <1>10. CASE MonitorWriteKV
    BY <1>a, <1>10 DEF TurnEndInv, MonitorType, MonitorWriteKV, MonitorIdle, At
  <1>11. CASE ResetStop
    BY <1>a, <1>11 DEF TurnEndInv, MonitorType, FieldsType, ResetStop, At, Goto, AfterTurn
  <1>12. CASE handleSubprocessExit
    <2>1. mon.exiting /\ rt.pc = "done" /\ ~ch.ended /\ mon.pc = "exit"
      BY <1>12 DEF TurnEndInv, handleSubprocessExit, At
    <2>2. q' = q /\ ch' = ch /\ rt' = rt /\ log'.ended = log.ended
      BY <1>a, <1>12 DEF handleSubprocessExit, LogType
    <2>3. mon'.exiting
      BY <1>a, <1>12, <2>1 DEF handleSubprocessExit, MonitorType, Goto, SetAndWrite
    <2>4. log'.failed => ~log.ended
      BY <1>a, <1>12, <2>1 DEF handleSubprocessExit, LogType, TurnEndInv
    <2>5. log.ended => q.terminal
      BY <2>1 DEF TurnEndInv
    <2> QED
      BY <2>1, <2>2, <2>3, <2>4, <2>5 DEF TurnEndInv
  <1>13. CASE CloseStopCh
    BY <1>a, <1>13 DEF TurnEndInv, MonitorType, ChannelType, CloseStopCh, At, Goto
  <1> QED
    BY <1>1, <1>2, <1>3, <1>4, <1>5, <1>6, <1>7, <1>8, <1>9, <1>10, <1>11, <1>12, <1>13
       DEF MonitorStep

LEMMA TurnEndRouter == TypeOK /\ TurnEndInv /\ RouterStep => TurnEndInv'
  <1> SUFFICES ASSUME TypeOK, TurnEndInv, RouterStep PROVE TurnEndInv'
    OBVIOUS
  <1>a. ch \in ChannelType /\ q \in FieldsType /\ rt \in RouterType /\ log \in LogType
    BY DEF TypeOK
  <1>1. rt.pc # "done" /\ mon' = mon
    BY DEF RouterStep, RouteEvent, Escalate, SignalTurnEnd, ResultSideEffect, RouterWriteKV,
           AutoAnswer, AnswerWriteKV, RouterDone, RouterAt
  <1>2. q'.terminal = q.terminal
    BY <1>a DEF RouterStep, RouteEvent, Escalate, SignalTurnEnd, ResultSideEffect,
                RouterWriteKV, AutoAnswer, AnswerWriteKV, RouterDone, FieldsType
  <1>3. log'.failed = log.failed /\ (log'.ended => log.ended \/ ch'.ended) /\ (ch.ended => ch'.ended)
    BY <1>a DEF RouterStep, RouteEvent, Escalate, SignalTurnEnd, ResultSideEffect,
                RouterWriteKV, AutoAnswer, AnswerWriteKV, RouterDone, LogType, ChannelType
  <1> QED
    BY <1>1, <1>2, <1>3 DEF TurnEndInv

LEMMA TurnEndOthers ==
    TypeOK /\ TurnEndInv /\ (handleInput \/ handleControl \/ handleDelete \/ CommandStep \/ Environment) => TurnEndInv'
  <1> SUFFICES ASSUME TypeOK, TurnEndInv, handleInput \/ handleControl \/ handleDelete \/ CommandStep \/ Environment
               PROVE  TurnEndInv'
    OBVIOUS
  <1>1. ch \in ChannelType
    BY DEF TypeOK
  <1>2. ch'.ended = ch.ended
    BY <1>1 DEF handleInput, handleControl, handleDelete, CommandStep, StopCheck, StopClose, StopInterrupt,
                StopKill, StopDone, DeleteKV, Environment, ClaudeRead, ClaudeOutput, ClaudeAsks,
                ClaudeEndsTurn, ClaudeExits, QuotaUpdate, UserMessage, ResetTimePasses, ChannelType
  <1>3. q' = q /\ mon' = mon /\ rt' = rt /\ log' = log
    BY DEF handleInput, handleControl, handleDelete, CommandStep, StopCheck, StopClose, StopInterrupt,
           StopKill, StopDone, DeleteKV, Environment, ClaudeRead, ClaudeOutput, ClaudeAsks,
           ClaudeEndsTurn, ClaudeExits, QuotaUpdate, UserMessage, ResetTimePasses
  <1> QED
    BY <1>2, <1>3 DEF TurnEndInv

\* A session whose turn ended is never reported failed, whatever the order in
\* which run receives from turnEndedCh and doneCh.
THEOREM TurnEndWins == Spec => []FailedOnlyWithoutTurnEnd
  <1>1. TypeOK /\ TurnEndInv /\ [Next]_vars => TurnEndInv'
    <2>1. TurnEndInv /\ UNCHANGED vars => TurnEndInv'
      BY DEF vars, TurnEndInv
    <2> QED
      BY <2>1, TurnEndMonitor, TurnEndRouter, TurnEndOthers DEF Next
  <1>2. TurnEndInv => FailedOnlyWithoutTurnEnd
    BY DEF TurnEndInv, FailedOnlyWithoutTurnEnd
  <1> QED
    BY TypeCorrect, TurnEndInit, <1>1, <1>2, PTL DEF Spec

-----------------------------------------------------------------------------
(* Marks, nudges and interrupts are paired with pauses and breaches        *)

\* A pause is counted and its stop reason not yet reset.
Resetting == mon.pc = "reset" \/ (mon.pc = "write" /\ mon.next = "reset")
\* The mark of a breach that is still to be counted.
AtMark == IF mon.pc = "mark" THEN 1 ELSE 0
\* An interrupt that a breach may still lead to.
Due == IF rt.pc = "escalate" \/ q.stopReason = "quota_soft" THEN 1 ELSE 0

\* Without a stop reason every mark was consumed by a pause.  The router may set
\* quota_hard late, after the reset, which only asks for a further pause.
MarkInv ==
    /\ Resetting => log.marks <= log.pauses
    /\ q.stopReason = "" => (log.marks <= log.pauses /\ mon.pc # "mark")
    /\ log.marks + AtMark <= log.pauses + 1

\* What is sent for a state of the session has taken the session out of it, or
\* is about to: the router may change the state too, but not back.
InputInv ==
    /\ log.prompts <= 1
    /\ sess.State = "pending" /\ mon.pc # "setRunning" => log.prompts = 0
    /\ log.nudges <= log.pauses
    /\ sess.State = "paused" /\ mon.pc # "setRunning" => log.nudges + 1 <= log.pauses

\* The interrupts sent, and the one due, are at most the breaches.
BreachInv ==
    /\ log.interrupts + Due <= log.marks + AtMark
    /\ Headroom = 0 => rt.pc # "escalate"
    /\ Headroom = 0 /\ mon.pc = "mark" => q.stopReason = "quota_soft"

StopInv == MarkInv /\ InputInv /\ BreachInv

LEMMA Counters ==
    ASSUME TypeOK
    PROVE  /\ log.marks \in Nat /\ log.pauses \in Nat /\ log.interrupts \in Nat
           /\ log.prompts \in Nat /\ log.nudges \in Nat
  BY DEF TypeOK, LogType

SameCounts ==
    /\ log'.marks = log.marks /\ log'.pauses = log.pauses /\ log'.interrupts = log.interrupts
    /\ log'.prompts = log.prompts /\ log'.nudges = log.nudges

LEMMA StopInit == Init => StopInv
  <1> SUFFICES ASSUME Init PROVE StopInv
    OBVIOUS
  <1>1. mon.pc = "loop" /\ rt.pc = "read" /\ q.stopReason = ""
    BY DEF Init, MonitorIdle, RouterIdle
  <1>2. /\ log.marks = 0 /\ log.pauses = 0 /\ log.interrupts = 0
        /\ log.prompts = 0 /\ log.nudges = 0
    BY DEF Init
  <1>s. sess.State = "pending"
    <2>1. PICK p \in Policies :
             sess = [State |-> "pending", PausedVia |-> "", ResumeAt |-> "none", usage |-> 0,
                     pending |-> FALSE, policy |-> p]
      BY DEF Init
    <2> QED
      BY <2>1
  <1>3. ~Resetting /\ AtMark = 0 /\ Due = 0
    BY <1>1 DEF Resetting, AtMark, Due
  <1>4. MarkInv
    <2>1. log.marks <= log.pauses /\ log.marks + AtMark <= log.pauses + 1
      BY <1>2, <1>3
    <2> QED
      BY <1>1, <2>1 DEF MarkInv
  <1>5. InputInv
    BY <1>2, <1>s DEF InputInv
  <1>6. BreachInv
    <2>1. log.interrupts + Due <= log.marks + AtMark
      BY <1>2, <1>3
    <2> QED
      BY <1>1, <2>1 DEF BreachInv
  <1> QED
    BY <1>4, <1>5, <1>6 DEF StopInv

\* Steps of the monitor that count nothing.
LEMMA MonitorQuiet ==
    ASSUME TypeOK, StopInv, SameCounts, rt' = rt,
           \/ q'.stopReason = q.stopReason
           \/ q.stopReason = "" /\ q'.stopReason = "permDenied",
           mon.pc # "mark", mon'.pc # "mark", Resetting' => Resetting,
           \/ sess'.State \notin {"pending", "paused"}
           \/ sess'.State = sess.State /\ mon.pc # "setRunning" /\ mon'.pc # "setRunning"
    PROVE  StopInv'
  <1>1. MarkInv'
    BY Counters DEF StopInv, MarkInv, AtMark, SameCounts
  <1>2. InputInv'
    BY DEF StopInv, InputInv, SameCounts
  <1>3. BreachInv'
    BY Counters DEF StopInv, BreachInv, AtMark, Due, SameCounts
  <1> QED
    BY <1>1, <1>2, <1>3 DEF StopInv

\* Where Goto and SetAndWrite leave the monitor.
LEMMA GotoFacts ==
    ASSUME TypeOK
    PROVE  /\ \A pc : Goto(pc) => mon'.pc = pc /\ mon'.next = mon.next
           /\ \A new, next : SetAndWrite(new, next) =>
                 sess' = new /\ mon'.pc = "write" /\ mon'.next = next
  BY DEF TypeOK, MonitorType, Goto, SetAndWrite

LEMMA StopMonitorQuiet ==
    ASSUME TypeOK, StopInv,
           \/ PriorityCheck \/ SelectStop \/ SelectPermDenied \/ SetRunning \/ SelectTurnEnded
           \/ SelectDone \/ MonitorWriteKV \/ handleSubprocessExit \/ CloseStopCh
    PROVE  StopInv'
  <1>a. mon \in MonitorType /\ q \in FieldsType /\ log \in LogType /\ sess \in SessionType
    BY DEF TypeOK
  <1>1. CASE PriorityCheck \/ SelectStop \/ SelectTurnEnded \/ CloseStopCh
    <2>1. /\ mon.pc \in {"loop", "select", "close"}
          /\ mon'.pc \in {"select", "turnEnd", "done"}
      BY <1>1, GotoFacts DEF PriorityCheck, SelectStop, SelectTurnEnded, CloseStopCh, At
    <2>2. UNCHANGED <<sess, q, rt, log>>
      BY <1>1 DEF PriorityCheck, SelectStop, SelectTurnEnded, CloseStopCh
    <2>3. ~Resetting'
      BY <2>1 DEF Resetting
    <2> QED
      BY <2>1, <2>2, <2>3, MonitorQuiet DEF SameCounts
  <1>2. CASE SelectDone
    <2>1. mon.pc = "select" /\ mon'.pc \in {"turnEnd", "exit"} /\ UNCHANGED <<sess, q, rt, log>>
      BY <1>a, <1>2 DEF SelectDone, At, MonitorType
    <2>2. ~Resetting'
      BY <2>1 DEF Resetting
    <2> QED
      BY <2>1, <2>2, MonitorQuiet DEF SameCounts
  <1>3. CASE SelectPermDenied
    <2>1. mon.pc = "select" /\ UNCHANGED <<rt, log>>
      BY <1>3 DEF SelectPermDenied, At
    <2>2. CASE q.stopReason = ""
      <3>1. q'.stopReason = "permDenied"
        BY <1>a, <1>3, <2>2 DEF SelectPermDenied, FieldsType
      <3>2. /\ sess' = [sess EXCEPT !.State = "needs_spec_fix"]
            /\ mon'.pc = "write" /\ mon'.next = "loop"
        BY <1>3, <2>2, GotoFacts DEF SelectPermDenied
      <3>3. sess'.State = "needs_spec_fix" /\ ~Resetting'
        BY <1>a, <3>2 DEF SessionType, Resetting
      <3> QED
        BY <2>1, <2>2, <3>1, <3>2, <3>3, MonitorQuiet DEF SameCounts
    <2>3. CASE q.stopReason # ""
      <3>1. mon'.pc = "loop" /\ UNCHANGED <<q, sess>>
        BY <1>3, <2>3, GotoFacts DEF SelectPermDenied
      <3>2. ~Resetting'
        BY <3>1 DEF Resetting
      <3> QED
        BY <2>1, <3>1, <3>2, MonitorQuiet DEF SameCounts
    <2> QED
      BY <2>2, <2>3
  <1>4. CASE SetRunning
    <2>1. mon.pc = "setRunning" /\ mon'.pc = "write" /\ mon'.next = "loop" /\ UNCHANGED <<q, rt, log>>
      BY <1>4, GotoFacts DEF SetRunning, At
    <2>2. sess'.State = "running"
      BY <1>a, <1>4 DEF SetRunning, SetAndWrite, SessionType
    <2>3. ~Resetting'
      BY <2>1 DEF Resetting
    <2> QED
      BY <2>1, <2>2, <2>3, MonitorQuiet DEF SameCounts
  <1>5. CASE MonitorWriteKV
    <2>1. mon.pc = "write" /\ mon'.pc = mon.next /\ UNCHANGED <<sess, q, rt, log>>
      BY <1>a, <1>5 DEF MonitorWriteKV, MonitorIdle, At, MonitorType
    <2>2. mon'.pc \in {"loop", "reset", "exit", "close"}
      BY <1>a, <2>1 DEF MonitorType
    <2>3. Resetting' => Resetting
      BY <2>1, <2>2 DEF Resetting
    <2> QED
      BY <2>1, <2>2, <2>3, MonitorQuiet DEF SameCounts
  <1>6. CASE handleSubprocessExit
    <2>1. mon.pc = "exit" /\ UNCHANGED <<q, rt>> /\ SameCounts
      BY <1>a, <1>6 DEF handleSubprocessExit, At, SameCounts, LogType
    <2>2. CASE q.terminal
      <3>1. mon'.pc = "close" /\ sess' = sess
        BY <1>6, <2>2, GotoFacts DEF handleSubprocessExit
      <3>2. ~Resetting'
        BY <3>1 DEF Resetting
      <3> QED
        BY <2>1, <3>1, <3>2, MonitorQuiet
    <2>3. CASE ~q.terminal
      <3>1. /\ sess' = [sess EXCEPT !.State = "failed"]
            /\ mon'.pc = "write" /\ mon'.next = "close"
        BY <1>6, <2>3, GotoFacts DEF handleSubprocessExit
      <3>2. sess'.State = "failed" /\ ~Resetting'
        BY <1>a, <3>1 DEF SessionType, Resetting
      <3> QED
        BY <2>1, <3>1, <3>2, MonitorQuiet
    <2> QED
      BY <2>2, <2>3
  <1> QED
    BY <1>1, <1>2, <1>3, <1>4, <1>5, <1>6

\* A breach is noticed, a prompt or a nudge is sent, or nothing happens.
LEMMA StopSelectQuota ==
    ASSUME TypeOK, StopInv, SelectQuota
    PROVE  StopInv'
  <1> DEFINE u == Head(ch.quota)
  <1>a. q \in FieldsType /\ log \in LogType
    BY DEF TypeOK
  <1>b. mon.pc = "select" /\ rt' = rt /\ sess' = sess
    BY DEF SelectQuota, At
  <1>c. q'.stopReason = IF Breach(u) THEN "quota_soft" ELSE q.stopReason
    BY <1>a DEF SelectQuota, FieldsType
  <1>d. AtMark = 0 /\ ~Resetting
    BY <1>b DEF AtMark, Resetting
  <1>1. CASE Breach(u) /\ Goto("mark") /\ log' = log
    <2>1. mon'.pc = "mark" /\ AtMark' = 1 /\ ~Resetting'
      BY <1>1, GotoFacts DEF AtMark, Resetting
    <2>2. q.stopReason = "" /\ q'.stopReason = "quota_soft"
      BY <1>1, <1>c DEF Breach
    <2>3. Due \in {0, 1} /\ Due' = 1
      BY <2>2 DEF Due
    <2>4. MarkInv'
      <3>1. log.marks <= log.pauses
        BY <2>2 DEF StopInv, MarkInv
      <3>2. (log.marks + AtMark <= log.pauses + 1)'
        BY <1>1, <2>1, <3>1, Counters
      <3> QED
        BY <2>1, <2>2, <3>2 DEF MarkInv
    <2>5. InputInv'
      BY <1>1, <1>b, <2>1 DEF StopInv, InputInv
    <2>6. BreachInv'
      <3>1. log.interrupts + Due <= log.marks + AtMark
        BY DEF StopInv, BreachInv
      <3>2. (log.interrupts + Due <= log.marks + AtMark)'
        BY <1>1, <1>d, <2>1, <2>3, <3>1, Counters
      <3> QED
        BY <1>b, <2>2, <3>2 DEF StopInv, BreachInv
    <2> QED
      BY <2>4, <2>5, <2>6 DEF StopInv
  <1>2. CASE /\ u.u5 = "low" /\ sess.State = "pending" /\ Goto("setRunning")
             /\ log' = [log EXCEPT !.prompts = @ + 1, !.low = TRUE]
    <2>1. mon'.pc = "setRunning" /\ AtMark' = 0 /\ ~Resetting'
      BY <1>2, GotoFacts DEF AtMark, Resetting
    <2>2. q'.stopReason = q.stopReason
      BY <1>2, <1>c DEF Breach
    <2>3. /\ log'.marks = log.marks /\ log'.pauses = log.pauses /\ log'.interrupts = log.interrupts
          /\ log'.prompts = log.prompts + 1 /\ log'.nudges = log.nudges
      BY <1>a, <1>2 DEF LogType
    <2>4. MarkInv'
      BY <1>d, <2>1, <2>2, <2>3 DEF StopInv, MarkInv
    <2>5. log.prompts = 0
      BY <1>2, <1>b DEF StopInv, InputInv
    <2>6. InputInv'
      BY <2>1, <2>3, <2>5, Counters DEF StopInv, InputInv
    <2>7. BreachInv'
      BY <1>b, <1>d, <2>1, <2>2, <2>3 DEF StopInv, BreachInv, Due
    <2> QED
      BY <2>4, <2>6, <2>7 DEF StopInv
  <1>3. CASE /\ u.u5 = "low" /\ MayResume /\ Goto("setRunning")
             /\ log' = [log EXCEPT !.nudges = @ + 1, !.low = TRUE]
    <2>1. mon'.pc = "setRunning" /\ AtMark' = 0 /\ ~Resetting'
      BY <1>3, GotoFacts DEF AtMark, Resetting
    <2>2. q'.stopReason = q.stopReason
      BY <1>3, <1>c DEF Breach
    <2>3. /\ log'.marks = log.marks /\ log'.pauses = log.pauses /\ log'.interrupts = log.interrupts
          /\ log'.prompts = log.prompts /\ log'.nudges = log.nudges + 1
      BY <1>a, <1>3 DEF LogType
    <2>4. MarkInv'
      BY <1>d, <2>1, <2>2, <2>3 DEF StopInv, MarkInv
    <2>5. log.nudges + 1 <= log.pauses
      BY <1>3, <1>b DEF StopInv, InputInv, MayResume
    <2>6. InputInv'
      BY <2>1, <2>3, <2>5, Counters DEF StopInv, InputInv
    <2>7. BreachInv'
      BY <1>b, <1>d, <2>1, <2>2, <2>3 DEF StopInv, BreachInv, Due
    <2> QED
      BY <2>4, <2>6, <2>7 DEF StopInv
  <1>4. CASE ~Breach(u) /\ Goto("loop") /\ log' = [log EXCEPT !.low = @ \/ u.u5 = "low"]
    <2>1. mon'.pc = "loop" /\ ~Resetting'
      BY <1>4, GotoFacts DEF Resetting
    <2>2. SameCounts
      BY <1>a, <1>4 DEF LogType, SameCounts
    <2> QED
      BY <1>4, <1>b, <1>c, <2>1, <2>2, MonitorQuiet
  <1> QED
    BY <1>1, <1>2, <1>3, <1>4 DEF SelectQuota

\* The mark of a breach is counted, with its interrupt when there is no headroom.
LEMMA StopSoftMark ==
    ASSUME TypeOK, StopInv, SoftMark
    PROVE  StopInv'
  <1>a. q \in FieldsType /\ log \in LogType /\ Headroom \in Nat
    BY ConstantsAssumption DEF TypeOK
  <1>b. mon.pc = "mark" /\ AtMark = 1 /\ rt' = rt /\ sess' = sess
    BY DEF SoftMark, At, AtMark
  <1>c. mon'.pc = "loop" /\ AtMark' = 0 /\ ~Resetting'
    BY GotoFacts DEF SoftMark, AtMark, Resetting
  <1>d. /\ log'.marks = log.marks + 1 /\ log'.pauses = log.pauses
        /\ log'.prompts = log.prompts /\ log'.nudges = log.nudges
    BY <1>a DEF SoftMark, LogType
  <1>e. q.stopReason # ""
    BY <1>b DEF StopInv, MarkInv
  <1>f. q'.stopReason = IF Headroom = 0 THEN "quota_hard" ELSE q.stopReason
    BY <1>a DEF SoftMark, FieldsType
  <1>1. MarkInv'
    <2>1. log.marks + AtMark <= log.pauses + 1
      BY DEF StopInv, MarkInv
    <2>2. (log.marks + AtMark <= log.pauses + 1)'
      BY <1>b, <1>c, <1>d, <2>1, Counters
    <2>3. q'.stopReason # ""
      BY <1>e, <1>f
    <2> QED
      BY <1>c, <2>2, <2>3 DEF MarkInv
  <1>2. InputInv'
    BY <1>b, <1>c, <1>d DEF StopInv, InputInv
  <1>3. CASE Headroom = 0
    <2>1. log'.interrupts = log.interrupts + 1
      BY <1>a, <1>3 DEF SoftMark, LogType
    <2>2. Due = 1 /\ Due' = 0
      BY <1>b, <1>f, <1>3 DEF StopInv, BreachInv, Due
    <2> QED
      BY <1>1, <1>2, <1>3, <1>b, <1>c, <1>d, <2>1, <2>2, Counters DEF StopInv, BreachInv
  <1>4. CASE Headroom # 0
    <2>1. log'.interrupts = log.interrupts
      BY <1>a, <1>4 DEF SoftMark, LogType
    <2>2. Due' = Due /\ Due \in {0, 1}
      BY <1>b, <1>f, <1>4 DEF Due
    <2> QED
      BY <1>1, <1>2, <1>4, <1>b, <1>c, <1>d, <2>1, <2>2, Counters DEF StopInv, BreachInv
  <1> QED
    BY <1>3, <1>4

\* A pause is counted and takes the mark with it; the two other ends of a turn
\* count nothing.
LEMMA StopTurnEnd ==
    ASSUME TypeOK, StopInv, handleTurnEnd
    PROVE  StopInv'
  <1>a. q \in FieldsType /\ log \in LogType /\ sess \in SessionType
    BY DEF TypeOK
  <1>b. mon.pc = "turnEnd" /\ AtMark = 0 /\ rt' = rt
    BY DEF handleTurnEnd, At, AtMark
  <1>c. q'.stopReason = q.stopReason
    BY <1>a DEF handleTurnEnd, FieldsType
  <1>d. AfterTurn \in {"loop", "exit"}
    BY DEF AfterTurn
  <1>1. CASE q.stopReason \in QuotaStop
    <2>0. PICK new : /\ new.State = "paused" /\ SetAndWrite(new, "reset")
                     /\ log' = [log EXCEPT !.pauses = @ + 1]
      BY <1>a, <1>1 DEF handleTurnEnd, QuotaStop, SessionType
    <2>1. /\ sess'.State = "paused" /\ mon'.pc = "write" /\ AtMark' = 0
          /\ log' = [log EXCEPT !.pauses = @ + 1]
      BY <2>0, GotoFacts DEF AtMark
    <2>2. /\ log'.marks = log.marks /\ log'.pauses = log.pauses + 1
          /\ log'.interrupts = log.interrupts
          /\ log'.prompts = log.prompts /\ log'.nudges = log.nudges
      BY <1>a, <2>1 DEF LogType
    <2>3. q'.stopReason # ""
      BY <1>1, <1>c DEF QuotaStop
    <2>4. MarkInv'
      <3>1. log.marks + AtMark <= log.pauses + 1
        BY DEF StopInv, MarkInv
      <3>2. (log.marks <= log.pauses)' /\ (log.marks + AtMark <= log.pauses + 1)'
        BY <1>b, <2>1, <2>2, <3>1, Counters
      <3> QED
        BY <2>3, <3>2 DEF MarkInv
    <2>5. InputInv'
      BY <2>1, <2>2, Counters DEF StopInv, InputInv
    <2>6. BreachInv'
      BY <1>b, <1>c, <2>1, <2>2 DEF StopInv, BreachInv, Due
    <2> QED
      BY <2>4, <2>5, <2>6 DEF StopInv
  <1>2. CASE q.stopReason = ""
    <2>1. sess' = [sess EXCEPT !.State = "completed"] /\ log' = log
          /\ mon'.pc = "write" /\ mon'.next = AfterTurn
      BY <1>2, GotoFacts DEF handleTurnEnd, QuotaStop
    <2>2. sess'.State = "completed" /\ ~Resetting'
      BY <1>a, <1>d, <2>1 DEF SessionType, Resetting
    <2> QED
      BY <1>b, <1>c, <2>1, <2>2, MonitorQuiet DEF SameCounts
  <1>3. CASE q.stopReason = "permDenied"
    <2>1. sess' = sess /\ log' = log /\ mon'.pc = AfterTurn
      BY <1>3, GotoFacts DEF handleTurnEnd, QuotaStop
    <2>2. ~Resetting'
      BY <1>d, <2>1 DEF Resetting
    <2> QED
      BY <1>b, <1>c, <1>d, <2>1, <2>2, MonitorQuiet DEF SameCounts
  <1> QED
    BY <1>1, <1>2, <1>3 DEF handleTurnEnd

\* The reset comes after the pause that consumed the mark.
LEMMA StopReset ==
    ASSUME TypeOK, StopInv, ResetStop
    PROVE  StopInv'
  <1>a. q \in FieldsType
    BY DEF TypeOK
  <1>b. mon.pc = "reset" /\ Resetting /\ AtMark = 0 /\ rt' = rt /\ sess' = sess /\ log' = log
    BY DEF ResetStop, At, Resetting, AtMark
  <1>c. AfterTurn \in {"loop", "exit"} /\ mon'.pc = AfterTurn
    BY GotoFacts DEF ResetStop, AfterTurn
  <1>d. AtMark' = 0 /\ ~Resetting' /\ mon'.pc \notin {"mark", "setRunning"}
    BY <1>c DEF AtMark, Resetting
  <1>e. q'.stopReason = ""
    BY <1>a DEF ResetStop, FieldsType
  <1>f. Due \in {0, 1} /\ (Due' = 0 \/ Due' = Due)
    BY <1>b, <1>e DEF Due
  <1>1. MarkInv'
    BY <1>b, <1>d, Counters DEF StopInv, MarkInv
  <1>2. InputInv'
    BY <1>b, <1>d DEF StopInv, InputInv
  <1>3. BreachInv'
    BY <1>b, <1>d, <1>f, Counters DEF StopInv, BreachInv
  <1> QED
    BY <1>1, <1>2, <1>3 DEF StopInv

LEMMA StopMonitor == TypeOK /\ StopInv /\ MonitorStep => StopInv'
  BY StopMonitorQuiet, StopSelectQuota, StopSoftMark, StopTurnEnd, StopReset DEF MonitorStep

\* Steps of the router and of the others that count nothing and start no
\* escalation that was not due.
LEMMA OthersQuiet ==
    ASSUME TypeOK, StopInv, SameCounts, mon' = mon, q'.stopReason = q.stopReason,
           \/ rt'.pc # "escalate"
           \/ rt'.pc = rt.pc
           \/ q.stopReason = "quota_soft" /\ Headroom # 0,
           sess'.State = sess.State \/ sess'.State \notin {"pending", "paused"}
    PROVE  StopInv'
  <1>1. MarkInv'
    BY DEF StopInv, MarkInv, Resetting, AtMark, SameCounts
  <1>2. InputInv'
    BY DEF StopInv, InputInv, SameCounts
  <1>3. Due \in {0, 1} /\ Due' \in {0, 1} /\ Due' <= Due
    BY DEF Due
  <1>4. BreachInv'
    BY <1>3, Counters DEF StopInv, BreachInv, AtMark, SameCounts
  <1> QED
    BY <1>1, <1>2, <1>4 DEF StopInv

\* Where RGoto leaves the router.
LEMMA RGotoFacts ==
    ASSUME TypeOK
    PROVE  \A pc : RGoto(pc) => rt'.pc = pc
  BY DEF TypeOK, RouterType, RGoto, RouterIdle

LEMMA StopRouter == TypeOK /\ StopInv /\ RouterStep => StopInv'
  <1> SUFFICES ASSUME TypeOK, StopInv, RouterStep PROVE StopInv'
    OBVIOUS
  <1>a. q \in FieldsType /\ log \in LogType /\ sess \in SessionType /\ rt \in RouterType
    BY DEF TypeOK
  <1>b. mon' = mon
    BY DEF RouterStep, RouteEvent, Escalate, SignalTurnEnd, ResultSideEffect, RouterWriteKV,
           AutoAnswer, AnswerWriteKV, RouterDone
  <1>1. CASE RouteEvent
    <2> DEFINE ev == Head(cl.out)
    <2>1. log' = log /\ SameCounts
      BY <1>1 DEF RouteEvent, SameCounts
    <2>2. q'.stopReason = q.stopReason
      BY <1>a, <1>1 DEF RouteEvent, FieldsType
    <2>3. sess'.State = sess.State \/ sess'.State \notin {"pending", "paused"}
      BY <1>a, <1>1 DEF RouteEvent, SessionType
    <2>4. rt'.pc = "escalate" => OverBudget(ev)
      <3>1. /\ \A e : [rt EXCEPT !.pc = "signal", !.ev = e].pc = "signal"
            /\ \A e, st : [rt EXCEPT !.ev = e, !.pc = "write", !.snap = st].pc = "write"
            /\ RouterIdle.pc = "read"
        BY <1>a DEF RouterType, RouterIdle
      <3>2. CASE rt' = RouterIdle \/ rt' = [rt EXCEPT !.pc = "signal", !.ev = ev]
        BY <3>1, <3>2
      <3>3. CASE \E st : rt' = [rt EXCEPT !.ev = ev, !.pc = "write", !.snap = st]
        BY <3>1, <3>3
      <3> QED
        BY <1>1, <3>2, <3>3 DEF RouteEvent
    <2>5. OverBudget(ev) => q.stopReason = "quota_soft" /\ Headroom # 0
      BY ConstantsAssumption DEF OverBudget
    <2> QED
      BY <1>b, <2>1, <2>2, <2>3, <2>4, <2>5, OthersQuiet
  <1>2. CASE Escalate
    <2>1. rt.pc = "escalate" /\ sess' = sess
      BY <1>2 DEF Escalate, RouterAt
    <2>2. /\ log'.marks = log.marks /\ log'.pauses = log.pauses
          /\ log'.interrupts = log.interrupts + 1
          /\ log'.prompts = log.prompts /\ log'.nudges = log.nudges
      BY <1>a, <1>2 DEF Escalate, LogType
    <2>3. q'.stopReason = "quota_hard"
      BY <1>a, <1>2 DEF Escalate, FieldsType
    <2>4. rt'.pc \in {"signal", "read"}
      BY <1>2, RGotoFacts DEF Escalate, AfterBudget
    <2>5. Due = 1 /\ Due' = 0
      BY <2>1, <2>3, <2>4 DEF Due
    <2>6. AtMark' = AtMark /\ (Resetting' <=> Resetting) /\ AtMark \in {0, 1}
      BY <1>b DEF AtMark, Resetting
    <2>7. MarkInv'
      BY <1>b, <2>2, <2>3, <2>6 DEF StopInv, MarkInv
    <2>8. InputInv'
      BY <1>b, <2>1, <2>2 DEF StopInv, InputInv
    <2>9. BreachInv'
      BY <2>1, <2>2, <2>4, <2>5, <2>6, Counters DEF StopInv, BreachInv
    <2> QED
      BY <2>7, <2>8, <2>9 DEF StopInv
  <1>3. CASE SignalTurnEnd \/ ResultSideEffect \/ RouterWriteKV \/ AutoAnswer \/ AnswerWriteKV \/ RouterDone
    <2>1. q' = q /\ SameCounts
      BY <1>a, <1>3 DEF SignalTurnEnd, ResultSideEffect, RouterWriteKV, AutoAnswer, AnswerWriteKV,
                        RouterDone, SameCounts, LogType
    <2>2. sess'.State = sess.State
      BY <1>a, <1>3 DEF SignalTurnEnd, ResultSideEffect, RouterWriteKV, AutoAnswer, AnswerWriteKV,
                        RouterDone, SessionType
    <2>3. rt'.pc # "escalate"
      <3>1. CASE RouterWriteKV
        <4>1. \A v \in Verdicts : v # "escalate"
          BY DEF Verdicts
        <4> QED
          BY <3>1, <4>1, RGotoFacts DEF RouterWriteKV
      <3>2. CASE AutoAnswer
        BY <1>a, <3>2 DEF AutoAnswer, RouterType
      <3> QED
        BY <1>a, <1>3, <3>1, <3>2, RGotoFacts
        DEF SignalTurnEnd, ResultSideEffect, AnswerWriteKV, RouterDone, RouterType
    <2> QED
      BY <1>b, <2>1, <2>2, <2>3, OthersQuiet
  <1> QED
    BY <1>1, <1>2, <1>3 DEF RouterStep

LEMMA StopOthers ==
    TypeOK /\ StopInv /\ (handleInput \/ handleControl \/ handleDelete \/ CommandStep \/ Environment) => StopInv'
  <1> SUFFICES ASSUME TypeOK, StopInv, handleInput \/ handleControl \/ handleDelete \/ CommandStep \/ Environment
               PROVE  StopInv'
    OBVIOUS
  <1>1. sess \in SessionType
    BY DEF TypeOK
  <1>2. q' = q /\ mon' = mon /\ rt' = rt /\ log' = log
    BY DEF handleInput, handleControl, handleDelete, CommandStep, StopCheck, StopClose, StopInterrupt,
           StopKill, StopDone, DeleteKV, Environment, ClaudeRead, ClaudeOutput, ClaudeAsks,
           ClaudeEndsTurn, ClaudeExits, QuotaUpdate, UserMessage, ResetTimePasses
  <1>3. sess'.State = sess.State
    BY <1>1 DEF handleInput, handleControl, handleDelete, CommandStep, StopCheck, StopClose, StopInterrupt,
           StopKill, StopDone, DeleteKV, Environment, ClaudeRead, ClaudeOutput, ClaudeAsks,
           ClaudeEndsTurn, ClaudeExits, QuotaUpdate, UserMessage, ResetTimePasses, SessionType
  <1> QED
    BY <1>2, <1>3, OthersQuiet DEF SameCounts

\* In every reachable state marks, prompts, nudges and interrupts are paired
\* with the pauses and breaches that call for them.
THEOREM Paired == Spec => [](TypeOK /\ StopInv)
  <1>1. TypeOK /\ StopInv /\ [Next]_vars => StopInv'
    <2>1. TypeOK /\ StopInv /\ UNCHANGED vars => StopInv'
      <3> SUFFICES ASSUME TypeOK, StopInv, UNCHANGED vars PROVE StopInv'
        OBVIOUS
      <3> QED
        BY OthersQuiet DEF vars, SameCounts
    <2> QED
      BY <2>1, StopMonitor, StopRouter, StopOthers DEF Next
  <1> QED
    BY TypeCorrect, StopInit, <1>1, PTL DEF Spec

\* A further MCLAUDE_STOP marker needs a pause that consumed the previous one.
THEOREM MarksArePaired == Spec => []OneMarkPerPause
  <1>1. TypeOK /\ StopInv => OneMarkPerPause
    <2> SUFFICES ASSUME TypeOK, StopInv PROVE OneMarkPerPause
      OBVIOUS
    <2>1. log.marks + AtMark <= log.pauses + 1 /\ AtMark \in {0, 1}
      BY DEF StopInv, MarkInv, AtMark
    <2> QED
      BY <2>1, Counters DEF OneMarkPerPause
  <1> QED
    BY Paired, <1>1, PTL

\* The prompt is sent at most once, and a pause is answered by at most one nudge.
THEOREM InputsAreSingle == Spec => []NoDuplicateInput
  <1>1. TypeOK /\ StopInv => NoDuplicateInput
    BY DEF StopInv, InputInv, NoDuplicateInput
  <1> QED
    BY Paired, <1>1, PTL

\* The unsynchronised escalations of monitor and router together send at most
\* one hard interrupt per breach.
THEOREM InterruptsAreEarned == Spec => []InterruptPerBreach
  <1>1. TypeOK /\ StopInv => InterruptPerBreach
    <2> SUFFICES ASSUME TypeOK, StopInv PROVE InterruptPerBreach
      OBVIOUS
    <2> QED
      BY Counters DEF StopInv, BreachInv, AtMark, Due, InterruptPerBreach
  <1> QED
    BY Paired, <1>1, PTL
=============================================================================
