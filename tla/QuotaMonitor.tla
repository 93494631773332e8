---------------------------- MODULE QuotaMonitor ----------------------------
(***************************************************************************)
(* A quota-managed session of the session agent: the QuotaMonitor          *)
(* goroutine (quota_monitor.go), the session's stdout router and stdin     *)
(* channel (session.go), and the agent's command goroutine, which delivers *)
(* sessions.input messages and runs handleDelete (agent.go).               *)
(*                                                                         *)
(* The monitor and the router share the monitor's fields without a lock;   *)
(* each unsynchronised read and each write is a step of its own.  A KV     *)
(* write is two steps: the snapshot under the session's mutex, then the    *)
(* put.  The Claude process and the NATS subject of quota updates are      *)
(* external; a permission request and its answer carry no id.              *)
(*                                                                         *)
(* Bounds: MaxQuota quota updates and MaxUser user messages are published; *)
(* the token counters saturate at MaxTokens; at most OutCap assistant      *)
(* events wait to be routed.                                               *)
(***************************************************************************)
EXTENDS Integers, Sequences

CONSTANTS Headroom,      \* hardHeadroomTokens
          AutoContinue,  \* autoContinue
          Policies,      \* the permission policies a session may be created with
          StdinCap,      \* capacity of stdinCh (64 in the code)
          MaxQuota, MaxUser, MaxTokens, OutCap

ASSUME ConstantsAssumption ==
    /\ Headroom \in Nat /\ StdinCap \in Nat \ {0}
    /\ AutoContinue \in BOOLEAN
    /\ Policies \subseteq {"managed", "auto", "allowlist", "strict-allowlist"}
    /\ MaxQuota \in Nat /\ MaxUser \in Nat /\ OutCap \in Nat
    /\ MaxTokens \in Nat /\ Headroom <= MaxTokens

VARIABLES
    sess,    \* Session.state: State, PausedVia, ResumeAt, usage.OutputTokens, whether
             \* PendingControls has a request left to the user; permPolicy
    kv,      \* State of the session's KV entry, or "absent"
    q,       \* fields of QuotaMonitor
    mon,     \* monitor goroutine: control point, continuation, KV snapshot
    ch,      \* its channels: quotaCh, permDeniedCh, turnEndedCh, stopCh
    rt,      \* stdout router: control point, event at hand, KV snapshot
    cl,      \* the Claude process and its unread stdout
    stdin,   \* stdinCh
    inputs,  \* sessions.input messages on their way to the agent
    cmd,     \* command goroutine: "serve" or a control point of handleDelete
    env,     \* quota updates and user messages that may still be published
    log,     \* history: messages and lifecycle events published, updates below
             \* the threshold consumed, turn ends signalled
    panicked \* the agent process died of a Go panic

vars == <<sess, kv, q, mon, ch, rt, cl, stdin, inputs, cmd, env, log, panicked>>

States == {"pending", "idle", "running", "requires_action", "paused",
           "completed", "needs_spec_fix", "failed"}
StopReasons == {"", "quota_soft", "quota_hard", "permDenied"}
QuotaStop == {"quota_soft", "quota_hard"}
Messages == {"prompt", "nudge", "stop", "user"}
Lines == Messages \cup {"interrupt", "approve", "deny"}
\* U5 against softThreshold, with R5 (read for autoContinue sessions only); an
\* update without data has neither.
Updates == [u5 : {"low", "high"}, r5 : IF AutoContinue THEN {"zero", "future"} ELSE {"zero"}]
           \cup [u5 : {"nodata"}, r5 : {"zero"}]
Tokens == 0 .. MaxTokens
Events == [type : {"init", "running", "idle", "requires_action", "assistant",
                   "control_request", "result"},
           tokens : Tokens]

Sat(n) == IF n > MaxTokens THEN MaxTokens ELSE n

SessionType == [State : States, PausedVia : {"", "quota_soft", "quota_hard"},
                ResumeAt : {"none", "future", "past"}, usage : Tokens,
                pending : BOOLEAN, policy : Policies]
FieldsType  == [stopReason : StopReasons, atMark : Tokens, since : Tokens,
                terminal : BOOLEAN, r5 : {"zero", "future"}]
MonitorType == [pc : {"loop", "select", "mark", "setRunning", "turnEnd", "write",
                      "reset", "exit", "close", "done"},
                next : {"loop", "reset", "exit", "close"}, exiting : BOOLEAN, snap : States]
ChannelType == [quota : Seq(Updates), perm : BOOLEAN, ended : BOOLEAN, stop : BOOLEAN]
RouterType  == [pc : {"read", "escalate", "signal", "side", "write", "approve", "deny",
                      "approved", "denied", "done"},
                ev : Events, snap : States]
ClaudeType  == [life : {"up", "dead"}, turn : {"none", "work", "ask"}, tokens : Tokens,
                out : Seq(Events)]
CommandType == {"serve", "stopCheck", "stopClose", "stop", "wait", "kvDelete", "deleted"}
EnvType     == [quota : 0 .. MaxQuota, user : 0 .. MaxUser]
LogType     == [marks : Nat, interrupts : Nat, prompts : Nat, nudges : Nat,
                pauses : Nat, low : BOOLEAN, failed : BOOLEAN, ended : BOOLEAN]

TypeOK ==
    /\ sess \in SessionType /\ kv \in States \cup {"absent"}
    /\ q \in FieldsType /\ mon \in MonitorType /\ ch \in ChannelType
    /\ rt \in RouterType /\ cl \in ClaudeType
    /\ stdin \in Seq(Lines) /\ inputs \in Seq(Messages)
    /\ cmd \in CommandType /\ env \in EnvType /\ log \in LogType
    /\ panicked \in BOOLEAN

Ev(type, n) == [type |-> type, tokens |-> n]

\* The goroutines between two iterations: nothing at hand.
MonitorIdle == [pc |-> "loop", next |-> "loop", exiting |-> FALSE, snap |-> "pending"]
RouterIdle == [pc |-> "read", ev |-> Ev("init", 0), snap |-> "pending"]

\* handleCreate has written the KV entry ("pending"), created the monitor and
\* started the process, whose first event is init.
Init ==
    /\ \E p \in Policies :
          sess = [State |-> "pending", PausedVia |-> "", ResumeAt |-> "none", usage |-> 0,
                  pending |-> FALSE, policy |-> p]
    /\ kv = "pending"
    /\ q = [stopReason |-> "", atMark |-> 0, since |-> 0, terminal |-> FALSE, r5 |-> "zero"]
    /\ mon = MonitorIdle
    /\ ch = [quota |-> << >>, perm |-> FALSE, ended |-> FALSE, stop |-> FALSE]
    /\ rt = RouterIdle
    /\ cl = [life |-> "up", turn |-> "none", tokens |-> 0,
             out |-> <<Ev("init", 0), Ev("idle", 0)>>]
    /\ stdin = << >> /\ inputs = << >>
    /\ cmd = "serve"
    /\ env = [quota |-> MaxQuota, user |-> MaxUser]
    /\ log = [marks |-> 0, interrupts |-> 0, prompts |-> 0, nudges |-> 0,
              pauses |-> 0, low |-> FALSE, failed |-> FALSE, ended |-> FALSE]
    /\ panicked = FALSE

\* The Claude process after a turn, and after its exit (stdout stays readable).
TurnOver == [cl EXCEPT !.turn = "none", !.tokens = 0]
ProcessGone == [TurnOver EXCEPT !.life = "dead"]

-----------------------------------------------------------------------------
(* Sending on stdinCh                                                      *)

\* The non-blocking send of an interrupt: dropped when stdinCh is full.
sendHardInterrupt ==
    stdin' = IF Len(stdin) < StdinCap THEN Append(stdin, "interrupt") ELSE stdin

-----------------------------------------------------------------------------
(* The monitor goroutine: QuotaMonitor.run                                 *)

Alive == ~panicked
At(pc) == Alive /\ mon.pc = pc
Goto(pc) == mon' = [mon EXCEPT !.pc = pc]

\* Set the session's fields and take the KV snapshot under session.mu, then put.
SetAndWrite(new, next) ==
    /\ sess' = new
    /\ mon' = [mon EXCEPT !.pc = "write", !.next = next, !.snap = new.State]

\* After handleTurnEnd: the next iteration, or handleSubprocessExit.
AfterTurn == IF mon.exiting THEN "exit" ELSE "loop"

\* The non-blocking receive from turnEndedCh at the top of the loop.
PriorityCheck ==
    /\ At("loop")
    /\ Goto(IF ch.ended THEN "turnEnd" ELSE "select")
    /\ ch' = [ch EXCEPT !.ended = FALSE]
    /\ UNCHANGED <<sess, kv, q, rt, cl, stdin, inputs, cmd, env, log, panicked>>

SelectStop ==
    /\ At("select") /\ ch.stop
    /\ Goto("done")
    /\ UNCHANGED <<sess, kv, q, ch, rt, cl, stdin, inputs, cmd, env, log, panicked>>

SelectPermDenied ==
    /\ At("select") /\ ch.perm
    /\ ch' = [ch EXCEPT !.perm = FALSE]
    /\ IF q.stopReason = ""
       THEN /\ q' = [q EXCEPT !.stopReason = "permDenied"]
            /\ SetAndWrite([sess EXCEPT !.State = "needs_spec_fix"], "loop")
       ELSE Goto("loop") /\ UNCHANGED <<q, sess>>
    /\ UNCHANGED <<kv, rt, cl, stdin, inputs, cmd, env, log, panicked>>

\* A quota update that breaches the soft threshold sets stopReason; the mark
\* and the MCLAUDE_STOP message follow (SoftMark).
BreachMutant(u) == u.u5 = "high"
Breach(u) == u.u5 = "high" /\ q.stopReason = ""

\* The session may be nudged: an autoContinue session waits for resumeAt.
MayResume == sess.State = "paused" /\ ~(AutoContinue /\ sess.ResumeAt = "future")

\* One quota update: soft stop, initial prompt, resume nudge, or nothing.
SelectQuota ==
    LET u == Head(ch.quota) IN
    /\ At("select") /\ ch.quota # << >>
    /\ ch' = [ch EXCEPT !.quota = Tail(@)]
    /\ q' = [q EXCEPT !.r5 = u.r5, !.stopReason = IF Breach(u) THEN "quota_soft" ELSE @]
    /\ \/ /\ Breach(u)
          /\ Goto("mark")
          /\ UNCHANGED <<inputs, log>>
       \/ /\ u.u5 = "low" /\ sess.State = "pending"
          /\ Goto("setRunning")
          /\ inputs' = Append(inputs, "prompt")
          /\ log' = [log EXCEPT !.prompts = @ + 1, !.low = TRUE]
       \/ /\ u.u5 = "low" /\ MayResume
          /\ Goto("setRunning")
          /\ inputs' = Append(inputs, "nudge")
          /\ log' = [log EXCEPT !.nudges = @ + 1, !.low = TRUE]
       \/ /\ ~Breach(u) /\ ~(u.u5 = "low" /\ (sess.State = "pending" \/ MayResume))
          /\ Goto("loop")
          /\ log' = [log EXCEPT !.low = @ \/ u.u5 = "low"]
          /\ UNCHANGED inputs
    /\ UNCHANGED <<sess, kv, rt, cl, stdin, cmd, env, panicked>>

\* A plausible slip: the snapshot is put, the session itself keeps its state.
SetRunningMutant ==
    /\ At("setRunning")
    /\ mon' = [mon EXCEPT !.pc = "write", !.next = "loop", !.snap = "running"]
    /\ UNCHANGED <<sess, kv, q, ch, rt, cl, stdin, inputs, cmd, env, log, panicked>>

\* The state is set to running after the message was published; a nudge also
\* clears PausedVia and ResumeAt (for a prompt they are still empty).
SetRunning ==
    /\ At("setRunning")
    /\ SetAndWrite([sess EXCEPT !.State = "running", !.PausedVia = "", !.ResumeAt = "none"], "loop")
    /\ UNCHANGED <<kv, q, ch, rt, cl, stdin, inputs, cmd, env, log, panicked>>

\* A plausible slip: the hard stop is recorded but the interrupt is not sent.
SoftMarkMutant ==
    /\ At("mark")
    /\ q' = [q EXCEPT !.stopReason = "quota_hard"]
    /\ inputs' = Append(inputs, "stop")
    /\ log' = [log EXCEPT !.marks = @ + 1]
    /\ Goto("loop")
    /\ UNCHANGED <<sess, kv, ch, rt, cl, stdin, cmd, env, panicked>>

\* The token mark, sendGracefulStop, and the immediate hard stop without headroom.
SoftMark ==
    /\ At("mark")
    /\ q' = [q EXCEPT !.atMark = sess.usage, !.since = 0,
                      !.stopReason = IF Headroom = 0 THEN "quota_hard" ELSE @]
    /\ inputs' = Append(inputs, "stop")
    /\ IF Headroom = 0 THEN sendHardInterrupt ELSE UNCHANGED stdin
    /\ log' = [log EXCEPT !.marks = @ + 1,
                          !.interrupts = IF Headroom = 0 THEN @ + 1 ELSE @]
    /\ Goto("loop")
    /\ UNCHANGED <<sess, kv, ch, rt, cl, cmd, env, panicked>>

SelectTurnEnded ==
    /\ At("select") /\ ch.ended
    /\ ch' = [ch EXCEPT !.ended = FALSE]
    /\ Goto("turnEnd")
    /\ UNCHANGED <<sess, kv, q, rt, cl, stdin, inputs, cmd, env, log, panicked>>

\* session.doneCh is closed; turnEndedCh is looked at once more before
\* handleSubprocessExit.
SelectDoneMutant ==
    /\ At("select") /\ rt.pc = "done"
    /\ mon' = [mon EXCEPT !.exiting = TRUE, !.pc = "exit"]
    /\ UNCHANGED <<sess, kv, q, ch, rt, cl, stdin, inputs, cmd, env, log, panicked>>

SelectDone ==
    /\ At("select") /\ rt.pc = "done"
    /\ mon' = [mon EXCEPT !.exiting = TRUE, !.pc = IF ch.ended THEN "turnEnd" ELSE "exit"]
    /\ ch' = [ch EXCEPT !.ended = FALSE]
    /\ UNCHANGED <<sess, kv, q, rt, cl, stdin, inputs, cmd, env, log, panicked>>

handleTurnEndMutant ==
    /\ At("turnEnd")
    /\ q' = [q EXCEPT !.terminal = TRUE]
    /\ IF q.stopReason # ""
       THEN /\ SetAndWrite([sess EXCEPT !.State = "paused", !.PausedVia = q.stopReason], "reset")
            /\ log' = [log EXCEPT !.pauses = @ + 1]
       ELSE SetAndWrite([sess EXCEPT !.State = "completed"], AfterTurn) /\ UNCHANGED log
    /\ UNCHANGED <<kv, ch, rt, cl, stdin, inputs, cmd, env, panicked>>

\* handleTurnEnd up to the KV snapshot: a pause under a quota stop, completion
\* without a stop reason, nothing after a denied permission.
handleTurnEnd ==
    /\ At("turnEnd")
    /\ q' = [q EXCEPT !.terminal = TRUE]
    /\ \/ /\ q.stopReason \in QuotaStop
          /\ SetAndWrite([sess EXCEPT !.State = "paused", !.PausedVia = q.stopReason,
                            !.ResumeAt = IF AutoContinue /\ q.r5 # "zero" THEN q.r5 ELSE @],
                         "reset")
          /\ log' = [log EXCEPT !.pauses = @ + 1]
       \/ /\ q.stopReason = ""
          /\ SetAndWrite([sess EXCEPT !.State = "completed"], AfterTurn)
          /\ UNCHANGED log
       \/ /\ q.stopReason = "permDenied"
          /\ Goto(AfterTurn)
          /\ UNCHANGED <<sess, log>>
    /\ UNCHANGED <<kv, ch, rt, cl, stdin, inputs, cmd, env, panicked>>

\* writeKV with the snapshot.
MonitorWriteKV ==
    /\ At("write")
    /\ kv' = mon.snap
    /\ mon' = [MonitorIdle EXCEPT !.pc = mon.next, !.exiting = mon.exiting]
    /\ UNCHANGED <<sess, q, ch, rt, cl, stdin, inputs, cmd, env, log, panicked>>

\* "Reset for next turn."
ResetStop ==
    /\ At("reset")
    /\ q' = [q EXCEPT !.stopReason = "", !.since = 0]
    /\ Goto(AfterTurn)
    /\ UNCHANGED <<sess, kv, ch, rt, cl, stdin, inputs, cmd, env, log, panicked>>

handleSubprocessExit ==
    /\ At("exit")
    /\ IF q.terminal
       THEN Goto("close") /\ UNCHANGED <<sess, log>>
       ELSE /\ SetAndWrite([sess EXCEPT !.State = "failed"], "close")
            /\ log' = [log EXCEPT !.failed = TRUE]
    /\ UNCHANGED <<kv, q, ch, rt, cl, stdin, inputs, cmd, env, panicked>>

\* close(m.stopCh) at the end of run.
CloseStopCh ==
    /\ At("close")
    /\ Goto("done")
    /\ ch' = [ch EXCEPT !.stop = TRUE]
    /\ panicked' = ch.stop
    /\ UNCHANGED <<sess, kv, q, rt, cl, stdin, inputs, cmd, env, log>>

MonitorStep ==
    \/ PriorityCheck \/ SelectStop \/ SelectPermDenied \/ SelectQuota \/ SetRunning
    \/ SoftMark \/ SelectTurnEnded \/ SelectDone \/ handleTurnEnd \/ MonitorWriteKV
    \/ ResetStop \/ handleSubprocessExit \/ CloseStopCh

-----------------------------------------------------------------------------
(* The stdout router: onRawOutput and handleSideEffect per event           *)

RouterAt(pc) == Alive /\ rt.pc = pc
RGoto(pc) == rt' = IF pc = "read" THEN RouterIdle ELSE [rt EXCEPT !.pc = pc]

\* onRawOutput up to the hard-budget test; the token count is the estimate for
\* an assistant event and the turn's usage for a result event.
SinceMark(ev) ==
    IF ev.type = "assistant" THEN Sat(q.since + 1)
    ELSE IF ev.tokens = 0 THEN q.since
    ELSE IF ev.tokens < q.atMark THEN 0 ELSE ev.tokens - q.atMark

OverBudgetMutant(ev) ==
    q.stopReason \in QuotaStop /\ Headroom > 0 /\ SinceMark(ev) >= Headroom
OverBudget(ev) ==
    q.stopReason = "quota_soft" /\ Headroom > 0 /\ SinceMark(ev) >= Headroom

AfterBudget(ev) == IF ev.type = "result" THEN "signal" ELSE "read"

\* Take the next event: count tokens, or apply a state change of the CLI.
RouteEvent ==
    LET ev == Head(cl.out) IN
    /\ RouterAt("read") /\ cl.out # << >>
    /\ cl' = [cl EXCEPT !.out = Tail(@)]
    /\ \/ /\ ev.type \in {"assistant", "result"}
          /\ q' = IF q.stopReason \in QuotaStop THEN [q EXCEPT !.since = SinceMark(ev)] ELSE q
          /\ rt' = IF OverBudget(ev) THEN [rt EXCEPT !.pc = "escalate", !.ev = ev]
                   ELSE IF ev.type = "result" THEN [rt EXCEPT !.pc = "signal", !.ev = ev]
                   ELSE RouterIdle
          /\ UNCHANGED sess
       \/ /\ ev.type \in {"init", "idle", "running", "requires_action"}
          /\ sess' = [sess EXCEPT !.State = IF ev.type = "init" THEN "idle" ELSE ev.type]
          /\ rt' = [rt EXCEPT !.ev = ev, !.pc = "write", !.snap = sess'.State]
          /\ UNCHANGED q
       \/ /\ ev.type = "control_request"
          /\ rt' = [rt EXCEPT !.ev = ev, !.pc = "write", !.snap = sess.State]
          /\ UNCHANGED <<q, sess>>
    /\ UNCHANGED <<kv, mon, ch, stdin, inputs, cmd, env, log, panicked>>

\* The budget is used up: stopReason = "quota_hard" and the interrupt.
Escalate ==
    /\ RouterAt("escalate")
    /\ q' = [q EXCEPT !.stopReason = "quota_hard"]
    /\ sendHardInterrupt
    /\ log' = [log EXCEPT !.interrupts = @ + 1]
    /\ RGoto(AfterBudget(rt.ev))
    /\ UNCHANGED <<sess, kv, mon, ch, cl, inputs, cmd, env, panicked>>

\* The non-blocking send on turnEndedCh.
SignalTurnEnd ==
    /\ RouterAt("signal")
    /\ ch' = [ch EXCEPT !.ended = TRUE]
    /\ log' = [log EXCEPT !.ended = TRUE]
    /\ RGoto("side")
    /\ UNCHANGED <<sess, kv, q, mon, cl, stdin, inputs, cmd, env, panicked>>

\* handleSideEffect of a result event: accumulateUsage, then flushKV.
ResultSideEffect ==
    /\ RouterAt("side")
    /\ sess' = [sess EXCEPT !.usage = Sat(@ + rt.ev.tokens)]
    /\ rt' = [rt EXCEPT !.pc = "write", !.snap = sess.State]
    /\ UNCHANGED <<kv, q, mon, ch, cl, stdin, inputs, cmd, env, log, panicked>>

\* shouldAutoApprove and the test for strict-allowlist, for some tool: the request
\* is approved, denied, or left to the user.
Verdicts ==
    {v \in {"approve", "deny", "read"} :
        CASE v = "approve" -> sess.policy # "managed"
          [] v = "deny"    -> sess.policy = "strict-allowlist"
          [] v = "read"    -> sess.policy \in {"managed", "allowlist"}}

\* The put of flushKV; a control request is then judged.
RouterWriteKV ==
    /\ RouterAt("write")
    /\ kv' = rt.snap
    /\ \/ rt.ev.type # "control_request" /\ RGoto("read") /\ UNCHANGED sess
       \/ /\ rt.ev.type = "control_request"
          /\ \E v \in Verdicts :
                RGoto(v) /\ sess' = [sess EXCEPT !.pending = @ \/ v = "read"]
    /\ UNCHANGED <<q, mon, ch, cl, stdin, inputs, cmd, env, log, panicked>>

\* The automatic answer: a blocking send on stdinCh, then the snapshot of
\* clearPendingControl.
AutoAnswer ==
    /\ Alive /\ rt.pc \in {"approve", "deny"} /\ Len(stdin) < StdinCap
    /\ stdin' = Append(stdin, rt.pc)
    /\ rt' = [rt EXCEPT !.pc = IF @ = "deny" THEN "denied" ELSE "approved", !.snap = sess.State]
    /\ UNCHANGED <<sess, kv, q, mon, ch, cl, inputs, cmd, env, log, panicked>>

\* The put of clearPendingControl; after a denial onStrictDeny with its
\* non-blocking send on permDeniedCh.
AnswerWriteKV ==
    /\ Alive /\ rt.pc \in {"approved", "denied"}
    /\ kv' = rt.snap
    /\ ch' = [ch EXCEPT !.perm = @ \/ rt.pc = "denied"]
    /\ RGoto("read")
    /\ UNCHANGED <<sess, q, mon, cl, stdin, inputs, cmd, env, log, panicked>>

\* stdout is closed and drained: doneCh is closed.
RouterDone ==
    /\ RouterAt("read") /\ cl.life = "dead" /\ cl.out = << >>
    /\ RGoto("done")
    /\ UNCHANGED <<sess, kv, q, mon, ch, cl, stdin, inputs, cmd, env, log, panicked>>

RouterStep ==
    \/ RouteEvent \/ Escalate \/ SignalTurnEnd \/ ResultSideEffect \/ RouterWriteKV
    \/ AutoAnswer \/ AnswerWriteKV \/ RouterDone

-----------------------------------------------------------------------------
(* The command goroutine: handleInput, handleControl and handleDelete      *)

\* A message reaches stdinCh (a blocking send); without a session it is dropped.
handleInput ==
    /\ Alive /\ inputs # << >>
    /\ \/ /\ cmd = "serve" /\ Len(stdin) < StdinCap
          /\ stdin' = Append(stdin, Head(inputs))
       \/ cmd = "deleted" /\ UNCHANGED stdin
    /\ inputs' = Tail(inputs)
    /\ UNCHANGED <<sess, kv, q, mon, ch, rt, cl, cmd, env, log, panicked>>

\* A user's answer to a pending request, whatever it says an approval; the KV
\* write is one step here.
handleControl ==
    /\ Alive /\ cmd = "serve" /\ sess.pending /\ Len(stdin) < StdinCap
    /\ sess' = [sess EXCEPT !.pending = FALSE]
    /\ kv' = sess.State
    /\ stdin' = Append(stdin, "approve")
    /\ UNCHANGED <<q, mon, ch, rt, cl, inputs, cmd, env, log, panicked>>

handleDelete ==
    /\ Alive /\ cmd = "serve"
    /\ cmd' = "stopCheck"
    /\ UNCHANGED <<sess, kv, q, mon, ch, rt, cl, stdin, inputs, env, log, panicked>>

\* monitor.stop: the check and the close are separate steps.
StopCheck ==
    /\ Alive /\ cmd = "stopCheck"
    /\ cmd' = IF ch.stop THEN "stop" ELSE "stopClose"
    /\ UNCHANGED <<sess, kv, q, mon, ch, rt, cl, stdin, inputs, env, log, panicked>>

StopClose ==
    /\ Alive /\ cmd = "stopClose"
    /\ cmd' = "stop"
    /\ ch' = [ch EXCEPT !.stop = TRUE]
    /\ panicked' = ch.stop
    /\ UNCHANGED <<sess, kv, q, mon, rt, cl, stdin, inputs, env, log>>

\* stopAndWait: interrupt, wait for doneCh, kill after sessionDeleteTimeout.
StopInterrupt ==
    /\ Alive /\ cmd = "stop"
    /\ cmd' = "wait"
    /\ sendHardInterrupt
    /\ UNCHANGED <<sess, kv, q, mon, ch, rt, cl, inputs, env, log, panicked>>

StopKill ==
    /\ Alive /\ cmd = "wait" /\ cl.life = "up"
    /\ cl' = ProcessGone
    /\ UNCHANGED <<sess, kv, q, mon, ch, rt, stdin, inputs, cmd, env, log, panicked>>

StopDone ==
    /\ Alive /\ cmd = "wait" /\ rt.pc = "done"
    /\ cmd' = "kvDelete"
    /\ UNCHANGED <<sess, kv, q, mon, ch, rt, cl, stdin, inputs, env, log, panicked>>

\* The KV entry is deleted and session_job_cancelled published.
DeleteKV ==
    /\ Alive /\ cmd = "kvDelete"
    /\ kv' = "absent"
    /\ cmd' = "deleted"
    /\ UNCHANGED <<sess, q, mon, ch, rt, cl, stdin, inputs, env, log, panicked>>

CommandStep == StopCheck \/ StopClose \/ StopInterrupt \/ StopKill \/ StopDone \/ DeleteKV

-----------------------------------------------------------------------------
(* External: the Claude process, the quota publisher, users, time          *)

Emit(new, evs) == cl' = [new EXCEPT !.out = @ \o evs]

\* Claude reads a line: a message starts a turn or joins the running one; an
\* interrupt ends the turn; the answer to a request lets the turn go on.  Lines to
\* a dead process are taken from stdinCh too and lost.
ClaudeRead ==
    LET line == Head(stdin) IN
    /\ stdin # << >>
    /\ stdin' = Tail(stdin)
    /\ \/ cl.life = "dead" /\ UNCHANGED cl
       \/ /\ cl.life = "up" /\ line \in Messages /\ cl.turn = "none"
          /\ Emit([cl EXCEPT !.turn = "work", !.tokens = 0], <<Ev("running", 0)>>)
       \/ /\ line = "interrupt" /\ cl.turn # "none"
          /\ Emit(TurnOver,
                  <<Ev("idle", 0), Ev("result", cl.tokens)>>)
       \/ /\ line \in {"approve", "deny"} /\ cl.turn = "ask"
          /\ Emit([cl EXCEPT !.turn = "work"], <<Ev("running", 0)>>)
       \/ /\ cl.life = "up"
          /\ \/ line \in Messages /\ cl.turn # "none"
             \/ line = "interrupt" /\ cl.turn = "none"
             \/ line \in {"approve", "deny"} /\ cl.turn # "ask"
          /\ UNCHANGED cl
    /\ UNCHANGED <<sess, kv, q, mon, ch, rt, inputs, cmd, env, log, panicked>>

ClaudeOutput ==
    /\ cl.life = "up" /\ cl.turn = "work" /\ Len(cl.out) < OutCap
    /\ Emit([cl EXCEPT !.tokens = Sat(@ + 1)], <<Ev("assistant", 0)>>)
    /\ UNCHANGED <<sess, kv, q, mon, ch, rt, stdin, inputs, cmd, env, log, panicked>>

\* The permission to use a tool is requested, after the assistant message with
\* the tool use.
ClaudeAsks ==
    /\ cl.life = "up" /\ cl.turn = "work" /\ Len(cl.out) < OutCap
    /\ Emit([cl EXCEPT !.turn = "ask", !.tokens = Sat(@ + 1)],
            <<Ev("assistant", 0), Ev("control_request", 0), Ev("requires_action", 0)>>)
    /\ UNCHANGED <<sess, kv, q, mon, ch, rt, stdin, inputs, cmd, env, log, panicked>>

ClaudeEndsTurn ==
    /\ cl.life = "up" /\ cl.turn = "work"
    /\ Emit(TurnOver,
            <<Ev("idle", 0), Ev("result", cl.tokens)>>)
    /\ UNCHANGED <<sess, kv, q, mon, ch, rt, stdin, inputs, cmd, env, log, panicked>>

\* The process exits or crashes.
ClaudeExits ==
    /\ cl.life = "up"
    /\ cl' = ProcessGone
    /\ UNCHANGED <<sess, kv, q, mon, ch, rt, stdin, inputs, cmd, env, log, panicked>>

\* A quota update reaches quotaCh; the subscription ends with the monitor.
QuotaUpdate(u) ==
    /\ env.quota > 0 /\ mon.pc # "done"
    /\ env' = [env EXCEPT !.quota = @ - 1]
    /\ ch' = [ch EXCEPT !.quota = Append(@, u)]
    /\ UNCHANGED <<sess, kv, q, mon, rt, cl, stdin, inputs, cmd, log, panicked>>

UserMessage ==
    /\ env.user > 0
    /\ env' = [env EXCEPT !.user = @ - 1]
    /\ inputs' = Append(inputs, "user")
    /\ UNCHANGED <<sess, kv, q, mon, ch, rt, cl, stdin, cmd, log, panicked>>

\* The reset time recorded in ResumeAt is reached.
ResetTimePasses ==
    /\ sess.ResumeAt = "future"
    /\ sess' = [sess EXCEPT !.ResumeAt = "past"]
    /\ UNCHANGED <<kv, q, mon, ch, rt, cl, stdin, inputs, cmd, env, log, panicked>>

Environment ==
    \/ ClaudeRead \/ ClaudeOutput \/ ClaudeAsks \/ ClaudeEndsTurn \/ ClaudeExits
    \/ (\E u \in Updates : QuotaUpdate(u)) \/ UserMessage \/ ResetTimePasses

Next ==
    \/ MonitorStep \/ RouterStep \/ CommandStep \/ Environment
    \/ handleInput \/ handleControl \/ handleDelete

Spec == Init /\ [][Next]_vars

\* The goroutines are scheduled, Claude reads its stdin and keeps producing
\* output while it works.  It need not end a turn by itself, and the user need not
\* answer a request.
FairSpec ==
    /\ Spec
    /\ WF_vars(MonitorStep) /\ WF_vars(RouterStep) /\ WF_vars(handleInput)
    /\ WF_vars(CommandStep) /\ WF_vars(ClaudeRead) /\ WF_vars(ClaudeOutput)

-----------------------------------------------------------------------------
(* Properties                                                              *)

\* session_job_failed is published only when no turn of the session ended: the
\* result event that precedes the exit wins the race between turnEndedCh and
\* doneCh (the priority check and the nested select of run).
FailedOnlyWithoutTurnEnd == log.failed => ~log.ended

\* The soft marker is injected once per stop: a further marker needs a pause
\* that consumed the previous one.
OneMarkPerPause == log.marks <= log.pauses + 1

\* The prompt is delivered at most once, and every pause is answered by at most
\* one resume nudge.
NoDuplicateInput == log.prompts <= 1 /\ log.nudges <= log.pauses

\* A breach leads to at most one hard interrupt, although monitor and router
\* both escalate and share stopReason without a lock.
InterruptPerBreach ==
    log.interrupts <= log.marks + (IF mon.pc = "mark" THEN 1 ELSE 0)

\* No request waits for ever: the policy answers all of them, or the user does.
RequestsAnswered ==
    []<>(sess.policy \in {"auto", "strict-allowlist"} \/ cl.turn # "ask")

\* A quota stop takes effect: the monitor gets to pause the session even if
\* Claude ignores the marker (the hard budget), or the session is gone; but not
\* while Claude waits for a permission that nobody gives.
QuotaStopTakesEffect ==
    RequestsAnswered =>
    (q.stopReason \in QuotaStop ~> (q.stopReason \notin QuotaStop \/ mon.pc = "done" \/ panicked))

\* "u5 < softThreshold: send prompt immediately as the initial user message":
\* once an update below the threshold was consumed and no stop was injected,
\* the prompt is out.
PromptOnLowQuota == (log.low /\ log.marks = 0) => log.prompts = 1
=============================================================================
