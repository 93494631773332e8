---------------------------- MODULE GracefulUpgrade ----------------------------
(***************************************************************************)
(* The replacement of a session agent's pod (agent.go): gracefulShutdown   *)
(* of the old agent, recoverSessions and clearUpdatingState of the new     *)
(* one, with what the drain depends on: the event router's tracking of     *)
(* turns, background agents and background shells (session.go), the        *)
(* flushes of the state to KV and the two consumers of the user's stream.  *)
(* The deployment's strategy is Recreate: one agent at a time.             *)
(*                                                                         *)
(* A Session object is sess[s], the Claude process behind it claude[s],    *)
(* with the turn it is in and the work it really runs.  flushKV copies the *)
(* state and writes it in a later step; flush[s] is the copy, and a        *)
(* session's router handles its next event after the write.  A restart, or *)
(* the respawn of a crashed process, is one step here: SessionLifecycle    *)
(* has its parts.                                                          *)
(*                                                                         *)
(* Bounds: Inputs messages of users, MaxTools tool uses that matter here   *)
(* (a permission request, a background agent or shell), MaxFaults restarts *)
(* and kills together, MaxUpgrades upgrades.                               *)
(***************************************************************************)
EXTENDS Naturals, FiniteSets

CONSTANTS Sessions, Inputs, Shells, MaxTools, MaxFaults, MaxUpgrades

ASSUME UpgradeAssumption ==
    /\ MaxTools \in Nat /\ MaxFaults \in Nat /\ MaxUpgrades \in Nat
    /\ Inputs \cap Shells = {}

VARIABLES
    phase,    \* where the agent is, from "serve" through an upgrade and back
    todo,     \* sessions the loop of the phase has still to visit
    allDone,  \* the tick of the drain loop found no session busy so far
    updating, \* pendingUpdatingIDs
    sess,     \* Agent.sessions
    claude,   \* the Claude processes
    flush,    \* a state copied by flushKV and not yet written, or "none"
    kv,       \* state in the session's KV entry
    mail,     \* messages on the input subjects of the stream
    left      \* what remains of the bounds

vars == <<phase, todo, allDone, updating, sess, claude, flush, kv, mail, left>>

Turns  == {"idle", "running", "requires_action"}
States == Turns \cup {"failed", "restarting"}

NoSession  == [reg |-> FALSE, state |-> "restarting", shutdownPending |-> FALSE,
               inFlightBackgroundAgents |-> 0, pendingShells |-> {}, inFlightShells |-> {}]
NoProcess  == [proc |-> "none", turn |-> "idle", agents |-> 0, refused |-> 0,
               shells |-> {}, stdin |-> {}]
newSession == [NoSession EXCEPT !.reg = TRUE]
NewProcess == [NoProcess EXCEPT !.proc = "boot"]

Init ==
    /\ phase = "serve" /\ todo = {} /\ allDone = TRUE /\ updating = {}
    /\ sess = [s \in Sessions |-> [newSession EXCEPT !.state = "idle"]]
    /\ claude = [s \in Sessions |-> [NoProcess EXCEPT !.proc = "up"]]
    /\ flush = [s \in Sessions |-> "none"] /\ kv = [s \in Sessions |-> "idle"]
    /\ mail = [m \in Inputs \cup Shells |-> [at |-> "unsent", to |-> {}]]
    /\ left = [tools |-> MaxTools, faults |-> MaxFaults, upgrades |-> MaxUpgrades]

agentVars == <<phase, todo, allDone, updating>>
Registered == {s \in Sessions : sess[s].reg}
Alive == phase # "gone"
CmdAttached == phase \in {"serve", "mark", "clear"}
CtlAttached == phase \in {"serve", "mark", "clear", "drain", "notify"}

-----------------------------------------------------------------------------
(* The stdout router and the process behind it                             *)

\* The router is ready for an event of a process that finished its start.
Routing(s) == Alive /\ flush[s] = "none" /\ claude[s].proc = "up"

\* The init event: the state is idle, whatever it was, and flushed.
RouteInit(s) ==
    /\ Alive /\ flush[s] = "none" /\ claude[s].proc = "boot"
    /\ claude' = [claude EXCEPT ![s].proc = "up"]
    /\ sess' = [sess EXCEPT ![s].state = "idle"]
    /\ flush' = [flush EXCEPT ![s] = "idle"]
    /\ UNCHANGED <<agentVars, kv, mail, left>>

\* startupTimeout without an init event; the process may still come up.
StartupTimeout(s) ==
    /\ Alive /\ flush[s] = "none" /\ claude[s].proc = "boot" /\ sess[s].state # "failed"
    /\ sess' = [sess EXCEPT ![s].state = "failed"]
    /\ flush' = [flush EXCEPT ![s] = "failed"]
    /\ UNCHANGED <<agentVars, claude, kv, mail, left>>

\* session_state_changed is not flushed once the shutdown is pending.
RouteStateChanged(s) ==
    /\ Routing(s) /\ sess[s].state # claude[s].turn
    /\ sess' = [sess EXCEPT ![s].state = claude[s].turn]
    /\ flush' = [flush EXCEPT ![s] = IF sess[s].shutdownPending THEN "none" ELSE claude[s].turn]
    /\ UNCHANGED <<agentVars, claude, kv, mail, left>>

flushKV(s) ==
    /\ Alive /\ flush[s] # "none"
    /\ kv' = [kv EXCEPT ![s] = flush[s]]
    /\ flush' = [flush EXCEPT ![s] = "none"]
    /\ UNCHANGED <<agentVars, sess, claude, mail, left>>

\* Claude reads its input: a message starts a turn, an interrupt between turns
\* has no effect.
ClaudeReads(s) ==
    /\ Alive /\ claude[s].proc = "up" /\ claude[s].turn = "idle" /\ claude[s].stdin # {}
    /\ claude' = [claude EXCEPT
           ![s].turn = IF "input" \in claude[s].stdin THEN "running" ELSE "idle",
           ![s].stdin = {}]
    /\ UNCHANGED <<agentVars, sess, flush, kv, mail, left>>

\* The result event at the end of a turn is flushed with the state as it is.  A
\* turn that waits for a permission ends by an interrupt.
TurnEnds(s) ==
    /\ Routing(s)
    /\ \/ claude[s].turn = "running"
       \/ claude[s].turn = "requires_action" /\ "interrupt" \in claude[s].stdin
    /\ claude' = [claude EXCEPT ![s].turn = "idle", ![s].stdin = @ \ {"interrupt"}]
    /\ flush' = [flush EXCEPT ![s] = sess[s].state]
    /\ UNCHANGED <<agentVars, sess, kv, mail, left>>

UsesTool(s) ==
    /\ Routing(s) /\ claude[s].turn = "running" /\ left.tools > 0
    /\ left' = [left EXCEPT !.tools = @ - 1]

\* A control_request that the permission policy does not answer is flushed.
AsksPermission(s) ==
    /\ UsesTool(s)
    /\ claude' = [claude EXCEPT ![s].turn = "requires_action"]
    /\ flush' = [flush EXCEPT ![s] = sess[s].state]
    /\ UNCHANGED <<agentVars, sess, kv, mail>>

\* updateInFlightBackgroundAgents counts the tool use; whether an agent then
\* runs (the call may be denied, interrupted or invalid) is not looked at.
LaunchAgent(s) ==
    /\ UsesTool(s)
    /\ sess' = [sess EXCEPT ![s].inFlightBackgroundAgents = @ + 1]
    /\ claude' \in {[claude EXCEPT ![s].agents = @ + 1], [claude EXCEPT ![s].refused = @ + 1]}
    /\ UNCHANGED <<agentVars, flush, kv, mail>>

\* updateInFlightShells, first phase: the tool use is remembered ...
LaunchShell(s, b) ==
    /\ UsesTool(s) /\ \A u \in Sessions : b \notin claude[u].shells \cup sess[u].pendingShells
    /\ mail[b].at = "unsent"
    /\ sess' = [sess EXCEPT ![s].pendingShells = @ \cup {b}]
    /\ claude' = [claude EXCEPT ![s].shells = @ \cup {b}]
    /\ UNCHANGED <<agentVars, flush, kv, mail>>

\* ... second phase: its result tells whether it went to the background.
ShellResult(s, b) ==
    /\ Routing(s) /\ b \in sess[s].pendingShells
    /\ \E inBackground \in BOOLEAN :
          /\ sess' = [sess EXCEPT ![s].pendingShells = @ \ {b},
                        ![s].inFlightShells = IF inBackground THEN @ \cup {b} ELSE @]
          /\ claude' = [claude EXCEPT ![s].shells = IF inBackground THEN @ ELSE @ \ {b}]
    /\ UNCHANGED <<agentVars, flush, kv, mail, left>>

\* A slip: the counter only ever grows.
NotificationMutant(s, shells) ==
    [sess EXCEPT ![s].inFlightShells = @ \ shells]

\* A slip: the counter is not kept from falling below zero.
NotificationNoFloor(s, shells) ==
    [sess EXCEPT ![s].inFlightShells = @ \ shells, ![s].inFlightBackgroundAgents = @ - 1]

\* What the router makes of a task-notification: the shell it names is over,
\* and one background agent less, whether or not it was about an agent.
Notification(s, shells) ==
    [sess EXCEPT ![s].inFlightShells = @ \ shells,
                 ![s].inFlightBackgroundAgents = IF @ > 0 THEN @ - 1 ELSE 0]

\* The end of background work: Claude takes the notification as a turn's input.
AgentEnds(s) ==
    /\ Routing(s) /\ claude[s].agents > 0
    /\ sess' = Notification(s, {})
    /\ claude' = [claude EXCEPT ![s].agents = @ - 1,
                                ![s].turn = IF @ = "idle" THEN "running" ELSE @]
    /\ UNCHANGED <<agentVars, flush, kv, mail, left>>

ShellEnds(s, b) ==
    /\ Routing(s) /\ b \in sess[s].inFlightShells
    /\ sess' = Notification(s, {b})
    /\ claude' = [claude EXCEPT ![s].shells = @ \ {b},
                                ![s].turn = IF @ = "idle" THEN "running" ELSE @]
    /\ UNCHANGED <<agentVars, flush, kv, mail, left>>

RouterStep(s) ==
    \/ RouteInit(s) \/ StartupTimeout(s) \/ RouteStateChanged(s) \/ flushKV(s)
    \/ ClaudeReads(s) \/ TurnEnds(s) \/ AsksPermission(s) \/ LaunchAgent(s) \/ AgentEnds(s)
    \/ \E b \in Shells : LaunchShell(s, b) \/ ShellResult(s, b) \/ ShellEnds(s, b)

-----------------------------------------------------------------------------
(* The stream and its consumers                                            *)

\* Only a consumer that exists when a message is published will deliver it: both
\* are created with DeliverNewPolicy.
Published(m, s) == [at |-> IF CmdAttached THEN "due" ELSE "passed", to |-> {s}]

PublishInput(m, s) ==
    /\ mail[m].at = "unsent"
    /\ mail' = [mail EXCEPT ![m] = Published(m, s)]
    /\ UNCHANGED <<agentVars, sess, claude, flush, kv, left>>

\* handleInput: the message goes to the session's process, if there is one.
handleInput(m) ==
    /\ CmdAttached /\ mail[m].at = "due"
    /\ mail' = [mail EXCEPT ![m].at = "handled"]
    /\ claude' = [s \in Sessions |->
           IF s \in mail[m].to /\ sess[s].reg /\ claude[s].proc # "none"
           THEN [claude[s] EXCEPT !.stdin = @ \cup {"input"}] ELSE claude[s]]
    /\ UNCHANGED <<agentVars, sess, flush, kv, left>>

\* handleControl: a permission is granted; the state is flushed.
ControlResponse(s) ==
    /\ CtlAttached /\ sess[s].reg /\ claude[s].turn = "requires_action" /\ flush[s] = "none"
    /\ claude' = [claude EXCEPT ![s].turn = "running"]
    /\ flush' = [flush EXCEPT ![s] = sess[s].state]
    /\ UNCHANGED <<agentVars, sess, kv, mail, left>>

Interrupted(S) == [s \in Sessions |->
    IF s \in S /\ claude[s].proc # "none"
    THEN [claude[s] EXCEPT !.stdin = @ \cup {"interrupt"}] ELSE claude[s]]

\* A user's interrupt goes to every session of the project.
ControlInterrupt ==
    /\ CtlAttached /\ \E s \in Registered : claude[s].turn # "idle"
    /\ claude' = Interrupted(Registered)
    /\ UNCHANGED <<agentVars, sess, flush, kv, mail, left>>

\* handleRestart, or the crash watcher: a new Session, which knows nothing of the
\* shutdown, or none if the resume fails and the old object stays.
Replace(s) ==
    /\ CtlAttached /\ sess[s].reg /\ left.faults > 0
    /\ left' = [left EXCEPT !.faults = @ - 1]
    /\ kv' = [kv EXCEPT ![s] = "restarting"]
    /\ flush' = [flush EXCEPT ![s] = "none"]
    /\ \/ /\ sess' = [sess EXCEPT ![s] = newSession]
          /\ claude' = [claude EXCEPT ![s] = NewProcess]
       \/ claude' = [claude EXCEPT ![s] = NoProcess] /\ UNCHANGED sess
    /\ UNCHANGED <<agentVars, mail>>

-----------------------------------------------------------------------------
(* gracefulShutdown                                                        *)

Enter(p, S) == phase' = p /\ todo' = S
Visit(s) == s \in todo /\ todo' = todo \ {s} /\ UNCHANGED phase

SIGTERM ==
    /\ phase = "serve" /\ left.upgrades > 0
    /\ Enter("mark", Registered)
    /\ left' = [left EXCEPT !.upgrades = @ - 1]
    /\ UNCHANGED <<allDone, updating, sess, claude, flush, kv, mail>>

\* Step 1: the banner.  The state in memory goes on tracking the process.
MarkUpdating(s) ==
    /\ phase = "mark" /\ Visit(s)
    /\ sess' = [sess EXCEPT ![s].shutdownPending = TRUE]
    /\ kv' = [kv EXCEPT ![s] = "updating"]
    /\ UNCHANGED <<allDone, updating, claude, flush, mail, left>>

PassOver == [m \in DOMAIN mail |-> [mail[m] EXCEPT !.at = IF @ = "due" THEN "passed" ELSE @]]

\* Step 2: the command consumer is stopped; the first tick begins.
StopCommands ==
    /\ phase = "mark" /\ todo = {}
    /\ Enter("drain", Registered) /\ allDone' = TRUE
    /\ mail' = PassOver
    /\ UNCHANGED <<updating, sess, claude, flush, kv, left>>

\* A slip: a session that waits for a permission is left alone.
TickMutant(s) ==
    /\ phase = "drain" /\ Visit(s)
    /\ allDone' = (allDone /\ sess[s].state = "idle" /\ sess[s].inFlightBackgroundAgents = 0)
    /\ UNCHANGED <<updating, sess, claude, flush, kv, mail, left>>

\* Steps 4 and 5: one session of a tick.
Tick(s) ==
    /\ phase = "drain" /\ Visit(s)
    /\ allDone' = (allDone /\ sess[s].state = "idle" /\ sess[s].inFlightBackgroundAgents = 0)
    /\ IF sess[s].state = "requires_action" THEN claude' = Interrupted({s})
       ELSE UNCHANGED claude
    /\ UNCHANGED <<updating, sess, flush, kv, mail, left>>

TickEnd ==
    /\ phase = "drain" /\ todo = {}
    /\ Enter(IF allDone THEN "notify" ELSE "drain", Registered) /\ allDone' = TRUE
    /\ UNCHANGED <<updating, sess, claude, flush, kv, mail, left>>

\* Step 6: a message for every background shell that will die.
publishShellKilledNotifications(s) ==
    /\ phase = "notify" /\ Visit(s)
    /\ mail' = [m \in DOMAIN mail |->
           IF m \in sess[s].inFlightShells THEN Published(m, s) ELSE mail[m]]
    /\ UNCHANGED <<allDone, updating, sess, claude, flush, kv, left>>

\* The agent is gone, and the Claude processes with it.
Gone ==
    /\ Enter("gone", {}) /\ allDone' = TRUE /\ updating' = {}
    /\ sess' = [s \in Sessions |-> NoSession]
    /\ claude' = [s \in Sessions |-> NoProcess]
    /\ flush' = [s \in Sessions |-> "none"]
    /\ mail' = PassOver
    /\ UNCHANGED kv

\* Steps 7 to 9: the control consumer is stopped and the process exits.
Exit == phase = "notify" /\ todo = {} /\ Gone /\ UNCHANGED left

\* The kill at the end of the grace period, or any other death.
Killed ==
    /\ Alive /\ left.faults > 0 /\ Gone
    /\ left' = [left EXCEPT !.faults = @ - 1]

-----------------------------------------------------------------------------
(* The replacement                                                         *)

StartReplacement ==
    /\ phase = "gone" /\ Enter("recover", Sessions)
    /\ UNCHANGED <<allDone, updating, sess, claude, flush, kv, mail, left>>

\* An entry that is "updating" is left as it is; the start may fail.
RecoverSession(s) ==
    /\ phase = "recover" /\ Visit(s)
    /\ IF kv[s] = "updating" THEN updating' = updating \cup {s} /\ UNCHANGED kv
       ELSE kv' = [kv EXCEPT ![s] = "restarting"] /\ UNCHANGED updating
    /\ \/ /\ sess' = [sess EXCEPT ![s] = newSession]
          /\ claude' = [claude EXCEPT ![s] = NewProcess]
       \/ UNCHANGED <<sess, claude>>
    /\ UNCHANGED <<allDone, flush, mail, left>>

createJetStreamConsumers ==
    /\ phase = "recover" /\ todo = {}
    /\ Enter("clear", updating)
    /\ UNCHANGED <<allDone, updating, sess, claude, flush, kv, mail, left>>

Cleared(s) ==
    /\ kv' = [kv EXCEPT ![s] = "idle"] /\ updating' = updating \ {s}
    /\ UNCHANGED <<allDone, sess, claude, flush, mail, left>>

\* clearUpdatingState, first pass: the sessions that were resumed.
ClearResumed(s) == phase = "clear" /\ sess[s].reg /\ Visit(s) /\ Cleared(s)

\* A slip: what failed to resume is forgotten.
ClearOrphanMutant(s) ==
    /\ phase = "clear" /\ todo \cap Registered = {} /\ Visit(s)
    /\ updating' = updating \ {s}
    /\ UNCHANGED <<allDone, sess, claude, flush, kv, mail, left>>

\* Second pass: the rest.
ClearOrphan(s) == phase = "clear" /\ todo \cap Registered = {} /\ Visit(s) /\ Cleared(s)

Serve ==
    /\ phase = "clear" /\ todo = {} /\ Enter("serve", {})
    /\ UNCHANGED <<allDone, updating, sess, claude, flush, kv, mail, left>>

AgentStep ==
    \/ StopCommands \/ TickEnd \/ Exit \/ StartReplacement \/ createJetStreamConsumers \/ Serve
    \/ \E s \in Sessions :
          \/ MarkUpdating(s) \/ Tick(s) \/ publishShellKilledNotifications(s)
          \/ RecoverSession(s) \/ ClearResumed(s) \/ ClearOrphan(s)

Next ==
    \/ SIGTERM \/ AgentStep \/ Killed \/ ControlInterrupt
    \/ \E s \in Sessions : RouterStep(s) \/ ControlResponse(s) \/ Replace(s)
    \/ \E m \in Inputs : \E s \in Sessions : PublishInput(m, s)
    \/ \E m \in Inputs \cup Shells : handleInput(m)

Spec == Init /\ [][Next]_vars

\* The agent's loops go on, a stopped pod is replaced, routers handle the events
\* they get, and a Claude process reads its input, ends its turns and its
\* background agents.  Nothing is assumed of users and of background shells.
Fairness ==
    /\ WF_vars(AgentStep)
    /\ \A s \in Sessions :
          /\ WF_vars(RouteInit(s) \/ StartupTimeout(s))
          /\ WF_vars(RouteStateChanged(s)) /\ WF_vars(flushKV(s))
          /\ WF_vars(ClaudeReads(s)) /\ WF_vars(TurnEnds(s)) /\ WF_vars(AgentEnds(s))

FairSpec == Spec /\ Fairness

-----------------------------------------------------------------------------
(* Properties                                                              *)

TypeOK ==
    /\ phase \in {"serve", "mark", "drain", "notify", "gone", "recover", "clear"}
    /\ todo \subseteq Sessions /\ updating \subseteq Sessions /\ allDone \in BOOLEAN
    /\ sess \in [Sessions -> [reg : BOOLEAN, state : States, shutdownPending : BOOLEAN,
           inFlightBackgroundAgents : 0 .. MaxTools, pendingShells : SUBSET Shells,
           inFlightShells : SUBSET Shells]]
    /\ claude \in [Sessions -> [proc : {"none", "boot", "up"}, turn : Turns,
           agents : 0 .. MaxTools, refused : 0 .. MaxTools, shells : SUBSET Shells,
           stdin : SUBSET {"input", "interrupt"}]]
    /\ flush \in [Sessions -> States \cup {"none"}]
    /\ kv \in [Sessions -> States \cup {"updating"}]
    /\ mail \in [Inputs \cup Shells ->
           [at : {"unsent", "due", "passed", "handled"}, to : SUBSET Sessions]]
    /\ left \in [tools : 0 .. MaxTools, faults : 0 .. MaxFaults, upgrades : 0 .. MaxUpgrades]

\* Once the replacement serves, no session shows the banner of the upgrade, be it
\* that its session was not resumed, that the old agent was killed while it drained
\* or that the replacement was itself replaced (clearUpdatingState).
BannerCleared == phase = "serve" => \A s \in Sessions : kv[s] # "updating"

\* The drain never waits for a background agent that no tool use ever asked for: the
\* counter is at most the agents that run and the calls that started none, across
\* restarts, shells and notifications (updateInFlightBackgroundAgents).
NothingOvercounted ==
    \A s \in Sessions : claude[s].proc # "none" =>
        sess[s].inFlightBackgroundAgents <= claude[s].agents + claude[s].refused

\* A session that no progress of its process will make idle: it never came up, it
\* could not be resumed, or a call counted as a background agent started none.
Stuck == \E s \in Registered :
    sess[s].state = "failed" \/ claude[s].refused > 0
    \/ (claude[s].proc = "none" /\ (sess[s].state # "idle" \/ sess[s].inFlightBackgroundAgents > 0))

\* The drain ends though users have left permission requests unanswered, unless a
\* session is stuck (the loop of gracefulShutdown has no deadline of its own).
DrainEnds == phase = "drain" ~> (phase # "drain" \/ Stuck)

\* "New work queues in JetStream for the replacement pod": what was sent to a
\* session during a graceful upgrade is delivered to one of the two agents.
QueuedForReplacement == phase = "serve" => \A m \in Inputs \cup Shells : mail[m].at # "passed"
================================================================================
