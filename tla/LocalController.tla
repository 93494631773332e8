--------------------------- MODULE LocalController ---------------------------
(***************************************************************************)
(* The BYOH machine controller (mclaude-controller-local): one supervised  *)
(* session-agent process per provisioned project.                          *)
(*                                                                         *)
(* Threads of the controller process:                                      *)
(*   "handler"  the NATS subscription callback; messages are handled one   *)
(*              at a time (handleCreate, handleDelete)                     *)
(*   "main"     Controller.Run: after SIGTERM it runs shutdownChildren     *)
(*   one supervisor goroutine per child (supervisedChild.run)              *)
(* Both "handler" and "main" call supervisedChild.stop.                    *)
(*                                                                         *)
(* Bounds: Children bounds how many supervisors are ever started,          *)
(* MaxStarts how many processes one supervisor starts.                     *)
(***************************************************************************)
EXTENDS Naturals, FiniteSets

CONSTANTS Projects,   \* (user slug, project slug) pairs
          Children,   \* identities of supervisedChild values
          NoChild, NoKey,
          MaxStarts   \* bound: process starts per supervisor

ASSUME ConstantsAssumption ==
    /\ NoChild \notin Children
    /\ MaxStarts \in Nat \ {0}

Threads == {"handler", "main"}

\* A session-agent generates a fresh NKey pair at every process start, so a key
\* is identified by the supervisor and the number of the start.
Keys == Children \X (1 .. MaxStarts)

ASSUME NoKeyAssumption == NoKey \notin Keys

VARIABLES
    children,    \* Controller.children: project -> child or NoChild
    dir,         \* projects whose data directory exists
    handler,     \* [pc, proj, child, key] of the NATS callback
    main,        \* [pc, todo] of Controller.Run
    stopper,     \* thread -> [pc, child]: progress inside supervisedChild.stop
    supPc,       \* child -> control point of supervisedChild.run
    owner,       \* child -> the project it was started for
    cmd,         \* child -> s.cmd: "nil", "built" (Process = nil), "started"
    proc,        \* child -> the operating-system process of the agent
    signalled,   \* children whose current process was sent SIGINT
    killed,      \* children whose current process was sent SIGKILL
    stopCh,      \* children whose stopCh is closed
    starts,      \* child -> processes started so far
    keyFile,     \* project -> contents of {project}/.nkey-pub
    registered,  \* agent keys the control plane knows
    panicked     \* the controller process died of a Go panic

procVars == <<proc, signalled, killed, starts, keyFile, registered>>
supVars  == <<supPc, owner, cmd, stopCh>>
vars == <<children, dir, handler, main, stopper, supPc, owner, cmd, proc,
          signalled, killed, stopCh, starts, keyFile, registered, panicked>>

\* "boot": started, no key file yet; "auth": waiting to be registered;
\* "up": authenticated and connected to NATS.
Live(c) == proc[c] \in {"boot", "auth", "up"}

\* Goroutines run only while the controller process lives.
Running == main.pc # "exited" /\ ~panicked

HandlerType == [pc : {"idle", "clone", "record", "awaitKey", "register", "stop", "rmdir"},
                proj : Projects, child : Children \cup {NoChild}, key : Keys \cup {NoKey}]
StopType    == [pc : {"none", "check", "close", "read", "grace", "wait"},
                child : Children \cup {NoChild}]

TypeOK ==
    /\ children \in [Projects -> Children \cup {NoChild}]
    /\ dir \subseteq Projects
    /\ handler \in HandlerType
    /\ main \in [pc : {"run", "shutdown", "exited"}, todo : SUBSET Children]
    /\ stopper \in [Threads -> StopType]
    /\ supPc \in [Children -> {"unused", "check", "build", "start", "wait", "delay", "done"}]
    /\ owner \in [Children -> Projects]
    /\ cmd \in [Children -> {"nil", "built", "started"}]
    /\ proc \in [Children -> {"none", "boot", "auth", "up"}]
    /\ signalled \subseteq Children /\ killed \subseteq Children /\ stopCh \subseteq Children
    /\ starts \in [Children -> 0 .. MaxStarts]
    /\ keyFile \in [Projects -> Keys \cup {NoKey}]
    /\ registered \subseteq Keys
    /\ panicked \in BOOLEAN

Init ==
    /\ children = [p \in Projects |-> NoChild]
    /\ dir = {}
    /\ handler \in [pc : {"idle"}, proj : Projects, child : {NoChild}, key : {NoKey}]
    /\ main = [pc |-> "run", todo |-> {}]
    /\ stopper = [t \in Threads |-> [pc |-> "none", child |-> NoChild]]
    /\ supPc = [c \in Children |-> "unused"]
    /\ owner \in [Children -> Projects]
    /\ cmd = [c \in Children |-> "nil"]
    /\ proc = [c \in Children |-> "none"]
    /\ signalled = {} /\ killed = {} /\ stopCh = {}
    /\ starts = [c \in Children |-> 0]
    /\ keyFile = [p \in Projects |-> NoKey]
    /\ registered = {}
    /\ panicked = FALSE

-----------------------------------------------------------------------------
(* handleCreate                                                            *)

\* The callback returns and its locals are gone.
HandlerIdle ==
    handler' = [handler EXCEPT !.pc = "idle", !.child = NoChild, !.key = NoKey]

\* A create message: mkdir, then the exists check under c.mu; a project that
\* already has a child is answered at once.
CreateCheckMutant(p) ==
    /\ Running /\ handler.pc = "idle"
    /\ dir' = dir \cup {p}
    /\ handler' = [handler EXCEPT !.pc = "clone", !.proj = p]
    /\ UNCHANGED <<children, main, stopper, supVars, procVars, panicked>>

CreateCheck(p) ==
    /\ Running /\ handler.pc = "idle"
    /\ dir' = dir \cup {p}
    /\ handler' = IF children[p] = NoChild
                  THEN [handler EXCEPT !.pc = "clone", !.proj = p]
                  ELSE handler
    /\ UNCHANGED <<children, main, stopper, supVars, procVars, panicked>>

\* git clone failed: the handler replies git_clone_failed and returns.
CloneFailed ==
    /\ Running /\ handler.pc = "clone"
    /\ HandlerIdle
    /\ UNCHANGED <<children, dir, main, stopper, supVars, procVars, panicked>>

\* The stale key file is removed and startChild launches the supervisor; the
\* child is not in c.children yet.
StartChild(c) ==
    /\ Running /\ handler.pc = "clone" /\ supPc[c] = "unused"
    /\ keyFile' = [keyFile EXCEPT ![handler.proj] = NoKey]
    /\ supPc' = [supPc EXCEPT ![c] = "check"]
    /\ owner' = [owner EXCEPT ![c] = handler.proj]
    /\ handler' = [handler EXCEPT !.pc = "record", !.child = c]
    /\ UNCHANGED <<children, dir, main, stopper, cmd, stopCh, proc, signalled,
                   killed, starts, registered, panicked>>

RecordChild ==
    /\ Running /\ handler.pc = "record"
    /\ children' = [children EXCEPT ![handler.proj] = handler.child]
    /\ handler' = [handler EXCEPT !.pc = "awaitKey"]
    /\ UNCHANGED <<dir, main, stopper, supVars, procVars, panicked>>

NKeyFileReadMutant ==
    /\ Running /\ handler.pc = "awaitKey"
    /\ handler' = [handler EXCEPT !.pc = "register", !.key = keyFile[handler.proj]]
    /\ UNCHANGED <<children, dir, main, stopper, supVars, procVars, panicked>>

\* waitForNKeyFile: the file is read, or agentNKeyReadTimeout passes.
NKeyFileRead ==
    /\ Running /\ handler.pc = "awaitKey" /\ keyFile[handler.proj] # NoKey
    /\ handler' = [handler EXCEPT !.pc = "register", !.key = keyFile[handler.proj]]
    /\ UNCHANGED <<children, dir, main, stopper, supVars, procVars, panicked>>

NKeyFileTimeout ==
    /\ Running /\ handler.pc = "awaitKey"
    /\ HandlerIdle
    /\ UNCHANGED <<children, dir, main, stopper, supVars, procVars, panicked>>

\* registerAgentKey: the key that was read (an agent that restarted meanwhile
\* has replaced the file); the request succeeds, or is rejected or retried
\* until agentRegisterRetries is used up.
RegisterAgentKey(ok) ==
    /\ Running /\ handler.pc = "register"
    /\ registered' = IF ok THEN registered \cup {handler.key} ELSE registered
    /\ HandlerIdle
    /\ UNCHANGED <<children, dir, main, stopper, supVars, proc, signalled,
                   killed, starts, keyFile, panicked>>

-----------------------------------------------------------------------------
(* handleDelete and shutdownChildren                                       *)

BeginStop(t, c) == stopper' = [stopper EXCEPT ![t] = [pc |-> "check", child |-> c]]

\* A delete message takes the child out of c.children under c.mu, then stops it.
DeleteTake(p) ==
    /\ Running /\ handler.pc = "idle"
    /\ children' = [children EXCEPT ![p] = NoChild]
    /\ IF children[p] = NoChild
       THEN /\ handler' = [handler EXCEPT !.pc = "rmdir", !.proj = p]
            /\ UNCHANGED stopper
       ELSE /\ handler' = [handler EXCEPT !.pc = "stop", !.proj = p]
            /\ BeginStop("handler", children[p])
    /\ UNCHANGED <<dir, main, supVars, procVars, panicked>>

DeleteStopped ==
    /\ Running /\ handler.pc = "stop" /\ stopper["handler"].pc = "none"
    /\ handler' = [handler EXCEPT !.pc = "rmdir"]
    /\ UNCHANGED <<children, dir, main, stopper, supVars, procVars, panicked>>

\* os.RemoveAll of the project directory, or its failure (filesystem_error).
RemoveProjectDir(ok) ==
    /\ Running /\ handler.pc = "rmdir"
    /\ HandlerIdle
    /\ dir' = IF ok THEN dir \ {handler.proj} ELSE dir
    /\ keyFile' = IF ok THEN [keyFile EXCEPT ![handler.proj] = NoKey] ELSE keyFile
    /\ UNCHANGED <<children, main, stopper, supVars, proc, signalled, killed,
                   starts, registered, panicked>>

\* SIGTERM: ctx is done and shutdownChildren snapshots c.children.  The NATS
\* subscription stays active until Run returns.
ShutdownSnapshot ==
    /\ Running /\ main.pc = "run"
    /\ main' = [pc |-> "shutdown",
                todo |-> {children[p] : p \in Projects} \ {NoChild}]
    /\ UNCHANGED <<children, dir, handler, stopper, supVars, procVars, panicked>>

ShutdownNext(c) ==
    /\ Running /\ main.pc = "shutdown" /\ stopper["main"].pc = "none"
    /\ c \in main.todo
    /\ main' = [main EXCEPT !.todo = @ \ {c}]
    /\ BeginStop("main", c)
    /\ UNCHANGED <<children, dir, handler, supVars, procVars, panicked>>

\* Run returns and the controller process exits with every goroutine in it.
ShutdownExit ==
    /\ Running /\ main.pc = "shutdown" /\ stopper["main"].pc = "none"
    /\ main.todo = {}
    /\ main' = [main EXCEPT !.pc = "exited"]
    /\ UNCHANGED <<children, dir, handler, stopper, supVars, procVars, panicked>>

-----------------------------------------------------------------------------
(* supervisedChild.stop, called by thread t                                *)

SetStopper(t, pc) == stopper' = [stopper EXCEPT ![t].pc = pc]
EndStop(t) == stopper' = [stopper EXCEPT ![t] = [pc |-> "none", child |-> NoChild]]

\* select { case <-s.stopCh: default: ... }
StopCheck(t) ==
    /\ Running /\ stopper[t].pc = "check"
    /\ SetStopper(t, IF stopper[t].child \in stopCh THEN "read" ELSE "close")
    /\ UNCHANGED <<children, dir, handler, main, supVars, procVars, panicked>>

\* close(s.stopCh); closing a closed channel panics.
StopClose(t) ==
    /\ Running /\ stopper[t].pc = "close"
    /\ IF stopper[t].child \in stopCh
       THEN panicked' = TRUE /\ UNCHANGED <<stopCh, stopper>>
       ELSE /\ stopCh' = stopCh \cup {stopper[t].child}
            /\ SetStopper(t, "read")
            /\ UNCHANGED panicked
    /\ UNCHANGED <<children, dir, handler, main, supPc, owner, cmd, procVars>>

\* Read s.cmd; with a started process send SIGINT and wait with a grace period,
\* otherwise wait for the supervisor goroutine.
StopRead(t) ==
    LET c == stopper[t].child IN
    /\ Running /\ stopper[t].pc = "read"
    /\ IF cmd[c] = "started"
       THEN /\ SetStopper(t, "grace")
            /\ signalled' = IF Live(c) THEN signalled \cup {c} ELSE signalled
       ELSE SetStopper(t, "wait") /\ UNCHANGED signalled
    /\ UNCHANGED <<children, dir, handler, main, supVars, proc, killed, starts,
                   keyFile, registered, panicked>>

\* shutdownGracePeriod is over: SIGKILL, then wait for doneCh without a limit.
StopKillMutant(t) ==
    /\ Running /\ stopper[t].pc = "grace"
    /\ SetStopper(t, "wait")
    /\ UNCHANGED <<children, dir, handler, main, supVars, procVars, panicked>>

StopKill(t) ==
    LET c == stopper[t].child IN
    /\ Running /\ stopper[t].pc = "grace"
    /\ killed' = IF Live(c) THEN killed \cup {c} ELSE killed
    /\ SetStopper(t, "wait")
    /\ UNCHANGED <<children, dir, handler, main, supVars, proc, signalled,
                   starts, keyFile, registered, panicked>>

\* <-s.doneCh
StopDoneMutant(t) ==
    /\ Running /\ stopper[t].pc \in {"grace", "wait"}
    /\ stopper[t].pc = "wait" \/ supPc[stopper[t].child] = "done"
    /\ EndStop(t)
    /\ UNCHANGED <<children, dir, handler, main, supVars, procVars, panicked>>

StopDone(t) ==
    /\ Running /\ stopper[t].pc \in {"grace", "wait"}
    /\ supPc[stopper[t].child] = "done"
    /\ EndStop(t)
    /\ UNCHANGED <<children, dir, handler, main, supVars, procVars, panicked>>

-----------------------------------------------------------------------------
(* supervisedChild.run                                                     *)

SupCheck(c) ==
    /\ Running /\ supPc[c] = "check"
    /\ supPc' = [supPc EXCEPT ![c] = IF c \in stopCh THEN "done" ELSE "build"]
    /\ UNCHANGED <<children, dir, handler, main, stopper, owner, cmd, stopCh,
                   procVars, panicked>>

SupBuild(c) ==
    /\ Running /\ supPc[c] = "build"
    /\ supPc' = [supPc EXCEPT ![c] = "start"]
    /\ cmd' = [cmd EXCEPT ![c] = "built"]
    /\ UNCHANGED <<children, dir, handler, main, stopper, owner, stopCh,
                   procVars, panicked>>

SupStart(c) ==
    /\ Running /\ supPc[c] = "start" /\ starts[c] < MaxStarts
    /\ supPc' = [supPc EXCEPT ![c] = "wait"]
    /\ cmd' = [cmd EXCEPT ![c] = "started"]
    /\ proc' = [proc EXCEPT ![c] = "boot"]
    /\ starts' = [starts EXCEPT ![c] = @ + 1]
    /\ signalled' = signalled \ {c} /\ killed' = killed \ {c}
    /\ UNCHANGED <<children, dir, handler, main, stopper, owner, stopCh,
                   keyFile, registered, panicked>>

\* cmd.Start failed: nothing to wait for.
SupStartFailed(c) ==
    /\ Running /\ supPc[c] = "start"
    /\ supPc' = [supPc EXCEPT ![c] = "delay"]
    /\ cmd' = [cmd EXCEPT ![c] = "nil"]
    /\ UNCHANGED <<children, dir, handler, main, stopper, owner, stopCh,
                   procVars, panicked>>

\* cmd.Wait returned; s.cmd is cleared.
SupReap(c) ==
    /\ Running /\ supPc[c] = "wait" /\ proc[c] = "none"
    /\ supPc' = [supPc EXCEPT ![c] = "delay"]
    /\ cmd' = [cmd EXCEPT ![c] = "nil"]
    /\ UNCHANGED <<children, dir, handler, main, stopper, owner, stopCh,
                   procVars, panicked>>

\* select { <-stopCh | <-time.After(childRestartDelay) }
SupDelay(c) ==
    /\ Running /\ supPc[c] = "delay"
    /\ \/ c \in stopCh /\ supPc' = [supPc EXCEPT ![c] = "done"]
       \/ starts[c] < MaxStarts /\ supPc' = [supPc EXCEPT ![c] = "check"]
    /\ UNCHANGED <<children, dir, handler, main, stopper, owner, cmd, stopCh,
                   procVars, panicked>>

-----------------------------------------------------------------------------
(* The session-agent process                                               *)

CurrentKey(c) == <<c, starts[c]>>

\* WritePublicKeyToFile (a failed write is fatal: AgentExit).
AgentWriteKey(c) ==
    /\ proc[c] = "boot"
    /\ proc' = [proc EXCEPT ![c] = "auth"]
    /\ keyFile' = [keyFile EXCEPT ![owner[c]] = CurrentKey(c)]
    /\ UNCHANGED <<children, dir, handler, main, stopper, supVars, signalled,
                   killed, starts, registered, panicked>>

\* AgentAuth.Authenticate: the control plane may issue a JWT to a registered
\* key.  The bytes that are signed and verified are not modelled, so success
\* is possible, never promised (no fairness below).
AgentAuthenticated(c) ==
    /\ proc[c] = "auth" /\ CurrentKey(c) \in registered
    /\ proc' = [proc EXCEPT ![c] = "up"]
    /\ UNCHANGED <<children, dir, handler, main, stopper, supVars, signalled,
                   killed, starts, keyFile, registered, panicked>>

\* The process ends: a crash, log.Fatal after ten failed authentication
\* attempts, or the reaction to SIGINT or SIGKILL.
AgentExit(c) ==
    /\ Live(c)
    /\ proc' = [proc EXCEPT ![c] = "none"]
    /\ UNCHANGED <<children, dir, handler, main, stopper, supVars, signalled,
                   killed, starts, keyFile, registered, panicked>>

\* The exits that are certain: SIGKILL, and log.Fatal of an agent whose key is
\* not registered.
AgentEnds(c) ==
    /\ c \in killed \/ (proc[c] = "auth" /\ CurrentKey(c) \notin registered)
    /\ AgentExit(c)

-----------------------------------------------------------------------------
HandlerStep ==
    \/ CloneFailed \/ (\E c \in Children : StartChild(c)) \/ RecordChild
    \/ NKeyFileRead \/ NKeyFileTimeout
    \/ \E ok \in BOOLEAN : RegisterAgentKey(ok)
    \/ DeleteStopped \/ (\E ok \in BOOLEAN : RemoveProjectDir(ok))

MainStep == (\E c \in Children : ShutdownNext(c)) \/ ShutdownExit

StopStep(t) == StopCheck(t) \/ StopClose(t) \/ StopRead(t) \/ StopKill(t) \/ StopDone(t)

SupStep(c) == SupCheck(c) \/ SupBuild(c) \/ SupStart(c) \/ SupStartFailed(c)
              \/ SupReap(c) \/ SupDelay(c)

AgentStep(c) == AgentWriteKey(c) \/ AgentAuthenticated(c) \/ AgentExit(c)

Next ==
    \/ \E p \in Projects : CreateCheck(p) \/ DeleteTake(p)
    \/ HandlerStep \/ ShutdownSnapshot \/ MainStep
    \/ \E t \in Threads : StopStep(t)
    \/ \E c \in Children : SupStep(c) \/ AgentStep(c)

Spec == Init /\ [][Next]_vars

\* Goroutines are scheduled, timers fire, SIGKILL works and an agent
\* that cannot authenticate gives up.  Messages, the
\* operator's SIGTERM and an agent's voluntary exit are not guaranteed.
FairSpec ==
    /\ Spec
    /\ WF_vars(HandlerStep) /\ WF_vars(MainStep)
    /\ \A t \in Threads : WF_vars(StopStep(t))
    /\ \A c \in Children : /\ WF_vars(SupStep(c))
                           /\ WF_vars(AgentWriteKey(c))
                           /\ WF_vars(AgentEnds(c))

-----------------------------------------------------------------------------
(* Properties                                                              *)

\* A project never has two live session-agent processes: the exists check of
\* handleCreate and the wait for doneCh in stop keep a new supervisor from
\* overlapping an old one.
OneAgentPerProject ==
    \A c, d \in Children : (Live(c) /\ Live(d) /\ owner[c] = owner[d]) => c = d

\* handleDelete removes the project directory only after the agent that works
\* in it is gone.
NoAgentWithoutDir ==
    \A c \in Children : Live(c) => owner[c] \in dir

\* A stop that reached a started process returns: the grace period and SIGKILL
\* bound the wait.
GraceEnds ==
    \A t \in Threads : stopper[t].pc = "grace" ~> (stopper[t].pc = "none" \/ ~Running)

\* What stop's comment promises of every call (SIGINT, then SIGKILL after the
\* grace period): it returns.
StopReturns ==
    \A t \in Threads : stopper[t].pc = "check" ~> (stopper[t].pc = "none" \/ ~Running)

\* "The agent ... authenticates ... once the host controller has registered the
\* key", and a crashed agent is restarted: when the controller has nothing left
\* to handle, an agent waiting to authenticate under a supervisor whose first
\* key was registered is registered itself.
RestartedAgentRegistered ==
    \A c \in Children :
        (proc[c] = "auth" /\ children[owner[c]] = c /\ handler.pc = "idle"
           /\ main.pc = "run" /\ <<c, 1>> \in registered)
        => CurrentKey(c) \in registered
=============================================================================
