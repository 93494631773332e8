-------------------------- MODULE SessionLifecycle --------------------------
(***************************************************************************)
(* The sessions of a session agent (agent.go, session.go): create and      *)
(* delete on the goroutine of the command consumer, restart on that of the *)
(* control consumer, one crash watcher per started session object, the     *)
(* start-up watcher and the stdout router of each object, and the death    *)
(* and recovery of the agent itself.                                       *)
(*                                                                         *)
(* A session (an id) is served by a succession of Session objects, each    *)
(* with one Claude process; Agent.sessions maps an id to the current one.  *)
(* Steps lie between the places where Agent.mu or Session.mu is released.  *)
(* Of a KV entry only the session it describes is kept, of a worktree its  *)
(* existence.  An entry is keyed by the slug of the session's name, which  *)
(* nothing makes unique.                                                   *)
(*                                                                         *)
(* Bounds: Ids, Slugs, Branches and Objects are finite, and an object      *)
(* nobody refers to any more stands for a fresh one.  The agent is started *)
(* again at most MaxDeaths times.                                          *)
(***************************************************************************)
EXTENDS Naturals

CONSTANTS Ids, Slugs, Branches, Objects,
          NoId, NoSlug, NoObject, NoBranch,
          MaxDeaths

ASSUME ConstantsAssumption ==
    /\ NoId \notin Ids /\ NoSlug \notin Slugs
    /\ NoObject \notin Objects /\ NoBranch \notin Branches
    /\ MaxDeaths \in Nat

VARIABLES
    agent,     \* "up", "recover" (Run before the consumers), "down" or "panicked"
    todo,      \* entries recoverSessions has still to visit
    sessions,  \* Agent.sessions
    obj,       \* the Session objects with their process
    watch,     \* watchSessionCrash: control point and successor, per object
    cmd,       \* command goroutine: control point, id, object
    ctl,       \* control goroutine: control point, id, object, successor
    kv,        \* sessions bucket: the session whose entry each slug holds
    slug,      \* Slug field of each session, NoSlug before its create
    branch,    \* Worktree field of each session, NoBranch before its create
    worktrees, \* worktrees on disk
    deleted,   \* history: how far handleDelete got with each id
    deaths     \* how often the agent died

vars == <<agent, todo, sessions, obj, watch, cmd, ctl, kv, slug, branch, worktrees, deleted,
          deaths>>

\* What only requests and a new agent change.
store == <<slug, branch, worktrees, deleted, deaths>>

ObjectType  == [id : Ids \cup {NoId}, proc : {"free", "up", "done"},
                stopping : BOOLEAN, boot : BOOLEAN, crashed : BOOLEAN]
WatchType   == [pc : {"none", "wait", "tracked", "write", "start", "track", "failed"},
                new : Objects \cup {NoObject}]
CommandType == [pc : {"serve", "kv", "start", "stop", "wait", "worktree", "kvDelete"},
                id : Ids \cup {NoId}, obj : Objects \cup {NoObject}]
ControlType == [pc : {"serve", "stop", "wait", "write", "start", "track", "answer"},
                id : Ids \cup {NoId}, obj : Objects \cup {NoObject},
                new : Objects \cup {NoObject}]

TypeOK ==
    /\ agent \in {"up", "recover", "down", "panicked"} /\ todo \in SUBSET Ids
    /\ sessions \in [Ids -> Objects \cup {NoObject}]
    /\ obj \in [Objects -> ObjectType] /\ watch \in [Objects -> WatchType]
    /\ cmd \in CommandType /\ (cmd.pc \in {"stop", "wait"} => cmd.obj \in Objects)
    /\ ctl \in ControlType /\ (ctl.pc # "serve" => ctl.obj \in Objects)
    /\ kv \in [Slugs -> Ids \cup {NoId}] /\ slug \in [Ids -> Slugs \cup {NoSlug}]
    /\ branch \in [Ids -> Branches \cup {NoBranch}]
    /\ worktrees \in SUBSET Branches /\ deleted \in [Ids -> {"no", "taken", "done"}]
    /\ deaths \in 0 .. MaxDeaths

FreeObject == [id |-> NoId, proc |-> "free", stopping |-> FALSE, boot |-> FALSE,
               crashed |-> FALSE]
NoWatch == [pc |-> "none", new |-> NoObject]
CmdServe == [pc |-> "serve", id |-> NoId, obj |-> NoObject]
CtlServe == [pc |-> "serve", id |-> NoId, obj |-> NoObject, new |-> NoObject]

Init ==
    /\ agent = "up" /\ todo = {}
    /\ sessions = [i \in Ids |-> NoObject]
    /\ obj = [g \in Objects |-> FreeObject] /\ watch = [g \in Objects |-> NoWatch]
    /\ cmd = CmdServe /\ ctl = CtlServe
    /\ kv = [s \in Slugs |-> NoId] /\ slug = [i \in Ids |-> NoSlug]
    /\ branch = [i \in Ids |-> NoBranch] /\ worktrees = {}
    /\ deleted = [i \in Ids |-> "no"] /\ deaths = 0

Up == agent = "up"
Alive == agent \in {"up", "recover"}

\* The process of an object is running.
Live(g) == obj[g].proc = "up"

\* No variable of the agent refers to the object and its goroutines ended.
Unused(g) ==
    /\ obj[g].proc \in {"free", "done"} /\ ~obj[g].boot /\ watch[g].pc \in {"none", "failed"}
    /\ \A i \in Ids : sessions[i] # g
    /\ g \notin {cmd.obj, ctl.obj, ctl.new}
    /\ \A h \in Objects : watch[h].new # g

\* A process can be started for the session: its directory exists, and there
\* is an object for it (an unused one stands for a fresh one).
Startable(i) == branch[i] \in worktrees /\ \E g \in Objects : Unused(g)
NewObject == CHOOSE g \in Objects : Unused(g)

\* newSession and a successful start: a process with its router and its
\* start-up watcher.
Start(i) ==
    obj' = [obj EXCEPT ![NewObject] = [id |-> i, proc |-> "up", stopping |-> FALSE,
                                       boot |-> TRUE, crashed |-> FALSE]]

\* The entry of a session is its slug's: a session of the same name has the
\* same.
writeSessionKV(i) == kv' = [kv EXCEPT ![slug[i]] = i]

worktreeInUse(b) == \E i \in Ids : sessions[i] # NoObject /\ branch[i] = b

-----------------------------------------------------------------------------
(* stopAndWait                                                             *)

\* The agent's memory and its child processes are gone.
MemoryLost ==
    /\ sessions' = [i \in Ids |-> NoObject]
    /\ obj' = [g \in Objects |-> FreeObject] /\ watch' = [g \in Objects |-> NoWatch]
    /\ cmd' = CmdServe /\ ctl' = CtlServe /\ todo' = {}

\* A second caller closes a closed stopCh, which kills the agent.
Panic(g) == obj[g].stopping /\ agent' = "panicked" /\ MemoryLost

\* stopping is set, an interrupt sent and stopCh closed.
StopBegin(g) ==
    /\ ~obj[g].stopping
    /\ obj' = [obj EXCEPT ![g].stopping = TRUE]
    /\ UNCHANGED <<agent, todo, sessions, watch>>

\* sessionDeleteTimeout: the process is killed.
Kill(g) ==
    /\ Live(g)
    /\ obj' = [obj EXCEPT ![g].proc = "done"]

-----------------------------------------------------------------------------
(* The command goroutine: handleCreate and handleDelete                    *)

\* handleCreate up to the worktree: a collision is refused unless the request
\* joins the worktree; git refuses to add a worktree that exists, and may fail.
CreateCheck(i, s, b, join) ==
    /\ Up /\ cmd.pc = "serve" /\ branch[i] = NoBranch
    /\ IF worktreeInUse(b) THEN join /\ UNCHANGED worktrees
       ELSE b \notin worktrees /\ worktrees' = worktrees \cup {b}
    /\ branch' = [branch EXCEPT ![i] = b] /\ slug' = [slug EXCEPT ![i] = s]
    /\ cmd' = [CmdServe EXCEPT !.pc = "kv", !.id = i]
    /\ UNCHANGED <<agent, todo, sessions, obj, watch, ctl, kv, deleted, deaths>>

\* A slip in the order: the session is started before its entry is written.
CreateWriteKVMutant ==
    /\ Up /\ cmd.pc = "kv"
    /\ cmd' = [cmd EXCEPT !.pc = "start"]
    /\ UNCHANGED <<agent, todo, sessions, obj, watch, ctl, kv, store>>

\* The initial entry.
CreateWriteKV ==
    /\ Up /\ cmd.pc = "kv"
    /\ writeSessionKV(cmd.id)
    /\ cmd' = [cmd EXCEPT !.pc = "start"]
    /\ UNCHANGED <<agent, todo, sessions, obj, watch, ctl, store>>

\* The process is started, the session registered and watched.
CreateStart ==
    /\ Up /\ cmd.pc = "start" /\ Startable(cmd.id)
    /\ Start(cmd.id)
    /\ sessions' = [sessions EXCEPT ![cmd.id] = NewObject]
    /\ watch' = [watch EXCEPT ![NewObject] = [pc |-> "wait", new |-> NoObject]]
    /\ cmd' = CmdServe
    /\ UNCHANGED <<agent, todo, ctl, kv, store>>

\* The entry cannot be written, a strict-allowlist session without tools is
\* refused, or the start fails; the worktree stays, and the entry if written.
CreateFailed ==
    /\ Up /\ cmd.pc \in {"kv", "start"}
    /\ cmd' = CmdServe
    /\ UNCHANGED <<agent, todo, sessions, obj, watch, ctl, kv, store>>

\* A slip: the object is looked up after it was removed from the map.
DeleteTakeMutant(i) ==
    /\ Up /\ cmd.pc = "serve" /\ sessions[i] # NoObject
    /\ sessions' = [sessions EXCEPT ![i] = NoObject]
    /\ deleted' = [deleted EXCEPT ![i] = "taken"]
    /\ cmd' = [pc |-> "stop", id |-> i, obj |-> sessions'[i]]
    /\ UNCHANGED <<agent, todo, obj, watch, ctl, kv, slug, branch, worktrees, deaths>>

\* The session is taken out of the map; from here on nobody else finds it.
DeleteTake(i) ==
    /\ Up /\ cmd.pc = "serve" /\ sessions[i] # NoObject
    /\ sessions' = [sessions EXCEPT ![i] = NoObject]
    /\ deleted' = [deleted EXCEPT ![i] = "taken"]
    /\ cmd' = [pc |-> "stop", id |-> i, obj |-> sessions[i]]
    /\ UNCHANGED <<agent, todo, obj, watch, ctl, kv, slug, branch, worktrees, deaths>>

DeleteStop ==
    /\ Up /\ cmd.pc = "stop"
    /\ \/ StopBegin(cmd.obj) /\ cmd' = [cmd EXCEPT !.pc = "wait"] /\ UNCHANGED ctl
       \/ Panic(cmd.obj)
    /\ UNCHANGED <<kv, store>>

DeleteKill ==
    /\ Up /\ cmd.pc = "wait" /\ Kill(cmd.obj)
    /\ UNCHANGED <<agent, todo, sessions, watch, cmd, ctl, kv, store>>

DeleteStopped ==
    /\ Up /\ cmd.pc = "wait" /\ obj[cmd.obj].proc = "done"
    /\ cmd' = [cmd EXCEPT !.pc = "worktree"]
    /\ UNCHANGED <<agent, todo, sessions, obj, watch, ctl, kv, store>>

\* A slip: whether another session works in the worktree is not asked.
DeleteWorktreeMutant ==
    /\ Up /\ cmd.pc = "worktree"
    /\ worktrees' = worktrees \ {branch[cmd.id]}
    /\ cmd' = [cmd EXCEPT !.pc = "kvDelete"]
    /\ UNCHANGED <<agent, todo, sessions, obj, watch, ctl, kv, slug, branch, deleted, deaths>>

\* The last user of the worktree removes it, unless the session is a quota-
\* managed one on a schedule/ branch or git fails.
DeleteWorktree ==
    /\ Up /\ cmd.pc = "worktree"
    /\ \/ UNCHANGED worktrees
       \/ /\ ~worktreeInUse(branch[cmd.id])
          /\ worktrees' = worktrees \ {branch[cmd.id]}
    /\ cmd' = [cmd EXCEPT !.pc = "kvDelete"]
    /\ UNCHANGED <<agent, todo, sessions, obj, watch, ctl, kv, slug, branch, deleted, deaths>>

DeleteKV ==
    /\ Up /\ cmd.pc = "kvDelete"
    /\ kv' = [kv EXCEPT ![slug[cmd.id]] = NoId]
    /\ deleted' = [deleted EXCEPT ![cmd.id] = "done"]
    /\ cmd' = CmdServe
    /\ UNCHANGED <<agent, todo, sessions, obj, watch, ctl, slug, branch, worktrees, deaths>>

CommandStep ==
    \/ CreateWriteKV \/ CreateStart \/ CreateFailed
    \/ DeleteStop \/ DeleteKill \/ DeleteStopped \/ DeleteWorktree \/ DeleteKV

-----------------------------------------------------------------------------
(* The control goroutine: handleRestart and handleControl                  *)

RestartTake(i) ==
    /\ Up /\ ctl.pc = "serve" /\ sessions[i] # NoObject
    /\ ctl' = [CtlServe EXCEPT !.pc = "stop", !.id = i, !.obj = sessions[i]]
    /\ UNCHANGED <<agent, todo, sessions, obj, watch, cmd, kv, store>>

RestartStop ==
    /\ Up /\ ctl.pc = "stop"
    /\ \/ StopBegin(ctl.obj) /\ ctl' = [ctl EXCEPT !.pc = "wait"] /\ UNCHANGED cmd
       \/ Panic(ctl.obj)
    /\ UNCHANGED <<kv, store>>

\* A slip: the timeout is reported and the process left running.
RestartKillMutant ==
    /\ Up /\ ctl.pc = "wait" /\ Live(ctl.obj)
    /\ ctl' = [ctl EXCEPT !.pc = "write"]
    /\ UNCHANGED <<agent, todo, sessions, obj, watch, cmd, kv, store>>

RestartKill ==
    /\ Up /\ ctl.pc = "wait" /\ Kill(ctl.obj)
    /\ UNCHANGED <<agent, todo, sessions, watch, cmd, ctl, kv, store>>

RestartStopped ==
    /\ Up /\ ctl.pc = "wait" /\ obj[ctl.obj].proc = "done"
    /\ ctl' = [ctl EXCEPT !.pc = "write"]
    /\ UNCHANGED <<agent, todo, sessions, obj, watch, cmd, kv, store>>

\* The state without pending controls is written before the relaunch.
RestartWriteKV ==
    /\ Up /\ ctl.pc = "write"
    /\ writeSessionKV(ctl.id)
    /\ ctl' = [ctl EXCEPT !.pc = "start"]
    /\ UNCHANGED <<agent, todo, sessions, obj, watch, cmd, store>>

RestartStart ==
    /\ Up /\ ctl.pc = "start" /\ Startable(ctl.id)
    /\ Start(ctl.id)
    /\ ctl' = [ctl EXCEPT !.pc = "track", !.new = NewObject]
    /\ UNCHANGED <<agent, todo, sessions, watch, cmd, kv, store>>

\* "resume failed": the stopped object stays registered.
RestartFailed ==
    /\ Up /\ ctl.pc = "start"
    /\ ctl' = CtlServe
    /\ UNCHANGED <<agent, todo, sessions, obj, watch, cmd, kv, store>>

\* The new object is registered, without a crash watcher.
RestartTrack ==
    /\ Up /\ ctl.pc = "track"
    /\ sessions' = [sessions EXCEPT ![ctl.id] = ctl.new]
    /\ ctl' = CtlServe
    /\ UNCHANGED <<agent, todo, obj, watch, cmd, kv, store>>

\* handleControl: the owner of a permission request is looked up ...
ControlTake(i) ==
    /\ Up /\ ctl.pc = "serve" /\ sessions[i] # NoObject
    /\ ctl' = [CtlServe EXCEPT !.pc = "answer", !.id = i, !.obj = sessions[i]]
    /\ UNCHANGED <<agent, todo, sessions, obj, watch, cmd, kv, store>>

\* ... and its state written without the request.
ControlWriteKV ==
    /\ Up /\ ctl.pc = "answer"
    /\ writeSessionKV(ctl.id)
    /\ ctl' = CtlServe
    /\ UNCHANGED <<agent, todo, sessions, obj, watch, cmd, store>>

ControlStep ==
    \/ RestartStop \/ RestartKill \/ RestartStopped \/ RestartWriteKV
    \/ RestartStart \/ RestartFailed \/ RestartTrack \/ ControlWriteKV

-----------------------------------------------------------------------------
(* watchSessionCrash                                                       *)

WatchAt(g, pc) == Alive /\ watch[g].pc = pc
WatchGoto(g, pc) == watch' = [watch EXCEPT ![g].pc = pc]

\* A slip: the stopping flag is not looked at.
WatchStoppingMutant(g) ==
    /\ WatchAt(g, "wait") /\ obj[g].proc = "done"
    /\ WatchGoto(g, "tracked")
    /\ UNCHANGED <<agent, todo, sessions, obj, cmd, ctl, kv, store>>

\* doneCh is closed: an intentional stop ends the watcher.
WatchStopping(g) ==
    /\ WatchAt(g, "wait") /\ obj[g].proc = "done"
    /\ WatchGoto(g, IF obj[g].stopping THEN "none" ELSE "tracked")
    /\ UNCHANGED <<agent, todo, sessions, obj, cmd, ctl, kv, store>>

\* So does a session that is no longer registered with this object.
WatchTracked(g) ==
    /\ WatchAt(g, "tracked")
    /\ WatchGoto(g, IF sessions[obj[g].id] = g THEN "write" ELSE "none")
    /\ UNCHANGED <<agent, todo, sessions, obj, cmd, ctl, kv, store>>

WatchWriteKV(g) ==
    /\ WatchAt(g, "write")
    /\ writeSessionKV(obj[g].id)
    /\ WatchGoto(g, "start")
    /\ UNCHANGED <<agent, todo, sessions, obj, cmd, ctl, store>>

WatchStart(g) ==
    /\ WatchAt(g, "start") /\ Startable(obj[g].id)
    /\ Start(obj[g].id)
    /\ watch' = [watch EXCEPT ![g] = [pc |-> "track", new |-> NewObject]]
    /\ UNCHANGED <<agent, todo, sessions, cmd, ctl, kv, store>>

\* The resume fails: session_failed is published and the watcher ends.
WatchFailed(g) ==
    /\ WatchAt(g, "start")
    /\ WatchGoto(g, "failed")
    /\ UNCHANGED <<agent, todo, sessions, obj, cmd, ctl, kv, store>>

\* The successor is registered and gets a watcher of its own.
WatchTrack(g) ==
    /\ WatchAt(g, "track")
    /\ sessions' = [sessions EXCEPT ![obj[g].id] = watch[g].new]
    /\ watch' = [watch EXCEPT ![g] = NoWatch, ![watch[g].new].pc = "wait"]
    /\ UNCHANGED <<agent, todo, obj, cmd, ctl, kv, store>>

WatchStep(g) ==
    \/ WatchStopping(g) \/ WatchTracked(g) \/ WatchWriteKV(g)
    \/ WatchStart(g) \/ WatchFailed(g) \/ WatchTrack(g)

-----------------------------------------------------------------------------
(* The goroutines of a started object                                      *)

\* The router handles an event and flushes the state; init ends the start-up
\* watch.
RouterEvent(g) ==
    /\ Alive /\ Live(g)
    /\ writeSessionKV(obj[g].id)
    /\ \E init \in BOOLEAN : obj' = [obj EXCEPT ![g].boot = @ /\ ~init]
    /\ UNCHANGED <<agent, todo, sessions, watch, cmd, ctl, store>>

\* startupTimeout: the state "failed" is flushed; the select may prefer the
\* timer to a closed doneCh.
StartupTimeout(g) ==
    /\ Alive /\ obj[g].boot
    /\ writeSessionKV(obj[g].id)
    /\ obj' = [obj EXCEPT ![g].boot = FALSE]
    /\ UNCHANGED <<agent, todo, sessions, watch, cmd, ctl, store>>

StartupDone(g) ==
    /\ Alive /\ obj[g].boot /\ obj[g].proc = "done"
    /\ obj' = [obj EXCEPT ![g].boot = FALSE]
    /\ UNCHANGED <<agent, todo, sessions, watch, cmd, ctl, kv, store>>

\* The Claude process exits by itself, or crashes.  The router drains stdout
\* and closes doneCh in the same step: nobody can tell the two apart.
ClaudeExits(g) ==
    /\ Live(g)
    /\ obj' = [obj EXCEPT ![g].proc = "done", ![g].crashed = ~obj[g].stopping]
    /\ UNCHANGED <<agent, todo, sessions, watch, cmd, ctl, kv, store>>

-----------------------------------------------------------------------------
(* Death and recovery of the agent                                         *)

\* The agent's process is killed.
AgentDies ==
    /\ Alive
    /\ agent' = "down" /\ MemoryLost
    /\ UNCHANGED <<kv, store>>

\* A new agent: recoverSessions reads the entries.
AgentStarts ==
    /\ ~Alive /\ deaths < MaxDeaths
    /\ agent' = "recover" /\ todo' = {kv[s] : s \in Slugs} \ {NoId} /\ deaths' = deaths + 1
    /\ UNCHANGED <<sessions, obj, watch, cmd, ctl, kv, slug, branch, worktrees, deleted>>

\* An entry is resumed, registered and watched.
RecoverSession(i) ==
    /\ agent = "recover" /\ i \in todo /\ Startable(i)
    /\ todo' = todo \ {i}
    /\ writeSessionKV(i)
    /\ Start(i)
    /\ sessions' = [sessions EXCEPT ![i] = NewObject]
    /\ watch' = [watch EXCEPT ![NewObject] = [pc |-> "wait", new |-> NoObject]]
    /\ UNCHANGED <<agent, cmd, ctl, store>>

\* Its resume fails: logged and skipped.
RecoverFailed(i) ==
    /\ agent = "recover" /\ i \in todo
    /\ todo' = todo \ {i}
    /\ UNCHANGED <<agent, sessions, obj, watch, cmd, ctl, kv, store>>

\* The consumers are created.
AgentServes ==
    /\ agent = "recover" /\ todo = {}
    /\ agent' = "up"
    /\ UNCHANGED <<todo, sessions, obj, watch, cmd, ctl, kv, store>>

RecoverStep ==
    \/ \E i \in Ids : RecoverFailed(i) \/ RecoverSession(i)
    \/ AgentServes

Next ==
    \/ \E i \in Ids, s \in Slugs, b \in Branches, join \in BOOLEAN : CreateCheck(i, s, b, join)
    \/ \E i \in Ids : DeleteTake(i) \/ RestartTake(i) \/ ControlTake(i)
    \/ CommandStep \/ ControlStep
    \/ \E g \in Objects : \/ WatchStep(g) \/ RouterEvent(g)
                          \/ StartupTimeout(g) \/ StartupDone(g) \/ ClaudeExits(g)
    \/ AgentDies \/ AgentStarts \/ RecoverStep

Spec == Init /\ [][Next]_vars

\* The goroutines of a living agent are scheduled; requests, crashes and the
\* death of the agent are not guaranteed.
FairSpec ==
    /\ Spec /\ WF_vars(CommandStep) /\ WF_vars(ControlStep) /\ WF_vars(RecoverStep)
    /\ \A g \in Objects : WF_vars(WatchStep(g))

-----------------------------------------------------------------------------
(* Properties                                                              *)

\* The stopping flag "distinguishes intentional stops from unexpected
\* crashes": a watcher respawns only a session whose process ended before
\* anyone asked it to stop.
IntentionalStopNotRespawned ==
    \A g \in Objects : watch[g].pc \in {"tracked", "write", "start", "track"} => obj[g].crashed

\* A process is resumed only when the process it replaces is gone: both
\* handleRestart and the watcher wait for doneCh.
ReplacedProcessGone ==
    /\ ctl.new # NoObject => ~Live(ctl.obj)
    /\ \A g \in Objects : watch[g].new # NoObject => ~Live(g)

\* The worktree of a registered session exists as long as nobody deletes that
\* session, whatever happens to the other sessions of the branch, to processes
\* and to the agent.
SharedWorktreeKept ==
    \A i \in Ids : (sessions[i] # NoObject /\ deleted[i] = "no") => branch[i] \in worktrees

\* A registered session that nobody deletes has a KV entry, so that a new agent
\* finds it: the entry is written before the session is started, and only
\* another session of the same name can take it away.
RegisteredIsDurable ==
    \A i \in Ids : (/\ sessions[i] # NoObject /\ deleted[i] = "no"
                   /\ \A j \in Ids \ {i} : slug[j] # slug[i]) => kv[slug[i]] = i

\* "Success: session disappears from KV": once handleDelete has finished, the
\* entry does not come back.
DeletedStaysGone ==
    \A i \in Ids : deleted[i] = "done" => \A s \in Slugs : kv[s] # i

\* "Error: publish api_error event": no request makes the agent panic.
RequestsDoNotPanic == agent # "panicked"

\* "Claude process crash: session-agent detects exit, publishes lifecycle event,
\* auto-restarts with --resume": a registered session whose process ended
\* without a stop is replaced, unless its resume fails.
CrashedIsReplaced ==
    \A i \in Ids, g \in Objects :
        (Up /\ sessions[i] = g /\ obj[g].proc = "done" /\ ~obj[g].stopping)
        ~> (sessions[i] # g \/ obj[g].stopping \/ watch[g].pc = "failed" \/ ~Alive)
=============================================================================
