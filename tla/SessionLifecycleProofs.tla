----------------------- MODULE SessionLifecycleProofs -----------------------
(***************************************************************************)
(* Theorems about SessionLifecycle, for any number of sessions, names,     *)
(* branches, objects and deaths of the agent.                              *)
(***************************************************************************)
EXTENDS SessionLifecycle, TLAPS

\* The control points at which a watcher has decided to respawn.
Respawning == {"tracked", "write", "start", "track"}

\* A process that ended was asked to stop or crashed.
EndedInv == \A g \in Objects : obj[g].proc = "done" => (obj[g].stopping \/ obj[g].crashed)

\* The goroutines that wait in stopAndWait have set the flag, so that the kill
\* at the timeout is not taken for a crash.
WaitInv ==
    /\ cmd.pc = "wait" => obj[cmd.obj].stopping
    /\ ctl.pc = "wait" => obj[ctl.obj].stopping

\* What a respawning watcher knows of the object it replaces.
WatchInv ==
    \A g \in Objects : watch[g].pc \in Respawning => (obj[g].proc = "done" /\ obj[g].crashed)

\* What a restart knows of the object it replaces, past its wait.
RestartInv ==
    /\ ctl.pc \in {"write", "start", "track"} => obj[ctl.obj].proc = "done"
    /\ ctl.new # NoObject => ctl.pc = "track"

\* A successor belongs to one watcher and has no watcher of its own yet.
SuccessorInv ==
    \A g \in Objects :
        /\ watch[g].pc = "track" <=> watch[g].new # NoObject
        /\ watch[g].pc = "track" =>
              /\ watch[watch[g].new].pc \in {"none", "failed"}
              /\ \A h \in Objects : watch[h].new = watch[g].new => h = g

IInv == TypeOK /\ EndedInv /\ WaitInv /\ WatchInv /\ RestartInv /\ SuccessorInv

-----------------------------------------------------------------------------
(* Lemmas about the operators                                              *)

\* newSession returns an object nobody refers to.
LEMMA NewObjectUnused ==
    ASSUME NEW i, Startable(i) PROVE NewObject \in Objects /\ Unused(NewObject)
  BY DEF Startable, NewObject

\* Starting a session keeps the objects well typed.
LEMMA StartType ==
    ASSUME TypeOK, NEW i \in Ids \cup {NoId}, Startable(i), Start(i)
    PROVE  obj' \in [Objects -> ObjectType]
  <1>1. NewObject \in Objects
    BY NewObjectUnused
  <1>2. [id |-> i, proc |-> "up", stopping |-> FALSE, boot |-> TRUE, crashed |-> FALSE]
          \in ObjectType
    BY DEF ObjectType
  <1> QED
    BY <1>1, <1>2 DEF TypeOK, Start

\* So does the write of an entry.
LEMMA WriteType ==
    ASSUME TypeOK, NEW i \in Ids \cup {NoId}, writeSessionKV(i)
    PROVE  kv' \in [Slugs -> Ids \cup {NoId}]
  BY DEF TypeOK, writeSessionKV

\* The agent's memory as it is at the start.
LEMMA ServeType == CmdServe \in CommandType /\ CtlServe \in ControlType
                   /\ FreeObject \in ObjectType /\ NoWatch \in WatchType
  BY DEF CmdServe, CtlServe, FreeObject, NoWatch, CommandType, ControlType, ObjectType, WatchType

\* NewAgent leaves every part of the invariant true.
LEMMA InitInv == Init => IInv
  <1> SUFFICES ASSUME Init PROVE IInv
    OBVIOUS
  <1>1. TypeOK
    BY ServeType, ConstantsAssumption DEF Init, TypeOK, CmdServe, CtlServe
  <1>2. EndedInv /\ WaitInv
    BY DEF Init, EndedInv, WaitInv, FreeObject, CmdServe, CtlServe
  <1>3. WatchInv /\ RestartInv /\ SuccessorInv
    BY DEF Init, WatchInv, RestartInv, SuccessorInv, NoWatch, CtlServe, Respawning
  <1> QED
    BY <1>1, <1>2, <1>3 DEF IInv

\* A dead agent has no object, watcher or request left (AgentDies, a panic).
LEMMA MemoryLostInv ==
    ASSUME IInv, MemoryLost, agent' \in {"down", "panicked"}, UNCHANGED <<kv, store>>
    PROVE  IInv'
  <1>1. TypeOK'
    BY ServeType DEF IInv, TypeOK, MemoryLost, store, CmdServe, CtlServe
  <1>2. EndedInv' /\ WaitInv'
    BY DEF MemoryLost, EndedInv, WaitInv, FreeObject, CmdServe, CtlServe
  <1>3. WatchInv' /\ RestartInv' /\ SuccessorInv'
    BY DEF MemoryLost, WatchInv, RestartInv, SuccessorInv, NoWatch, CtlServe, Respawning
  <1> QED
    BY <1>1, <1>2, <1>3 DEF IInv

\* What the invariant says depends on the objects only through their process
\* and the two flags.
LEMMA SameObjects ==
    ASSUME IInv, TypeOK', UNCHANGED <<watch, cmd, ctl>>,
           \A g \in Objects : /\ obj'[g].proc = obj[g].proc
                              /\ obj'[g].stopping = obj[g].stopping
                              /\ obj'[g].crashed = obj[g].crashed
    PROVE  IInv'
  <1>1. (cmd.pc = "wait" => cmd.obj \in Objects) /\ (ctl.pc # "serve" => ctl.obj \in Objects)
    BY DEF IInv, TypeOK
  <1>2. EndedInv' /\ WatchInv'
    BY DEF IInv, EndedInv, WatchInv
  <1>3. WaitInv' /\ RestartInv'
    BY <1>1 DEF IInv, WaitInv, RestartInv
  <1>4. SuccessorInv'
    BY DEF IInv, SuccessorInv
  <1> QED
    BY <1>2, <1>3, <1>4 DEF IInv

\* A step of the command goroutine that touches no object and does not enter
\* the wait of stopAndWait.
LEMMA CommandFrame ==
    ASSUME IInv, TypeOK', UNCHANGED <<obj, watch, ctl>>, cmd'.pc # "wait"
    PROVE  IInv'
  BY DEF IInv, EndedInv, WaitInv, WatchInv, RestartInv, SuccessorInv

\* Likewise of the control goroutine, before the stop or back to serving.
LEMMA ControlFrame ==
    ASSUME IInv, TypeOK', UNCHANGED <<obj, watch, cmd>>,
           ctl'.pc \in {"serve", "stop", "answer"}, ctl'.new = NoObject
    PROVE  IInv'
  BY DEF IInv, EndedInv, WaitInv, WatchInv, RestartInv, SuccessorInv

\* A started object is nobody's: what is known of all other objects stays true.
LEMMA StartFacts ==
    ASSUME IInv, NEW i \in Ids \cup {NoId}, Startable(i), Start(i)
    PROVE  /\ NewObject \in Objects /\ watch[NewObject].pc \in {"none", "failed"}
           /\ NewObject \notin {cmd.obj, ctl.obj, ctl.new}
           /\ \A h \in Objects : watch[h].new # NewObject
           /\ \A g \in Objects \ {NewObject} : obj'[g] = obj[g]
           /\ obj'[NewObject].proc = "up"
           /\ obj' \in [Objects -> ObjectType]
           /\ EndedInv' 
  <1>1. NewObject \in Objects /\ Unused(NewObject)
    BY NewObjectUnused
  <1>2. TypeOK
    BY DEF IInv
  <1>3. obj' \in [Objects -> ObjectType]
    BY <1>2, StartType
  <1>4. /\ \A g \in Objects \ {NewObject} : obj'[g] = obj[g]
        /\ obj'[NewObject].proc = "up"
    BY <1>1, <1>2 DEF Start, TypeOK
  <1>5. EndedInv'
    BY <1>1, <1>4 DEF IInv, EndedInv
  <1> QED
    BY <1>1, <1>3, <1>4, <1>5 DEF Unused

\* A successor that is registered and watched at once (handleCreate,
\* recoverSessions).
LEMMA StartWatched ==
    ASSUME IInv, TypeOK', NEW i \in Ids \cup {NoId}, Startable(i), Start(i),
           watch' = [watch EXCEPT ![NewObject] = [pc |-> "wait", new |-> NoObject]],
           UNCHANGED ctl, UNCHANGED cmd \/ cmd'.pc # "wait"
    PROVE  IInv'
  <1>0. TypeOK
    BY DEF IInv
  <1>1. /\ NewObject \in Objects /\ watch[NewObject].pc \in {"none", "failed"}
        /\ NewObject \notin {cmd.obj, ctl.obj, ctl.new}
        /\ \A h \in Objects : watch[h].new # NewObject
        /\ \A g \in Objects \ {NewObject} : obj'[g] = obj[g]
        /\ EndedInv'
    BY StartFacts
  <1>2. /\ watch'[NewObject] = [pc |-> "wait", new |-> NoObject]
        /\ \A g \in Objects \ {NewObject} : watch'[g] = watch[g]
    BY <1>0, <1>1 DEF TypeOK
  <1>3. WaitInv' /\ RestartInv'
    BY <1>0, <1>1 DEF IInv, TypeOK, WaitInv, RestartInv
  <1>4. WatchInv'
    BY <1>1, <1>2 DEF IInv, WatchInv, Respawning
  <1>5. SuccessorInv'
    <2>1. \A g \in Objects : watch[g].pc = "track" => watch[g].new \in Objects \ {NewObject}
      BY <1>0, <1>1 DEF IInv, TypeOK, WatchType, SuccessorInv
    <2> QED
      BY <1>1, <1>2, <2>1 DEF IInv, SuccessorInv
  <1> QED
    BY <1>1, <1>3, <1>4, <1>5 DEF IInv

\* stopAndWait sets the flag of an object: nothing said of a process or of a
\* crash changes.
LEMMA StopBeginInv ==
    ASSUME IInv, NEW g \in Objects, StopBegin(g)
    PROVE  /\ obj' \in [Objects -> ObjectType] /\ obj'[g].stopping
           /\ \A h \in Objects : /\ obj'[h].proc = obj[h].proc
                                 /\ obj'[h].crashed = obj[h].crashed
                                 /\ obj[h].stopping => obj'[h].stopping
           /\ EndedInv' /\ WatchInv' /\ SuccessorInv'
  <1>0. obj \in [Objects -> ObjectType]
    BY DEF IInv, TypeOK
  <1>1. obj' \in [Objects -> ObjectType]
    BY <1>0 DEF StopBegin, ObjectType
  <1>2. obj'[g].stopping
    BY <1>0 DEF StopBegin, ObjectType
  <1>3. \A h \in Objects : /\ obj'[h].proc = obj[h].proc
                           /\ obj'[h].crashed = obj[h].crashed
                           /\ obj[h].stopping => obj'[h].stopping
    BY <1>0, <1>2 DEF StopBegin, ObjectType
  <1>4. EndedInv' /\ WatchInv'
    BY <1>3 DEF IInv, EndedInv, WatchInv, StopBegin
  <1>5. SuccessorInv'
    BY DEF IInv, SuccessorInv, StopBegin
  <1> QED
    BY <1>1, <1>2, <1>3, <1>4, <1>5

\* A kill at the timeout ends a process whose flag is set.
LEMMA KillInv ==
    ASSUME IInv, NEW g \in Objects, obj[g].stopping, Kill(g),
           UNCHANGED <<agent, todo, sessions, watch, cmd, ctl, kv, store>>
    PROVE  IInv'
  <1>0. obj \in [Objects -> ObjectType] /\ TypeOK
    BY DEF IInv, TypeOK
  <1>1. obj' \in [Objects -> ObjectType]
    BY <1>0 DEF Kill, ObjectType
  <1>2. /\ \A h \in Objects : /\ obj'[h].crashed = obj[h].crashed
                              /\ obj'[h].stopping = obj[h].stopping
                              /\ obj[h].proc = "done" => obj'[h].proc = "done"
                              /\ h # g => obj'[h].proc = obj[h].proc
    BY <1>0 DEF Kill, ObjectType
  <1>3. TypeOK'
    BY <1>0, <1>1 DEF TypeOK, store
  <1>4. EndedInv' /\ WatchInv'
    BY <1>2 DEF IInv, EndedInv, WatchInv
  <1>5. WaitInv' /\ RestartInv'
    BY <1>0, <1>2 DEF IInv, TypeOK, WaitInv, RestartInv
  <1>6. SuccessorInv'
    BY DEF IInv, SuccessorInv
  <1> QED
    BY <1>3, <1>4, <1>5, <1>6 DEF IInv

-----------------------------------------------------------------------------
(* The invariant is inductive: one lemma per goroutine                     *)

\* handleCreate and handleDelete.
LEMMA CommandInv ==
    ASSUME IInv,
           CommandStep \/ (\E i \in Ids : DeleteTake(i))
             \/ \E i \in Ids, s \in Slugs, b \in Branches, join \in BOOLEAN : CreateCheck(i, s, b, join)
    PROVE  IInv'
  <1>0. TypeOK
    BY DEF IInv
  <1>1. ASSUME NEW i \in Ids, NEW s \in Slugs, NEW b \in Branches, NEW join \in BOOLEAN,
               CreateCheck(i, s, b, join)
        PROVE  IInv'
    <2>1. cmd' \in CommandType /\ cmd'.pc = "kv"
      BY <1>1 DEF CreateCheck, CmdServe, CommandType
    <2>2. worktrees' = worktrees \/ worktrees' = worktrees \cup {b}
      BY <1>1 DEF CreateCheck
    <2>3. worktrees' \in SUBSET Branches
      BY <1>0, <2>2 DEF TypeOK
    <2>4. /\ branch' = [branch EXCEPT ![i] = b] /\ slug' = [slug EXCEPT ![i] = s]
          /\ UNCHANGED <<agent, todo, sessions, obj, watch, ctl, kv, deleted, deaths>>
      BY <1>1 DEF CreateCheck
    <2>5. TypeOK'
      BY <1>0, <2>1, <2>3, <2>4 DEF TypeOK
    <2> QED
      BY <2>1, <2>4, <2>5, CommandFrame
  <1>2. CASE CreateWriteKV
    <2>1. cmd' \in CommandType /\ cmd'.pc = "start" /\ cmd.id \in Ids \cup {NoId}
      BY <1>0, <1>2 DEF CreateWriteKV, TypeOK, CommandType
    <2>2. kv' \in [Slugs -> Ids \cup {NoId}]
      BY <1>0, <1>2, <2>1, WriteType DEF CreateWriteKV
    <2>3. TypeOK'
      BY <1>0, <1>2, <2>1, <2>2 DEF CreateWriteKV, TypeOK, store
    <2> QED
      BY <1>2, <2>1, <2>3, CommandFrame DEF CreateWriteKV
  <1>3. CASE CreateStart
    <2>1. cmd.id \in Ids \cup {NoId} /\ Startable(cmd.id) /\ Start(cmd.id)
      BY <1>0, <1>3 DEF CreateStart, TypeOK, CommandType
    <2>2. NewObject \in Objects /\ obj' \in [Objects -> ObjectType]
      BY <2>1, StartFacts
    <2>3. [pc |-> "wait", new |-> NoObject] \in WatchType
      BY DEF WatchType
    <2>4. TypeOK'
      BY <1>0, <1>3, <2>2, <2>3, ServeType DEF CreateStart, TypeOK, store, CmdServe
    <2>5. cmd'.pc # "wait" /\ UNCHANGED ctl
          /\ watch' = [watch EXCEPT ![NewObject] = [pc |-> "wait", new |-> NoObject]]
      BY <1>3 DEF CreateStart, CmdServe
    <2> QED
      BY <2>1, <2>4, <2>5, StartWatched
  <1>4. CASE CreateFailed
    <2>1. TypeOK' /\ cmd'.pc # "wait"
      BY <1>0, <1>4, ServeType DEF CreateFailed, TypeOK, store, CmdServe
    <2> QED
      BY <1>4, <2>1, CommandFrame DEF CreateFailed
  <1>5. ASSUME NEW i \in Ids, DeleteTake(i) PROVE IInv'
    <2>1. sessions[i] \in Objects /\ cmd' \in CommandType /\ cmd'.pc = "stop" /\ cmd'.obj \in Objects
      BY <1>0, <1>5 DEF DeleteTake, TypeOK, CommandType
    <2>2. TypeOK'
      BY <1>0, <1>5, <2>1 DEF DeleteTake, TypeOK
    <2> QED
      BY <1>5, <2>1, <2>2, CommandFrame DEF DeleteTake
  <1>6. CASE DeleteStop
    <2>1. CASE Panic(cmd.obj)
      BY <1>6, <2>1, MemoryLostInv DEF DeleteStop, Panic
    <2>2. CASE StopBegin(cmd.obj) /\ cmd' = [cmd EXCEPT !.pc = "wait"] /\ UNCHANGED ctl
      <3>1. cmd.obj \in Objects /\ cmd' \in CommandType /\ cmd'.obj = cmd.obj
        BY <1>0, <1>6, <2>2 DEF DeleteStop, TypeOK, CommandType
      <3>2. /\ obj' \in [Objects -> ObjectType] /\ obj'[cmd.obj].stopping
            /\ \A h \in Objects : /\ obj'[h].proc = obj[h].proc
                                  /\ obj[h].stopping => obj'[h].stopping
            /\ EndedInv' /\ WatchInv' /\ SuccessorInv'
        BY <2>2, <3>1, StopBeginInv
      <3>3. TypeOK'
        BY <1>0, <1>6, <2>2, <3>1, <3>2 DEF DeleteStop, StopBegin, TypeOK, store
      <3>4. WaitInv' /\ RestartInv'
        BY <1>0, <2>2, <3>1, <3>2 DEF IInv, TypeOK, WaitInv, RestartInv
      <3> QED
        BY <3>2, <3>3, <3>4 DEF IInv
    <2> QED
      BY <1>6, <2>1, <2>2 DEF DeleteStop
  <1>7. CASE DeleteKill
    <2>1. cmd.obj \in Objects /\ obj[cmd.obj].stopping
      BY <1>0, <1>7 DEF DeleteKill, IInv, WaitInv, TypeOK
    <2> QED
      BY <1>7, <2>1, KillInv DEF DeleteKill
  <1>8. CASE DeleteStopped
    <2>1. TypeOK' /\ cmd'.pc # "wait"
      BY <1>0, <1>8 DEF DeleteStopped, TypeOK, store, CommandType
    <2> QED
      BY <1>8, <2>1, CommandFrame DEF DeleteStopped
  <1>9. CASE DeleteWorktree
    <2>1. worktrees' \in SUBSET Branches
      BY <1>0, <1>9 DEF DeleteWorktree, TypeOK
    <2>2. TypeOK' /\ cmd'.pc # "wait"
      BY <1>0, <1>9, <2>1 DEF DeleteWorktree, TypeOK, CommandType
    <2> QED
      BY <1>9, <2>2, CommandFrame DEF DeleteWorktree
  <1>10. CASE DeleteKV
    <2>1. TypeOK' /\ cmd'.pc # "wait"
      BY <1>0, <1>10, ServeType DEF DeleteKV, TypeOK, CmdServe
    <2> QED
      BY <1>10, <2>1, CommandFrame DEF DeleteKV
  <1> QED
    BY <1>1, <1>2, <1>3, <1>4, <1>5, <1>6, <1>7, <1>8, <1>9, <1>10 DEF CommandStep

\* handleRestart and handleControl.
LEMMA ControlInv ==
    ASSUME IInv, ControlStep \/ \E i \in Ids : RestartTake(i) \/ ControlTake(i)
    PROVE  IInv'
  <1>0. TypeOK /\ ctl.id \in Ids \cup {NoId}
    BY DEF IInv, TypeOK, ControlType
  <1>1. ASSUME NEW i \in Ids, RestartTake(i) \/ ControlTake(i) PROVE IInv'
    <2>1. sessions[i] \in Objects
      BY <1>0, <1>1 DEF RestartTake, ControlTake, TypeOK
    <2>2. /\ ctl' \in ControlType /\ ctl'.pc \in {"stop", "answer"} /\ ctl'.obj \in Objects
          /\ ctl'.new = NoObject
      BY <1>1, <2>1 DEF RestartTake, ControlTake, CtlServe, ControlType
    <2>3. UNCHANGED <<agent, todo, sessions, obj, watch, cmd, kv, store>>
      BY <1>1 DEF RestartTake, ControlTake
    <2>4. TypeOK'
      BY <1>0, <2>2, <2>3 DEF TypeOK, store
    <2> QED
      BY <2>2, <2>3, <2>4, ControlFrame
  <1>2. CASE RestartStop
    <2>1. CASE Panic(ctl.obj)
      BY <1>2, <2>1, MemoryLostInv DEF RestartStop, Panic
    <2>2. CASE StopBegin(ctl.obj) /\ ctl' = [ctl EXCEPT !.pc = "wait"] /\ UNCHANGED cmd
      <3>1. /\ ctl.obj \in Objects /\ ctl' \in ControlType /\ ctl'.obj = ctl.obj
            /\ ctl'.pc = "wait" /\ ctl'.new = NoObject
        BY <1>0, <1>2, <2>2 DEF RestartStop, TypeOK, ControlType, IInv, RestartInv
      <3>2. /\ obj' \in [Objects -> ObjectType] /\ obj'[ctl.obj].stopping
            /\ \A h \in Objects : /\ obj'[h].proc = obj[h].proc
                                  /\ obj[h].stopping => obj'[h].stopping
            /\ EndedInv' /\ WatchInv' /\ SuccessorInv'
        BY <2>2, <3>1, StopBeginInv
      <3>3. TypeOK'
        BY <1>0, <1>2, <2>2, <3>1, <3>2 DEF RestartStop, StopBegin, TypeOK, store
      <3>4. WaitInv' /\ RestartInv'
        BY <1>0, <2>2, <3>1, <3>2 DEF IInv, TypeOK, WaitInv, RestartInv
      <3> QED
        BY <3>2, <3>3, <3>4 DEF IInv
    <2> QED
      BY <1>2, <2>1, <2>2 DEF RestartStop
  <1>3. CASE RestartKill
    <2>1. ctl.obj \in Objects /\ obj[ctl.obj].stopping
      BY <1>0, <1>3 DEF RestartKill, IInv, WaitInv, TypeOK
    <2> QED
      BY <1>3, <2>1, KillInv DEF RestartKill
  <1>4. CASE RestartStopped
    <2>1. /\ ctl' \in ControlType /\ ctl'.pc = "write" /\ ctl'.obj = ctl.obj
          /\ ctl.obj \in Objects /\ ctl'.new = NoObject /\ obj[ctl.obj].proc = "done"
      BY <1>0, <1>4 DEF RestartStopped, TypeOK, ControlType, IInv, RestartInv
    <2>2. UNCHANGED <<agent, todo, sessions, obj, watch, cmd, kv, store>>
      BY <1>4 DEF RestartStopped
    <2>3. TypeOK'
      BY <1>0, <2>1, <2>2 DEF TypeOK, store
    <2> QED
      BY <2>1, <2>2, <2>3 DEF IInv, EndedInv, WaitInv, WatchInv, RestartInv, SuccessorInv
  <1>5. CASE RestartWriteKV
    <2>1. /\ ctl' \in ControlType /\ ctl'.pc = "start" /\ ctl'.obj = ctl.obj
          /\ ctl.obj \in Objects /\ ctl'.new = NoObject /\ obj[ctl.obj].proc = "done"
      BY <1>0, <1>5 DEF RestartWriteKV, TypeOK, ControlType, IInv, RestartInv
    <2>2. UNCHANGED <<agent, todo, sessions, obj, watch, cmd, store>>
      BY <1>5 DEF RestartWriteKV
    <2>3. kv' \in [Slugs -> Ids \cup {NoId}]
      BY <1>0, <1>5, WriteType DEF RestartWriteKV
    <2>4. TypeOK'
      BY <1>0, <2>1, <2>2, <2>3 DEF TypeOK, store
    <2> QED
      BY <2>1, <2>2, <2>4 DEF IInv, EndedInv, WaitInv, WatchInv, RestartInv, SuccessorInv
  <1>6. CASE RestartStart
    <2>1. Startable(ctl.id) /\ Start(ctl.id)
      BY <1>6 DEF RestartStart
    <2>2. /\ NewObject \in Objects /\ watch[NewObject].pc \in {"none", "failed"}
          /\ NewObject \notin {cmd.obj, ctl.obj, ctl.new}
          /\ \A h \in Objects : watch[h].new # NewObject
          /\ \A g \in Objects \ {NewObject} : obj'[g] = obj[g]
          /\ obj' \in [Objects -> ObjectType] /\ EndedInv'
      BY <1>0, <2>1, StartFacts
    <2>3. /\ ctl' \in ControlType /\ ctl'.pc = "track" /\ ctl'.obj = ctl.obj
          /\ ctl.obj \in Objects /\ obj[ctl.obj].proc = "done"
      BY <1>0, <1>6, <2>2 DEF RestartStart, TypeOK, ControlType, IInv, RestartInv
    <2>4. UNCHANGED <<agent, todo, sessions, watch, cmd, kv, store>>
      BY <1>6 DEF RestartStart
    <2>5. TypeOK'
      BY <1>0, <2>2, <2>3, <2>4 DEF TypeOK, store
    <2>6. WaitInv' /\ RestartInv'
      BY <1>0, <2>2, <2>3, <2>4 DEF IInv, TypeOK, WaitInv, RestartInv
    <2>7. WatchInv' /\ SuccessorInv'
      BY <2>2, <2>4 DEF IInv, WatchInv, SuccessorInv, Respawning
    <2> QED
      BY <2>2, <2>5, <2>6, <2>7 DEF IInv
  <1>7. CASE RestartFailed
    <2>1. TypeOK' /\ ctl'.pc = "serve" /\ ctl'.new = NoObject
      BY <1>0, <1>7, ServeType DEF RestartFailed, TypeOK, store, CtlServe
    <2> QED
      BY <1>7, <2>1, ControlFrame DEF RestartFailed
  <1>8. CASE RestartTrack
    <2>1. ctl.new \in Objects \cup {NoObject}
      BY <1>0 DEF TypeOK, ControlType
    <2>2. TypeOK' /\ ctl'.pc = "serve" /\ ctl'.new = NoObject
      BY <1>0, <1>8, <2>1, ServeType DEF RestartTrack, TypeOK, store, CtlServe
    <2> QED
      BY <1>8, <2>2, ControlFrame DEF RestartTrack
  <1>9. CASE ControlWriteKV
    <2>1. kv' \in [Slugs -> Ids \cup {NoId}]
      BY <1>0, <1>9, WriteType DEF ControlWriteKV
    <2>2. TypeOK' /\ ctl'.pc = "serve" /\ ctl'.new = NoObject
      BY <1>0, <1>9, <2>1, ServeType DEF ControlWriteKV, TypeOK, store, CtlServe
    <2> QED
      BY <1>9, <2>2, ControlFrame DEF ControlWriteKV
  <1> QED
    BY <1>1, <1>2, <1>3, <1>4, <1>5, <1>6, <1>7, <1>8, <1>9 DEF ControlStep

\* watchSessionCrash.
LEMMA WatchStepInv == ASSUME IInv, NEW g \in Objects, WatchStep(g) PROVE IInv'
  <1>0. TypeOK /\ watch[g] \in WatchType /\ obj[g] \in ObjectType /\ obj[g].id \in Ids \cup {NoId}
    BY DEF IInv, TypeOK, ObjectType
  \* A watcher that moves on, without a successor.
  <1>a. ASSUME NEW pc \in {"none", "tracked", "write", "start", "failed"}, watch[g].pc # "track",
               WatchGoto(g, pc), kv' \in [Slugs -> Ids \cup {NoId}],
               pc \in Respawning => (obj[g].proc = "done" /\ obj[g].crashed),
               watch[g].pc \in {"none", "failed"} => pc \in {"none", "failed"},
               UNCHANGED <<agent, todo, sessions, obj, cmd, ctl, store>>
        PROVE  IInv'
    <2>0. \A h \in Objects : watch[h].pc = "track" => watch[h].new \in Objects
      BY <1>0 DEF IInv, TypeOK, WatchType, SuccessorInv
    <2>1. /\ watch' \in [Objects -> WatchType] /\ watch'[g].pc = pc /\ watch'[g].new = watch[g].new
          /\ \A h \in Objects \ {g} : watch'[h] = watch[h]
      BY <1>0, <1>a DEF WatchGoto, TypeOK, WatchType
    <2>2. TypeOK'
      BY <1>0, <1>a, <2>1 DEF TypeOK, store
    <2>3. EndedInv' /\ WaitInv' /\ RestartInv'
      BY <1>a DEF IInv, EndedInv, WaitInv, RestartInv
    <2>4. WatchInv'
      BY <1>a, <2>1 DEF IInv, WatchInv
    <2>5. \A h \in Objects : /\ watch'[h].pc = "track" <=> watch[h].pc = "track"
                             /\ watch'[h].new = watch[h].new
      BY <1>a, <2>1
    <2>6. \A h \in Objects : watch[h].pc \in {"none", "failed"} => watch'[h].pc \in {"none", "failed"}
      BY <1>a, <2>1
    <2>7. SuccessorInv'
      BY <2>0, <2>5, <2>6 DEF IInv, SuccessorInv
    <2> QED
      BY <2>2, <2>3, <2>4, <2>7 DEF IInv
  <1>1. CASE WatchStopping(g)
    <2>1. ~obj[g].stopping => obj[g].crashed
      BY <1>1 DEF WatchStopping, IInv, EndedInv
    <2>2. /\ WatchGoto(g, IF obj[g].stopping THEN "none" ELSE "tracked") /\ watch[g].pc = "wait"
          /\ obj[g].proc = "done" /\ UNCHANGED <<agent, todo, sessions, obj, cmd, ctl, kv, store>>
      BY <1>1 DEF WatchStopping, WatchAt
    <2> QED
      BY <1>0, <1>a, <2>1, <2>2 DEF Respawning, TypeOK
  <1>2. CASE WatchTracked(g)
    <2>1. /\ WatchGoto(g, IF sessions[obj[g].id] = g THEN "write" ELSE "none")
          /\ watch[g].pc = "tracked" /\ UNCHANGED <<agent, todo, sessions, obj, cmd, ctl, kv, store>>
      BY <1>2 DEF WatchTracked, WatchAt
    <2>2. obj[g].proc = "done" /\ obj[g].crashed
      BY <2>1 DEF IInv, WatchInv, Respawning
    <2> QED
      BY <1>0, <1>a, <2>1, <2>2 DEF Respawning, TypeOK
  <1>3. CASE WatchWriteKV(g)
    <2>1. kv' \in [Slugs -> Ids \cup {NoId}]
      BY <1>0, <1>3, WriteType DEF WatchWriteKV
    <2>2. /\ WatchGoto(g, "start") /\ watch[g].pc = "write"
          /\ UNCHANGED <<agent, todo, sessions, obj, cmd, ctl, store>>
      BY <1>3 DEF WatchWriteKV, WatchAt
    <2>3. obj[g].proc = "done" /\ obj[g].crashed
      BY <2>2 DEF IInv, WatchInv, Respawning
    <2> QED
      BY <1>a, <2>1, <2>2, <2>3
  <1>4. CASE WatchStart(g)
    <2>1. Startable(obj[g].id) /\ Start(obj[g].id) /\ watch[g].pc = "start"
      BY <1>4 DEF WatchStart, WatchAt
    <2>2. /\ NewObject \in Objects /\ watch[NewObject].pc \in {"none", "failed"}
          /\ NewObject \notin {cmd.obj, ctl.obj, ctl.new}
          /\ \A h \in Objects : watch[h].new # NewObject
          /\ \A h \in Objects \ {NewObject} : obj'[h] = obj[h]
          /\ obj' \in [Objects -> ObjectType] /\ EndedInv'
      BY <1>0, <2>1, StartFacts
    <2>3. /\ NewObject # g /\ NewObject # NoObject
          /\ [pc |-> "track", new |-> NewObject] \in WatchType
      BY <2>1, <2>2, ConstantsAssumption DEF WatchType
    <2>4. UNCHANGED <<agent, todo, sessions, cmd, ctl, kv, store>>
      BY <1>4 DEF WatchStart
    <2>5. /\ watch' \in [Objects -> WatchType] /\ watch'[g] = [pc |-> "track", new |-> NewObject]
          /\ \A h \in Objects \ {g} : watch'[h] = watch[h]
      BY <1>0, <1>4, <2>3 DEF WatchStart, TypeOK
    <2>6. TypeOK'
      BY <1>0, <2>2, <2>4, <2>5 DEF TypeOK, store
    <2>7. WaitInv' /\ RestartInv'
      BY <1>0, <2>2, <2>4 DEF IInv, TypeOK, WaitInv, RestartInv
    <2>8. WatchInv'
      BY <2>1, <2>2, <2>3, <2>5 DEF IInv, WatchInv, Respawning
    <2>9. SuccessorInv'
      <3>1. \A h \in Objects : watch[h].pc = "track" => watch[h].new \in Objects \ {g}
        BY <1>0, <2>1 DEF IInv, TypeOK, WatchType, SuccessorInv
      <3> QED
        BY <2>1, <2>2, <2>3, <2>5, <3>1 DEF IInv, SuccessorInv
    <2> QED
      BY <2>2, <2>6, <2>7, <2>8, <2>9 DEF IInv
  <1>5. CASE WatchFailed(g)
    <2>1. /\ WatchGoto(g, "failed") /\ watch[g].pc = "start"
          /\ UNCHANGED <<agent, todo, sessions, obj, cmd, ctl, kv, store>>
      BY <1>5 DEF WatchFailed, WatchAt
    <2> QED
      BY <1>0, <1>a, <2>1 DEF Respawning, TypeOK
  <1>6. CASE WatchTrack(g)
    <2> DEFINE n == watch[g].new
    <2>1. watch[g].pc = "track" /\ UNCHANGED <<agent, todo, obj, cmd, ctl, kv, store>>
      BY <1>6 DEF WatchTrack, WatchAt
    <2>2. /\ n \in Objects /\ n # g /\ watch[n].pc \in {"none", "failed"} /\ watch[n].new = NoObject
          /\ \A h \in Objects : watch[h].new = n => h = g
      BY <1>0, <2>1 DEF IInv, TypeOK, WatchType, SuccessorInv
    <2>3. /\ watch'[g] = NoWatch /\ watch'[n] = [watch[n] EXCEPT !.pc = "wait"]
          /\ \A h \in Objects \ {g, n} : watch'[h] = watch[h]
          /\ watch' \in [Objects -> WatchType]
      BY <1>0, <1>6, <2>2, ServeType DEF WatchTrack, TypeOK, WatchType
    <2>4. watch'[n].pc = "wait" /\ watch'[n].new = NoObject
      BY <1>0, <2>2, <2>3 DEF TypeOK, WatchType
    <2>5. TypeOK'
      BY <1>0, <1>6, <2>1, <2>2, <2>3 DEF WatchTrack, TypeOK, store
    <2>6. EndedInv' /\ WaitInv' /\ RestartInv'
      BY <2>1 DEF IInv, EndedInv, WaitInv, RestartInv
    <2>7. WatchInv'
      BY <2>1, <2>3, <2>4 DEF IInv, WatchInv, Respawning, NoWatch
    <2>8. SuccessorInv'
      <3>1. \A h \in Objects : watch[h].pc = "track" => watch[h].new \in Objects \ {g}
        BY <1>0, <2>1 DEF IInv, TypeOK, WatchType, SuccessorInv
      <3>2. watch'[g].pc = "none" /\ watch'[g].new = NoObject
        BY <2>3 DEF NoWatch
      <3>3. \A h \in Objects \ {g} : /\ watch'[h].new = watch[h].new
                                     /\ watch'[h].pc = "track" <=> watch[h].pc = "track"
        BY <2>2, <2>3, <2>4
      <3>4. \A h \in Objects : watch[h].pc = "track" /\ h # g => watch[h].new # n
        BY <2>2
      <3>5. \A h \in Objects \ {n} : watch[h].pc \in {"none", "failed"}
                                     => watch'[h].pc \in {"none", "failed"}
        BY <2>3, <3>2
      <3>6. SuccessorInv
        BY DEF IInv
      <3>7. \A h \in Objects : watch'[h].pc = "track" <=> watch'[h].new # NoObject
        BY <3>2, <3>3, <3>6 DEF SuccessorInv
      <3>8. ASSUME NEW h \in Objects, watch'[h].pc = "track"
            PROVE  /\ watch'[watch'[h].new].pc \in {"none", "failed"}
                   /\ \A k \in Objects : watch'[k].new = watch'[h].new => k = h
        <4>1. h # g /\ watch[h].pc = "track" /\ watch'[h].new = watch[h].new
          BY <3>2, <3>3, <3>8
        <4>2. watch[h].new \in Objects \ {g, n} /\ watch[watch[h].new].pc \in {"none", "failed"}
          BY <3>1, <3>4, <3>6, <4>1 DEF SuccessorInv
        <4>3. watch'[watch'[h].new].pc \in {"none", "failed"}
          BY <3>5, <4>1, <4>2
        <4>4. \A k \in Objects : watch'[k].new = watch'[h].new => k = h
          BY <3>2, <3>3, <3>6, <3>7, <3>8, <4>1 DEF SuccessorInv
        <4> QED
          BY <4>3, <4>4
      <3> QED
        BY <3>7, <3>8 DEF SuccessorInv
    <2> QED
      BY <2>5, <2>6, <2>7, <2>8 DEF IInv
  <1> QED
    BY <1>1, <1>2, <1>3, <1>4, <1>5, <1>6 DEF WatchStep

\* The router, the start-up watcher and the process of an object.
LEMMA ObjectStepInv ==
    ASSUME IInv, NEW g \in Objects,
           RouterEvent(g) \/ StartupTimeout(g) \/ StartupDone(g) \/ ClaudeExits(g)
    PROVE  IInv'
  <1>0. TypeOK /\ obj \in [Objects -> ObjectType] /\ obj[g].id \in Ids \cup {NoId}
    BY DEF IInv, TypeOK, ObjectType
  \* Only the start-up flag changes.
  <1>a. ASSUME NEW b \in BOOLEAN, obj' = [obj EXCEPT ![g].boot = b],
               kv' \in [Slugs -> Ids \cup {NoId}],
               UNCHANGED <<agent, todo, sessions, watch, cmd, ctl, store>>
        PROVE  IInv'
    <2>1. obj' \in [Objects -> ObjectType]
      BY <1>0, <1>a DEF ObjectType
    <2>2. \A h \in Objects : /\ obj'[h].proc = obj[h].proc
                             /\ obj'[h].stopping = obj[h].stopping
                             /\ obj'[h].crashed = obj[h].crashed
      BY <1>0, <1>a DEF ObjectType
    <2>3. TypeOK'
      BY <1>0, <1>a, <2>1 DEF TypeOK, store
    <2> QED
      BY <1>a, <2>2, <2>3, SameObjects
  <1>1. CASE RouterEvent(g)
    <2>1. kv' \in [Slugs -> Ids \cup {NoId}]
      BY <1>0, <1>1, WriteType DEF RouterEvent
    <2>2. PICK init \in BOOLEAN : obj' = [obj EXCEPT ![g].boot = @ /\ ~init]
      BY <1>1 DEF RouterEvent
    <2>3. obj' = [obj EXCEPT ![g].boot = obj[g].boot /\ ~init]
      BY <2>2
    <2>4. (obj[g].boot /\ ~init) \in BOOLEAN
      OBVIOUS
    <2>5. UNCHANGED <<agent, todo, sessions, watch, cmd, ctl, store>>
      BY <1>1 DEF RouterEvent
    <2> QED
      BY <1>a, <2>1, <2>3, <2>4, <2>5
  <1>2. CASE StartupTimeout(g)
    <2>1. kv' \in [Slugs -> Ids \cup {NoId}]
      BY <1>0, <1>2, WriteType DEF StartupTimeout
    <2> QED
      BY <1>2, <1>a, <2>1 DEF StartupTimeout
  <1>3. CASE StartupDone(g)
    <2>1. kv' \in [Slugs -> Ids \cup {NoId}]
      BY <1>0, <1>3 DEF StartupDone, TypeOK
    <2> QED
      BY <1>3, <1>a, <2>1 DEF StartupDone
  <1>4. CASE ClaudeExits(g)
    <2>1. /\ obj' = [obj EXCEPT ![g].proc = "done", ![g].crashed = ~obj[g].stopping]
          /\ UNCHANGED <<agent, todo, sessions, watch, cmd, ctl, kv, store>> /\ obj[g].proc = "up"
      BY <1>4 DEF ClaudeExits, Live
    <2>2. (~obj[g].stopping) \in BOOLEAN
      OBVIOUS
    <2>3. obj' \in [Objects -> ObjectType]
      BY <1>0, <2>1, <2>2 DEF ObjectType
    <2>4. /\ \A h \in Objects \ {g} : obj'[h] = obj[h]
          /\ \A h \in Objects : obj'[h].stopping = obj[h].stopping
          /\ obj'[g].proc = "done" /\ obj'[g].crashed = ~obj[g].stopping
      BY <1>0, <2>1 DEF ObjectType
    <2>5. TypeOK'
      BY <1>0, <2>1, <2>3 DEF TypeOK, store
    <2>6. obj'[g].stopping \/ obj'[g].crashed
      BY <2>4
    <2>7. EndedInv'
      BY <2>4, <2>6 DEF IInv, EndedInv
    <2>8. WatchInv'
      BY <2>1, <2>4 DEF IInv, WatchInv
    <2>9. WaitInv' /\ RestartInv'
      BY <1>0, <2>1, <2>4 DEF IInv, TypeOK, WaitInv, RestartInv
    <2>10. SuccessorInv'
      BY <2>1 DEF IInv, SuccessorInv
    <2> QED
      BY <2>5, <2>7, <2>8, <2>9, <2>10 DEF IInv
  <1> QED
    BY <1>1, <1>2, <1>3, <1>4

\* The death of the agent and recoverSessions.
LEMMA AgentStepInv ==
    ASSUME IInv, AgentDies \/ AgentStarts \/ RecoverStep PROVE IInv'
  <1>0. TypeOK
    BY DEF IInv
  <1>1. CASE AgentDies
    BY <1>1, MemoryLostInv DEF AgentDies
  <1>2. CASE AgentStarts
    <2>1. todo' \in SUBSET Ids
      BY <1>0, <1>2 DEF AgentStarts, TypeOK
    <2>2. deaths' \in 0 .. MaxDeaths
      BY <1>0, <1>2, ConstantsAssumption DEF AgentStarts, TypeOK
    <2>3. agent' = "recover"
          /\ UNCHANGED <<sessions, obj, watch, cmd, ctl, kv, slug, branch, worktrees, deleted>>
      BY <1>2 DEF AgentStarts
    <2>4. TypeOK'
      BY <1>0, <2>1, <2>2, <2>3 DEF TypeOK
    <2> QED
      BY <2>3, <2>4, SameObjects
  <1>3. ASSUME NEW i \in Ids, RecoverFailed(i) PROVE IInv'
    <2>1. TypeOK'
      BY <1>0, <1>3 DEF RecoverFailed, TypeOK, store
    <2> QED
      BY <1>3, <2>1, SameObjects DEF RecoverFailed
  <1>4. ASSUME NEW i \in Ids, RecoverSession(i) PROVE IInv'
    <2>1. /\ Startable(i) /\ Start(i) /\ UNCHANGED <<agent, cmd, ctl, store>>
          /\ watch' = [watch EXCEPT ![NewObject] = [pc |-> "wait", new |-> NoObject]]
          /\ todo' = todo \ {i} /\ sessions' = [sessions EXCEPT ![i] = NewObject]
      BY <1>4 DEF RecoverSession
    <2>2. NewObject \in Objects /\ obj' \in [Objects -> ObjectType]
      BY <2>1, StartFacts
    <2>3. [pc |-> "wait", new |-> NoObject] \in WatchType
      BY DEF WatchType
    <2>4. kv' \in [Slugs -> Ids \cup {NoId}]
      BY <1>0, <1>4, WriteType DEF RecoverSession
    <2>5. TypeOK'
      BY <1>0, <2>1, <2>2, <2>3, <2>4 DEF TypeOK, store
    <2> QED
      BY <2>1, <2>5, StartWatched
  <1>5. CASE AgentServes
    <2>1. TypeOK'
      BY <1>0, <1>5 DEF AgentServes, TypeOK, store
    <2> QED
      BY <1>5, <2>1, SameObjects DEF AgentServes
  <1> QED
    BY <1>1, <1>2, <1>3, <1>4, <1>5 DEF RecoverStep

\* Every step of the agent and of its processes keeps the invariant.
LEMMA NextInv == ASSUME IInv, [Next]_vars PROVE IInv'
  <1>1. CASE UNCHANGED vars
    <2>1. TypeOK'
      BY <1>1 DEF IInv, TypeOK, vars
    <2>2. UNCHANGED <<obj, watch, cmd, ctl>>
      BY <1>1 DEF vars
    <2> QED
      BY <2>1, <2>2, SameObjects
  <1>2. CASE Next
    BY <1>2, CommandInv, ControlInv, WatchStepInv, ObjectStepInv, AgentStepInv DEF Next
  <1> QED
    BY <1>1, <1>2

-----------------------------------------------------------------------------
(* Theorems                                                                *)

\* The invariant holds in every state the agent reaches.
THEOREM Invariance == Spec => []IInv
  <1>1. Init => IInv
    BY InitInv
  <1>2. IInv /\ [Next]_vars => IInv'
    BY NextInv
  <1> QED
    BY <1>1, <1>2, PTL DEF Spec

\* The agent's maps, objects and goroutines keep their types, with any number
\* of sessions and objects.
THEOREM LifecycleTypes == Spec => []TypeOK
  <1>1. IInv => TypeOK
    BY DEF IInv
  <1> QED
    BY <1>1, Invariance, PTL

\* watchSessionCrash never respawns a session that handleDelete or
\* handleRestart stopped.
THEOREM StopsAreFinal == Spec => []IntentionalStopNotRespawned
  <1>1. IInv => IntentionalStopNotRespawned
    BY DEF IInv, WatchInv, IntentionalStopNotRespawned, Respawning
  <1> QED
    BY <1>1, Invariance, PTL

\* Neither a restart nor a crash watcher resumes a session whose previous
\* process still runs.
THEOREM ResumeAfterExit == Spec => []ReplacedProcessGone
  <1>1. ASSUME IInv PROVE ReplacedProcessGone
    <2>1. ctl.new # NoObject => ~Live(ctl.obj)
      BY <1>1 DEF IInv, RestartInv, Live
    <2>2. \A g \in Objects : watch[g].new # NoObject => ~Live(g)
      BY <1>1 DEF IInv, WatchInv, SuccessorInv, Respawning, Live
    <2> QED
      BY <2>1, <2>2 DEF ReplacedProcessGone
  <1>2. IInv => ReplacedProcessGone
    BY <1>1
  <1> QED
    BY <1>2, Invariance, PTL

---------------------------------------------------------------------------
(* What the sessions of an agent leave on disk and in the bucket: a        *)
(* registered session that nobody deletes keeps its worktree and its KV    *)
(* entry.                                                                  *)

\* An object that is in use was started for a session.
Owned ==
    \A g \in Objects :
        /\ (Live(g) \/ obj[g].boot \/ watch[g].pc # "none") => obj[g].id \in Ids
        /\ watch[g].new # NoObject => obj[watch[g].new].id \in Ids

\* Whoever is about to write an entry acts for a session.
OwnerInv ==
    /\ cmd.pc # "serve" => cmd.id \in Ids
    /\ ctl.pc # "serve" => ctl.id \in Ids
    /\ Owned

\* A session is registered, or a delete has been at it.
Kept(i) == sessions[i] # NoObject \/ deleted[i] # "no"

\* Whoever is about to register a session replaces a registration, unless the
\* session was deleted meanwhile.
KnownInv ==
    /\ cmd.pc \in {"stop", "wait", "worktree", "kvDelete"} => deleted[cmd.id] # "no"
    /\ ctl.pc # "serve" => Kept(ctl.id)
    /\ ctl.pc = "track" => ctl.new # NoObject
    /\ \A g \in Objects : watch[g].pc \in {"write", "start", "track"} => Kept(obj[g].id)

\* An entry is stored under the slug of its session.
NameInv ==
    /\ \A i \in Ids : branch[i] = NoBranch <=> slug[i] = NoSlug
    /\ \A i \in todo : slug[i] # NoSlug
    /\ cmd.pc \in {"kv", "start"} => slug[cmd.id] # NoSlug
    /\ \A s \in Slugs : kv[s] # NoId => slug[kv[s]] = s

\* The entry of a session whose name no other session has.
Durable(i) == (\A j \in Ids \ {i} : slug[j] # slug[i]) => kv[slug[i]] = i

\* handleCreate starts a session after its entry was written.
CreateInv == cmd.pc = "start" => Durable(cmd.id)

DInv == OwnerInv /\ KnownInv /\ NameInv /\ CreateInv
        /\ SharedWorktreeKept /\ RegisteredIsDurable

-----------------------------------------------------------------------------
\* A registered session that nobody deletes has a name.
LEMMA RegisteredNamed ==
    ASSUME TypeOK, DInv, NEW i \in Ids, sessions[i] # NoObject, deleted[i] = "no"
    PROVE  slug[i] \in Slugs /\ Durable(i)
  <1>1. branch[i] \in Branches
    BY DEF TypeOK, DInv, SharedWorktreeKept
  <1>2. slug[i] \in Slugs
    BY <1>1, ConstantsAssumption DEF TypeOK, DInv, NameInv
  <1>3. Durable(i)
    BY DEF DInv, RegisteredIsDurable, Durable
  <1> QED
    BY <1>2, <1>3

\* writeSessionKV replaces the entry of a session of the same name only.
LEMMA WriteKeeps ==
    ASSUME TypeOK, DInv, NEW i \in Ids, writeSessionKV(i), UNCHANGED slug
    PROVE  /\ \A s \in Slugs : kv'[s] # NoId => slug'[kv'[s]] = s
           /\ slug[i] # NoSlug => kv'[slug[i]] = i
           /\ \A k \in Ids : (slug[k] \in Slugs /\ Durable(k)) => Durable(k)'
  <1>1. /\ slug[i] \in Slugs \cup {NoSlug}
        /\ kv' = [kv EXCEPT ![slug[i]] = i] /\ kv \in [Slugs -> Ids \cup {NoId}]
    BY DEF TypeOK, writeSessionKV
  <1>2. \A s \in Slugs : kv'[s] = IF s = slug[i] THEN i ELSE kv[s]
    BY <1>1
  <1>3. \A s \in Slugs : kv[s] # NoId => slug[kv[s]] = s
    BY DEF DInv, NameInv
  <1>4. \A s \in Slugs : kv'[s] # NoId => slug'[kv'[s]] = s
    BY <1>2, <1>3
  <1>5. slug[i] # NoSlug => kv'[slug[i]] = i
    BY <1>1, <1>2
  <1>6. ASSUME NEW k \in Ids, slug[k] \in Slugs, Durable(k) PROVE Durable(k)'
    BY <1>2, <1>6 DEF Durable
  <1> QED
    BY <1>4, <1>5, <1>6

\* A step that registers, deletes and names no session, and at most writes an
\* entry.
LEMMA DurableFrame ==
    ASSUME TypeOK, DInv, TypeOK', OwnerInv', KnownInv',
           UNCHANGED <<sessions, slug, branch, deleted, worktrees>>, todo' \subseteq todo,
           UNCHANGED kv \/ \E i \in Ids : writeSessionKV(i),
           UNCHANGED cmd \/ cmd'.pc \notin {"kv", "start"}
    PROVE  DInv'
  <1>1. /\ \A s \in Slugs : kv'[s] # NoId => slug'[kv'[s]] = s
        /\ \A k \in Ids : (slug[k] \in Slugs /\ Durable(k)) => Durable(k)'
    <2>1. CASE UNCHANGED kv
      BY <2>1 DEF DInv, NameInv, Durable
    <2>2. ASSUME NEW i \in Ids, writeSessionKV(i)
          PROVE  /\ \A s \in Slugs : kv'[s] # NoId => slug'[kv'[s]] = s
                 /\ \A k \in Ids : (slug[k] \in Slugs /\ Durable(k)) => Durable(k)'
      BY <2>2, WriteKeeps
    <2> QED
      BY <2>1, <2>2
  <1>2. NameInv'
    BY <1>1 DEF DInv, NameInv
  <1>3. CreateInv'
    <2>1. CASE UNCHANGED cmd /\ cmd.pc = "start"
      <3>1. cmd.id \in Ids /\ slug[cmd.id] \in Slugs /\ Durable(cmd.id)
        BY <2>1 DEF TypeOK, DInv, OwnerInv, Owned, NameInv, CreateInv
      <3>2. Durable(cmd.id)'
        BY <1>1, <2>1, <3>1 DEF Durable
      <3> QED
        BY <2>1, <3>2 DEF CreateInv
    <2> QED
      BY <2>1 DEF CreateInv
  <1>4. SharedWorktreeKept'
    BY DEF DInv, SharedWorktreeKept
  <1>5. RegisteredIsDurable'
    <2> SUFFICES ASSUME NEW i \in Ids, sessions[i] # NoObject, deleted[i] = "no"
                 PROVE  Durable(i)'
      BY DEF RegisteredIsDurable, Durable
    <2> QED
      BY <1>1, RegisteredNamed
  <1> QED
    BY <1>2, <1>3, <1>4, <1>5 DEF DInv

\* Nothing is registered at the start, nor after a death of the agent.
LEMMA DurableInit == Init => DInv
  <1> SUFFICES ASSUME Init PROVE DInv
    OBVIOUS
  <1>1. OwnerInv
    BY DEF Init, OwnerInv, Owned, Live, FreeObject, NoWatch, CmdServe, CtlServe
  <1>2. KnownInv /\ NameInv /\ CreateInv
    BY DEF Init, KnownInv, NameInv, CreateInv, NoWatch, CmdServe, CtlServe
  <1>3. SharedWorktreeKept /\ RegisteredIsDurable
    BY DEF Init, SharedWorktreeKept, RegisteredIsDurable
  <1> QED
    BY <1>1, <1>2, <1>3 DEF DInv

LEMMA DurableMemoryLost ==
    ASSUME DInv, MemoryLost, UNCHANGED <<kv, store>> PROVE DInv'
  <1>1. OwnerInv'
    BY DEF MemoryLost, OwnerInv, Owned, Live, FreeObject, NoWatch, CmdServe, CtlServe
  <1>2. KnownInv' /\ NameInv' /\ CreateInv'
    BY DEF DInv, MemoryLost, store, KnownInv, NameInv, CreateInv, NoWatch, CmdServe, CtlServe
  <1>3. SharedWorktreeKept' /\ RegisteredIsDurable'
    BY DEF MemoryLost, SharedWorktreeKept, RegisteredIsDurable
  <1> QED
    BY <1>1, <1>2, <1>3 DEF DInv

-----------------------------------------------------------------------------
(* One lemma per goroutine                                                 *)

\* A new object belongs to the session it was started for; nobody else's owner
\* changes.
LEMMA StartOwner ==
    ASSUME IInv, DInv, NEW i \in Ids, Startable(i), Start(i)
    PROVE  /\ NewObject \in Objects /\ watch[NewObject].pc \in {"none", "failed"}
           /\ \A h \in Objects : watch[h].new # NewObject
           /\ obj'[NewObject].id = i
           /\ \A g \in Objects \ {NewObject} : obj'[g] = obj[g]
           /\ \A g \in Objects : /\ (Live(g)' \/ obj'[g].boot \/ watch[g].pc # "none")
                                       => obj'[g].id \in Ids
                                 /\ watch[g].new # NoObject => obj'[watch[g].new].id \in Ids
  <1>0. TypeOK
    BY DEF IInv
  <1>1. /\ NewObject \in Objects /\ watch[NewObject].pc \in {"none", "failed"}
        /\ \A h \in Objects : watch[h].new # NewObject
        /\ \A g \in Objects \ {NewObject} : obj'[g] = obj[g]
    BY StartFacts
  <1>2. obj'[NewObject].id = i
    BY <1>0, <1>1 DEF Start, TypeOK
  <1>3. \A g \in Objects : watch[g].new \in Objects \cup {NoObject}
    BY <1>0 DEF TypeOK, WatchType
  <1>4. \A g \in Objects : /\ (Live(g)' \/ obj'[g].boot \/ watch[g].pc # "none") => obj'[g].id \in Ids
                           /\ watch[g].new # NoObject => obj'[watch[g].new].id \in Ids
    BY <1>1, <1>2, <1>3 DEF DInv, OwnerInv, Owned, Live
  <1> QED
    BY <1>1, <1>2, <1>4

\* handleCreate.
LEMMA DurableCreate ==
    ASSUME IInv, IInv', DInv,
           CreateWriteKV \/ CreateStart \/ CreateFailed
             \/ \E i \in Ids, s \in Slugs, b \in Branches, join \in BOOLEAN : CreateCheck(i, s, b, join)
    PROVE  DInv'
  <1>0. TypeOK /\ TypeOK'
    BY DEF IInv
  <1>1. ASSUME NEW i \in Ids, NEW s \in Slugs, NEW b \in Branches, NEW join \in BOOLEAN,
               CreateCheck(i, s, b, join)
        PROVE  DInv'
    <2>1. /\ branch[i] = NoBranch /\ branch' = [branch EXCEPT ![i] = b]
          /\ slug' = [slug EXCEPT ![i] = s] /\ cmd'.pc = "kv" /\ cmd'.id = i
          /\ UNCHANGED <<agent, todo, sessions, obj, watch, ctl, kv, deleted, deaths>>
          /\ worktrees' = worktrees \/ worktrees' = worktrees \cup {b}
      BY <1>1 DEF CreateCheck, CmdServe
    <2>2. /\ slug[i] = NoSlug /\ slug'[i] = s /\ branch'[i] = b /\ s # NoSlug /\ b # NoBranch
          /\ \A k \in Ids \ {i} : slug'[k] = slug[k] /\ branch'[k] = branch[k]
      BY <1>0, <2>1, ConstantsAssumption DEF TypeOK, DInv, NameInv
    <2>3. OwnerInv' /\ KnownInv'
      BY <2>1 DEF DInv, OwnerInv, Owned, KnownInv, Kept, Live
    <2>4. NameInv'
      <3>1. \A t \in Slugs : kv[t] # NoId => kv[t] \in Ids \ {i}
        BY <1>0, <2>2, ConstantsAssumption DEF TypeOK, DInv, NameInv
      <3>2. todo \subseteq Ids
        BY <1>0 DEF TypeOK
      <3> QED
        BY <2>1, <2>2, <3>1, <3>2 DEF DInv, NameInv
    <2>5. CreateInv'
      BY <2>1 DEF CreateInv
    <2>6. ASSUME NEW k \in Ids, sessions[k] # NoObject, deleted[k] = "no"
          PROVE  k # i /\ branch'[k] \in worktrees' /\ Durable(k)'
      <3>1. branch[k] \in worktrees /\ slug[k] \in Slugs /\ Durable(k)
        BY <1>0, <2>6, RegisteredNamed DEF DInv, SharedWorktreeKept
      <3>2. k # i
        BY <2>2, <3>1, ConstantsAssumption
      <3>3. Durable(k)'
        BY <2>1, <2>2, <3>1, <3>2, ConstantsAssumption DEF Durable
      <3> QED
        BY <2>1, <2>2, <3>1, <3>2, <3>3
    <2>7. SharedWorktreeKept' /\ RegisteredIsDurable'
      BY <2>1, <2>6 DEF SharedWorktreeKept, RegisteredIsDurable, Durable
    <2> QED
      BY <2>3, <2>4, <2>5, <2>7 DEF DInv
  <1>2. CASE CreateWriteKV
    <2>1. /\ cmd.pc = "kv" /\ cmd'.pc = "start" /\ cmd'.id = cmd.id /\ writeSessionKV(cmd.id)
          /\ UNCHANGED <<agent, todo, sessions, obj, watch, ctl, slug, branch, worktrees, deleted, deaths>>
      BY <1>0, <1>2 DEF CreateWriteKV, store, TypeOK, CommandType
    <2>2. cmd.id \in Ids /\ slug[cmd.id] # NoSlug
      BY <2>1 DEF DInv, OwnerInv, Owned, NameInv
    <2>3. /\ \A s \in Slugs : kv'[s] # NoId => slug'[kv'[s]] = s
          /\ kv'[slug[cmd.id]] = cmd.id
          /\ \A k \in Ids : (slug[k] \in Slugs /\ Durable(k)) => Durable(k)'
      BY <1>0, <2>1, <2>2, WriteKeeps
    <2>4. OwnerInv' /\ KnownInv'
      BY <2>1, <2>2 DEF DInv, OwnerInv, Owned, KnownInv, Kept, Live
    <2>5. NameInv' /\ CreateInv'
      BY <2>1, <2>2, <2>3 DEF DInv, NameInv, CreateInv, Durable
    <2>6. SharedWorktreeKept'
      BY <2>1 DEF DInv, SharedWorktreeKept
    <2>7. RegisteredIsDurable'
      <3> SUFFICES ASSUME NEW k \in Ids, sessions[k] # NoObject, deleted[k] = "no"
                   PROVE  Durable(k)'
        BY <2>1 DEF RegisteredIsDurable, Durable
      <3> QED
        BY <1>0, <2>3, RegisteredNamed
    <2> QED
      BY <2>4, <2>5, <2>6, <2>7 DEF DInv
  <1>3. CASE CreateStart
    <2>1. /\ cmd.pc = "start" /\ cmd' = CmdServe /\ Startable(cmd.id) /\ Start(cmd.id)
          /\ sessions' = [sessions EXCEPT ![cmd.id] = NewObject]
          /\ watch' = [watch EXCEPT ![NewObject] = [pc |-> "wait", new |-> NoObject]]
          /\ UNCHANGED <<agent, todo, ctl, kv, slug, branch, worktrees, deleted, deaths>>
      BY <1>3 DEF CreateStart, store
    <2>2. cmd.id \in Ids /\ Durable(cmd.id) /\ branch[cmd.id] \in worktrees
      BY <2>1 DEF DInv, OwnerInv, Owned, CreateInv, Startable
    <2>3. /\ NewObject \in Objects /\ watch[NewObject].pc \in {"none", "failed"}
          /\ \A h \in Objects : watch[h].new # NewObject
          /\ obj'[NewObject].id = cmd.id
          /\ \A g \in Objects \ {NewObject} : obj'[g] = obj[g]
          /\ \A g \in Objects : /\ (Live(g)' \/ obj'[g].boot \/ watch[g].pc # "none")
                                      => obj'[g].id \in Ids
                                /\ watch[g].new # NoObject => obj'[watch[g].new].id \in Ids
      BY <2>1, <2>2, StartOwner
    <2>4. /\ watch'[NewObject] = [pc |-> "wait", new |-> NoObject]
          /\ \A g \in Objects \ {NewObject} : watch'[g] = watch[g]
          /\ sessions'[cmd.id] = NewObject /\ NewObject # NoObject
          /\ \A k \in Ids \ {cmd.id} : sessions'[k] = sessions[k]
      BY <1>0, <2>1, <2>2, <2>3, ConstantsAssumption DEF TypeOK
    <2>5. OwnerInv'
      BY <2>1, <2>2, <2>3, <2>4 DEF DInv, OwnerInv, Owned, CmdServe
    <2>6. KnownInv'
      <3>1. \A k \in Ids : Kept(k) => (sessions'[k] # NoObject \/ deleted'[k] # "no")
        BY <2>1, <2>4 DEF Kept
      <3>2. \A g \in Objects : watch'[g].pc \in {"write", "start", "track"}
                               => /\ watch[g].pc \in {"write", "start", "track"} /\ obj'[g] = obj[g]
                                  /\ obj[g].id \in Ids
        BY <2>3, <2>4 DEF DInv, OwnerInv, Owned
      <3>3. ctl.pc # "serve" => ctl.id \in Ids
        BY DEF DInv, OwnerInv, Owned
      <3>4. ctl.pc # "serve" => (sessions'[ctl.id] # NoObject \/ deleted'[ctl.id] # "no")
        BY <3>1, <3>3 DEF DInv, KnownInv
      <3>5. \A g \in Objects : watch'[g].pc \in {"write", "start", "track"}
                               => (sessions'[obj'[g].id] # NoObject \/ deleted'[obj'[g].id] # "no")
        BY <3>1, <3>2 DEF DInv, KnownInv
      <3>6. ctl.pc = "track" => ctl.new # NoObject
        BY DEF DInv, KnownInv
      <3> QED
        BY <2>1, <3>4, <3>5, <3>6 DEF KnownInv, Kept, CmdServe
    <2>7. NameInv' /\ CreateInv'
      BY <2>1 DEF DInv, NameInv, CreateInv, CmdServe
    <2>8. SharedWorktreeKept'
      BY <2>1, <2>2, <2>4 DEF DInv, SharedWorktreeKept
    <2>9. RegisteredIsDurable'
      BY <2>1, <2>2, <2>4 DEF DInv, RegisteredIsDurable, Durable
    <2> QED
      BY <2>5, <2>6, <2>7, <2>8, <2>9 DEF DInv
  <1>4. CASE CreateFailed
    <2>1. cmd' = CmdServe /\ UNCHANGED <<agent, todo, sessions, obj, watch, ctl, kv, slug, branch,
                                        worktrees, deleted, deaths>>
      BY <1>4 DEF CreateFailed, store
    <2>2. OwnerInv' /\ KnownInv'
      BY <2>1 DEF DInv, OwnerInv, Owned, KnownInv, Kept, Live, CmdServe
    <2>3. cmd'.pc = "serve"
      BY <2>1 DEF CmdServe
    <2> QED
      BY <1>0, <2>1, <2>2, <2>3, DurableFrame
  <1> QED
    BY <1>1, <1>2, <1>3, <1>4

\* Stopping, killing and the end of a process leave the owners as they are.
LEMMA OwnerFrame ==
    ASSUME TypeOK, DInv, UNCHANGED watch,
           \A g \in Objects : /\ obj'[g].id = obj[g].id
                              /\ (obj'[g].proc = "up" => obj[g].proc = "up")
                              /\ (obj'[g].boot => obj[g].boot)
    PROVE  Owned'
  <1>1. \A g \in Objects : watch[g].new \in Objects \cup {NoObject}
    BY DEF TypeOK, WatchType
  <1> QED
    BY <1>1 DEF DInv, OwnerInv, Owned, Live

\* stopAndWait up to the wait.
LEMMA DurableStop ==
    ASSUME IInv, IInv', DInv, NEW g \in Objects, StopBegin(g), UNCHANGED <<kv, store>>,
           \/ UNCHANGED ctl /\ cmd.pc = "stop" /\ cmd' = [cmd EXCEPT !.pc = "wait"]
           \/ UNCHANGED cmd /\ ctl.pc = "stop" /\ ctl' = [ctl EXCEPT !.pc = "wait"]
    PROVE  DInv'
  <1>0. TypeOK /\ TypeOK'
    BY DEF IInv
  <1>1. /\ UNCHANGED <<agent, todo, sessions, watch, kv, slug, branch, worktrees, deleted>>
        /\ obj' = [obj EXCEPT ![g].stopping = TRUE]
    BY DEF StopBegin, store
  <1>2. \A h \in Objects : obj'[h].id = obj[h].id /\ (obj'[h].proc = "up" => obj[h].proc = "up")
                           /\ (obj'[h].boot => obj[h].boot)
    BY <1>0, <1>1 DEF TypeOK, ObjectType
  <1>3. /\ UNCHANGED cmd \/ (cmd'.pc = "wait" /\ cmd'.id = cmd.id /\ cmd.pc = "stop")
        /\ UNCHANGED ctl \/ (ctl'.pc = "wait" /\ ctl'.id = ctl.id /\ ctl.pc = "stop")
    BY <1>0 DEF TypeOK, CommandType, ControlType
  <1>4. OwnerInv'
    <2>1. Owned'
      BY <1>0, <1>1, <1>2, OwnerFrame
    <2> QED
      BY <1>3, <2>1 DEF DInv, OwnerInv
  <1>5. KnownInv'
    BY <1>1, <1>2, <1>3 DEF DInv, KnownInv, Kept
  <1> QED
    BY <1>0, <1>1, <1>3, <1>4, <1>5, DurableFrame

\* The kill at the timeout.
LEMMA DurableKill ==
    ASSUME IInv, IInv', DInv, NEW g \in Objects, Kill(g),
           UNCHANGED <<agent, todo, sessions, watch, cmd, ctl, kv, store>>
    PROVE  DInv'
  <1>0. TypeOK /\ TypeOK'
    BY DEF IInv
  <1>1. obj' = [obj EXCEPT ![g].proc = "done"] /\ UNCHANGED <<slug, branch, worktrees, deleted>>
    BY DEF Kill, store
  <1>2. \A h \in Objects : obj'[h].id = obj[h].id /\ (obj'[h].proc = "up" => obj[h].proc = "up")
                           /\ (obj'[h].boot => obj[h].boot)
    BY <1>0, <1>1 DEF TypeOK, ObjectType
  <1>3. OwnerInv'
    <2>1. Owned'
      BY <1>0, <1>2, OwnerFrame
    <2> QED
      BY <2>1 DEF DInv, OwnerInv
  <1>4. KnownInv'
    BY <1>1, <1>2 DEF DInv, KnownInv, Kept
  <1> QED
    BY <1>0, <1>1, <1>3, <1>4, DurableFrame

\* handleDelete.
LEMMA DurableDelete ==
    ASSUME IInv, IInv', DInv,
           DeleteStop \/ DeleteKill \/ DeleteStopped \/ DeleteWorktree \/ DeleteKV
             \/ \E i \in Ids : DeleteTake(i)
    PROVE  DInv'
  <1>0. TypeOK /\ TypeOK'
    BY DEF IInv
  <1>1. ASSUME NEW i \in Ids, DeleteTake(i) PROVE DInv'
    <2>1. /\ sessions' = [sessions EXCEPT ![i] = NoObject] /\ cmd'.pc = "stop" /\ cmd'.id = i
          /\ deleted' = [deleted EXCEPT ![i] = "taken"]
          /\ UNCHANGED <<agent, todo, obj, watch, ctl, kv, slug, branch, worktrees>>
      BY <1>1 DEF DeleteTake
    <2>2. /\ sessions'[i] = NoObject /\ deleted'[i] = "taken"
          /\ \A k \in Ids \ {i} : sessions'[k] = sessions[k] /\ deleted'[k] = deleted[k]
      BY <1>0, <2>1 DEF TypeOK
    <2>3. OwnerInv'
      BY <2>1 DEF DInv, OwnerInv, Owned, Live
    <2>4. KnownInv'
      <3>1. \A k \in Ids : Kept(k) => (sessions'[k] # NoObject \/ deleted'[k] # "no")
        BY <2>2 DEF Kept
      <3>2. /\ ctl.pc # "serve" => ctl.id \in Ids
            /\ \A g \in Objects : watch[g].pc \in {"write", "start", "track"} => obj[g].id \in Ids
        BY DEF DInv, OwnerInv, Owned
      <3>3. /\ ctl.pc # "serve" => (sessions'[ctl.id] # NoObject \/ deleted'[ctl.id] # "no")
            /\ \A g \in Objects : watch[g].pc \in {"write", "start", "track"}
                  => (sessions'[obj[g].id] # NoObject \/ deleted'[obj[g].id] # "no")
        BY <3>1, <3>2 DEF DInv, KnownInv
      <3>4. ctl.pc = "track" => ctl.new # NoObject
        BY DEF DInv, KnownInv
      <3> QED
        BY <2>1, <2>2, <3>3, <3>4 DEF KnownInv, Kept
    <2>5. NameInv' /\ CreateInv'
      BY <2>1 DEF DInv, NameInv, CreateInv
    <2>6. SharedWorktreeKept'
      BY <2>1, <2>2 DEF DInv, SharedWorktreeKept
    <2>7. RegisteredIsDurable'
      BY <2>1, <2>2 DEF DInv, RegisteredIsDurable
    <2> QED
      BY <2>3, <2>4, <2>5, <2>6, <2>7 DEF DInv
  <1>2. CASE DeleteStop
    <2>1. cmd.obj \in Objects
      BY <1>0, <1>2 DEF DeleteStop, TypeOK
    <2>2. CASE Panic(cmd.obj)
      BY <1>2, <2>2, DurableMemoryLost DEF DeleteStop, Panic
    <2>3. CASE StopBegin(cmd.obj) /\ cmd' = [cmd EXCEPT !.pc = "wait"] /\ UNCHANGED ctl
      BY <1>2, <2>1, <2>3, DurableStop DEF DeleteStop
    <2> QED
      BY <1>2, <2>2, <2>3 DEF DeleteStop
  <1>3. CASE DeleteKill
    <2>1. cmd.obj \in Objects
      BY <1>0, <1>3 DEF DeleteKill, TypeOK
    <2> QED
      BY <1>3, <2>1, DurableKill DEF DeleteKill
  <1>4. CASE DeleteStopped
    <2>1. /\ cmd.pc = "wait" /\ cmd'.pc = "worktree" /\ cmd'.id = cmd.id
          /\ UNCHANGED <<agent, todo, sessions, obj, watch, ctl, kv, slug, branch, worktrees, deleted>>
      BY <1>0, <1>4 DEF DeleteStopped, store, TypeOK, CommandType
    <2>2. OwnerInv' /\ KnownInv'
      BY <2>1 DEF DInv, OwnerInv, Owned, KnownInv, Kept, Live
    <2> QED
      BY <1>0, <2>1, <2>2, DurableFrame
  <1>5. CASE DeleteWorktree
    <2>1. /\ cmd.pc = "worktree" /\ cmd'.pc = "kvDelete" /\ cmd'.id = cmd.id
          /\ UNCHANGED <<agent, todo, sessions, obj, watch, ctl, kv, slug, branch, deleted>>
      BY <1>0, <1>5 DEF DeleteWorktree, TypeOK, CommandType
    <2>2. OwnerInv' /\ KnownInv'
      BY <2>1 DEF DInv, OwnerInv, Owned, KnownInv, Kept, Live
    <2>3. CASE UNCHANGED worktrees
      BY <1>0, <2>1, <2>2, <2>3, DurableFrame
    <2>4. CASE ~worktreeInUse(branch[cmd.id]) /\ worktrees' = worktrees \ {branch[cmd.id]}
      <3>1. \A i \in Ids : sessions[i] # NoObject => branch[i] # branch[cmd.id]
        BY <2>4 DEF worktreeInUse
      <3>2. SharedWorktreeKept'
        BY <2>1, <2>4, <3>1 DEF DInv, SharedWorktreeKept
      <3>3. RegisteredIsDurable'
        BY <2>1 DEF DInv, RegisteredIsDurable
      <3>4. NameInv' /\ CreateInv'
        BY <2>1 DEF DInv, NameInv, CreateInv
      <3> QED
        BY <2>2, <3>2, <3>3, <3>4 DEF DInv
    <2> QED
      BY <1>5, <2>3, <2>4 DEF DeleteWorktree
  <1>6. CASE DeleteKV
    <2>1. /\ cmd.pc = "kvDelete" /\ cmd' = CmdServe
          /\ kv' = [kv EXCEPT ![slug[cmd.id]] = NoId]
          /\ deleted' = [deleted EXCEPT ![cmd.id] = "done"]
          /\ UNCHANGED <<agent, todo, sessions, obj, watch, ctl, slug, branch, worktrees>>
      BY <1>6 DEF DeleteKV
    <2>2. cmd.id \in Ids /\ deleted[cmd.id] # "no"
      BY <2>1 DEF DInv, OwnerInv, KnownInv
    <2>3. /\ deleted'[cmd.id] = "done"
          /\ \A k \in Ids \ {cmd.id} : deleted'[k] = deleted[k]
          /\ \A s \in Slugs : kv'[s] = IF s = slug[cmd.id] THEN NoId ELSE kv[s]
      BY <1>0, <2>1, <2>2 DEF TypeOK
    <2>4. OwnerInv'
      BY <2>1 DEF DInv, OwnerInv, Owned, Live, CmdServe
    <2>5. \A k \in Ids : deleted'[k] = "no" <=> deleted[k] = "no"
      BY <2>2, <2>3
    <2>6. KnownInv'
      <3>1. /\ ctl.pc # "serve" => ctl.id \in Ids
            /\ \A g \in Objects : watch[g].pc \in {"write", "start", "track"} => obj[g].id \in Ids
        BY DEF DInv, OwnerInv, Owned
      <3>2. cmd'.pc = "serve"
        BY <2>1 DEF CmdServe
      <3> QED
        BY <2>1, <2>5, <3>1, <3>2 DEF DInv, KnownInv, Kept
    <2>7. NameInv' /\ CreateInv'
      BY <2>1, <2>3 DEF DInv, NameInv, CreateInv, CmdServe
    <2>8. SharedWorktreeKept'
      BY <2>1, <2>5 DEF DInv, SharedWorktreeKept
    <2>9. RegisteredIsDurable'
      <3> SUFFICES ASSUME NEW i \in Ids, sessions[i] # NoObject, deleted[i] = "no",
                          \A j \in Ids \ {i} : slug[j] # slug[i]
                   PROVE  kv'[slug[i]] = i
        BY <2>1, <2>5 DEF RegisteredIsDurable
      <3>1. slug[i] \in Slugs /\ kv[slug[i]] = i
        BY <1>0, RegisteredNamed DEF Durable
      <3>2. slug[cmd.id] # slug[i]
        BY <2>2
      <3> QED
        BY <2>3, <3>1, <3>2
    <2> QED
      BY <2>4, <2>6, <2>7, <2>8, <2>9 DEF DInv
  <1> QED
    BY <1>1, <1>2, <1>3, <1>4, <1>5, <1>6

\* A successor is registered in the place of the object it replaces.
LEMMA DurableTrack ==
    ASSUME TypeOK, DInv, OwnerInv', NEW i \in Ids, Kept(i), NEW g \in Objects,
           sessions' = [sessions EXCEPT ![i] = g],
           UNCHANGED <<todo, obj, cmd, kv, slug, branch, worktrees, deleted>>,
           UNCHANGED ctl \/ ctl'.pc = "serve",
           \A h \in Objects : watch'[h].pc \in {"write", "start", "track"}
                              => watch[h].pc \in {"write", "start", "track"}
    PROVE  DInv'
  <1>1. /\ sessions'[i] = g /\ g # NoObject
        /\ \A k \in Ids \ {i} : sessions'[k] = sessions[k]
    BY ConstantsAssumption DEF TypeOK
  <1>2. \A k \in Ids : (sessions'[k] # NoObject /\ deleted[k] = "no") => sessions[k] # NoObject
    BY <1>1 DEF Kept
  <1>3. KnownInv'
    <2>1. \A k \in Ids : Kept(k) => (sessions'[k] # NoObject \/ deleted'[k] # "no")
      BY <1>1 DEF Kept
    <2>2. /\ ctl.pc # "serve" => ctl.id \in Ids
          /\ \A h \in Objects : watch[h].pc \in {"write", "start", "track"} => obj[h].id \in Ids
      BY DEF DInv, OwnerInv, Owned
    <2>3. /\ ctl.pc # "serve" => (sessions'[ctl.id] # NoObject \/ deleted'[ctl.id] # "no")
          /\ \A h \in Objects : watch[h].pc \in {"write", "start", "track"}
                => (sessions'[obj[h].id] # NoObject \/ deleted'[obj[h].id] # "no")
      BY <2>1, <2>2 DEF DInv, KnownInv
    <2>4. /\ ctl.pc = "track" => ctl.new # NoObject
          /\ cmd.pc \in {"stop", "wait", "worktree", "kvDelete"} => deleted[cmd.id] # "no"
      BY DEF DInv, KnownInv
    <2> QED
      BY <2>3, <2>4 DEF KnownInv, Kept
  <1>4. NameInv' /\ CreateInv'
    BY DEF DInv, NameInv, CreateInv, Durable
  <1>5. SharedWorktreeKept'
    BY <1>2 DEF DInv, SharedWorktreeKept
  <1>6. RegisteredIsDurable'
    BY <1>2 DEF DInv, RegisteredIsDurable
  <1> QED
    BY <1>3, <1>4, <1>5, <1>6 DEF DInv

\* handleRestart and handleControl.
LEMMA DurableControl ==
    ASSUME IInv, IInv', DInv,
           ControlStep \/ \E i \in Ids : RestartTake(i) \/ ControlTake(i)
    PROVE  DInv'
  <1>0. TypeOK /\ TypeOK'
    BY DEF IInv
  <1>1. ASSUME NEW i \in Ids, RestartTake(i) \/ ControlTake(i) PROVE DInv'
    <2>1. /\ ctl'.pc \in {"stop", "answer"} /\ ctl'.id = i /\ sessions[i] # NoObject
          /\ UNCHANGED <<agent, todo, sessions, obj, watch, cmd, kv, slug, branch, worktrees, deleted>>
      BY <1>1 DEF RestartTake, ControlTake, store, CtlServe
    <2>2. OwnerInv' /\ KnownInv'
      BY <2>1 DEF DInv, OwnerInv, Owned, KnownInv, Kept, Live
    <2> QED
      BY <1>0, <2>1, <2>2, DurableFrame
  <1>2. CASE RestartStop
    <2>1. ctl.obj \in Objects
      BY <1>0, <1>2 DEF RestartStop, TypeOK
    <2>2. CASE Panic(ctl.obj)
      BY <1>2, <2>2, DurableMemoryLost DEF RestartStop, Panic
    <2>3. CASE StopBegin(ctl.obj) /\ ctl' = [ctl EXCEPT !.pc = "wait"] /\ UNCHANGED cmd
      BY <1>2, <2>1, <2>3, DurableStop DEF RestartStop
    <2> QED
      BY <1>2, <2>2, <2>3 DEF RestartStop
  <1>3. CASE RestartKill
    <2>1. ctl.obj \in Objects
      BY <1>0, <1>3 DEF RestartKill, TypeOK
    <2> QED
      BY <1>3, <2>1, DurableKill DEF RestartKill
  <1>4. CASE RestartStopped
    <2>1. /\ ctl.pc = "wait" /\ ctl'.pc = "write" /\ ctl'.id = ctl.id
          /\ UNCHANGED <<agent, todo, sessions, obj, watch, cmd, kv, slug, branch, worktrees, deleted>>
      BY <1>0, <1>4 DEF RestartStopped, store, TypeOK, ControlType
    <2>2. OwnerInv' /\ KnownInv'
      BY <2>1 DEF DInv, OwnerInv, Owned, KnownInv, Kept, Live
    <2> QED
      BY <1>0, <2>1, <2>2, DurableFrame
  <1>5. CASE RestartWriteKV
    <2>1. /\ ctl.pc = "write" /\ ctl'.pc = "start" /\ ctl'.id = ctl.id /\ writeSessionKV(ctl.id)
          /\ UNCHANGED <<agent, todo, sessions, obj, watch, cmd, slug, branch, worktrees, deleted>>
      BY <1>0, <1>5 DEF RestartWriteKV, store, TypeOK, ControlType
    <2>2. OwnerInv' /\ KnownInv' /\ ctl.id \in Ids
      BY <2>1 DEF DInv, OwnerInv, Owned, KnownInv, Kept, Live
    <2> QED
      BY <1>0, <2>1, <2>2, DurableFrame
  <1>6. CASE RestartStart
    <2>1. /\ ctl.pc = "start" /\ Startable(ctl.id) /\ Start(ctl.id)
          /\ ctl'.pc = "track" /\ ctl'.id = ctl.id /\ ctl'.new = NewObject
          /\ UNCHANGED <<agent, todo, sessions, watch, cmd, kv, slug, branch, worktrees, deleted>>
      BY <1>0, <1>6 DEF RestartStart, store, TypeOK, ControlType
    <2>2. ctl.id \in Ids
      BY <2>1 DEF DInv, OwnerInv
    <2>3. /\ NewObject \in Objects /\ watch[NewObject].pc \in {"none", "failed"}
          /\ \A g \in Objects \ {NewObject} : obj'[g] = obj[g]
          /\ \A g \in Objects : /\ (Live(g)' \/ obj'[g].boot \/ watch[g].pc # "none")
                                      => obj'[g].id \in Ids
                                /\ watch[g].new # NoObject => obj'[watch[g].new].id \in Ids
      BY <2>1, <2>2, StartOwner
    <2>4. OwnerInv'
      BY <2>1, <2>2, <2>3 DEF DInv, OwnerInv, Owned
    <2>5. KnownInv'
      BY <2>1, <2>2, <2>3, ConstantsAssumption DEF DInv, KnownInv, Kept
    <2> QED
      BY <1>0, <2>1, <2>4, <2>5, DurableFrame
  <1>7. CASE RestartFailed
    <2>1. /\ ctl'.pc = "serve"
          /\ UNCHANGED <<agent, todo, sessions, obj, watch, cmd, kv, slug, branch, worktrees, deleted>>
      BY <1>7 DEF RestartFailed, store, CtlServe
    <2>2. OwnerInv' /\ KnownInv'
      BY <2>1 DEF DInv, OwnerInv, Owned, KnownInv, Kept, Live
    <2> QED
      BY <1>0, <2>1, <2>2, DurableFrame
  <1>8. CASE RestartTrack
    <2>1. /\ ctl.pc = "track" /\ ctl'.pc = "serve"
          /\ sessions' = [sessions EXCEPT ![ctl.id] = ctl.new]
          /\ UNCHANGED <<agent, todo, obj, watch, cmd, kv, slug, branch, worktrees, deleted>>
      BY <1>8 DEF RestartTrack, store, CtlServe
    <2>2. ctl.id \in Ids /\ Kept(ctl.id) /\ ctl.new \in Objects
      BY <1>0, <2>1 DEF DInv, OwnerInv, KnownInv, TypeOK, ControlType
    <2>3. OwnerInv'
      BY <2>1 DEF DInv, OwnerInv, Owned, Live
    <2> QED
      BY <1>0, <2>1, <2>2, <2>3, DurableTrack
  <1>9. CASE ControlWriteKV
    <2>1. /\ ctl.pc = "answer" /\ ctl'.pc = "serve" /\ writeSessionKV(ctl.id)
          /\ UNCHANGED <<agent, todo, sessions, obj, watch, cmd, slug, branch, worktrees, deleted>>
      BY <1>9 DEF ControlWriteKV, store, CtlServe
    <2>2. OwnerInv' /\ KnownInv' /\ ctl.id \in Ids
      BY <2>1 DEF DInv, OwnerInv, Owned, KnownInv, Kept, Live
    <2> QED
      BY <1>0, <2>1, <2>2, DurableFrame
  <1> QED
    BY <1>1, <1>2, <1>3, <1>4, <1>5, <1>6, <1>7, <1>8, <1>9 DEF ControlStep

\* A step of a watcher that only moves its control point, and at most writes
\* the entry of its session.
LEMMA DurableGoto ==
    ASSUME IInv, IInv', DInv, NEW g \in Objects, NEW pc, WatchGoto(g, pc), watch[g].pc # "none",
           pc \in {"write", "start", "track"} => Kept(obj[g].id),
           UNCHANGED kv \/ writeSessionKV(obj[g].id),
           UNCHANGED <<agent, todo, sessions, obj, cmd, ctl, store>>
    PROVE  DInv'
  <1>0. TypeOK /\ TypeOK'
    BY DEF IInv
  <1>1. /\ watch'[g].pc = pc /\ watch'[g].new = watch[g].new
        /\ \A h \in Objects \ {g} : watch'[h] = watch[h]
    BY <1>0 DEF WatchGoto, TypeOK, WatchType
  <1>2. UNCHANGED <<slug, branch, worktrees, deleted>>
    BY DEF store
  <1>3. obj[g].id \in Ids
    BY DEF DInv, OwnerInv, Owned
  <1>4. OwnerInv'
    BY <1>1, <1>3 DEF DInv, OwnerInv, Owned, Live
  <1>5. KnownInv'
    BY <1>1, <1>2 DEF DInv, KnownInv, Kept
  <1> QED
    BY <1>0, <1>2, <1>3, <1>4, <1>5, DurableFrame

\* watchSessionCrash.
LEMMA DurableWatch ==
    ASSUME IInv, IInv', DInv, NEW g \in Objects, WatchStep(g) PROVE DInv'
  <1>0. TypeOK /\ TypeOK'
    BY DEF IInv
  <1>1. CASE WatchStopping(g)
    BY <1>1, DurableGoto DEF WatchStopping, WatchAt
  <1>2. CASE WatchTracked(g)
    <2>1. sessions[obj[g].id] = g => Kept(obj[g].id)
      BY ConstantsAssumption DEF Kept
    <2> QED
      BY <1>2, <2>1, DurableGoto DEF WatchTracked, WatchAt
  <1>3. CASE WatchWriteKV(g)
    <2>1. Kept(obj[g].id)
      BY <1>3 DEF WatchWriteKV, WatchAt, DInv, KnownInv
    <2> QED
      BY <1>3, <2>1, DurableGoto DEF WatchWriteKV, WatchAt
  <1>4. CASE WatchFailed(g)
    BY <1>4, DurableGoto DEF WatchFailed, WatchAt
  <1>5. CASE WatchStart(g)
    <2>1. /\ watch[g].pc = "start" /\ Startable(obj[g].id) /\ Start(obj[g].id)
          /\ watch' = [watch EXCEPT ![g] = [pc |-> "track", new |-> NewObject]]
          /\ UNCHANGED <<agent, todo, sessions, cmd, ctl, kv, slug, branch, worktrees, deleted>>
      BY <1>5 DEF WatchStart, WatchAt, store
    <2>2. obj[g].id \in Ids /\ Kept(obj[g].id)
      BY <2>1 DEF DInv, OwnerInv, Owned, KnownInv
    <2>3. /\ NewObject \in Objects /\ watch[NewObject].pc \in {"none", "failed"}
          /\ obj'[NewObject].id = obj[g].id
          /\ \A h \in Objects \ {NewObject} : obj'[h] = obj[h]
          /\ \A h \in Objects : /\ (Live(h)' \/ obj'[h].boot \/ watch[h].pc # "none")
                                      => obj'[h].id \in Ids
                                /\ watch[h].new # NoObject => obj'[watch[h].new].id \in Ids
      BY <2>1, <2>2, StartOwner
    <2>4. /\ watch'[g].pc = "track" /\ watch'[g].new = NewObject /\ g # NewObject
          /\ \A h \in Objects \ {g} : watch'[h] = watch[h]
      BY <1>0, <2>1, <2>3 DEF TypeOK
    <2>5. OwnerInv'
      BY <2>1, <2>2, <2>3, <2>4 DEF DInv, OwnerInv, Owned
    <2>6. KnownInv'
      BY <2>1, <2>2, <2>3, <2>4 DEF DInv, KnownInv, Kept
    <2> QED
      BY <1>0, <2>1, <2>5, <2>6, DurableFrame
  <1>6. CASE WatchTrack(g)
    <2>1. /\ watch[g].pc = "track" /\ sessions' = [sessions EXCEPT ![obj[g].id] = watch[g].new]
          /\ watch' = [watch EXCEPT ![g] = NoWatch, ![watch[g].new].pc = "wait"]
          /\ UNCHANGED <<agent, todo, obj, cmd, ctl, kv, slug, branch, worktrees, deleted>>
      BY <1>6 DEF WatchTrack, WatchAt, store
    <2>2. /\ obj[g].id \in Ids /\ Kept(obj[g].id)
          /\ watch[g].new \in Objects /\ obj[watch[g].new].id \in Ids
          /\ watch[watch[g].new].pc \in {"none", "failed"}
      BY <1>0, <2>1 DEF DInv, OwnerInv, Owned, KnownInv, IInv, SuccessorInv, TypeOK, WatchType
    <2>3. /\ watch'[g] = NoWatch /\ watch[g].new # g
          /\ watch'[watch[g].new].pc = "wait"
          /\ watch'[watch[g].new].new = watch[watch[g].new].new
          /\ \A h \in Objects \ {g, watch[g].new} : watch'[h] = watch[h]
      BY <1>0, <2>1, <2>2 DEF TypeOK, WatchType
    <2>4. OwnerInv'
      <3>1. \A h \in Objects : (Live(h) \/ obj[h].boot \/ watch'[h].pc # "none") => obj[h].id \in Ids
        BY <2>2, <2>3 DEF DInv, OwnerInv, Owned
      <3>2. \A h \in Objects : watch'[h].new = watch[h].new \/ watch'[h].new = NoObject
        BY <2>3 DEF NoWatch
      <3>3. \A h \in Objects : watch'[h].new # NoObject => obj[watch'[h].new].id \in Ids
        BY <3>2 DEF DInv, OwnerInv, Owned
      <3>4. Owned'
        BY <2>1, <3>1, <3>3 DEF Owned, Live
      <3> QED
        BY <2>1, <3>4 DEF DInv, OwnerInv
    <2>5. \A h \in Objects : watch'[h].pc \in {"write", "start", "track"}
                             => watch[h].pc \in {"write", "start", "track"}
      BY <2>3 DEF NoWatch
    <2> QED
      BY <1>0, <2>1, <2>2, <2>4, <2>5, DurableTrack
  <1> QED
    BY <1>1, <1>2, <1>3, <1>4, <1>5, <1>6 DEF WatchStep

\* The router, the start-up watcher and the process of an object.
LEMMA DurableObject ==
    ASSUME IInv, IInv', DInv, NEW g \in Objects,
           RouterEvent(g) \/ StartupTimeout(g) \/ StartupDone(g) \/ ClaudeExits(g)
    PROVE  DInv'
  <1>0. TypeOK /\ TypeOK'
    BY DEF IInv
  <1>1. UNCHANGED <<agent, todo, sessions, watch, cmd, ctl, slug, branch, worktrees, deleted>>
    BY DEF RouterEvent, StartupTimeout, StartupDone, ClaudeExits, store
  <1>2. \A h \in Objects : obj'[h].id = obj[h].id /\ (obj'[h].proc = "up" => obj[h].proc = "up")
                           /\ (obj'[h].boot => obj[h].boot)
    <2>1. CASE RouterEvent(g)
      <3>1. PICK init \in BOOLEAN : obj' = [obj EXCEPT ![g].boot = @ /\ ~init]
        BY <2>1 DEF RouterEvent
      <3>2. \A h \in Objects \ {g} : obj'[h] = obj[h]
        BY <1>0, <3>1 DEF TypeOK
      <3>3. obj'[g].id = obj[g].id /\ obj'[g].proc = obj[g].proc
        BY <1>0, <3>1 DEF TypeOK, ObjectType
      <3>4. obj'[g].boot = (obj[g].boot /\ ~init)
        BY <1>0, <3>1 DEF TypeOK, ObjectType
      <3> QED
        BY <3>2, <3>3, <3>4
    <2>2. CASE StartupTimeout(g) \/ StartupDone(g)
      BY <1>0, <2>2 DEF StartupTimeout, StartupDone, TypeOK, ObjectType
    <2>3. CASE ClaudeExits(g)
      BY <1>0, <2>3 DEF ClaudeExits, TypeOK, ObjectType
    <2> QED
      BY <2>1, <2>2, <2>3
  <1>3. UNCHANGED kv \/ \E i \in Ids : writeSessionKV(i)
    <2>1. Live(g) \/ obj[g].boot => obj[g].id \in Ids
      BY DEF DInv, OwnerInv, Owned
    <2> QED
      BY <2>1 DEF RouterEvent, StartupTimeout, StartupDone, ClaudeExits
  <1>4. OwnerInv'
    <2>1. Owned'
      BY <1>0, <1>1, <1>2, OwnerFrame
    <2> QED
      BY <1>1, <2>1 DEF DInv, OwnerInv
  <1>5. KnownInv'
    BY <1>1, <1>2 DEF DInv, KnownInv, Kept
  <1> QED
    BY <1>0, <1>1, <1>3, <1>4, <1>5, DurableFrame

\* The death of the agent and recoverSessions.
LEMMA DurableAgent ==
    ASSUME IInv, IInv', DInv, AgentDies \/ AgentStarts \/ RecoverStep PROVE DInv'
  <1>0. TypeOK /\ TypeOK'
    BY DEF IInv
  <1>1. CASE AgentDies
    BY <1>1, DurableMemoryLost DEF AgentDies
  <1>2. CASE AgentStarts
    <2>1. /\ todo' = {kv[s] : s \in Slugs} \ {NoId}
          /\ UNCHANGED <<sessions, obj, watch, cmd, ctl, kv, slug, branch, worktrees, deleted>>
      BY <1>2 DEF AgentStarts
    <2>2. \A i \in todo' : slug[i] # NoSlug
      BY <2>1, ConstantsAssumption DEF DInv, NameInv
    <2>3. OwnerInv' /\ KnownInv'
      BY <2>1 DEF DInv, OwnerInv, Owned, KnownInv, Kept, Live
    <2>4. NameInv' /\ CreateInv'
      BY <2>1, <2>2 DEF DInv, NameInv, CreateInv, Durable
    <2>5. SharedWorktreeKept' /\ RegisteredIsDurable'
      BY <2>1 DEF DInv, SharedWorktreeKept, RegisteredIsDurable
    <2> QED
      BY <2>3, <2>4, <2>5 DEF DInv
  <1>3. ASSUME NEW i \in Ids, RecoverFailed(i) PROVE DInv'
    <2>1. /\ todo' \subseteq todo
          /\ UNCHANGED <<sessions, obj, watch, cmd, ctl, kv, slug, branch, worktrees, deleted>>
      BY <1>3 DEF RecoverFailed, store
    <2>2. OwnerInv' /\ KnownInv'
      BY <2>1 DEF DInv, OwnerInv, Owned, KnownInv, Kept, Live
    <2> QED
      BY <1>0, <2>1, <2>2, DurableFrame
  <1>4. CASE AgentServes
    <2>1. UNCHANGED <<todo, sessions, obj, watch, cmd, ctl, kv, slug, branch, worktrees, deleted>>
      BY <1>4 DEF AgentServes, store
    <2>2. OwnerInv' /\ KnownInv'
      BY <2>1 DEF DInv, OwnerInv, Owned, KnownInv, Kept, Live
    <2> QED
      BY <1>0, <2>1, <2>2, DurableFrame
  <1>5. ASSUME NEW i \in Ids, RecoverSession(i) PROVE DInv'
    <2>1. /\ i \in todo /\ todo' = todo \ {i} /\ Startable(i) /\ Start(i) /\ writeSessionKV(i)
          /\ sessions' = [sessions EXCEPT ![i] = NewObject]
          /\ watch' = [watch EXCEPT ![NewObject] = [pc |-> "wait", new |-> NoObject]]
          /\ UNCHANGED <<agent, cmd, ctl, slug, branch, worktrees, deleted>>
      BY <1>5 DEF RecoverSession, store
    <2>2. slug[i] # NoSlug /\ branch[i] \in worktrees
      BY <2>1 DEF DInv, NameInv, Startable
    <2>3. /\ NewObject \in Objects /\ watch[NewObject].pc \in {"none", "failed"}
          /\ \A h \in Objects : watch[h].new # NewObject
          /\ obj'[NewObject].id = i
          /\ \A g \in Objects \ {NewObject} : obj'[g] = obj[g]
          /\ \A g \in Objects : /\ (Live(g)' \/ obj'[g].boot \/ watch[g].pc # "none")
                                      => obj'[g].id \in Ids
                                /\ watch[g].new # NoObject => obj'[watch[g].new].id \in Ids
      BY <2>1, StartOwner
    <2>4. /\ watch'[NewObject] = [pc |-> "wait", new |-> NoObject]
          /\ \A g \in Objects \ {NewObject} : watch'[g] = watch[g]
          /\ sessions'[i] = NewObject /\ NewObject # NoObject
          /\ \A k \in Ids \ {i} : sessions'[k] = sessions[k]
      BY <1>0, <2>1, <2>3, ConstantsAssumption DEF TypeOK
    <2>5. /\ \A s \in Slugs : kv'[s] # NoId => slug'[kv'[s]] = s
          /\ kv'[slug[i]] = i
          /\ \A k \in Ids : (slug[k] \in Slugs /\ Durable(k)) => Durable(k)'
      BY <1>0, <2>1, <2>2, WriteKeeps
    <2>6. OwnerInv'
      BY <2>1, <2>3, <2>4 DEF DInv, OwnerInv, Owned
    <2>7. KnownInv'
      <3>1. \A k \in Ids : Kept(k) => (sessions'[k] # NoObject \/ deleted'[k] # "no")
        BY <2>1, <2>4 DEF Kept
      <3>2. \A g \in Objects : watch'[g].pc \in {"write", "start", "track"}
                               => /\ watch[g].pc \in {"write", "start", "track"} /\ obj'[g] = obj[g]
                                  /\ obj[g].id \in Ids
        BY <2>3, <2>4 DEF DInv, OwnerInv, Owned
      <3>3. ctl.pc # "serve" => ctl.id \in Ids
        BY DEF DInv, OwnerInv
      <3>4. ctl.pc # "serve" => (sessions'[ctl.id] # NoObject \/ deleted'[ctl.id] # "no")
        BY <3>1, <3>3 DEF DInv, KnownInv
      <3>5. \A g \in Objects : watch'[g].pc \in {"write", "start", "track"}
                               => (sessions'[obj'[g].id] # NoObject \/ deleted'[obj'[g].id] # "no")
        BY <3>1, <3>2 DEF DInv, KnownInv
      <3>6. /\ ctl.pc = "track" => ctl.new # NoObject
            /\ cmd.pc \in {"stop", "wait", "worktree", "kvDelete"} => deleted[cmd.id] # "no"
        BY DEF DInv, KnownInv
      <3> QED
        BY <2>1, <3>4, <3>5, <3>6 DEF KnownInv, Kept
    <2>8. NameInv'
      BY <2>1, <2>5 DEF DInv, NameInv
    <2>9. CreateInv'
      <3>1. CASE cmd.pc = "start"
        <4>1. cmd.id \in Ids /\ slug[cmd.id] \in Slugs /\ Durable(cmd.id)
          BY <1>0, <3>1 DEF TypeOK, DInv, OwnerInv, NameInv, CreateInv
        <4>2. Durable(cmd.id)'
          BY <2>1, <2>5, <4>1 DEF Durable
        <4> QED
          BY <4>2 DEF CreateInv
      <3> QED
        BY <2>1, <3>1 DEF CreateInv
    <2>10. SharedWorktreeKept'
      BY <2>1, <2>2, <2>4 DEF DInv, SharedWorktreeKept
    <2>11. RegisteredIsDurable'
      <3> SUFFICES ASSUME NEW k \in Ids, sessions'[k] # NoObject, deleted[k] = "no"
                   PROVE  Durable(k)'
        BY <2>1 DEF RegisteredIsDurable, Durable
      <3>1. CASE k = i
        BY <2>1, <2>5, <3>1 DEF Durable
      <3>2. CASE k # i
        BY <1>0, <2>4, <2>5, <3>2, RegisteredNamed
      <3> QED
        BY <3>1, <3>2
    <2> QED
      BY <2>6, <2>7, <2>8, <2>9, <2>10, <2>11 DEF DInv
  <1> QED
    BY <1>1, <1>2, <1>3, <1>4, <1>5 DEF RecoverStep

\* Every step keeps the invariant.
LEMMA NextDurable == ASSUME IInv, IInv', DInv, [Next]_vars PROVE DInv'
  <1>0. TypeOK /\ TypeOK'
    BY DEF IInv
  <1>1. CASE UNCHANGED vars
    <2>1. UNCHANGED <<todo, sessions, obj, watch, cmd, ctl, kv, slug, branch, worktrees, deleted>>
      BY <1>1 DEF vars
    <2>2. OwnerInv' /\ KnownInv'
      BY <2>1 DEF DInv, OwnerInv, Owned, KnownInv, Kept, Live
    <2> QED
      BY <1>0, <2>1, <2>2, DurableFrame
  <1>2. CASE Next
    BY <1>2, DurableCreate, DurableDelete, DurableControl, DurableWatch, DurableObject,
       DurableAgent DEF Next, CommandStep
  <1> QED
    BY <1>1, <1>2

-----------------------------------------------------------------------------
(* Theorems                                                                *)

\* The invariant holds in every state the agent reaches.
THEOREM Durability == Spec => []DInv
  <1>1. Init => DInv
    BY DurableInit
  <1>2. IInv /\ IInv' /\ DInv /\ [Next]_vars => DInv'
    BY NextDurable
  <1> QED
    BY <1>1, <1>2, Invariance, PTL DEF Spec

\* handleDelete, a crash and a restart of the agent never remove the worktree of
\* another registered session, however many share it.
THEOREM WorktreesKept == Spec => []SharedWorktreeKept
  <1>1. DInv => SharedWorktreeKept
    BY DEF DInv
  <1> QED
    BY <1>1, Durability, PTL

\* A registered session that nobody deletes and whose name no other session has
\* is in the bucket, where recoverSessions finds it.
THEOREM EntriesKept == Spec => []RegisteredIsDurable
  <1>1. DInv => RegisteredIsDurable
    BY DEF DInv
  <1> QED
    BY <1>1, Durability, PTL

\* writeSessionKV, handleDelete and the death and start of agents: an entry leaves its
\* slug only after a delete of its session has begun, or to a session of the same name,
\* so that however many agents die, none of them takes it away.
THEOREM EntriesOutliveAgents ==
    Spec => [][\A i \in Ids, s \in Slugs : kv[s] = i /\ kv'[s] # i =>
                  deleted[i] # "no" \/ \E j \in Ids \ {i} : slug[j] = s]_vars
  <1> DEFINE Loses(i, s) == kv[s] = i /\ kv'[s] # i
             Excused(i, s) == deleted[i] # "no" \/ \E j \in Ids \ {i} : slug[j] = s
  <1>1. ASSUME IInv, DInv, Next, NEW i \in Ids, NEW s \in Slugs, Loses(i, s)
        PROVE  Excused(i, s)
    <2>0. kv \in [Slugs -> Ids \cup {NoId}]
      BY <1>1 DEF IInv, TypeOK
    <2>1. kv' # kv
      BY <1>1
    <2>2. ASSUME NEW j \in Ids, writeSessionKV(j) PROVE Excused(i, s)
      BY <1>1, <2>0, <2>2 DEF writeSessionKV
    <2>3. CASE DeleteKV
      <3>1. cmd.id \in Ids /\ deleted[cmd.id] # "no"
        BY <1>1, <2>3 DEF DeleteKV, DInv, OwnerInv, KnownInv
      <3>2. s = slug[cmd.id]
        BY <1>1, <2>0, <2>3 DEF DeleteKV
      <3> QED
        BY <3>1, <3>2
    <2> HIDE DEF Excused, Loses
    <2>4. CASE CommandStep
      <3>1. CASE CreateWriteKV
        BY <1>1, <2>2, <3>1 DEF CreateWriteKV, DInv, OwnerInv
      <3> QED
        BY <2>1, <2>3, <2>4, <3>1
        DEF CommandStep, CreateStart, CreateFailed, DeleteStop, DeleteKill, DeleteStopped,
            DeleteWorktree
    <2>5. CASE ControlStep
      <3>1. CASE RestartWriteKV \/ ControlWriteKV
        BY <1>1, <2>2, <3>1 DEF RestartWriteKV, ControlWriteKV, DInv, OwnerInv
      <3> QED
        BY <2>1, <2>5, <3>1
        DEF ControlStep, RestartStop, RestartKill, RestartStopped, RestartStart, RestartFailed,
            RestartTrack
    <2>6. ASSUME NEW g \in Objects, WatchStep(g) PROVE Excused(i, s)
      <3>1. CASE WatchWriteKV(g)
        BY <1>1, <2>2, <3>1 DEF WatchWriteKV, WatchAt, DInv, OwnerInv, Owned
      <3> QED
        BY <2>1, <2>6, <3>1
        DEF WatchStep, WatchStopping, WatchTracked, WatchStart, WatchFailed, WatchTrack
    <2>7. ASSUME NEW g \in Objects,
                 RouterEvent(g) \/ StartupTimeout(g) \/ StartupDone(g) \/ ClaudeExits(g)
          PROVE  Excused(i, s)
      <3>1. CASE RouterEvent(g) \/ StartupTimeout(g)
        BY <1>1, <2>2, <3>1 DEF RouterEvent, StartupTimeout, DInv, OwnerInv, Owned, Live
      <3> QED
        BY <2>1, <2>7, <3>1 DEF StartupDone, ClaudeExits
    <2>8. ASSUME AgentDies \/ AgentStarts \/ RecoverStep PROVE Excused(i, s)
      BY <2>1, <2>2, <2>8
      DEF AgentDies, AgentStarts, RecoverStep, RecoverFailed, RecoverSession, AgentServes
    <2>9. ASSUME \/ \E j \in Ids, n \in Slugs, b \in Branches, join \in BOOLEAN :
                       CreateCheck(j, n, b, join)
                 \/ \E j \in Ids : DeleteTake(j) \/ RestartTake(j) \/ ControlTake(j)
          PROVE  Excused(i, s)
      BY <2>1, <2>9 DEF CreateCheck, DeleteTake, RestartTake, ControlTake
    <2> QED
      BY <1>1, <2>4, <2>5, <2>6, <2>7, <2>8, <2>9 DEF Next
  <1>2. IInv /\ DInv /\ [Next]_vars
          => [\A i \in Ids, s \in Slugs : Loses(i, s) => Excused(i, s)]_vars
    BY <1>1
  <1> QED
    BY <1>2, Invariance, Durability, PTL DEF Spec
=============================================================================
