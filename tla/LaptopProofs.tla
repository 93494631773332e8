----------------------------- MODULE LaptopProofs -----------------------------
(***************************************************************************)
(* The two daemons of a laptop.  That the machine controller never runs    *)
(* two agents of one project and never takes the directory away from under *)
(* one, for any number of projects, supervisors and process starts.  That  *)
(* the job dispatcher leaves no job running over its threshold, for any    *)
(* number of jobs, sessions, quota levels and faults.                      *)
(*                                                                         *)
(* The daemons share nothing: each has its own constants, variables and    *)
(* specification.                                                          *)
(***************************************************************************)
EXTENDS LocalController, JobDispatcher, FiniteSetTheorems, FunctionTheorems, TLAPS

-----------------------------------------------------------------------------
(* The machine controller                                                  *)

\* Children whose supervisor goroutine runs: it may have or start a process.
Active(c) == supPc[c] \in {"check", "build", "start", "wait", "delay"}

\* A process exists only while its supervisor waits for it.
ProcInv == \A c \in Children : proc[c] # "none" => supPc[c] = "wait" /\ starts[c] # 0

\* A stop in progress is of some child; a key that is registered was read.
ArgInv ==
    /\ \A t \in Threads : stopper[t].pc # "none" => stopper[t].child \in Children
    /\ handler.pc = "register" => handler.key \in Keys

\* The child that the NATS callback is responsible for: started and not yet
\* recorded, or taken out of the map and not yet stopped.
InHand(c) ==
    /\ handler.proj = owner[c]
    /\ \/ handler.pc = "record" /\ handler.child = c
       \/ handler.pc = "stop" /\ stopper["handler"].pc # "none" /\ stopper["handler"].child = c

\* Where a running supervisor is known: in c.children under its project, or to
\* the callback.  While the callback has a child in hand, or is to start one or to
\* remove the directory, the map has no child for the project.
PlaceInv ==
    /\ \A c \in Children : Active(c) => children[owner[c]] = c \/ InHand(c)
    /\ handler.pc \in {"clone", "record", "stop", "rmdir"} => children[handler.proj] = NoChild

\* A running supervisor, or one about to be started, has its project's directory.
DirInv ==
    /\ \A c \in Children : Active(c) => owner[c] \in dir
    /\ handler.pc \in {"clone", "record"} => handler.proj \in dir

IInv == TypeOK /\ ProcInv /\ ArgInv /\ PlaceInv /\ DirInv

\* With the invariant, what the runs check.
LEMMA InvImplies == IInv => OneAgentPerProject /\ NoAgentWithoutDir
<1> SUFFICES ASSUME IInv PROVE OneAgentPerProject /\ NoAgentWithoutDir
  OBVIOUS
<1>1. \A c \in Children : Live(c) => Active(c)
  BY DEF IInv, ProcInv, Live, Active
<1>2. OneAgentPerProject
  BY <1>1, ConstantsAssumption DEF IInv, TypeOK, PlaceInv, InHand, OneAgentPerProject
<1>3. NoAgentWithoutDir
  BY <1>1 DEF IInv, DirInv, NoAgentWithoutDir
<1> QED
  BY <1>2, <1>3

\* The controller starts with no child, stop, key or directory.
LEMMA InitInv == Init => IInv
<1> SUFFICES ASSUME Init PROVE IInv
  OBVIOUS
<1>1. handler \in HandlerType /\ [pc |-> "none", child |-> NoChild] \in StopType
      /\ main \in [pc : {"run", "shutdown", "exited"}, todo : SUBSET Children]
  BY DEF Init, HandlerType, StopType
<1>a. 0 \in 0 .. MaxStarts
  BY ConstantsAssumption
<1>2. TypeOK
  BY <1>1, <1>a DEF Init, TypeOK
<1>3. ProcInv /\ ArgInv /\ PlaceInv /\ DirInv
  BY DEF Init, ProcInv, ArgInv, PlaceInv, DirInv, Active
<1> QED
  BY <1>2, <1>3 DEF IInv

-----------------------------------------------------------------------------
(* Steps                                                                   *)

\* What an action leaves alone when it only moves the callback.
LEMMA HandlerFields ==
    ASSUME NEW r \in HandlerType
    PROVE  /\ r.proj \in Projects /\ r.child \in Children \cup {NoChild}
           /\ r.key \in Keys \cup {NoKey}
           /\ \A x \in {"idle", "clone", "record", "awaitKey", "register", "stop", "rmdir"} :
                 /\ [r EXCEPT !.pc = x] \in HandlerType
                 /\ \A p \in Projects : [r EXCEPT !.pc = x, !.proj = p] \in HandlerType
                 /\ \A c \in Children : [r EXCEPT !.pc = x, !.child = c] \in HandlerType
                 /\ \A k \in Keys \cup {NoKey} : [r EXCEPT !.pc = x, !.key = k] \in HandlerType
           /\ [r EXCEPT !.pc = "idle", !.child = NoChild, !.key = NoKey] \in HandlerType
  BY DEF HandlerType

\* A stop in progress, as its steps change it.
LEMMA StopFields ==
    ASSUME NEW r \in StopType
    PROVE  /\ r.child \in Children \cup {NoChild}
           /\ \A x \in {"check", "close", "read", "grace", "wait"} : [r EXCEPT !.pc = x] \in StopType
           /\ \A c \in Children : [pc |-> "check", child |-> c] \in StopType
           /\ [pc |-> "none", child |-> NoChild] \in StopType
  BY DEF StopType

\* The key of a process that has started.
LEMMA CurrentKeyType ==
    ASSUME IInv, NEW c \in Children, proc[c] # "none" PROVE CurrentKey(c) \in Keys
  BY DEF IInv, TypeOK, ProcInv, CurrentKey, Keys

\* handleCreate: a supervisor is started only for a project that has none.
LEMMA CreateInv ==
    ASSUME IInv,
           \/ \E p \in Projects : CreateCheck(p)
           \/ CloneFailed
           \/ \E c \in Children : StartChild(c)
           \/ RecordChild
           \/ NKeyFileRead
           \/ NKeyFileTimeout
           \/ \E ok \in BOOLEAN : RegisterAgentKey(ok)
    PROVE  IInv'
<1> USE DEF IInv, supVars, procVars
<1>1. ASSUME NEW p \in Projects, CreateCheck(p) PROVE IInv'
  <2>1. TypeOK'
    BY <1>1, HandlerFields DEF CreateCheck, TypeOK
  <2>2. ProcInv' /\ ArgInv'
    BY <1>1 DEF CreateCheck, ProcInv, ArgInv, TypeOK, HandlerType, StopType
  <2>3. PlaceInv' /\ DirInv'
    BY <1>1, ConstantsAssumption
       DEF CreateCheck, PlaceInv, DirInv, InHand, Active, TypeOK, HandlerType, StopType
  <2> QED
    BY <2>1, <2>2, <2>3
<1>2. CASE CloneFailed
  <2>1. TypeOK'
    BY <1>2, HandlerFields DEF CloneFailed, HandlerIdle, TypeOK
  <2>2. ProcInv' /\ ArgInv'
    BY <1>2 DEF CloneFailed, HandlerIdle, ProcInv, ArgInv, TypeOK, HandlerType, StopType
  <2>3. PlaceInv' /\ DirInv'
    BY <1>2, ConstantsAssumption
       DEF CloneFailed, HandlerIdle, PlaceInv, DirInv, InHand, Active, TypeOK, HandlerType,
           StopType
  <2> QED
    BY <2>1, <2>2, <2>3
<1>3. ASSUME NEW c \in Children, StartChild(c) PROVE IInv'
  <2>1. TypeOK'
    BY <1>3, HandlerFields DEF StartChild, TypeOK
  <2>2. ProcInv' /\ ArgInv'
    BY <1>3 DEF StartChild, ProcInv, ArgInv, TypeOK, HandlerType, StopType
  <2>3. PlaceInv' /\ DirInv'
    BY <1>3, ConstantsAssumption
       DEF StartChild, PlaceInv, DirInv, InHand, Active, TypeOK, HandlerType, StopType
  <2> QED
    BY <2>1, <2>2, <2>3
<1>4. CASE RecordChild
  <2>1. TypeOK'
    BY <1>4, HandlerFields DEF RecordChild, TypeOK
  <2>2. ProcInv' /\ ArgInv'
    BY <1>4 DEF RecordChild, ProcInv, ArgInv, TypeOK, HandlerType, StopType
  <2>3. PlaceInv' /\ DirInv'
    BY <1>4, ConstantsAssumption
       DEF RecordChild, PlaceInv, DirInv, InHand, Active, TypeOK, HandlerType, StopType
  <2> QED
    BY <2>1, <2>2, <2>3
<1>5. CASE NKeyFileRead
  <2>1. TypeOK'
    BY <1>5, HandlerFields DEF NKeyFileRead, TypeOK
  <2>2. ProcInv' /\ ArgInv'
    BY <1>5 DEF NKeyFileRead, ProcInv, ArgInv, TypeOK, HandlerType, StopType
  <2>3. PlaceInv' /\ DirInv'
    BY <1>5, ConstantsAssumption
       DEF NKeyFileRead, PlaceInv, DirInv, InHand, Active, TypeOK, HandlerType, StopType
  <2> QED
    BY <2>1, <2>2, <2>3
<1>6. CASE NKeyFileTimeout
  <2>1. TypeOK'
    BY <1>6, HandlerFields DEF NKeyFileTimeout, HandlerIdle, TypeOK
  <2>2. ProcInv' /\ ArgInv'
    BY <1>6 DEF NKeyFileTimeout, HandlerIdle, ProcInv, ArgInv, TypeOK, HandlerType, StopType
  <2>3. PlaceInv' /\ DirInv'
    BY <1>6, ConstantsAssumption
       DEF NKeyFileTimeout, HandlerIdle, PlaceInv, DirInv, InHand, Active, TypeOK,
           HandlerType, StopType
  <2> QED
    BY <2>1, <2>2, <2>3
<1>7. ASSUME NEW ok \in BOOLEAN, RegisterAgentKey(ok) PROVE IInv'
  <2>1. TypeOK'
    BY <1>7, HandlerFields DEF RegisterAgentKey, HandlerIdle, ArgInv, TypeOK
  <2>2. ProcInv' /\ ArgInv'
    BY <1>7 DEF RegisterAgentKey, HandlerIdle, ProcInv, ArgInv, TypeOK, HandlerType,
       StopType
  <2>3. PlaceInv' /\ DirInv'
    BY <1>7, ConstantsAssumption
       DEF RegisterAgentKey, HandlerIdle, ArgInv, PlaceInv, DirInv, InHand, Active, TypeOK,
           HandlerType, StopType
  <2> QED
    BY <2>1, <2>2, <2>3
<1> QED
  BY <1>1, <1>2, <1>3, <1>4, <1>5, <1>6, <1>7

\* handleDelete: the directory is removed after the supervisor has ended.
LEMMA DeleteInv ==
    ASSUME IInv,
           \/ \E p \in Projects : DeleteTake(p)
           \/ DeleteStopped
           \/ \E ok \in BOOLEAN : RemoveProjectDir(ok)
    PROVE  IInv'
<1> USE DEF IInv, supVars, procVars
<1>1. ASSUME NEW p \in Projects, DeleteTake(p) PROVE IInv'
  <2>1. CASE children[p] = NoChild
    <3>1. UNCHANGED <<children, stopper, dir, main, supVars, procVars, panicked>>
          /\ handler' = [handler EXCEPT !.pc = "rmdir", !.proj = p]
      BY <1>1, <2>1 DEF DeleteTake, TypeOK
    <3>2. TypeOK'
      BY <3>1, HandlerFields DEF TypeOK
    <3>3. ProcInv' /\ ArgInv'
      BY <1>1, <3>1 DEF DeleteTake, ProcInv, ArgInv, TypeOK, HandlerType
    <3>4. PlaceInv' /\ DirInv'
      BY <1>1, <2>1, <3>1 DEF DeleteTake, PlaceInv, DirInv, InHand, Active, TypeOK, HandlerType
    <3> QED
      BY <3>2, <3>3, <3>4
  <2>2. CASE children[p] # NoChild
    <3> DEFINE c == children[p]
    <3>1. /\ c \in Children /\ handler.pc = "idle"
          /\ children' = [children EXCEPT ![p] = NoChild]
          /\ handler' = [handler EXCEPT !.pc = "stop", !.proj = p]
          /\ stopper' = [stopper EXCEPT !["handler"] = [pc |-> "check", child |-> c]]
          /\ UNCHANGED <<dir, main, supVars, procVars, panicked>>
      BY <1>1, <2>2 DEF DeleteTake, BeginStop, TypeOK
    <3>2. TypeOK'
      BY <3>1, HandlerFields, StopFields DEF TypeOK
    <3>3. ProcInv' /\ ArgInv'
      BY <3>1 DEF ProcInv, ArgInv, TypeOK, HandlerType, Threads
    <3>4. PlaceInv' /\ DirInv'
      BY <3>1 DEF PlaceInv, DirInv, InHand, Active, TypeOK, HandlerType, StopType, Threads
    <3> QED
      BY <3>2, <3>3, <3>4
  <2> QED
    BY <2>1, <2>2
<1>2. CASE DeleteStopped
  <2>1. TypeOK'
    BY <1>2, HandlerFields DEF DeleteStopped, TypeOK
  <2>2. ProcInv' /\ ArgInv'
    BY <1>2 DEF DeleteStopped, ProcInv, ArgInv, TypeOK, HandlerType, StopType
  <2>3. PlaceInv' /\ DirInv'
    BY <1>2, ConstantsAssumption
       DEF DeleteStopped, PlaceInv, DirInv, InHand, Active, TypeOK, HandlerType, StopType
  <2> QED
    BY <2>1, <2>2, <2>3
<1>3. ASSUME NEW ok \in BOOLEAN, RemoveProjectDir(ok) PROVE IInv'
  <2>1. TypeOK'
    BY <1>3, HandlerFields DEF RemoveProjectDir, HandlerIdle, TypeOK
  <2>2. ProcInv' /\ ArgInv'
    BY <1>3 DEF RemoveProjectDir, HandlerIdle, ProcInv, ArgInv, TypeOK, HandlerType, StopType
  <2>3. PlaceInv' /\ DirInv'
    BY <1>3, ConstantsAssumption
       DEF RemoveProjectDir, HandlerIdle, PlaceInv, DirInv, InHand, Active, TypeOK,
           HandlerType, StopType
  <2> QED
    BY <2>1, <2>2, <2>3
<1> QED
  BY <1>1, <1>2, <1>3

\* shutdownChildren: the map and the callback go on as they were.
LEMMA ShutdownInv ==
    ASSUME IInv,
           \/ ShutdownSnapshot
           \/ \E c \in Children : ShutdownNext(c)
           \/ ShutdownExit
    PROVE  IInv'
<1> USE DEF IInv, supVars, procVars
<1>1. CASE ShutdownSnapshot
  <2>1. TypeOK'
    BY <1>1 DEF ShutdownSnapshot, TypeOK
  <2>2. ProcInv' /\ ArgInv'
    BY <1>1 DEF ShutdownSnapshot, ProcInv, ArgInv, TypeOK, HandlerType, StopType
  <2>3. PlaceInv' /\ DirInv'
    BY <1>1, ConstantsAssumption
       DEF ShutdownSnapshot, PlaceInv, DirInv, InHand, Active, TypeOK, HandlerType, StopType
  <2> QED
    BY <2>1, <2>2, <2>3
<1>2. ASSUME NEW c \in Children, ShutdownNext(c) PROVE IInv'
  <2>1. TypeOK'
    BY <1>2, StopFields DEF ShutdownNext, BeginStop, TypeOK
  <2>2. ProcInv' /\ ArgInv'
    BY <1>2 DEF ShutdownNext, BeginStop, ProcInv, ArgInv, TypeOK, HandlerType, StopType
  <2>3. PlaceInv' /\ DirInv'
    BY <1>2, ConstantsAssumption
       DEF ShutdownNext, BeginStop, PlaceInv, DirInv, InHand, Active, TypeOK, HandlerType,
           StopType
  <2> QED
    BY <2>1, <2>2, <2>3
<1>3. CASE ShutdownExit
  <2>1. TypeOK'
    BY <1>3 DEF ShutdownExit, TypeOK
  <2>2. ProcInv' /\ ArgInv'
    BY <1>3 DEF ShutdownExit, ProcInv, ArgInv, TypeOK, HandlerType, StopType
  <2>3. PlaceInv' /\ DirInv'
    BY <1>3, ConstantsAssumption
       DEF ShutdownExit, PlaceInv, DirInv, InHand, Active, TypeOK, HandlerType, StopType
  <2> QED
    BY <2>1, <2>2, <2>3
<1> QED
  BY <1>1, <1>2, <1>3

\* supervisedChild.stop returns to the callback only when the supervisor has ended.
LEMMA StopInv ==
    ASSUME IInv,
           \/ \E u \in Threads : StopCheck(u)
           \/ \E u \in Threads : StopClose(u)
           \/ \E u \in Threads : StopRead(u)
           \/ \E u \in Threads : StopKill(u)
           \/ \E u \in Threads : StopDone(u)
    PROVE  IInv'
<1> USE DEF IInv, supVars, procVars
<1>1. ASSUME NEW u \in Threads, StopCheck(u) PROVE IInv'
  <2>1. TypeOK'
    BY <1>1, StopFields DEF StopCheck, SetStopper, TypeOK
  <2>2. ProcInv' /\ ArgInv'
    BY <1>1 DEF StopCheck, SetStopper, ProcInv, ArgInv, TypeOK, HandlerType, StopType
  <2>3. PlaceInv' /\ DirInv'
    BY <1>1, ConstantsAssumption
       DEF StopCheck, SetStopper, PlaceInv, DirInv, InHand, Active, TypeOK, HandlerType,
           StopType
  <2> QED
    BY <2>1, <2>2, <2>3
<1>2. ASSUME NEW u \in Threads, StopClose(u) PROVE IInv'
  <2>1. CASE stopper[u].child \in stopCh
    <3>1. panicked' = TRUE /\ UNCHANGED <<stopCh, stopper, children, dir, handler, main, supPc,
                                           owner, cmd, procVars>>
      BY <1>2, <2>1 DEF StopClose
    <3> QED
      BY <3>1 DEF TypeOK, ProcInv, ArgInv, PlaceInv, DirInv, InHand, Active
  <2>2. CASE stopper[u].child \notin stopCh
    <3>1. /\ stopper[u].pc = "close"
          /\ stopCh' = stopCh \cup {stopper[u].child}
          /\ stopper' = [stopper EXCEPT ![u].pc = "read"]
          /\ UNCHANGED <<panicked, children, dir, handler, main, supPc, owner, cmd, procVars>>
      BY <1>2, <2>2 DEF StopClose, SetStopper
    <3>2. TypeOK'
      BY <3>1, StopFields DEF TypeOK, ArgInv
    <3>3. ProcInv' /\ ArgInv'
      BY <3>1 DEF ProcInv, ArgInv, TypeOK, StopType
    <3>4. PlaceInv' /\ DirInv'
      BY <3>1 DEF PlaceInv, DirInv, InHand, Active, TypeOK, StopType
    <3> QED
      BY <3>2, <3>3, <3>4
  <2> QED
    BY <2>1, <2>2
<1>3. ASSUME NEW u \in Threads, StopRead(u) PROVE IInv'
  <2>1. PICK x \in {"grace", "wait"} : stopper' = [stopper EXCEPT ![u].pc = x]
    BY <1>3 DEF StopRead, SetStopper
  <2>2. /\ stopper[u].pc = "read" /\ signalled' \subseteq Children
        /\ UNCHANGED <<children, dir, handler, main, supVars, proc, killed, starts, keyFile,
                       registered, panicked>>
    BY <1>3 DEF StopRead, TypeOK, ArgInv
  <2>3. TypeOK'
    BY <2>1, <2>2, StopFields DEF TypeOK
  <2>4. ProcInv' /\ ArgInv'
    BY <2>1, <2>2 DEF ProcInv, ArgInv, TypeOK, StopType
  <2>5. PlaceInv' /\ DirInv'
    BY <2>1, <2>2 DEF PlaceInv, DirInv, InHand, Active, TypeOK, StopType
  <2> QED
    BY <2>3, <2>4, <2>5
<1>4. ASSUME NEW u \in Threads, StopKill(u) PROVE IInv'
  <2>1. TypeOK'
    BY <1>4, StopFields DEF StopKill, SetStopper, ArgInv, TypeOK
  <2>2. ProcInv' /\ ArgInv'
    BY <1>4 DEF StopKill, SetStopper, ArgInv, ProcInv, ArgInv, TypeOK, HandlerType, StopType
  <2>3. PlaceInv' /\ DirInv'
    BY <1>4, ConstantsAssumption
       DEF StopKill, SetStopper, ArgInv, PlaceInv, DirInv, InHand, Active, TypeOK,
           HandlerType, StopType
  <2> QED
    BY <2>1, <2>2, <2>3
<1>5. ASSUME NEW u \in Threads, StopDone(u) PROVE IInv'
  <2>1. TypeOK'
    BY <1>5, StopFields DEF StopDone, EndStop, TypeOK
  <2>2. ProcInv' /\ ArgInv'
    BY <1>5 DEF StopDone, EndStop, ProcInv, ArgInv, TypeOK, HandlerType, StopType
  <2>3. PlaceInv' /\ DirInv'
    BY <1>5, ConstantsAssumption
       DEF StopDone, EndStop, PlaceInv, DirInv, InHand, Active, TypeOK, HandlerType, StopType
  <2> QED
    BY <2>1, <2>2, <2>3
<1> QED
  BY <1>1, <1>2, <1>3, <1>4, <1>5

\* supervisedChild.run: a process is started and reaped by its supervisor.
LEMMA SupInv ==
    ASSUME IInv,
           \/ \E c \in Children : SupCheck(c)
           \/ \E c \in Children : SupBuild(c)
           \/ \E c \in Children : SupStart(c)
           \/ \E c \in Children : SupStartFailed(c)
           \/ \E c \in Children : SupReap(c)
           \/ \E c \in Children : SupDelay(c)
    PROVE  IInv'
<1> USE DEF IInv, supVars, procVars
<1>1. ASSUME NEW c \in Children, SupCheck(c) PROVE IInv'
  <2>1. TypeOK'
    BY <1>1 DEF SupCheck, TypeOK
  <2>2. ProcInv' /\ ArgInv'
    BY <1>1 DEF SupCheck, ProcInv, ArgInv, TypeOK, HandlerType, StopType
  <2>3. PlaceInv' /\ DirInv'
    BY <1>1, ConstantsAssumption
       DEF SupCheck, PlaceInv, DirInv, InHand, Active, TypeOK, HandlerType, StopType
  <2> QED
    BY <2>1, <2>2, <2>3
<1>2. ASSUME NEW c \in Children, SupBuild(c) PROVE IInv'
  <2>1. TypeOK'
    BY <1>2 DEF SupBuild, TypeOK
  <2>2. ProcInv' /\ ArgInv'
    BY <1>2 DEF SupBuild, ProcInv, ArgInv, TypeOK, HandlerType, StopType
  <2>3. PlaceInv' /\ DirInv'
    BY <1>2, ConstantsAssumption
       DEF SupBuild, PlaceInv, DirInv, InHand, Active, TypeOK, HandlerType, StopType
  <2> QED
    BY <2>1, <2>2, <2>3
<1>3. ASSUME NEW c \in Children, SupStart(c) PROVE IInv'
  <2>1. starts[c] + 1 \in 0 .. MaxStarts /\ starts[c] + 1 # 0
    BY <1>3, ConstantsAssumption DEF SupStart, TypeOK
  <2>2. TypeOK'
    BY <1>3, <2>1 DEF SupStart, TypeOK
  <2>3. ProcInv' /\ ArgInv'
    BY <1>3, <2>1 DEF SupStart, ProcInv, ArgInv, TypeOK
  <2>4. PlaceInv' /\ DirInv'
    BY <1>3 DEF SupStart, PlaceInv, DirInv, InHand, Active, TypeOK
  <2> QED
    BY <2>2, <2>3, <2>4
<1>4. ASSUME NEW c \in Children, SupStartFailed(c) PROVE IInv'
  <2>1. TypeOK'
    BY <1>4 DEF SupStartFailed, TypeOK
  <2>2. ProcInv' /\ ArgInv'
    BY <1>4 DEF SupStartFailed, ProcInv, ArgInv, TypeOK, HandlerType, StopType
  <2>3. PlaceInv' /\ DirInv'
    BY <1>4, ConstantsAssumption
       DEF SupStartFailed, PlaceInv, DirInv, InHand, Active, TypeOK, HandlerType, StopType
  <2> QED
    BY <2>1, <2>2, <2>3
<1>5. ASSUME NEW c \in Children, SupReap(c) PROVE IInv'
  <2>1. TypeOK'
    BY <1>5 DEF SupReap, TypeOK
  <2>2. ProcInv' /\ ArgInv'
    BY <1>5 DEF SupReap, ProcInv, ArgInv, TypeOK, HandlerType, StopType
  <2>3. PlaceInv' /\ DirInv'
    BY <1>5, ConstantsAssumption
       DEF SupReap, PlaceInv, DirInv, InHand, Active, TypeOK, HandlerType, StopType
  <2> QED
    BY <2>1, <2>2, <2>3
<1>6. ASSUME NEW c \in Children, SupDelay(c) PROVE IInv'
  <2>1. TypeOK'
    BY <1>6 DEF SupDelay, TypeOK
  <2>2. ProcInv' /\ ArgInv'
    BY <1>6 DEF SupDelay, ProcInv, ArgInv, TypeOK, HandlerType, StopType
  <2>3. PlaceInv' /\ DirInv'
    BY <1>6, ConstantsAssumption
       DEF SupDelay, PlaceInv, DirInv, InHand, Active, TypeOK, HandlerType, StopType
  <2> QED
    BY <2>1, <2>2, <2>3
<1> QED
  BY <1>1, <1>2, <1>3, <1>4, <1>5, <1>6

\* The agent processes.
LEMMA AgentInv ==
    ASSUME IInv,
           \/ \E c \in Children : AgentWriteKey(c)
           \/ \E c \in Children : AgentAuthenticated(c)
           \/ \E c \in Children : AgentExit(c)
    PROVE  IInv'
<1> USE DEF IInv, supVars, procVars
<1>1. ASSUME NEW c \in Children, AgentWriteKey(c) PROVE IInv'
  <2>1. TypeOK'
    BY <1>1, CurrentKeyType DEF AgentWriteKey, TypeOK
  <2>2. ProcInv' /\ ArgInv'
    BY <1>1 DEF AgentWriteKey, ProcInv, ArgInv, TypeOK, HandlerType, StopType
  <2>3. PlaceInv' /\ DirInv'
    BY <1>1, ConstantsAssumption
       DEF AgentWriteKey, PlaceInv, DirInv, InHand, Active, TypeOK, HandlerType, StopType
  <2> QED
    BY <2>1, <2>2, <2>3
<1>2. ASSUME NEW c \in Children, AgentAuthenticated(c) PROVE IInv'
  <2>1. TypeOK'
    BY <1>2 DEF AgentAuthenticated, TypeOK
  <2>2. ProcInv' /\ ArgInv'
    BY <1>2 DEF AgentAuthenticated, ProcInv, ArgInv, TypeOK, HandlerType, StopType
  <2>3. PlaceInv' /\ DirInv'
    BY <1>2, ConstantsAssumption
       DEF AgentAuthenticated, PlaceInv, DirInv, InHand, Active, TypeOK, HandlerType, StopType
  <2> QED
    BY <2>1, <2>2, <2>3
<1>3. ASSUME NEW c \in Children, AgentExit(c) PROVE IInv'
  <2>1. TypeOK'
    BY <1>3 DEF AgentExit, TypeOK
  <2>2. ProcInv' /\ ArgInv'
    BY <1>3 DEF AgentExit, ProcInv, ArgInv, TypeOK, HandlerType, StopType
  <2>3. PlaceInv' /\ DirInv'
    BY <1>3, ConstantsAssumption
       DEF AgentExit, PlaceInv, DirInv, InHand, Active, TypeOK, HandlerType, StopType
  <2> QED
    BY <2>1, <2>2, <2>3
<1> QED
  BY <1>1, <1>2, <1>3


\* Every step keeps the invariant.
LEMMA NextInv == ASSUME IInv, [Next]_vars PROVE IInv'
<1>1. CASE UNCHANGED vars
  BY <1>1 DEF vars, IInv, TypeOK, ProcInv, ArgInv, PlaceInv, DirInv, InHand, Active
<1>2. CASE \E p \in Projects : CreateCheck(p) \/ DeleteTake(p)
  BY <1>2, CreateInv, DeleteInv
<1>3. CASE HandlerStep
  BY <1>3, CreateInv, DeleteInv DEF HandlerStep
<1>4. CASE ShutdownSnapshot \/ MainStep
  BY <1>4, ShutdownInv DEF MainStep
<1>5. CASE \E t \in Threads : StopStep(t)
  BY <1>5, StopInv DEF StopStep
<1>6. CASE \E c \in Children : SupStep(c) \/ AgentStep(c)
  BY <1>6, SupInv, AgentInv DEF SupStep, AgentStep
<1> QED
  BY <1>1, <1>2, <1>3, <1>4, <1>5, <1>6 DEF Next

-----------------------------------------------------------------------------
(* Theorems                                                                *)

\* The invariant holds in every state of every behaviour.
LEMMA SpecInv == Spec => []IInv
  BY InitInv, NextInv, PTL DEF Spec

\* Types of the controller's maps, goroutines and processes.
THEOREM ControllerTypes == Spec => []TypeOK
  BY SpecInv, PTL DEF IInv

\* At most one live agent per project (handleCreate, handleDelete,
\* supervisedChild.stop and run), also across deletes, restarts and a shutdown.
THEOREM AgentsAreSingle == Spec => []OneAgentPerProject
  BY SpecInv, InvImplies, PTL

\* No delete takes the directory of a live agent.
THEOREM AgentsHaveDirs == Spec => []NoAgentWithoutDir
  BY SpecInv, InvImplies, PTL

-----------------------------------------------------------------------------
(* The job dispatcher: types                                               *)

\* A job may run at this utilisation.
Below(q, j) == q = NoData \/ q < Threshold[j]

\* What the dispatcher has at hand: a job that passed the test of the quota it
\* still goes by, and after the prompt the session that works on it.
HandInv ==
    /\ d.pc \in {"start", "create", "run"} => d.job \in Jobs /\ Below(d.quota, d.job)
    /\ d.pc = "run" => d.sess \in Sessions
    /\ d.pc \in {"down", "recover"} => d.quota = NoData

\* What the callback and the cancel have read is a job's; a cancel closes it.
ReadInv ==
    /\ \A s \in Sessions : sess[s].state = "working" => sess[s].job \in Jobs
    /\ sub = NoSub \/ sub.job \in Jobs
    /\ http = NoHttp \/ (http.job \in Jobs /\ http.e.status = "closed")

JobInv == DaemonTypeOK /\ HandInv /\ ReadInv

\* A job without an entry.
LEMMA EntryFacts ==
    NoEntry \in Entry /\ NoEntry.status = "none"
  BY DEF NoEntry, Entry, Statuses

\* What no writer but MarkRunning may do: make an entry running, or change one
\* that is.
NoneStarted ==
    /\ kv' \in [Jobs -> Entry]
    /\ \A j \in Jobs : kv'[j].status = "running" => kv'[j] = kv[j]

LEMMA PutFacts ==
    ASSUME DaemonTypeOK, NEW j \in Jobs, NEW e \in Entry, Put(j, e)
    PROVE  /\ kv' \in [Jobs -> Entry] /\ watch' \in Seq(ReadEntry)
           /\ kv'[j].status = e.status /\ (e.status = "running" => kv'[j] = e)
           /\ \A k \in Jobs : k # j => kv'[k] = kv[k]
           /\ e.status # "running" => NoneStarted
  <1>1. kv \in [Jobs -> Entry] /\ watch \in Seq(ReadEntry)
    BY DEF DaemonTypeOK
  <1>a. Stored(e) \in Entry /\ Stored(e).status = e.status
    BY DEF Stored, Entry
  <1>b. e.status = "running" => Stored(e) = e
    BY DEF Stored
  <1> DEFINE f == Stored(e)
  <1>2. kv' = [kv EXCEPT ![j] = f]
    BY DEF Put
  <1>4. [job |-> j, e |-> f] \in ReadEntry
    BY <1>a DEF ReadEntry
  <1>5. watch' \in Seq(ReadEntry)
    BY <1>1, <1>4 DEF Put
  <1> HIDE DEF f
  <1>3. kv' \in [Jobs -> Entry] /\ kv'[j] = f /\ \A k \in Jobs : k # j => kv'[k] = kv[k]
    <2>1. f \in Entry
      BY <1>a DEF f
    <2> QED
      BY <1>1, <1>2, <2>1
  <1>6. kv'[j].status = e.status /\ (e.status = "running" => kv'[j] = e)
    BY <1>3, <1>a, <1>b DEF f
  <1>7. e.status # "running" => NoneStarted
    BY <1>3, <1>6 DEF NoneStarted
  <1> QED
    BY <1>3, <1>5, <1>6, <1>7

\* The sessions of running entries are there, as before.
LEMMA RunningKept ==
    ASSUME DaemonTypeOK, NoneStarted
    PROVE  /\ kv' \in [Jobs -> Entry]
           /\ \A j \in Jobs : kv'[j].status = "running" => kv'[j].sess # NoSession
  BY DEF DaemonTypeOK, NoneStarted

LEMMA Unwritten ==
    ASSUME DaemonTypeOK, kv' = kv
    PROVE  NoneStarted
  BY DEF DaemonTypeOK, NoneStarted

\* Records of the dispatcher.
LEMMA DispatcherFacts ==
    /\ Idle \in DispatcherType /\ Idle.quota = NoData /\ Idle.pc = "down"
    /\ \A x \in DispatcherType :
          /\ Waiting(x) \in DispatcherType
          /\ Waiting(x).pc = "idle" /\ Waiting(x).quota = x.quota
    /\ \A x \in DispatcherType, pc \in {"idle", "start"} :
          LET y == [x EXCEPT !.pc = pc]
          IN  /\ y \in DispatcherType /\ y.pc = pc
              /\ y.quota = x.quota /\ y.job = x.job /\ y.list = x.list
    /\ \A x \in DispatcherType, L \in SUBSET ReadEntry :
          LET y == [x EXCEPT !.list = L]
          IN  /\ y \in DispatcherType /\ y.pc = x.pc /\ y.list = L
              /\ y.quota = x.quota /\ y.job = x.job
  <1>1. NoEntry \in Entry
    BY EntryFacts
  <1>2. /\ Idle \in DispatcherType /\ Idle.quota = NoData /\ Idle.pc = "down"
    BY <1>1 DEF Idle, DispatcherType, MaybeJob, MaybeSession
  <1>3. ASSUME NEW x \in DispatcherType
        PROVE  /\ Waiting(x) \in DispatcherType
               /\ Waiting(x).pc = "idle" /\ Waiting(x).quota = x.quota
    BY <1>2 DEF Waiting, DispatcherType
  <1>4. ASSUME NEW x \in DispatcherType, NEW pc \in {"idle", "start"}
        PROVE  LET y == [x EXCEPT !.pc = pc]
               IN  /\ y \in DispatcherType /\ y.pc = pc
                   /\ y.quota = x.quota /\ y.job = x.job /\ y.list = x.list
    BY DEF DispatcherType
  <1>5. ASSUME NEW x \in DispatcherType, NEW L \in SUBSET ReadEntry
        PROVE  LET y == [x EXCEPT !.list = L]
               IN  /\ y \in DispatcherType /\ y.pc = x.pc /\ y.list = L
                   /\ y.quota = x.quota /\ y.job = x.job
    BY DEF DispatcherType
  <1> QED
    BY <1>2, <1>3, <1>4, <1>5

\* Where a pass goes on: with the rest of its list, to the start of the job that
\* triggered it, or back to waiting.
LEMMA ContinueFacts ==
    ASSUME NEW x \in DispatcherType, Continue(x)
    PROVE  /\ d' \in DispatcherType /\ d'.quota = x.quota
           /\ \/ x.list # {} /\ d' = x
              \/ x.list = {} /\ d'.pc = "start" /\ d'.job \in Jobs /\ Below(d'.quota, d'.job)
              \/ x.list = {} /\ d'.pc = "idle"
  <1>1. CASE x.list # {}
    BY <1>1 DEF Continue
  <1>2. CASE x.list = {} /\ MayStart(x)
    <2>1. d' = [x EXCEPT !.pc = "start"]
      BY <1>2 DEF Continue
    <2>2. d' \in DispatcherType /\ d'.pc = "start" /\ d'.quota = x.quota /\ d'.job = x.job
      BY <2>1, DispatcherFacts
    <2>3. x.job \in Jobs
      BY <1>2 DEF MayStart, DispatcherType, MaybeJob
    <2>4. Below(x.quota, x.job)
      BY <1>2 DEF MayStart, Below
    <2> QED
      BY <1>2, <2>2, <2>3, <2>4
  <1>3. CASE x.list = {} /\ ~MayStart(x)
    <2>1. d' = Waiting(x)
      BY <1>3 DEF Continue
    <2> QED
      BY <1>3, <2>1, DispatcherFacts
  <1> QED
    BY <1>1, <1>2, <1>3

\* A pass of processDispatch begins with the running jobs, if one of them is
\* over its threshold, or else with the paused ones.
LEMMA PassFacts ==
    ASSUME DaemonTypeOK, NEW q \in Levels \cup {NoData},
           NEW j \in MaybeJob, NEW e \in Entry, StartPass(q, j, e)
    PROVE  \E x \in DispatcherType :
              /\ Continue(x) /\ x.quota = q
              /\ \/ /\ x.pc = "pausing" /\ x.list = WithStatus("running") /\ q # NoData
                 \/ /\ x.pc \in {"pausing", "resume"} /\ x.list = {} /\ q = NoData
                 \/ /\ x.pc = "resume" /\ \A y \in WithStatus("running") : ~Exceeded(q, y)
  <1> DEFINE any == \E y \in WithStatus("running") : Exceeded(q, y)
             pc == IF any THEN "pausing" ELSE "resume"
             L == IF q = NoData THEN {}
                  ELSE IF any THEN WithStatus("running") ELSE WithStatus("paused")
             x == [d EXCEPT !.quota = q, !.job = j, !.e = e, !.pc = pc, !.list = L]
  <1>1. d \in DispatcherType /\ kv \in [Jobs -> Entry]
    BY DEF DaemonTypeOK
  <1>2. WithStatus("running") \in SUBSET ReadEntry /\ WithStatus("paused") \in SUBSET ReadEntry
    BY <1>1 DEF WithStatus, ReadEntry
  <1>3. L \in SUBSET ReadEntry
    BY <1>2
  <1>4. pc \in {"pausing", "resume"}
    OBVIOUS
  <1>5. Continue(x)
    BY DEF StartPass
  <1> HIDE DEF pc, L
  <1>6. x \in DispatcherType /\ x.quota = q /\ x.pc = pc /\ x.list = L
    BY <1>1, <1>3, <1>4 DEF DispatcherType
  <1>7. CASE q = NoData
    BY <1>4, <1>5, <1>6, <1>7 DEF L
  <1>8. CASE q # NoData /\ any
    BY <1>5, <1>6, <1>8 DEF pc, L
  <1>9. CASE q # NoData /\ ~any
    BY <1>5, <1>6, <1>9 DEF pc, L
  <1> QED
    BY <1>7, <1>8, <1>9

\* Steps of the passes: they write entries that are not running and leave the
\* sessions and what others have read alone.
LEMMA PassTypes ==
    ASSUME JobInv, TakeUpdate \/ TakeQuota \/ PauseNext \/ ResumeNext
    PROVE  JobInv' /\ NoneStarted
  <1>a. /\ kv \in [Jobs -> Entry] /\ watch \in Seq(ReadEntry) /\ due \subseteq Jobs
        /\ d \in DispatcherType /\ DaemonTypeOK
    BY DEF JobInv, DaemonTypeOK
  <1>b. UNCHANGED <<sess, sub, http, up, faults>>
    BY DEF TakeUpdate, TakeQuota, PauseNext, ResumeNext
  <1>c. NoEntry \in Entry /\ NoJob \in MaybeJob
    BY EntryFacts DEF MaybeJob
  <1>d. "paused" \in Statuses /\ "queued" \in Statuses
    BY DEF Statuses
  <1>1. NoneStarted /\ watch' \in Seq(ReadEntry) /\ due' \subseteq Jobs
    <2>1. CASE TakeUpdate
      BY <1>a, <2>1, Unwritten DEF TakeUpdate
    <2>2. CASE TakeQuota
      BY <1>a, <2>2, Unwritten DEF TakeQuota, jobVars
    <2>3. CASE PauseNext
      <3>1. PICK x \in d.list : \/ Put(x.job, [x.e EXCEPT !.status = "paused"])
                                \/ UNCHANGED jobVars
        BY <2>3 DEF PauseNext
      <3>2. x.job \in Jobs /\ x.e \in Entry
        BY <1>a DEF DispatcherType, ReadEntry
      <3>3. /\ [x.e EXCEPT !.status = "paused"] \in Entry
            /\ [x.e EXCEPT !.status = "paused"].status = "paused"
        BY <1>d, <3>2 DEF Entry
      <3>4. NoneStarted /\ watch' \in Seq(ReadEntry)
        BY <1>a, <3>1, <3>2, <3>3, PutFacts, Unwritten DEF jobVars
      <3> QED
        BY <1>a, <2>3, <3>4 DEF PauseNext
    <2>4. CASE ResumeNext
      <3>1. PICK x \in d.list :
               \/ UNCHANGED <<jobVars, due>>
               \/ /\ Put(x.job, [x.e EXCEPT !.status = "queued", !.resume = FALSE])
                  /\ due' = due \ {x.job}
        BY <2>4 DEF ResumeNext
      <3>2. x.job \in Jobs /\ x.e \in Entry
        BY <1>a DEF DispatcherType, ReadEntry
      <3>3. /\ [x.e EXCEPT !.status = "queued", !.resume = FALSE] \in Entry
            /\ [x.e EXCEPT !.status = "queued", !.resume = FALSE].status = "queued"
        BY <1>d, <3>2 DEF Entry
      <3>4. NoneStarted /\ watch' \in Seq(ReadEntry)
        BY <1>a, <3>1, <3>2, <3>3, PutFacts, Unwritten DEF jobVars
      <3> QED
        BY <1>a, <3>1, <3>4
    <2> QED
      BY <2>1, <2>2, <2>3, <2>4
  <1>2. \E x \in DispatcherType : Continue(x) /\ x.pc \in {"pausing", "resume"}
    <2>1. CASE TakeUpdate
      <3>1. Head(watch) \in ReadEntry
        BY <1>a, <2>1 DEF TakeUpdate
      <3>2. Head(watch).job \in MaybeJob /\ Head(watch).e \in Entry
        BY <3>1 DEF ReadEntry, MaybeJob
      <3>3. d.quota \in Levels \cup {NoData}
        BY <1>a DEF DispatcherType
      <3> QED
        BY <1>a, <2>1, <3>2, <3>3, PassFacts DEF TakeUpdate
    <2>2. CASE TakeQuota
      BY <1>a, <1>c, <2>2, PassFacts DEF TakeQuota
    <2>3. CASE PauseNext \/ ResumeNext
      <3>1. PICK L \in SUBSET d.list : Continue([d EXCEPT !.list = L])
        BY <2>3 DEF PauseNext, ResumeNext
      <3>2. L \in SUBSET ReadEntry
        BY <1>a, <3>1 DEF DispatcherType
      <3>3. d.pc \in {"pausing", "resume"}
        BY <2>3 DEF PauseNext, ResumeNext
      <3>4. [d EXCEPT !.list = L] \in DispatcherType /\ [d EXCEPT !.list = L].pc = d.pc
        BY <1>a, <3>2 DEF DispatcherType
      <3> QED
        BY <3>1, <3>3, <3>4
    <2> QED
      BY <2>1, <2>2, <2>3
  <1>3. d' \in DispatcherType /\ HandInv'
    <2>1. PICK x \in DispatcherType : Continue(x) /\ x.pc \in {"pausing", "resume"}
      BY <1>2
    <2> QED
      BY <2>1, ContinueFacts DEF HandInv
  <1>4. DaemonTypeOK'
    BY <1>a, <1>b, <1>1, <1>3, RunningKept DEF DaemonTypeOK
  <1>5. ReadInv'
    BY <1>b DEF JobInv, ReadInv, NoSub, NoHttp, NoEntry
  <1> QED
    BY <1>1, <1>3, <1>4, <1>5 DEF JobInv

\* The steps that start the job at hand.  Only the last of them makes an entry
\* running, with the session that got the prompt.
LEMMA StartTypes ==
    ASSUME JobInv,
           \/ MarkStarting \/ CreateFails \/ PollFails \/ MarkRunning
           \/ \E s \in Sessions : SendPrompt(s)
    PROVE  /\ JobInv' /\ d'.quota = d.quota /\ d.pc \in {"start", "create", "run"}
           /\ NoneStarted \/ (/\ MarkRunning /\ d.pc = "run"
                              /\ \A k \in Jobs : k # d.job => kv'[k] = kv[k])
  <1>a. /\ kv \in [Jobs -> Entry] /\ watch \in Seq(ReadEntry) /\ DaemonTypeOK
        /\ d \in DispatcherType /\ d.e \in Entry /\ sess \in [Sessions -> SessionType]
        /\ faults \in 0 .. MaxFaults /\ MaxFaults \in Nat
    BY DaemonAssumption DEF JobInv, DaemonTypeOK, DispatcherType
  <1>b. UNCHANGED <<sub, http, up, due>>
    BY DEF MarkStarting, CreateFails, PollFails, MarkRunning, SendPrompt
  <1>c. d.pc \in {"start", "create", "run"}
    BY DEF MarkStarting, CreateFails, PollFails, MarkRunning, SendPrompt
  <1>d. d.job \in Jobs /\ Below(d.quota, d.job) /\ (d.pc = "run" => d.sess \in Sessions)
    BY <1>c DEF JobInv, HandInv
  <1>e. Waiting(d) \in DispatcherType /\ Waiting(d).pc = "idle" /\ Waiting(d).quota = d.quota
    BY <1>a, DispatcherFacts
  <1>f. 0 \notin Sessions
    BY DEF Sessions
  <1>1. CASE MarkStarting
    <2> DEFINE new == [d.e EXCEPT !.status = "starting"]
    <2>1. new \in Entry /\ new.status = "starting"
      BY <1>a DEF Entry, Statuses
    <2>2. Put(d.job, new)
      BY <1>1 DEF MarkStarting
    <2>3. d' = [d EXCEPT !.pc = "create", !.e = new]
      BY <1>1, <1>a DEF MarkStarting
    <2> HIDE DEF new
    <2>4. /\ d' \in DispatcherType /\ d'.pc = "create" /\ d'.quota = d.quota
          /\ d'.job = d.job
      BY <1>a, <2>1, <2>3 DEF DispatcherType
    <2>5. NoneStarted /\ watch' \in Seq(ReadEntry)
      BY <1>a, <1>d, <2>1, <2>2, PutFacts
    <2>6. sess' = sess /\ faults' = faults
      BY <1>1 DEF MarkStarting
    <2>7. DaemonTypeOK'
      BY <1>a, <1>b, <2>4, <2>5, <2>6, RunningKept DEF DaemonTypeOK
    <2>8. HandInv'
      BY <1>d, <2>4 DEF HandInv
    <2>9. ReadInv'
      BY <1>b, <2>6 DEF JobInv, ReadInv, NoSub, NoHttp, NoEntry
    <2> QED
      BY <1>c, <2>4, <2>5, <2>7, <2>8, <2>9 DEF JobInv
  <1>2. CASE CreateFails
    <2>1. d' = Waiting(d) /\ kv' = kv /\ watch' = watch /\ sess' = sess
      BY <1>2 DEF CreateFails, jobVars
    <2>2. faults' \in 0 .. MaxFaults
      BY <1>2, <1>a DEF CreateFails
    <2>3. NoneStarted
      BY <1>a, <2>1, Unwritten
    <2>4. DaemonTypeOK'
      BY <1>a, <1>b, <1>e, <2>1, <2>2, <2>3, RunningKept DEF DaemonTypeOK
    <2>5. HandInv'
      BY <1>e, <2>1 DEF HandInv
    <2>6. ReadInv'
      BY <1>b, <2>1 DEF JobInv, ReadInv, NoSub, NoHttp, NoEntry
    <2> QED
      BY <1>c, <1>e, <2>1, <2>3, <2>4, <2>5, <2>6 DEF JobInv
  <1>3. CASE PollFails
    <2> DEFINE st == IF d.e.retry + 1 >= MaxRetries THEN "closed" ELSE "queued"
               new == [d.e EXCEPT !.retry = @ + 1, !.sess = NoSession, !.status = st]
    <2>1. d' = Waiting(d) /\ sess' = sess /\ faults' = faults /\ Put(d.job, new)
      BY <1>3 DEF PollFails
    <2>2. st \in {"closed", "queued"}
      OBVIOUS
    <2> HIDE DEF st
    <2>3. d.e.retry + 1 \in Nat
      BY <1>a DEF Entry
    <2>4. new \in Entry /\ new.status = st
      BY <1>a, <2>2, <2>3 DEF Entry, Statuses
    <2> HIDE DEF new
    <2>5. NoneStarted /\ watch' \in Seq(ReadEntry)
      BY <1>a, <1>d, <2>1, <2>2, <2>4, PutFacts
    <2>6. DaemonTypeOK'
      BY <1>a, <1>b, <1>e, <2>1, <2>5, RunningKept DEF DaemonTypeOK
    <2>7. HandInv'
      BY <1>e, <2>1 DEF HandInv
    <2>8. ReadInv'
      BY <1>b, <2>1 DEF JobInv, ReadInv, NoSub, NoHttp, NoEntry
    <2> QED
      BY <1>c, <1>e, <2>1, <2>5, <2>6, <2>7, <2>8 DEF JobInv
  <1>4. CASE MarkRunning
    <2> DEFINE new == [d.e EXCEPT !.status = "running", !.sess = d.sess]
    <2>1. d' = Waiting(d) /\ sess' = sess /\ faults' = faults /\ Put(d.job, new)
      BY <1>4 DEF MarkRunning
    <2>2. d.pc = "run" /\ d.sess \in Sessions
      BY <1>4, <1>d DEF MarkRunning
    <2>3. new \in Entry /\ new.sess = d.sess /\ new.status = "running"
      BY <1>a, <2>2 DEF Entry, Statuses
    <2> HIDE DEF new
    <2>4. /\ kv' \in [Jobs -> Entry] /\ watch' \in Seq(ReadEntry)
          /\ kv'[d.job] = new /\ \A k \in Jobs : k # d.job => kv'[k] = kv[k]
      BY <1>a, <1>d, <2>1, <2>3, PutFacts
    <2>5. \A j \in Jobs : kv'[j].status = "running" => kv'[j].sess # NoSession
      BY <1>a, <1>f, <2>2, <2>3, <2>4 DEF DaemonTypeOK, NoSession
    <2>6. DaemonTypeOK'
      BY <1>a, <1>b, <1>e, <2>1, <2>4, <2>5 DEF DaemonTypeOK
    <2>7. HandInv'
      BY <1>e, <2>1 DEF HandInv
    <2>8. ReadInv'
      BY <1>b, <2>1 DEF JobInv, ReadInv, NoSub, NoHttp, NoEntry
    <2> QED
      BY <1>4, <1>c, <1>e, <2>1, <2>2, <2>4, <2>6, <2>7, <2>8 DEF JobInv
  <1>5. CASE \E s \in Sessions : SendPrompt(s)
    <2>1. PICK s \in Sessions : SendPrompt(s)
      BY <1>5
    <2> DEFINE r == [job |-> d.job, state |-> "working"]
    <2>2. /\ d' = [d EXCEPT !.pc = "run", !.sess = s] /\ sess' = [sess EXCEPT ![s] = r]
          /\ kv' = kv /\ watch' = watch /\ faults' = faults
      BY <2>1 DEF SendPrompt, jobVars
    <2>3. r \in SessionType /\ r.job = d.job
      BY <1>d DEF SessionType, MaybeJob
    <2> HIDE DEF r
    <2>4. /\ d' \in DispatcherType /\ d'.pc = "run" /\ d'.quota = d.quota
          /\ d'.job = d.job /\ d'.sess = s
      BY <1>a, <2>2 DEF DispatcherType, MaybeSession
    <2>5. sess' \in [Sessions -> SessionType]
      BY <1>a, <2>2, <2>3
    <2>6. NoneStarted
      BY <1>a, <2>2, Unwritten
    <2>7. DaemonTypeOK'
      BY <1>a, <1>b, <2>2, <2>4, <2>5, <2>6, RunningKept DEF DaemonTypeOK
    <2>8. HandInv'
      BY <1>d, <2>4 DEF HandInv
    <2>9. \A t \in Sessions : sess'[t].state = "working" => sess'[t].job \in Jobs
      BY <1>a, <1>d, <2>2, <2>3 DEF JobInv, ReadInv
    <2>10. ReadInv'
      BY <1>b, <2>9 DEF JobInv, ReadInv, NoSub, NoHttp, NoEntry
    <2> QED
      BY <1>c, <2>4, <2>6, <2>7, <2>8, <2>10 DEF JobInv
  <1> QED
    BY <1>1, <1>2, <1>3, <1>4, <1>5

\* The instance counts as the library does.
LEMMA SameFinite ==
    ASSUME NEW S
    PROVE  (IsFiniteSet(S) <=> IsFiniteSet(S)) /\ Cardinality(S) = Cardinality(S)
  BY DEF IsFiniteSet, IsFiniteSet, Cardinality, Cardinality

\* A sequence of all elements of a finite set is a sequence.
LEMMA SetToSeqsType ==
    ASSUME NEW S, IsFiniteSet(S), NEW w \in SetToSeqs(S)
    PROVE  w \in Seq(S)
  <1>1. Cardinality(S) \in Nat
    BY FS_CardinalityType
  <1>2. w \in [1 .. Cardinality(S) -> S]
    BY SameFinite DEF SetToSeqs
  <1> QED
    BY <1>1, <1>2

\* The entries of a status are finitely many.
LEMMA WithStatusFinite ==
    ASSUME DaemonTypeOK, NEW st
    PROVE  IsFiniteSet(WithStatus(st)) /\ WithStatus(st) \in SUBSET ReadEntry
  <1> DEFINE K == {k \in Jobs : kv[k].status = st}
             f == [j \in K |-> [job |-> j, e |-> kv[j]]]
  <1>1. IsFiniteSet(K)
    <2>1. IsFiniteSet(Jobs)
      BY SameFinite, DaemonAssumption
    <2> QED
      BY <2>1, FS_Subset
  <1>2. f \in Surjection(K, WithStatus(st))
    BY Fun_IsSurj DEF WithStatus
  <1>3. WithStatus(st) \in SUBSET ReadEntry
    BY DEF WithStatus, ReadEntry, DaemonTypeOK
  <1> HIDE DEF K, f
  <1> QED
    BY <1>1, <1>2, <1>3, FS_Surjection

\* Crash and recovery: entries are put back to queued, never to running.
LEMMA RecoveryTypes ==
    ASSUME JobInv, Crash \/ Restart \/ RecoverNext \/ StartWatch
    PROVE  JobInv' /\ NoneStarted /\ d'.quota = NoData
  <1>a. /\ kv \in [Jobs -> Entry] /\ watch \in Seq(ReadEntry) /\ DaemonTypeOK
        /\ d \in DispatcherType /\ due \subseteq Jobs /\ sess \in [Sessions -> SessionType]
        /\ sub \in CallbackType /\ http \in CancelType
        /\ faults \in 0 .. MaxFaults /\ MaxFaults \in Nat
    BY DaemonAssumption DEF JobInv, DaemonTypeOK
  <1>b. NoSub \in CallbackType /\ NoHttp \in CancelType
    BY EntryFacts DEF NoSub, NoHttp, CallbackType, CancelType, MaybeJob, MaybeSession
  <1>c. Idle \in DispatcherType /\ Idle.quota = NoData /\ Idle.pc = "down"
    BY DispatcherFacts
  <1>1. CASE Crash
    <2>1. /\ kv' = kv /\ watch' = <<>> /\ due' = due /\ sess' = sess /\ d' = Idle
          /\ sub' = NoSub /\ http' = NoHttp /\ up' = FALSE /\ faults' \in 0 .. MaxFaults
      BY <1>1, <1>a DEF Crash
    <2>2. NoneStarted
      BY <1>a, <2>1, Unwritten
    <2>3. DaemonTypeOK'
      <3>1. watch' \in Seq(ReadEntry)
        BY <2>1
      <3>2. up' \in BOOLEAN
        BY <2>1
      <3> QED
        BY <1>a, <1>b, <1>c, <2>1, <2>2, <3>1, <3>2, RunningKept DEF DaemonTypeOK
    <2>4. HandInv'
      BY <1>c, <2>1 DEF HandInv
    <2>5. ReadInv'
      BY <2>1 DEF JobInv, ReadInv, NoSub, NoHttp, NoEntry
    <2> QED
      BY <1>c, <2>1, <2>2, <2>3, <2>4, <2>5 DEF JobInv
  <1>2. CASE Restart
    <2> DEFINE L == {[job |-> j, e |-> kv[j]] : j \in {k \in Jobs : kv[k].status # "none"}}
    <2>1. /\ d' = [Idle EXCEPT !.pc = "recover", !.list = L] /\ up' = TRUE
          /\ UNCHANGED <<kv, watch, due, sess, sub, http, faults>>
      BY <1>2 DEF Restart, jobVars
    <2>2. L \in SUBSET ReadEntry
      BY <1>a DEF ReadEntry
    <2> HIDE DEF L
    <2>3. d' \in DispatcherType /\ d'.pc = "recover" /\ d'.quota = NoData
      BY <1>c, <2>1, <2>2 DEF DispatcherType
    <2>4. NoneStarted
      BY <1>a, <2>1, Unwritten
    <2>5. DaemonTypeOK'
      BY <1>a, <2>1, <2>3, <2>4, RunningKept DEF DaemonTypeOK
    <2>6. HandInv'
      BY <2>3 DEF HandInv
    <2>7. ReadInv'
      BY <2>1 DEF JobInv, ReadInv, NoSub, NoHttp, NoEntry
    <2> QED
      BY <2>3, <2>4, <2>5, <2>6, <2>7 DEF JobInv
  <1>3. CASE RecoverNext
    <2>1. PICK x \in d.list :
             /\ kv' = IF Recovered(x) # x.e THEN [kv EXCEPT ![x.job] = Recovered(x)] ELSE kv
             /\ due' = IF Recovered(x).resume THEN due ELSE due \ {x.job}
             /\ d' = [d EXCEPT !.list = @ \ {x}]
      BY <1>3 DEF RecoverNext
    <2>2. d.pc = "recover" /\ UNCHANGED <<watch, sess, sub, http, up, faults>>
      BY <1>3 DEF RecoverNext
    <2>3. d.quota = NoData
      BY <2>2 DEF JobInv, HandInv
    <2>4. x.job \in Jobs /\ x.e \in Entry /\ d.list \in SUBSET ReadEntry
      BY <1>a DEF DispatcherType, ReadEntry
    <2>5. d' \in DispatcherType /\ d'.pc = "recover" /\ d'.quota = NoData
      BY <1>a, <2>1, <2>2, <2>3, <2>4 DEF DispatcherType
    <2>6. NoneStarted
      <3>1. CASE Recovered(x) = x.e
        BY <1>a, <2>1, <3>1, Unwritten
      <3>2. CASE Recovered(x) # x.e
        <4>1. Recovered(x) \in Entry /\ Recovered(x).status = "queued"
          BY <2>4, <3>2 DEF Recovered, Entry, Statuses, NoSession
        <4>2. kv' = [kv EXCEPT ![x.job] = Recovered(x)]
          BY <2>1, <3>2
        <4> QED
          BY <1>a, <2>4, <4>1, <4>2 DEF NoneStarted
      <3> QED
        BY <3>1, <3>2
    <2>7. due' \subseteq Jobs
      BY <1>a, <2>1
    <2>8. DaemonTypeOK'
      BY <1>a, <2>2, <2>5, <2>6, <2>7, RunningKept DEF DaemonTypeOK
    <2>9. HandInv'
      BY <2>5 DEF HandInv
    <2>10. ReadInv'
      BY <2>2 DEF JobInv, ReadInv, NoSub, NoHttp, NoEntry
    <2> QED
      BY <2>5, <2>6, <2>8, <2>9, <2>10 DEF JobInv
  <1>4. CASE StartWatch
    <2>1. /\ d.pc = "recover" /\ watch' \in SetToSeqs(WithStatus("queued")) /\ d' = Waiting(d)
          /\ UNCHANGED <<kv, due, sess, sub, http, up, faults>>
      BY <1>4 DEF StartWatch
    <2>2. d.quota = NoData
      BY <2>1 DEF JobInv, HandInv
    <2>3. d' \in DispatcherType /\ d'.pc = "idle" /\ d'.quota = NoData
      BY <1>a, <2>1, <2>2, DispatcherFacts
    <2>4. watch' \in Seq(ReadEntry)
      <3>1. watch' \in Seq(WithStatus("queued"))
        BY <1>a, <2>1, WithStatusFinite, SetToSeqsType
      <3>2. WithStatus("queued") \subseteq ReadEntry
        BY <1>a, WithStatusFinite
      <3> QED
        BY <3>1, <3>2
    <2>5. NoneStarted
      BY <1>a, <2>1, Unwritten
    <2>6. DaemonTypeOK'
      BY <1>a, <2>1, <2>3, <2>4, <2>5, RunningKept DEF DaemonTypeOK
    <2>7. HandInv'
      BY <2>3 DEF HandInv
    <2>8. ReadInv'
      BY <2>1 DEF JobInv, ReadInv, NoSub, NoHttp, NoEntry
    <2> QED
      BY <2>3, <2>5, <2>6, <2>7, <2>8 DEF JobInv
  <1> QED
    BY <1>1, <1>2, <1>3, <1>4

\* A session is only taken out of its work.
LEMMA SessionEnds ==
    ASSUME JobInv, NEW s \in Sessions, NEW st \in {"gone", "done"},
           sess' = [sess EXCEPT ![s].state = st]
    PROVE  /\ sess' \in [Sessions -> SessionType]
           /\ \A t \in Sessions : sess'[t].state = "working" => sess'[t].job \in Jobs
  <1>1. sess \in [Sessions -> SessionType]
    BY DEF JobInv, DaemonTypeOK
  <1>2. sess[s] \in SessionType
    BY <1>1
  <1>3. [sess[s] EXCEPT !.state = st] \in SessionType /\ [sess[s] EXCEPT !.state = st].state = st
    BY <1>2 DEF SessionType
  <1>4. sess' = [sess EXCEPT ![s] = [sess[s] EXCEPT !.state = st]]
    BY <1>1
  <1> QED
    BY <1>1, <1>3, <1>4 DEF JobInv, ReadInv

\* The HTTP handlers, the callback and the sessions: none of them moves the
\* dispatcher or makes an entry running.
LEMMA OtherTypes ==
    ASSUME JobInv,
           \/ SubWrite \/ CancelWrite
           \/ \E j \in Jobs : PostJob(j) \/ CancelRead(j) \/ ResumeTime(j)
           \/ \E s \in Sessions : SessionDies(s) \/ SessionUnheard(s)
           \/ \E s \in Sessions, ev \in EventTypes : SubRead(s, ev)
    PROVE  JobInv' /\ NoneStarted /\ d' = d
  <1>a. /\ kv \in [Jobs -> Entry] /\ watch \in Seq(ReadEntry) /\ DaemonTypeOK
        /\ due \subseteq Jobs /\ sess \in [Sessions -> SessionType]
        /\ sub \in CallbackType /\ http \in CancelType
        /\ faults \in 0 .. MaxFaults /\ MaxFaults \in Nat /\ up \in BOOLEAN
    BY DaemonAssumption DEF JobInv, DaemonTypeOK
  <1>b. NoSub \in CallbackType /\ NoHttp \in CancelType /\ NoEntry \in Entry
    BY EntryFacts DEF NoSub, NoHttp, CallbackType, CancelType, MaybeJob, MaybeSession
  <1>c. d' = d /\ up' = up
    BY DEF SubWrite, CancelWrite, PostJob, CancelRead, ResumeTime, SessionDies,
           SessionUnheard, SubRead
  <1>d. HandInv'
    BY <1>c DEF JobInv, HandInv
  <1>e. "queued" \in Statuses /\ "paused" \in Statuses /\ "closed" \in Statuses
    BY DEF Statuses
  <1>1. CASE SubWrite
    <2>1. sub # NoSub /\ sub' = NoSub /\ UNCHANGED <<sess, http, faults>>
      BY <1>1 DEF SubWrite
    <2>2. sub.job \in Jobs /\ sub.e \in Entry
      BY <1>a, <2>1 DEF JobInv, ReadInv, CallbackType
    <2>3. PICK at \in BOOLEAN :
             \/ UNCHANGED <<jobVars, due>>
             \/ /\ due' \in {due, due \ {sub.job}}
                /\ Put(sub.job, IF sub.ev = "paused" THEN AfterPause(sub.job, sub.e, at)
                                  ELSE [sub.e EXCEPT !.status = "closed"])
      BY <1>1 DEF SubWrite
    <2> DEFINE new == IF sub.ev = "paused" THEN AfterPause(sub.job, sub.e, at)
                      ELSE [sub.e EXCEPT !.status = "closed"]
    <2>4. new \in Entry /\ new.status \in {"paused", "queued", "closed"}
      BY <1>e, <2>2 DEF AfterPause, Entry
    <2> HIDE DEF new
    <2>5. ASSUME Put(sub.job, new), due' \in {due, due \ {sub.job}}
          PROVE  NoneStarted /\ watch' \in Seq(ReadEntry) /\ due' \subseteq Jobs
      BY <1>a, <2>2, <2>4, <2>5, PutFacts
    <2>6. NoneStarted /\ watch' \in Seq(ReadEntry) /\ due' \subseteq Jobs
      <3>1. CASE UNCHANGED <<jobVars, due>>
        BY <1>a, <3>1, Unwritten DEF jobVars
      <3> QED
        BY <2>3, <2>5, <3>1 DEF new
    <2>7. DaemonTypeOK'
      BY <1>a, <1>b, <1>c, <2>1, <2>6, RunningKept DEF DaemonTypeOK
    <2>8. ReadInv'
      BY <2>1 DEF JobInv, ReadInv, NoSub, NoHttp, NoEntry
    <2> QED
      BY <1>c, <1>d, <2>6, <2>7, <2>8 DEF JobInv
  <1>2. CASE CancelWrite
    <2>1. /\ http # NoHttp /\ http' = NoHttp /\ UNCHANGED <<due, sub, faults>>
          /\ Put(http.job, http.e)
      BY <1>2 DEF CancelWrite
    <2>2. http.job \in Jobs /\ http.e \in Entry /\ http.e.status = "closed"
      BY <1>a, <2>1 DEF JobInv, ReadInv, CancelType
    <2>3. NoneStarted /\ watch' \in Seq(ReadEntry)
      BY <1>a, <2>1, <2>2, PutFacts
    <2>4. /\ sess' \in [Sessions -> SessionType]
          /\ \A t \in Sessions : sess'[t].state = "working" => sess'[t].job \in Jobs
      <3>1. CASE http.stop = NoSession
        BY <1>2, <1>a, <3>1 DEF CancelWrite, JobInv, ReadInv
      <3>2. CASE http.stop # NoSession
        <4>1. http.stop \in Sessions
          BY <1>a, <3>2 DEF CancelType, MaybeSession
        <4> QED
          BY <1>2, <3>2, <4>1, SessionEnds DEF CancelWrite
      <3> QED
        BY <3>1, <3>2
    <2>5. DaemonTypeOK'
      BY <1>a, <1>b, <1>c, <2>1, <2>3, <2>4, RunningKept DEF DaemonTypeOK
    <2>6. ReadInv'
      BY <2>1, <2>4 DEF JobInv, ReadInv, NoSub, NoHttp, NoEntry
    <2> QED
      BY <1>c, <1>d, <2>3, <2>5, <2>6 DEF JobInv
  <1>3. ASSUME NEW j \in Jobs, PostJob(j)
        PROVE  JobInv' /\ NoneStarted
    <2> DEFINE new == [NoEntry EXCEPT !.status = "queued"]
    <2>1. Put(j, new) /\ UNCHANGED <<due, sess, sub, http, faults>>
      BY <1>3 DEF PostJob
    <2>2. new \in Entry /\ new.status = "queued"
      BY <1>b, <1>e DEF Entry
    <2> HIDE DEF new
    <2>3. NoneStarted /\ watch' \in Seq(ReadEntry)
      BY <1>a, <2>1, <2>2, PutFacts
    <2>4. DaemonTypeOK'
      BY <1>a, <1>c, <2>1, <2>3, RunningKept DEF DaemonTypeOK
    <2>5. ReadInv'
      BY <2>1 DEF JobInv, ReadInv, NoSub, NoHttp, NoEntry
    <2> QED
      BY <1>d, <2>3, <2>4, <2>5 DEF JobInv
  <1>4. ASSUME NEW j \in Jobs, CancelRead(j)
        PROVE  JobInv' /\ NoneStarted
    <2> DEFINE new == [kv[j] EXCEPT !.status = "closed"]
               stop == IF kv[j].status = "running" THEN kv[j].sess ELSE NoSession
    <2>1. /\ http' = [job |-> j, e |-> new, stop |-> stop] /\ faults' \in 0 .. MaxFaults
          /\ UNCHANGED <<kv, watch, due, sess, sub>>
      BY <1>4, <1>a DEF CancelRead, jobVars
    <2>2. new \in Entry /\ new.status = "closed" /\ stop \in MaybeSession
      BY <1>a, <1>e DEF Entry, MaybeSession
    <2> HIDE DEF new, stop
    <2>3. http' \in CancelType /\ http'.job \in Jobs /\ http'.e.status = "closed"
      BY <2>1, <2>2 DEF CancelType, MaybeJob
    <2>4. NoneStarted
      BY <1>a, <2>1, Unwritten
    <2>5. DaemonTypeOK'
      BY <1>a, <1>c, <2>1, <2>3, <2>4, RunningKept DEF DaemonTypeOK
    <2>6. ReadInv'
      BY <2>1, <2>3 DEF JobInv, ReadInv, NoSub, NoEntry
    <2> QED
      BY <1>d, <2>4, <2>5, <2>6 DEF JobInv
  <1>5. ASSUME NEW j \in Jobs, ResumeTime(j)
        PROVE  JobInv' /\ NoneStarted
    <2>1. due' \subseteq Jobs /\ UNCHANGED <<kv, watch, sess, sub, http, faults>>
      BY <1>5, <1>a DEF ResumeTime, jobVars
    <2>2. NoneStarted
      BY <1>a, <2>1, Unwritten
    <2>3. DaemonTypeOK'
      BY <1>a, <1>c, <2>1, <2>2, RunningKept DEF DaemonTypeOK
    <2>4. ReadInv'
      BY <2>1 DEF JobInv, ReadInv, NoSub, NoHttp, NoEntry
    <2> QED
      BY <1>d, <2>2, <2>3, <2>4 DEF JobInv
  <1>6. ASSUME NEW s \in Sessions, SessionDies(s) \/ SessionUnheard(s)
        PROVE  JobInv' /\ NoneStarted
    <2>1. /\ \E st \in {"gone", "done"} : sess' = [sess EXCEPT ![s].state = st]
          /\ faults' \in 0 .. MaxFaults /\ UNCHANGED <<kv, watch, due, sub, http>>
      BY <1>6, <1>a DEF SessionDies, SessionUnheard, jobVars
    <2>2. /\ sess' \in [Sessions -> SessionType]
          /\ \A t \in Sessions : sess'[t].state = "working" => sess'[t].job \in Jobs
      BY <2>1, SessionEnds
    <2>3. NoneStarted
      BY <1>a, <2>1, Unwritten
    <2>4. DaemonTypeOK'
      BY <1>a, <1>c, <2>1, <2>2, <2>3, RunningKept DEF DaemonTypeOK
    <2>5. ReadInv'
      BY <2>1, <2>2 DEF JobInv, ReadInv, NoSub, NoHttp, NoEntry
    <2> QED
      BY <1>d, <2>3, <2>4, <2>5 DEF JobInv
  <1>7. ASSUME NEW s \in Sessions, NEW ev \in EventTypes, SubRead(s, ev)
        PROVE  JobInv' /\ NoneStarted
    <2>1. /\ sess' = [sess EXCEPT ![s].state = "done"] /\ sess[s].state = "working"
          /\ sub' = [ev |-> ev, job |-> sess[s].job, e |-> kv[sess[s].job]]
          /\ UNCHANGED <<kv, watch, due, http, faults>>
      BY <1>7 DEF SubRead, jobVars
    <2>2. /\ sess' \in [Sessions -> SessionType]
          /\ \A t \in Sessions : sess'[t].state = "working" => sess'[t].job \in Jobs
      BY <2>1, SessionEnds
    <2>3. sess[s].job \in Jobs
      BY <2>1 DEF JobInv, ReadInv
    <2>4. sub' \in CallbackType /\ sub'.job \in Jobs
      BY <1>a, <2>1, <2>3 DEF CallbackType, MaybeJob
    <2>5. NoneStarted
      BY <1>a, <2>1, Unwritten
    <2>6. DaemonTypeOK'
      BY <1>a, <1>c, <2>1, <2>2, <2>4, <2>5, RunningKept DEF DaemonTypeOK
    <2>7. ReadInv'
      BY <2>1, <2>2, <2>4 DEF JobInv, ReadInv, NoHttp, NoEntry
    <2> QED
      BY <1>d, <2>5, <2>6, <2>7 DEF JobInv
  <1> QED
    BY <1>1, <1>2, <1>3, <1>4, <1>5, <1>6, <1>7, <1>c

LEMMA JobInit == ASSUME DaemonInit PROVE JobInv
  <1>1. kv \in [Jobs -> Entry] /\ \A j \in Jobs : kv[j].status = "none"
    BY EntryFacts DEF DaemonInit
  <1>2. d \in DispatcherType /\ d.pc = "idle"
    BY DispatcherFacts DEF DaemonInit, DispatcherType
  <1>3. sess \in [Sessions -> SessionType] /\ \A s \in Sessions : sess[s].state = "none"
    BY DEF DaemonInit, SessionType, MaybeJob
  <1>4. sub \in CallbackType /\ http \in CancelType
    BY EntryFacts DEF DaemonInit, NoSub, NoHttp, CallbackType, CancelType, MaybeJob, MaybeSession
  <1>5. due \subseteq Jobs /\ faults \in 0 .. MaxFaults
    BY DaemonAssumption DEF DaemonInit
  <1>6. watch \in Seq(ReadEntry)
    BY DEF DaemonInit
  <1>7. up \in BOOLEAN
    BY DEF DaemonInit
  <1>8. DaemonTypeOK
    BY <1>1, <1>2, <1>3, <1>4, <1>5, <1>6, <1>7 DEF DaemonTypeOK
  <1>9. HandInv /\ ReadInv
    BY <1>2, <1>3 DEF DaemonInit, HandInv, ReadInv
  <1> QED
    BY <1>8, <1>9 DEF JobInv

LEMMA JobStutter ==
    ASSUME JobInv, UNCHANGED daemonVars
    PROVE  JobInv' /\ NoneStarted /\ d' = d
  <1>1. UNCHANGED <<kv, watch, due, d, sess, sub, http, up, faults>>
    BY DEF daemonVars, jobVars
  <1>2. DaemonTypeOK' /\ HandInv'
    BY <1>1 DEF JobInv, DaemonTypeOK, HandInv
  <1>3. ReadInv'
    BY <1>1 DEF JobInv, ReadInv, NoSub, NoHttp, NoEntry
  <1>4. NoneStarted
    BY <1>1, Unwritten DEF JobInv
  <1> QED
    BY <1>1, <1>2, <1>3, <1>4 DEF JobInv

\* The steps by what they mean for the running jobs and the quota in use.
LEMMA JobNext ==
    ASSUME JobInv, [DaemonNext]_daemonVars
    PROVE  /\ JobInv'
           /\ \/ NoneStarted /\ (d'.quota = NoData \/ d' = d)
              \/ NoneStarted /\ d'.quota = d.quota /\ d.pc \in {"start", "create", "run"}
              \/ /\ MarkRunning /\ d.pc = "run" /\ d'.quota = d.quota
                 /\ \A k \in Jobs : k # d.job => kv'[k] = kv[k]
              \/ NoneStarted /\ (TakeUpdate \/ TakeQuota \/ PauseNext \/ ResumeNext)
  <1>1. CASE TakeUpdate \/ TakeQuota \/ PauseNext \/ ResumeNext
    BY <1>1, PassTypes
  <1>2. CASE \/ MarkStarting \/ CreateFails \/ PollFails \/ MarkRunning
             \/ \E s \in Sessions : SendPrompt(s)
    BY <1>2, StartTypes
  <1>3. CASE Crash \/ Restart \/ RecoverNext \/ StartWatch
    BY <1>3, RecoveryTypes
  <1>4. CASE \/ SubWrite \/ CancelWrite
             \/ \E j \in Jobs : PostJob(j) \/ CancelRead(j) \/ ResumeTime(j)
             \/ \E s \in Sessions : SessionDies(s) \/ SessionUnheard(s)
             \/ \E s \in Sessions, ev \in EventTypes : SubRead(s, ev)
    BY <1>4, OtherTypes
  <1>5. CASE UNCHANGED daemonVars
    BY <1>5, JobStutter
  <1> QED
    BY <1>1, <1>2, <1>3, <1>4, <1>5 DEF DaemonNext, Dispatch

\* The entries, the dispatcher and what the callback and the handlers have read
\* keep their types, and an entry marked running names its session
\* (daemon_jobs.go: runJobDispatcher, handleJobLifecycleEvent, recoverJobs).
THEOREM JobTypes == DaemonSpec => []DaemonTypeOK
  <1>1. DaemonInit => JobInv
    BY JobInit
  <1>2. JobInv /\ [DaemonNext]_daemonVars => JobInv'
    BY JobNext
  <1>3. JobInv => DaemonTypeOK
    BY DEF JobInv
  <1> QED
    BY <1>1, <1>2, <1>3, PTL DEF DaemonSpec

-----------------------------------------------------------------------------
(* The job dispatcher: thresholds                                          *)

\* A running job over its threshold is still to be paused by the pass, or the
\* loop ended before it.
OverInv ==
    \A j \in Jobs : kv[j].status = "running" /\ ~Below(d.quota, j) =>
        \/ d.pc = "pausing" /\ \E x \in d.list : x.job = j
        \/ Shielded(d.quota, j)

\* Numbers the comparisons are about.
LEMMA JobNumbers ==
    ASSUME JobInv
    PROVE  /\ d.quota \in Nat /\ \A j \in Jobs : Threshold[j] \in Nat /\ Priority[j] \in Nat
           /\ \A q \in Nat, j \in Jobs : ~Below(q, j) <=> q # NoData /\ q >= Threshold[j]
           /\ d'.quota \in Levels \cup {NoData} => d'.quota \in Nat
  <1>a. Levels \cup {NoData} \subseteq Nat
    BY DaemonAssumption DEF NoData
  <1>b. d.quota \in Levels \cup {NoData}
    BY DEF JobInv, DaemonTypeOK, DispatcherType
  <1>1. d.quota \in Nat
    BY <1>a, <1>b
  <1>2. \A j \in Jobs : Threshold[j] \in Nat /\ Priority[j] \in Nat
    BY DaemonAssumption
  <1>3. ASSUME NEW q \in Nat, NEW j \in Jobs
        PROVE  ~Below(q, j) <=> q # NoData /\ q >= Threshold[j]
    BY <1>2 DEF Below
  <1>4. d'.quota \in Levels \cup {NoData} => d'.quota \in Nat
    BY <1>a
  <1> QED
    BY <1>1, <1>2, <1>3, <1>4

\* A new pass looks at all running jobs.
LEMMA PassOver ==
    ASSUME JobInv, OverInv, NoneStarted, TakeUpdate \/ TakeQuota
    PROVE  OverInv'
  <1>a. kv' = kv
    BY DEF TakeUpdate, TakeQuota, jobVars
  <1>b. PICK q \in Levels \cup {NoData}, j \in MaybeJob, e \in Entry : StartPass(q, j, e)
    <2>1. CASE TakeUpdate
      <3>1. Head(watch) \in ReadEntry
        BY <2>1 DEF TakeUpdate, JobInv, DaemonTypeOK
      <3>2. Head(watch).job \in MaybeJob /\ Head(watch).e \in Entry
        BY <3>1 DEF ReadEntry, MaybeJob
      <3>3. d.quota \in Levels \cup {NoData}
        BY DEF JobInv, DaemonTypeOK, DispatcherType
      <3> QED
        BY <2>1, <3>2, <3>3 DEF TakeUpdate
    <2>2. CASE TakeQuota
      BY <2>2, EntryFacts DEF TakeQuota, MaybeJob
    <2> QED
      BY <2>1, <2>2
  <1>c. PICK x \in DispatcherType :
              /\ Continue(x) /\ x.quota = q
              /\ \/ /\ x.pc = "pausing" /\ x.list = WithStatus("running") /\ q # NoData
                 \/ /\ x.pc \in {"pausing", "resume"} /\ x.list = {} /\ q = NoData
                 \/ /\ x.pc = "resume" /\ \A y \in WithStatus("running") : ~Exceeded(q, y)
    BY <1>b, PassFacts DEF JobInv
  <1>d. d'.quota = q /\ (x.list # {} => d' = x)
    BY <1>c, ContinueFacts
  <1>e. q \in Nat
    BY DaemonAssumption DEF NoData
  <1> SUFFICES ASSUME NEW k \in Jobs, kv[k].status = "running", ~Below(q, k)
               PROVE  d'.pc = "pausing" /\ \E y \in d'.list : y.job = k
    BY <1>a, <1>d DEF OverInv
  <1>1. q # NoData /\ q >= Threshold[k]
    BY <1>e, JobNumbers
  <1> DEFINE y == [job |-> k, e |-> kv[k]]
  <1>2. y \in WithStatus("running") /\ y.job = k
    BY DEF WithStatus
  <1>3. Exceeded(q, y)
    BY <1>1 DEF Exceeded
  <1>4. x.pc = "pausing" /\ x.list = WithStatus("running")
    BY <1>1, <1>2, <1>3, <1>c
  <1> QED
    BY <1>2, <1>4, <1>d

\* The loop pauses the job it looks at, or ends at one below its threshold, which
\* then shields those of higher priority, all that is left.
LEMMA PauseOver ==
    ASSUME JobInv, OverInv, NoneStarted, PauseNext
    PROVE  OverInv'
  <1>a. d.pc = "pausing" /\ d \in DispatcherType /\ d.list \in SUBSET ReadEntry
    BY DEF PauseNext, JobInv, DaemonTypeOK, DispatcherType
  <1>b. PICK x \in d.list :
           /\ \A y \in d.list : Priority[x.job] <= Priority[y.job]
           /\ \/ /\ Put(x.job, [x.e EXCEPT !.status = "paused"])
                 /\ Continue([d EXCEPT !.list = d.list \ {x}])
              \/ /\ ~Exceeded(d.quota, x) /\ UNCHANGED jobVars
                 /\ Continue([d EXCEPT !.list = {}])
    BY DEF PauseNext
  <1>c. x.job \in Jobs /\ x.e \in Entry
    BY <1>a DEF ReadEntry
  <1>1. CASE /\ Put(x.job, [x.e EXCEPT !.status = "paused"])
             /\ Continue([d EXCEPT !.list = d.list \ {x}])
    <2> DEFINE r == [d EXCEPT !.list = d.list \ {x}]
    <2>1. /\ r \in DispatcherType /\ r.pc = "pausing" /\ r.list = d.list \ {x}
          /\ r.quota = d.quota
      BY <1>a DEF DispatcherType
    <2>2. Continue(r)
      BY <1>1
    <2> HIDE DEF r
    <2>3. d'.quota = d.quota /\ (r.list # {} => d' = r)
      BY <2>1, <2>2, ContinueFacts
    <2>4. /\ [x.e EXCEPT !.status = "paused"] \in Entry
          /\ [x.e EXCEPT !.status = "paused"].status = "paused"
      BY <1>c DEF Entry, Statuses
    <2>5. kv'[x.job].status = "paused"
      BY <1>1, <1>c, <2>4, PutFacts DEF JobInv
    <2> SUFFICES ASSUME NEW k \in Jobs, kv'[k].status = "running", ~Below(d.quota, k),
                        ~Shielded(d.quota, k)
                 PROVE  d'.pc = "pausing" /\ \E y \in d'.list : y.job = k
      BY <2>3 DEF OverInv
    <2>6. k # x.job /\ kv[k].status = "running"
      BY <2>5 DEF NoneStarted
    <2>7. PICK y \in d.list : y.job = k
      BY <2>6 DEF OverInv
    <2>8. y \in r.list
      BY <2>1, <2>6, <2>7
    <2> QED
      BY <2>1, <2>3, <2>7, <2>8
  <1>2. CASE /\ ~Exceeded(d.quota, x) /\ UNCHANGED jobVars
             /\ Continue([d EXCEPT !.list = {}])
    <2> DEFINE r == [d EXCEPT !.list = {}]
    <2>1. r \in DispatcherType /\ r.quota = d.quota
      BY <1>a DEF DispatcherType
    <2>2. Continue(r)
      BY <1>2
    <2> HIDE DEF r
    <2>3. d'.quota = d.quota /\ kv' = kv
      BY <1>2, <2>1, <2>2, ContinueFacts DEF jobVars
    <2> SUFFICES ASSUME NEW k \in Jobs, kv[k].status = "running", ~Below(d.quota, k),
                        ~Shielded(d.quota, k)
                 PROVE  FALSE
      BY <2>3 DEF OverInv
    <2>4. PICK y \in d.list : y.job = k
      BY DEF OverInv
    <2>5. Priority[x.job] <= Priority[k]
      BY <1>b, <2>4
    <2>6. d.quota >= Threshold[k] /\ d.quota \in Nat
      BY JobNumbers
    <2>7. ~(d.quota >= Threshold[x.job])
      BY <1>2 DEF Exceeded
    <2>8. x.job # k /\ d.quota < Threshold[x.job]
      BY <1>c, <2>6, <2>7, JobNumbers
    <2> QED
      BY <1>c, <2>5, <2>8 DEF Shielded
  <1> QED
    BY <1>b, <1>1, <1>2

LEMMA OverNext ==
    ASSUME JobInv, OverInv, [DaemonNext]_daemonVars
    PROVE  OverInv'
  <1>1. CASE NoneStarted /\ (d'.quota = NoData \/ d' = d)
    BY <1>1 DEF OverInv, NoneStarted, Below
  <1>2. CASE NoneStarted /\ d'.quota = d.quota /\ d.pc \in {"start", "create", "run"}
    BY <1>2 DEF OverInv, NoneStarted, Below
  <1>3. CASE /\ MarkRunning /\ d.pc = "run" /\ d'.quota = d.quota
             /\ \A k \in Jobs : k # d.job => kv'[k] = kv[k]
    <2>1. Below(d.quota, d.job)
      BY <1>3 DEF JobInv, HandInv
    <2> QED
      BY <1>3, <2>1 DEF OverInv, Below
  <1>4. CASE NoneStarted /\ (TakeUpdate \/ TakeQuota)
    BY <1>4, PassOver
  <1>5. CASE NoneStarted /\ PauseNext
    BY <1>5, PauseOver
  <1>6. CASE NoneStarted /\ ResumeNext
    <2>1. d \in DispatcherType /\ d.pc = "resume"
      BY <1>6 DEF ResumeNext, JobInv, DaemonTypeOK
    <2>2. PICK x \in d.list : Continue([d EXCEPT !.list = d.list \ {x}])
      BY <1>6 DEF ResumeNext
    <2>3. /\ [d EXCEPT !.list = d.list \ {x}] \in DispatcherType
          /\ [d EXCEPT !.list = d.list \ {x}].quota = d.quota
      BY <2>1 DEF DispatcherType
    <2>4. d'.quota = d.quota
      BY <2>2, <2>3, ContinueFacts
    <2> QED
      BY <1>6, <2>1, <2>4 DEF OverInv, NoneStarted, Below
  <1> QED
    BY JobNext, <1>1, <1>2, <1>3, <1>4, <1>5, <1>6

\* processDispatch: when the dispatcher waits again, no job is left running over
\* its threshold, but behind one of no higher priority that is below its own;
\* for any thresholds and priorities, whatever the callback, the HTTP handlers
\* and crashes did to the entries meanwhile.
THEOREM PausedUpToShield == DaemonSpec => []OnlyShieldedRunOver
  <1>1. DaemonInit => JobInv
    BY JobInit
  <1>2. DaemonInit => OverInv
    <2> SUFFICES ASSUME DaemonInit PROVE OverInv
      OBVIOUS
    <2>1. \A j \in Jobs : kv[j].status = "none"
      BY EntryFacts DEF DaemonInit
    <2> QED
      BY <2>1 DEF OverInv
  <1>3. JobInv /\ OverInv /\ [DaemonNext]_daemonVars => JobInv' /\ OverInv'
    BY JobNext, OverNext
  <1>4. JobInv /\ OverInv => OnlyShieldedRunOver
    <2> SUFFICES ASSUME JobInv, OverInv, d.pc = "idle", d.quota # NoData,
                        NEW j \in Jobs, kv[j].status = "running", ~Shielded(d.quota, j)
                 PROVE  d.quota < Threshold[j]
      BY DEF OnlyShieldedRunOver
    <2>1. Below(d.quota, j)
      BY DEF OverInv
    <2> QED
      BY <2>1 DEF Below
  <1> QED
    BY <1>1, <1>2, <1>3, <1>4, PTL DEF DaemonSpec

\* Only the dispatcher makes a job running, and only one that is below its
\* threshold at the utilisation it goes by: for any thresholds and priorities.
THEOREM StartedBelow ==
    DaemonSpec => [][\A j \in Jobs : kv'[j].status = "running" /\ kv[j].status # "running" =>
                        d.pc = "run" /\ d.job = j /\ Below(d.quota, j)]_daemonVars
  <1> DEFINE A == \A j \in Jobs : kv'[j].status = "running" /\ kv[j].status # "running" =>
                      d.pc = "run" /\ d.job = j /\ Below(d.quota, j)
  <1>1. DaemonInit => JobInv
    BY JobInit
  <1>2. JobInv /\ [DaemonNext]_daemonVars => JobInv'
    BY JobNext
  <1>3. JobInv /\ [DaemonNext]_daemonVars => A
    <2> SUFFICES ASSUME JobInv, [DaemonNext]_daemonVars PROVE A
      OBVIOUS
    <2>1. CASE NoneStarted
      BY <2>1 DEF NoneStarted
    <2>2. CASE d.pc = "run" /\ \A k \in Jobs : k # d.job => kv'[k] = kv[k]
      BY <2>2 DEF JobInv, HandInv
    <2> QED
      BY JobNext, <2>1, <2>2
  <1> HIDE DEF A
  <1>4. JobInv /\ [DaemonNext]_daemonVars => [A]_daemonVars
    BY <1>3
  <1>5. DaemonSpec => [][A]_daemonVars
    BY <1>1, <1>2, <1>4, PTL DEF DaemonSpec
  <1> QED
    BY <1>5 DEF A
=============================================================================
