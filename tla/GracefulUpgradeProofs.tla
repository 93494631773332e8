------------------------- MODULE GracefulUpgradeProofs -------------------------
(***************************************************************************)
(* That no banner outlives an upgrade and that the drain waits for no      *)
(* background agent nobody asked for, for any number of sessions, inputs,  *)
(* shells, tool uses, faults and upgrades.                                 *)
(***************************************************************************)
EXTENDS GracefulUpgrade, TLAPS

\* The Session objects and the processes, with no bound on the background work.
SessionType == [reg : BOOLEAN, state : States, shutdownPending : BOOLEAN,
                inFlightBackgroundAgents : Nat, pendingShells : SUBSET Shells,
                inFlightShells : SUBSET Shells]
ProcessType == [proc : {"none", "boot", "up"}, turn : Turns, agents : Nat, refused : Nat,
                shells : SUBSET Shells, stdin : SUBSET {"input", "interrupt"}]

\* What a flush can write: the state of a Session object, never the banner.
MemoryTypes ==
    /\ sess \in [Sessions -> SessionType]
    /\ claude \in [Sessions -> ProcessType]
    /\ flush \in [Sessions -> States \cup {"none"}]

EntryTypes ==
    /\ kv \in [Sessions -> States \cup {"updating"}]
    /\ todo \subseteq Sessions /\ updating \subseteq Sessions

\* Where the sessions with a banner are while the replacement starts: still to be
\* recovered, remembered, or still to be cleared.
BannerInv ==
    /\ phase = "serve" => \A s \in Sessions : kv[s] # "updating"
    /\ phase = "recover" => \A s \in Sessions : kv[s] = "updating" => s \in todo \cup updating
    /\ phase = "clear" => \A s \in Sessions : kv[s] = "updating" => s \in todo

IInv == MemoryTypes /\ EntryTypes /\ BannerInv

-----------------------------------------------------------------------------
(* The records                                                             *)

\* The records an agent starts with have their types.
LEMMA FreshTypes ==
    /\ NoSession \in SessionType /\ newSession \in SessionType
    /\ [newSession EXCEPT !.state = "idle"] \in SessionType
    /\ NoProcess \in ProcessType /\ NewProcess \in ProcessType
    /\ [NoProcess EXCEPT !.proc = "up"] \in ProcessType
  BY DEF NoSession, newSession, NoProcess, NewProcess, SessionType, ProcessType, States, Turns

\* What the steps of the router and of gracefulShutdown make of a Session.
LEMMA SessionUpdates ==
    ASSUME NEW r \in SessionType
    PROVE  /\ r.state \in States
           /\ \A v \in States : [r EXCEPT !.state = v] \in SessionType
           /\ [r EXCEPT !.shutdownPending = TRUE] \in SessionType
           /\ [r EXCEPT !.inFlightBackgroundAgents = @ + 1] \in SessionType
           /\ \A b \in Shells : [r EXCEPT !.pendingShells = @ \cup {b}] \in SessionType
<1>1. r.state \in States
  BY DEF SessionType
<1>2. \A v \in States : [r EXCEPT !.state = v] \in SessionType
  BY DEF SessionType
<1>3. [r EXCEPT !.shutdownPending = TRUE] \in SessionType
  BY DEF SessionType
<1>4. [r EXCEPT !.inFlightBackgroundAgents = @ + 1] \in SessionType
  BY DEF SessionType
<1>5. \A b \in Shells : [r EXCEPT !.pendingShells = @ \cup {b}] \in SessionType
  BY DEF SessionType
<1> QED
  BY <1>1, <1>2, <1>3, <1>4, <1>5

\* What the steps of a process and of its input make of it.
LEMMA ProcessUpdates ==
    ASSUME NEW p \in ProcessType
    PROVE  /\ p.turn \in Turns
           /\ [p EXCEPT !.proc = "up"] \in ProcessType
           /\ \A t \in Turns : [p EXCEPT !.turn = t] \in ProcessType
           /\ \A S \in SUBSET {"input", "interrupt"} : [p EXCEPT !.stdin = S] \in ProcessType
           /\ [p EXCEPT !.agents = @ + 1] \in ProcessType
           /\ [p EXCEPT !.refused = @ + 1] \in ProcessType
           /\ \A S \in SUBSET Shells : [p EXCEPT !.shells = S] \in ProcessType
<1>1. p.turn \in Turns
  BY DEF ProcessType
<1>2. [p EXCEPT !.proc = "up"] \in ProcessType
  BY DEF ProcessType
<1>3. \A t \in Turns : [p EXCEPT !.turn = t] \in ProcessType
  BY DEF ProcessType
<1>4. \A S \in SUBSET {"input", "interrupt"} : [p EXCEPT !.stdin = S] \in ProcessType
  BY DEF ProcessType
<1>5. [p EXCEPT !.agents = @ + 1] \in ProcessType
  BY DEF ProcessType
<1>6. [p EXCEPT !.refused = @ + 1] \in ProcessType
  BY DEF ProcessType
<1>7. \A S \in SUBSET Shells : [p EXCEPT !.shells = S] \in ProcessType
  BY DEF ProcessType
<1> QED
  BY <1>1, <1>2, <1>3, <1>4, <1>5, <1>6, <1>7

\* The end of a turn, and of background work.
LEMMA ProcessEnds ==
    ASSUME NEW p \in ProcessType
    PROVE  /\ \A t \in Turns : \A S \in SUBSET {"input", "interrupt"} :
                 [p EXCEPT !.turn = t, !.stdin = S] \in ProcessType
           /\ \A n \in Nat : \A t \in Turns : [p EXCEPT !.agents = n, !.turn = t] \in ProcessType
           /\ \A t \in Turns : \A S \in SUBSET Shells :
                 [p EXCEPT !.shells = S, !.turn = t] \in ProcessType
<1>1. \A t \in Turns : \A S \in SUBSET {"input", "interrupt"} :
         [p EXCEPT !.turn = t, !.stdin = S] \in ProcessType
  BY DEF ProcessType
<1>2. \A n \in Nat : \A t \in Turns : [p EXCEPT !.agents = n, !.turn = t] \in ProcessType
  BY DEF ProcessType
<1>3. \A t \in Turns : \A S \in SUBSET Shells :
         [p EXCEPT !.shells = S, !.turn = t] \in ProcessType
  BY DEF ProcessType
<1> QED
  BY <1>1, <1>2, <1>3

\* The numbers and sets that the records hold.
LEMMA Fields ==
    /\ \A r \in SessionType : r.inFlightBackgroundAgents \in Nat /\ r.pendingShells \subseteq Shells
                              /\ r.inFlightShells \subseteq Shells
    /\ \A p \in ProcessType : p.agents \in Nat /\ p.shells \subseteq Shells
                              /\ p.stdin \subseteq {"input", "interrupt"}
  BY DEF SessionType, ProcessType

\* A notification, and the result of a shell.
LEMMA SessionNotified ==
    ASSUME NEW r \in SessionType
    PROVE  /\ \A n \in Nat : \A S \in SUBSET Shells :
                 [r EXCEPT !.inFlightShells = S, !.inFlightBackgroundAgents = n] \in SessionType
           /\ \A P, S \in SUBSET Shells :
                 [r EXCEPT !.pendingShells = P, !.inFlightShells = S] \in SessionType
<1>1. \A n \in Nat : \A S \in SUBSET Shells :
         [r EXCEPT !.inFlightShells = S, !.inFlightBackgroundAgents = n] \in SessionType
  BY DEF SessionType
<1>2. \A P, S \in SUBSET Shells :
         [r EXCEPT !.pendingShells = P, !.inFlightShells = S] \in SessionType
  BY DEF SessionType
<1> QED
  BY <1>1, <1>2

-----------------------------------------------------------------------------
(* The banner                                                              *)

\* The initial state: sessions that are idle and show it.
LEMMA InitInv == Init => IInv
<1> SUFFICES ASSUME Init PROVE IInv
  OBVIOUS
<1>1. MemoryTypes
  BY FreshTypes DEF Init, MemoryTypes
<1>2. EntryTypes /\ BannerInv
  BY DEF Init, EntryTypes, BannerInv, States, Turns
<1> QED
  BY <1>1, <1>2 DEF IInv

\* A step that leaves the agent's loop and the KV entries alone keeps what is known
\* of them.
LEMMA EntriesKept ==
    ASSUME IInv, UNCHANGED <<agentVars, kv>> PROVE EntryTypes' /\ BannerInv'
  BY DEF IInv, EntryTypes, BannerInv, agentVars

\* Notifications keep the objects well typed: the counter has a floor.
LEMMA NotificationType ==
    ASSUME MemoryTypes, NEW s \in Sessions, NEW S
    PROVE  Notification(s, S) \in [Sessions -> SessionType]
<1> DEFINE n == IF sess[s].inFlightBackgroundAgents > 0
                THEN sess[s].inFlightBackgroundAgents - 1 ELSE 0
           r == [sess[s] EXCEPT !.inFlightShells = sess[s].inFlightShells \ S,
                                !.inFlightBackgroundAgents = n]
<1>1. sess[s] \in SessionType
  BY DEF MemoryTypes
<1>2. n \in Nat /\ sess[s].inFlightShells \ S \in SUBSET Shells
  BY <1>1, Fields
<1>3. r \in SessionType
  <2> HIDE DEF n
  <2> QED
    BY <1>1, <1>2, SessionNotified
<1>4. Notification(s, S) = [sess EXCEPT ![s] = r]
  BY <1>1 DEF Notification, MemoryTypes, SessionType
<1> QED
  BY <1>3, <1>4 DEF MemoryTypes

\* The stdout router: no flush writes the banner, as the state of a Session object
\* never has that value.
LEMMA RouterMemory ==
  ASSUME MemoryTypes, NEW s \in Sessions, RouterStep(s)
  PROVE  MemoryTypes'
<1>0. sess[s] \in SessionType /\ claude[s] \in ProcessType /\ flush[s] \in States \cup {"none"}
  BY DEF MemoryTypes
<1>a. sess[s].state \in States /\ claude[s].turn \in Turns /\ Turns \subseteq States
      /\ "running" \in Turns /\ "idle" \in Turns /\ "requires_action" \in Turns /\ "failed" \in States
  BY <1>0, SessionUpdates, ProcessUpdates DEF States, Turns
<1>1. CASE RouteInit(s)
  BY <1>0, <1>a, <1>1, SessionUpdates, ProcessUpdates DEF RouteInit, MemoryTypes
<1>2. CASE StartupTimeout(s)
  BY <1>0, <1>a, <1>2, SessionUpdates DEF StartupTimeout, MemoryTypes
<1>3. CASE RouteStateChanged(s)
  BY <1>0, <1>a, <1>3, SessionUpdates DEF RouteStateChanged, MemoryTypes
<1>4. CASE flushKV(s)
  BY <1>4 DEF flushKV, MemoryTypes
<1>5. CASE ClaudeReads(s)
  BY <1>0, <1>a, <1>5, ProcessEnds DEF ClaudeReads, MemoryTypes
<1>6. CASE TurnEnds(s)
  BY <1>0, <1>a, <1>6, ProcessEnds, Fields DEF TurnEnds, MemoryTypes
<1>7. CASE AsksPermission(s)
  BY <1>0, <1>a, <1>7, ProcessUpdates DEF AsksPermission, MemoryTypes
<1>8. CASE LaunchAgent(s)
  BY <1>0, <1>a, <1>8, SessionUpdates, ProcessUpdates DEF LaunchAgent, MemoryTypes
<1>9. CASE AgentEnds(s)
  <2>1. sess' \in [Sessions -> SessionType]
    BY <1>9, NotificationType DEF AgentEnds
  <2>2. claude[s].agents - 1 \in Nat
    BY <1>0, <1>9, Fields DEF AgentEnds
  <2>3. \A t \in Turns :
           [claude[s] EXCEPT !.agents = claude[s].agents - 1, !.turn = t] \in ProcessType
    BY <1>0, <2>2, ProcessEnds
  <2>4. claude' \in [Sessions -> ProcessType]
    BY <1>0, <1>a, <1>9, <2>3 DEF AgentEnds, MemoryTypes
  <2> QED
    BY <1>9, <2>1, <2>4 DEF AgentEnds, MemoryTypes
<1>10. ASSUME NEW b \in Shells, LaunchShell(s, b) PROVE MemoryTypes'
  BY <1>0, <1>10, SessionUpdates, ProcessUpdates, Fields DEF LaunchShell, MemoryTypes
<1>11. ASSUME NEW b \in Shells, ShellResult(s, b) PROVE MemoryTypes'
  <2>0. PICK inBackground \in BOOLEAN :
          /\ sess' = [sess EXCEPT ![s].pendingShells = @ \ {b},
                        ![s].inFlightShells = IF inBackground THEN @ \cup {b} ELSE @]
          /\ claude' = [claude EXCEPT ![s].shells = IF inBackground THEN @ ELSE @ \ {b}]
    BY <1>11 DEF ShellResult
  <2> DEFINE P == sess[s].pendingShells \ {b}
             S == IF inBackground THEN sess[s].inFlightShells \cup {b} ELSE sess[s].inFlightShells
             C == IF inBackground THEN claude[s].shells ELSE claude[s].shells \ {b}
  <2>1. P \in SUBSET Shells /\ S \in SUBSET Shells /\ C \in SUBSET Shells
    BY <1>0, <1>11, Fields
  <2>2. sess' = [sess EXCEPT ![s] = [sess[s] EXCEPT !.pendingShells = P, !.inFlightShells = S]]
    BY <1>0, <2>0 DEF MemoryTypes, SessionType
  <2>3. claude' = [claude EXCEPT ![s] = [claude[s] EXCEPT !.shells = C]]
    BY <1>0, <2>0 DEF MemoryTypes
  <2> HIDE DEF P, S, C
  <2>4. sess' \in [Sessions -> SessionType]
    BY <1>0, <2>1, <2>2, SessionNotified DEF MemoryTypes
  <2>5. claude' \in [Sessions -> ProcessType]
    BY <1>0, <2>1, <2>3, ProcessUpdates DEF MemoryTypes
  <2> QED
    BY <1>11, <2>4, <2>5 DEF ShellResult, MemoryTypes
<1>12. ASSUME NEW b \in Shells, ShellEnds(s, b) PROVE MemoryTypes'
  <2>1. sess' \in [Sessions -> SessionType]
    BY <1>12, NotificationType DEF ShellEnds
  <2>2. claude' \in [Sessions -> ProcessType]
    BY <1>0, <1>a, <1>12, ProcessEnds, Fields DEF ShellEnds, MemoryTypes
  <2> QED
    BY <1>12, <2>1, <2>2 DEF ShellEnds, MemoryTypes
<1> QED
  BY <1>1, <1>2, <1>3, <1>4, <1>5, <1>6, <1>7, <1>8, <1>9, <1>10, <1>11, <1>12 DEF RouterStep

\* Of the router's steps only the write of a flush touches an entry.
LEMMA RouterInv ==
  ASSUME IInv, NEW s \in Sessions, RouterStep(s)
  PROVE  IInv'
<1>1. MemoryTypes'
  BY RouterMemory DEF IInv
<1>2. CASE flushKV(s)
  <2>1. flush[s] \in States /\ flush[s] # "updating"
    BY <1>2 DEF IInv, MemoryTypes, flushKV, States, Turns
  <2>2. EntryTypes' /\ BannerInv'
    BY <1>2, <2>1 DEF IInv, EntryTypes, BannerInv, flushKV, agentVars
  <2> QED
    BY <1>1, <2>2 DEF IInv
<1>3. CASE ~flushKV(s)
  <2>1. UNCHANGED <<agentVars, kv>>
    BY <1>3 DEF RouterStep, RouteInit, StartupTimeout, RouteStateChanged, ClaudeReads, TurnEnds,
                AsksPermission, LaunchAgent, AgentEnds, LaunchShell, ShellResult, ShellEnds
  <2> QED
    BY <1>1, <2>1, EntriesKept DEF IInv
<1> QED
  BY <1>2, <1>3

\* What users do: their input, interrupts and answers change the processes only.
LEMMA UserInv ==
  ASSUME IInv,
         \/ ControlInterrupt
         \/ \E s \in Sessions : ControlResponse(s)
         \/ \E m \in Inputs : \E s \in Sessions : PublishInput(m, s)
         \/ \E m \in Inputs \cup Shells : handleInput(m)
  PROVE  IInv'
<1>1. UNCHANGED <<agentVars, kv>>
  BY DEF ControlInterrupt, ControlResponse, PublishInput, handleInput
<1>2. ASSUME NEW S, NEW x \in {"input", "interrupt"},
             claude' = [s \in Sessions |-> IF s \in S /\ claude[s].proc # "none"
                        THEN [claude[s] EXCEPT !.stdin = @ \cup {x}] ELSE claude[s]]
      PROVE  claude' \in [Sessions -> ProcessType]
  <2>1. \A s \in Sessions : claude[s].stdin \cup {x} \in SUBSET {"input", "interrupt"}
                            /\ claude[s] \in ProcessType
    BY <1>2, Fields DEF IInv, MemoryTypes
  <2>2. \A s \in Sessions :
           [claude[s] EXCEPT !.stdin = claude[s].stdin \cup {x}] \in ProcessType
    BY <2>1, ProcessUpdates
  <2> QED
    BY <1>2, <2>1, <2>2
<1>3. CASE ControlInterrupt
  BY <1>1, <1>2, <1>3, EntriesKept DEF ControlInterrupt, Interrupted, IInv, MemoryTypes
<1>4. ASSUME NEW s \in Sessions, ControlResponse(s) PROVE IInv'
  <2>1. sess[s].state \in States /\ claude[s] \in ProcessType /\ "running" \in Turns
    BY SessionUpdates DEF IInv, MemoryTypes, Turns
  <2> QED
    BY <1>1, <1>4, <2>1, EntriesKept, ProcessUpdates DEF ControlResponse, IInv, MemoryTypes
<1>5. ASSUME NEW m \in Inputs, NEW s \in Sessions, PublishInput(m, s) PROVE IInv'
  BY <1>1, <1>5, EntriesKept DEF PublishInput, IInv, MemoryTypes
<1>6. ASSUME NEW m \in Inputs \cup Shells, handleInput(m) PROVE IInv'
  <2> DEFINE S == {s \in mail[m].to \cap Sessions : sess[s].reg}
  <2>1. claude' = [s \in Sessions |-> IF s \in S /\ claude[s].proc # "none"
                   THEN [claude[s] EXCEPT !.stdin = @ \cup {"input"}] ELSE claude[s]]
    BY <1>6 DEF handleInput
  <2>2. claude' \in [Sessions -> ProcessType]
    <3> HIDE DEF S
    <3> QED
      BY <1>2, <2>1
  <2> QED
    BY <1>1, <1>6, <2>2, EntriesKept DEF handleInput, IInv, MemoryTypes
<1> QED
  BY <1>3, <1>4, <1>5, <1>6

\* A restart or respawn writes "restarting", and never while an agent starts.
LEMMA ReplaceInv ==
  ASSUME IInv, NEW s \in Sessions, Replace(s)
  PROVE  IInv'
<1>1. MemoryTypes'
  BY FreshTypes DEF IInv, MemoryTypes, Replace
<1>2. EntryTypes' /\ BannerInv'
  BY DEF IInv, EntryTypes, BannerInv, Replace, agentVars, States
<1> QED
  BY <1>1, <1>2 DEF IInv

\* The end of the agent's process forgets everything but the entries.
LEMMA GoneInv ==
  ASSUME IInv, Gone
  PROVE  IInv'
<1>1. MemoryTypes'
  BY FreshTypes DEF MemoryTypes, Gone
<1>2. EntryTypes' /\ BannerInv'
  BY DEF IInv, EntryTypes, BannerInv, Gone, Enter
<1> QED
  BY <1>1, <1>2 DEF IInv

\* gracefulShutdown up to the exit: the banners it writes are not shown by an agent
\* that serves.
LEMMA ShutdownInv ==
  ASSUME IInv,
         \/ SIGTERM \/ StopCommands \/ TickEnd
         \/ \E s \in Sessions :
               MarkUpdating(s) \/ Tick(s) \/ publishShellKilledNotifications(s)
  PROVE  IInv'
<1>1. CASE SIGTERM \/ StopCommands \/ TickEnd
  BY <1>1 DEF SIGTERM, StopCommands, TickEnd, Enter, Registered, IInv, MemoryTypes, EntryTypes,
              BannerInv
<1>2. ASSUME NEW s \in Sessions, MarkUpdating(s) PROVE IInv'
  <2>1. MemoryTypes'
    BY <1>2, SessionUpdates DEF MarkUpdating, IInv, MemoryTypes
  <2>2. EntryTypes' /\ BannerInv'
    BY <1>2 DEF MarkUpdating, Visit, IInv, EntryTypes, BannerInv
  <2> QED
    BY <2>1, <2>2 DEF IInv
<1>3. ASSUME NEW s \in Sessions, Tick(s) PROVE IInv'
  <2>1. claude[s].stdin \cup {"interrupt"} \in SUBSET {"input", "interrupt"}
        /\ claude[s] \in ProcessType
    BY Fields DEF IInv, MemoryTypes
  <2>2. [claude[s] EXCEPT !.stdin = claude[s].stdin \cup {"interrupt"}] \in ProcessType
    BY <2>1, ProcessUpdates
  <2>3. MemoryTypes'
    BY <1>3, <2>2 DEF Tick, Interrupted, IInv, MemoryTypes
  <2>4. EntryTypes' /\ BannerInv'
    BY <1>3 DEF Tick, Visit, IInv, EntryTypes, BannerInv
  <2> QED
    BY <2>3, <2>4 DEF IInv
<1>4. ASSUME NEW s \in Sessions, publishShellKilledNotifications(s) PROVE IInv'
  BY <1>4 DEF publishShellKilledNotifications, Visit, IInv, MemoryTypes, EntryTypes, BannerInv
<1> QED
  BY <1>1, <1>2, <1>3, <1>4

\* The replacement: every entry is visited by recoverSessions, every entry that had
\* the banner then is remembered, and both passes of clearUpdatingState clear it.
LEMMA ReplacementInv ==
  ASSUME IInv,
         \/ StartReplacement \/ createJetStreamConsumers \/ Serve
         \/ \E s \in Sessions : RecoverSession(s) \/ ClearResumed(s) \/ ClearOrphan(s)
  PROVE  IInv'
<1>1. CASE StartReplacement \/ createJetStreamConsumers \/ Serve
  BY <1>1 DEF StartReplacement, createJetStreamConsumers, Serve, Enter, IInv, MemoryTypes,
              EntryTypes, BannerInv
<1>2. ASSUME NEW s \in Sessions, RecoverSession(s) PROVE IInv'
  <2>1. MemoryTypes'
    BY <1>2, FreshTypes DEF RecoverSession, IInv, MemoryTypes
  <2>2. EntryTypes' /\ BannerInv'
    BY <1>2 DEF RecoverSession, Visit, IInv, EntryTypes, BannerInv, States
  <2> QED
    BY <2>1, <2>2 DEF IInv
<1>3. ASSUME NEW s \in Sessions, ClearResumed(s) \/ ClearOrphan(s) PROVE IInv'
  <2>1. phase = "clear" /\ Visit(s) /\ Cleared(s)
    BY <1>3 DEF ClearResumed, ClearOrphan
  <2> QED
    BY <2>1 DEF Visit, Cleared, IInv, MemoryTypes, EntryTypes, BannerInv, States, Turns
<1> QED
  BY <1>1, <1>2, <1>3

\* Every step keeps the invariant.
LEMMA NextInv == ASSUME IInv, [Next]_vars PROVE IInv'
<1>1. CASE UNCHANGED vars
  BY <1>1 DEF vars, IInv, MemoryTypes, EntryTypes, BannerInv
<1>2. CASE SIGTERM \/ AgentStep \/ Killed
  BY <1>2, GoneInv, ShutdownInv, ReplacementInv DEF AgentStep, Exit, Killed
<1>3. CASE ~(SIGTERM \/ AgentStep \/ Killed) /\ Next
  BY <1>3, UserInv, RouterInv, ReplaceInv DEF Next
<1> QED
  BY <1>1, <1>2, <1>3

\* A replacement that serves has cleared every banner, whatever was interrupted on
\* the way (gracefulShutdown, recoverSessions, clearUpdatingState).
THEOREM BannersAreCleared == Spec => []BannerCleared
<1>1. IInv => BannerCleared
  BY DEF IInv, BannerInv, BannerCleared
<1> QED
  BY <1>1, InitInv, NextInv, PTL DEF Spec

-----------------------------------------------------------------------------
(* The count of background agents                                          *)

MailType == [at : {"unsent", "due", "passed", "handled"}, to : SUBSET Sessions]
LeftType == [tools : 0 .. MaxTools, faults : 0 .. MaxFaults, upgrades : 0 .. MaxUpgrades]

LoopTypes ==
    /\ phase \in {"serve", "mark", "drain", "notify", "gone", "recover", "clear"}
    /\ allDone \in BOOLEAN
    /\ mail \in [Inputs \cup Shells -> MailType]
    /\ left \in LeftType

\* Every background agent, and every call that started none, was a tool use.
BudgetInv ==
    \A s \in Sessions :
        /\ sess[s].inFlightBackgroundAgents + left.tools <= MaxTools
        /\ claude[s].agents + left.tools <= MaxTools
        /\ claude[s].refused + left.tools <= MaxTools

CountInv == LoopTypes /\ BudgetInv /\ NothingOvercounted

\* A session's counts are left alone, or start anew with the process.
Steady(s) ==
    \/ /\ sess'[s].inFlightBackgroundAgents = sess[s].inFlightBackgroundAgents
       /\ claude'[s].agents = claude[s].agents /\ claude'[s].refused = claude[s].refused
       /\ claude'[s].proc # "none" => claude[s].proc # "none"
    \/ /\ \/ sess'[s].inFlightBackgroundAgents = 0
          \/ /\ sess'[s].inFlightBackgroundAgents = sess[s].inFlightBackgroundAgents
             /\ claude'[s].proc = "none"
       /\ claude'[s].agents = 0 /\ claude'[s].refused = 0

\* The counts are numbers.
LEMMA CountTypes ==
    ASSUME MemoryTypes, NEW s \in Sessions
    PROVE  /\ sess[s].inFlightBackgroundAgents \in Nat
           /\ claude[s].agents \in Nat /\ claude[s].refused \in Nat
<1>1. sess[s] \in SessionType /\ claude[s] \in ProcessType
  BY DEF MemoryTypes
<1> QED
  BY <1>1 DEF SessionType, ProcessType

\* Steps that count nothing.
LEMMA SteadyInv ==
    ASSUME IInv, CountInv, LoopTypes', left'.tools <= left.tools, \A s \in Sessions : Steady(s)
    PROVE  CountInv'
<1> SUFFICES ASSUME NEW s \in Sessions
             PROVE  /\ sess'[s].inFlightBackgroundAgents + left'.tools <= MaxTools
                    /\ claude'[s].agents + left'.tools <= MaxTools
                    /\ claude'[s].refused + left'.tools <= MaxTools
                    /\ claude'[s].proc # "none" =>
                         sess'[s].inFlightBackgroundAgents <= claude'[s].agents + claude'[s].refused
  BY DEF CountInv, BudgetInv, NothingOvercounted
<1>1. left.tools \in Nat /\ left'.tools \in Nat /\ left.tools <= MaxTools /\ MaxTools \in Nat
  BY UpgradeAssumption DEF CountInv, LoopTypes, LeftType
<1>2. /\ sess[s].inFlightBackgroundAgents \in Nat
      /\ claude[s].agents \in Nat /\ claude[s].refused \in Nat
  BY CountTypes DEF IInv
<1>3. /\ sess[s].inFlightBackgroundAgents + left.tools <= MaxTools
      /\ claude[s].agents + left.tools <= MaxTools
      /\ claude[s].refused + left.tools <= MaxTools
      /\ claude[s].proc # "none" =>
           sess[s].inFlightBackgroundAgents <= claude[s].agents + claude[s].refused
  BY DEF CountInv, BudgetInv, NothingOvercounted
<1>4. Steady(s)
  OBVIOUS
<1> QED
  BY <1>1, <1>2, <1>3, <1>4 DEF Steady

\* The records an agent starts with count nothing.
LEMMA FreshCounts ==
    /\ NoSession.inFlightBackgroundAgents = 0 /\ newSession.inFlightBackgroundAgents = 0
    /\ NoProcess.agents = 0 /\ NoProcess.refused = 0 /\ NoProcess.proc = "none"
    /\ NewProcess.agents = 0 /\ NewProcess.refused = 0
  BY DEF NoSession, newSession, NoProcess, NewProcess

\* What remains of the bounds.
LEMMA LeftTypes ==
    ASSUME left \in LeftType
    PROVE  /\ left.tools \in Nat /\ left.tools <= MaxTools
           /\ left.tools > 0 => /\ [left EXCEPT !.tools = @ - 1] \in LeftType
                                /\ [left EXCEPT !.tools = @ - 1].tools = left.tools - 1
           /\ left.faults > 0 => /\ [left EXCEPT !.faults = @ - 1] \in LeftType
                                 /\ [left EXCEPT !.faults = @ - 1].tools = left.tools
           /\ left.upgrades > 0 => /\ [left EXCEPT !.upgrades = @ - 1] \in LeftType
                                   /\ [left EXCEPT !.upgrades = @ - 1].tools = left.tools
<1>1. left.tools \in 0 .. MaxTools /\ left.faults \in 0 .. MaxFaults /\ left.upgrades \in 0 .. MaxUpgrades
  BY DEF LeftType
<1>2. left.tools > 0 => left.tools - 1 \in 0 .. MaxTools
  BY <1>1, UpgradeAssumption
<1>3. left.faults > 0 => left.faults - 1 \in 0 .. MaxFaults
  BY <1>1, UpgradeAssumption
<1>4. left.upgrades > 0 => left.upgrades - 1 \in 0 .. MaxUpgrades
  BY <1>1, UpgradeAssumption
<1>5. ASSUME left.tools > 0
      PROVE  /\ [left EXCEPT !.tools = @ - 1] \in LeftType
             /\ [left EXCEPT !.tools = @ - 1].tools = left.tools - 1
  BY <1>2, <1>5 DEF LeftType
<1>6. ASSUME left.faults > 0
      PROVE  /\ [left EXCEPT !.faults = @ - 1] \in LeftType
             /\ [left EXCEPT !.faults = @ - 1].tools = left.tools
  BY <1>3, <1>6 DEF LeftType
<1>7. ASSUME left.upgrades > 0
      PROVE  /\ [left EXCEPT !.upgrades = @ - 1] \in LeftType
             /\ [left EXCEPT !.upgrades = @ - 1].tools = left.tools
  BY <1>4, <1>7 DEF LeftType
<1> QED
  BY <1>1, <1>5, <1>6, <1>7, UpgradeAssumption

\* A fault is no tool use.
LEMMA FaultLeft ==
    ASSUME left \in LeftType,
           left' = left \/ (left.faults > 0 /\ left' = [left EXCEPT !.faults = @ - 1])
    PROVE  left' \in LeftType /\ left'.tools <= left.tools
<1>1. left.tools \in Nat
  BY LeftTypes
<1>2. left' \in LeftType /\ left'.tools = left.tools
  <2>1. CASE left' = left
    BY <2>1
  <2>2. CASE left.faults > 0 /\ left' = [left EXCEPT !.faults = @ - 1]
    BY <2>2, LeftTypes
  <2> QED
    BY <2>1, <2>2
<1> QED
  BY <1>1, <1>2

\* Messages keep their shape when they are published, passed over and handled.
LEMMA MailTypes ==
    ASSUME LoopTypes
    PROVE  /\ PassOver \in [Inputs \cup Shells -> MailType]
           /\ \A m \in Inputs \cup Shells : [mail[m] EXCEPT !.at = "handled"] \in MailType
           /\ \A m \in Inputs \cup Shells : \A s \in Sessions : Published(m, s) \in MailType
<1>1. \A m \in Inputs \cup Shells : mail[m] \in MailType
  BY DEF LoopTypes
<1>2. \A m \in Inputs \cup Shells : \A x \in {"unsent", "due", "passed", "handled"} :
         [mail[m] EXCEPT !.at = x] \in MailType
  BY <1>1 DEF MailType
<1>3. \A m \in Inputs \cup Shells : mail[m].at \in {"unsent", "due", "passed", "handled"}
  BY <1>1 DEF MailType
<1>4. DOMAIN mail = Inputs \cup Shells
  BY DEF LoopTypes
<1>5. PassOver \in [Inputs \cup Shells -> MailType]
  BY <1>2, <1>3, <1>4 DEF PassOver
<1>6. \A m \in Inputs \cup Shells : \A s \in Sessions : Published(m, s) \in MailType
  BY DEF Published, MailType
<1> QED
  BY <1>2, <1>5, <1>6

LEMMA CountInit == ASSUME Init PROVE CountInv
<1>1. left \in LeftType /\ left.tools = MaxTools
  BY UpgradeAssumption DEF Init, LeftType
<1>2. LoopTypes
  BY <1>1 DEF Init, LoopTypes, MailType
<1>3. ASSUME NEW s \in Sessions
      PROVE  /\ sess[s].inFlightBackgroundAgents = 0
             /\ claude[s].agents = 0 /\ claude[s].refused = 0
  BY DEF Init, newSession, NoSession, NoProcess
<1>4. BudgetInv /\ NothingOvercounted
  BY <1>1, <1>3, UpgradeAssumption DEF BudgetInv, NothingOvercounted
<1> QED
  BY <1>2, <1>4 DEF CountInv

\* Steps of the router that count nothing.
LEMMA RouterSteady ==
    ASSUME IInv, CountInv, NEW s \in Sessions,
           \/ RouteInit(s) \/ StartupTimeout(s) \/ RouteStateChanged(s) \/ flushKV(s)
           \/ ClaudeReads(s) \/ TurnEnds(s) \/ AsksPermission(s)
           \/ \E b \in Shells : LaunchShell(s, b) \/ ShellResult(s, b)
    PROVE  CountInv'
<1>1. /\ sess \in [Sessions -> SessionType] /\ claude \in [Sessions -> ProcessType]
      /\ LoopTypes /\ left \in LeftType
  BY DEF IInv, MemoryTypes, CountInv, LoopTypes
<1>2. LoopTypes' /\ left'.tools <= left.tools
  <2>1. UNCHANGED <<agentVars, mail>>
    BY DEF RouteInit, StartupTimeout, RouteStateChanged, flushKV, ClaudeReads, TurnEnds,
           AsksPermission, LaunchShell, ShellResult
  <2>2. UNCHANGED left \/ UsesTool(s)
    BY DEF RouteInit, StartupTimeout, RouteStateChanged, flushKV, ClaudeReads, TurnEnds,
           AsksPermission, LaunchShell, ShellResult
  <2>3. left' \in LeftType /\ left'.tools <= left.tools
    <3>1. left.tools \in Nat
      BY <1>1, LeftTypes
    <3>2. ASSUME UsesTool(s) PROVE left' \in LeftType /\ left'.tools = left.tools - 1
      BY <1>1, <3>2, LeftTypes DEF UsesTool
    <3> QED
      BY <1>1, <2>2, <3>1, <3>2
  <2> QED
    BY <1>1, <2>1, <2>3 DEF LoopTypes, agentVars
<1>3. \A u \in Sessions : sess'[u].inFlightBackgroundAgents = sess[u].inFlightBackgroundAgents
  <2>1. CASE UNCHANGED sess
    BY <2>1
  <2>2. ASSUME NEW v, sess' = [sess EXCEPT ![s].state = v]
        PROVE  \A u \in Sessions : sess'[u].inFlightBackgroundAgents = sess[u].inFlightBackgroundAgents
    BY <1>1, <2>2 DEF SessionType
  <2>4. ASSUME NEW P, sess' = [sess EXCEPT ![s].pendingShells = P]
        PROVE  \A u \in Sessions : sess'[u].inFlightBackgroundAgents = sess[u].inFlightBackgroundAgents
    BY <1>1, <2>4 DEF SessionType
  <2>5. ASSUME NEW b \in Shells, ShellResult(s, b)
        PROVE  \A u \in Sessions : sess'[u].inFlightBackgroundAgents = sess[u].inFlightBackgroundAgents
    <3>1. PICK inBackground \in BOOLEAN :
             sess' = [sess EXCEPT ![s].pendingShells = @ \ {b},
                          ![s].inFlightShells = IF inBackground THEN @ \cup {b} ELSE @]
      BY <2>5 DEF ShellResult
    <3> QED
      BY <1>1, <3>1 DEF SessionType
  <2>6. ASSUME NEW b \in Shells, LaunchShell(s, b)
        PROVE  \E P : sess' = [sess EXCEPT ![s].pendingShells = P]
    BY <2>6 DEF LaunchShell
  <2>7. CASE RouteInit(s) \/ StartupTimeout(s) \/ RouteStateChanged(s)
    BY <2>2, <2>7 DEF RouteInit, StartupTimeout, RouteStateChanged
  <2>8. CASE flushKV(s) \/ ClaudeReads(s) \/ TurnEnds(s) \/ AsksPermission(s)
    BY <2>1, <2>8 DEF flushKV, ClaudeReads, TurnEnds, AsksPermission
  <2> QED
    BY <2>4, <2>5, <2>6, <2>7, <2>8
<1>4. \A u \in Sessions : /\ claude'[u].agents = claude[u].agents
                          /\ claude'[u].refused = claude[u].refused
                          /\ claude'[u].proc # "none" => claude[u].proc # "none"
  <2>1. CASE UNCHANGED claude
    BY <2>1
  <2>2. CASE RouteInit(s)
    BY <1>1, <2>2 DEF RouteInit, ProcessType
  <2>3. CASE ClaudeReads(s)
    BY <1>1, <2>3 DEF ClaudeReads, ProcessType
  <2>4. CASE TurnEnds(s)
    BY <1>1, <2>4 DEF TurnEnds, ProcessType
  <2>5. CASE AsksPermission(s)
    BY <1>1, <2>5 DEF AsksPermission, ProcessType
  <2>6. CASE \E b \in Shells : LaunchShell(s, b) \/ ShellResult(s, b)
    <3>1. \E S : claude' = [claude EXCEPT ![s].shells = S]
      BY <2>6 DEF LaunchShell, ShellResult
    <3> QED
      BY <1>1, <3>1 DEF ProcessType
  <2>7. CASE StartupTimeout(s) \/ RouteStateChanged(s) \/ flushKV(s)
    BY <2>1, <2>7 DEF StartupTimeout, RouteStateChanged, flushKV
  <2> QED
    BY <2>2, <2>3, <2>4, <2>5, <2>6, <2>7
<1>5. \A u \in Sessions : Steady(u)
  BY <1>3, <1>4 DEF Steady
<1> QED
  BY <1>2, <1>5, SteadyInv

\* Steps that count: a tool use, and the end of an agent or of a shell.
LEMMA RouterCounts ==
    ASSUME IInv, CountInv, NEW s \in Sessions,
           LaunchAgent(s) \/ AgentEnds(s) \/ \E b \in Shells : ShellEnds(s, b)
    PROVE  CountInv'
<1>1. /\ sess \in [Sessions -> SessionType] /\ claude \in [Sessions -> ProcessType]
      /\ LoopTypes /\ left \in LeftType /\ MaxTools \in Nat
  BY UpgradeAssumption DEF IInv, MemoryTypes, CountInv, LoopTypes
<1>2. UNCHANGED <<agentVars, mail>> /\ Routing(s)
  BY DEF LaunchAgent, AgentEnds, ShellEnds, UsesTool
<1>3. /\ sess[s].inFlightBackgroundAgents \in Nat /\ claude[s].agents \in Nat
      /\ claude[s].refused \in Nat /\ claude[s].proc # "none"
  BY <1>2, CountTypes DEF IInv, Routing
<1>4. /\ sess[s].inFlightBackgroundAgents + left.tools <= MaxTools
      /\ claude[s].agents + left.tools <= MaxTools
      /\ claude[s].refused + left.tools <= MaxTools
      /\ sess[s].inFlightBackgroundAgents <= claude[s].agents + claude[s].refused
  BY <1>3 DEF CountInv, BudgetInv, NothingOvercounted
<1>5. ASSUME left' \in LeftType, left'.tools <= left.tools,
             \A u \in Sessions \ {s} : sess'[u] = sess[u] /\ claude'[u] = claude[u],
             sess'[s].inFlightBackgroundAgents + left'.tools <= MaxTools,
             claude'[s].agents + left'.tools <= MaxTools,
             claude'[s].refused + left'.tools <= MaxTools,
             sess'[s].inFlightBackgroundAgents <= claude'[s].agents + claude'[s].refused
      PROVE  CountInv'
  <2>1. LoopTypes'
    BY <1>1, <1>2, <1>5 DEF LoopTypes, agentVars
  <2>2. left.tools \in Nat /\ left'.tools \in Nat
    BY <1>1, <1>5 DEF LeftType
  <2>3. ASSUME NEW u \in Sessions, u # s
        PROVE  /\ sess'[u].inFlightBackgroundAgents + left'.tools <= MaxTools
               /\ claude'[u].agents + left'.tools <= MaxTools
               /\ claude'[u].refused + left'.tools <= MaxTools
    <3>1. /\ sess[u].inFlightBackgroundAgents \in Nat /\ claude[u].agents \in Nat
          /\ claude[u].refused \in Nat
      BY CountTypes DEF IInv
    <3>2. /\ sess[u].inFlightBackgroundAgents + left.tools <= MaxTools
          /\ claude[u].agents + left.tools <= MaxTools
          /\ claude[u].refused + left.tools <= MaxTools
      BY DEF CountInv, BudgetInv
    <3> QED
      BY <1>1, <1>5, <2>2, <2>3, <3>1, <3>2
  <2>4. BudgetInv'
    BY <1>5, <2>3 DEF BudgetInv
  <2>5. NothingOvercounted'
    BY <1>5 DEF CountInv, NothingOvercounted
  <2> QED
    BY <2>1, <2>4, <2>5 DEF CountInv
<1>6. CASE LaunchAgent(s)
  <2>1. left' \in LeftType /\ left'.tools = left.tools - 1 /\ left.tools \in Nat
    BY <1>1, <1>6, LeftTypes DEF LaunchAgent, UsesTool
  <2>2. /\ sess'[s].inFlightBackgroundAgents = sess[s].inFlightBackgroundAgents + 1
        /\ \A u \in Sessions \ {s} : sess'[u] = sess[u]
    BY <1>1, <1>6 DEF LaunchAgent, SessionType
  <2>3. /\ \/ claude'[s].agents = claude[s].agents + 1 /\ claude'[s].refused = claude[s].refused
           \/ claude'[s].agents = claude[s].agents /\ claude'[s].refused = claude[s].refused + 1
        /\ \A u \in Sessions \ {s} : claude'[u] = claude[u]
    BY <1>1, <1>6 DEF LaunchAgent, ProcessType
  <2> QED
    BY <1>1, <1>3, <1>4, <1>5, <2>1, <2>2, <2>3
<1>7. ASSUME NEW S
      PROVE  /\ Notification(s, S)[s].inFlightBackgroundAgents =
                   IF sess[s].inFlightBackgroundAgents > 0
                   THEN sess[s].inFlightBackgroundAgents - 1 ELSE 0
             /\ \A u \in Sessions \ {s} : Notification(s, S)[u] = sess[u]
  BY <1>1 DEF Notification, SessionType
<1>8. CASE AgentEnds(s)
  <2>1. /\ claude'[s].agents = claude[s].agents - 1 /\ claude'[s].refused = claude[s].refused
        /\ \A u \in Sessions \ {s} : claude'[u] = claude[u]
        /\ claude[s].agents > 0
    BY <1>1, <1>8 DEF AgentEnds, ProcessType
  <2>2. left' = left /\ left.tools \in Nat /\ sess' = Notification(s, {})
    BY <1>1, <1>8, LeftTypes DEF AgentEnds
  <2> QED
    BY <1>1, <1>3, <1>4, <1>5, <1>7, <2>1, <2>2
<1>9. ASSUME NEW b \in Shells, ShellEnds(s, b) PROVE CountInv'
  <2>1. /\ claude'[s].agents = claude[s].agents /\ claude'[s].refused = claude[s].refused
        /\ \A u \in Sessions \ {s} : claude'[u] = claude[u]
    <3>1. claude' = [claude EXCEPT ![s].shells = @ \ {b},
                                   ![s].turn = IF @ = "idle" THEN "running" ELSE @]
      BY <1>9 DEF ShellEnds
    <3>2. claude[s] \in ProcessType
      BY <1>1
    <3>3. claude'[s].agents = claude[s].agents /\ claude'[s].refused = claude[s].refused
      BY <1>1, <3>1, <3>2 DEF ProcessType
    <3> QED
      BY <1>1, <3>1, <3>3
  <2>2. left' = left /\ left.tools \in Nat /\ sess' = Notification(s, {b})
    BY <1>1, <1>9, LeftTypes DEF ShellEnds
  <2> QED
    BY <1>1, <1>3, <1>4, <1>5, <1>7, <2>1, <2>2
<1> QED
  BY <1>6, <1>8, <1>9

\* Input, interrupts and answers of users count nothing.
LEMMA UserCounts ==
    ASSUME IInv, CountInv,
           \/ ControlInterrupt
           \/ \E s \in Sessions : ControlResponse(s)
           \/ \E m \in Inputs : \E s \in Sessions : PublishInput(m, s)
           \/ \E m \in Inputs \cup Shells : handleInput(m)
    PROVE  CountInv'
<1>1. sess' = sess /\ left' = left /\ UNCHANGED agentVars
  BY DEF ControlInterrupt, ControlResponse, PublishInput, handleInput
<1>2. /\ claude \in [Sessions -> ProcessType] /\ LoopTypes /\ left \in LeftType
      /\ left.tools \in Nat /\ mail \in [Inputs \cup Shells -> MailType]
  BY LeftTypes DEF IInv, MemoryTypes, CountInv, LoopTypes
<1>3. mail' \in [Inputs \cup Shells -> MailType]
  <2>1. CASE mail' = mail
    BY <1>2, <2>1
  <2>2. ASSUME NEW m \in Inputs \cup Shells, NEW x \in MailType, mail' = [mail EXCEPT ![m] = x]
        PROVE  mail' \in [Inputs \cup Shells -> MailType]
    BY <1>2, <2>2
  <2>3. ASSUME NEW m \in Inputs, NEW s \in Sessions, PublishInput(m, s)
        PROVE  mail' = [mail EXCEPT ![m] = Published(m, s)] /\ Published(m, s) \in MailType
    BY <1>2, <2>3, MailTypes DEF PublishInput
  <2>4. ASSUME NEW m \in Inputs \cup Shells, handleInput(m)
        PROVE  /\ mail' = [mail EXCEPT ![m] = [mail[m] EXCEPT !.at = "handled"]]
               /\ [mail[m] EXCEPT !.at = "handled"] \in MailType
    BY <1>2, <2>4, MailTypes DEF handleInput
  <2>5. CASE ControlInterrupt \/ \E s \in Sessions : ControlResponse(s)
    BY <2>1, <2>5 DEF ControlInterrupt, ControlResponse
  <2>6. CASE \E m \in Inputs : \E s \in Sessions : PublishInput(m, s)
    BY <2>2, <2>3, <2>6
  <2>7. CASE \E m \in Inputs \cup Shells : handleInput(m)
    BY <2>2, <2>4, <2>7
  <2> QED
    BY <2>5, <2>6, <2>7
<1>4. LoopTypes' /\ left'.tools <= left.tools
  BY <1>1, <1>2, <1>3 DEF LoopTypes, agentVars
<1>5. \A u \in Sessions : /\ claude'[u].agents = claude[u].agents
                          /\ claude'[u].refused = claude[u].refused
                          /\ claude'[u].proc # "none" => claude[u].proc # "none"
  <2>1. \A u \in Sessions : \A x :
           LET p == [claude[u] EXCEPT !.stdin = x]
           IN  p.agents = claude[u].agents /\ p.refused = claude[u].refused /\ p.proc = claude[u].proc
    BY <1>2 DEF ProcessType
  <2>2. CASE ControlInterrupt
    BY <2>1, <2>2 DEF ControlInterrupt, Interrupted
  <2>3. ASSUME NEW s \in Sessions, ControlResponse(s)
        PROVE  claude' = [claude EXCEPT ![s].turn = "running"]
    BY <2>3 DEF ControlResponse
  <2>4. ASSUME NEW s \in Sessions, claude' = [claude EXCEPT ![s].turn = "running"]
        PROVE  \A u \in Sessions : /\ claude'[u].agents = claude[u].agents
                                   /\ claude'[u].refused = claude[u].refused
                                   /\ claude'[u].proc # "none" => claude[u].proc # "none"
    BY <1>2, <2>4 DEF ProcessType
  <2>5. CASE \E m \in Inputs : \E s \in Sessions : PublishInput(m, s)
    BY <2>5 DEF PublishInput
  <2>6. CASE \E m \in Inputs \cup Shells : handleInput(m)
    BY <2>1, <2>6 DEF handleInput
  <2> QED
    BY <2>2, <2>3, <2>4, <2>5, <2>6
<1>6. \A u \in Sessions : Steady(u)
  BY <1>1, <1>5 DEF Steady
<1> QED
  BY <1>4, <1>6, SteadyInv

\* What ends or starts a process starts its counts anew, or leaves no process.
LEMMA ReplaceCounts ==
    ASSUME IInv, CountInv,
           \/ \E s \in Sessions : Replace(s) \/ RecoverSession(s)
           \/ Exit \/ Killed
    PROVE  CountInv'
<1>1. /\ sess \in [Sessions -> SessionType] /\ claude \in [Sessions -> ProcessType]
      /\ LoopTypes /\ left \in LeftType /\ left.tools \in Nat
  BY LeftTypes DEF IInv, MemoryTypes, CountInv, LoopTypes
<1>2. ASSUME NEW s \in Sessions, Replace(s) \/ RecoverSession(s) PROVE CountInv'
  <2>1. \A u \in Sessions : Steady(u)
    <3>1. \/ sess' = [sess EXCEPT ![s] = newSession] /\ claude' = [claude EXCEPT ![s] = NewProcess]
          \/ sess' = sess /\ claude' = [claude EXCEPT ![s] = NoProcess]
          \/ sess' = sess /\ claude' = claude
      BY <1>2 DEF Replace, RecoverSession
    <3>2. CASE sess' = [sess EXCEPT ![s] = newSession] /\ claude' = [claude EXCEPT ![s] = NewProcess]
      BY <1>1, <3>2, FreshCounts DEF Steady
    <3>3. CASE sess' = sess /\ claude' = [claude EXCEPT ![s] = NoProcess]
      BY <1>1, <3>3, FreshCounts DEF Steady
    <3>4. CASE sess' = sess /\ claude' = claude
      BY <3>4 DEF Steady
    <3> QED
      BY <3>1, <3>2, <3>3, <3>4
  <2>2. left' \in LeftType /\ left'.tools <= left.tools
    <3>1. left' = left \/ (left.faults > 0 /\ left' = [left EXCEPT !.faults = @ - 1])
      BY <1>2 DEF Replace, RecoverSession
    <3> QED
      BY <1>1, <3>1, FaultLeft
  <2>3. UNCHANGED <<phase, allDone, mail>>
    BY <1>2 DEF Replace, RecoverSession, agentVars, Visit
  <2> QED
    BY <1>1, <2>1, <2>2, <2>3, SteadyInv DEF LoopTypes
<1>3. CASE Exit \/ Killed
  <2>1. Gone
    BY <1>3 DEF Exit, Killed
  <2>2. \A u \in Sessions : Steady(u)
    BY <2>1, FreshCounts DEF Gone, Steady
  <2>3. left' \in LeftType /\ left'.tools <= left.tools
    BY <1>1, <1>3, FaultLeft DEF Exit, Killed
  <2>4. LoopTypes'
    BY <1>1, <2>1, <2>3, MailTypes DEF Gone, Enter, LoopTypes
  <2> QED
    BY <2>2, <2>3, <2>4, SteadyInv
<1> QED
  BY <1>2, <1>3

\* The loops of gracefulShutdown and of the replacement count nothing.
LEMMA LoopCounts ==
    ASSUME IInv, CountInv,
           \/ SIGTERM \/ StopCommands \/ TickEnd \/ StartReplacement \/ createJetStreamConsumers
           \/ Serve
           \/ \E s \in Sessions :
                 \/ MarkUpdating(s) \/ Tick(s) \/ publishShellKilledNotifications(s)
                 \/ ClearResumed(s) \/ ClearOrphan(s)
    PROVE  CountInv'
<1>1. /\ sess \in [Sessions -> SessionType] /\ claude \in [Sessions -> ProcessType]
      /\ LoopTypes /\ left \in LeftType /\ left.tools \in Nat
  BY LeftTypes DEF IInv, MemoryTypes, CountInv, LoopTypes
<1>2. CASE /\ sess' = sess /\ claude' = claude /\ LoopTypes' /\ left'.tools <= left.tools
  BY <1>2, SteadyInv DEF Steady
<1>3. CASE SIGTERM
  <2>1. left' \in LeftType /\ left'.tools <= left.tools
    BY <1>1, <1>3, LeftTypes DEF SIGTERM
  <2> QED
    BY <1>1, <1>2, <1>3, <2>1 DEF SIGTERM, Enter, LoopTypes
<1>4. CASE StopCommands
  BY <1>1, <1>2, <1>4, MailTypes DEF StopCommands, Enter, LoopTypes
<1>5. CASE TickEnd \/ StartReplacement \/ createJetStreamConsumers \/ Serve
  <2>1. UNCHANGED <<sess, claude, mail, left>>
    BY <1>5 DEF TickEnd, StartReplacement, createJetStreamConsumers, Serve
  <2>2. phase' \in {"serve", "mark", "drain", "notify", "gone", "recover", "clear"}
    BY <1>5 DEF TickEnd, StartReplacement, createJetStreamConsumers, Serve, Enter
  <2>3. allDone' = allDone \/ allDone' = TRUE
    BY <1>5 DEF TickEnd, StartReplacement, createJetStreamConsumers, Serve
  <2>4. LoopTypes'
    BY <1>1, <2>1, <2>2, <2>3 DEF LoopTypes
  <2> QED
    BY <1>1, <1>2, <2>1, <2>4
<1>6. ASSUME NEW s \in Sessions, MarkUpdating(s) PROVE CountInv'
  <2>1. \A u \in Sessions : sess'[u].inFlightBackgroundAgents = sess[u].inFlightBackgroundAgents
    BY <1>1, <1>6 DEF MarkUpdating, SessionType
  <2>2. claude' = claude /\ left' = left /\ UNCHANGED <<phase, allDone, mail>>
    BY <1>6 DEF MarkUpdating, Visit
  <2>3. \A u \in Sessions : Steady(u)
    BY <2>1, <2>2 DEF Steady
  <2> QED
    BY <1>1, <2>2, <2>3, SteadyInv DEF LoopTypes
<1>7. ASSUME NEW s \in Sessions, Tick(s) PROVE CountInv'
  <2>1. \A u \in Sessions : /\ claude'[u].agents = claude[u].agents
                            /\ claude'[u].refused = claude[u].refused
                            /\ claude'[u].proc = claude[u].proc
    <3>1. \A u \in Sessions : \A x :
             LET p == [claude[u] EXCEPT !.stdin = x]
             IN  p.agents = claude[u].agents /\ p.refused = claude[u].refused /\ p.proc = claude[u].proc
      BY <1>1 DEF ProcessType
    <3>2. CASE claude' = Interrupted({s})
      BY <3>1, <3>2 DEF Interrupted
    <3>3. CASE claude' = claude
      BY <3>3
    <3>4. claude' = Interrupted({s}) \/ claude' = claude
      BY <1>7 DEF Tick
    <3> QED
      BY <3>2, <3>3, <3>4
  <2>2. sess' = sess /\ left' = left /\ UNCHANGED <<phase, mail>>
    BY <1>7 DEF Tick, Visit
  <2>3. allDone' \in BOOLEAN
    BY <1>7, Zenon DEF Tick
  <2>4. \A u \in Sessions : Steady(u)
    BY <2>1, <2>2 DEF Steady
  <2> QED
    BY <1>1, <2>2, <2>3, <2>4, SteadyInv DEF LoopTypes
<1>8. ASSUME NEW s \in Sessions, publishShellKilledNotifications(s) PROVE CountInv'
  <2>1. mail' \in [Inputs \cup Shells -> MailType]
    BY <1>1, <1>8, MailTypes DEF publishShellKilledNotifications, LoopTypes
  <2> QED
    BY <1>1, <1>2, <1>8, <2>1 DEF publishShellKilledNotifications, Visit, LoopTypes
<1>9. ASSUME NEW s \in Sessions, ClearResumed(s) \/ ClearOrphan(s) PROVE CountInv'
  BY <1>1, <1>2, <1>9 DEF ClearResumed, ClearOrphan, Cleared, Visit, LoopTypes
<1> QED
  BY <1>3, <1>4, <1>5, <1>6, <1>7, <1>8, <1>9

LEMMA NextCounts == ASSUME IInv, CountInv, [Next]_vars PROVE CountInv'
<1>1. CASE UNCHANGED vars
  BY <1>1 DEF vars, CountInv, LoopTypes, BudgetInv, NothingOvercounted
<1>2. CASE SIGTERM \/ AgentStep \/ Killed
  BY <1>2, LoopCounts, ReplaceCounts DEF AgentStep
<1>3. CASE \E s \in Sessions : RouterStep(s)
  BY <1>3, RouterSteady, RouterCounts DEF RouterStep
<1>4. CASE ~(SIGTERM \/ AgentStep \/ Killed \/ \E s \in Sessions : RouterStep(s)) /\ Next
  BY <1>4, UserCounts, ReplaceCounts DEF Next
<1> QED
  BY <1>1, <1>2, <1>3, <1>4

\* The second inductive invariant, relative to the first.
THEOREM Counts == Spec => [](IInv /\ CountInv)
<1>1. Init => IInv /\ CountInv
  BY InitInv, CountInit
<1>2. IInv /\ CountInv /\ [Next]_vars => (IInv /\ CountInv)'
  BY NextInv, NextCounts
<1> QED
  BY <1>1, <1>2, PTL DEF Spec

\* The state has its types, the counters bounded by the tool uses there were.
THEOREM UpgradeTypes == Spec => []TypeOK
<1>1. ASSUME IInv, CountInv PROVE TypeOK
  <2> DEFINE ST == [reg : BOOLEAN, state : States, shutdownPending : BOOLEAN,
                    inFlightBackgroundAgents : 0 .. MaxTools, pendingShells : SUBSET Shells,
                    inFlightShells : SUBSET Shells]
             PT == [proc : {"none", "boot", "up"}, turn : Turns,
                    agents : 0 .. MaxTools, refused : 0 .. MaxTools, shells : SUBSET Shells,
                    stdin : SUBSET {"input", "interrupt"}]
  <2>1. ASSUME NEW s \in Sessions
        PROVE  /\ sess[s].inFlightBackgroundAgents \in 0 .. MaxTools
               /\ claude[s].agents \in 0 .. MaxTools /\ claude[s].refused \in 0 .. MaxTools
    <3>1. left.tools \in Nat /\ MaxTools \in Nat
      BY <1>1, LeftTypes, UpgradeAssumption DEF CountInv, LoopTypes
    <3>2. /\ sess[s].inFlightBackgroundAgents \in Nat /\ claude[s].agents \in Nat
          /\ claude[s].refused \in Nat
      BY <1>1, CountTypes DEF IInv
    <3> QED
      BY <1>1, <3>1, <3>2 DEF CountInv, BudgetInv
  <2>2. ASSUME NEW s \in Sessions PROVE sess[s] \in ST
    <3>1. sess[s] \in SessionType
      BY <1>1 DEF IInv, MemoryTypes
    <3> QED
      BY <2>1, <3>1 DEF SessionType
  <2>3. ASSUME NEW s \in Sessions PROVE claude[s] \in PT
    <3>1. claude[s] \in ProcessType
      BY <1>1 DEF IInv, MemoryTypes
    <3> QED
      BY <2>1, <3>1 DEF ProcessType
  <2>4. sess \in [Sessions -> ST] /\ claude \in [Sessions -> PT]
    <3> HIDE DEF ST, PT
    <3> QED
      BY <1>1, <2>2, <2>3 DEF IInv, MemoryTypes
  <2> QED
    BY <1>1, <2>4 DEF IInv, MemoryTypes, EntryTypes, CountInv, LoopTypes, LeftType, MailType, TypeOK
<1>2. IInv /\ CountInv => TypeOK
  BY <1>1
<1> QED
  BY <1>2, Counts, PTL

\* The drain never waits for a background agent that no tool use asked for
\* (updateInFlightBackgroundAgents, with the floor of its decrement).
THEOREM AgentsNotOvercounted == Spec => []NothingOvercounted
<1>1. IInv /\ CountInv => NothingOvercounted
  BY DEF CountInv
<1> QED
  BY <1>1, Counts, PTL
================================================================================
