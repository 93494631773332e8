----------------------------- MODULE JobDispatcher -----------------------------
(***************************************************************************)
(* Scheduled jobs of the laptop daemon (daemon_jobs.go): jobs wait in a    *)
(* key-value bucket; one dispatcher thread starts a session for a queued   *)
(* job and pauses running jobs when the five-hour quota passes their       *)
(* threshold; a lifecycle callback and the HTTP handlers update the same   *)
(* entries.  No writer checks the revision of the entry it replaces, so    *)
(* every writer is a read step and a write step.                           *)
(*                                                                         *)
(* The bucket and the session agent are seen as the daemon uses them: a    *)
(* put takes effect at once, a watcher delivers every put in order, and    *)
(* the two forwarding goroutines merge watcher updates and quota updates   *)
(* in any order.  A session announces the end of its work once.  What the  *)
(* dispatcher publishes itself (session_job_paused) goes to the session's  *)
(* own lifecycle subject, to which the callback is not subscribed.  Nor is *)
(* it to the subjects this repository's agent uses (agent.go:1638-1746     *)
(* publishes on sessions.{s}.lifecycle.{ev}, daemon_jobs.go:277 listens on *)
(* projects.{p}.lifecycle.{ev}): whoever sends the events SubRead handles is *)
(* external, and the properties hold with and without them.                *)
(*                                                                         *)
(* Bounds: MaxSessions bounds the sessions ever prompted, MaxFaults      *)
(* the refused creates, cancel requests, dying sessions and daemon crashes.  *)
(***************************************************************************)
EXTENDS Naturals, Sequences, FiniteSets, SequencesExt

CONSTANTS
    Jobs,
    MaxSessions,    \* sessions ever prompted; the agent refuses further ones
    Threshold,      \* five-hour utilisation at which a job is to stop
    Priority,
    AutoContinue,   \* the jobs that resume by themselves
    Levels,         \* utilisations the API may report
    MaxRetries, MaxFaults

ASSUME DaemonAssumption ==
    /\ IsFiniteSet(Jobs)
    /\ Threshold \in [Jobs -> Nat] /\ Priority \in [Jobs -> Nat]
    /\ AutoContinue \subseteq Jobs /\ Levels \subseteq Nat \ {0}
    /\ MaxRetries \in Nat \ {0} /\ MaxSessions \in Nat
    /\ MaxFaults \in Nat

NoJob     == "no job"
NoSession == 0
Sessions  == 1 .. MaxSessions
NoData    == 0              \* QuotaStatus with HasData = false

VARIABLES
    kv,       \* job entries: [status, sess, retry, resume] per job
    watch,    \* updates the dispatcher's watcher has not yet handed over
    d,        \* [pc, quota, job, list, sess] of the dispatcher
    sess,     \* [job, state] per session of the agent
    sub,      \* [ev, e] the callback between its read and its write
    http,     \* [job, e, stop] a cancel between its read and its write
    due,      \* jobs whose ResumeAt has passed
    up, faults

jobVars == <<kv, watch>>
daemonVars == <<jobVars, due, d, sess, sub, http, up, faults>>

\* "closed" stands for completed, needs_spec_fix, failed and cancelled, which
\* the daemon writes and never tells apart again.
Statuses == {"none", "queued", "starting", "running", "paused", "closed"}
Entry == [status : Statuses, sess : Sessions \cup {NoSession},
          retry : Nat, resume : BOOLEAN]
EventTypes == {"paused", "closed"}

ReadEntry == [job : Jobs, e : Entry]        \* an entry as it was read
MaybeJob == Jobs \cup {NoJob}
MaybeSession == Sessions \cup {NoSession}
DispatcherType ==
    [pc : {"down", "idle", "pausing", "resume", "start", "create", "run", "recover"},
     quota : Levels \cup {NoData}, job : MaybeJob, e : Entry,
     list : SUBSET ReadEntry, sess : MaybeSession]
SessionType == [job : MaybeJob, state : {"none", "working", "done", "gone"}]
CallbackType == [ev : EventTypes \cup {"none"}, job : MaybeJob, e : Entry]
CancelType == [job : MaybeJob, e : Entry, stop : MaybeSession]

NoEntry == [status |-> "none", sess |-> NoSession, retry |-> 0, resume |-> FALSE]
\* Only the session of a running entry is ever read, so only that is stored.
Stored(e) == IF e.status = "running" THEN e ELSE [e EXCEPT !.sess = NoSession]

\* Of the updates a watcher delivers, one that is not queued only makes the
\* dispatcher look at the quota again, which TakeQuota may do at any time.
Put(j, e) == /\ kv' = [kv EXCEPT ![j] = Stored(e)]
             /\ watch' = IF e.status = "queued"
                         THEN Append(watch, [job |-> j, e |-> Stored(e)]) ELSE watch

Idle == [pc |-> "down", quota |-> NoData, job |-> NoJob, e |-> NoEntry,
         list |-> {}, sess |-> NoSession]
NoSub == [ev |-> "none", job |-> NoJob, e |-> NoEntry]
NoHttp == [job |-> NoJob, e |-> NoEntry, stop |-> NoSession]

DaemonInit ==
    /\ kv = [j \in Jobs |-> NoEntry] /\ watch = <<>>
    /\ due = {}
    /\ d = [Idle EXCEPT !.pc = "idle"]
    /\ sess = [s \in Sessions |-> [job |-> NoJob, state |-> "none"]]
    /\ sub = NoSub /\ http = NoHttp
    /\ up = TRUE /\ faults = 0

---------------------------------------------------------------------------
(* Quota publisher and HTTP handlers *)

PostJob(j) ==
    /\ up /\ kv[j].status = "none"
    /\ Put(j, [NoEntry EXCEPT !.status = "queued"])
    /\ UNCHANGED <<due, d, sess, sub, http, up, faults>>

CancelRead(j) ==
    /\ up /\ http = NoHttp
    /\ faults < MaxFaults /\ faults' = faults + 1
    /\ kv[j].status # "none"
    /\ http' = [job |-> j, e |-> [kv[j] EXCEPT !.status = "closed"],
                stop |-> IF kv[j].status = "running" THEN kv[j].sess ELSE NoSession]
    /\ UNCHANGED <<jobVars, due, d, sess, sub, up>>

\* The session of a job that was running is deleted.
CancelWrite ==
    /\ http # NoHttp
    /\ Put(http.job, http.e)
    /\ sess' = IF http.stop # NoSession
               THEN [sess EXCEPT ![http.stop].state = "gone"] ELSE sess
    /\ http' = NoHttp
    /\ UNCHANGED <<due, d, sub, up, faults>>

---------------------------------------------------------------------------
(* Sessions of the agent (external), and the lifecycle callback *)

\* A session that dies announces nothing.
SessionDies(s) ==
    /\ sess[s].state = "working"
    /\ faults < MaxFaults /\ faults' = faults + 1
    /\ sess' = [sess EXCEPT ![s].state = "gone"]
    /\ UNCHANGED <<jobVars, due, d, sub, http, up>>

\* The event of a session that finishes while the daemon is down is lost.
SessionUnheard(s) ==
    /\ sess[s].state = "working" /\ ~up
    /\ \E st \in {"gone", "done"} : sess' = [sess EXCEPT ![s].state = st]
    /\ UNCHANGED <<jobVars, due, d, sub, http, up, faults>>

\* A session announces the end of its work and the callback reads the entry.
SubRead(s, ev) ==
    /\ up /\ sub = NoSub
    /\ sess[s].state = "working"
    /\ sess' = [sess EXCEPT ![s].state = "done"]
    /\ sub' = [ev |-> ev, job |-> sess[s].job, e |-> kv[sess[s].job]]
    /\ UNCHANGED <<jobVars, due, d, http, up, faults>>

\* session_job_paused: only an autoContinue job takes the reset time along.
AfterPause(j, e, at) ==
    IF j \in AutoContinue THEN [e EXCEPT !.status = "paused", !.resume = e.resume \/ at]
    ELSE [e EXCEPT !.status = "queued"]

SubWrite ==
    /\ sub # NoSub
    /\ \E at \in BOOLEAN :
        LET e == sub.e
            j == sub.job
            new == IF sub.ev = "paused" THEN AfterPause(j, e, at)
                   ELSE [e EXCEPT !.status = "closed"]
        IN  IF sub.ev = "paused" /\ e.status = "paused"
            THEN UNCHANGED <<jobVars, due>>
            ELSE /\ Put(j, new)
                 /\ due' = IF new.resume /\ at THEN due \ {j} ELSE due
    /\ sub' = NoSub
    /\ UNCHANGED <<d, sess, http, up, faults>>

\* The reset time of the quota window is reached; only of a paused job is it read.
ResumeTime(j) ==
    /\ kv[j].status = "paused" /\ kv[j].resume /\ j \notin due
    /\ due' = due \cup {j}
    /\ UNCHANGED <<jobVars, d, sess, sub, http, up, faults>>

---------------------------------------------------------------------------
(* Dispatcher *)

WithStatus(st) == {[job |-> j, e |-> kv[j]] : j \in {k \in Jobs : kv[k].status = st}}

Waiting(x) == [Idle EXCEPT !.pc = "idle", !.quota = x.quota]

\* The trigger's snapshot decides, not the entry as it is now.
MayStart(x) ==
    /\ x.job # NoJob /\ x.e.status = "queued"
    /\ x.quota = NoData \/ x.quota < Threshold[x.job]

\* A loop over an empty list, or a job that may not start, changes nothing.
Continue(x) == d' = IF x.list # {} THEN x
                    ELSE IF MayStart(x) THEN [x EXCEPT !.pc = "start"]
                    ELSE Waiting(x)

Exceeded(q, x) == q >= Threshold[x.job]

\* processDispatch: with quota data the running jobs are read, and the paused
\* ones when none of them is over its threshold.  (Nobody else makes a job
\* running, so the second read may count as made with the first.)
StartPass(q, j, e) ==
    LET running == WithStatus("running")
        any == \E x \in running : Exceeded(q, x)
    IN  Continue([d EXCEPT !.quota = q, !.job = j, !.e = e,
                    !.pc   = IF any THEN "pausing" ELSE "resume",
                    !.list = IF q = NoData THEN {}
                             ELSE IF any THEN running ELSE WithStatus("paused")])

TakeUpdate ==
    /\ d.pc = "idle" /\ watch # <<>>
    /\ StartPass(d.quota, Head(watch).job, Head(watch).e)
    /\ watch' = Tail(watch)
    /\ UNCHANGED <<kv, due, sess, sub, http, up, faults>>

\* What the publisher last fetched; its own polling and the channel in between
\* add nothing, since nobody else reads them.  A failed fetch reports no data.
TakeQuota ==
    /\ d.pc = "idle"
    /\ \E q \in Levels \cup {NoData} : StartPass(q, NoJob, NoEntry)
    /\ UNCHANGED <<jobVars, due, sess, sub, http, up, faults>>

PauseNextMutant ==
    /\ d.pc = "pausing"
    /\ \E x \in d.list :
        /\ \A y \in d.list : Priority[x.job] <= Priority[y.job]
        /\ IF Exceeded(d.quota, x)
           THEN Put(x.job, [x.e EXCEPT !.status = "paused"])
           ELSE UNCHANGED jobVars
        /\ Continue([d EXCEPT !.list = {}])
    /\ UNCHANGED <<due, sess, sub, http, up, faults>>

\* Lowest priority first; the loop ends at the first job below its threshold.
PauseNext ==
    /\ d.pc = "pausing"
    /\ \E x \in d.list :
        /\ \A y \in d.list : Priority[x.job] <= Priority[y.job]
        /\ IF Exceeded(d.quota, x)
           THEN /\ Put(x.job, [x.e EXCEPT !.status = "paused"])
                /\ Continue([d EXCEPT !.list = @ \ {x}])
           ELSE /\ UNCHANGED jobVars
                /\ Continue([d EXCEPT !.list = {}])
    /\ UNCHANGED <<due, sess, sub, http, up, faults>>

ResumeNextMutant ==
    /\ d.pc = "resume"
    /\ \E x \in d.list :
        /\ \A y \in d.list : Priority[x.job] >= Priority[y.job]
        /\ IF x.e.resume
           THEN UNCHANGED <<jobVars, due>>
           ELSE /\ Put(x.job, [x.e EXCEPT !.status = "queued", !.resume = FALSE])
                /\ due' = due \ {x.job}
        /\ Continue([d EXCEPT !.list = @ \ {x}])
    /\ UNCHANGED <<sess, sub, http, up, faults>>

\* Highest priority first; a job whose ResumeAt is ahead stays paused.
ResumeNext ==
    /\ d.pc = "resume"
    /\ \E x \in d.list :
        /\ \A y \in d.list : Priority[x.job] >= Priority[y.job]
        /\ IF x.e.resume /\ x.job \notin due
           THEN UNCHANGED <<jobVars, due>>
           ELSE /\ Put(x.job, [x.e EXCEPT !.status = "queued", !.resume = FALSE])
                /\ due' = due \ {x.job}
        /\ Continue([d EXCEPT !.list = @ \ {x}])
    /\ UNCHANGED <<sess, sub, http, up, faults>>

MarkStarting ==
    /\ d.pc = "start"
    /\ Put(d.job, [d.e EXCEPT !.status = "starting"])
    /\ d' = [d EXCEPT !.pc = "create", !.e.status = "starting"]
    /\ UNCHANGED <<due, sess, sub, http, up, faults>>

\* Timeout, error or empty id: the job is left as it is, starting.
CreateFails ==
    /\ d.pc = "create"
    /\ IF \E s \in Sessions : sess[s].state = "none"
       THEN faults < MaxFaults /\ faults' = faults + 1
       ELSE UNCHANGED faults
    /\ d' = Waiting(d)
    /\ UNCHANGED <<jobVars, due, sess, sub, http, up>>

\* A session was created, but did not become idle within 30 s or is gone again.
PollFails ==
    /\ d.pc = "create"
    /\ Put(d.job, [d.e EXCEPT !.retry = @ + 1, !.sess = NoSession,
                              !.status = IF d.e.retry + 1 >= MaxRetries
                                         THEN "closed" ELSE "queued"])
    /\ d' = Waiting(d)
    /\ UNCHANGED <<due, sess, sub, http, up, faults>>

\* A session was created and became idle: it gets the prompt.
SendPrompt(s) ==
    /\ d.pc = "create"
    /\ sess[s].state = "none"
    /\ \A t \in 1 .. s - 1 : sess[t].state # "none"
    /\ sess' = [sess EXCEPT ![s] = [job |-> d.job, state |-> "working"]]
    /\ d' = [d EXCEPT !.pc = "run", !.sess = s]
    /\ UNCHANGED <<jobVars, due, sub, http, up, faults>>

MarkRunningMutant ==
    /\ d.pc = "run"
    /\ Put(d.job, [d.e EXCEPT !.status = "running"])
    /\ d' = Waiting(d)
    /\ UNCHANGED <<due, sess, sub, http, up, faults>>

MarkRunning ==
    /\ d.pc = "run"
    /\ Put(d.job, [d.e EXCEPT !.status = "running", !.sess = d.sess])
    /\ d' = Waiting(d)
    /\ UNCHANGED <<due, sess, sub, http, up, faults>>

---------------------------------------------------------------------------
(* Crash of the daemon and recovery *)

Crash ==
    /\ up /\ faults < MaxFaults
    /\ faults' = faults + 1 /\ up' = FALSE
    /\ watch' = <<>>
    /\ d' = Idle /\ sub' = NoSub /\ http' = NoHttp
    /\ UNCHANGED <<kv, due, sess>>

\* The entries are read at once and written one by one.
Restart ==
    /\ ~up /\ up' = TRUE
    /\ d' = [Idle EXCEPT !.pc = "recover",
                         !.list = {[job |-> j, e |-> kv[j]] :
                                    j \in {k \in Jobs : kv[k].status # "none"}}]
    /\ UNCHANGED <<jobVars, due, sess, sub, http, faults>>

Gone(s) == s # NoSession /\ sess[s].state = "gone"

Recovered(x) ==
    IF x.e.status = "starting" \/ (x.e.status = "running" /\ Gone(x.e.sess))
    THEN [x.e EXCEPT !.status = "queued", !.sess = NoSession]
    ELSE IF x.e.status = "paused" /\ x.e.resume /\ x.job \in due
    THEN [x.e EXCEPT !.status = "queued", !.resume = FALSE]
    ELSE x.e

RecoverNext ==
    /\ d.pc = "recover" /\ d.list # {}
    /\ \E x \in d.list :
        /\ kv' = IF Recovered(x) # x.e THEN [kv EXCEPT ![x.job] = Recovered(x)] ELSE kv
        /\ due' = IF Recovered(x).resume THEN due ELSE due \ {x.job}
        /\ d' = [d EXCEPT !.list = @ \ {x}]
    /\ UNCHANGED <<watch, sess, sub, http, up, faults>>

\* WatchAll starts with the current value of every entry.
StartWatch ==
    /\ d.pc = "recover" /\ d.list = {}
    /\ watch' \in SetToSeqs(WithStatus("queued"))
    /\ d' = Waiting(d)
    /\ UNCHANGED <<kv, due, sess, sub, http, up, faults>>

---------------------------------------------------------------------------

Dispatch ==
    \/ TakeUpdate \/ TakeQuota \/ PauseNext \/ ResumeNext \/ MarkStarting
    \/ CreateFails \/ PollFails \/ (\E s \in Sessions : SendPrompt(s)) \/ MarkRunning
    \/ RecoverNext \/ StartWatch

DaemonNext ==
    \/ Dispatch \/ SubWrite
    \/ Crash \/ Restart \/ CancelWrite
    \/ \E j \in Jobs : PostJob(j) \/ CancelRead(j) \/ ResumeTime(j)
    \/ \E s \in Sessions : SessionDies(s) \/ SessionUnheard(s)
    \/ \E s \in Sessions, ev \in EventTypes : SubRead(s, ev)

DaemonSpec == DaemonInit /\ [][DaemonNext]_daemonVars

(* The dispatcher's loop runs forever: it takes its next step, a quota status *)
(* that the publisher polls every minute is not passed over for ever by the   *)
(* forwarders, and a reset time that is ahead comes.                          *)
DaemonFairSpec ==
    /\ DaemonSpec
    /\ WF_daemonVars(Dispatch) /\ SF_daemonVars(TakeQuota)
    /\ \A j \in AutoContinue : WF_daemonVars(ResumeTime(j))

---------------------------------------------------------------------------

\* The types; a job entry marked running names the session that works on it,
\* which a cancel and the recovery of the daemon rely on.
DaemonTypeOK ==
    /\ kv \in [Jobs -> Entry]
    /\ \A j \in Jobs : kv[j].status = "running" => kv[j].sess # NoSession
    /\ watch \in Seq(ReadEntry)
    /\ due \subseteq Jobs
    /\ d \in DispatcherType
    /\ sess \in [Sessions -> SessionType]
    /\ sub \in CallbackType /\ http \in CancelType
    /\ up \in BOOLEAN /\ faults \in 0 .. MaxFaults

\* processDispatch (daemon_jobs.go:645-688, 730): when the dispatcher waits for
\* its next trigger, a job marked running is below its threshold at the quota it
\* saw last, or stands behind a job of no higher priority that is below its own,
\* at which the loop ended; for any thresholds and priorities, whatever the
\* callback, the HTTP handlers and a crash did to the entries in between.
Shielded(q, j) ==
    \E i \in Jobs : i # j /\ Priority[i] <= Priority[j] /\ q < Threshold[i]

OnlyShieldedRunOver ==
    (d.pc = "idle" /\ d.quota # NoData) =>
        \A j \in Jobs : kv[j].status = "running" =>
            d.quota < Threshold[j] \/ Shielded(d.quota, j)

\* What the comment at daemon_jobs.go:650 says of the loop ("we stop all running
\* jobs whose per-job threshold is exceeded"): no job marked running has reached
\* its threshold when the dispatcher waits.  It does not hold: POST /jobs takes
\* any threshold with any priority, and a job of lower priority with a higher
\* threshold ends the loop.
NoneOverThreshold ==
    (d.pc = "idle" /\ d.quota # NoData) =>
        \A j \in Jobs : kv[j].status = "running" => d.quota < Threshold[j]

\* processDispatch (daemon_jobs.go:692-722): once the utilisation reported to
\* the dispatcher stays below every threshold, a paused job does not stay paused:
\* a job is never paused for ever under a utilisation below all thresholds.
PausedResumes ==
    LET below == d.quota # NoData /\ \A j \in Jobs : d.quota < Threshold[j]
    IN  \A j \in Jobs : []<>(below => kv[j].status # "paused")
================================================================================
