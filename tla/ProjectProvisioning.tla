-------------------------- MODULE ProjectProvisioning --------------------------
(***************************************************************************)
(* Projects of one user on one Kubernetes host: the control plane's create *)
(* and delete handlers (projects.go, project_http.go), the messages to the *)
(* host, the controller's provisioning callback (nats_subscriber.go) and   *)
(* the reconciler of MCProject resources (reconciler.go).                  *)
(*                                                                         *)
(* The requests are those that name this host.  The row of a project gets  *)
(* the user's host "local", or the first one of a user without it, whatever *)
(* host the request names: a row records whether that is this host.        *)
(*                                                                         *)
(* A handler works on one request at a time.  The host controller has one  *)
(* subscription, whose callback handles one message at a time and blocks   *)
(* in waitForReady, and one reconcile worker fed by a work queue.          *)
(*                                                                         *)
(* Every call to Kubernetes, the database and the bucket may fail, and the *)
(* controller reads through a cache that may not show the secret it has    *)
(* just created.  The resource of a project is identified by its name,     *)
(* which is the slug of the project; a create message carries a fresh      *)
(* project id, so an id also identifies the resource made for it.          *)
(*                                                                         *)
(* A key pair is fresh when nobody holds it any more, so finitely many     *)
(* keys are enough.  Bounds: MaxIds bounds the projects ever created,      *)
(* MaxFaults the failed calls, the lagging reads and the restarts of the   *)
(* controller.                                                             *)
(***************************************************************************)
EXTENDS Naturals, Sequences, FiniteSets

CONSTANTS
    MaxIds, Slugs,
    NatsHandlers,   \* one per project-create subscription of the control plane
    HttpHandlers,   \* HTTP requests in progress
    MaxFaults

Handlers == NatsHandlers \cup HttpHandlers
Ids == 1 .. MaxIds
NoId == 0

ASSUME ConstantsAssumption ==
    /\ MaxIds \in Nat
    /\ IsFiniteSet(Slugs)
    /\ NatsHandlers \cap HttpHandlers = {}
    /\ MaxFaults \in Nat

VARIABLES
    proj,        \* rows of the projects table: [slug, status, here] per id
    kv,          \* the user's projects bucket: [id, status] per slug
    h,           \* [pc, id, slug] per handler of the control plane
    queue,       \* projects of the creates on mclaude.hosts.{hslug}.> not yet delivered
    sub,         \* the project the controller's callback is waiting for, or NoId
    cr,          \* MCProject resources: [id, phase] per name
    work,        \* names in the reconciler's work queue
    rec,         \* [pc, slug, id, key, ok] of the reconcile worker
    shared,      \* per-user objects in place: namespace, RBAC, secrets
    deployed,    \* projects whose volumes and deployment exist
    secret,      \* agent-nkey-{projectId}: the key in it, 0 if there is none
    registered,  \* agent_credentials: the key of a project slug, 0 if none
    unseen,      \* history: projects whose secret was there and was not seen
    unannounced, \* history: projects whose phase Ready could not be written
    up,          \* whether the controller runs
    faults       \* failures so far

cpVars  == <<proj, kv, h>>
subVars == <<queue, sub>>
hist    == <<unseen, unannounced>>
recVars == <<work, rec, shared, deployed, secret, registered, hist>>
ctlVars == <<up, faults>>
vars    == <<cpVars, subVars, cr, recVars, ctlVars>>

Statuses == {"none", "active", "failed", "deleted"}
Phases   == {"", "Pending", "Provisioning", "Ready", "Failed"}
\* 0 stands for no key.
Keys == 1 .. Cardinality(Ids) + Cardinality(Slugs) + 1

SharedParts == {"namespace", "rbac and secrets"}

NoCR  == [id |-> NoId, phase |-> ""]
IdleH == [pc |-> "idle", id |-> NoId]
IdleR == [pc |-> "idle", slug |-> NoId, id |-> NoId, key |-> 0, ok |-> TRUE]

Live(i) == proj[i].status \in {"active", "failed"}
Slug(i) == proj[i].slug

Init ==
    /\ proj = [i \in Ids |-> [slug |-> NoId, status |-> "none", here |-> FALSE]]
    /\ kv = [s \in Slugs |-> [id |-> NoId, status |-> "none"]]
    /\ h = [t \in Handlers |-> IdleH]
    /\ queue = <<>> /\ sub = NoId
    /\ cr = [s \in Slugs |-> NoCR]
    /\ work = {} /\ rec = IdleR
    /\ shared = {} /\ deployed = {}
    /\ secret = [i \in Ids |-> 0]
    /\ registered = [s \in Slugs |-> 0]
    /\ unseen = {} /\ unannounced = {}
    /\ up = TRUE /\ faults = 0

---------------------------------------------------------------------------
(* Control plane *)

\* Something fails that need not have failed.
Fault == faults < MaxFaults /\ faults' = faults + 1
MayFail(ok) == IF ok THEN UNCHANGED faults ELSE Fault

At(t, pc) == h[t].pc = pc
Goto(t, pc) == h' = [h EXCEPT ![t].pc = pc]

\* The insert fails when the user has a live project of that slug.
SlugFree(s) == \A j \in Ids : Live(j) => Slug(j) # s

CreateRow(t, i, s, here) ==
    /\ At(t, "idle")
    /\ proj[i].status = "none"
    /\ \A j \in 1 .. i - 1 : proj[j].status # "none"
    /\ SlugFree(s)
    /\ proj' = [proj EXCEPT ![i] = [slug |-> s, status |-> "active", here |-> here]]
    /\ h' = [h EXCEPT ![t] =
                [pc |-> IF t \in HttpHandlers THEN "write" ELSE "request", id |-> i]]
    /\ UNCHANGED <<kv, subVars, cr, recVars, ctlVars>>

\* writeProjectKV, whose failure is only logged.
WriteEntry(i, st, written) ==
    /\ MayFail(written)
    /\ kv' = IF written THEN [kv EXCEPT ![Slug(i)] = [id |-> i, status |-> st]] ELSE kv

\* handleCreateProjectHTTP writes the entry before the provisioning request.
WriteBeforeRequest(t, written) ==
    /\ At(t, "write")
    /\ WriteEntry(h[t].id, "active", written)
    /\ Goto(t, "request")
    /\ UNCHANGED <<proj, subVars, cr, recVars, up>>

\* The HTTP handler only logs a failure and answers 201.
Outcome(t, ok) ==
    IF t \in HttpHandlers THEN IdleH
    ELSE [h[t] EXCEPT !.pc = IF ok THEN "ok" ELSE "failed"]

\* nc.Request: without a subscriber it fails at once.
RequestProvisioning(t) ==
    /\ At(t, "request")
    /\ IF up
       THEN /\ queue' = Append(queue, h[t].id)
            /\ Goto(t, "wait")
       ELSE /\ UNCHANGED queue
            /\ h' = [h EXCEPT ![t] = Outcome(t, FALSE)]
    /\ UNCHANGED <<proj, kv, sub, cr, recVars, ctlVars>>

\* The request times out after 10 s, whatever the controller does.
RequestTimeout(t) ==
    /\ At(t, "wait")
    /\ h' = [h EXCEPT ![t] = Outcome(t, FALSE)]
    /\ UNCHANGED <<proj, kv, subVars, cr, recVars, ctlVars>>

\* A failed update of the row is only logged.
MarkFailed(t, written) ==
    /\ MayFail(written)
    /\ At(t, "failed")
    /\ proj' = IF Live(h[t].id) /\ written
               THEN [proj EXCEPT ![h[t].id].status = "failed"] ELSE proj
    /\ Goto(t, "writeFailed")
    /\ UNCHANGED <<kv, subVars, cr, recVars, up>>

WriteOutcomeMutant(t, written) ==
    /\ h[t].pc \in {"ok", "writeFailed"}
    /\ WriteEntry(h[t].id, IF At(t, "ok") THEN "active" ELSE "failed", written)
    /\ Goto(t, "idle")
    /\ UNCHANGED <<proj, subVars, cr, recVars, up>>

\* The entry shows the status the handler knows, not the one in the row.
WriteOutcome(t, written) ==
    /\ h[t].pc \in {"ok", "writeFailed"}
    /\ WriteEntry(h[t].id, IF At(t, "ok") THEN "active" ELSE "failed", written)
    /\ h' = [h EXCEPT ![t] = IdleH]
    /\ UNCHANGED <<proj, subVars, cr, recVars, up>>

DeleteLookup(t, i) ==
    /\ t \in HttpHandlers
    /\ At(t, "idle")
    /\ Live(i)
    /\ h' = [h EXCEPT ![t] = [pc |-> "notify", id |-> i]]
    /\ UNCHANGED <<proj, kv, subVars, cr, recVars, ctlVars>>

\* The message goes to the host of the row.  Its payload has no user slug, so
\* handleDelete looks for "-{pslug}", the name of no resource, and is done: it is
\* not queued here.
DeleteNotify(t) ==
    /\ At(t, "notify")
    /\ Goto(t, "remove")
    /\ UNCHANGED <<proj, kv, subVars, cr, recVars, ctlVars>>

\* The rows are removed by user and slug; no entry is removed from the bucket.
DeleteRow(t) ==
    /\ At(t, "remove")
    /\ proj' = [i \in Ids |->
                  IF Live(i) /\ Slug(i) = Slug(h[t].id)
                  THEN [proj[i] EXCEPT !.status = "deleted", !.here = FALSE] ELSE proj[i]]
    /\ h' = [h EXCEPT ![t] = IdleH]
    /\ UNCHANGED <<kv, subVars, cr, recVars, ctlVars>>

---------------------------------------------------------------------------
(* The controller's subscription callback *)

Received == up /\ sub = NoId /\ queue # <<>>

\* A reply reaches the handler only while it waits for this request, of which
\* there is one per project.
Reply(i, ok) ==
    h' = [t \in Handlers |-> IF At(t, "wait") /\ h[t].id = i THEN Outcome(t, ok) ELSE h[t]]

\* An MCProject of that name may exist already: then it is left as it is.
SubCreate ==
    /\ Received
    /\ LET s == Slug(Head(queue))
           new == cr[s].id = NoId
       IN  /\ cr' = IF new THEN [cr EXCEPT ![s] = [id |-> Head(queue), phase |-> ""]]
                    ELSE cr
           /\ work' = IF new THEN work \cup {s} ELSE work
    /\ sub' = Head(queue)
    /\ queue' = Tail(queue)
    /\ UNCHANGED <<cpVars, rec, shared, deployed, secret, registered, hist, ctlVars>>

SubCreateError ==
    /\ Fault
    /\ Received
    /\ Reply(Head(queue), FALSE)
    /\ queue' = Tail(queue)
    /\ UNCHANGED <<proj, kv, sub, cr, recVars, up>>

\* waitForReady polls the resource of that name until it is Ready or Failed,
\* or until 30 s have passed.
SubPoll ==
    /\ sub # NoId
    /\ \/ cr[Slug(sub)].phase = "Ready" /\ Reply(sub, TRUE)
       \/ cr[Slug(sub)].phase # "Ready" /\ Reply(sub, FALSE)
    /\ sub' = NoId
    /\ UNCHANGED <<proj, kv, queue, cr, recVars, ctlVars>>

\* Somebody deletes the resource by hand.
DeleteResource(s) ==
    /\ cr[s].id # NoId
    /\ cr' = [cr EXCEPT ![s] = NoCR]
    /\ work' = IF up THEN work \cup {s} ELSE work
    /\ UNCHANGED <<cpVars, subVars, rec, shared, deployed, secret, registered, hist, ctlVars>>

---------------------------------------------------------------------------
(* The reconciler *)

\* Status().Update of the object read at the start: it fails, and nobody
\* minds, when the resource is gone or another one has taken its name.  A
\* change of the status is an event that puts the name into the work queue.
SetPhase(s, i, p, requeue, written) ==
    LET mine == cr[s].id = i /\ written
    IN  /\ cr' = IF mine THEN [cr EXCEPT ![s].phase = p] ELSE cr
        /\ work' = IF requeue \/ (mine /\ (cr[s].phase # p \/ p = "Ready"))
                   THEN work \cup {s} ELSE work

Step(pc, ok) == rec' = [rec EXCEPT !.pc = pc, !.ok = rec.ok /\ ok,
                                   !.key = IF pc = "seal" THEN rec.key ELSE 0]

RecAt(pc) == up /\ rec.pc = pc

RecGone(s) ==
    /\ RecAt("idle") /\ s \in work
    /\ cr[s].id = NoId
    /\ work' = work \ {s}
    /\ UNCHANGED <<cpVars, subVars, cr, rec, shared, deployed, secret, registered, hist, ctlVars>>

\* (A pass that cannot write Pending is made again: nothing has changed.)
RecPending(s) ==
    /\ RecAt("idle") /\ s \in work
    /\ cr[s].id # NoId /\ cr[s].phase = ""
    /\ SetPhase(s, cr[s].id, "Pending", TRUE, TRUE)
    /\ UNCHANGED <<cpVars, subVars, rec, shared, deployed, secret, registered, hist, ctlVars>>

\* A pass goes on when it cannot write Provisioning.  The conditions written
\* along the way carry the phase too; here that is left to the end of the pass.
RecStart(s, written) ==
    /\ RecAt("idle") /\ s \in work
    /\ cr[s].id # NoId /\ cr[s].phase # ""
    /\ LET moves == cr[s].phase = "Pending"
       IN  /\ IF moves THEN MayFail(written) ELSE written /\ UNCHANGED faults
           /\ cr' = IF moves /\ written THEN [cr EXCEPT ![s].phase = "Provisioning"] ELSE cr
           /\ work' = IF moves /\ written THEN work ELSE work \ {s}
    /\ rec' = [pc |-> "namespace", slug |-> s, id |-> cr[s].id, key |-> 0, ok |-> TRUE]
    /\ UNCHANGED <<cpVars, subVars, shared, deployed, secret, registered, hist, up>>

RecTemplateErrorMutant ==
    /\ Fault
    /\ RecAt("namespace")
    /\ UNCHANGED work
    /\ rec' = IdleR
    /\ UNCHANGED <<cpVars, subVars, cr, shared, deployed, secret, registered, hist, up>>

\* The template cannot be read: the pass ends.  So does one that can neither
\* make the namespace nor write the phase Failed.
RecTemplateError ==
    /\ Fault
    /\ RecAt("namespace")
    /\ work' = work \cup {rec.slug}
    /\ rec' = IdleR
    /\ UNCHANGED <<cpVars, subVars, cr, shared, deployed, secret, registered, hist, up>>

RecNamespace ==
    /\ RecAt("namespace")
    /\ shared' = shared \cup {"namespace"}
    /\ Step("shared", TRUE)
    /\ UNCHANGED <<cpVars, subVars, cr, work, deployed, secret, registered, hist, ctlVars>>

RecNamespaceError ==
    /\ Fault
    /\ RecAt("namespace")
    /\ SetPhase(rec.slug, rec.id, "Failed", TRUE, TRUE)
    /\ rec' = IdleR
    /\ UNCHANGED <<cpVars, subVars, shared, deployed, secret, registered, hist, up>>

\* reconcileRBAC and reconcileSecrets.  Errors of these and of the later
\* steps do not end the pass.
RecShared(ok) ==
    /\ IF ok THEN UNCHANGED faults ELSE Fault
    /\ RecAt("shared")
    /\ shared' = IF ok THEN shared \cup {"rbac and secrets"} ELSE shared
    /\ Step("nkey", ok)
    /\ UNCHANGED <<cpVars, subVars, cr, work, deployed, secret, registered, hist, up>>

RecHasKey ==
    /\ RecAt("nkey")
    /\ secret[rec.id] # 0
    /\ Step("deploy", TRUE)
    /\ UNCHANGED <<cpVars, subVars, cr, work, shared, deployed, secret, registered, hist, ctlVars>>

RecNKeyError ==
    /\ Fault
    /\ RecAt("nkey")
    /\ Step("deploy", FALSE)
    /\ UNCHANGED <<cpVars, subVars, cr, work, shared, deployed, secret, registered, hist, up>>

Held == {secret[i] : i \in Ids} \cup {registered[s] : s \in Slugs}
FreshKey == CHOOSE k \in Keys : k \notin Held

\* The manager's client reads from a cache, which may not show the secret yet.
RecGenerateKey ==
    /\ RecAt("nkey")
    /\ MayFail(secret[rec.id] = 0)
    /\ unseen' = IF secret[rec.id] # 0 THEN unseen \cup {rec.id} ELSE unseen
    /\ rec' = [rec EXCEPT !.pc = "register", !.key = FreshKey]
    /\ UNCHANGED <<cpVars, subVars, cr, work, shared, deployed, secret, registered,
                   unannounced, up>>

\* handleAgentRegister of the control plane: the user has a project of that
\* slug, whose row names this host.
Assigned(s) == \E i \in Ids : Live(i) /\ Slug(i) = s /\ proj[i].here

\* The credential of the slug is replaced.
UpsertCredential(s, k) == registered' = [registered EXCEPT ![s] = k]

\* The answer may be lost: then the pass goes on as after an error.
RecRegister(answered) ==
    /\ IF answered THEN UNCHANGED faults ELSE Fault
    /\ RecAt("register")
    /\ IF Assigned(rec.slug) THEN UpsertCredential(rec.slug, rec.key)
                             ELSE UNCHANGED registered
    /\ IF Assigned(rec.slug) /\ answered THEN Step("seal", TRUE) ELSE Step("deploy", FALSE)
    /\ UNCHANGED <<cpVars, subVars, cr, work, shared, deployed, secret, hist, up>>

\* Create of the secret; that it exists already is not an error.
RecSeal ==
    /\ RecAt("seal")
    /\ secret' = IF secret[rec.id] = 0 THEN [secret EXCEPT ![rec.id] = rec.key] ELSE secret
    /\ Step("deploy", TRUE)
    /\ UNCHANGED <<cpVars, subVars, cr, work, shared, deployed, registered, hist, ctlVars>>

RecSealErrorMutant ==
    /\ Fault
    /\ RecAt("seal")
    /\ Step("deploy", TRUE)
    /\ UNCHANGED <<cpVars, subVars, cr, work, shared, deployed, secret, registered, hist, up>>

RecSealError ==
    /\ Fault
    /\ RecAt("seal")
    /\ Step("deploy", FALSE)
    /\ UNCHANGED <<cpVars, subVars, cr, work, shared, deployed, secret, registered, hist, up>>

RecDeployMutant(ok) ==
    /\ IF ok THEN UNCHANGED faults ELSE Fault
    /\ RecAt("deploy")
    /\ deployed' = IF ok THEN deployed \cup {rec.id} ELSE deployed
    /\ Step("finish", TRUE)
    /\ UNCHANGED <<cpVars, subVars, cr, work, shared, secret, registered, hist, up>>

RecDeploy(ok) ==
    /\ IF ok THEN UNCHANGED faults ELSE Fault
    /\ RecAt("deploy")
    /\ deployed' = IF ok THEN deployed \cup {rec.id} ELSE deployed
    /\ Step("finish", ok)
    /\ UNCHANGED <<cpVars, subVars, cr, work, shared, secret, registered, hist, up>>

\* The error of the last update is ignored: after a complete pass nothing is
\* left to try it again.
RecFinish(written) ==
    /\ MayFail(written)
    /\ RecAt("finish")
    /\ IF rec.ok THEN SetPhase(rec.slug, rec.id, "Ready", FALSE, written)
                 ELSE SetPhase(rec.slug, rec.id, "Provisioning", TRUE, written)
    /\ unannounced' = IF rec.ok /\ ~written THEN unannounced \cup {rec.id} ELSE unannounced
    /\ rec' = IdleR
    /\ UNCHANGED <<cpVars, subVars, shared, deployed, secret, registered, unseen, up>>

\* Something the manager watches changes: the template, an object of the
\* project, a condition of the resource.
WatchEvent(s) ==
    /\ up /\ cr[s].id # NoId
    /\ work' = work \cup {s}
    /\ UNCHANGED <<cpVars, subVars, cr, rec, shared, deployed, secret, registered, hist, ctlVars>>

---------------------------------------------------------------------------
(* The controller dies and comes back: what it subscribed to is lost with it,
   and the first thing the manager does is to reconcile every resource. *)

Crash ==
    /\ up /\ Fault
    /\ up' = FALSE
    /\ queue' = <<>> /\ sub' = NoId
    /\ rec' = IdleR /\ work' = {}
    /\ UNCHANGED <<cpVars, cr, shared, deployed, secret, registered, hist>>

Restart ==
    /\ ~up
    /\ up' = TRUE
    /\ work' = {s \in Slugs : cr[s].id # NoId}
    /\ UNCHANGED <<cpVars, subVars, cr, rec, shared, deployed, secret, registered, hist, faults>>

---------------------------------------------------------------------------
HandlerStep(t) ==
    \/ WriteBeforeRequest(t, TRUE) \/ RequestProvisioning(t) \/ RequestTimeout(t)
    \/ MarkFailed(t, TRUE) \/ WriteOutcome(t, TRUE) \/ DeleteNotify(t) \/ DeleteRow(t)

HandlerError(t) ==
    WriteBeforeRequest(t, FALSE) \/ MarkFailed(t, FALSE) \/ WriteOutcome(t, FALSE)

SubStep == SubCreate \/ SubPoll

RecTake(s) == RecGone(s) \/ RecPending(s) \/ RecStart(s, TRUE)

RecError ==
    \/ RecTemplateError \/ RecNamespaceError \/ RecNKeyError \/ RecSealError
    \/ RecShared(FALSE) \/ RecRegister(FALSE) \/ RecDeploy(FALSE) \/ RecFinish(FALSE)
    \/ \E s \in Slugs : RecStart(s, FALSE)

RecWork ==
    \/ RecNamespace \/ RecShared(TRUE) \/ RecHasKey \/ RecGenerateKey
    \/ RecRegister(TRUE) \/ RecSeal \/ RecDeploy(TRUE) \/ RecFinish(TRUE)

Next ==
    \/ \E t \in Handlers, i \in Ids, s \in Slugs, here \in BOOLEAN : CreateRow(t, i, s, here)
    \/ \E t \in Handlers, i \in Ids : DeleteLookup(t, i)
    \/ \E t \in Handlers : HandlerStep(t) \/ HandlerError(t)
    \/ SubStep \/ SubCreateError
    \/ \E s \in Slugs : RecTake(s) \/ WatchEvent(s) \/ DeleteResource(s)
    \/ RecWork \/ RecError
    \/ Crash \/ Restart

Spec == Init /\ [][Next]_vars

\* The work queue is first in, first out, so a name in it is taken although
\* another one comes back to it at every pass.
Fairness ==
    /\ \A t \in Handlers : WF_vars(HandlerStep(t))
    /\ WF_vars(SubStep)
    /\ \A s \in Slugs : SF_vars(RecTake(s))
    /\ WF_vars(RecWork)
    /\ WF_vars(Restart)

FairSpec == Spec /\ Fairness

---------------------------------------------------------------------------
(* Properties *)

HandlerPcs == {"idle", "write", "request", "wait", "ok", "failed", "writeFailed",
               "notify", "remove"}
RecPcs == {"idle", "namespace", "shared", "nkey", "register", "seal", "deploy", "finish"}
RowType     == [slug : Slugs \cup {NoId}, status : Statuses, here : BOOLEAN]
EntryType   == [id : Ids \cup {NoId}, status : Statuses]
HandlerType == [pc : HandlerPcs, id : Ids \cup {NoId}]
CRType      == [id : Ids \cup {NoId}, phase : Phases]
PassType    == [pc : RecPcs, slug : Slugs \cup {NoId}, id : Ids \cup {NoId},
                key : Keys \cup {0}, ok : BOOLEAN]

\* Types.  A handler holds a project exactly while it works on a request, and
\* the reconcile worker a resource exactly during a pass.
TypeOK ==
    /\ proj \in [Ids -> RowType]
    /\ \A i \in Ids : proj[i].status # "none" => proj[i].slug \in Slugs
    /\ kv \in [Slugs -> EntryType]
    /\ h \in [Handlers -> HandlerType]
    /\ \A t \in Handlers : h[t].pc = "idle" <=> h[t].id = NoId
    /\ queue \in Seq(Ids)
    /\ sub \in Ids \cup {NoId}
    /\ cr \in [Slugs -> CRType]
    /\ work \subseteq Slugs
    /\ rec \in PassType
    /\ (rec.pc = "idle") <=> (rec.id = NoId)
    /\ shared \subseteq SharedParts
    /\ deployed \subseteq Ids
    /\ secret \in [Ids -> Keys \cup {0}]
    /\ registered \in [Slugs -> Keys \cup {0}]
    /\ unseen \subseteq Ids /\ unannounced \subseteq Ids
    /\ up \in BOOLEAN /\ faults \in 0 .. MaxFaults

\* A project announced as Ready can run: its namespace, objects, volumes and
\* deployment exist, and the key mounted into its agent is the one the control
\* plane knows, unless a pass did not see the secret that was there: whatever
\* calls failed, whatever answer was lost between the registration of a key and
\* the creation of its secret, and whichever project had the name before
\* (Reconcile, reconcileAgentNKey, handleAgentRegister).
ReadyMeansRunnable ==
    \A s \in Slugs :
        cr[s].phase = "Ready" =>
            /\ cr[s].id \in deployed
            /\ shared = SharedParts
            /\ secret[cr[s].id] # 0
            /\ registered[s] = secret[cr[s].id] \/ cr[s].id \in unseen

\* A requested resource becomes Ready, or it is deleted, or registration refuses
\* the project, or its phase Ready could not be written: all other failed steps
\* are tried again, also those that leave the phase as it is (RequeueAfter in
\* Reconcile).
EventuallyReady ==
    \A s \in Slugs : []<>(\/ cr[s].id = NoId \/ cr[s].phase = "Ready"
                          \/ ~Assigned(s) \/ cr[s].id \in unannounced)

(* Four properties that do not hold.  What the architecture document says of  *)
(* the key (spec-k8s-architecture.md:111, "skips the NATS registration call   *)
(* if the Secret already exists"): the agent of a Ready project has the key   *)
(* the control plane knows.                                                   *)
ReadyCanAuthenticate ==
    \A s \in Slugs : cr[s].phase = "Ready" => registered[s] = secret[cr[s].id]

\* nats_subscriber.go:134 ("creates an MCProject CR for the provisioning request,
\* then polls until the CR reaches Ready phase before replying success"): a create
\* that is told of success has a resource of its own, and it is Ready.
CreatedIsProvisioned ==
    [][\A t \in Handlers : At(t, "wait") /\ h'[t].pc = "ok" =>
            cr[Slug(h[t].id)].id = h[t].id]_vars

\* projects.go:239 ("mark project status='failed' and update KV"): the entry of a
\* project whose create is over shows the status of its row.
Creating(i) ==
    \E t \in Handlers :
        h[t].id = i /\ h[t].pc \in {"write", "request", "wait", "ok", "failed", "writeFailed"}

EntryAgrees ==
    \A i \in Ids :
        Live(i) /\ kv[Slug(i)].id = i /\ ~Creating(i) => kv[Slug(i)].status = proj[i].status

\* The resource of a project that stays becomes Ready, whatever host the row
\* got and although the update of the phase may fail.
RequestedBecomesReady ==
    \A s \in Slugs : []<>(\/ cr[s].id = NoId \/ cr[s].phase = "Ready"
                          \/ \A i \in Ids : Live(i) => Slug(i) # s)

\* What the control plane may rely on: see Provisioner.
AllParts == SharedParts \cup {"deployment", "key"}

Owner == [s \in Slugs |-> cr[s].id]
Phase == [s \in Slugs |-> cr[s].phase]
Done  == [i \in Ids |-> shared \cup (IF i \in deployed THEN {"deployment"} ELSE {})
                               \cup (IF secret[i] # 0 THEN {"key"} ELSE {})]

Abstract == INSTANCE Provisioner WITH
    Parts <- AllParts, owner <- Owner, phase <- Phase, done <- Done

\* The reconciler with its retries, the callback, the crashes and the deletes
\* behave like the abstract provisioner: a resource is announced as Ready only
\* when every part is in place, and parts and phases never move back.
ImplementsProvisioner == Abstract!Spec
================================================================================
