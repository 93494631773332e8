---------------------------- MODULE ObjectTransfers ----------------------------
(***************************************************************************)
(* Binary data of the projects of one user: session imports by the CLI     *)
(* (cmd/import.go), attachments uploaded by the browser and by the agent   *)
(* (attachment.go), the control plane's handlers that sign URLs and keep   *)
(* the rows (attachments.go), and the object store (s3.go), which a        *)
(* project delete sweeps (project_http.go).                                *)
(*                                                                         *)
(* A client runs one operation: an import, an upload or a delete.  Its     *)
(* record holds both its own progress and that of the handler serving it.  *)
(* NATS handlers of one subject run one at a time, HTTP handlers do not.   *)
(* An object's key is its project's slug, the client it came from, the     *)
(* number of the URL (0 for an import archive) and the host.  The store    *)
(* lists keys in the order of Place.  Bound: MaxFaults errors of requests, *)
(* the database and the object store.                                      *)
(***************************************************************************)
EXTENDS Naturals, FiniteSets

CONSTANTS
    Clients, Slugs, MaxFaults,
    Hosts,
    DefaultHost,  \* the user's host called local, or the first
    Place         \* where the ids drawn for a client's objects sort

\* Ids that the requests bring are none of the values that stand for no id.
ASSUME TransfersAssumption ==
    /\ MaxFaults \in Nat
    /\ Clients \cap {"none", "first"} = {}
    /\ DefaultHost \in Hosts
    /\ Place \in [Clients \X (0 .. 2) -> Nat \ {0}]

VARIABLES
    proj,    \* per slug: the row of the project, with its import_ref
    kv,      \* per slug: the project's entry in KV, which no delete removes
    atts,    \* the rows of attachments
    s3,      \* keys of the objects stored
    agent,   \* per slug: the agent, and the import it found when it started
    t,       \* per client: its transfer
    swept,   \* keys of the objects removed by deletes
    faults

vars == <<proj, kv, atts, s3, agent, t, swept, faults>>

NoProject == [gen |-> "none", ref |-> "none"]
Nobody    == "none"
Transfer(p, s, n, h) ==
    [pc |-> p, slug |-> s, n |-> n, host |-> h, told |-> "waiting",
     cursor |-> 0, keys |-> {}, before |-> {}, kept |-> {}]
Idle == Transfer("idle", Nobody, 0, DefaultHost)

Key(s, c, n, h) == <<s, c, n, h>>
Archive(c)      == Key(t[c].slug, c, 0, t[c].host)
Attachment(c)   == Key(t[c].slug, c, t[c].n, DefaultHost)

\* A user without projects, or with one made in the ordinary way.
Init ==
    /\ proj \in [Slugs -> {NoProject, [gen |-> "first", ref |-> Nobody]}]
    /\ kv = [s \in Slugs |-> NoProject]
    /\ atts = {} /\ s3 = {} /\ swept = {} /\ faults = 0
    /\ agent = [s \in Slugs |-> "none"]
    /\ t = [c \in Clients |-> Idle]

Fault    == faults < MaxFaults /\ faults' = faults + 1
At(c, p) == t[c].pc = p
Go(c, p) == t' = [t EXCEPT ![c].pc = p]
Told(c, result) == IF t[c].told = "waiting" THEN result ELSE t[c].told
End(c, result)  == t' = [t EXCEPT ![c].pc = "end", ![c].told = Told(c, result)]

Begin(c, p, s, h) == At(c, "idle") /\ t' = [t EXCEPT ![c] = Transfer(p, s, 0, h)]

Stored(k)  == k \in s3
Objects(s) == {k \in s3 : k[1] = s}

\* Under {user}/{host}/{slug}/, with the host of the row: that of the request
\* is not asked for when a row is made.
UnderPrefix(k) == k[4] = DefaultHost
KeyPlace(k)    == Place[<<k[2], k[3]>>]
Put(k) == s3' = s3 \cup {k}

---------------------------------------------------------------------------
(* mclaude import *)

\* Sessions were found in the directory; its name gives the slug, and the
\* host is that of the command line or of the login.
RunImport(c, s, h) ==
    /\ Begin(c, "check", s, h)
    /\ UNCHANGED <<proj, kv, atts, s3, agent, swept, faults>>

CheckSlug(c) ==
    /\ At(c, "check")
    /\ Go(c, IF proj[t[c].slug] = NoProject THEN "package" ELSE "prompt")
    /\ UNCHANGED <<proj, kv, atts, s3, agent, swept, faults>>

\* The user types another name, or none, which ends the import.
PromptProjectName(c) ==
    /\ At(c, "prompt")
    /\ \/ \E s \in Slugs : t' = [t EXCEPT ![c].pc = "check", ![c].slug = s]
       \/ End(c, "failed")
    /\ UNCHANGED <<proj, kv, atts, s3, agent, swept, faults>>

BuildArchive(c) ==
    /\ At(c, "package") /\ Go(c, "request")
    /\ UNCHANGED <<proj, kv, atts, s3, agent, swept, faults>>

\* No row is read or written; an archive above the limit is refused.
HandleImportRequest(c) ==
    /\ At(c, "request") /\ (Go(c, "put") \/ End(c, "failed"))
    /\ UNCHANGED <<proj, kv, atts, s3, agent, swept, faults>>

UploadToS3(c) ==
    /\ At(c, "put") /\ Put(Archive(c)) /\ Go(c, "confirm")
    /\ UNCHANGED <<proj, kv, atts, agent, swept, faults>>

InConfirm == {"insert", "ref", "kv"}

HandleImportConfirm(c) ==
    /\ At(c, "confirm")
    /\ ~\E d \in Clients : t[d].pc \in InConfirm
    /\ IF Stored(Archive(c)) THEN Go(c, "insert") ELSE End(c, "failed")
    /\ UNCHANGED <<proj, kv, atts, s3, agent, swept, faults>>

CreateProjectMutant(c) ==
    /\ At(c, "insert") /\ proj[t[c].slug] = NoProject
    /\ proj' = [proj EXCEPT ![t[c].slug] = [gen |-> c, ref |-> Nobody]]
    /\ Go(c, "ref")
    /\ UNCHANGED <<kv, atts, s3, agent, swept, faults>>

\* A second row for the slug breaks the unique index.
CreateProject(c) ==
    /\ At(c, "insert")
    /\ IF proj[t[c].slug] = NoProject
       THEN /\ proj' = [proj EXCEPT ![t[c].slug] = [gen |-> c, ref |-> Nobody]]
            /\ Go(c, "ref")
       ELSE End(c, "failed") /\ UNCHANGED proj
    /\ UNCHANGED <<kv, atts, s3, agent, swept, faults>>

SetProjectImportRef(c) ==
    /\ At(c, "ref") /\ Go(c, "kv")
    /\ proj' = IF proj[t[c].slug].gen = c THEN [proj EXCEPT ![t[c].slug].ref = c] ELSE proj
    /\ UNCHANGED <<kv, atts, s3, agent, swept, faults>>

\* The entry has no import_ref.  The reply goes out, then the request to the host.
WriteProjectKV(c) ==
    /\ At(c, "kv")
    /\ kv' = [kv EXCEPT ![t[c].slug] = [gen |-> c, ref |-> Nobody]]
    /\ t' = [t EXCEPT ![c].pc = "provision", ![c].told = Told(c, "ok")]
    /\ UNCHANGED <<proj, atts, s3, agent, swept, faults>>

\* Both writes after the row are best effort.
ConfirmSkips(c) ==
    /\ Fault
    /\ \/ At(c, "ref") /\ Go(c, "kv")
       \/ /\ At(c, "kv")
          /\ t' = [t EXCEPT ![c].pc = "provision", ![c].told = Told(c, "ok")]
    /\ UNCHANGED <<proj, kv, atts, s3, agent, swept>>

\* The controller starts the project's agent.
Provision(c) ==
    /\ At(c, "provision") /\ End(c, "ok")
    /\ agent' = [agent EXCEPT ![t[c].slug] = "starting"]
    /\ UNCHANGED <<proj, kv, atts, s3, swept, faults>>

CheckImport(s) ==
    /\ agent[s] = "starting"
    /\ agent' = [agent EXCEPT ![s] = IF kv[s].ref = Nobody THEN "plain" ELSE kv[s].ref]
    /\ UNCHANGED <<proj, kv, atts, s3, t, swept, faults>>

\* The CLI's wait of ten seconds ends; the handler goes on.
ConfirmTimeout(c) ==
    /\ t[c].pc \in InConfirm \cup {"confirm"} /\ t[c].told = "waiting" /\ Fault
    /\ t' = [t EXCEPT ![c].told = "failed"]
    /\ UNCHANGED <<proj, kv, atts, s3, agent, swept>>

---------------------------------------------------------------------------
(* Attachments *)

Row(k) == {a \in atts : a.key = k}

ConfirmAttachment(k) ==
    atts' = (atts \ Row(k)) \cup {[a EXCEPT !.confirmed = TRUE] : a \in Row(k)}

\* What the HTTP API hands out download URLs for.
Served == {a.key : a \in {b \in atts : b.confirmed}}

\* The project is looked up and the row inserted: the foreign key looks again.
\* A request for another host than the row's is refused.
CreateAttachment(c, s, n) ==
    /\ proj[s] # NoProject
    /\ atts' = atts \cup {[key |-> Key(s, c, n, DefaultHost), proj |-> proj[s].gen,
                            confirmed |-> FALSE]}

HandleAttachmentUploadURL(c, s) ==
    /\ At(c, "idle") /\ CreateAttachment(c, s, 1)
    /\ t' = [t EXCEPT ![c] = Transfer("webput", s, 1, DefaultHost)]
    /\ UNCHANGED <<proj, kv, s3, agent, swept, faults>>

WebPut(c) ==
    /\ At(c, "webput") /\ Put(Attachment(c)) /\ Go(c, "head")
    /\ UNCHANGED <<proj, kv, atts, agent, swept, faults>>

\* The row is read and the store asked ...
HandleAttachmentConfirm(c) ==
    /\ At(c, "head")
    /\ IF Row(Attachment(c)) # {} /\ Stored(Attachment(c)) THEN Go(c, "mark") ELSE End(c, "failed")
    /\ UNCHANGED <<proj, kv, atts, s3, agent, swept, faults>>

\* ... and the row marked, if it is still there.  The user sends the reference.
MarkConfirmed(c) ==
    /\ At(c, "mark")
    /\ IF Row(Attachment(c)) # {} THEN Go(c, "sent") ELSE End(c, "failed")
    /\ ConfirmAttachment(Attachment(c))
    /\ UNCHANGED <<proj, kv, s3, agent, swept, faults>>

InDownload == {"fetch", "get", "refetch", "reget", "lost"}
Busy(s)    == \E c \in Clients : t[c].slug = s /\ t[c].pc \in InDownload

\* One consumer of the project's agent handles all input, one message at a time.
DispatchCmd(c) ==
    /\ At(c, "sent") /\ ~Busy(t[c].slug) /\ Go(c, "fetch")
    /\ UNCHANGED <<proj, kv, atts, s3, agent, swept, faults>>

\* The agent asks for a URL, which needs the row but not its confirmation.
HandleAttachmentDownload(c) ==
    /\ t[c].pc \in {"fetch", "refetch"}
    /\ IF Row(Attachment(c)) # {}
       THEN Go(c, IF At(c, "fetch") THEN "get" ELSE "reget")
       ELSE End(c, "dropped")
    /\ UNCHANGED <<proj, kv, atts, s3, agent, swept, faults>>

DownloadAttachment(c) ==
    /\ t[c].pc \in {"get", "reget"}
    /\ IF Stored(Attachment(c)) THEN End(c, "delivered")
       ELSE IF At(c, "get") THEN Go(c, "refetch") ELSE End(c, "dropped")
    /\ UNCHANGED <<proj, kv, atts, s3, agent, swept, faults>>

\* The handler cannot read the row, nobody listens, or the store errs.
DownloadFails(c) ==
    /\ t[c].pc \in {"fetch", "get", "refetch", "reget"} /\ Fault
    /\ IF At(c, "get") THEN Go(c, "refetch") ELSE End(c, "dropped")
    /\ UNCHANGED <<proj, kv, atts, s3, agent, swept>>

\* The request or its reply is lost: the agent waits without a deadline.
ReplyLost(c) ==
    /\ t[c].pc \in {"fetch", "refetch"} /\ Fault /\ Go(c, "lost")
    /\ UNCHANGED <<proj, kv, atts, s3, agent, swept>>

HandleNATSAttachmentUpload(c, s) ==
    /\ CreateAttachment(c, s, 1)
    /\ Begin(c, "agentput", s, DefaultHost) /\ UNCHANGED <<proj, kv, s3, agent, swept, faults>>

\* Which of the URLs an upload of the agent uses: the second after a retry.
Attempt(c) == Key(t[c].slug, c, t[c].n + 1, DefaultHost)

AgentPut(c) ==
    /\ At(c, "agentput") /\ Put(Attempt(c)) /\ Go(c, "agentconfirm")
    /\ UNCHANGED <<proj, kv, atts, agent, swept, faults>>

RetryUploadMutant(c) ==
    /\ At(c, "agentput") /\ Fault
    /\ IF t[c].n = 0 /\ proj[t[c].slug] # NoProject
       THEN /\ CreateAttachment(c, t[c].slug, 2) /\ Put(Key(t[c].slug, c, 2, DefaultHost))
            /\ Go(c, "agentconfirm")
       ELSE End(c, "failed") /\ UNCHANGED <<atts, s3>>
    /\ UNCHANGED <<proj, kv, agent, swept>>

\* A failed PUT is tried once more, with a new id and URL.
RetryUpload(c) ==
    /\ At(c, "agentput") /\ Fault
    /\ IF t[c].n = 0 /\ proj[t[c].slug] # NoProject
       THEN CreateAttachment(c, t[c].slug, 2) /\ t' = [t EXCEPT ![c].n = 1]
       ELSE End(c, "failed") /\ UNCHANGED atts
    /\ UNCHANGED <<proj, kv, s3, agent, swept>>

\* The store is not asked.
HandleNATSAttachmentConfirm(c) ==
    /\ At(c, "agentconfirm") /\ ConfirmAttachment(Attempt(c)) /\ End(c, "ok")
    /\ UNCHANGED <<proj, kv, s3, agent, swept, faults>>

\* The agent takes a confirmation that failed, or whose reply did, for one.
ConfirmFails(c) ==
    /\ At(c, "agentconfirm") /\ Fault /\ End(c, "ok")
    /\ ConfirmAttachment(Attempt(c)) \/ UNCHANGED atts
    /\ UNCHANGED <<proj, kv, s3, agent, swept>>

---------------------------------------------------------------------------
(* DELETE of a project *)

\* The row's host is told.  Its controller may find the agent and stop it.
HandleDeleteProject(c, s) ==
    /\ proj[s] # NoProject /\ Begin(c, "row", s, DefaultHost)
    /\ agent' \in {agent, [agent EXCEPT ![s] = "none"]}
    /\ UNCHANGED <<proj, kv, atts, s3, swept, faults>>

DeleteRowMutant(c) ==
    /\ At(c, "row")
    /\ IF proj[t[c].slug] = NoProject THEN End(c, "failed") /\ UNCHANGED proj
       ELSE /\ proj' = [proj EXCEPT ![t[c].slug] = NoProject]
            /\ t' = [t EXCEPT ![c].pc = "list", ![c].before = Objects(t[c].slug)]
    /\ UNCHANGED <<kv, atts, s3, agent, swept, faults>>

\* By user and slug, with the attachments' rows by foreign key.
DeleteRow(c) ==
    /\ At(c, "row")
    /\ IF proj[t[c].slug] = NoProject THEN End(c, "failed") /\ UNCHANGED <<proj, atts>>
       ELSE /\ proj' = [proj EXCEPT ![t[c].slug] = NoProject]
            /\ atts' = {a \in atts : a.key[1] # t[c].slug}
            /\ t' = [t EXCEPT ![c].pc = "list", ![c].before = Objects(t[c].slug)]
    /\ UNCHANGED <<kv, s3, agent, swept, faults>>

\* What the store has under the prefix beyond the continuation token.
Ahead(c) == {k \in Objects(t[c].slug) : UnderPrefix(k) /\ KeyPlace(k) > t[c].cursor}

S3ListObjectKeysMutant(c) ==
    /\ At(c, "list")
    /\ \/ Ahead(c) = {} /\ Go(c, "sweep")
       \/ \E last \in Ahead(c) :
             LET page == {k \in Ahead(c) : KeyPlace(k) <= KeyPlace(last)}
             IN  t' = [t EXCEPT ![c].pc = "sweep", ![c].keys = @ \cup page]
    /\ UNCHANGED <<proj, kv, atts, s3, agent, swept, faults>>

\* A page up to some key; the token is where it ends, if there is more.
S3ListObjectKeys(c) ==
    /\ At(c, "list")
    /\ \/ Ahead(c) = {} /\ Go(c, "sweep")
       \/ \E last \in Ahead(c) :
             LET page == {k \in Ahead(c) : KeyPlace(k) <= KeyPlace(last)}
             IN  t' = [t EXCEPT ![c].pc = IF page = Ahead(c) THEN "sweep" ELSE "list",
                                ![c].keys = @ \cup page, ![c].cursor = KeyPlace(last)]
    /\ UNCHANGED <<proj, kv, atts, s3, agent, swept, faults>>

\* A page that fails ends the sweep before it began.  The answer is 204.
ListFails(c) ==
    /\ At(c, "list") /\ Fault
    /\ t' = [t EXCEPT ![c].pc = "end", ![c].told = "ok", ![c].kept = Objects(t[c].slug)]
    /\ UNCHANGED <<proj, kv, atts, s3, agent, swept>>

S3DeleteObject(c) ==
    /\ At(c, "sweep")
    /\ \E k \in t[c].keys :
          /\ s3' = s3 \ {k} /\ swept' = swept \cup {k}
          /\ t' = [t EXCEPT ![c].keys = @ \ {k}]
    /\ UNCHANGED <<proj, kv, atts, agent, faults>>

\* An object that cannot be deleted is passed over.
S3DeletePrefix(c) ==
    /\ At(c, "sweep") /\ Fault
    /\ \E k \in t[c].keys : t' = [t EXCEPT ![c].keys = @ \ {k}, ![c].kept = @ \cup {k}]
    /\ UNCHANGED <<proj, kv, atts, s3, agent, swept>>

DeleteDone(c) ==
    /\ At(c, "sweep") /\ t[c].keys = {} /\ End(c, "ok")
    /\ UNCHANGED <<proj, kv, atts, s3, agent, swept, faults>>

---------------------------------------------------------------------------

\* A request, a query or a PUT of the client fails, and with it the transfer.
Fails(c) ==
    /\ t[c].pc \in {"check", "package", "request", "put", "confirm", "insert", "webput",
                    "head", "mark", "row", "provision"}
    /\ Fault /\ End(c, "failed")
    /\ UNCHANGED <<proj, kv, atts, s3, agent, swept>>

Step(c) ==
    \/ CheckSlug(c) \/ BuildArchive(c) \/ HandleImportRequest(c) \/ UploadToS3(c)
    \/ HandleImportConfirm(c) \/ CreateProject(c) \/ SetProjectImportRef(c)
    \/ WriteProjectKV(c) \/ Provision(c)
    \/ WebPut(c) \/ HandleAttachmentConfirm(c) \/ MarkConfirmed(c)
    \/ DispatchCmd(c) \/ HandleAttachmentDownload(c) \/ DownloadAttachment(c)
    \/ AgentPut(c) \/ HandleNATSAttachmentConfirm(c)
    \/ DeleteRow(c) \/ S3ListObjectKeys(c) \/ S3DeleteObject(c) \/ DeleteDone(c)

Start(c, s) ==
    \/ (\E h \in Hosts : RunImport(c, s, h)) \/ HandleAttachmentUploadURL(c, s)
    \/ HandleNATSAttachmentUpload(c, s) \/ HandleDeleteProject(c, s)

Next ==
    \/ \E c \in Clients :
          \/ Step(c) \/ PromptProjectName(c) \/ (\E s \in Slugs : Start(c, s))
          \/ ConfirmSkips(c) \/ ConfirmTimeout(c) \/ DownloadFails(c) \/ ReplyLost(c)
          \/ RetryUpload(c) \/ ConfirmFails(c) \/ ListFails(c) \/ S3DeletePrefix(c) \/ Fails(c)
    \/ \E s \in Slugs : CheckImport(s)

Spec == Init /\ [][Next]_vars

\* Clients and handlers keep going; what people start or type is up to them.
FairSpec ==
    /\ Spec
    /\ \A c \in Clients : WF_vars(Step(c))
    /\ \A s \in Slugs : WF_vars(CheckImport(s))

---------------------------------------------------------------------------

Gens     == Clients \cup {"none", "first"}
AllKeys  == Slugs \X Clients \X (0 .. 2) \X Hosts
PCs      == {"idle", "check", "prompt", "package", "request", "put", "confirm", "provision",
             "webput", "head", "mark", "sent", "agentput", "agentconfirm", "row", "list", "sweep",
             "end"} \cup InConfirm \cup InDownload
Results  == {"waiting", "ok", "failed", "delivered", "dropped"}

ProjectType  == [gen : Gens, ref : Clients \cup {Nobody}]
RowType      == [key : AllKeys, proj : Gens, confirmed : BOOLEAN]
TransferType ==
    [pc : PCs, slug : Slugs \cup {Nobody}, n : 0 .. 1, host : Hosts, told : Results, cursor : Nat,
     keys : SUBSET AllKeys, before : SUBSET AllKeys, kept : SUBSET AllKeys]

\* The rows, entries, objects and transfers have the shapes the code gives
\* them, and every attachment row belongs to the project there is.
TypeOK ==
    /\ proj \in [Slugs -> ProjectType]
    /\ kv \in [Slugs -> ProjectType]
    /\ atts \subseteq RowType
    /\ s3 \subseteq AllKeys /\ swept \subseteq AllKeys
    /\ agent \in [Slugs -> {"none", "starting", "plain"} \cup Clients]
    /\ t \in [Clients -> TransferType]
    /\ faults \in 0 .. MaxFaults
    /\ \A a \in atts : a.proj = proj[a.key[1]].gen /\ a.proj # "none"

\* What the database points at was stored: an attachment the HTTP API hands
\* out (attachments.go handleAttachmentGet) and the archive an import_ref
\* names are in the object store, or were until a project delete swept them.
\* The agent's confirmations are believed without asking the store.
NothingDangling ==
    /\ \A k \in Served : k \in s3 \cup swept
    /\ \A s \in Slugs : proj[s].ref \in Clients =>
          \E h \in Hosts : Key(s, proj[s].ref, 0, h) \in s3 \cup swept

Deleted(c) == t[c].pc = "end" /\ t[c].told = "ok"

\* A delete that has ended left none of the objects that the project had under
\* its row's host when the row went, whatever was stored while the pages of
\* the listing came in (project_http.go handleDeleteProjectHTTP), except those
\* whose own deletion failed: one such failure does not end the sweep (s3.go
\* s3DeletePrefix).  A page that fails leaves everything.
SweepComplete ==
    \A c \in Clients : Deleted(c) => {k \in t[c].before \cap s3 : UnderPrefix(k)} \subseteq t[c].kept

\* Who waits for an agent that waits for a lost reply, the agent included.
Stuck(c) ==
    /\ t[c].pc \in {"sent", "lost"}
    /\ \E d \in Clients : t[d].slug = t[c].slug /\ t[d].pc = "lost"

\* Every transfer ends, or waits for the user to type a name: whatever fails
\* or is deleted meanwhile, neither a client nor a handler is left waiting,
\* also not for the one confirmation or the one input handled at a time
\* (attachments.go handleNATSImportConfirm, agent.go dispatchCmd).  Only the
\* loss of a reply to the agent keeps input waiting, and only input.
TransfersEnd ==
    \A c \in Clients :
        t[c].pc \notin {"idle", "prompt", "end"} ~> (t[c].pc \in {"prompt", "end"} \/ Stuck(c))

\* An agent drops an attachment that it cannot download and goes on with its
\* input (attachment.go processInputAttachments).
DownloadsEnd ==
    \A c \in Clients : t[c].pc = "sent" ~> t[c].pc = "end"

\* Deleting a project removes all its import archives and attachments that the
\* store does not refuse to delete (project_http.go handleDeleteProjectHTTP).
DeletesEverything ==
    \A c \in Clients : Deleted(c) => t[c].before \cap s3 \subseteq t[c].kept

\* A project's import_ref is set only while its archive exists (db.go, the
\* field ImportRef of Project).
ImportRefHasArchive ==
    \A s \in Slugs : proj[s].ref \in Clients =>
        \E h \in Hosts : Key(s, proj[s].ref, 0, h) \in s3

\* An import reported as complete reaches the project's agent, unless the
\* project is deleted (RunImport, the last lines it prints).
ImportReachesAgent ==
    \A c \in Clients : (t[c].told = "ok" /\ t[c].slug \in Slugs /\ proj[t[c].slug].ref = c)
        ~> (t[c].slug \in Slugs /\ (agent[t[c].slug] = c \/ proj[t[c].slug].ref # c))
================================================================================
