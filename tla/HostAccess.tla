------------------------------- MODULE HostAccess -------------------------------
(***************************************************************************)
(* Who may reach the broker for one host: the control plane's handlers for *)
(* registering, granting, revoking, rekeying and removing the host         *)
(* (lifecycle.go, hosts.go), the revocation list it keeps in memory and    *)
(* sends to the broker, and the challenge-response by which controllers    *)
(* and agents fetch JWTs (challenge.go, hostauth, agent_auth.go).          *)
(*                                                                         *)
(* Each NATS subject has a goroutine of its own: handlers of different     *)
(* subjects interleave, handlers of one subject do not.                    *)
(*                                                                         *)
(* Of the JWTs of a key only the newest matters, as clients keep no other. *)
(* An entry of a revocation list is a time; the lists here hold the keys   *)
(* whose entry covers the newest JWT, so a new JWT leaves every list.  The *)
(* clock is taken to move between a revocation and the next JWT.           *)
(*                                                                         *)
(* A user's JWT is signed from a list of hosts read before; one such       *)
(* request of a user is under way at a time.  Users get JWTs by login, by  *)
(* /auth/refresh and by the exchange, which read the same list: the        *)
(* exchange is a login here.                                               *)
(*                                                                         *)
(* Users are the users other than the owner, each with one project on the  *)
(* host and one agent key.  Bounds: MaxOps commands of people, MaxFaults   *)
(* of expiries, failed revocations and restarts of the control plane.      *)
(***************************************************************************)
EXTENDS Naturals, FiniteSets

CONSTANTS HostKeys, Users, MaxOps, MaxFaults

ASSUME BoundsAssumption == MaxOps \in Nat /\ MaxFaults \in Nat

VARIABLES
    host,       \* the row of the host: its id, 0 when there is none, and key
    access,     \* host_access: users with access
    projects,   \* users whose project on the host exists
    cred,       \* agent_credentials: users with an agent key for the host
    held,       \* keys whose newest JWT has not expired
    scope,      \* users whose newest JWT names the host
    chal,       \* keys with a challenge in the store
    read,       \* the hosts that the request that will sign a user's JWT has read
    served,     \* the revocation list of the broker
    cache,      \* accountJWTCache: the list the control plane builds on
    job,        \* the handler of each manage subject
    reg,        \* users whose agent key is being registered: access was checked
    code,       \* the device code: [st, key]
    ops, faults,
    disturbed,  \* a revocation overlapped another, failed or was forgotten
    stale,      \* users whose newest JWT was signed from a list that had changed
    banned      \* manage.revoke was accepted for the key in the row

rowVars  == <<host, access, projects, banned>>
jwtVars  == <<held, scope, stale, read>>
listVars == <<served, cache, job, disturbed>>
vars     == <<rowVars, cred, jwtVars, chal, listVars, reg, code, ops, faults>>

NoKey == "no key"
NoRow == [id |-> 0, key |-> NoKey]

UserKey(u)  == <<"user", u>>
AgentKey(u) == <<"agent", u>>
Keys == HostKeys \cup {UserKey(u) : u \in Users} \cup {AgentKey(u) : u \in Users}

ASSUME KeysAssumption ==
    HostKeys # {} /\ \A u \in Users : UserKey(u) \notin HostKeys /\ AgentKey(u) \notin HostKeys

Handlers == {"grant", "revokeAccess", "deregister", "revoke", "rekey"}
Idle == [pc |-> "idle", id |-> 0, arg |-> NoKey, keys |-> {}, then |-> "idle", copy |-> {}]

NoCode == [st |-> "none", key |-> NoKey]

\* The key of a host that is registered already: keys differ in name only.
OldKey == CHOOSE k \in HostKeys : TRUE

Init ==
    /\ host \in {NoRow, [id |-> 1, key |-> OldKey]}
    /\ access = {} /\ projects = Users /\ cred = {}
    /\ held = {} /\ scope = {} /\ chal = {} /\ read = [u \in Users |-> "none"]
    /\ served = {} /\ cache = {}
    /\ job = [h \in Handlers |-> Idle]
    /\ reg = {} /\ code = NoCode
    /\ ops = 0 /\ faults = 0 /\ disturbed = FALSE /\ stale = {} /\ banned = FALSE

Op    == ops < MaxOps /\ ops' = ops + 1
Fault == faults < MaxFaults /\ faults' = faults + 1

Registered == host.id # 0

\* A JWT is signed: no entry made so far covers it.
Issue(k) ==
    /\ held' = held \cup {k}
    /\ served' = served \ {k} /\ cache' = cache \ {k}
    /\ job' = [h \in Handlers |-> [job[h] EXCEPT !.copy = @ \ {k}]]

---------------------------------------------------------------------------
(* The row of the host *)

Upsert(k) == /\ host' = [id |-> IF Registered THEN host.id ELSE ops + 1, key |-> k]
             /\ banned' = FALSE /\ UNCHANGED <<access, projects>>

DropRowMutant == host' = NoRow /\ projects' = {} /\ banned' = FALSE /\ UNCHANGED access

\* The row goes, and by the foreign keys what refers to it.
DropRow == host' = NoRow /\ access' = {} /\ projects' = {} /\ banned' = FALSE

HandleNATSHostRegister(k) ==
    /\ Op /\ Upsert(k)
    /\ UNCHANGED <<cred, jwtVars, chal, listVars, reg, code, faults>>

\* A slug in use is a conflict.
HandleCreateHost(k) ==
    /\ ~Registered /\ Op /\ Upsert(k) /\ Issue(k)
    /\ UNCHANGED <<cred, scope, stale, read, chal, disturbed, reg, code, faults>>

\* Nothing is revoked; the agents' keys stay.
HandleDeleteHost ==
    /\ Registered /\ Op /\ DropRow
    /\ UNCHANGED <<cred, jwtVars, chal, listVars, reg, code, faults>>

HandleHostCodeCreate(k) ==
    /\ code = NoCode                        \* bound: one code
    /\ Op /\ code' = [st |-> "pending", key |-> k]
    /\ UNCHANGED <<rowVars, cred, jwtVars, chal, listVars, reg, faults>>

\* The code is checked under its lock, the row is written after it.
HandleHostRegister ==
    /\ code.st = "pending" /\ code' = [code EXCEPT !.st = "checked"]
    /\ UNCHANGED <<rowVars, cred, jwtVars, chal, listVars, reg, ops, faults>>

CompleteHostRegister ==
    /\ code.st = "checked" /\ code' = [NoCode EXCEPT !.st = "completed"]
    /\ Upsert(code.key) /\ Issue(code.key)
    /\ UNCHANGED <<cred, scope, stale, read, chal, disturbed, reg, ops, faults>>

---------------------------------------------------------------------------
(* Commands on the manage subjects *)

AfterKeys(j) == [j EXCEPT !.pc = IF j.keys = {} THEN j.then ELSE "keys"]

Begin(h, j) == /\ job[h].pc = "idle" /\ Registered /\ Op
               /\ job' = [job EXCEPT ![h] = AfterKeys(j)]
               /\ UNCHANGED <<cred, jwtVars, chal, served, cache, disturbed, reg, code, faults>>

HandleManageGrantMutant(u) ==
    /\ Begin("grant", Idle)
    /\ access' = access \cup {u} /\ UNCHANGED <<host, projects, banned>>

HandleManageGrant(u) ==
    /\ Begin("grant", [Idle EXCEPT !.keys = {UserKey(u)}])
    /\ access' = access \cup {u} /\ UNCHANGED <<host, projects, banned>>

HandleManageRevokeAccess(u) ==
    /\ Begin("revokeAccess", [Idle EXCEPT !.then = "creds", !.arg = u])
    /\ access' = access \ {u} /\ UNCHANGED <<host, projects, banned>>

HandleManageDeregister ==
    /\ Begin("deregister", [Idle EXCEPT !.keys = {host.key}, !.then = "creds", !.id = host.id])
    /\ UNCHANGED rowVars

HandleManageRevoke ==
    /\ Begin("revoke", [Idle EXCEPT !.keys = {host.key}, !.then = "creds"])
    /\ banned' = TRUE /\ UNCHANGED <<host, access, projects>>

HandleManageRekey(k) ==
    /\ Begin("rekey", [Idle EXCEPT !.keys = {host.key}, !.then = "store key",
                                   !.id = host.id, !.arg = k])
    /\ UNCHANGED rowVars

Step(h, from, j) == job[h].pc = from /\ job' = [job EXCEPT ![h] = j]

\* The keys of the agents: of one user, or of all users of the host.
TakeCreds(h) ==
    /\ LET whose == IF h = "revokeAccess" THEN cred \cap {job[h].arg} ELSE cred
           next  == [revokeAccess |-> "user", revoke |-> "idle", deregister |-> "delete creds"]
       IN Step(h, "creds", AfterKeys([job[h] EXCEPT !.keys = {AgentKey(u) : u \in whose},
                                                    !.then = next[h]]))
    /\ UNCHANGED <<rowVars, cred, jwtVars, chal, served, cache, disturbed, reg, code, ops, faults>>

TakeUser(h) ==
    /\ Step(h, "user", [Idle EXCEPT !.pc = "keys", !.keys = {UserKey(job[h].arg)}])
    /\ UNCHANGED <<rowVars, cred, jwtVars, chal, served, cache, disturbed, reg, code, ops, faults>>

DeleteCreds(h) ==
    /\ Step(h, "delete creds", [job[h] EXCEPT !.pc = "delete row"]) /\ cred' = {}
    /\ UNCHANGED <<rowVars, jwtVars, chal, served, cache, disturbed, reg, code, ops, faults>>

DeleteRow(h) ==
    /\ Step(h, "delete row", Idle)
    /\ IF host.id = job[h].id THEN DropRow ELSE UNCHANGED rowVars
    /\ UNCHANGED <<cred, jwtVars, chal, served, cache, disturbed, reg, code, ops, faults>>

StoreKey(h) ==
    /\ Step(h, "store key", Idle)
    /\ host' = IF host.id = job[h].id THEN [host EXCEPT !.key = job[h].arg] ELSE host
    /\ banned' = (banned /\ host.id # job[h].id)
    /\ UNCHANGED <<access, projects, cred, jwtVars, chal, served, cache, disturbed, reg, code, ops, faults>>

---------------------------------------------------------------------------
(* revokeNKeyJWT *)

\* Errors are ignored by every caller: the next key is taken.
Onward(j) == IF j.keys = {} /\ j.then = "idle" THEN Idle ELSE [AfterKeys(j) EXCEPT !.copy = {}]

Between(h) == job[h].pc \in {"publish", "cache"}

RevokeRead(h) ==
    /\ \E k \in job[h].keys :
        Step(h, "keys", [job[h] EXCEPT !.pc = "publish", !.keys = @ \ {k},
                                       !.copy = cache \cup ({k} \cap held)])
    /\ disturbed' = (disturbed \/ \E g \in Handlers : Between(g))
    /\ UNCHANGED <<rowVars, cred, jwtVars, chal, served, cache, reg, code, ops, faults>>

RevokePublish(h) ==
    /\ Step(h, "publish", [job[h] EXCEPT !.pc = "cache"])
    /\ served' = job[h].copy
    /\ UNCHANGED <<rowVars, cred, jwtVars, chal, cache, disturbed, reg, code, ops, faults>>

RevokeCacheMutant(h) ==
    /\ Step(h, "cache", Onward(job[h]))
    /\ UNCHANGED <<rowVars, cred, jwtVars, chal, served, cache, disturbed, reg, code, ops, faults>>

RevokeCache(h) ==
    /\ Step(h, "cache", Onward(job[h]))
    /\ cache' = job[h].copy
    /\ UNCHANGED <<rowVars, cred, jwtVars, chal, served, disturbed, reg, code, ops, faults>>

\* No connection, an error, or an answer that comes too late.
RevokeFails(h) ==
    /\ Fault /\ Step(h, "publish", Onward(job[h]))
    /\ served' \in {served, job[h].copy}
    /\ disturbed' = TRUE
    /\ UNCHANGED <<rowVars, cred, jwtVars, chal, cache, reg, code, ops>>

---------------------------------------------------------------------------
(* Agents' keys, challenges and JWTs *)

\* The hosts of a user other than the owner: those of host_access.
HasAccess(u) == Registered /\ u \in access

HandleAgentRegister(u) ==
    /\ reg = {} /\ HasAccess(u) /\ u \in projects \ cred
    /\ reg' = {u}
    /\ UNCHANGED <<rowVars, cred, jwtVars, chal, listVars, code, ops, faults>>

UpsertAgentCredential(u) ==
    /\ u \in reg
    /\ reg' = {} /\ cred' = cred \cup {u}
    /\ UNCHANGED <<rowVars, jwtVars, chal, listVars, code, ops, faults>>

IsNKeyRegistered(k) == k = host.key \/ \E u \in cred : k = AgentKey(u)

HandleAuthChallenge(k) ==
    /\ IsNKeyRegistered(k) /\ k \notin chal
    /\ chal' = chal \cup {k}
    /\ UNCHANGED <<rowVars, cred, jwtVars, listVars, reg, code, ops, faults>>

\* What is signed: controllers decode the challenge, agents sign its text.
Signed(k) == IF k \in HostKeys THEN "nonce" ELSE "text"

\* A slip: no new JWT while the last one has not run out.
HandleAuthVerifyMutant(k) ==
    /\ k \in chal /\ Signed(k) = "nonce" /\ IsNKeyRegistered(k)
    /\ IF k \in held THEN UNCHANGED <<held, served, cache, job>> ELSE Issue(k)
    /\ UNCHANGED <<rowVars, cred, scope, stale, read, chal, disturbed, reg, code, ops, faults>>

\* The signature is checked against the nonce.  The challenge stays in the store:
\* its Used flag is set and refuses nobody, so it serves until it expires or the
\* key asks for another one.  A client that is refused starts again.
HandleAuthVerify(k) ==
    /\ k \in chal /\ Signed(k) = "nonce" /\ IsNKeyRegistered(k)
    /\ Issue(k)
    /\ UNCHANGED <<rowVars, cred, scope, stale, read, chal, disturbed, reg, code, ops, faults>>

Usable(k) == k \in held \ served

\* The list of the user's hosts, as it is now.
ReadHosts(u) ==
    /\ read[u] = "none"
    /\ read' = [read EXCEPT ![u] = IF HasAccess(u) THEN "host" ELSE "plain"]
    /\ UNCHANGED <<rowVars, cred, held, scope, stale, chal, listVars, reg, code, ops, faults>>

\* A user without a usable JWT logs in again.
HandleLogin(u) == ~Usable(UserKey(u)) /\ ReadHosts(u)

HandleRefreshMutant(u) ==
    /\ UserKey(u) \in held /\ read[u] = "none"
    /\ read' = [read EXCEPT ![u] = IF u \in scope THEN "host" ELSE "plain"]
    /\ UNCHANGED <<rowVars, cred, held, scope, stale, chal, listVars, reg, code, ops, faults>>

\* Clients refresh on a timer.  A JWT that the broker refuses will do.
HandleRefresh(u) == UserKey(u) \in held /\ ReadHosts(u)

\* The user's JWT is signed and names the hosts of the list.
IssueUserJWT(u) ==
    /\ read[u] # "none" /\ read' = [read EXCEPT ![u] = "none"]
    /\ Issue(UserKey(u))
    /\ scope' = IF read[u] = "host" THEN scope \cup {u} ELSE scope \ {u}
    /\ stale' = IF HasAccess(u) = (read[u] = "host") THEN stale \ {u} ELSE stale \cup {u}
    /\ UNCHANGED <<rowVars, cred, chal, disturbed, reg, code, ops, faults>>

---------------------------------------------------------------------------
(* Faults *)

\* By the time a JWT runs out every challenge has.
Expire(k) ==
    /\ Fault /\ k \in held /\ chal' = {}
    /\ held' = held \ {k} /\ served' = served \ {k} /\ cache' = cache \ {k}
    /\ job' = [h \in Handlers |-> [job[h] EXCEPT !.copy = @ \ {k}]]
    /\ UNCHANGED <<rowVars, cred, scope, stale, read, disturbed, reg, code, ops>>

\* The control plane starts over with the account JWT of its deployment.
Restart ==
    /\ Fault
    /\ cache' = {} /\ chal' = {} /\ code' = NoCode
    /\ job' = [h \in Handlers |-> Idle] /\ reg' = {} /\ read' = [u \in Users |-> "none"]
    /\ disturbed' = TRUE
    /\ UNCHANGED <<rowVars, cred, held, scope, stale, served, ops>>

---------------------------------------------------------------------------

JobStep(h) == \/ TakeCreds(h) \/ TakeUser(h) \/ DeleteCreds(h) \/ DeleteRow(h) \/ StoreKey(h)
              \/ RevokeRead(h) \/ RevokePublish(h) \/ RevokeCache(h) \/ RevokeFails(h)

AuthStep(k) == HandleAuthChallenge(k) \/ HandleAuthVerify(k)

UserStep(u) == HandleLogin(u) \/ HandleRefresh(u) \/ IssueUserJWT(u)

Next ==
    \/ \E k \in HostKeys : \/ HandleNATSHostRegister(k) \/ HandleCreateHost(k)
                           \/ HandleHostCodeCreate(k) \/ HandleManageRekey(k)
    \/ HandleDeleteHost \/ HandleHostRegister \/ CompleteHostRegister
    \/ HandleManageDeregister \/ HandleManageRevoke
    \/ \E u \in Users : \/ HandleManageGrant(u) \/ HandleManageRevokeAccess(u)
                        \/ HandleAgentRegister(u) \/ UpsertAgentCredential(u) \/ UserStep(u)
                        \/ AuthStep(AgentKey(u))
    \/ \E h \in Handlers : JobStep(h)
    \/ \E k \in HostKeys : AuthStep(k)
    \/ \E k \in Keys : Expire(k)
    \/ Restart

Spec == Init /\ [][Next]_vars

(* Handlers run to their end; controllers repeat the exchange and users'
   clients the refresh on a timer; a user whose JWT is refused or has run out
   logs in again. *)
FairSpec ==
    /\ Spec
    /\ WF_vars(\E h \in Handlers : JobStep(h))
    /\ \A k \in HostKeys : WF_vars(AuthStep(k))
    /\ \A u \in Users : WF_vars(UserStep(u))

(* Agents too repeat the exchange on a timer. *)
AgentFairSpec == FairSpec /\ \A u \in Users : WF_vars(AuthStep(AgentKey(u)))

---------------------------------------------------------------------------

JobType == [pc : {"idle", "keys", "publish", "cache", "creds", "user", "delete creds",
                  "delete row", "store key"},
            id : 0 .. MaxOps + 1, arg : HostKeys \cup Users \cup {NoKey}, keys : SUBSET Keys,
            then : {"idle", "creds", "user", "delete creds", "store key"}, copy : SUBSET Keys]

\* The types; a row has a key and without the row nobody has access; a list
\* covers only JWTs that exist.
TypeOK ==
    /\ host \in [id : 0 .. MaxOps + 1, key : HostKeys \cup {NoKey}]
    /\ access \subseteq Users /\ projects \subseteq Users
    /\ cred \subseteq Users /\ scope \subseteq Users /\ reg \subseteq Users
    /\ held \subseteq Keys /\ chal \subseteq Keys /\ read \in [Users -> {"none", "plain", "host"}]
    /\ stale \subseteq Users /\ banned \in BOOLEAN
    /\ served \subseteq held /\ cache \subseteq held
    /\ job \in [Handlers -> JobType] /\ \A h \in Handlers : job[h].copy \subseteq held
    /\ code \in [st : {"none", "pending", "checked", "completed"}, key : HostKeys \cup {NoKey}]
    /\ ops \in 0 .. MaxOps /\ faults \in 0 .. MaxFaults /\ disturbed \in BOOLEAN
    /\ IF host.id = 0 THEN access = {} ELSE host.key \in HostKeys

\* revokeNKeyJWT (lifecycle.go:870, 934, 960): the list it publishes replaces
\* the broker's, so it must hold every revocation made before.  It does as long
\* as revocations neither overlap nor fail and the control plane is not
\* restarted; the cache is what carries them from one handler to the next.
NoRevocationLost ==
    disturbed \/ \A h \in Handlers : job[h].pc = "publish" => served \subseteq job[h].copy

\* handleManageGrant (lifecycle.go:370, 376): once its handler has ended, a JWT
\* the broker still accepts from a user with access names the host, so that the
\* user reconnects with the new list.  Exempt are a disturbed revocation and a
\* request that read the list before the grant and signed after its revocation.
GrantTakesEffect ==
    \A u \in access : Usable(UserKey(u)) /\ job["grant"].pc = "idle" =>
        u \in scope \/ u \in stale \/ disturbed

\* handleRefresh (auth.go:223): in those cases too the user ends up with a JWT
\* that names the host, unless access is taken away again.
GrantSeen == \A u \in Users : (u \in access) ~> (u \in scope \/ u \notin access)

\* HostAuth.Refresh and handleAuthVerify (host_auth.go:141, challenge.go:242):
\* the controller of a registered host whose key was not revoked by its owner gets
\* a usable JWT again, after an expiry, a rekey, a registration of an old key or a
\* restart of the control plane.
HostGetsIn == Registered ~> (~Registered \/ Usable(host.key) \/ banned)

\* issueJWTForNKey (challenge.go:244): "if host NKey is in the revocation list,
\* return FORBIDDEN", so that an emergency revocation holds until the host is
\* registered with another key.
RevokedStaysOut ==
    banned /\ ~disturbed /\ job["revoke"].pc = "idle" => ~Usable(host.key)

\* AgentAuth.Authenticate (agent_auth.go:86): an agent whose key the controller
\* registered gets a JWT.
AgentGetsIn ==
    \A u \in Users : (u \in cred) ~> (AgentKey(u) \in held \/ u \notin cred)
================================================================================
