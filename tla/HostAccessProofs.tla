---------------------------- MODULE HostAccessProofs ----------------------------
(***************************************************************************)
(* That the revocation lists published one after the other lose nothing,   *)
(* for any number of keys and users and any order of the handlers.         *)
(***************************************************************************)
EXTENDS HostAccess, TLAPS

\* What a handler will need later on was among its arguments.
ArgOK(h, j) ==
    /\ "creds" \in {j.pc, j.then} =>
          /\ h \in {"revokeAccess", "revoke", "deregister"}
          /\ h = "revokeAccess" => j.arg \in Users
    /\ "user" \in {j.pc, j.then} => j.arg \in Users
    /\ "store key" \in {j.pc, j.then} => j.arg \in HostKeys

JobOK(h, j) == j \in JobType /\ ArgOK(h, j)

ArgInv ==
    /\ \A h \in Handlers : ArgOK(h, job[h])
    /\ code.st \in {"pending", "checked"} => code.key \in HostKeys

\* One revocation at a time; its copy adds to the cache, which covers what the
\* broker has except while the handler that replaced it still has to store it.
ListInv ==
    disturbed \/
    /\ \A g, h \in Handlers : Between(g) /\ Between(h) => g = h
    /\ \A h \in Handlers : job[h].pc = "publish" => cache \subseteq job[h].copy
    /\ \A h \in Handlers : job[h].pc = "cache" => served \subseteq job[h].copy
    /\ (\A h \in Handlers : job[h].pc # "cache") => served \subseteq cache

IInv == TypeOK /\ ArgInv /\ ListInv

-----------------------------------------------------------------------------
(* The operators                                                           *)

\* A handler that does nothing.
LEMMA IdleOK == /\ \A h \in Handlers : JobOK(h, Idle)
                /\ Idle.copy = {} /\ Idle.pc = "idle"
<1>1. Idle \in JobType
  BY BoundsAssumption DEF Idle, JobType
<1>2. Idle.copy = {} /\ Idle.pc = "idle" /\ Idle.then = "idle"
  BY DEF Idle
<1> QED
  BY <1>1, <1>2 DEF JobOK, ArgOK

\* With no key left a handler goes on to what follows.
LEMMA AfterKeysOK ==
    ASSUME NEW h, NEW j, JobOK(h, j)
    PROVE  /\ JobOK(h, AfterKeys(j)) /\ AfterKeys(j).copy = j.copy
           /\ AfterKeys(j).pc \notin {"publish", "cache"}
<1> DEFINE x == IF j.keys = {} THEN j.then ELSE "keys"
           c == AfterKeys(j)
<1>1. x \in {"idle", "creds", "user", "delete creds", "store key", "keys"}
  BY DEF JobOK, JobType
<1>2. c = [j EXCEPT !.pc = x]
  BY DEF AfterKeys
<1>3. x = j.then \/ x = "keys"
  OBVIOUS
<1> HIDE DEF x, c
<1>4. /\ c \in JobType /\ c.pc = x /\ c.then = j.then
      /\ c.arg = j.arg /\ c.copy = j.copy
  BY <1>1, <1>2 DEF JobOK, JobType
<1>5. ArgOK(h, c)
  BY <1>3, <1>4 DEF JobOK, ArgOK
<1> QED
  BY <1>1, <1>4, <1>5 DEF JobOK, c

\* After a key, done or failed.
LEMMA OnwardOK ==
    ASSUME NEW h \in Handlers, NEW j, JobOK(h, j)
    PROVE  /\ JobOK(h, Onward(j)) /\ Onward(j).copy = {}
           /\ Onward(j).pc \notin {"publish", "cache"}
<1>1. CASE j.keys = {} /\ j.then = "idle"
  BY <1>1, IdleOK DEF Onward
<1>2. CASE ~(j.keys = {} /\ j.then = "idle")
  <2> DEFINE a == AfterKeys(j)
             c == [a EXCEPT !.copy = {}]
  <2>1. JobOK(h, a) /\ a.pc \notin {"publish", "cache"}
    BY AfterKeysOK
  <2>2. Onward(j) = c
    BY <1>2 DEF Onward
  <2> HIDE DEF a
  <2>3. /\ c \in JobType /\ c.copy = {}
        /\ c.pc = a.pc /\ c.then = a.then /\ c.arg = a.arg
    BY <2>1 DEF JobOK, JobType
  <2> HIDE DEF c
  <2> QED
    BY <2>1, <2>2, <2>3 DEF JobOK, ArgOK
<1> QED
  BY <1>1, <1>2

\* The key of a user, of an agent and of a host.
LEMMA KeysOK == /\ HostKeys \subseteq Keys
                /\ \A u \in Users : UserKey(u) \in Keys /\ AgentKey(u) \in Keys
  BY DEF Keys

\* A handler takes a step, outside revokeNKeyJWT.
LEMMA QuietStep ==
    ASSUME IInv, NEW h \in Handlers, NEW j, JobOK(h, j), j.copy \subseteq held,
           job[h].pc \notin {"publish", "cache"}, j.pc \notin {"publish", "cache"},
           job' = [job EXCEPT ![h] = j], UNCHANGED <<held, served, cache, disturbed, code>>
    PROVE  /\ job' \in [Handlers -> JobType] /\ \A g \in Handlers : job'[g].copy \subseteq held
           /\ ArgInv' /\ ListInv'
<1>1. \A g \in Handlers : job'[g] = IF g = h THEN j ELSE job[g]
  BY DEF IInv, TypeOK
<1>2. job' \in [Handlers -> JobType] /\ \A g \in Handlers : job'[g].copy \subseteq held
  BY <1>1 DEF IInv, TypeOK, JobOK
<1>3. ArgInv'
  BY <1>1 DEF IInv, ArgInv, JobOK
<1>4. ListInv'
  <2>1. \A g \in Handlers : /\ job'[g].pc \in {"publish", "cache"} => job'[g] = job[g]
                            /\ job[g].pc \in {"publish", "cache"} => job'[g] = job[g]
    BY <1>1
  <2> QED
    BY <2>1 DEF IInv, ListInv, Between
<1> QED
  BY <1>2, <1>3, <1>4

\* A JWT is issued or expires: its key leaves every list at once.
LEMMA KeyLeaves ==
    ASSUME IInv, NEW k \in Keys, held' \in {held \cup {k}, held \ {k}},
           served' = served \ {k}, cache' = cache \ {k},
           job' = [h \in Handlers |-> [job[h] EXCEPT !.copy = @ \ {k}]], UNCHANGED disturbed
    PROVE  /\ held' \subseteq Keys /\ served' \subseteq held' /\ cache' \subseteq held'
           /\ job' \in [Handlers -> JobType] /\ \A h \in Handlers : job'[h].copy \subseteq held'
           /\ \A h \in Handlers : ArgOK(h, job'[h])
           /\ ListInv'
<1>1. held' \subseteq Keys /\ served' \subseteq held' /\ cache' \subseteq held'
  BY DEF IInv, TypeOK
<1>2. \A h \in Handlers : job[h] \in JobType
  BY DEF IInv, TypeOK
<1>3. \A h \in Handlers :
         /\ job'[h] \in JobType /\ job'[h].copy = job[h].copy \ {k}
         /\ job'[h].pc = job[h].pc /\ job'[h].then = job[h].then /\ job'[h].arg = job[h].arg
  BY <1>2 DEF JobType
<1>4. job' \in [Handlers -> JobType] /\ \A h \in Handlers : job'[h].copy \subseteq held'
  BY <1>3 DEF IInv, TypeOK
<1>5. \A h \in Handlers : ArgOK(h, job'[h])
  BY <1>3 DEF IInv, ArgInv, ArgOK
<1>6. ListInv'
  BY <1>3 DEF IInv, ListInv, Between
<1> QED
  BY <1>1, <1>4, <1>5, <1>6

-----------------------------------------------------------------------------
(* The steps                                                               *)

\* Nothing is registered and nobody holds a JWT.
LEMMA InitInv == Init => IInv
<1> SUFFICES ASSUME Init PROVE IInv
  OBVIOUS
<1>1. \A h \in Handlers : JobOK(h, job[h]) /\ job[h].copy = {} /\ job[h].pc = "idle"
  BY IdleOK DEF Init
<1>2. job \in [Handlers -> JobType]
  BY <1>1 DEF Init, JobOK
<1>3. /\ host \in [id : 0 .. MaxOps + 1, key : HostKeys \cup {NoKey}]
      /\ host.id # 0 => host.key \in HostKeys
  <2>1. OldKey \in HostKeys
    BY KeysAssumption DEF OldKey
  <2> QED
    BY <2>1, BoundsAssumption DEF Init, NoRow
<1>4. code \in [st : {"none", "pending", "checked", "completed"}, key : HostKeys \cup {NoKey}]
      /\ code.st = "none"
  BY DEF Init, NoCode
<1>5. TypeOK
  <2>1. ops = 0 /\ faults = 0 /\ disturbed = FALSE /\ banned = FALSE
    BY DEF Init
  <2>2. /\ access = {} /\ projects = Users /\ cred = {} /\ held = {} /\ scope = {} /\ chal = {}
        /\ served = {} /\ cache = {} /\ reg = {} /\ stale = {}
        /\ read \in [Users -> {"none", "plain", "host"}]
    BY DEF Init
  <2>3. ops \in 0 .. MaxOps /\ faults \in 0 .. MaxFaults
    BY <2>1, BoundsAssumption
  <2>4. disturbed \in BOOLEAN /\ banned \in BOOLEAN
    BY <2>1
  <2>5. IF host.id = 0 THEN access = {} ELSE host.key \in HostKeys
    BY <1>3, <2>2
  <2>6. \A h \in Handlers : job[h].copy \subseteq held
    BY <1>1
  <2> QED
    BY <1>2, <1>3, <1>4, <2>2, <2>3, <2>4, <2>5, <2>6 DEF TypeOK
<1>6. ArgInv
  BY <1>1, <1>4 DEF ArgInv, JobOK
<1>7. ListInv
  BY <1>1 DEF Init, ListInv, Between
<1> QED
  BY <1>5, <1>6, <1>7 DEF IInv

\* The row of the host is written.
LEMMA UpsertOK ==
    ASSUME TypeOK, NEW k \in HostKeys, Upsert(k)
    PROVE  /\ host' \in [id : 0 .. MaxOps + 1, key : HostKeys \cup {NoKey}]
           /\ host'.key = k /\ host'.id # 0 /\ UNCHANGED <<access, projects>>
           /\ banned' \in BOOLEAN
<1> DEFINE n == IF Registered THEN host.id ELSE ops + 1
<1>1. n \in 0 .. MaxOps + 1 /\ n # 0
  BY BoundsAssumption DEF TypeOK, Registered
<1>2. host' = [id |-> n, key |-> k] /\ UNCHANGED <<access, projects>> /\ banned' = FALSE
  BY DEF Upsert
<1> HIDE DEF n
<1> QED
  BY <1>1, <1>2

\* The row of the host is deleted.
LEMMA DropRowOK ==
    ASSUME DropRow
    PROVE  /\ host' \in [id : 0 .. MaxOps + 1, key : HostKeys \cup {NoKey}]
           /\ host'.id = 0 /\ access' = {} /\ projects' = {} /\ banned' \in BOOLEAN
<1>1. banned' \in BOOLEAN
  BY DEF DropRow
<1> QED
  BY <1>1, BoundsAssumption DEF DropRow, NoRow

\* Steps that leave the JWTs, the lists and the handlers alone.
LEMMA RowInv ==
    ASSUME IInv,
           \/ \E k \in HostKeys : HandleNATSHostRegister(k) \/ HandleHostCodeCreate(k)
           \/ HandleDeleteHost \/ HandleHostRegister
           \/ \E u \in Users : \/ HandleAgentRegister(u) \/ UpsertAgentCredential(u)
           \/ \E k \in Keys : HandleAuthChallenge(k)
           \/ \E u \in Users : HandleLogin(u) \/ HandleRefresh(u)
    PROVE  IInv'
<1> USE DEF IInv, rowVars, jwtVars, listVars
<1>1. ASSUME UNCHANGED <<held, served, cache, job, disturbed>> PROVE ListInv'
  BY <1>1 DEF ListInv, Between
<1>2. ASSUME NEW k \in HostKeys, HandleNATSHostRegister(k) PROVE IInv'
  <2>1. TypeOK'
    BY <1>2, UpsertOK, BoundsAssumption DEF HandleNATSHostRegister, Op, TypeOK
  <2> QED
    BY <1>1, <1>2, <2>1 DEF HandleNATSHostRegister, ArgInv
<1>3. ASSUME NEW k \in HostKeys, HandleHostCodeCreate(k) PROVE IInv'
  <2>1. TypeOK'
    BY <1>3, BoundsAssumption DEF HandleHostCodeCreate, Op, TypeOK
  <2> QED
    BY <1>1, <1>3, <2>1 DEF HandleHostCodeCreate, ArgInv
<1>4. CASE HandleDeleteHost
  <2>1. TypeOK'
    BY <1>4, DropRowOK, BoundsAssumption DEF HandleDeleteHost, Op, TypeOK
  <2> QED
    BY <1>1, <1>4, <2>1 DEF HandleDeleteHost, ArgInv
<1>5. CASE HandleHostRegister
  <2>1. TypeOK'
    BY <1>5 DEF HandleHostRegister, TypeOK
  <2> QED
    BY <1>1, <1>5, <2>1 DEF HandleHostRegister, ArgInv, TypeOK
<1>6. ASSUME NEW u \in Users, HandleAgentRegister(u) \/ UpsertAgentCredential(u) PROVE IInv'
  <2>1. TypeOK'
    BY <1>6 DEF HandleAgentRegister, UpsertAgentCredential, TypeOK
  <2> QED
    BY <1>1, <1>6, <2>1 DEF HandleAgentRegister, UpsertAgentCredential, ArgInv
<1>7. ASSUME NEW k \in Keys, HandleAuthChallenge(k) PROVE IInv'
  <2>1. TypeOK'
    BY <1>7 DEF HandleAuthChallenge, TypeOK
  <2> QED
    BY <1>1, <1>7, <2>1 DEF HandleAuthChallenge, ArgInv
<1>8. ASSUME NEW u \in Users, HandleLogin(u) \/ HandleRefresh(u) PROVE IInv'
  <2>1. ReadHosts(u)
    BY <1>8 DEF HandleLogin, HandleRefresh
  <2>2. read' \in [Users -> {"none", "plain", "host"}]
    BY <2>1 DEF ReadHosts, TypeOK
  <2>3. TypeOK'
    BY <2>1, <2>2 DEF ReadHosts, TypeOK
  <2> QED
    BY <1>1, <2>1, <2>3 DEF ReadHosts, ArgInv
<1> QED
  BY <1>2, <1>3, <1>4, <1>5, <1>6, <1>7, <1>8

\* A JWT is signed or expires.
LEMMA JWTInv ==
    ASSUME IInv,
           \/ \E k \in HostKeys : HandleCreateHost(k)
           \/ CompleteHostRegister
           \/ \E k \in Keys : HandleAuthVerify(k) \/ Expire(k)
           \/ \E u \in Users : IssueUserJWT(u)
    PROVE  IInv'
<1> USE DEF IInv, rowVars, jwtVars, listVars
<1>1. ASSUME NEW k \in HostKeys, HandleCreateHost(k) PROVE IInv'
  <2>0. ops' \in 0 .. MaxOps
    BY <1>1, BoundsAssumption DEF HandleCreateHost, Op, TypeOK
  <2>1. TypeOK' /\ ListInv' /\ \A h \in Handlers : ArgOK(h, job'[h])
    BY <1>1, <2>0, UpsertOK, KeyLeaves, KeysOK DEF HandleCreateHost, Issue, TypeOK
  <2> QED
    BY <1>1, <2>1 DEF HandleCreateHost, ArgInv
<1>2. CASE CompleteHostRegister
  <2>0. code.key \in HostKeys
    BY <1>2 DEF CompleteHostRegister, ArgInv
  <2>c. /\ code' \in [st : {"none", "pending", "checked", "completed"}, key : HostKeys \cup {NoKey}]
        /\ code'.st = "completed"
    BY <1>2 DEF CompleteHostRegister, NoCode
  <2>1. TypeOK' /\ ListInv' /\ \A h \in Handlers : ArgOK(h, job'[h])
    BY <1>2, <2>0, <2>c, UpsertOK, KeyLeaves, KeysOK
    DEF CompleteHostRegister, Issue, TypeOK
  <2> QED
    BY <2>1, <2>c DEF ArgInv
<1>3. ASSUME NEW k \in Keys, HandleAuthVerify(k) PROVE IInv'
  <2>1. TypeOK' /\ ListInv' /\ \A h \in Handlers : ArgOK(h, job'[h])
    BY <1>3, KeyLeaves DEF HandleAuthVerify, Issue, TypeOK
  <2> QED
    BY <1>3, <2>1 DEF HandleAuthVerify, ArgInv
<1>4. ASSUME NEW u \in Users, IssueUserJWT(u) PROVE IInv'
  <2>0. read' \in [Users -> {"none", "plain", "host"}]
    BY <1>4 DEF IssueUserJWT, TypeOK
  <2>1. scope' \subseteq Users /\ stale' \subseteq Users
    BY <1>4 DEF IssueUserJWT, TypeOK
  <2>k. /\ held' \subseteq Keys /\ served' \subseteq held' /\ cache' \subseteq held'
        /\ job' \in [Handlers -> JobType] /\ \A h \in Handlers : job'[h].copy \subseteq held'
        /\ \A h \in Handlers : ArgOK(h, job'[h])
        /\ ListInv'
    BY <1>4, KeyLeaves, KeysOK DEF IssueUserJWT, Issue
  <2>2. TypeOK' /\ ListInv' /\ \A h \in Handlers : ArgOK(h, job'[h])
    BY <1>4, <2>0, <2>1, <2>k DEF IssueUserJWT, TypeOK
  <2> QED
    BY <1>4, <2>2 DEF IssueUserJWT, ArgInv
<1>5. ASSUME NEW k \in Keys, Expire(k) PROVE IInv'
  <2>0. faults' \in 0 .. MaxFaults
    BY <1>5, BoundsAssumption DEF Expire, Fault, TypeOK
  <2>1. TypeOK' /\ ListInv' /\ \A h \in Handlers : ArgOK(h, job'[h])
    BY <1>5, <2>0, KeyLeaves DEF Expire, TypeOK
  <2> QED
    BY <1>5, <2>1 DEF Expire, ArgInv
<1> QED
  BY <1>1, <1>2, <1>3, <1>4, <1>5

\* A command begins; a handler is idle before it.
LEMMA BeginOK ==
    ASSUME IInv, NEW h \in Handlers, NEW j, JobOK(h, j), j.copy = {}, Begin(h, j),
           UNCHANGED <<host, projects>>, access' \subseteq Users, banned' \in BOOLEAN
    PROVE  IInv'
<1> USE DEF IInv, rowVars, jwtVars, listVars
<1>1. /\ JobOK(h, AfterKeys(j)) /\ AfterKeys(j).copy \subseteq held
      /\ AfterKeys(j).pc \notin {"publish", "cache"}
  BY AfterKeysOK
<1>2. /\ job' \in [Handlers -> JobType] /\ \A g \in Handlers : job'[g].copy \subseteq held
      /\ ArgInv' /\ ListInv'
  BY <1>1, QuietStep DEF Begin
<1>3. ops' \in 0 .. MaxOps
  BY BoundsAssumption DEF Begin, Op, TypeOK
<1>4. TypeOK'
  BY <1>2, <1>3 DEF Begin, Registered, TypeOK
<1> QED
  BY <1>2, <1>4

\* What the commands begin with.
LEMMA NewJobs ==
    /\ \A u \in Users :
          LET j == [Idle EXCEPT !.keys = {UserKey(u)}] IN JobOK("grant", j) /\ j.copy = {}
    /\ \A u \in Users :
          LET j == [Idle EXCEPT !.then = "creds", !.arg = u]
          IN  JobOK("revokeAccess", j) /\ j.copy = {}
    /\ \A k \in HostKeys, n \in 0 .. MaxOps + 1 :
          LET j == [Idle EXCEPT !.keys = {k}, !.then = "creds", !.id = n]
          IN  JobOK("deregister", j) /\ j.copy = {}
    /\ \A k \in HostKeys :
          LET j == [Idle EXCEPT !.keys = {k}, !.then = "creds"]
          IN  JobOK("revoke", j) /\ j.copy = {}
    /\ \A k, x \in HostKeys, n \in 0 .. MaxOps + 1 :
          LET j == [Idle EXCEPT !.keys = {x}, !.then = "store key", !.id = n, !.arg = k]
          IN  JobOK("rekey", j) /\ j.copy = {}
<1>1. 0 \in 0 .. MaxOps + 1
  BY BoundsAssumption
<1> USE KeysOK DEF JobOK, ArgOK, Idle, JobType
<1>2. ASSUME NEW u \in Users
      PROVE  LET j == [Idle EXCEPT !.keys = {UserKey(u)}] IN JobOK("grant", j) /\ j.copy = {}
  BY <1>1
<1>3. ASSUME NEW u \in Users
      PROVE  LET j == [Idle EXCEPT !.then = "creds", !.arg = u]
             IN  JobOK("revokeAccess", j) /\ j.copy = {}
  BY <1>1
<1>4. ASSUME NEW k \in HostKeys, NEW n \in 0 .. MaxOps + 1
      PROVE  LET j == [Idle EXCEPT !.keys = {k}, !.then = "creds", !.id = n]
             IN  JobOK("deregister", j) /\ j.copy = {}
  OBVIOUS
<1>5. ASSUME NEW k \in HostKeys
      PROVE  LET j == [Idle EXCEPT !.keys = {k}, !.then = "creds"]
             IN  JobOK("revoke", j) /\ j.copy = {}
  BY <1>1
<1>6. ASSUME NEW k \in HostKeys, NEW x \in HostKeys, NEW n \in 0 .. MaxOps + 1
      PROVE  LET j == [Idle EXCEPT !.keys = {x}, !.then = "store key", !.id = n, !.arg = k]
             IN  JobOK("rekey", j) /\ j.copy = {}
  OBVIOUS
<1> QED
  BY <1>2, <1>3, <1>4, <1>5, <1>6

\* The commands on the manage subjects.
LEMMA ManageInv ==
    ASSUME IInv,
           \/ \E u \in Users : HandleManageGrant(u) \/ HandleManageRevokeAccess(u)
           \/ HandleManageDeregister \/ HandleManageRevoke
           \/ \E k \in HostKeys : HandleManageRekey(k)
    PROVE  IInv'
<1> USE DEF IInv, rowVars
<1>0. /\ Registered => host.key \in HostKeys /\ host.id \in 0 .. MaxOps + 1
      /\ access \subseteq Users /\ banned \in BOOLEAN
  BY DEF TypeOK, Registered
<1>h. /\ "grant" \in Handlers /\ "revokeAccess" \in Handlers /\ "deregister" \in Handlers
      /\ "revoke" \in Handlers /\ "rekey" \in Handlers
  BY DEF Handlers
<1>1. ASSUME NEW u \in Users, HandleManageGrant(u) PROVE IInv'
  <2> DEFINE j == [Idle EXCEPT !.keys = {UserKey(u)}]
  <2>1. JobOK("grant", j) /\ j.copy = {}
    BY NewJobs
  <2>2. Begin("grant", j) /\ access' \subseteq Users /\ UNCHANGED <<host, projects>>
        /\ banned' \in BOOLEAN
    BY <1>0, <1>1 DEF HandleManageGrant
  <2> HIDE DEF j
  <2> QED
    BY <1>h, <2>1, <2>2, BeginOK
<1>2. ASSUME NEW u \in Users, HandleManageRevokeAccess(u) PROVE IInv'
  <2> DEFINE j == [Idle EXCEPT !.then = "creds", !.arg = u]
  <2>1. JobOK("revokeAccess", j) /\ j.copy = {}
    BY NewJobs
  <2>2. Begin("revokeAccess", j) /\ access' \subseteq Users /\ UNCHANGED <<host, projects>>
        /\ banned' \in BOOLEAN
    BY <1>0, <1>2 DEF HandleManageRevokeAccess
  <2> HIDE DEF j
  <2> QED
    BY <1>h, <2>1, <2>2, BeginOK
<1>3. CASE HandleManageDeregister
  <2> DEFINE j == [Idle EXCEPT !.keys = {host.key}, !.then = "creds", !.id = host.id]
  <2>0. Registered
    BY <1>3 DEF HandleManageDeregister, Begin
  <2>1. JobOK("deregister", j) /\ j.copy = {}
    BY <1>0, <2>0, NewJobs
  <2>2. Begin("deregister", j) /\ access' \subseteq Users /\ UNCHANGED <<host, projects>>
        /\ banned' \in BOOLEAN
    BY <1>0, <1>3 DEF HandleManageDeregister
  <2> HIDE DEF j
  <2> QED
    BY <1>h, <2>1, <2>2, BeginOK
<1>4. CASE HandleManageRevoke
  <2> DEFINE j == [Idle EXCEPT !.keys = {host.key}, !.then = "creds"]
  <2>0. Registered
    BY <1>4 DEF HandleManageRevoke, Begin
  <2>1. JobOK("revoke", j) /\ j.copy = {}
    BY <1>0, <2>0, NewJobs
  <2>2. Begin("revoke", j) /\ access' \subseteq Users /\ UNCHANGED <<host, projects>>
        /\ banned' \in BOOLEAN
    BY <1>0, <1>4 DEF HandleManageRevoke
  <2> HIDE DEF j
  <2> QED
    BY <1>h, <2>1, <2>2, BeginOK
<1>5. ASSUME NEW k \in HostKeys, HandleManageRekey(k) PROVE IInv'
  <2> DEFINE j == [Idle EXCEPT !.keys = {host.key}, !.then = "store key",
                               !.id = host.id, !.arg = k]
  <2>0. Registered
    BY <1>5 DEF HandleManageRekey, Begin
  <2>1. JobOK("rekey", j) /\ j.copy = {}
    BY <1>0, <2>0, NewJobs
  <2>2. Begin("rekey", j) /\ access' \subseteq Users /\ UNCHANGED <<host, projects>>
        /\ banned' \in BOOLEAN
    BY <1>0, <1>5 DEF HandleManageRekey
  <2> HIDE DEF j
  <2> QED
    BY <1>h, <2>1, <2>2, BeginOK
<1> QED
  BY <1>1, <1>2, <1>3, <1>4, <1>5

\* Handlers outside revokeNKeyJWT.
LEMMA HandlerInv ==
    ASSUME IInv, NEW h \in Handlers,
           \/ TakeCreds(h) \/ TakeUser(h) \/ DeleteCreds(h) \/ DeleteRow(h) \/ StoreKey(h)
    PROVE  IInv'
<1> USE DEF IInv, rowVars, jwtVars
<1>0. JobOK(h, job[h]) /\ job[h].copy \subseteq held
  BY DEF TypeOK, ArgInv, JobOK
<1>1. CASE TakeCreds(h)
  <2> DEFINE whose == IF h = "revokeAccess" THEN cred \cap {job[h].arg} ELSE cred
             next  == [revokeAccess |-> "user", revoke |-> "idle", deregister |-> "delete creds"]
             i     == [job[h] EXCEPT !.keys = {AgentKey(u) : u \in whose}, !.then = next[h]]
             j     == AfterKeys(i)
  <2>1. /\ job[h].pc = "creds" /\ h \in {"revokeAccess", "revoke", "deregister"}
        /\ h = "revokeAccess" => job[h].arg \in Users
    BY <1>0, <1>1 DEF TakeCreds, Step, JobOK, ArgOK
  <2>2. {AgentKey(u) : u \in whose} \subseteq Keys
    BY KeysOK DEF TypeOK
  <2>3. next[h] \in {"user", "idle", "delete creds"} /\ (next[h] = "user" => h = "revokeAccess")
    <3>1. next.revokeAccess = "user" /\ next.revoke = "idle" /\ next.deregister = "delete creds"
      OBVIOUS
    <3> HIDE DEF next
    <3> QED
      BY <2>1, <3>1
  <2>4. job' = [job EXCEPT ![h] = j]
        /\ UNCHANGED <<rowVars, cred, jwtVars, chal, served, cache, disturbed, reg, code, ops, faults>>
    BY <1>1 DEF TakeCreds, Step
  <2> HIDE DEF whose, next
  <2>5. /\ i \in JobType /\ i.copy = job[h].copy /\ i.then = next[h]
        /\ i.pc = "creds" /\ i.arg = job[h].arg
    BY <1>0, <2>1, <2>2, <2>3 DEF JobOK, JobType
  <2> HIDE DEF i
  <2>6. JobOK(h, i)
    BY <2>1, <2>3, <2>5 DEF JobOK, ArgOK
  <2>7. JobOK(h, j) /\ j.copy \subseteq held /\ j.pc \notin {"publish", "cache"}
    BY <1>0, <2>5, <2>6, AfterKeysOK
  <2> HIDE DEF j
  <2>8. /\ job' \in [Handlers -> JobType] /\ \A g \in Handlers : job'[g].copy \subseteq held
        /\ ArgInv' /\ ListInv'
    BY <2>1, <2>4, <2>7, QuietStep
  <2>9. TypeOK'
    BY <2>4, <2>8 DEF TypeOK
  <2> QED
    BY <2>8, <2>9
<1>2. CASE TakeUser(h)
  <2> DEFINE j == [Idle EXCEPT !.pc = "keys", !.keys = {UserKey(job[h].arg)}]
  <2>1. job[h].pc = "user" /\ UserKey(job[h].arg) \in Keys
    BY <1>0, <1>2, KeysOK DEF TakeUser, Step, JobOK, ArgOK
  <2>i. Idle \in JobType /\ Idle.then = "idle" /\ Idle.copy = {}
    BY IdleOK DEF JobOK, Idle, Handlers
  <2>2. j \in JobType /\ j.pc = "keys" /\ j.then = "idle" /\ j.copy = {}
    BY <2>1, <2>i DEF JobType
  <2>3. job' = [job EXCEPT ![h] = j]
        /\ UNCHANGED <<rowVars, cred, jwtVars, chal, served, cache, disturbed, reg, code, ops, faults>>
    BY <1>2 DEF TakeUser, Step
  <2> HIDE DEF j
  <2>4. JobOK(h, j)
    BY <2>2 DEF JobOK, ArgOK
  <2>8. /\ job' \in [Handlers -> JobType] /\ \A g \in Handlers : job'[g].copy \subseteq held
        /\ ArgInv' /\ ListInv'
    BY <2>1, <2>2, <2>3, <2>4, QuietStep
  <2>9. TypeOK'
    BY <2>3, <2>8 DEF TypeOK
  <2> QED
    BY <2>8, <2>9
<1>3. CASE DeleteCreds(h)
  <2> DEFINE j == [job[h] EXCEPT !.pc = "delete row"]
  <2>1. /\ j \in JobType /\ j.pc = "delete row" /\ j.then = job[h].then
        /\ j.copy = job[h].copy /\ j.arg = job[h].arg
    BY <1>0 DEF JobOK, JobType
  <2>2. job' = [job EXCEPT ![h] = j] /\ job[h].pc = "delete creds" /\ cred' = {}
        /\ UNCHANGED <<rowVars, jwtVars, chal, served, cache, disturbed, reg, code, ops, faults>>
    BY <1>3 DEF DeleteCreds, Step
  <2> HIDE DEF j
  <2>3. JobOK(h, j)
    BY <1>0, <2>1 DEF JobOK, ArgOK
  <2>8. /\ job' \in [Handlers -> JobType] /\ \A g \in Handlers : job'[g].copy \subseteq held
        /\ ArgInv' /\ ListInv'
    BY <1>0, <2>1, <2>2, <2>3, QuietStep
  <2>9. TypeOK'
    BY <2>2, <2>8 DEF TypeOK
  <2> QED
    BY <2>8, <2>9
<1>4. CASE DeleteRow(h)
  <2>1. job' = [job EXCEPT ![h] = Idle] /\ job[h].pc = "delete row"
        /\ UNCHANGED <<cred, jwtVars, chal, served, cache, disturbed, reg, code, ops, faults>>
    BY <1>4 DEF DeleteRow, Step
  <2>8. /\ job' \in [Handlers -> JobType] /\ \A g \in Handlers : job'[g].copy \subseteq held
        /\ ArgInv' /\ ListInv'
    BY <2>1, IdleOK, QuietStep
  <2>9. TypeOK'
    BY <1>4, <2>1, <2>8, DropRowOK DEF DeleteRow, TypeOK
  <2> QED
    BY <2>8, <2>9
<1>5. CASE StoreKey(h)
  <2>1. job' = [job EXCEPT ![h] = Idle] /\ job[h].pc = "store key"
        /\ UNCHANGED <<access, projects, cred, jwtVars, chal, served, cache, disturbed, reg,
                       code, ops, faults>>
    BY <1>5 DEF StoreKey, Step
  <2>2. job[h].arg \in HostKeys
    BY <1>0, <2>1 DEF JobOK, ArgOK
  <2>3. /\ host' \in [id : 0 .. MaxOps + 1, key : HostKeys \cup {NoKey}] /\ host'.id = host.id
        /\ host'.key \in {host.key} \cup HostKeys
    BY <1>5, <2>2 DEF StoreKey, TypeOK
  <2>8. /\ job' \in [Handlers -> JobType] /\ \A g \in Handlers : job'[g].copy \subseteq held
        /\ ArgInv' /\ ListInv'
    BY <2>1, IdleOK, QuietStep
  <2>4. banned' \in BOOLEAN
    BY <1>5 DEF StoreKey, TypeOK
  <2>9. TypeOK'
    BY <2>1, <2>3, <2>4, <2>8 DEF TypeOK
  <2> QED
    BY <2>8, <2>9
<1> QED
  BY <1>1, <1>2, <1>3, <1>4, <1>5

\* revokeNKeyJWT: read the cache, publish to the broker, store in the cache.
LEMMA RevokeInv ==
    ASSUME IInv, NEW h \in Handlers,
           RevokeRead(h) \/ RevokePublish(h) \/ RevokeCache(h) \/ RevokeFails(h)
    PROVE  IInv'
<1> USE DEF IInv, rowVars, jwtVars
<1>0. JobOK(h, job[h]) /\ job[h].copy \subseteq held
  BY DEF TypeOK, ArgInv, JobOK
<1>1. ASSUME NEW j, JobOK(h, j), j.copy \subseteq held, job' = [job EXCEPT ![h] = j],
             UNCHANGED <<held, code>>
      PROVE  /\ \A g \in Handlers : job'[g] = IF g = h THEN j ELSE job[g]
             /\ job' \in [Handlers -> JobType] /\ \A g \in Handlers : job'[g].copy \subseteq held
             /\ ArgInv'
  BY <1>1 DEF TypeOK, JobOK, ArgInv
<1>2. CASE RevokeRead(h)
  <2>1. PICK k \in job[h].keys :
          Step(h, "keys", [job[h] EXCEPT !.pc = "publish", !.keys = @ \ {k},
                                         !.copy = cache \cup ({k} \cap held)])
    BY <1>2 DEF RevokeRead
  <2> DEFINE j == [job[h] EXCEPT !.pc = "publish", !.keys = @ \ {k},
                                 !.copy = cache \cup ({k} \cap held)]
  <2>2. cache \cup ({k} \cap held) \subseteq held /\ held \subseteq Keys
    BY DEF TypeOK
  <2>3. /\ j \in JobType /\ j.pc = "publish" /\ j.then = job[h].then /\ j.arg = job[h].arg
        /\ j.copy = cache \cup ({k} \cap held)
    BY <1>0, <2>2 DEF JobOK, JobType
  <2>4. /\ job[h].pc = "keys" /\ job' = [job EXCEPT ![h] = j]
        /\ disturbed' = (disturbed \/ \E g \in Handlers : Between(g))
        /\ UNCHANGED <<rowVars, cred, jwtVars, chal, served, cache, reg, code, ops, faults>>
    BY <1>2, <2>1 DEF RevokeRead, Step
  <2> HIDE DEF j
  <2>5. JobOK(h, j) /\ j.copy \subseteq held
    BY <1>0, <2>2, <2>3 DEF JobOK, ArgOK
  <2>6. /\ \A g \in Handlers : job'[g] = IF g = h THEN j ELSE job[g]
        /\ job' \in [Handlers -> JobType] /\ \A g \in Handlers : job'[g].copy \subseteq held
        /\ ArgInv'
    BY <1>1, <2>4, <2>5
  <2>7. disturbed' \in BOOLEAN
    BY <2>4
  <2>8. TypeOK'
    BY <2>4, <2>6, <2>7 DEF TypeOK
  <2>9. ListInv'
    <3>1. CASE disturbed'
      BY <3>1 DEF ListInv
    <3>2. CASE ~disturbed'
      <4>1. ~disturbed /\ \A g \in Handlers : job[g].pc \notin {"publish", "cache"}
        BY <2>4, <3>2 DEF Between
      <4>2. served' \subseteq cache'
        BY <2>4, <4>1 DEF ListInv
      <4> QED
        BY <2>3, <2>4, <2>6, <4>1, <4>2 DEF ListInv, Between
    <3> QED
      BY <3>1, <3>2
  <2> QED
    BY <2>6, <2>8, <2>9
<1>3. CASE RevokePublish(h)
  <2> DEFINE j == [job[h] EXCEPT !.pc = "cache"]
  <2>1. /\ j \in JobType /\ j.pc = "cache" /\ j.then = job[h].then /\ j.arg = job[h].arg
        /\ j.copy = job[h].copy
    BY <1>0 DEF JobOK, JobType
  <2>2. /\ job[h].pc = "publish" /\ job' = [job EXCEPT ![h] = j] /\ served' = job[h].copy
        /\ UNCHANGED <<rowVars, cred, jwtVars, chal, cache, disturbed, reg, code, ops, faults>>
    BY <1>3 DEF RevokePublish, Step
  <2> HIDE DEF j
  <2>3. JobOK(h, j) /\ j.copy \subseteq held
    BY <1>0, <2>1 DEF JobOK, ArgOK
  <2>4. /\ \A g \in Handlers : job'[g] = IF g = h THEN j ELSE job[g]
        /\ job' \in [Handlers -> JobType] /\ \A g \in Handlers : job'[g].copy \subseteq held
        /\ ArgInv'
    BY <1>1, <2>2, <2>3
  <2>5. TypeOK'
    BY <1>0, <2>2, <2>4 DEF TypeOK
  <2>6. ListInv'
    BY <2>1, <2>2, <2>4 DEF ListInv, Between
  <2> QED
    BY <2>4, <2>5, <2>6
<1>4. CASE RevokeCache(h)
  <2>1. /\ JobOK(h, Onward(job[h])) /\ Onward(job[h]).copy = {}
        /\ Onward(job[h]).pc \notin {"publish", "cache"}
    BY <1>0, OnwardOK
  <2>2. /\ job[h].pc = "cache" /\ job' = [job EXCEPT ![h] = Onward(job[h])]
        /\ cache' = job[h].copy
        /\ UNCHANGED <<rowVars, cred, jwtVars, chal, served, disturbed, reg, code, ops, faults>>
    BY <1>4 DEF RevokeCache, Step
  <2>3. /\ \A g \in Handlers : job'[g] = IF g = h THEN Onward(job[h]) ELSE job[g]
        /\ job' \in [Handlers -> JobType] /\ \A g \in Handlers : job'[g].copy \subseteq held
        /\ ArgInv'
    BY <1>1, <2>1, <2>2
  <2>4. TypeOK'
    BY <1>0, <2>2, <2>3 DEF TypeOK
  <2>5. ListInv'
    BY <2>1, <2>2, <2>3 DEF ListInv, Between
  <2> QED
    BY <2>3, <2>4, <2>5
<1>5. CASE RevokeFails(h)
  <2>1. JobOK(h, Onward(job[h])) /\ Onward(job[h]).copy = {}
    BY <1>0, OnwardOK
  <2>2. /\ job' = [job EXCEPT ![h] = Onward(job[h])]
        /\ served' \in {served, job[h].copy} /\ disturbed' = TRUE
        /\ UNCHANGED <<rowVars, cred, jwtVars, chal, cache, reg, code, ops>>
    BY <1>5 DEF RevokeFails, Step
  <2>3. /\ job' \in [Handlers -> JobType] /\ \A g \in Handlers : job'[g].copy \subseteq held
        /\ ArgInv'
    BY <1>1, <2>1, <2>2
  <2>4. faults' \in 0 .. MaxFaults
    BY <1>5, BoundsAssumption DEF RevokeFails, Fault, TypeOK
  <2>5. TypeOK'
    BY <1>0, <2>2, <2>3, <2>4 DEF TypeOK
  <2> QED
    BY <2>2, <2>3, <2>5 DEF ListInv
<1> QED
  BY <1>2, <1>3, <1>4, <1>5

\* The control plane forgets its handlers, challenges and codes.
LEMMA RestartInv == ASSUME IInv, Restart PROVE IInv'
<1>1. job' \in [Handlers -> JobType]
      /\ \A h \in Handlers : JobOK(h, job'[h]) /\ job'[h].copy = {}
  BY IdleOK DEF Restart, JobOK
<1>2. code' \in [st : {"none", "pending", "checked", "completed"}, key : HostKeys \cup {NoKey}]
      /\ code'.st = "none"
  BY DEF Restart, NoCode
<1>3. faults' \in 0 .. MaxFaults
  BY BoundsAssumption DEF IInv, TypeOK, Restart, Fault
<1>r. read' \in [Users -> {"none", "plain", "host"}]
  BY DEF Restart
<1>4. TypeOK'
  BY <1>1, <1>2, <1>3, <1>r DEF IInv, TypeOK, Restart, rowVars, jwtVars
<1> QED
  BY <1>1, <1>2, <1>4 DEF IInv, ArgInv, ListInv, JobOK, Restart

\* Every step keeps the invariant.
LEMMA NextInv == IInv /\ [Next]_vars => IInv'
<1> SUFFICES ASSUME IInv, [Next]_vars PROVE IInv'
  OBVIOUS
<1>1. CASE UNCHANGED vars
  BY <1>1 DEF vars, rowVars, jwtVars, listVars, IInv, TypeOK, ArgInv, ListInv, Between
<1>2. CASE Next
  BY <1>2, RowInv, JWTInv, ManageInv, HandlerInv, RevokeInv, RestartInv, KeysOK
  DEF Next, JobStep, AuthStep, UserStep
<1> QED
  BY <1>1, <1>2

\* The invariant holds throughout.
LEMMA SpecInv == Spec => []IInv
  BY InitInv, NextInv, PTL DEF Spec

-----------------------------------------------------------------------------
(* The theorems                                                            *)

\* handleManageDeregister, handleManageRekey and the handlers beside them: a row
\* always has the key of a controller, access goes with the row, and no list
\* names a JWT that is not there.
THEOREM AccessTypes == Spec => []TypeOK
<1>1. IInv => TypeOK
  BY DEF IInv
<1> QED
  BY <1>1, SpecInv, PTL

\* What a handler is about to publish, from the invariant.
LEMMA ListKept == IInv => NoRevocationLost
<1> SUFFICES ASSUME IInv, ~disturbed, NEW h \in Handlers, job[h].pc = "publish"
             PROVE  served \subseteq job[h].copy
  BY DEF NoRevocationLost
<1>1. \A g \in Handlers : job[g].pc # "cache"
  BY DEF IInv, ListInv, Between
<1> QED
  BY <1>1 DEF IInv, ListInv

\* revokeNKeyJWT: what it is about to publish holds everything the broker
\* refuses already, unless a revocation overlapped it, failed or was forgotten.
THEOREM RevocationsKept == Spec => []NoRevocationLost
  BY ListKept, SpecInv, PTL

\* The broker forgets a revocation only with the JWT it is about: no handler, in
\* whatever order they read the cache, publish and store, makes a refused JWT good
\* again (revokeNKeyJWT replaces the whole list every time).
THEOREM RefusedUntilReissued ==
    Spec => [][\A k \in served : k \in served' \/ disturbed' \/ Issue(k) \/ Expire(k)]_vars
<1> DEFINE Kept(k) == k \in served' \/ disturbed' \/ Issue(k) \/ Expire(k)
<1>1. ASSUME IInv, Next, NEW k \in served PROVE Kept(k)
  <2>1. CASE served' = served
    BY <2>1
  <2>2. ASSUME NEW i, Issue(i) PROVE Kept(k)
    BY <2>2 DEF Issue
  <2>3. ASSUME NEW i, Expire(i) PROVE Kept(k)
    BY <2>3 DEF Expire
  <2>4. ASSUME NEW h \in Handlers, RevokePublish(h) PROVE Kept(k)
    <3>1. job[h].pc = "publish" /\ served' = job[h].copy /\ disturbed' = disturbed
      BY <2>4 DEF RevokePublish, Step
    <3>2. NoRevocationLost
      BY <1>1, ListKept
    <3> QED
      BY <3>1, <3>2 DEF NoRevocationLost
  <2>5. ASSUME NEW h \in Handlers, RevokeFails(h) PROVE Kept(k)
    BY <2>5 DEF RevokeFails
  <2>6. ASSUME NEW h \in Handlers, JobStep(h) PROVE Kept(k)
    BY <2>1, <2>4, <2>5, <2>6
    DEF JobStep, TakeCreds, TakeUser, DeleteCreds, DeleteRow, StoreKey, RevokeRead, RevokeCache
  <2>7. ASSUME NEW i, AuthStep(i) PROVE Kept(k)
    BY <2>1, <2>2, <2>7 DEF AuthStep, HandleAuthChallenge, HandleAuthVerify, listVars
  <2>8. ASSUME NEW i \in HostKeys,
               \/ HandleNATSHostRegister(i) \/ HandleCreateHost(i)
               \/ HandleHostCodeCreate(i) \/ HandleManageRekey(i)
        PROVE  Kept(k)
    BY <2>1, <2>2, <2>8
    DEF HandleNATSHostRegister, HandleCreateHost, HandleHostCodeCreate, HandleManageRekey,
        Begin, listVars
  <2>9. ASSUME NEW u \in Users,
               \/ HandleManageGrant(u) \/ HandleManageRevokeAccess(u)
               \/ HandleAgentRegister(u) \/ UpsertAgentCredential(u) \/ UserStep(u)
        PROVE  Kept(k)
    BY <2>1, <2>2, <2>9
    DEF HandleManageGrant, HandleManageRevokeAccess, HandleAgentRegister,
        UpsertAgentCredential, UserStep, HandleLogin, HandleRefresh, ReadHosts, IssueUserJWT,
        Begin, listVars
  <2>10. ASSUME HandleDeleteHost \/ HandleHostRegister \/ CompleteHostRegister
                \/ HandleManageDeregister \/ HandleManageRevoke \/ Restart
         PROVE  Kept(k)
    BY <2>1, <2>2, <2>10
    DEF HandleDeleteHost, HandleHostRegister, CompleteHostRegister, HandleManageDeregister,
        HandleManageRevoke, Restart, Begin, listVars
  <2> HIDE DEF Kept
  <2> QED
    BY <1>1, <2>3, <2>6, <2>7, <2>8, <2>9, <2>10 DEF Next
<1>2. IInv /\ [Next]_vars => [\A k \in served : Kept(k)]_vars
  BY <1>1
<1> QED
  BY <1>2, SpecInv, PTL DEF Spec
-----------------------------------------------------------------------------
(* What a grant leads to                                                   *)

\* The key of user u has still to be put on the broker's list by the grant.
ToRevoke(u) ==
    \/ UserKey(u) \in job["grant"].keys
    \/ job["grant"].pc = "publish" /\ UserKey(u) \in job["grant"].copy

\* The handler of grants only revokes; a usable JWT of a user with access names
\* the host, was signed from a list that had changed, or is still to be revoked.
GrantInv ==
    /\ job["grant"].pc \in {"idle", "keys", "publish", "cache"} /\ job["grant"].then = "idle"
    /\ job["grant"].pc = "idle" => job["grant"].keys = {}
    /\ disturbed \/ \A u \in access :
          Usable(UserKey(u)) => u \in scope \/ u \in stale \/ ToRevoke(u)

\* Users, their keys and those of hosts and agents are told apart.
LEMMA UserKeys ==
    ASSUME NEW u \in Users
    PROVE  /\ UserKey(u) \notin HostKeys
           /\ \A v : UserKey(v) = UserKey(u) => v = u
           /\ \A v : AgentKey(v) # UserKey(u)
<1>1. "user" # "agent"
  OBVIOUS
<1>2. \A v : AgentKey(v)[1] = "agent" /\ UserKey(v)[1] = "user" /\ UserKey(v)[2] = v
  BY DEF UserKey, AgentKey
<1> QED
  BY <1>1, <1>2, KeysAssumption

\* Steps in which no JWT, no list and nothing of the grant changes.
LEMMA GrantKept ==
    ASSUME IInv, GrantInv, access' \subseteq access, job'["grant"] = job["grant"],
           UNCHANGED <<held, scope, stale, served>>, disturbed => disturbed'
    PROVE  GrantInv'
  BY DEF GrantInv, Usable, ToRevoke

\* The JWT of another key is signed or runs out.
LEMMA GrantOther ==
    ASSUME IInv, GrantInv, access' \subseteq access, NEW k,
           \A u \in access : UserKey(u) = k => k \notin held',
           held' \in {held \cup {k}, held \ {k}}, served' = served \ {k},
           job' = [h \in Handlers |-> [job[h] EXCEPT !.copy = @ \ {k}]],
           UNCHANGED <<scope, stale, disturbed>>
    PROVE  GrantInv'
<1>h. "grant" \in Handlers
  BY DEF Handlers
<1>1. job["grant"] \in JobType
  BY <1>h DEF IInv, TypeOK
<1>2. /\ job'["grant"].pc = job["grant"].pc /\ job'["grant"].then = job["grant"].then
      /\ job'["grant"].keys = job["grant"].keys /\ job'["grant"].copy = job["grant"].copy \ {k}
  BY <1>h, <1>1 DEF JobType
<1>3. \A u \in access : Usable(UserKey(u))' =>
         /\ UserKey(u) # k /\ Usable(UserKey(u))
         /\ ToRevoke(u) => ToRevoke(u)'
  BY <1>2 DEF Usable, ToRevoke
<1> QED
  BY <1>2, <1>3 DEF GrantInv

\* A user's JWT is signed.
LEMMA GrantIssue ==
    ASSUME IInv, GrantInv, NEW u \in Users, IssueUserJWT(u)
    PROVE  GrantInv'
<1>h. "grant" \in Handlers
  BY DEF Handlers
<1>1. job["grant"] \in JobType /\ access \subseteq Users
  BY <1>h DEF IInv, TypeOK
<1>2. job' = [h \in Handlers |-> [job[h] EXCEPT !.copy = @ \ {UserKey(u)}]]
  BY DEF IssueUserJWT, Issue
<1>3. /\ job'["grant"].pc = job["grant"].pc /\ job'["grant"].then = job["grant"].then
      /\ job'["grant"].keys = job["grant"].keys
      /\ job'["grant"].copy = job["grant"].copy \ {UserKey(u)}
  BY <1>h, <1>1, <1>2 DEF JobType
<1>4. access' = access /\ disturbed' = disturbed
  BY DEF IssueUserJWT, rowVars
<1>5. u \in access => u \in scope' \/ u \in stale'
  <2> SUFFICES ASSUME u \in access PROVE u \in scope' \/ u \in stale'
    OBVIOUS
  <2>1. HasAccess(u)
    BY DEF IInv, TypeOK, HasAccess, Registered
  <2> QED
    BY <2>1 DEF IssueUserJWT
<1>6. ASSUME NEW v \in access, v # u, Usable(UserKey(v))'
      PROVE  /\ Usable(UserKey(v)) /\ (v \in scope => v \in scope')
             /\ (v \in stale => v \in stale') /\ (ToRevoke(v) => ToRevoke(v)')
  <2>1. UserKey(v) # UserKey(u)
    BY <1>1, <1>6, UserKeys
  <2>2. Usable(UserKey(v))
    BY <1>6, <2>1 DEF Usable, IssueUserJWT, Issue
  <2>3. (v \in scope => v \in scope') /\ (v \in stale => v \in stale')
    BY <1>6 DEF IssueUserJWT
  <2>4. ToRevoke(v) => ToRevoke(v)'
    BY <1>3, <2>1 DEF ToRevoke
  <2> QED
    BY <2>2, <2>3, <2>4
<1> QED
  BY <1>3, <1>4, <1>5, <1>6 DEF GrantInv

\* A grant begins: the user's key is to be revoked.
LEMMA GrantBegins ==
    ASSUME IInv, GrantInv, NEW u \in Users, HandleManageGrant(u)
    PROVE  GrantInv'
<1> DEFINE j == [Idle EXCEPT !.keys = {UserKey(u)}]
           c == AfterKeys(j)
<1>h. "grant" \in Handlers
  BY DEF Handlers
<1>1. Begin("grant", j) /\ access' = access \cup {u}
  BY DEF HandleManageGrant
<1>2. Idle \in JobType /\ Idle.then = "idle"
  BY IdleOK, <1>h, KeysOK DEF JobOK, Idle
<1>3. j \in JobType /\ j.keys = {UserKey(u)} /\ j.then = "idle"
  BY <1>2, KeysOK DEF JobType
<1> HIDE DEF j
<1>4. c.pc = "keys" /\ c.keys = {UserKey(u)} /\ c.then = "idle"
  BY <1>3 DEF AfterKeys, JobType
<1> HIDE DEF c
<1>5. /\ job' = [job EXCEPT !["grant"] = c] /\ job["grant"].pc = "idle"
      /\ UNCHANGED <<held, scope, stale, served, disturbed>>
  BY <1>1 DEF Begin, jwtVars, c
<1>6. job'["grant"] = c
  BY <1>h, <1>5 DEF IInv, TypeOK
<1>7. UserKey(u) \in job'["grant"].keys /\ job["grant"].keys = {}
  BY <1>4, <1>5, <1>6 DEF GrantInv
<1>8. ASSUME NEW v \in access', Usable(UserKey(v))', ~disturbed'
      PROVE  v \in scope' \/ v \in stale' \/ ToRevoke(v)'
  <2>1. CASE v = u
    BY <1>7, <2>1 DEF ToRevoke
  <2>2. CASE v # u
    BY <1>1, <1>5, <1>7, <1>8, <2>2 DEF GrantInv, Usable, ToRevoke
  <2> QED
    BY <2>1, <2>2
<1> QED
  BY <1>4, <1>6, <1>8 DEF GrantInv

\* revokeNKeyJWT in whatever handler.
LEMMA GrantRevokes ==
    ASSUME IInv, GrantInv, NEW h \in Handlers,
           RevokeRead(h) \/ RevokePublish(h) \/ RevokeCache(h) \/ RevokeFails(h)
    PROVE  GrantInv'
<1>h. "grant" \in Handlers
  BY DEF Handlers
<1>0. /\ job \in [Handlers -> JobType] /\ job[h] \in JobType /\ disturbed \in BOOLEAN
      /\ JobOK(h, job[h])
  BY DEF IInv, TypeOK, ArgInv, JobOK
<1>g. ASSUME NEW j, job' = [job EXCEPT ![h] = j], h = "grant" PROVE job'["grant"] = j
  BY <1>0, <1>g
<1>n. ASSUME NEW j, job' = [job EXCEPT ![h] = j], h # "grant" PROVE job'["grant"] = job["grant"]
  BY <1>0, <1>n
<1>o. ASSUME h = "grant"
      PROVE  /\ Onward(job[h]).pc \in {"idle", "keys"} /\ Onward(job[h]).then = "idle"
             /\ Onward(job[h]).keys = job[h].keys
             /\ Onward(job[h]).pc = "idle" => job[h].keys = {}
  <2>0. job[h].then = "idle"
    BY <1>o DEF GrantInv
  <2>1. CASE job[h].keys = {}
    BY <2>0, <2>1 DEF Onward, Idle
  <2>2. CASE job[h].keys # {}
    <3> DEFINE a == AfterKeys(job[h])
    <3>1. a = [job[h] EXCEPT !.pc = "keys"]
      BY <2>2 DEF AfterKeys
    <3>2. a \in JobType /\ a.pc = "keys" /\ a.keys = job[h].keys /\ a.then = job[h].then
      BY <1>0, <3>1 DEF JobType
    <3>3. Onward(job[h]) = [a EXCEPT !.copy = {}]
      BY <2>2 DEF Onward
    <3> HIDE DEF a
    <3> QED
      BY <2>0, <3>2, <3>3 DEF JobType
  <2> QED
    BY <2>1, <2>2
<1>2. CASE RevokeRead(h)
  <2>1. PICK k \in job[h].keys :
          Step(h, "keys", [job[h] EXCEPT !.pc = "publish", !.keys = @ \ {k},
                                         !.copy = cache \cup ({k} \cap held)])
    BY <1>2 DEF RevokeRead
  <2> DEFINE j == [job[h] EXCEPT !.pc = "publish", !.keys = @ \ {k},
                                 !.copy = cache \cup ({k} \cap held)]
  <2>2. /\ job[h].pc = "keys" /\ job' = [job EXCEPT ![h] = j] /\ (disturbed => disturbed')
        /\ UNCHANGED <<access, held, scope, stale, served>>
    BY <1>2, <2>1 DEF RevokeRead, Step, rowVars, jwtVars
  <2>3. /\ j.pc = "publish" /\ j.then = job[h].then /\ j.keys = job[h].keys \ {k}
        /\ j.copy = cache \cup ({k} \cap held)
    BY <1>0 DEF JobType
  <2> HIDE DEF j
  <2>4. CASE h # "grant"
    BY <1>n, <2>2, <2>4, GrantKept
  <2>5. CASE h = "grant"
    <3>1. job'["grant"] = j
      BY <1>g, <2>2, <2>5
    <3>2. \A u \in access : Usable(UserKey(u)) /\ ToRevoke(u) => ToRevoke(u)'
      BY <2>2, <2>3, <2>5, <3>1 DEF Usable, ToRevoke
    <3> QED
      BY <2>2, <2>3, <2>5, <3>1, <3>2 DEF GrantInv, Usable
  <2> QED
    BY <2>4, <2>5
<1>3. CASE RevokePublish(h)
  <2> DEFINE j == [job[h] EXCEPT !.pc = "cache"]
  <2>1. /\ job[h].pc = "publish" /\ job' = [job EXCEPT ![h] = j] /\ served' = job[h].copy
        /\ UNCHANGED <<access, held, scope, stale, disturbed>>
    BY <1>3 DEF RevokePublish, Step, rowVars, jwtVars
  <2>2. j.pc = "cache" /\ j.then = job[h].then /\ j.keys = job[h].keys
    BY <1>0 DEF JobType
  <2> HIDE DEF j
  <2>3. ~disturbed => served \subseteq served'
    BY <2>1, ListKept DEF NoRevocationLost
  <2>4. CASE h # "grant"
    <3>1. job'["grant"] = job["grant"]
      BY <1>n, <2>1, <2>4
    <3> QED
      BY <2>1, <2>3, <3>1 DEF GrantInv, Usable, ToRevoke
  <2>5. CASE h = "grant"
    <3>1. job'["grant"] = j
      BY <1>g, <2>1, <2>5
    <3> QED
      BY <2>1, <2>2, <2>3, <2>5, <3>1 DEF GrantInv, Usable, ToRevoke
  <2> QED
    BY <2>4, <2>5
<1>4. CASE RevokeCache(h)
  <2>1. /\ job[h].pc = "cache" /\ job' = [job EXCEPT ![h] = Onward(job[h])]
        /\ UNCHANGED <<access, held, scope, stale, served, disturbed>>
    BY <1>4 DEF RevokeCache, Step, rowVars, jwtVars
  <2>4. CASE h # "grant"
    BY <1>n, <2>1, <2>4, GrantKept
  <2>5. CASE h = "grant"
    <3>1. job'["grant"] = Onward(job[h])
      BY <1>g, <2>1, <2>5
    <3> QED
      BY <1>o, <2>1, <2>5, <3>1 DEF GrantInv, Usable, ToRevoke
  <2> QED
    BY <2>4, <2>5
<1>5. CASE RevokeFails(h)
  <2>1. job' = [job EXCEPT ![h] = Onward(job[h])] /\ disturbed'
    BY <1>5 DEF RevokeFails, Step
  <2>4. CASE h # "grant"
    BY <1>n, <2>1, <2>4 DEF GrantInv
  <2>5. CASE h = "grant"
    BY <1>g, <1>o, <2>1, <2>5 DEF GrantInv
  <2> QED
    BY <2>4, <2>5
<1> QED
  BY <1>2, <1>3, <1>4, <1>5

\* Handlers outside revokeNKeyJWT, of which the grant has none.
LEMMA GrantHandlers ==
    ASSUME IInv, GrantInv, NEW h \in Handlers,
           \/ TakeCreds(h) \/ TakeUser(h) \/ DeleteCreds(h) \/ DeleteRow(h) \/ StoreKey(h)
    PROVE  GrantInv'
<1>1. job[h].pc \in {"creds", "user", "delete creds", "delete row", "store key"}
  BY DEF TakeCreds, TakeUser, DeleteCreds, DeleteRow, StoreKey, Step
<1>2. h # "grant"
  BY <1>1 DEF GrantInv
<1>3. \E j : job' = [job EXCEPT ![h] = j]
  BY DEF TakeCreds, TakeUser, DeleteCreds, DeleteRow, StoreKey, Step
<1>4. job'["grant"] = job["grant"]
  BY <1>2, <1>3 DEF IInv, TypeOK, Handlers
<1>5. access' \subseteq access /\ UNCHANGED <<held, scope, stale, served, disturbed>>
  BY DEF TakeCreds, TakeUser, DeleteCreds, DeleteRow, StoreKey, DropRow, rowVars, jwtVars
<1> QED
  BY <1>4, <1>5, GrantKept

\* The other commands.
LEMMA GrantRest ==
    ASSUME IInv, GrantInv,
           \/ \E k \in HostKeys : \/ HandleNATSHostRegister(k) \/ HandleHostCodeCreate(k)
                                  \/ HandleManageRekey(k)
           \/ HandleDeleteHost \/ HandleHostRegister \/ HandleManageDeregister \/ HandleManageRevoke
           \/ \E u \in Users : \/ HandleManageRevokeAccess(u)
                               \/ HandleAgentRegister(u) \/ UpsertAgentCredential(u)
                               \/ HandleLogin(u) \/ HandleRefresh(u)
           \/ \E k \in Keys : HandleAuthChallenge(k)
    PROVE  GrantInv'
<1>1. access' \subseteq access /\ UNCHANGED <<held, scope, stale, served, disturbed>>
  BY DEF HandleNATSHostRegister, HandleHostCodeCreate, HandleManageRekey, HandleDeleteHost,
         HandleHostRegister, HandleManageDeregister, HandleManageRevoke,
         HandleManageRevokeAccess, HandleAgentRegister, UpsertAgentCredential, HandleLogin,
         HandleRefresh, ReadHosts, HandleAuthChallenge, Begin, Upsert, DropRow, rowVars, jwtVars,
         listVars
<1>2. job' = job \/ \E h \in Handlers \ {"grant"} : \E j : job' = [job EXCEPT ![h] = j]
  BY DEF HandleNATSHostRegister, HandleHostCodeCreate, HandleManageRekey, HandleDeleteHost,
         HandleHostRegister, HandleManageDeregister, HandleManageRevoke,
         HandleManageRevokeAccess, HandleAgentRegister, UpsertAgentCredential, HandleLogin,
         HandleRefresh, ReadHosts, HandleAuthChallenge, Begin, listVars, Handlers
<1>3. job'["grant"] = job["grant"]
  BY <1>2 DEF IInv, TypeOK, Handlers
<1> QED
  BY <1>1, <1>3, GrantKept

\* Other JWTs, an expiry and a restart.
LEMMA GrantJWTs ==
    ASSUME IInv, GrantInv,
           \/ \E k \in HostKeys : HandleCreateHost(k)
           \/ CompleteHostRegister
           \/ \E k \in Keys : HandleAuthVerify(k) \/ Expire(k)
           \/ Restart
    PROVE  GrantInv'
<1>u. access \subseteq Users
  BY DEF IInv, TypeOK
<1>1. ASSUME NEW k \in HostKeys, HandleCreateHost(k) PROVE GrantInv'
  BY <1>1, <1>u, UserKeys, GrantOther DEF HandleCreateHost, Issue, Upsert
<1>2. CASE CompleteHostRegister
  <2>1. code.key \in HostKeys
    BY <1>2 DEF CompleteHostRegister, IInv, ArgInv
  <2> QED
    BY <1>2, <1>u, <2>1, UserKeys, GrantOther DEF CompleteHostRegister, Issue, Upsert
<1>3. ASSUME NEW k \in Keys, HandleAuthVerify(k) PROVE GrantInv'
  <2>1. k \in HostKeys
    BY <1>3 DEF HandleAuthVerify, Signed
  <2> QED
    BY <1>3, <1>u, <2>1, UserKeys, GrantOther DEF HandleAuthVerify, Issue, rowVars
<1>4. ASSUME NEW k \in Keys, Expire(k) PROVE GrantInv'
  BY <1>4, GrantOther DEF Expire, rowVars
<1>5. CASE Restart
  <2>1. job'["grant"] = Idle /\ disturbed'
    BY <1>5 DEF Restart, Handlers
  <2> QED
    BY <2>1 DEF GrantInv, Idle
<1> QED
  BY <1>1, <1>2, <1>3, <1>4, <1>5

\* handleManageGrant: once a grant has been handled, the user holds no usable JWT
\* that leaves out the host, but for one signed from a list read before the grant
\* and one whose revocation was lost.
THEOREM GrantsTakeEffect == Spec => []GrantTakesEffect
<1>1. Init => GrantInv
  <2> SUFFICES ASSUME Init PROVE GrantInv
    OBVIOUS
  <2>1. job["grant"] = Idle /\ access = {}
    BY DEF Init, Handlers
  <2> QED
    BY <2>1 DEF GrantInv, Idle
<1>2. IInv /\ GrantInv /\ [Next]_vars => GrantInv'
  <2> SUFFICES ASSUME IInv, GrantInv, [Next]_vars PROVE GrantInv'
    OBVIOUS
  <2>1. CASE UNCHANGED vars
    BY <2>1, GrantKept DEF vars, rowVars, jwtVars, listVars
  <2>2. CASE Next
    BY <2>2, GrantIssue, GrantBegins, GrantRevokes, GrantHandlers, GrantRest, GrantJWTs, KeysOK
    DEF Next, JobStep, AuthStep, UserStep
  <2> QED
    BY <2>1, <2>2
<1>3. IInv /\ GrantInv => GrantTakesEffect
  <2> SUFFICES ASSUME GrantInv, NEW u \in access, Usable(UserKey(u)), job["grant"].pc = "idle"
               PROVE  u \in scope \/ u \in stale \/ disturbed
    BY DEF GrantTakesEffect
  <2> QED
    BY DEF GrantInv, ToRevoke
<1> QED
  BY <1>1, <1>2, <1>3, SpecInv, PTL DEF Spec
================================================================================
