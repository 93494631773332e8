----------------------- MODULE ProjectProvisioningProofs -----------------------
(***************************************************************************)
(* That a project announced as Ready can run, and that the controller      *)
(* implements Provisioner, for any number of projects, names, handlers and *)
(* failures.                                                               *)
(***************************************************************************)
EXTENDS ProjectProvisioning, FiniteSetTheorems, SequenceTheorems, TLAPS

\* What is worked on was created, and its name is the slug of its row.
RowInv ==
    /\ \A t \in Handlers : h[t].id # NoId => proj[h[t].id].status # "none"
    /\ \A n \in 1 .. Len(queue) : proj[queue[n]].status # "none"
    /\ \A s \in Slugs : cr[s].id # NoId => proj[cr[s].id].status # "none" /\ Slug(cr[s].id) = s
    /\ rec.id # NoId => proj[rec.id].status # "none" /\ Slug(rec.id) = rec.slug
    /\ \A i \in Ids : secret[i] # 0 => proj[i].status # "none"

CreatePcs == {"write", "request", "wait", "ok", "failed", "writeFailed"}
Asks(t, i) == h[t].id = i /\ h[t].pc \in {"write", "request"}
Asked(n, i) == queue[n] = i

\* A handler creates a project alone, and asks for it once.
AskInv ==
    /\ \A t, u \in Handlers :
          h[t].id = h[u].id /\ h[t].pc \in CreatePcs /\ h[u].pc \in CreatePcs => t = u
    /\ \A m, n \in 1 .. Len(queue), i \in Ids : Asked(m, i) /\ Asked(n, i) => m = n
    /\ \A t \in Handlers, n \in 1 .. Len(queue), i \in Ids : ~(Asks(t, i) /\ Asked(n, i))

\* Nothing was made yet for a project whose resource is to be created.
Untouched(i) == (\A s \in Slugs : cr[s].id # i) /\ rec.id # i /\ secret[i] = 0
FreshInv ==
    /\ \A t \in Handlers, i \in Ids : Asks(t, i) => Untouched(i)
    /\ \A n \in 1 .. Len(queue), i \in Ids : Asked(n, i) => Untouched(i)

\* A resource without a phase was never reconciled.
NewInv ==
    \A s \in Slugs :
        /\ cr[s].id = NoId => cr[s].phase = ""
        /\ cr[s].id # NoId /\ cr[s].phase = "" => rec.id # cr[s].id /\ secret[cr[s].id] = 0

\* What a pass of the reconciler has put in place so far.
InPlace ==
    /\ rec.pc # "namespace" => "namespace" \in shared
    /\ rec.ok /\ rec.pc \notin {"namespace", "shared"} => shared = SharedParts
    /\ rec.pc \in {"register", "seal"} => rec.key # 0
    /\ rec.ok /\ rec.pc \in {"deploy", "finish"} => secret[rec.id] # 0
    /\ rec.ok /\ rec.pc = "finish" => rec.id \in deployed

\* A pass works on a resource with a phase, unless a new one took its name.
PassInv ==
    rec.pc # "idle" =>
        /\ InPlace
        /\ (cr[rec.slug].id = rec.id) <=> (cr[rec.slug].phase # "")

ReadyInv ==
    \A s \in Slugs : cr[s].phase = "Ready" =>
        cr[s].id \in deployed /\ shared = SharedParts /\ secret[cr[s].id] # 0

\* Where no read missed the secret, a key is made only for a project that has
\* none, so the control plane knows the key of the resource and of the pass.
KeyInv ==
    /\ \A s \in Slugs :
          cr[s].id # NoId /\ secret[cr[s].id] # 0 /\ cr[s].id \notin unseen =>
              registered[s] = secret[cr[s].id]
    /\ rec.id # NoId /\ secret[rec.id] # 0 /\ rec.id \notin unseen =>
          registered[rec.slug] = secret[rec.id]
    /\ rec.pc \in {"register", "seal"} /\ rec.id \notin unseen => secret[rec.id] = 0
    /\ rec.pc = "seal" => registered[rec.slug] = rec.key

PlaneInv == RowInv /\ AskInv /\ FreshInv
HostInv  == NewInv /\ PassInv /\ ReadyInv /\ KeyInv
IInv     == TypeOK /\ PlaneInv /\ HostInv

-----------------------------------------------------------------------------
(* Operators and frames                                                    *)

\* No project is none of the projects.
LEMMA NoIdOutside == NoId \notin Ids /\ NoId = 0
  BY ConstantsAssumption DEF NoId, Ids

\* A failure is counted.
LEMMA FaultOK ==
    ASSUME TypeOK, Fault \/ \E ok \in BOOLEAN : MayFail(ok) PROVE faults' \in 0 .. MaxFaults
<1>1. Fault \/ faults' = faults
  BY DEF MayFail
<1> QED
  BY <1>1, ConstantsAssumption DEF Fault, TypeOK

\* There is always a key that nobody holds.
LEMMA FreshKeyType == ASSUME TypeOK PROVE FreshKey \in Keys /\ FreshKey # 0
<1> DEFINE A == {secret[i] : i \in Ids}
           B == {registered[s] : s \in Slugs}
           n == Cardinality(Ids) + Cardinality(Slugs)
<1>1. IsFiniteSet(Ids) /\ IsFiniteSet(Slugs)
  BY ConstantsAssumption, FS_Interval DEF Ids
<1>2. Cardinality(Ids) \in Nat /\ Cardinality(Slugs) \in Nat
  BY <1>1, FS_CardinalityType
<1>3. IsFiniteSet(A) /\ Cardinality(A) <= Cardinality(Ids)
  <2>1. secret \in Surjection(Ids, A)
    BY DEF TypeOK, Surjection
  <2> QED
    BY <1>1, <2>1, FS_Surjection
<1>4. IsFiniteSet(B) /\ Cardinality(B) <= Cardinality(Slugs)
  <2>1. registered \in Surjection(Slugs, B)
    BY DEF TypeOK, Surjection
  <2> QED
    BY <1>1, <2>1, FS_Surjection
<1>5. IsFiniteSet(A \cup B) /\ Cardinality(A \cup B) <= n
  <2>1. Cardinality(A) \in Nat /\ Cardinality(B) \in Nat
    BY <1>3, <1>4, FS_CardinalityType
  <2>2. IsFiniteSet(A \cap B)
    BY <1>3, FS_Subset
  <2>3. Cardinality(A \cap B) \in Nat
    BY <2>2, FS_CardinalityType
  <2>4. /\ IsFiniteSet(A \cup B)
        /\ Cardinality(A \cup B) = Cardinality(A) + Cardinality(B) - Cardinality(A \cap B)
    BY <1>3, <1>4, FS_Union
  <2> QED
    BY <1>2, <1>3, <1>4, <2>1, <2>3, <2>4
<1>6. IsFiniteSet(Keys) /\ Cardinality(Keys) = n + 1
  <2>1. n \in Nat /\ Keys = 1 .. n + 1
    BY <1>2 DEF Keys
  <2> HIDE DEF n
  <2>2. 1 \in Int /\ n + 1 \in Int /\ ~(1 > n + 1) /\ (n + 1) - 1 + 1 = n + 1
    BY <2>1
  <2> QED
    BY <2>1, <2>2, FS_Interval
<1>7. \E k \in Keys : k \notin A \cup B
  <2> SUFFICES ASSUME Keys \subseteq A \cup B PROVE FALSE
    OBVIOUS
  <2>1. Cardinality(Keys) <= Cardinality(A \cup B)
    BY <1>5, FS_Subset
  <2> QED
    BY <1>2, <1>5, <1>6, <2>1, FS_CardinalityType
<1>8. FreshKey \in Keys
  BY <1>7 DEF FreshKey, Held
<1> QED
  BY <1>2, <1>8 DEF Keys

\* What a row, a handler and a queue are made of.
LEMMA Records ==
    /\ \A s \in Slugs, b \in BOOLEAN :
          LET q == [slug |-> s, status |-> "active", here |-> b]
          IN  q \in RowType /\ q.slug = s /\ q.status = "active"
    /\ \A r \in RowType :
          LET q == [r EXCEPT !.status = "failed"]
          IN  q \in RowType /\ q.status = "failed" /\ q.slug = r.slug
    /\ \A r \in RowType :
          LET q == [r EXCEPT !.status = "deleted", !.here = FALSE]
          IN  q \in RowType /\ q.status = "deleted" /\ q.slug = r.slug
    /\ \A i \in Ids, x \in {"active", "failed"} : [id |-> i, status |-> x] \in EntryType
    /\ \A i \in Ids, x \in HandlerPcs : [pc |-> x, id |-> i] \in HandlerType
    /\ \A c \in HandlerType, x \in HandlerPcs :
          LET d == [c EXCEPT !.pc = x] IN d \in HandlerType /\ d.pc = x /\ d.id = c.id
    /\ IdleH \in HandlerType /\ IdleH.pc = "idle" /\ IdleH.id = NoId
<1>1. \A s \in Slugs, b \in BOOLEAN :
         LET q == [slug |-> s, status |-> "active", here |-> b]
         IN  q \in RowType /\ q.slug = s /\ q.status = "active"
  BY DEF RowType, Statuses
<1>2. /\ \A r \in RowType :
            LET q == [r EXCEPT !.status = "failed"]
            IN  q \in RowType /\ q.status = "failed" /\ q.slug = r.slug
      /\ \A r \in RowType :
            LET q == [r EXCEPT !.status = "deleted", !.here = FALSE]
            IN  q \in RowType /\ q.status = "deleted" /\ q.slug = r.slug
  BY DEF RowType, Statuses
<1>3. \A i \in Ids, x \in {"active", "failed"} : [id |-> i, status |-> x] \in EntryType
  BY DEF EntryType, Statuses
<1>4. \A i \in Ids, x \in HandlerPcs : [pc |-> x, id |-> i] \in HandlerType
  BY DEF HandlerType
<1>5. \A c \in HandlerType, x \in HandlerPcs :
         LET d == [c EXCEPT !.pc = x] IN d \in HandlerType /\ d.pc = x /\ d.id = c.id
  BY DEF HandlerType
<1>6. IdleH \in HandlerType /\ IdleH.pc = "idle" /\ IdleH.id = NoId
  BY DEF IdleH, HandlerType, HandlerPcs
<1> QED
  BY <1>1, <1>2, <1>3, <1>4, <1>5, <1>6

\* What the handlers and messages hold are projects.
LEMMA InRange ==
    ASSUME TypeOK
    PROVE  /\ \A t \in Handlers : h[t] \in HandlerType /\ (h[t].pc # "idle" => h[t].id \in Ids)
           /\ \A n \in 1 .. Len(queue) : queue[n] \in Ids
           /\ \A i \in Ids : proj[i] \in RowType
           /\ \A s \in Slugs : cr[s] \in CRType
<1>1. \A t \in Handlers : h[t] \in HandlerType /\ (h[t].pc # "idle" => h[t].id \in Ids)
  BY DEF TypeOK, HandlerType
<1>2. \A n \in 1 .. Len(queue) : queue[n] \in Ids
  BY DEF TypeOK
<1>3. (\A i \in Ids : proj[i] \in RowType) /\ \A s \in Slugs : cr[s] \in CRType
  BY DEF TypeOK
<1> QED
  BY <1>1, <1>2, <1>3

\* The reconciler's objects are all HostInv is about.
LEMMA HostKept ==
    ASSUME HostInv, UNCHANGED <<cr, rec, secret, registered, shared, deployed, unseen>>
    PROVE  HostInv'
  BY DEF HostInv, NewInv, PassInv, InPlace, ReadyInv, KeyInv

\* Rows stay and keep their slug.
RowsStay == \A i \in Ids : proj[i].status # "none" =>
                              proj'[i].status # "none" /\ proj'[i].slug = proj[i].slug

\* Messages are taken from the front, if at all.
Shifted(d) == \A n \in 1 .. Len(queue') : n + d \in 1 .. Len(queue) /\ queue'[n] = queue[n + d]

\* A step that asks for nothing new.
LEMMA NothingAsked ==
    ASSUME TypeOK, PlaneInv, NEW d \in Nat, Shifted(d), RowsStay, Len(queue') \in Nat,
           \A t \in Handlers :
              /\ h'[t].id # NoId => h'[t].id \in Ids /\ proj'[h'[t].id].status # "none"
              /\ h'[t].pc \in CreatePcs => h'[t].id = h[t].id /\ h[t].pc \in CreatePcs
              /\ h'[t].pc \in {"write", "request"} => h[t].pc \in {"write", "request"},
           \A s \in Slugs : \/ cr'[s].id \in {cr[s].id, NoId}
                            \/ /\ cr'[s].id \in Ids /\ Slug(cr'[s].id) = s
                               /\ proj[cr'[s].id].status # "none",
           rec'.id # NoId => \/ rec'.id = rec.id /\ rec'.slug = rec.slug
                             \/ rec'.slug \in Slugs /\ rec'.id = cr[rec'.slug].id,
           \A i \in Ids : secret'[i] # 0 => secret[i] # 0 \/ i = rec.id,
           \A i \in Ids : Untouched(i) => \/ Untouched(i)'
                                          \/ /\ \A t \in Handlers : ~Asks(t, i)
                                             /\ \A n \in 1 .. Len(queue') : ~Asked(n + d, i)
    PROVE  PlaneInv'
<1> USE DEF PlaneInv
<1>0. /\ \A s \in Slugs : cr[s].id # NoId => cr[s].id \in Ids
      /\ rec.id # NoId => rec.id \in Ids
  BY InRange DEF TypeOK, CRType, PassType
<1>1. \A n \in 1 .. Len(queue') : queue[n + d] \in Ids /\ n + d \in 1 .. Len(queue)
                                  /\ queue'[n] = queue[n + d]
  BY InRange DEF Shifted
<1>2. RowInv'
  <2>1. \A n \in 1 .. Len(queue') : proj'[queue'[n]].status # "none"
    BY <1>1 DEF RowInv, RowsStay
  <2>2. \A s \in Slugs : cr'[s].id # NoId =>
           proj'[cr'[s].id].status # "none" /\ proj'[cr'[s].id].slug = s
    BY <1>0 DEF RowInv, RowsStay, Slug
  <2>3. rec'.id # NoId => proj'[rec'.id].status # "none" /\ proj'[rec'.id].slug = rec'.slug
    BY <1>0 DEF RowInv, RowsStay, Slug
  <2>4. \A i \in Ids : secret'[i] # 0 => proj'[i].status # "none"
    BY <1>0, NoIdOutside DEF RowInv, RowsStay
  <2> QED
    BY <2>1, <2>2, <2>3, <2>4 DEF RowInv, Slug
<1>3. AskInv'
  <2>1. \A t, u \in Handlers :
           h'[t].id = h'[u].id /\ h'[t].pc \in CreatePcs /\ h'[u].pc \in CreatePcs => t = u
    BY DEF AskInv
  <2>0. \A n \in 1 .. Len(queue'), i \in Ids : Asked(n, i)' => Asked(n + d, i)
    BY <1>1 DEF Asked
  <2>2. ASSUME NEW m \in 1 .. Len(queue'), NEW n \in 1 .. Len(queue'), NEW i \in Ids,
               Asked(m, i)', Asked(n, i)'
        PROVE  m = n
    <3>1. Asked(m + d, i) /\ Asked(n + d, i) /\ m + d \in 1 .. Len(queue) /\ n + d \in 1 .. Len(queue)
      BY <1>1, <2>0, <2>2
    <3>2. m + d = n + d
      BY <3>1 DEF AskInv
    <3> QED
      BY <3>2
  <2>3. ASSUME NEW t \in Handlers, NEW n \in 1 .. Len(queue'), NEW i \in Ids,
               Asks(t, i)', Asked(n, i)'
        PROVE  FALSE
    <3>1. Asked(n + d, i) /\ n + d \in 1 .. Len(queue)
      BY <1>1, <2>0, <2>3
    <3>2. Asks(t, i)
      BY <2>3 DEF Asks, CreatePcs
    <3> QED
      BY <3>1, <3>2 DEF AskInv
  <2> QED
    BY <2>1, <2>2, <2>3 DEF AskInv
<1>4. FreshInv'
  <2>a. \A t \in Handlers, i \in Ids : Asks(t, i)' => Asks(t, i)
    BY DEF Asks, CreatePcs
  <2>1. \A t \in Handlers, i \in Ids : Asks(t, i)' => Untouched(i)'
    BY <2>a DEF FreshInv
  <2>0. \A n \in 1 .. Len(queue'), i \in Ids : Asked(n, i)' => Asked(n + d, i)
    BY <1>1 DEF Asked
  <2>2. \A n \in 1 .. Len(queue'), i \in Ids : Asked(n, i)' => Untouched(i)'
    BY <1>1, <2>0 DEF FreshInv
  <2> QED
    BY <2>1, <2>2 DEF FreshInv
<1> QED
  BY <1>2, <1>3, <1>4

\* NothingAsked for a step of one handler that leaves the host alone.
LEMMA OneHandler ==
    ASSUME IInv, NEW t \in Handlers, NEW c \in HandlerType, h' = [h EXCEPT ![t] = c],
           c.pc = "idle" <=> c.id = NoId,
           c.id # NoId => proj[c.id].status # "none",
           c.pc \in CreatePcs => c.id = h[t].id /\ h[t].pc \in CreatePcs,
           c.pc \in {"write", "request"} => h[t].pc \in {"write", "request"},
           proj' \in [Ids -> RowType], RowsStay,
           \A i \in Ids : proj'[i].status # "none" => proj'[i].slug \in Slugs,
           kv' \in [Slugs -> EntryType], faults' \in 0 .. MaxFaults,
           UNCHANGED <<subVars, cr, recVars, up>>
    PROVE  IInv'
<1> USE DEF IInv, subVars, recVars, hist
<1>1. \A u \in Handlers : h'[u] = IF u = t THEN c ELSE h[u]
  BY DEF TypeOK
<1>2. h' \in [Handlers -> HandlerType] /\ \A u \in Handlers : h'[u].pc = "idle" <=> h'[u].id = NoId
  BY <1>1 DEF TypeOK
<1>3. HostInv'
  BY HostKept
<1>4. PlaneInv'
  <2>1. 0 \in Nat /\ Shifted(0) /\ Len(queue') \in Nat
    <3>1. Len(queue) \in Nat
      BY DEF TypeOK
    <3> QED
      BY <3>1 DEF Shifted
  <2>2. \A u \in Handlers : h'[u] \in HandlerType
    BY <1>2
  <2>3. \A u \in Handlers : h'[u].id # NoId => h'[u].id \in Ids /\ proj[h'[u].id].status # "none"
    BY <1>1, <2>2 DEF PlaneInv, RowInv, HandlerType
  <2>4. \A u \in Handlers :
           /\ h'[u].id # NoId => h'[u].id \in Ids /\ proj'[h'[u].id].status # "none"
           /\ h'[u].pc \in CreatePcs => h'[u].id = h[u].id /\ h[u].pc \in CreatePcs
           /\ h'[u].pc \in {"write", "request"} => h[u].pc \in {"write", "request"}
    BY <1>1, <2>3 DEF RowsStay
  <2>5. \A i \in Ids : Untouched(i) => Untouched(i)'
    BY DEF Untouched
  <2> QED
    BY <2>1, <2>4, <2>5, NothingAsked
<1>5. TypeOK'
  BY <1>2 DEF TypeOK
<1> QED
  BY <1>3, <1>4, <1>5

\* A request ends: the HTTP handler is done, the other one has an outcome.
LEMMA OutcomeOK ==
    ASSUME TypeOK, NEW t \in Handlers, h[t].pc # "idle", NEW ok \in BOOLEAN
    PROVE  /\ Outcome(t, ok) \in HandlerType
           /\ t \in HttpHandlers => Outcome(t, ok) = IdleH
           /\ t \notin HttpHandlers => /\ Outcome(t, ok).id = h[t].id /\ Outcome(t, ok).id # NoId
                                       /\ Outcome(t, ok).pc \in {"ok", "failed"}
<1>1. h[t] \in HandlerType /\ h[t].id # NoId
  BY DEF TypeOK
<1>2. CASE t \in HttpHandlers
  BY <1>2, Records DEF Outcome
<1>3. CASE t \notin HttpHandlers
  <2> DEFINE x == IF ok THEN "ok" ELSE "failed"
             c == [h[t] EXCEPT !.pc = x]
  <2>1. x \in HandlerPcs /\ x \in {"ok", "failed"}
    BY DEF HandlerPcs
  <2>2. Outcome(t, ok) = c
    BY <1>3 DEF Outcome
  <2> HIDE DEF x
  <2>3. c \in HandlerType /\ c.pc = x /\ c.id = h[t].id
    BY <1>1, <2>1, Records
  <2> HIDE DEF c
  <2> QED
    BY <1>1, <1>3, <2>1, <2>2, <2>3
<1> QED
  BY <1>2, <1>3

\* A project is created: its row was free and nobody works on it.
LEMMA CreateRowInv ==
    ASSUME IInv, NEW t \in Handlers, NEW i \in Ids, NEW s \in Slugs, NEW b \in BOOLEAN,
           CreateRow(t, i, s, b)
    PROVE  IInv'
<1> USE DEF IInv, PlaneInv, subVars, recVars, ctlVars, hist
<1> DEFINE x == IF t \in HttpHandlers THEN "write" ELSE "request"
           c == [pc |-> x, id |-> i]
           r == [slug |-> s, status |-> "active", here |-> b]
<1>1. c \in HandlerType /\ c.pc \in {"write", "request"} /\ c.id = i
  BY Records DEF HandlerPcs
<1>2. r \in RowType /\ r.slug = s /\ r.status = "active"
  BY Records
<1>3. /\ h' = [h EXCEPT ![t] = c] /\ proj' = [proj EXCEPT ![i] = r]
      /\ h[t].pc = "idle" /\ proj[i].status = "none"
      /\ UNCHANGED <<kv, subVars, cr, recVars, ctlVars>>
  BY DEF CreateRow, At
<1> HIDE DEF c, r, x
<1>4. (\A u \in Handlers : h'[u] = IF u = t THEN c ELSE h[u])
      /\ (\A j \in Ids : proj'[j] = IF j = i THEN r ELSE proj[j])
  BY <1>3 DEF TypeOK
<1>5. i # NoId
  BY NoIdOutside
<1>6. TypeOK'
  <2>1. h' \in [Handlers -> HandlerType] /\ proj' \in [Ids -> RowType]
    BY <1>1, <1>2, <1>3 DEF TypeOK
  <2>2. (\A u \in Handlers : h'[u].pc = "idle" <=> h'[u].id = NoId)
        /\ (\A j \in Ids : proj'[j].status # "none" => proj'[j].slug \in Slugs)
    BY <1>1, <1>2, <1>4, <1>5 DEF TypeOK
  <2> QED
    BY <1>3, <2>1, <2>2 DEF TypeOK
<1>7. HostInv'
  BY <1>3, HostKept
<1>8. RowsStay
  BY <1>2, <1>3, <1>4 DEF RowsStay
\* nothing refers to i
<1>9. /\ \A u \in Handlers : h[u].id # i
      /\ \A n \in 1 .. Len(queue) : queue[n] # i
      /\ \A q \in Slugs : cr[q].id # i
      /\ rec.id # i
  BY <1>3, <1>5 DEF RowInv
<1>10. RowInv'
  <2>1. /\ \A n \in 1 .. Len(queue) : queue[n] \in Ids
        /\ \A u \in Handlers : h[u].id # NoId => h[u].id \in Ids
        /\ \A q \in Slugs : cr[q].id # NoId => cr[q].id \in Ids
        /\ rec.id # NoId => rec.id \in Ids
    BY InRange DEF TypeOK, CRType, PassType, HandlerType
  <2>2. \A u \in Handlers : h'[u].id # NoId => proj'[h'[u].id].status # "none"
    BY <1>1, <1>2, <1>4, <1>8, <2>1 DEF RowInv, RowsStay
  <2>3. \A n \in 1 .. Len(queue) : proj'[queue[n]].status # "none"
    BY <1>8, <2>1 DEF RowInv, RowsStay
  <2>4. \A q \in Slugs : cr[q].id # NoId => proj'[cr[q].id].status # "none" /\ proj'[cr[q].id].slug = q
    BY <1>8, <2>1 DEF RowInv, RowsStay, Slug
  <2>5. rec.id # NoId => proj'[rec.id].status # "none" /\ proj'[rec.id].slug = rec.slug
    BY <1>8, <2>1 DEF RowInv, RowsStay, Slug
  <2>6. \A j \in Ids : secret[j] # 0 => proj'[j].status # "none"
    BY <1>8 DEF RowInv, RowsStay
  <2> QED
    BY <1>3, <2>2, <2>3, <2>4, <2>5, <2>6 DEF RowInv, Slug
<1>11. AskInv'
  BY <1>1, <1>3, <1>4, <1>9 DEF AskInv, Asks, Asked, CreatePcs
<1>12. FreshInv'
  <2>1. secret[i] = 0
    BY <1>3 DEF RowInv
  <2>2. Untouched(i)
    BY <1>9, <2>1 DEF Untouched
  <2> QED
    BY <1>1, <1>3, <1>4, <2>2 DEF FreshInv, Asks, Asked, Untouched
<1> QED
  BY <1>6, <1>7, <1>10, <1>11, <1>12

\* The entry of a project is written, or not.
LEMMA EntryWritten ==
    ASSUME IInv, NEW t \in Handlers, h[t].pc # "idle", NEW x \in {"active", "failed"},
           NEW written \in BOOLEAN, WriteEntry(h[t].id, x, written)
    PROVE  kv' \in [Slugs -> EntryType] /\ faults' \in 0 .. MaxFaults
<1> DEFINE i == h[t].id
           e == [id |-> i, status |-> x]
<1>1. i \in Ids
  BY InRange DEF IInv
<1>2. Slug(i) \in Slugs
  BY <1>1, NoIdOutside DEF IInv, PlaneInv, RowInv, TypeOK, Slug
<1>3. e \in EntryType
  BY <1>1, Records
<1>4. kv' = (IF written THEN [kv EXCEPT ![Slug(i)] = e] ELSE kv) /\ MayFail(written)
  BY DEF WriteEntry
<1> HIDE DEF e, i
<1>5. kv' \in [Slugs -> EntryType]
  BY <1>2, <1>3, <1>4 DEF IInv, TypeOK
<1> QED
  BY <1>4, <1>5, FaultOK DEF IInv

\* A handler that ends its wait, or is told at once that nobody listens.
LEMMA EndOfWait ==
    ASSUME IInv, NEW t \in Handlers, h[t].pc \in {"request", "wait"},
           h' = [h EXCEPT ![t] = Outcome(t, FALSE)],
           UNCHANGED <<proj, kv, subVars, cr, recVars, ctlVars>>
    PROVE  IInv'
<1> USE DEF IInv, ctlVars
<1> DEFINE c == Outcome(t, FALSE)
<1>1. /\ c \in HandlerType /\ c.pc \in {"idle", "ok", "failed"}
      /\ c.pc = "idle" <=> c.id = NoId
      /\ c.pc # "idle" => c.id = h[t].id
  BY OutcomeOK, Records
<1>2. h' = [h EXCEPT ![t] = c]
  OBVIOUS
<1> HIDE DEF c
<1>3. c.id # NoId => proj[c.id].status # "none"
  BY <1>1 DEF PlaneInv, RowInv
<1>4. /\ proj' \in [Ids -> RowType] /\ kv' \in [Slugs -> EntryType] /\ faults' \in 0 .. MaxFaults
      /\ \A i \in Ids : proj'[i].status # "none" => proj'[i].slug \in Slugs
      /\ RowsStay
  BY DEF TypeOK, RowsStay
<1> QED
  BY <1>1, <1>2, <1>3, <1>4, OneHandler DEF CreatePcs

\* Handlers of the control plane that ask for nothing.
LEMMA HandlerInv ==
    ASSUME IInv, NEW t \in Handlers, NEW written \in BOOLEAN,
           \/ WriteBeforeRequest(t, written) \/ RequestTimeout(t) \/ MarkFailed(t, written)
           \/ WriteOutcome(t, written) \/ DeleteNotify(t)
    PROVE  IInv'
<1> USE DEF IInv
<1>0. h[t] \in HandlerType /\ (h[t].pc # "idle" => h[t].id \in Ids /\ h[t].id # NoId
                                               /\ proj[h[t].id].status # "none")
  BY InRange, NoIdOutside DEF PlaneInv, RowInv
<1>u. UNCHANGED proj => /\ RowsStay /\ proj' \in [Ids -> RowType]
                        /\ \A i \in Ids : proj'[i].status # "none" => proj'[i].slug \in Slugs
  BY DEF RowsStay, TypeOK
<1>1. CASE WriteBeforeRequest(t, written)
  <2> DEFINE c == [h[t] EXCEPT !.pc = "request"]
  <2>1. c \in HandlerType /\ c.pc = "request" /\ c.id = h[t].id
    BY <1>0, Records DEF HandlerPcs
  <2>2. /\ h[t].pc = "write" /\ h' = [h EXCEPT ![t] = c]
        /\ WriteEntry(h[t].id, "active", written)
        /\ UNCHANGED <<proj, subVars, cr, recVars, up>>
    BY <1>1 DEF WriteBeforeRequest, At, Goto
  <2> HIDE DEF c
  <2>3. kv' \in [Slugs -> EntryType] /\ faults' \in 0 .. MaxFaults
    BY <2>2, EntryWritten
  <2> QED
    BY <1>0, <1>u, <2>1, <2>2, <2>3, OneHandler DEF CreatePcs
<1>2. CASE RequestTimeout(t)
  BY <1>2, EndOfWait DEF RequestTimeout, At
<1>3. CASE MarkFailed(t, written)
  <2> DEFINE c == [h[t] EXCEPT !.pc = "writeFailed"]
             i == h[t].id
             r == [proj[i] EXCEPT !.status = "failed"]
  <2>1. c \in HandlerType /\ c.pc = "writeFailed" /\ c.id = i
    BY <1>0, Records DEF HandlerPcs
  <2>2. /\ h[t].pc = "failed" /\ h' = [h EXCEPT ![t] = c] /\ MayFail(written)
        /\ proj' = IF Live(i) /\ written THEN [proj EXCEPT ![i] = r] ELSE proj
        /\ UNCHANGED <<kv, subVars, cr, recVars, up>>
    BY <1>3 DEF MarkFailed, At, Goto
  <2>3. i \in Ids /\ r \in RowType /\ r.status = "failed" /\ r.slug = proj[i].slug
    BY <1>0, <2>2, Records, InRange
  <2> HIDE DEF c, r
  <2>4. /\ proj' \in [Ids -> RowType]
        /\ \A j \in Ids : proj'[j] = IF j = i /\ Live(i) /\ written THEN r ELSE proj[j]
    BY <2>2, <2>3 DEF TypeOK
  <2>5. RowsStay /\ \A j \in Ids : proj'[j].status # "none" => proj'[j].slug \in Slugs
    BY <2>3, <2>4 DEF RowsStay, TypeOK, Live
  <2>6. kv' \in [Slugs -> EntryType] /\ faults' \in 0 .. MaxFaults
    BY <2>2, FaultOK DEF TypeOK
  <2> QED
    BY <1>0, <2>1, <2>2, <2>4, <2>5, <2>6, OneHandler DEF CreatePcs
<1>4. CASE WriteOutcome(t, written)
  <2> DEFINE x == IF h[t].pc = "ok" THEN "active" ELSE "failed"
  <2>1. /\ h[t].pc \in {"ok", "writeFailed"} /\ h' = [h EXCEPT ![t] = IdleH]
        /\ WriteEntry(h[t].id, x, written)
        /\ UNCHANGED <<proj, subVars, cr, recVars, up>>
    BY <1>4 DEF WriteOutcome, At
  <2>2. x \in {"active", "failed"} /\ h[t].pc # "idle"
    BY <2>1
  <2> HIDE DEF x
  <2>3. kv' \in [Slugs -> EntryType] /\ faults' \in 0 .. MaxFaults
    BY <2>1, <2>2, EntryWritten
  <2>4. /\ IdleH \in HandlerType /\ IdleH.pc = "idle" /\ IdleH.id = NoId
        /\ IdleH.pc \notin CreatePcs /\ IdleH.pc \notin {"write", "request"}
    BY Records DEF CreatePcs
  <2> QED
    BY <1>u, <2>1, <2>3, <2>4, OneHandler
<1>5. CASE DeleteNotify(t)
  <2> DEFINE c == [h[t] EXCEPT !.pc = "remove"]
  <2>1. c \in HandlerType /\ c.pc = "remove" /\ c.id = h[t].id
    BY <1>0, Records DEF HandlerPcs
  <2>2. /\ h[t].pc = "notify" /\ h' = [h EXCEPT ![t] = c]
        /\ UNCHANGED <<proj, kv, subVars, cr, recVars, up, faults>>
    BY <1>5 DEF DeleteNotify, At, Goto, ctlVars
  <2> HIDE DEF c
  <2>3. kv' \in [Slugs -> EntryType] /\ faults' \in 0 .. MaxFaults
    BY <2>2 DEF TypeOK
  <2> QED
    BY <1>0, <1>u, <2>1, <2>2, <2>3, OneHandler DEF CreatePcs
<1> QED
  BY <1>1, <1>2, <1>3, <1>4, <1>5

\* A project is looked up for deletion, and its rows are deleted.
LEMMA DeleteInv ==
    ASSUME IInv, NEW t \in Handlers, (\E i \in Ids : DeleteLookup(t, i)) \/ DeleteRow(t)
    PROVE  IInv'
<1> USE DEF IInv
<1>u. UNCHANGED <<kv, ctlVars>> =>
         kv' \in [Slugs -> EntryType] /\ faults' \in 0 .. MaxFaults /\ UNCHANGED up
  BY DEF TypeOK, ctlVars
<1>1. ASSUME NEW i \in Ids, DeleteLookup(t, i) PROVE IInv'
  <2> DEFINE c == [pc |-> "notify", id |-> i]
  <2>1. c \in HandlerType /\ c.pc = "notify" /\ c.id = i /\ i # NoId
    BY Records, NoIdOutside DEF HandlerPcs
  <2>2. /\ h[t].pc = "idle" /\ h' = [h EXCEPT ![t] = c] /\ proj[i].status # "none"
        /\ UNCHANGED <<proj, kv, subVars, cr, recVars, ctlVars>>
    BY <1>1 DEF DeleteLookup, At, Live
  <2> HIDE DEF c
  <2>3. /\ RowsStay /\ proj' \in [Ids -> RowType]
        /\ \A j \in Ids : proj'[j].status # "none" => proj'[j].slug \in Slugs
    BY <2>2 DEF RowsStay, TypeOK
  <2> QED
    BY <1>u, <2>1, <2>2, <2>3, OneHandler DEF CreatePcs
<1>2. CASE DeleteRow(t)
  <2> DEFINE gone(j) == Live(j) /\ Slug(j) = Slug(h[t].id)
             r(j) == [proj[j] EXCEPT !.status = "deleted", !.here = FALSE]
  <2>1. /\ h[t].pc = "remove" /\ h' = [h EXCEPT ![t] = IdleH]
        /\ proj' = [j \in Ids |-> IF gone(j) THEN r(j) ELSE proj[j]]
        /\ UNCHANGED <<kv, subVars, cr, recVars, ctlVars>>
    BY <1>2 DEF DeleteRow, At
  <2>2. \A j \in Ids : r(j) \in RowType /\ r(j).status = "deleted" /\ r(j).slug = proj[j].slug
    BY Records, InRange
  <2>3. \A j \in Ids : gone(j) => proj[j].status # "none"
    BY DEF Live
  <2> HIDE DEF gone, r
  <2>4. /\ proj' \in [Ids -> RowType]
        /\ \A j \in Ids : /\ proj'[j] = proj[j] \/ proj'[j].status = "deleted"
                          /\ proj'[j].slug = proj[j].slug
                          /\ proj[j].status = "none" => proj'[j] = proj[j]
    BY <2>1, <2>2, <2>3, InRange
  <2>5. RowsStay /\ \A j \in Ids : proj'[j].status # "none" => proj'[j].slug \in Slugs
    BY <2>4 DEF RowsStay, TypeOK
  <2>6. /\ IdleH \in HandlerType /\ IdleH.pc = "idle" /\ IdleH.id = NoId
        /\ IdleH.pc \notin CreatePcs /\ IdleH.pc \notin {"write", "request"}
    BY Records DEF CreatePcs
  <2> QED
    BY <1>u, <2>1, <2>4, <2>5, <2>6, OneHandler
<1> QED
  BY <1>1, <1>2

\* The provisioning request: what it asks for, its handler was to ask for.
LEMMA RequestInv == ASSUME IInv, NEW t \in Handlers, RequestProvisioning(t) PROVE IInv'
<1> USE DEF IInv
<1>1. CASE up
  <2> USE DEF PlaneInv, recVars, hist, ctlVars
  <2> DEFINE c == [h[t] EXCEPT !.pc = "wait"]
             m == h[t].id
  <2>0. /\ h[t].pc = "request" /\ h' = [h EXCEPT ![t] = c] /\ queue' = Append(queue, m)
        /\ UNCHANGED <<proj, kv, sub, cr, recVars, ctlVars>>
    BY <1>1 DEF RequestProvisioning, At, Goto
  <2>m. m \in Ids /\ m # NoId /\ proj[m].status # "none" /\ h[t] \in HandlerType
    BY <2>0, InRange, NoIdOutside DEF RowInv
  <2>c. c \in HandlerType /\ c.pc = "wait" /\ c.id = m
    BY <2>m, Records DEF HandlerPcs
  <2> HIDE DEF c
  <2>1. \A u \in Handlers : h'[u] = IF u = t THEN c ELSE h[u]
    BY <2>0 DEF TypeOK
  <2>2. /\ h' \in [Handlers -> HandlerType]
        /\ \A u \in Handlers : h'[u].pc = "idle" <=> h'[u].id = NoId
    BY <2>0, <2>1, <2>c, <2>m DEF TypeOK
  <2>3. /\ queue' \in Seq(Ids) /\ Len(queue) \in Nat /\ Len(queue') = Len(queue) + 1
        /\ \A n \in 1 .. Len(queue) : queue'[n] = queue[n]
        /\ queue'[Len(queue) + 1] = m
    BY <2>0, <2>m DEF TypeOK
  <2>4. \A n \in 1 .. Len(queue') : n \in 1 .. Len(queue) \/ n = Len(queue) + 1
    BY <2>3
  <2>5. HostInv'
    BY <2>0, HostKept
  <2>6. RowInv'
    <3>1. \A n \in 1 .. Len(queue') : proj[queue'[n]].status # "none"
      BY <2>m, <2>3, <2>4 DEF RowInv
    <3>2. \A u \in Handlers : h'[u].id # NoId => proj[h'[u].id].status # "none"
      BY <2>1, <2>c, <2>m DEF RowInv
    <3> QED
      BY <2>0, <3>1, <3>2 DEF RowInv, Slug
  \* what is asked for in the queue was in the queue, or was this handler's to ask
  <2>7. \A n \in 1 .. Len(queue'), i \in Ids : Asked(n, i)' =>
           \/ n \in 1 .. Len(queue) /\ Asked(n, i)
           \/ n = Len(queue) + 1 /\ Asks(t, i)
    BY <2>0, <2>3, <2>4 DEF Asked, Asks
  <2>8. \A u \in Handlers, i \in Ids : Asks(u, i)' => u # t /\ Asks(u, i)
    BY <2>1, <2>c DEF Asks
  <2>9. AskInv'
    <3>1. \A u, v \in Handlers :
             h'[u].id = h'[v].id /\ h'[u].pc \in CreatePcs /\ h'[v].pc \in CreatePcs => u = v
      BY <2>0, <2>1, <2>c DEF AskInv, CreatePcs
    <3>2. \A k, n \in 1 .. Len(queue'), i \in Ids : Asked(k, i)' /\ Asked(n, i)' => k = n
      BY <2>7 DEF AskInv
    <3>3. \A u \in Handlers, n \in 1 .. Len(queue'), i \in Ids : ~(Asks(u, i)' /\ Asked(n, i)')
      <4>1. \A u \in Handlers, i \in Ids : Asks(u, i) /\ Asks(t, i) => u = t
        BY DEF AskInv, Asks, CreatePcs
      <4> QED
        BY <2>7, <2>8, <4>1 DEF AskInv
    <3> QED
      BY <3>1, <3>2, <3>3 DEF AskInv
  <2>10. FreshInv'
    <3>1. \A i \in Ids : Untouched(i) => Untouched(i)'
      BY <2>0 DEF Untouched
    <3> QED
      BY <2>7, <2>8, <3>1 DEF FreshInv
  <2>11. TypeOK'
    BY <2>0, <2>2, <2>3 DEF TypeOK
  <2> QED
    BY <2>5, <2>6, <2>9, <2>10, <2>11
<1>2. CASE ~up
  BY <1>2, EndOfWait DEF RequestProvisioning, At, subVars
<1> QED
  BY <1>1, <1>2

\* A reply reaches the handlers that wait for it.
LEMMA ReplyOK ==
    ASSUME IInv, NEW i, NEW ok \in BOOLEAN, Reply(i, ok), UNCHANGED proj
    PROVE  /\ h' \in [Handlers -> HandlerType]
           /\ \A t \in Handlers :
                 /\ h'[t].pc = "idle" <=> h'[t].id = NoId
                 /\ h'[t].id # NoId => h'[t].id \in Ids /\ proj'[h'[t].id].status # "none"
                 /\ h'[t].pc \in CreatePcs => h'[t].id = h[t].id /\ h[t].pc \in CreatePcs
                 /\ h'[t].pc \in {"write", "request"} => h[t].pc \in {"write", "request"}
<1> USE DEF IInv
<1>0. \A t \in Handlers : /\ h[t] \in HandlerType
                          /\ h[t].id # NoId => h[t].id \in Ids /\ proj[h[t].id].status # "none"
                          /\ h[t].pc = "idle" <=> h[t].id = NoId
  BY InRange DEF PlaneInv, RowInv, HandlerType, TypeOK
<1>1. h' = [t \in Handlers |->
              IF h[t].pc = "wait" /\ h[t].id = i THEN Outcome(t, ok) ELSE h[t]]
  BY DEF Reply, At
<1>2. \A t \in Handlers : \/ h'[t] = h[t]
                          \/ h[t].pc = "wait" /\ h'[t] = Outcome(t, ok)
  BY <1>1
<1>3. ASSUME NEW t \in Handlers
      PROVE  /\ h'[t] \in HandlerType
             /\ h'[t].pc = "idle" <=> h'[t].id = NoId
             /\ h'[t].id # NoId => h'[t].id \in Ids /\ proj'[h'[t].id].status # "none"
             /\ h'[t].pc \in CreatePcs => h'[t].id = h[t].id /\ h[t].pc \in CreatePcs
             /\ h'[t].pc \in {"write", "request"} => h[t].pc \in {"write", "request"}
  <2>1. CASE h'[t] = h[t]
    BY <1>0, <2>1
  <2>2. CASE h[t].pc = "wait" /\ h'[t] = Outcome(t, ok)
    <3> DEFINE c == Outcome(t, ok)
    <3>0. /\ c \in HandlerType /\ c.pc \in {"idle", "ok", "failed"}
          /\ c.pc = "idle" <=> c.id = NoId
          /\ c.pc # "idle" => c.id = h[t].id
      BY <2>2, OutcomeOK, Records
    <3> HIDE DEF c
    <3>1. /\ h'[t] \in HandlerType /\ h'[t].pc \in {"idle", "ok", "failed"}
          /\ h'[t].pc = "idle" <=> h'[t].id = NoId
          /\ h'[t].pc # "idle" => h'[t].id = h[t].id
      BY <2>2, <3>0 DEF c
    <3> QED
      BY <1>0, <2>2, <3>1 DEF CreatePcs
  <2> QED
    BY <1>2, <2>1, <2>2
<1>4. h' \in [Handlers -> HandlerType]
  <2>1. \A t \in Handlers :
           (IF h[t].pc = "wait" /\ h[t].id = i THEN Outcome(t, ok) ELSE h[t]) \in HandlerType
    BY <1>1, <1>3
  <2> QED
    BY <1>1, <2>1
<1> QED
  BY <1>3, <1>4

\* A message is taken from the queue.
LEMMA Taken ==
    ASSUME IInv, Received, queue' = Tail(queue)
    PROVE  /\ queue' \in Seq(Ids) /\ Len(queue') \in Nat /\ Shifted(1)
           /\ 1 \in 1 .. Len(queue) /\ Head(queue) = queue[1] /\ Head(queue) \in Ids
           /\ proj[Head(queue)].status # "none" /\ Slug(Head(queue)) \in Slugs
<1>1. queue \in Seq(Ids) /\ queue # <<>>
  BY DEF IInv, TypeOK, Received
<1>2. Len(queue) \in Nat /\ Len(queue) # 0
  BY <1>1
<1>3. /\ queue' \in Seq(Ids) /\ Len(queue') = Len(queue) - 1
      /\ \A n \in 1 .. Len(queue') : queue'[n] = queue[n + 1]
  BY <1>1, <1>2
<1>4. Len(queue') \in Nat /\ Shifted(1)
  BY <1>2, <1>3 DEF Shifted
<1>5. 1 \in 1 .. Len(queue) /\ Head(queue) = queue[1]
  BY <1>1, <1>2
<1>6. queue[1] \in Ids /\ proj[queue[1]].status # "none"
  BY <1>5, InRange DEF IInv, PlaneInv, RowInv
<1>7. Slug(queue[1]) \in Slugs
  BY <1>6 DEF IInv, TypeOK, Slug
<1> QED
  BY <1>1, <1>3, <1>4, <1>5, <1>6, <1>7

\* The callback creates a resource that nobody has worked on.
LEMMA SubCreateInv == ASSUME IInv, SubCreate PROVE IInv'
<1> USE DEF IInv, hist
<1> DEFINE i == Head(queue)
           s == Slug(i)
           new == cr[s].id = NoId
           c == [id |-> i, phase |-> ""]
<1>1. /\ cr' = IF new THEN [cr EXCEPT ![s] = c] ELSE cr
      /\ work' = IF new THEN work \cup {s} ELSE work
      /\ sub' = i /\ queue' = Tail(queue)
      /\ UNCHANGED <<cpVars, rec, shared, deployed, secret, registered, hist, ctlVars>>
  BY DEF SubCreate
<1>2. /\ queue' \in Seq(Ids) /\ Len(queue') \in Nat /\ Shifted(1)
      /\ 1 \in 1 .. Len(queue) /\ i = queue[1] /\ i \in Ids
      /\ proj[i].status # "none" /\ s \in Slugs
  BY <1>1, Taken DEF SubCreate
<1>3. Asked(1, i)
  BY <1>2 DEF Asked
<1>4. Untouched(i) /\ i # NoId
  BY <1>2, <1>3, NoIdOutside DEF PlaneInv, FreshInv
<1>5. c \in CRType /\ c.id = i /\ c.phase = ""
  BY <1>2 DEF CRType, Phases
<1> HIDE DEF i, s, c
<1>7. /\ cr' \in [Slugs -> CRType]
      /\ \A q \in Slugs : cr'[q] = IF q = s /\ new THEN c ELSE cr[q]
  BY <1>1, <1>2, <1>5 DEF TypeOK
<1>8. TypeOK'
  BY <1>1, <1>2, <1>7 DEF TypeOK, cpVars, ctlVars
<1>9. PlaneInv'
  <2>1. \A q \in Slugs : \/ cr'[q].id \in {cr[q].id, NoId}
                         \/ /\ cr'[q].id \in Ids /\ Slug(cr'[q].id) = q
                            /\ proj[cr'[q].id].status # "none"
    BY <1>2, <1>5, <1>7 DEF s
  <2>2. \A t \in Handlers : ~Asks(t, i)
    BY <1>2, <1>3 DEF PlaneInv, AskInv
  <2>3. \A n \in 1 .. Len(queue') : ~Asked(n + 1, i)
    <3>1. \A n \in 1 .. Len(queue') : n + 1 \in 1 .. Len(queue) /\ n + 1 # 1
      BY <1>2 DEF Shifted
    <3> QED
      BY <1>2, <1>3, <3>1 DEF PlaneInv, AskInv
  <2>4. \A j \in Ids : Untouched(j) => \/ Untouched(j)'
                                       \/ /\ \A t \in Handlers : ~Asks(t, j)
                                          /\ \A n \in 1 .. Len(queue') : ~Asked(n + 1, j)
    <3>1. \A j \in Ids : Untouched(j) /\ j # i => Untouched(j)'
      BY <1>1, <1>5, <1>7 DEF Untouched
    <3> QED
      BY <2>2, <2>3, <3>1
  <2>5. RowsStay
    BY <1>1 DEF RowsStay, cpVars
  <2>6. \A t \in Handlers :
              /\ h'[t].id # NoId => h'[t].id \in Ids /\ proj'[h'[t].id].status # "none"
              /\ h'[t].pc \in CreatePcs => h'[t].id = h[t].id /\ h[t].pc \in CreatePcs
              /\ h'[t].pc \in {"write", "request"} => h[t].pc \in {"write", "request"}
    BY <1>1, InRange DEF PlaneInv, RowInv, HandlerType, cpVars
  <2> QED
    BY <1>1, <1>2, <2>1, <2>4, <2>5, <2>6, NothingAsked
<1>10. HostInv'
  <2>1. NewInv'
    BY <1>1, <1>4, <1>5, <1>7 DEF HostInv, NewInv, Untouched
  <2>2. PassInv'
    <3>1. rec.pc # "idle" => rec.slug \in Slugs
      BY DEF TypeOK, PlaneInv, RowInv, Slug, PassType
    <3>2. i # rec.id
      BY <1>4 DEF Untouched
    <3>3. rec.pc # "idle" =>
             (cr'[rec.slug].id = rec.id) <=> (cr'[rec.slug].phase # "")
      BY <1>2, <1>5, <1>7, <3>1, <3>2 DEF HostInv, PassInv, NewInv
    <3> QED
      BY <1>1, <3>3 DEF HostInv, PassInv, InPlace
  <2>3. ReadyInv'
    BY <1>1, <1>5, <1>7 DEF HostInv, ReadyInv
  <2>4. KeyInv'
    BY <1>1, <1>4, <1>5, <1>7 DEF HostInv, KeyInv, Untouched
  <2> QED
    BY <2>1, <2>2, <2>3, <2>4 DEF HostInv
<1> QED
  BY <1>8, <1>9, <1>10

\* The callback fails or answers.
LEMMA SubInv == ASSUME IInv, SubCreateError \/ SubPoll PROVE IInv'
<1> USE DEF IInv, recVars, hist
<1>1. CASE SubCreateError
  <2>1. /\ Received /\ Reply(Head(queue), FALSE) /\ queue' = Tail(queue)
        /\ UNCHANGED <<proj, kv, sub, cr, recVars, up>>
    BY <1>1 DEF SubCreateError
  <2>2. queue' \in Seq(Ids) /\ Len(queue') \in Nat /\ Shifted(1)
    BY <2>1, Taken
  <2>3. /\ h' \in [Handlers -> HandlerType]
        /\ \A t \in Handlers :
              /\ h'[t].pc = "idle" <=> h'[t].id = NoId
              /\ h'[t].id # NoId => h'[t].id \in Ids /\ proj'[h'[t].id].status # "none"
              /\ h'[t].pc \in CreatePcs => h'[t].id = h[t].id /\ h[t].pc \in CreatePcs
              /\ h'[t].pc \in {"write", "request"} => h[t].pc \in {"write", "request"}
    BY <2>1, ReplyOK
  <2>4. faults' \in 0 .. MaxFaults
    BY <1>1, FaultOK DEF SubCreateError
  <2>5. TypeOK'
    BY <2>1, <2>2, <2>3, <2>4 DEF TypeOK
  <2>6. RowsStay /\ \A i \in Ids : Untouched(i) => Untouched(i)'
    BY <2>1 DEF RowsStay, Untouched
  <2>7. PlaneInv'
    BY <2>1, <2>2, <2>3, <2>6, NothingAsked
  <2> QED
    BY <2>1, <2>3, <2>5, <2>7, HostKept
<1>2. CASE SubPoll
  <2>1. /\ \E ok \in BOOLEAN : Reply(sub, ok)
        /\ sub' = NoId /\ UNCHANGED <<proj, kv, queue, cr, recVars, ctlVars>>
    BY <1>2 DEF SubPoll
  <2>2. /\ h' \in [Handlers -> HandlerType]
        /\ \A t \in Handlers :
              /\ h'[t].pc = "idle" <=> h'[t].id = NoId
              /\ h'[t].id # NoId => h'[t].id \in Ids /\ proj'[h'[t].id].status # "none"
              /\ h'[t].pc \in CreatePcs => h'[t].id = h[t].id /\ h[t].pc \in CreatePcs
              /\ h'[t].pc \in {"write", "request"} => h[t].pc \in {"write", "request"}
    BY <2>1, ReplyOK
  <2>3. TypeOK'
    BY <2>1, <2>2 DEF TypeOK, ctlVars
  <2>4. RowsStay /\ \A i \in Ids : Untouched(i) => Untouched(i)'
    BY <2>1 DEF RowsStay, Untouched
  <2>5. 0 \in Nat /\ Shifted(0) /\ Len(queue') \in Nat
    <3>1. Len(queue) \in Nat
      BY DEF TypeOK
    <3> QED
      BY <2>1, <3>1 DEF Shifted
  <2>6. PlaneInv'
    BY <2>1, <2>2, <2>4, <2>5, NothingAsked
  <2> QED
    BY <2>1, <2>2, <2>3, <2>6, HostKept
<1> QED
  BY <1>1, <1>2

\* Somebody deletes a resource.
LEMMA DeleteResourceInv ==
    ASSUME IInv, NEW s \in Slugs, DeleteResource(s) PROVE IInv'
<1> USE DEF IInv, cpVars, subVars, ctlVars, hist
<1>1. /\ cr' = [cr EXCEPT ![s] = NoCR] /\ work' \subseteq Slugs
      /\ UNCHANGED <<cpVars, subVars, rec, shared, deployed, secret, registered, hist, ctlVars>>
  BY DEF DeleteResource, TypeOK
<1>2. NoCR \in CRType /\ NoCR.id = NoId /\ NoCR.phase = ""
  BY DEF NoCR, CRType, Phases
<1>3. cr' \in [Slugs -> CRType] /\ \A q \in Slugs : cr'[q] = IF q = s THEN NoCR ELSE cr[q]
  BY <1>1, <1>2 DEF TypeOK
<1>4. TypeOK'
  BY <1>1, <1>3 DEF TypeOK
<1>5. RowsStay /\ \A i \in Ids : Untouched(i) => Untouched(i)'
  BY <1>1, <1>2, <1>3, NoIdOutside DEF RowsStay, Untouched
<1>6. PlaneInv'
  <2>1. 0 \in Nat /\ Shifted(0) /\ Len(queue') \in Nat
    <3>1. Len(queue) \in Nat
      BY DEF TypeOK
    <3> QED
      BY <1>1, <3>1 DEF Shifted
  <2>2. \A t \in Handlers : h[t].id # NoId => h[t].id \in Ids /\ proj[h[t].id].status # "none"
    BY InRange DEF PlaneInv, RowInv, HandlerType
  <2> QED
    BY <1>1, <1>2, <1>3, <1>5, <2>1, <2>2, NothingAsked
<1>7. NewInv'
  BY <1>1, <1>2, <1>3 DEF HostInv, NewInv
<1>8. PassInv'
  <2>1. rec.pc # "idle" => rec.slug \in Slugs /\ rec.id # NoId
    BY DEF TypeOK, PlaneInv, RowInv, Slug, PassType
  <2> QED
    BY <1>1, <1>2, <1>3, <2>1 DEF HostInv, PassInv, InPlace
<1>9. ReadyInv' /\ KeyInv'
  BY <1>1, <1>2, <1>3 DEF HostInv, ReadyInv, KeyInv
<1> QED
  BY <1>4, <1>6, <1>7, <1>8, <1>9 DEF HostInv

-----------------------------------------------------------------------------
(* The reconciler                                                          *)

\* During a pass the worker has a project and its name.
LEMMA Busy ==
    ASSUME IInv, rec.pc # "idle"
    PROVE  /\ rec.id \in Ids /\ rec.id # NoId /\ rec.slug \in Slugs
           /\ \A s \in Slugs : cr[s].id = rec.id => s = rec.slug
<1>1. rec.id \in Ids /\ rec.id # NoId
  BY DEF IInv, TypeOK, PassType
<1>2. proj[rec.id].status # "none" /\ Slug(rec.id) = rec.slug
  BY <1>1 DEF IInv, PlaneInv, RowInv
<1> QED
  BY <1>1, <1>2 DEF IInv, PlaneInv, RowInv, TypeOK, Slug

\* No pass.
LEMMA NoPass == IdleR \in PassType /\ IdleR.pc = "idle" /\ IdleR.id = NoId
  BY DEF IdleR, PassType, RecPcs

\* The worker goes on to another step of its pass.
LEMMA StepOK ==
    ASSUME TypeOK, rec.pc # "idle", NEW x \in RecPcs \ {"idle"}, NEW b \in BOOLEAN, Step(x, b)
    PROVE  /\ rec' \in PassType /\ rec'.pc = x /\ rec'.slug = rec.slug
           /\ rec'.id = rec.id /\ (x = "seal" => rec'.key = rec.key)
           /\ rec'.ok => rec.ok /\ b
           /\ rec'.pc = "idle" <=> rec'.id = NoId
<1> DEFINE c == rec.ok /\ b
           k == IF x = "seal" THEN rec.key ELSE 0
<1>1. c \in BOOLEAN /\ (c => rec.ok /\ b)
  OBVIOUS
<1>2. rec' = [rec EXCEPT !.pc = x, !.ok = c, !.key = k] /\ rec \in PassType
  BY DEF Step, TypeOK
<1>3. k \in Keys \cup {0} /\ (x = "seal" => k = rec.key)
  BY <1>2 DEF PassType
<1> HIDE DEF c, k
<1>4. /\ rec' \in PassType /\ rec'.pc = x /\ rec'.slug = rec.slug
      /\ rec'.id = rec.id /\ rec'.key = k /\ rec'.ok = c
  BY <1>1, <1>2, <1>3 DEF PassType
<1> QED
  BY <1>1, <1>3, <1>4 DEF TypeOK

\* A status update changes the phase of the resource that was read, or nothing.
LEMMA PhaseOK ==
    ASSUME TypeOK, NEW s \in Slugs, NEW i, NEW p \in Phases, NEW b, NEW w, SetPhase(s, i, p, b, w)
    PROVE  /\ cr' \in [Slugs -> CRType] /\ work' \subseteq Slugs
           /\ \A q \in Slugs : /\ cr'[q].id = cr[q].id
                               /\ q # s \/ cr[s].id # i => cr'[q] = cr[q]
           /\ cr'[s] = cr[s] \/ cr'[s].phase = p
<1> DEFINE c == [cr[s] EXCEPT !.phase = p]
<1>1. cr[s] \in CRType
  BY DEF TypeOK
<1>2. c \in CRType /\ c.id = cr[s].id /\ c.phase = p
  BY <1>1 DEF CRType
<1>3. cr' = IF cr[s].id = i /\ w THEN [cr EXCEPT ![s] = c] ELSE cr
  BY DEF SetPhase
<1> HIDE DEF c
<1>4. work' \subseteq Slugs
  BY DEF SetPhase, TypeOK
<1> QED
  BY <1>2, <1>3, <1>4 DEF TypeOK

\* NothingAsked for a step of the reconciler.
LEMMA RecPlane ==
    ASSUME IInv, UNCHANGED <<proj, h, queue>>,
           \A s \in Slugs : cr'[s].id = cr[s].id,
           rec'.id # NoId => \/ rec'.id = rec.id /\ rec'.slug = rec.slug
                             \/ rec'.slug \in Slugs /\ rec'.id = cr[rec'.slug].id,
           \A i \in Ids : secret'[i] # 0 => secret[i] # 0 \/ i = rec.id
    PROVE  PlaneInv'
<1> USE DEF IInv
<1>1. 0 \in Nat /\ Shifted(0) /\ Len(queue') \in Nat
  <2>1. Len(queue) \in Nat
    BY DEF TypeOK
  <2> QED
    BY <2>1 DEF Shifted
<1>2. RowsStay
  BY DEF RowsStay
<1>3. \A i \in Ids : Untouched(i) => Untouched(i)'
  BY NoIdOutside DEF Untouched
<1>4. \A t \in Handlers :
         /\ h'[t].id # NoId => h'[t].id \in Ids /\ proj'[h'[t].id].status # "none"
         /\ h'[t].pc \in CreatePcs => h'[t].id = h[t].id /\ h[t].pc \in CreatePcs
         /\ h'[t].pc \in {"write", "request"} => h[t].pc \in {"write", "request"}
  BY InRange DEF PlaneInv, RowInv, HandlerType
<1> QED
  BY <1>1, <1>2, <1>3, <1>4, NothingAsked

\* A step in the middle of a pass.
LEMMA MidPass ==
    ASSUME IInv, rec.pc # "idle", UNCHANGED <<cpVars, subVars, cr, work, unannounced, up>>,
           rec' \in PassType, rec'.pc # "idle", rec'.slug = rec.slug, rec'.id = rec.id,
           shared \subseteq shared', shared' \subseteq SharedParts,
           deployed \subseteq deployed', deployed' \subseteq Ids,
           secret' \in [Ids -> Keys \cup {0}], unseen' \subseteq Ids,
           \A i \in Ids : secret'[i] # secret[i] => i = rec.id /\ secret[i] = 0,
           registered' \in [Slugs -> Keys \cup {0}], faults' \in 0 .. MaxFaults,
           InPlace', KeyInv'
    PROVE  IInv'
<1> USE DEF IInv, cpVars, subVars
<1>0. rec.id \in Ids /\ rec.id # NoId /\ rec.slug \in Slugs
  BY Busy
<1>1. TypeOK'
  BY <1>0 DEF TypeOK
<1>2. PlaneInv'
  BY RecPlane
<1>3. \A s \in Slugs : cr[s].id # NoId => cr[s].id \in Ids
  BY InRange DEF CRType
<1>4. NewInv'
  BY <1>3 DEF HostInv, NewInv
<1>5. PassInv'
  BY DEF HostInv, PassInv
<1>6. ReadyInv'
  <2>1. \A s \in Slugs : cr[s].phase = "Ready" => cr[s].id \in Ids
    BY <1>3 DEF HostInv, NewInv
  <2> QED
    BY <2>1 DEF HostInv, ReadyInv
<1> QED
  BY <1>1, <1>2, <1>4, <1>5, <1>6 DEF HostInv

\* Steps of a pass that do not touch keys.
LEMMA PartsInv ==
    ASSUME IInv, NEW ok \in BOOLEAN,
           RecNamespace \/ RecShared(ok) \/ RecHasKey \/ RecNKeyError \/ RecDeploy(ok) \/ RecSealError
    PROVE  IInv'
<1> USE DEF IInv, RecAt, ctlVars, hist
<1>f. Fault => faults' \in 0 .. MaxFaults
  BY FaultOK
<1>t. /\ faults \in 0 .. MaxFaults /\ shared \subseteq SharedParts /\ deployed \subseteq Ids
      /\ secret \in [Ids -> Keys \cup {0}] /\ registered \in [Slugs -> Keys \cup {0}]
      /\ unseen \subseteq Ids
  BY DEF TypeOK
<1>1. CASE RecNamespace
  <2>1. /\ rec.pc = "namespace" /\ Step("shared", TRUE) /\ shared' = shared \cup {"namespace"}
        /\ UNCHANGED <<cpVars, subVars, cr, work, deployed, secret, registered, hist, ctlVars>>
    BY <1>1 DEF RecNamespace
  <2>2. /\ rec' \in PassType /\ rec'.pc = "shared" /\ rec'.slug = rec.slug /\ rec'.id = rec.id
    BY <2>1, StepOK DEF RecPcs
  <2>3. InPlace' /\ KeyInv'
    BY <2>1, <2>2 DEF InPlace, HostInv, KeyInv
  <2>4. shared' \subseteq SharedParts
    BY <1>t, <2>1 DEF SharedParts
  <2> QED
    BY <1>t, <2>1, <2>2, <2>3, <2>4, MidPass
<1>2. CASE RecShared(ok)
  <2>1. /\ rec.pc = "shared" /\ Step("nkey", ok)
        /\ shared' = IF ok THEN shared \cup {"rbac and secrets"} ELSE shared
        /\ faults' \in 0 .. MaxFaults
        /\ UNCHANGED <<cpVars, subVars, cr, work, deployed, secret, registered, hist, up>>
    BY <1>2, <1>f, <1>t DEF RecShared
  <2>2. /\ rec' \in PassType /\ rec'.pc = "nkey" /\ rec'.slug = rec.slug /\ rec'.id = rec.id
        /\ rec'.ok => rec.ok /\ ok
    BY <2>1, StepOK DEF RecPcs
  <2>3. shared' \subseteq SharedParts /\ "namespace" \in shared /\ (ok => shared' = SharedParts)
    BY <1>t, <2>1 DEF SharedParts, HostInv, PassInv, InPlace
  <2>4. InPlace' /\ KeyInv'
    BY <2>1, <2>2, <2>3 DEF InPlace, HostInv, KeyInv
  <2> QED
    BY <1>t, <2>1, <2>2, <2>3, <2>4, MidPass
<1>3. CASE RecHasKey
  <2>1. /\ rec.pc = "nkey" /\ Step("deploy", TRUE) /\ secret[rec.id] # 0
        /\ UNCHANGED <<cpVars, subVars, cr, work, shared, deployed, secret, registered, hist, ctlVars>>
    BY <1>3 DEF RecHasKey
  <2>2. /\ rec' \in PassType /\ rec'.pc = "deploy" /\ rec'.slug = rec.slug /\ rec'.id = rec.id
        /\ rec'.ok => rec.ok
    BY <2>1, StepOK DEF RecPcs
  <2>3. InPlace' /\ KeyInv'
    BY <2>1, <2>2 DEF InPlace, HostInv, PassInv, KeyInv
  <2> QED
    BY <1>t, <2>1, <2>2, <2>3, MidPass
<1>4. CASE RecNKeyError \/ RecSealError
  <2>1. /\ rec.pc \in {"nkey", "seal"} /\ Step("deploy", FALSE) /\ faults' \in 0 .. MaxFaults
        /\ UNCHANGED <<cpVars, subVars, cr, work, shared, deployed, secret, registered, hist, up>>
    BY <1>4, <1>f DEF RecNKeyError, RecSealError
  <2>2. /\ rec' \in PassType /\ rec'.pc = "deploy" /\ rec'.slug = rec.slug /\ rec'.id = rec.id
        /\ ~rec'.ok
    BY <2>1, StepOK DEF RecPcs
  <2>3. InPlace' /\ KeyInv'
    BY <2>1, <2>2 DEF InPlace, HostInv, PassInv, KeyInv
  <2> QED
    BY <1>t, <2>1, <2>2, <2>3, MidPass
<1>5. CASE RecDeploy(ok)
  <2>1. /\ rec.pc = "deploy" /\ Step("finish", ok) /\ faults' \in 0 .. MaxFaults
        /\ deployed' = IF ok THEN deployed \cup {rec.id} ELSE deployed
        /\ UNCHANGED <<cpVars, subVars, cr, work, shared, secret, registered, hist, up>>
    BY <1>5, <1>f, <1>t DEF RecDeploy
  <2>2. /\ rec' \in PassType /\ rec'.pc = "finish" /\ rec'.slug = rec.slug /\ rec'.id = rec.id
        /\ rec'.ok => rec.ok /\ ok
    BY <2>1, StepOK DEF RecPcs
  <2>3. deployed \subseteq deployed' /\ deployed' \subseteq Ids /\ (ok => rec.id \in deployed')
    BY <1>t, <2>1, Busy
  <2>4. InPlace' /\ KeyInv'
    BY <2>1, <2>2, <2>3 DEF InPlace, HostInv, PassInv, KeyInv
  <2> QED
    BY <1>t, <2>1, <2>2, <2>3, <2>4, MidPass
<1> QED
  BY <1>1, <1>2, <1>3, <1>4, <1>5

\* reconcileAgentNKey: a key is made, registered and put into its secret.
LEMMA KeysInv ==
    ASSUME IInv, NEW answered \in BOOLEAN, RecGenerateKey \/ RecRegister(answered) \/ RecSeal
    PROVE  IInv'
<1> USE DEF IInv, RecAt, ctlVars, hist
<1>f. Fault => faults' \in 0 .. MaxFaults
  BY FaultOK
<1>t. /\ faults \in 0 .. MaxFaults /\ shared \subseteq SharedParts /\ deployed \subseteq Ids
      /\ secret \in [Ids -> Keys \cup {0}] /\ registered \in [Slugs -> Keys \cup {0}]
      /\ rec \in PassType /\ unseen \subseteq Ids
  BY DEF TypeOK
<1>k. rec.key \in Keys \cup {0}
  BY <1>t DEF PassType
<1>1. CASE RecGenerateKey
  <2>1. /\ rec.pc = "nkey"
        /\ unseen' = IF secret[rec.id] # 0 THEN unseen \cup {rec.id} ELSE unseen
        /\ rec' = [rec EXCEPT !.pc = "register", !.key = FreshKey]
        /\ UNCHANGED <<cpVars, subVars, cr, work, shared, deployed, secret, registered,
                       unannounced, up>>
    BY <1>1 DEF RecGenerateKey
  <2>f. faults' \in 0 .. MaxFaults
    <3> DEFINE ok == secret[rec.id] = 0
    <3>1. MayFail(ok) /\ ok \in BOOLEAN
      BY <1>1 DEF RecGenerateKey
    <3> HIDE DEF ok
    <3> QED
      BY <3>1, FaultOK
  <2>2. FreshKey \in Keys /\ FreshKey # 0
    BY FreshKeyType
  <2>3. /\ rec' \in PassType /\ rec'.pc = "register" /\ rec'.slug = rec.slug /\ rec'.id = rec.id
        /\ rec'.key = FreshKey /\ rec'.ok = rec.ok
    BY <1>t, <2>1, <2>2 DEF PassType, RecPcs
  <2>4. /\ unseen \subseteq unseen' /\ unseen' \subseteq Ids
        /\ rec.id \notin unseen' => secret[rec.id] = 0
    BY <1>t, <2>1, Busy
  <2>5. InPlace'
    BY <2>1, <2>2, <2>3 DEF InPlace, HostInv, PassInv
  <2>6. KeyInv'
    BY <2>1, <2>3, <2>4 DEF HostInv, KeyInv
  <2> QED
    BY <1>t, <2>f, <2>1, <2>3, <2>4, <2>5, <2>6, MidPass
<1>2. CASE RecRegister(answered)
  <2>1. /\ rec.pc = "register" /\ faults' \in 0 .. MaxFaults
        /\ UNCHANGED <<cpVars, subVars, cr, work, shared, deployed, secret, hist, up>>
    BY <1>2, <1>f, <1>t DEF RecRegister
  <2>2. rec.id \in Ids /\ rec.slug \in Slugs /\ \A s \in Slugs : cr[s].id = rec.id => s = rec.slug
    BY <2>1, Busy
  <2>3. registered' = registered \/ registered' = [registered EXCEPT ![rec.slug] = rec.key]
    BY <1>2 DEF RecRegister, UpsertCredential
  <2>4. \/ /\ Step("seal", TRUE)
           /\ registered' = [registered EXCEPT ![rec.slug] = rec.key]
        \/ Step("deploy", FALSE)
    BY <1>2 DEF RecRegister, UpsertCredential
  <2>5. /\ rec' \in PassType /\ rec'.pc \in {"seal", "deploy"} /\ rec'.slug = rec.slug
        /\ rec'.id = rec.id /\ (rec'.ok => rec.ok /\ rec'.pc = "seal")
        /\ rec'.pc = "seal" => /\ registered' = [registered EXCEPT ![rec.slug] = rec.key]
                               /\ rec'.key = rec.key
    <3>1. CASE Step("seal", TRUE) /\ registered' = [registered EXCEPT ![rec.slug] = rec.key]
      BY <2>1, <3>1, StepOK DEF RecPcs
    <3>2. CASE Step("deploy", FALSE)
      <4>1. /\ rec' \in PassType /\ rec'.pc = "deploy" /\ rec'.slug = rec.slug
            /\ rec'.id = rec.id /\ ~rec'.ok
        BY <2>1, <3>2, StepOK DEF RecPcs
      <4> QED
        BY <4>1
    <3> QED
      BY <2>4, <3>1, <3>2
  <2>6. registered' \in [Slugs -> Keys \cup {0}]
        /\ \A s \in Slugs : s # rec.slug => registered'[s] = registered[s]
    BY <1>k, <1>t, <2>2, <2>3
  <2>7. rec'.pc = "seal" => registered'[rec.slug] = rec.key
    BY <1>t, <2>2, <2>5
  <2>8. InPlace'
    BY <2>1, <2>5 DEF InPlace, HostInv, PassInv
  <2>9. KeyInv'
    <3>1. secret[rec.id] = 0 \/ rec.id \in unseen
      BY <2>1 DEF HostInv, KeyInv
    \* the resource of that name is the pass's, or a new one that has no secret yet
    <3>2. cr[rec.slug].id # NoId /\ cr[rec.slug].id \notin unseen =>
             secret[cr[rec.slug].id] = 0
      BY <2>1, <2>2, <3>1 DEF HostInv, PassInv, NewInv
    <3> QED
      BY <2>1, <2>2, <2>5, <2>6, <2>7, <3>1, <3>2 DEF HostInv, KeyInv
  <2> QED
    BY <1>t, <2>1, <2>5, <2>6, <2>8, <2>9, MidPass
<1>3. CASE RecSeal
  <2>1. /\ rec.pc = "seal" /\ Step("deploy", TRUE)
        /\ secret' = IF secret[rec.id] = 0 THEN [secret EXCEPT ![rec.id] = rec.key] ELSE secret
        /\ UNCHANGED <<cpVars, subVars, cr, work, shared, deployed, registered, hist, ctlVars>>
    BY <1>3 DEF RecSeal
  <2>2. /\ rec.id \in Ids /\ rec.id # NoId /\ rec.slug \in Slugs
        /\ \A s \in Slugs : cr[s].id = rec.id => s = rec.slug
    BY <2>1, Busy
  <2>3. /\ rec' \in PassType /\ rec'.pc = "deploy" /\ rec'.slug = rec.slug /\ rec'.id = rec.id
        /\ rec'.ok => rec.ok
    BY <2>1, StepOK DEF RecPcs
  <2>4. /\ secret' \in [Ids -> Keys \cup {0}]
        /\ \A i \in Ids : secret'[i] # secret[i] => i = rec.id /\ secret[i] = 0
        /\ secret[rec.id] = 0 => secret'[rec.id] = rec.key
        /\ secret[rec.id] # 0 => secret'[rec.id] = secret[rec.id]
    BY <1>k, <1>t, <2>1, <2>2
  <2>5. rec.key # 0
    BY <2>1 DEF HostInv, PassInv, InPlace
  <2>6. InPlace'
    BY <2>1, <2>3, <2>4, <2>5 DEF InPlace, HostInv, PassInv
  <2>7. KeyInv'
    <3>1. rec.id \notin unseen => secret'[rec.id] = rec.key /\ registered[rec.slug] = rec.key
      BY <2>1, <2>4 DEF HostInv, KeyInv
    <3>2. \A s \in Slugs : cr[s].id # NoId => cr[s].id \in Ids
      BY InRange DEF CRType
    <3> QED
      BY <2>1, <2>2, <2>3, <2>4, <3>1, <3>2 DEF HostInv, KeyInv
  <2> QED
    BY <1>t, <2>1, <2>3, <2>4, <2>6, <2>7, MidPass
<1> QED
  BY <1>1, <1>2, <1>3

\* A name is put into the work queue, or taken from it.
LEMMA TakeInv ==
    ASSUME IInv, NEW s \in Slugs, NEW w \in BOOLEAN,
           RecGone(s) \/ RecPending(s) \/ RecStart(s, w) \/ WatchEvent(s)
    PROVE  IInv'
<1> USE DEF IInv, RecAt, cpVars, subVars, ctlVars, hist
<1>1. CASE RecGone(s) \/ WatchEvent(s)
  <2>1. UNCHANGED <<cpVars, subVars, cr, rec, shared, deployed, secret, registered, hist, ctlVars>>
        /\ work' \subseteq Slugs
    BY <1>1 DEF RecGone, WatchEvent, TypeOK
  <2>2. TypeOK'
    BY <2>1 DEF TypeOK
  <2> QED
    BY <2>1, <2>2, HostKept, RecPlane
<1>2. CASE RecPending(s)
  <2>i. rec.pc = "idle" /\ rec.id = NoId /\ cr[s] \in CRType
    BY <1>2 DEF RecPending, TypeOK
  <2>1. /\ cr[s].id # NoId /\ cr[s].phase = "" /\ SetPhase(s, cr[s].id, "Pending", TRUE, TRUE)
        /\ UNCHANGED <<cpVars, subVars, rec, shared, deployed, secret, registered, hist, ctlVars>>
    BY <1>2 DEF RecPending
  <2>2. /\ cr' \in [Slugs -> CRType] /\ work' \subseteq Slugs
        /\ \A q \in Slugs : /\ cr'[q].id = cr[q].id
                            /\ q = s => cr'[q].phase = "Pending"
                            /\ q # s => cr'[q] = cr[q]
    <3> DEFINE c == [cr[s] EXCEPT !.phase = "Pending"]
    <3>1. c \in CRType /\ c.id = cr[s].id /\ c.phase = "Pending"
      BY <2>i DEF CRType, Phases
    <3>2. cr' = [cr EXCEPT ![s] = c] /\ work' \subseteq Slugs
      BY <2>1 DEF SetPhase, TypeOK
    <3> HIDE DEF c
    <3> QED
      BY <3>1, <3>2 DEF TypeOK
  <2>3. TypeOK'
    BY <2>1, <2>2 DEF TypeOK
  <2>4. PlaneInv'
    BY <2>i, <2>1, <2>2, RecPlane
  <2>5. HostInv'
    <3>1. NewInv'
      BY <2>i, <2>1, <2>2 DEF HostInv, NewInv
    <3>2. PassInv' /\ ReadyInv'
      BY <2>i, <2>1, <2>2 DEF HostInv, PassInv, ReadyInv
    <3>3. KeyInv'
      BY <2>i, <2>1, <2>2 DEF HostInv, KeyInv
    <3> QED
      BY <3>1, <3>2, <3>3 DEF HostInv
  <2> QED
    BY <2>3, <2>4, <2>5
<1>3. CASE RecStart(s, w)
  <2>i. rec.pc = "idle" /\ rec.id = NoId /\ cr[s] \in CRType
    BY <1>3 DEF RecStart, TypeOK
  <2> DEFINE c == [cr[s] EXCEPT !.phase = "Provisioning"]
             r == [pc |-> "namespace", slug |-> s, id |-> cr[s].id, key |-> 0, ok |-> TRUE]
  <2>1. /\ cr[s].id # NoId /\ cr[s].phase # "" /\ rec' = r
        /\ cr' \in {cr, [cr EXCEPT ![s] = c]}
        /\ work' \subseteq work
        /\ UNCHANGED <<cpVars, subVars, shared, deployed, secret, registered, hist, up>>
    BY <1>3 DEF RecStart
  <2>f. faults' \in 0 .. MaxFaults
    <3>1. MayFail(w) \/ faults' = faults
      BY <1>3 DEF RecStart
    <3> QED
      BY <3>1, FaultOK DEF TypeOK
  <2>2. c \in CRType /\ c.id = cr[s].id /\ c.phase = "Provisioning"
    BY <2>i DEF CRType, Phases
  <2>3. r \in PassType /\ r.pc = "namespace" /\ r.slug = s /\ r.id = cr[s].id
    BY <2>i DEF CRType, PassType, RecPcs
  <2> HIDE DEF c, r
  <2>4. /\ cr' \in [Slugs -> CRType]
        /\ \A q \in Slugs : /\ cr'[q].id = cr[q].id
                            /\ \/ cr'[q] = cr[q]
                               \/ q = s /\ cr'[q].phase = "Provisioning"
    BY <2>1, <2>2 DEF TypeOK
  <2>5. cr'[s].phase # ""
    BY <2>1, <2>4
  <2>6. TypeOK'
    BY <2>1, <2>3, <2>4, <2>f DEF TypeOK
  <2>7. PlaneInv'
    BY <2>i, <2>1, <2>3, <2>4, RecPlane
  <2>8. \A q \in Slugs : cr[q].id = cr[s].id => q = s
    BY <2>1 DEF PlaneInv, RowInv
  <2>9. NewInv'
    BY <2>1, <2>3, <2>4, <2>5, <2>8 DEF HostInv, NewInv
  <2>10. PassInv'
    BY <2>1, <2>3, <2>4, <2>5 DEF PassInv, InPlace
  <2>11. ReadyInv'
    BY <2>1, <2>4 DEF HostInv, ReadyInv
  <2>12. KeyInv'
    BY <2>1, <2>3, <2>4 DEF HostInv, KeyInv
  <2> QED
    BY <2>6, <2>7, <2>9, <2>10, <2>11, <2>12 DEF HostInv
<1> QED
  BY <1>1, <1>2, <1>3

\* The last step of a pass, done or given up, sets the phase.
LEMMA EndInv ==
    ASSUME IInv, NEW written \in BOOLEAN,
           RecTemplateError \/ RecNamespaceError \/ RecFinish(written)
    PROVE  IInv'
<1> USE DEF IInv, RecAt, cpVars, subVars, ctlVars
<1>0. rec.pc # "idle"
  BY DEF RecTemplateError, RecNamespaceError, RecFinish
<1>1. /\ rec.id \in Ids /\ rec.id # NoId /\ rec.slug \in Slugs
      /\ \A s \in Slugs : cr[s].id = rec.id => s = rec.slug
  BY <1>0, Busy
<1>2. CASE RecTemplateError
  <2>1. /\ rec' = IdleR /\ work' = work \cup {rec.slug} /\ faults' \in 0 .. MaxFaults
        /\ UNCHANGED <<cpVars, subVars, cr, shared, deployed, secret, registered, hist, up>>
    BY <1>2, FaultOK DEF RecTemplateError
  <2>2. TypeOK'
    BY <1>1, <2>1, NoPass DEF TypeOK, hist
  <2>3. PlaneInv'
    BY <2>1, NoPass, RecPlane
  <2>4. HostInv'
    BY <2>1, NoPass DEF HostInv, NewInv, PassInv, ReadyInv, KeyInv, hist
  <2> QED
    BY <2>2, <2>3, <2>4
<1>3. CASE RecNamespaceError \/ RecFinish(written)
  <2>1. /\ rec' = IdleR
        /\ UNCHANGED <<cpVars, subVars, shared, deployed, secret, registered, unseen, up>>
        /\ unannounced' \subseteq Ids
    BY <1>1, <1>3 DEF RecNamespaceError, RecFinish, TypeOK, hist
  <2>f. faults' \in 0 .. MaxFaults
    BY <1>3, FaultOK DEF RecNamespaceError, RecFinish
  <2>2. PICK p \in {"Provisioning", "Ready", "Failed"}, b \in BOOLEAN, w \in BOOLEAN :
           /\ SetPhase(rec.slug, rec.id, p, b, w)
           /\ p = "Ready" => rec.ok /\ rec.pc = "finish"
    BY <1>3 DEF RecNamespaceError, RecFinish
  <2>3. /\ cr' \in [Slugs -> CRType] /\ work' \subseteq Slugs
        /\ \A q \in Slugs : /\ cr'[q].id = cr[q].id
                            /\ q # rec.slug \/ cr[rec.slug].id # rec.id => cr'[q] = cr[q]
        /\ cr'[rec.slug] = cr[rec.slug] \/ cr'[rec.slug].phase = p
    <3> DEFINE s == rec.slug
               i == rec.id
    <3>1. TypeOK /\ s \in Slugs /\ p \in Phases
      BY <1>1 DEF Phases
    <3>2. SetPhase(s, i, p, b, w)
      BY <2>2
    <3> HIDE DEF s, i
    <3>3. /\ cr' \in [Slugs -> CRType] /\ work' \subseteq Slugs
          /\ \A q \in Slugs : /\ cr'[q].id = cr[q].id
                              /\ q # s \/ cr[s].id # i => cr'[q] = cr[q]
          /\ cr'[s] = cr[s] \/ cr'[s].phase = p
      BY <3>1, <3>2, PhaseOK
    <3> QED
      BY <3>3 DEF s, i
  <2>4. TypeOK'
    BY <2>1, <2>3, <2>f, NoPass DEF TypeOK
  <2>5. PlaneInv'
    BY <2>1, <2>3, NoPass, RecPlane
  <2>6. NewInv' /\ PassInv' /\ KeyInv'
    <3>0. ASSUME NEW q \in Slugs, cr'[q] # cr[q]
          PROVE  cr'[q].id = cr[q].id /\ cr'[q].id # NoId /\ cr'[q].phase # ""
      <4>1. p # ""
        OBVIOUS
      <4>2. q = rec.slug /\ cr[q].id = rec.id /\ cr'[q].id = cr[q].id
        BY <2>3, <3>0
      <4>3. cr'[q].phase = p
        BY <2>3, <3>0, <4>2
      <4> QED
        BY <1>1, <4>1, <4>2, <4>3
    <3>1. NewInv'
      BY <2>1, <3>0, NoPass DEF HostInv, NewInv
    <3>2. PassInv'
      BY <2>1, NoPass DEF PassInv
    <3>3. KeyInv'
      BY <2>1, <2>3, NoPass DEF HostInv, KeyInv
    <3> QED
      BY <3>1, <3>2, <3>3
  <2>7. p = "Ready" => rec.id \in deployed /\ shared = SharedParts /\ secret[rec.id] # 0
    BY <1>0, <2>2 DEF HostInv, PassInv, InPlace
  <2>8. ReadyInv'
    BY <1>1, <2>1, <2>3, <2>7 DEF HostInv, ReadyInv
  <2> QED
    BY <2>4, <2>5, <2>6, <2>8 DEF HostInv
<1> QED
  BY <1>2, <1>3

\* The controller dies and comes back.
LEMMA CrashInv == ASSUME IInv, Crash \/ Restart PROVE IInv'
<1> USE DEF IInv, cpVars, subVars, ctlVars, hist
<1>1. CASE Crash
  <2>1. /\ queue' = <<>> /\ sub' = NoId /\ rec' = IdleR /\ work' = {} /\ up' = FALSE
        /\ UNCHANGED <<cpVars, cr, shared, deployed, secret, registered, hist>>
    BY <1>1 DEF Crash
  <2>2. faults' \in 0 .. MaxFaults
    BY <1>1, FaultOK DEF Crash
  <2>b. up' \in BOOLEAN
    BY <2>1
  <2>c. queue' \in Seq(Ids)
    BY <2>1
  <2>4. TypeOK'
    BY <2>1, <2>2, <2>b, <2>c, NoPass DEF TypeOK
  <2>5. HostInv'
    BY <2>1, NoPass DEF HostInv, NewInv, PassInv, ReadyInv, KeyInv
  <2>6. Len(queue') \in Nat /\ Shifted(0) /\ 0 \in Nat
    BY <2>1 DEF Shifted
  <2>7. RowsStay /\ \A i \in Ids : Untouched(i) => Untouched(i)'
    BY <2>1, NoPass, NoIdOutside DEF RowsStay, Untouched
  <2>8. \A t \in Handlers :
           /\ h'[t].id # NoId => h'[t].id \in Ids /\ proj'[h'[t].id].status # "none"
           /\ h'[t].pc \in CreatePcs => h'[t].id = h[t].id /\ h[t].pc \in CreatePcs
           /\ h'[t].pc \in {"write", "request"} => h[t].pc \in {"write", "request"}
    BY <2>1, InRange DEF PlaneInv, RowInv, HandlerType
  <2>9. PlaneInv'
    BY <2>1, <2>6, <2>7, <2>8, NoPass, NothingAsked
  <2> QED
    BY <2>4, <2>5, <2>9
<1>2. CASE Restart
  <2>1. /\ up' = TRUE /\ work' \subseteq Slugs
        /\ UNCHANGED <<cpVars, subVars, cr, rec, shared, deployed, secret, registered, hist, faults>>
    BY <1>2 DEF Restart
  <2>2. TypeOK'
    BY <2>1 DEF TypeOK
  <2> QED
    BY <2>1, <2>2, HostKept, RecPlane
<1> QED
  BY <1>1, <1>2

\* Nothing is created.
LEMMA InitInv == Init => IInv
<1> SUFFICES ASSUME Init PROVE IInv
  OBVIOUS
<1>1. proj \in [Ids -> RowType] /\ kv \in [Slugs -> EntryType]
  BY DEF Init, RowType, EntryType, Statuses
<1>2. h \in [Handlers -> HandlerType]
      /\ \A t \in Handlers : h[t].pc = "idle" /\ h[t].id = NoId
  BY Records DEF Init
<1>3. cr \in [Slugs -> CRType] /\ \A s \in Slugs : cr[s].id = NoId /\ cr[s].phase = ""
  BY DEF Init, NoCR, CRType, Phases
<1>4. sub \in Ids \cup {NoId} /\ queue \in Seq(Ids) /\ Len(queue) = 0
  BY DEF Init
<1>5. rec \in PassType /\ rec.pc = "idle" /\ rec.id = NoId
  BY NoPass DEF Init
<1>6. \A i \in Ids : proj[i].status = "none"
  BY DEF Init
<1>7. /\ work = {} /\ shared = {} /\ deployed = {} /\ secret = [i \in Ids |-> 0]
      /\ registered = [s \in Slugs |-> 0] /\ unseen = {} /\ unannounced = {}
      /\ up = TRUE /\ faults = 0
  BY DEF Init
<1>8. TypeOK
  <2>1. faults \in 0 .. MaxFaults
    BY <1>7, ConstantsAssumption
  <2>2. up \in BOOLEAN
    BY <1>7
  <2>3. secret \in [Ids -> Keys \cup {0}] /\ registered \in [Slugs -> Keys \cup {0}]
    BY <1>7
  <2>4. /\ work \subseteq Slugs /\ shared \subseteq SharedParts /\ deployed \subseteq Ids
        /\ unseen \subseteq Ids /\ unannounced \subseteq Ids
    BY <1>7
  <2>5. \A i \in Ids : proj[i].status # "none" => proj[i].slug \in Slugs
    BY <1>6
  <2> QED
    BY <1>1, <1>2, <1>3, <1>4, <1>5, <2>1, <2>2, <2>3, <2>4, <2>5 DEF TypeOK
<1>9. PlaneInv
  <2>1. \A n \in 1 .. Len(queue) : FALSE
    BY <1>4
  <2> QED
    BY <1>2, <1>3, <1>5, <1>7, <2>1
    DEF PlaneInv, RowInv, AskInv, FreshInv, Asks, Asked, CreatePcs
<1>10. HostInv
  BY <1>3, <1>5 DEF HostInv, NewInv, PassInv, ReadyInv, KeyInv
<1> QED
  BY <1>8, <1>9, <1>10 DEF IInv

\* Every step keeps the invariant.
LEMMA NextInv == IInv /\ [Next]_vars => IInv'
<1> SUFFICES ASSUME IInv, [Next]_vars PROVE IInv'
  OBVIOUS
<1>1. CASE UNCHANGED vars
  <2>1. UNCHANGED <<proj, kv, h, queue, sub, cr, work, rec, shared, deployed, secret, registered,
                    unseen, unannounced, up, faults>>
    BY <1>1 DEF vars, cpVars, subVars, recVars, hist, ctlVars
  <2>2. TypeOK'
    BY <2>1 DEF IInv, TypeOK
  <2> QED
    BY <2>1, <2>2, HostKept, RecPlane DEF IInv
<1>2. CASE \E t \in Handlers, i \in Ids, s \in Slugs, here \in BOOLEAN : CreateRow(t, i, s, here)
  BY <1>2, CreateRowInv
<1>3. CASE \/ \E t \in Handlers, i \in Ids : DeleteLookup(t, i)
           \/ \E t \in Handlers : HandlerStep(t) \/ HandlerError(t)
  BY <1>3, HandlerInv, DeleteInv, RequestInv DEF HandlerStep, HandlerError
<1>4. CASE SubStep \/ SubCreateError
  BY <1>4, SubCreateInv, SubInv DEF SubStep
<1>5. CASE \E s \in Slugs : RecTake(s) \/ WatchEvent(s) \/ DeleteResource(s)
  BY <1>5, TakeInv, DeleteResourceInv DEF RecTake
<1>6. CASE RecWork \/ RecError
  BY <1>6, PartsInv, KeysInv, TakeInv, EndInv DEF RecWork, RecError
<1>7. CASE Crash \/ Restart
  BY <1>7, CrashInv
<1> QED
  BY <1>1, <1>2, <1>3, <1>4, <1>5, <1>6, <1>7 DEF Next

\* The invariant holds throughout.
LEMMA SpecInv == Spec => []IInv
  BY InitInv, NextInv, PTL DEF Spec

-----------------------------------------------------------------------------
(* The theorems                                                            *)

\* handleProjectCreate, Reconcile and the callback between them: a handler has a
\* project exactly during a request and the worker a resource exactly during a
\* pass, and there is always a key left that nobody holds.
THEOREM ProvisioningTypes == Spec => []TypeOK
<1>1. IInv => TypeOK
  BY DEF IInv
<1> QED
  BY <1>1, SpecInv, PTL

\* Reconcile, reconcileAgentNKey and handleAgentRegister: a project announced as
\* Ready has all its parts, and its agent the key that the control plane knows,
\* unless a pass read through the cache did not see the secret that was there.
THEOREM ReadyRuns == Spec => []ReadyMeansRunnable
<1>1. IInv => ReadyMeansRunnable
  <2> SUFFICES ASSUME IInv, NEW s \in Slugs, cr[s].phase = "Ready"
               PROVE  /\ cr[s].id \in deployed /\ shared = SharedParts
                      /\ secret[cr[s].id] # 0
                      /\ registered[s] = secret[cr[s].id] \/ cr[s].id \in unseen
    BY DEF ReadyMeansRunnable
  <2>1. cr[s].id # NoId
    BY DEF IInv, HostInv, NewInv
  <2> QED
    BY <2>1 DEF IInv, HostInv, ReadyInv, KeyInv
<1> QED
  BY <1>1, SpecInv, PTL

-----------------------------------------------------------------------------
(* The refinement of Provisioner                                           *)

\* The initial states.
LEMMA InitMaps == Init => Abstract!Init
<1> SUFFICES ASSUME Init PROVE Abstract!Init
  OBVIOUS
<1>1. Owner = [s \in Slugs |-> NoId] /\ Phase = [s \in Slugs |-> ""]
  BY DEF Init, Owner, Phase, NoCR
<1>2. Done = [i \in Ids |-> {}]
  BY DEF Init, Done
<1> QED
  BY <1>1, <1>2 DEF Abstract!Init

\* Steps that leave the resources and their parts alone.
LEMMA Stutter ==
    ASSUME UNCHANGED <<cr, shared, deployed, secret>> PROVE UNCHANGED Abstract!vars
  BY DEF Abstract!vars, Owner, Phase, Done

\* The phase of one resource changes.
LEMMA PhaseMaps ==
    ASSUME IInv, NEW s \in Slugs, NEW p, \A q \in Slugs : cr'[q].id = cr[q].id,
           \A q \in Slugs : cr'[q].phase = IF q = s THEN p ELSE cr[q].phase,
           UNCHANGED <<shared, deployed, secret>>
    PROVE  /\ Phase' = [Phase EXCEPT ![s] = p] /\ UNCHANGED <<Owner, Done>>
           /\ Owner[s] = cr[s].id /\ Phase[s] = cr[s].phase
  BY DEF Owner, Phase, Done

\* The fields of a resource that has no phase.
LEMMA PhaselessFields ==
    ASSUME NEW c, NEW i, c = [id |-> i, phase |-> ""] PROVE c.id = i /\ c.phase = ""
  OBVIOUS

\* A resource is replaced by one that has no phase.
LEMMA ReplaceMaps ==
    ASSUME NEW s \in Slugs, NEW i, cr'[s].id = i, cr'[s].phase = "",
           \A q \in Slugs \ {s} : cr'[q] = cr[q]
    PROVE  /\ Owner' = [Owner EXCEPT ![s] = i] /\ Phase' = [Phase EXCEPT ![s] = ""]
           /\ Owner[s] = cr[s].id /\ Phase[s] = cr[s].phase
<1>1. /\ \A q \in Slugs : cr'[q].id = IF q = s THEN i ELSE cr[q].id
      /\ \A q \in Slugs : cr'[q].phase = IF q = s THEN "" ELSE cr[q].phase
  OBVIOUS
<1> QED
  BY <1>1 DEF Owner, Phase

\* The callback: a resource is requested.
LEMMA SubMaps == ASSUME IInv, SubCreate PROVE Abstract!Next \/ UNCHANGED Abstract!vars
<1> USE DEF IInv
<1> DEFINE i == Head(queue)
           s == Slug(i)
<1>1. i \in Ids /\ s \in Slugs
  BY Taken DEF SubCreate
<1>2. cr[s].id = NoId => cr[s].phase = ""
  BY <1>1 DEF HostInv, NewInv
<1>3. /\ cr' = IF cr[s].id = NoId THEN [cr EXCEPT ![s] = [id |-> i, phase |-> ""]] ELSE cr
      /\ UNCHANGED <<shared, deployed, secret>>
  BY DEF SubCreate
<1> HIDE DEF i, s
<1>4. CASE cr[s].id = NoId
  <2> DEFINE r == [id |-> i, phase |-> ""]
  <2>1. cr'[s] = r /\ \A q \in Slugs \ {s} : cr'[q] = cr[q]
    BY <1>1, <1>3, <1>4 DEF TypeOK
  <2>r. cr'[s].id = i /\ cr'[s].phase = ""
    BY <2>1, PhaselessFields
  <2> HIDE DEF r
  <2>2. /\ Owner' = [Owner EXCEPT ![s] = i] /\ Phase' = [Phase EXCEPT ![s] = ""]
        /\ Owner[s] = NoId /\ Phase[s] = ""
    BY <1>1, <1>2, <1>4, <2>1, <2>r, ReplaceMaps
  <2>3. Phase' = Phase
    BY <2>2 DEF Phase
  <2>4. Done' = Done
    BY <1>3 DEF Done
  <2>5. Abstract!Request(s, i)
    BY <2>2, <2>3, <2>4 DEF Abstract!Request
  <2> QED
    BY <1>1, <2>5 DEF Abstract!Next
<1>5. CASE cr[s].id # NoId
  BY <1>3, <1>5, Stutter
<1> QED
  BY <1>4, <1>5

\* A resource is removed.
LEMMA RemoveMaps == ASSUME IInv, NEW s \in Slugs, DeleteResource(s) PROVE Abstract!Next
<1> USE DEF IInv
<1>1. cr' = [cr EXCEPT ![s] = NoCR] /\ cr[s].id # NoId /\ UNCHANGED <<shared, deployed, secret>>
  BY DEF DeleteResource
<1>2. cr'[s] = NoCR /\ \A q \in Slugs \ {s} : cr'[q] = cr[q]
  BY <1>1 DEF TypeOK
<1>3. cr'[s].id = NoId /\ cr'[s].phase = ""
  BY <1>2, PhaselessFields DEF NoCR
<1>4. /\ Owner' = [Owner EXCEPT ![s] = NoId] /\ Phase' = [Phase EXCEPT ![s] = ""]
      /\ Owner[s] = cr[s].id /\ Phase[s] = cr[s].phase
  BY <1>2, <1>3, ReplaceMaps
<1>5. Done' = Done
  BY <1>1 DEF Done
<1>6. Abstract!Remove(s)
  BY <1>1, <1>4, <1>5 DEF Abstract!Remove
<1> QED
  BY <1>6 DEF Abstract!Next

\* A resource is taken up: it passes the phases that it passes once.
LEMMA TakeMaps ==
    ASSUME IInv, NEW s \in Slugs, NEW w \in BOOLEAN, RecPending(s) \/ RecStart(s, w)
    PROVE  Abstract!Next \/ UNCHANGED Abstract!vars
<1> USE DEF IInv
<1>0. cr[s] \in CRType /\ cr[s].id # NoId /\ UNCHANGED <<shared, deployed, secret>>
  BY DEF RecPending, RecStart, TypeOK
<1>1. ASSUME NEW p, cr' = [cr EXCEPT ![s].phase = p]
      PROVE  /\ Phase' = [Phase EXCEPT ![s] = p] /\ UNCHANGED <<Owner, Done>>
             /\ Owner[s] = cr[s].id /\ Phase[s] = cr[s].phase
  <2>1. \A q \in Slugs : cr'[q].id = cr[q].id
                         /\ cr'[q].phase = IF q = s THEN p ELSE cr[q].phase
    BY <1>0, <1>1 DEF TypeOK, CRType
  <2> QED
    BY <1>0, <2>1, PhaseMaps
<1>2. CASE RecPending(s)
  <2>1. cr' = [cr EXCEPT ![s].phase = "Pending"] /\ cr[s].phase = ""
    BY <1>2 DEF RecPending, SetPhase
  <2>2. Abstract!Begin(s)
    BY <1>0, <1>1, <2>1 DEF Abstract!Begin
  <2> QED
    BY <2>2 DEF Abstract!Next
<1>3. CASE RecStart(s, w) /\ cr[s].phase = "Pending" /\ w
  <2>1. cr' = [cr EXCEPT ![s].phase = "Provisioning"]
    BY <1>3 DEF RecStart
  <2>2. Abstract!Retract(s)
    BY <1>0, <1>1, <1>3, <2>1 DEF Abstract!Retract, Abstract!Begun
  <2> QED
    BY <2>2 DEF Abstract!Next
<1>4. CASE RecStart(s, w) /\ ~(cr[s].phase = "Pending" /\ w)
  <2>1. cr' = cr
    BY <1>4 DEF RecStart
  <2> QED
    BY <1>0, <2>1, Stutter
<1> QED
  BY <1>2, <1>3, <1>4

\* Parts are put in place: the shared ones for all projects at once.
LEMMA PartMaps ==
    ASSUME IInv, NEW ok \in BOOLEAN,
           RecNamespace \/ RecShared(ok) \/ RecSeal \/ RecDeploy(ok)
    PROVE  Abstract!Next \/ UNCHANGED Abstract!vars
<1> USE DEF IInv, RecAt
<1>0. rec.pc # "idle" /\ UNCHANGED cr
  BY DEF RecNamespace, RecShared, RecSeal, RecDeploy
<1>i. rec.id \in Ids
  BY <1>0, Busy
<1>1. ASSUME NEW I \in SUBSET Ids, NEW P \in SUBSET AllParts,
             Done' = [i \in Ids |-> IF i \in I THEN Done[i] \cup P ELSE Done[i]]
      PROVE  Abstract!Next
  <2>1. UNCHANGED <<Owner, Phase>>
    BY <1>0 DEF Owner, Phase
  <2>2. Abstract!Complete(I, P)
    BY <1>1, <2>1 DEF Abstract!Complete
  <2> QED
    BY <2>2 DEF Abstract!Next
<1>2. ASSUME NEW P \in SUBSET SharedParts, shared' = shared \cup P, UNCHANGED <<deployed, secret>>
      PROVE  Abstract!Next
  <2>1. Done' = [i \in Ids |-> IF i \in Ids THEN Done[i] \cup P ELSE Done[i]]
    BY <1>2 DEF Done
  <2>2. P \in SUBSET AllParts /\ Ids \in SUBSET Ids
    BY DEF AllParts
  <2> QED
    BY <1>1, <2>1, <2>2
<1>3. CASE RecNamespace
  <2>1. {"namespace"} \in SUBSET SharedParts
    BY DEF SharedParts
  <2> QED
    BY <1>2, <1>3, <2>1 DEF RecNamespace
<1>4. CASE RecShared(ok)
  <2>1. {"rbac and secrets"} \in SUBSET SharedParts
    BY DEF SharedParts
  <2>2. CASE ok
    BY <1>2, <1>4, <2>1, <2>2 DEF RecShared
  <2>3. CASE ~ok
    BY <1>4, <2>3, Stutter DEF RecShared
  <2> QED
    BY <2>2, <2>3
<1>5. CASE RecSeal
  <2>1. CASE secret[rec.id] = 0
    <3>0. rec.key # 0
      BY <1>5 DEF RecSeal, HostInv, PassInv, InPlace
    <3>1. \A i \in Ids : secret'[i] = IF i = rec.id THEN rec.key ELSE secret[i]
      BY <1>5, <1>i, <2>1 DEF RecSeal, TypeOK
    <3>2. UNCHANGED <<shared, deployed>>
      BY <1>5 DEF RecSeal
    <3>3. Done' = [i \in Ids |-> IF i \in {rec.id} THEN Done[i] \cup {"key"} ELSE Done[i]]
      BY <2>1, <3>0, <3>1, <3>2 DEF Done
    <3>4. {"key"} \in SUBSET AllParts /\ {rec.id} \in SUBSET Ids
      BY <1>i DEF AllParts
    <3> QED
      BY <1>1, <3>3, <3>4
  <2>2. CASE secret[rec.id] # 0
    BY <1>5, <2>2, Stutter DEF RecSeal
  <2> QED
    BY <2>1, <2>2
<1>6. CASE RecDeploy(ok)
  <2>1. CASE ok
    <3>1. deployed' = deployed \cup {rec.id} /\ UNCHANGED <<shared, secret>>
      BY <1>6, <2>1 DEF RecDeploy
    <3>2. Done' = [i \in Ids |-> IF i \in {rec.id} THEN Done[i] \cup {"deployment"} ELSE Done[i]]
      BY <3>1 DEF Done
    <3>3. {"deployment"} \in SUBSET AllParts /\ {rec.id} \in SUBSET Ids
      BY <1>i DEF AllParts
    <3> QED
      BY <1>1, <3>2, <3>3
  <2>2. CASE ~ok
    BY <1>6, <2>2, Stutter DEF RecDeploy
  <2> QED
    BY <2>1, <2>2
<1> QED
  BY <1>3, <1>4, <1>5, <1>6

\* A pass ends: the resource is announced when all its parts are in place.
LEMMA EndMaps ==
    ASSUME IInv, NEW written \in BOOLEAN, RecNamespaceError \/ RecFinish(written)
    PROVE  Abstract!Next \/ UNCHANGED Abstract!vars
<1> USE DEF IInv, RecAt
<1>0. rec.pc # "idle" /\ UNCHANGED <<shared, deployed, secret>>
  BY DEF RecNamespaceError, RecFinish
<1>1. rec.id \in Ids /\ rec.id # NoId /\ rec.slug \in Slugs
  BY <1>0, Busy
<1>2. PICK p \in {"Provisioning", "Ready", "Failed"}, b \in BOOLEAN, w \in BOOLEAN :
         /\ SetPhase(rec.slug, rec.id, p, b, w)
         /\ p = "Ready" => rec.ok /\ rec.pc = "finish"
  BY DEF RecNamespaceError, RecFinish
<1>3. CASE cr[rec.slug].id # rec.id \/ ~w
  BY <1>0, <1>2, <1>3, Stutter DEF SetPhase
<1>4. CASE cr[rec.slug].id = rec.id /\ w
  <2>1. \A q \in Slugs : cr'[q].id = cr[q].id
                         /\ cr'[q].phase = IF q = rec.slug THEN p ELSE cr[q].phase
    BY <1>1, <1>2, <1>4, InRange DEF SetPhase, TypeOK, CRType
  <2>2. /\ Phase' = [Phase EXCEPT ![rec.slug] = p] /\ UNCHANGED <<Owner, Done>>
        /\ Owner[rec.slug] = rec.id /\ Phase[rec.slug] = cr[rec.slug].phase
    BY <1>0, <1>1, <1>4, <2>1, PhaseMaps
  <2>3. Phase[rec.slug] \in Abstract!Begun
    <3>1. cr[rec.slug].phase \in Phases /\ cr[rec.slug].phase # ""
      BY <1>0, <1>1, <1>4, InRange DEF HostInv, PassInv, CRType
    <3> QED
      BY <2>2, <3>1 DEF Phases, Abstract!Begun
  <2>4. CASE p = "Ready"
    <3>1. rec.id \in deployed /\ shared = SharedParts /\ secret[rec.id] # 0
      BY <1>0, <1>2, <2>4 DEF HostInv, PassInv, InPlace
    <3>2. Done[rec.id] = AllParts
      BY <1>1, <3>1 DEF Done, AllParts
    <3>3. Abstract!Announce(rec.slug)
      BY <1>1, <2>2, <2>3, <2>4, <3>2 DEF Abstract!Announce
    <3> QED
      BY <1>1, <3>3 DEF Abstract!Next
  <2>5. CASE p # "Ready"
    <3>1. Abstract!Retract(rec.slug)
      BY <1>1, <2>2, <2>3, <2>5 DEF Abstract!Retract
    <3> QED
      BY <1>1, <3>1 DEF Abstract!Next
  <2> QED
    BY <2>4, <2>5
<1> QED
  BY <1>3, <1>4

\* Every step is a step of the abstract provisioner, or none.
LEMMA NextMaps == IInv /\ [Next]_vars => [Abstract!Next]_Abstract!vars
<1> SUFFICES ASSUME IInv, [Next]_vars PROVE Abstract!Next \/ UNCHANGED Abstract!vars
  OBVIOUS
<1> USE DEF recVars, hist
<1>1. CASE UNCHANGED vars
  BY <1>1, Stutter DEF vars
<1>2. CASE \/ \E t \in Handlers, i \in Ids, s \in Slugs, here \in BOOLEAN : CreateRow(t, i, s, here)
           \/ \E t \in Handlers, i \in Ids : DeleteLookup(t, i)
           \/ \E t \in Handlers : HandlerStep(t) \/ HandlerError(t)
  <2>1. UNCHANGED <<cr, shared, deployed, secret>>
    BY <1>2 DEF CreateRow, DeleteLookup, HandlerStep, HandlerError, WriteBeforeRequest, RequestProvisioning,
                RequestTimeout, MarkFailed, WriteOutcome, DeleteNotify, DeleteRow
  <2> QED
    BY <2>1, Stutter
<1>3. CASE SubStep \/ SubCreateError
  <2>1. CASE SubCreate
    BY <2>1, SubMaps
  <2>2. CASE SubPoll \/ SubCreateError
    BY <2>2, Stutter DEF SubPoll, SubCreateError
  <2> QED
    BY <1>3, <2>1, <2>2 DEF SubStep
<1>4. CASE \E s \in Slugs : RecTake(s) \/ WatchEvent(s) \/ DeleteResource(s)
  <2>1. PICK s \in Slugs : RecTake(s) \/ WatchEvent(s) \/ DeleteResource(s)
    BY <1>4
  <2>2. CASE RecGone(s) \/ WatchEvent(s)
    BY <2>2, Stutter DEF RecGone, WatchEvent
  <2>3. CASE RecPending(s) \/ RecStart(s, TRUE)
    BY <2>3, TakeMaps
  <2>4. CASE DeleteResource(s)
    BY <2>4, RemoveMaps
  <2> QED
    BY <2>1, <2>2, <2>3, <2>4 DEF RecTake
<1>5. CASE RecWork \/ RecError
  <2>1. CASE \/ RecTemplateError \/ RecNKeyError \/ RecSealError \/ RecHasKey \/ RecGenerateKey
             \/ RecRegister(TRUE) \/ RecRegister(FALSE)
    BY <2>1, Stutter DEF RecTemplateError, RecNKeyError, RecSealError, RecHasKey,
                         RecGenerateKey, RecRegister
  <2>2. CASE \/ RecNamespace \/ RecShared(TRUE) \/ RecShared(FALSE) \/ RecSeal
             \/ RecDeploy(TRUE) \/ RecDeploy(FALSE)
    BY <2>2, PartMaps
  <2>3. CASE RecNamespaceError \/ RecFinish(TRUE) \/ RecFinish(FALSE)
    BY <2>3, EndMaps
  <2>4. CASE \E s \in Slugs : RecStart(s, FALSE)
    BY <2>4, TakeMaps
  <2> QED
    BY <1>5, <2>1, <2>2, <2>3, <2>4 DEF RecWork, RecError
<1>6. CASE Crash \/ Restart
  BY <1>6, Stutter DEF Crash, Restart
<1> QED
  BY <1>1, <1>2, <1>3, <1>4, <1>5, <1>6 DEF Next

\* The control plane's handlers, the callback, the reconciler with its retries,
\* the crashes and the deletes implement the abstract provisioner, also when
\* reads lag and phases cannot be written.
THEOREM Refinement == Spec => ImplementsProvisioner
  BY InitMaps, NextMaps, SpecInv, PTL DEF Spec, ImplementsProvisioner, Abstract!Spec
================================================================================
