------------------------ MODULE ObjectTransfersProofs ------------------------
(***************************************************************************)
(* Theorems about ObjectTransfers, for any number of clients, slugs, hosts *)
(* and errors, and any order of the keys.                                  *)
(***************************************************************************)
EXTENDS ObjectTransfers, TLAPS

\* What is stored, or was until a delete swept it.  It only grows.
Ever == s3 \cup swept

\* The control points of a client that has stored nothing.
PrePut == {"idle", "check", "prompt", "package", "request", "put", "webput", "agentput"}

\* A client stores an object once: what a sweep removed never comes back.
FreshInv == \A k \in Ever : t[k[2]].pc \notin PrePut

\* A row without a generation is no row.
GenInv == \A s \in Slugs : proj[s].gen = "none" => proj[s] = NoProject

\* What a store S still has of what the delete is to remove.
Left(r, S) == {k \in r.before \cap S : UnderPrefix(k)}

\* What a client knows of the store, which holds S and held E: that the object
\* it is about to have recorded was stored, and how far its delete has come.
\* While it lists, what is left has been listed or lies ahead of the token.
ClientOK(c, r, S, E) ==
    /\ r.pc # "idle" => r.slug \in Slugs
    /\ r.pc \in InConfirm => Key(r.slug, c, 0, r.host) \in E
    /\ r.pc = "mark" => Key(r.slug, c, r.n, DefaultHost) \in E
    /\ r.pc = "agentconfirm" => Key(r.slug, c, r.n + 1, DefaultHost) \in E
    /\ r.before \subseteq E /\ r.keys \subseteq E
    /\ r.pc \notin {"list", "sweep", "end"} => r.before = {} /\ r.cursor = 0
    /\ r.pc \in {"row", "list", "sweep"} => r.told = "waiting"
    /\ r.pc = "list" => \A k \in r.before : k[1] = r.slug
    /\ r.pc = "list" => \A k \in Left(r, S) : k \in r.keys \/ KeyPlace(k) > r.cursor
    /\ r.pc = "sweep" => Left(r, S) \subseteq r.keys \cup r.kept
    /\ r.pc = "end" /\ r.told = "ok" => Left(r, S) \subseteq r.kept

ClientInv == \A c \in Clients : ClientOK(c, t[c], s3, Ever)

IInv == TypeOK /\ GenInv /\ FreshInv /\ ClientInv /\ NothingDangling

---------------------------------------------------------------------------
(* Keys, and the records of transfers *)

LEMMA KeyType ==
    ASSUME NEW s \in Slugs, NEW c \in Clients, NEW n \in 0 .. 2, NEW h \in Hosts
    PROVE  Key(s, c, n, h) \in AllKeys /\ Key(s, c, n, h)[1] = s /\ Key(s, c, n, h)[2] = c
  BY DEF Key, AllKeys

\* The fields that a step to another control point leaves alone.
Same(r, q) ==
    /\ r.slug = q.slug /\ r.n = q.n /\ r.host = q.host /\ r.cursor = q.cursor
    /\ r.keys = q.keys /\ r.before = q.before /\ r.kept = q.kept

\* A step to another control point.
LEMMA GoFacts ==
    ASSUME TypeOK, NEW c \in Clients, NEW p \in PCs, Go(c, p)
    PROVE  \E r \in TransferType :
              t' = [t EXCEPT ![c] = r] /\ r.pc = p /\ r.told = t[c].told /\ Same(r, t[c])
<1>1. t[c] \in TransferType
  BY DEF TypeOK
<1> DEFINE r == [t[c] EXCEPT !.pc = p]
<1>2. r \in TransferType /\ r.pc = p /\ r.told = t[c].told /\ Same(r, t[c])
  BY <1>1 DEF TransferType, Same
<1>3. t' = [t EXCEPT ![c] = r]
  BY DEF Go, TypeOK
<1> HIDE DEF r
<1> QED
  BY <1>2, <1>3

\* The end of a transfer, with its result unless the client gave up before.
LEMMA EndFacts ==
    ASSUME TypeOK, NEW c \in Clients, NEW result \in Results, End(c, result)
    PROVE  \E r \in TransferType :
              /\ t' = [t EXCEPT ![c] = r] /\ r.pc = "end" /\ Same(r, t[c])
              /\ r.told = IF t[c].told = "waiting" THEN result ELSE t[c].told
<1>1. t[c] \in TransferType
  BY DEF TypeOK
<1> DEFINE x == Told(c, result)
           r == [t[c] EXCEPT !.pc = "end", !.told = x]
<1>2. x \in Results
  BY <1>1 DEF TransferType, Told
<1>3. t' = [t EXCEPT ![c] = r]
  BY DEF End
<1> HIDE DEF x
<1>4. r \in TransferType /\ r.pc = "end" /\ r.told = x /\ Same(r, t[c])
  BY <1>1, <1>2 DEF TransferType, Same, PCs
<1> HIDE DEF r
<1> QED
  BY <1>3, <1>4 DEF x, Told

\* The start of a transfer.
LEMMA StartFacts ==
    ASSUME NEW p \in PCs, NEW s \in Slugs \cup {Nobody}, NEW n \in 0 .. 1,
           NEW h \in Hosts, NEW r, r = Transfer(p, s, n, h)
    PROVE  /\ r \in TransferType
           /\ r.pc = p /\ r.slug = s /\ r.n = n /\ r.host = h /\ r.told = "waiting"
           /\ r.cursor = 0 /\ r.before = {} /\ r.keys = {} /\ r.kept = {}
  BY DEF Transfer, TransferType, Results

---------------------------------------------------------------------------
(* Frames *)

\* The others' knowledge survives when the store keeps its history and nothing
\* comes back into it.
LEMMA ClientsKept ==
    ASSUME IInv, NEW c \in Clients, NEW r \in TransferType, t' = [t EXCEPT ![c] = r],
           Ever \subseteq Ever', \A k \in Ever : k \in s3' => k \in s3,
           ClientOK(c, r, s3', Ever')
    PROVE  ClientInv' /\ t' \in [Clients -> TransferType]
<1> USE DEF IInv
<1>1. t' \in [Clients -> TransferType] /\ t'[c] = r
  BY DEF TypeOK
<1>2. ASSUME NEW d \in Clients, d # c PROVE ClientOK(d, t'[d], s3', Ever')
  <2>1. t'[d] = t[d] /\ ClientOK(d, t[d], s3, Ever)
    BY <1>2 DEF TypeOK, ClientInv
  <2>2. t[d].before \subseteq Ever
    BY <2>1 DEF ClientOK
  <2>3. Left(t[d], s3') \subseteq Left(t[d], s3)
    BY <2>2 DEF Left
  <2> HIDE DEF IInv
  <2> QED
    BY <2>1, <2>2, <2>3 DEF ClientOK
<1>3. \A d \in Clients : ClientOK(d, t'[d], s3', Ever')
  BY <1>1, <1>2
<1> QED
  BY <1>1, <1>3 DEF ClientInv

\* No client that stored something goes back to where it has stored nothing.
LEMMA FreshKept ==
    ASSUME IInv, NEW c \in Clients, NEW r \in TransferType, t' = [t EXCEPT ![c] = r],
           r.pc \in PrePut => t[c].pc \in PrePut,
           \A k \in Ever' : k \in Ever \/ (k[2] = c /\ r.pc \notin PrePut)
    PROVE  FreshInv'
<1> SUFFICES ASSUME NEW k \in Ever' PROVE t'[k[2]].pc \notin PrePut
  BY DEF FreshInv
<1>1. CASE k[2] = c
  BY <1>1 DEF IInv, FreshInv, TypeOK
<1>2. CASE k[2] # c
  BY <1>2 DEF IInv, FreshInv, TypeOK
<1> QED
  BY <1>1, <1>2

\* Steps that leave the rows and the store alone.
Quiet ==
    /\ UNCHANGED <<proj, atts, s3, swept>>
    /\ kv' \in [Slugs -> ProjectType]
    /\ agent' \in [Slugs -> {"none", "starting", "plain"} \cup Clients]
    /\ faults' \in 0 .. MaxFaults

LEMMA Walk ==
    ASSUME IInv, Quiet, NEW c \in Clients, NEW r \in TransferType, t' = [t EXCEPT ![c] = r],
           ClientOK(c, r, s3, Ever), r.pc \in PrePut => t[c].pc \in PrePut
    PROVE  IInv'
<1>1. Ever' = Ever
  BY DEF Ever, Quiet
<1>2. ClientInv' /\ t' \in [Clients -> TransferType]
  BY <1>1, ClientsKept DEF Quiet
<1>3. FreshInv'
  BY <1>1, FreshKept
<1>4. TypeOK'
  BY <1>2 DEF IInv, TypeOK, Quiet
<1>5. GenInv' /\ NothingDangling'
  BY DEF IInv, GenInv, NothingDangling, Served, Quiet
<1> QED
  BY <1>2, <1>3, <1>4, <1>5 DEF IInv

\* What an error does to the count, and what a step without one does.
LEMMA QuietStep ==
    ASSUME TypeOK, UNCHANGED <<proj, kv, atts, s3, agent, swept>>, Fault \/ UNCHANGED faults
    PROVE  Quiet
  BY TransfersAssumption DEF TypeOK, Fault, Quiet

\* A transfer, other than a delete, goes on.
LEMMA GoesOn ==
    ASSUME IInv, Quiet, NEW c \in Clients, NEW p \in PCs, Go(c, p),
           t[c].pc \notin {"idle", "row", "list", "sweep", "end"},
           p \notin {"idle", "row", "list", "sweep", "end", "agentconfirm"},
           p \in InConfirm => Archive(c) \in Ever, p = "mark" => Attachment(c) \in Ever,
           p \in PrePut => t[c].pc \in PrePut
    PROVE  IInv'
<1>1. PICK r \in TransferType :
         t' = [t EXCEPT ![c] = r] /\ r.pc = p /\ r.told = t[c].told /\ Same(r, t[c])
  BY GoFacts DEF IInv
<1>2. ClientOK(c, t[c], s3, Ever)
  BY DEF IInv, ClientInv
<1>3. /\ r.slug = t[c].slug /\ r.n = t[c].n /\ r.host = t[c].host /\ r.slug \in Slugs
      /\ r.before = {} /\ r.cursor = 0 /\ r.keys \subseteq Ever
  BY <1>1, <1>2 DEF Same, ClientOK
<1>4. ClientOK(c, r, s3, Ever)
  BY <1>1, <1>3 DEF ClientOK, Archive, Attachment
<1> QED
  BY <1>1, <1>4, Walk

\* A transfer ends, a delete once nothing is left that it could remove.
LEMMA Ends ==
    ASSUME IInv, Quiet, NEW c \in Clients, NEW result \in Results, End(c, result),
           t[c].pc # "idle",
           t[c].pc \notin {"list", "sweep", "end"} \/ Left(t[c], s3) \subseteq t[c].kept
    PROVE  IInv'
<1>1. PICK r \in TransferType :
         /\ t' = [t EXCEPT ![c] = r] /\ r.pc = "end" /\ Same(r, t[c])
         /\ r.told = IF t[c].told = "waiting" THEN result ELSE t[c].told
  BY EndFacts DEF IInv
<1>2. ClientOK(c, t[c], s3, Ever)
  BY DEF IInv, ClientInv
<1>3. /\ r.slug \in Slugs /\ r.before \subseteq Ever /\ r.keys \subseteq Ever
      /\ Left(r, s3) \subseteq r.kept
  BY <1>1, <1>2 DEF Same, ClientOK, Left
<1>4. ClientOK(c, r, s3, Ever)
  BY <1>1, <1>3 DEF ClientOK, InConfirm
<1>5. r.pc \notin PrePut
  BY <1>1 DEF PrePut
<1> QED
  BY <1>1, <1>4, <1>5, Walk

\* A transfer starts.
LEMMA Starts ==
    ASSUME IInv, Quiet, NEW c \in Clients, NEW s \in Slugs, NEW p \in {"check", "row"},
           NEW h \in Hosts, Begin(c, p, s, h)
    PROVE  IInv'
<1> DEFINE r == Transfer(p, s, 0, h)
<1>1. t' = [t EXCEPT ![c] = r] /\ t[c].pc = "idle"
  BY DEF Begin, At
<1>2. p \in PCs
  BY DEF PCs
<1>3. /\ r \in TransferType /\ r.pc = p /\ r.slug = s /\ r.told = "waiting"
      /\ r.before = {} /\ r.keys = {} /\ r.cursor = 0
  BY <1>2, StartFacts
<1> HIDE DEF r
<1>4. ClientOK(c, r, s3, Ever)
  BY <1>3 DEF ClientOK, InConfirm
<1>5. t[c].pc \in PrePut
  BY <1>1 DEF PrePut
<1> QED
  BY <1>1, <1>3, <1>4, <1>5, Walk

---------------------------------------------------------------------------
(* Steps that leave the rows and the store alone *)

LEMMA ImportWalks ==
    ASSUME IInv, NEW c \in Clients,
           \/ CheckSlug(c) \/ BuildArchive(c) \/ HandleImportRequest(c)
           \/ HandleImportConfirm(c)
    PROVE  IInv'
<1>1. Quiet
  BY QuietStep DEF IInv, CheckSlug, BuildArchive, HandleImportRequest, HandleImportConfirm
<1>2. CASE CheckSlug(c)
  BY <1>1, <1>2, GoesOn DEF CheckSlug, At, PCs, InConfirm, PrePut
<1>3. CASE BuildArchive(c)
  BY <1>1, <1>3, GoesOn DEF BuildArchive, At, PCs, InConfirm, PrePut
<1>4. CASE HandleImportRequest(c)
  BY <1>1, <1>4, GoesOn, Ends DEF HandleImportRequest, At, PCs, InConfirm, PrePut, Results
<1>5. CASE HandleImportConfirm(c)
  <2>1. Stored(Archive(c)) => Archive(c) \in Ever
    BY DEF Stored, Ever
  <2> QED
    BY <1>1, <1>5, <2>1, GoesOn, Ends DEF HandleImportConfirm, At, PCs, InConfirm, PrePut, Results
<1> QED
  BY <1>2, <1>3, <1>4, <1>5

LEMMA AttachmentWalks ==
    ASSUME IInv, NEW c \in Clients,
           \/ HandleAttachmentConfirm(c) \/ DispatchCmd(c) \/ HandleAttachmentDownload(c)
           \/ DownloadAttachment(c) \/ DownloadFails(c) \/ ReplyLost(c)
    PROVE  IInv'
<1>1. Quiet
  BY QuietStep DEF IInv, HandleAttachmentConfirm, DispatchCmd, HandleAttachmentDownload,
                   DownloadAttachment, DownloadFails, ReplyLost
<1>2. CASE HandleAttachmentConfirm(c)
  <2>1. Stored(Attachment(c)) => Attachment(c) \in Ever
    BY DEF Stored, Ever
  <2> QED
    BY <1>1, <1>2, <2>1, GoesOn, Ends DEF HandleAttachmentConfirm, At, PCs, InConfirm, PrePut, Results
<1>3. ASSUME t[c].pc \in {"sent", "fetch", "get", "refetch", "reget"},
             NEW p \in InDownload, Go(c, p)
      PROVE  IInv'
  BY <1>1, <1>3, GoesOn DEF InDownload, PCs, InConfirm, PrePut
<1>4. ASSUME t[c].pc \in {"fetch", "get", "refetch", "reget"},
             NEW result \in Results, End(c, result)
      PROVE  IInv'
  BY <1>1, <1>4, Ends
<1>5. CASE DispatchCmd(c) \/ ReplyLost(c)
  BY <1>3, <1>5 DEF DispatchCmd, ReplyLost, At, InDownload
<1>6. CASE HandleAttachmentDownload(c)
  BY <1>3, <1>4, <1>6 DEF HandleAttachmentDownload, At, InDownload, Results
<1>7. CASE DownloadAttachment(c)
  BY <1>3, <1>4, <1>7 DEF DownloadAttachment, At, InDownload, Results
<1>8. CASE DownloadFails(c)
  BY <1>3, <1>4, <1>8 DEF DownloadFails, At, InDownload, Results
<1> QED
  BY <1>2, <1>5, <1>6, <1>7, <1>8

\* The name that the user types is the slug from then on.
LEMMA PromptWalks ==
    ASSUME IInv, NEW c \in Clients, PromptProjectName(c) PROVE IInv'
<1>1. Quiet
  BY QuietStep DEF IInv, PromptProjectName
<1>2. t[c].pc = "prompt" /\ t[c] \in TransferType /\ ClientOK(c, t[c], s3, Ever)
  BY DEF PromptProjectName, At, IInv, TypeOK, ClientInv
<1>3. CASE End(c, "failed")
  BY <1>1, <1>2, <1>3, Ends DEF Results
<1>4. ASSUME NEW s \in Slugs, t' = [t EXCEPT ![c].pc = "check", ![c].slug = s] PROVE IInv'
  <2> DEFINE r == [t[c] EXCEPT !.pc = "check", !.slug = s]
  <2>1. t' = [t EXCEPT ![c] = r]
    BY <1>4 DEF IInv, TypeOK
  <2>2. /\ r \in TransferType /\ r.pc = "check" /\ r.slug = s
        /\ r.before = t[c].before /\ r.keys = t[c].keys /\ r.cursor = t[c].cursor
    BY <1>2 DEF TransferType, PCs
  <2> HIDE DEF r
  <2>3. ClientOK(c, r, s3, Ever)
    BY <1>2, <2>2 DEF ClientOK, InConfirm
  <2>4. t[c].pc \in PrePut
    BY <1>2 DEF PrePut
  <2> QED
    BY <1>1, <2>1, <2>2, <2>3, <2>4, Walk
<1> QED
  BY <1>3, <1>4 DEF PromptProjectName

\* The reply to the client, unless it gave up, and its giving up.
LEMMA ToldWalks ==
    ASSUME IInv, Quiet, NEW c \in Clients, NEW p \in PCs, NEW x \in Results,
           t' = [t EXCEPT ![c].pc = p, ![c].told = x],
           t[c].pc \in InConfirm \cup {"confirm"}, p = "provision" \/ p = t[c].pc
    PROVE  IInv'
<1>1. t[c] \in TransferType /\ ClientOK(c, t[c], s3, Ever)
  BY DEF IInv, TypeOK, ClientInv
<1> DEFINE r == [t[c] EXCEPT !.pc = p, !.told = x]
<1>2. t' = [t EXCEPT ![c] = r]
  BY DEF IInv, TypeOK
<1>3. r \in TransferType /\ r.pc = p /\ Same(r, t[c])
  BY <1>1 DEF TransferType, Same
<1> HIDE DEF r
<1>4. ClientOK(c, r, s3, Ever)
  BY <1>1, <1>3 DEF ClientOK, Same, InConfirm
<1>5. r.pc \notin PrePut
  BY <1>3 DEF PrePut, InConfirm
<1> QED
  BY <1>2, <1>3, <1>4, <1>5, Walk

LEMMA ConfirmWalks ==
    ASSUME IInv, NEW c \in Clients,
           \/ WriteProjectKV(c) \/ ConfirmSkips(c) \/ ConfirmTimeout(c) \/ Provision(c)
    PROVE  IInv'
<1>1. t[c] \in TransferType /\ ClientOK(c, t[c], s3, Ever) /\ t \in [Clients -> TransferType]
  BY DEF IInv, TypeOK, ClientInv
<1>2. Told(c, "ok") \in Results
  BY <1>1 DEF Told, TransferType, Results
<1>3. CASE WriteProjectKV(c)
  <2>1. t[c].slug \in Slugs /\ [gen |-> c, ref |-> Nobody] \in ProjectType
    BY <1>1, <1>3 DEF WriteProjectKV, At, ClientOK, ProjectType, Gens, Nobody
  <2>2. Quiet
    BY <1>3, <2>1 DEF IInv, TypeOK, WriteProjectKV, Quiet
  <2> QED
    BY <1>2, <1>3, <2>2, ToldWalks DEF WriteProjectKV, At, InConfirm, PCs
<1>4. CASE ConfirmSkips(c)
  <2>1. Quiet
    BY <1>4, QuietStep DEF IInv, ConfirmSkips
  <2>2. CASE At(c, "ref") /\ Go(c, "kv")
    <3>1. Archive(c) \in Ever
      BY <1>1, <2>2 DEF At, ClientOK, InConfirm, Archive
    <3> QED
      BY <2>1, <2>2, <3>1, GoesOn DEF At, PCs, InConfirm, PrePut
  <2>3. CASE /\ At(c, "kv")
             /\ t' = [t EXCEPT ![c].pc = "provision", ![c].told = Told(c, "ok")]
    BY <1>2, <2>1, <2>3, ToldWalks DEF At, InConfirm, PCs
  <2> QED
    BY <1>4, <2>2, <2>3 DEF ConfirmSkips
<1>5. CASE ConfirmTimeout(c)
  <2>1. Quiet
    BY <1>5, QuietStep DEF IInv, ConfirmTimeout
  <2>2. t' = [t EXCEPT ![c].pc = t[c].pc, ![c].told = "failed"]
    <3>1. [t[c] EXCEPT !.told = "failed"] = [t[c] EXCEPT !.pc = t[c].pc, !.told = "failed"]
      BY <1>1 DEF TransferType
    <3> QED
      BY <1>1, <1>5, <3>1 DEF ConfirmTimeout
  <2>3. t[c].pc \in PCs
    BY <1>1 DEF TransferType
  <2> QED
    BY <1>5, <2>1, <2>2, <2>3, ToldWalks DEF ConfirmTimeout, Results
<1>6. CASE Provision(c)
  <2>1. t[c].slug \in Slugs /\ t[c].pc = "provision"
    BY <1>1, <1>6 DEF Provision, At, ClientOK
  <2>2. Quiet
    BY <1>6, <2>1 DEF IInv, TypeOK, Provision, Quiet
  <2> QED
    BY <1>6, <2>1, <2>2, Ends DEF Provision, Results
<1> QED
  BY <1>3, <1>4, <1>5, <1>6

LEMMA DeleteWalks ==
    ASSUME IInv, NEW c \in Clients,
           S3ListObjectKeys(c) \/ ListFails(c) \/ S3DeletePrefix(c) \/ DeleteDone(c)
    PROVE  IInv'
<1>1. /\ t[c] \in TransferType /\ ClientOK(c, t[c], s3, Ever) /\ t \in [Clients -> TransferType]
      /\ s3 \subseteq AllKeys
  BY DEF IInv, TypeOK, ClientInv
<1>2. Quiet
  BY QuietStep DEF IInv, S3ListObjectKeys, ListFails, S3DeletePrefix, DeleteDone
<1>3. CASE S3ListObjectKeys(c)
  <2>1. t[c].pc = "list" /\ t[c].before \subseteq AllKeys /\ t[c].cursor \in Nat
    BY <1>1, <1>3 DEF S3ListObjectKeys, At, TransferType
  <2>2. \A k \in Left(t[c], s3) : k \in t[c].keys \/ k \in Ahead(c)
    BY <1>1, <2>1 DEF ClientOK, Left, Ahead, Objects
  <2>3. CASE Ahead(c) = {} /\ Go(c, "sweep")
    <3>1. "sweep" \in PCs
      BY DEF PCs
    <3>2. PICK r \in TransferType :
             t' = [t EXCEPT ![c] = r] /\ r.pc = "sweep" /\ r.told = t[c].told /\ Same(r, t[c])
      BY <2>3, <3>1, GoFacts DEF IInv
    <3>3. Left(r, s3) \subseteq r.keys
      BY <2>2, <2>3, <3>2 DEF Same, Left
    <3>4. ClientOK(c, r, s3, Ever)
      BY <1>1, <2>1, <3>2, <3>3 DEF ClientOK, Same, InConfirm
    <3>5. r.pc \notin PrePut
      BY <3>2 DEF PrePut
    <3> QED
      BY <1>2, <3>2, <3>4, <3>5, Walk
  <2>4. ASSUME NEW last \in Ahead(c), NEW page,
               page = {k \in Ahead(c) : KeyPlace(k) <= KeyPlace(last)},
               t' = [t EXCEPT ![c].pc = IF page = Ahead(c) THEN "sweep" ELSE "list",
                              ![c].keys = @ \cup page, ![c].cursor = KeyPlace(last)]
        PROVE  IInv'
    <3> DEFINE p == IF page = Ahead(c) THEN "sweep" ELSE "list"
               x == t[c].keys \cup page
               m == KeyPlace(last)
               r == [t[c] EXCEPT !.pc = p, !.keys = x, !.cursor = m]
    <3>1. t' = [t EXCEPT ![c] = r]
      BY <1>1, <2>4
    <3>2. p \in {"sweep", "list"} /\ p \in PCs /\ (p = "sweep" => page = Ahead(c))
      BY DEF PCs
    <3>3. \A k \in AllKeys : KeyPlace(k) \in Nat
      BY TransfersAssumption DEF KeyPlace, AllKeys
    <3>4. Ahead(c) \subseteq s3 /\ Ahead(c) \subseteq AllKeys /\ m \in Nat
      BY <1>1, <3>3 DEF Ahead, Objects
    <3>5. x \in SUBSET AllKeys /\ x \subseteq Ever /\ page \subseteq x /\ t[c].keys \subseteq x
      BY <1>1, <2>4, <3>4 DEF TransferType, ClientOK, Ever
    <3>6. ASSUME NEW k \in Ahead(c), k \notin page PROVE KeyPlace(k) > m
      <4>1. KeyPlace(k) \in Nat /\ ~(KeyPlace(k) <= m)
        BY <2>4, <3>3, <3>4, <3>6
      <4> HIDE DEF m
      <4> QED
        BY <3>4, <4>1
    <3> HIDE DEF p, x, m
    <3>7. /\ r \in TransferType /\ r.pc = p /\ r.told = t[c].told /\ r.keys = x /\ r.cursor = m
          /\ r.slug = t[c].slug /\ r.before = t[c].before
      BY <1>1, <3>2, <3>4, <3>5 DEF TransferType
    <3> HIDE DEF r
    <3>8. Left(r, s3) = Left(t[c], s3)
      BY <3>7 DEF Left
    <3>9. \A k \in Left(r, s3) : k \in x \/ KeyPlace(k) > m
      BY <2>2, <3>5, <3>6, <3>8
    <3>10. p = "sweep" => Left(r, s3) \subseteq x
      BY <2>2, <3>2, <3>5, <3>8
    <3>11. ClientOK(c, r, s3, Ever)
      BY <1>1, <2>1, <3>2, <3>5, <3>7, <3>9, <3>10 DEF ClientOK, InConfirm
    <3>12. r.pc \notin PrePut
      BY <3>2, <3>7 DEF PrePut
    <3> QED
      BY <1>2, <3>1, <3>7, <3>11, <3>12, Walk
  <2> QED
    BY <1>3, <2>3, <2>4 DEF S3ListObjectKeys
<1>4. CASE ListFails(c)
  <2> DEFINE x == Objects(t[c].slug)
             r == [t[c] EXCEPT !.pc = "end", !.told = "ok", !.kept = x]
  <2>1. t' = [t EXCEPT ![c] = r] /\ t[c].pc = "list"
    BY <1>1, <1>4 DEF ListFails, At
  <2>2. x \in SUBSET AllKeys /\ \A k \in s3 : k[1] = t[c].slug => k \in x
    BY <1>1 DEF Objects
  <2> HIDE DEF x
  <2>3. /\ r \in TransferType /\ r.pc = "end" /\ r.kept = x /\ r.keys = t[c].keys
        /\ r.slug = t[c].slug /\ r.before = t[c].before
    BY <1>1, <2>2 DEF TransferType, PCs, Results
  <2> HIDE DEF r
  <2>4. Left(r, s3) \subseteq x
    BY <1>1, <2>1, <2>2, <2>3 DEF ClientOK, Left
  <2>5. ClientOK(c, r, s3, Ever)
    BY <1>1, <2>1, <2>3, <2>4 DEF ClientOK, InConfirm
  <2>6. r.pc \notin PrePut
    BY <2>3 DEF PrePut
  <2> QED
    BY <1>2, <2>1, <2>3, <2>5, <2>6, Walk
<1>5. CASE S3DeletePrefix(c)
  <2>1. PICK k \in t[c].keys : t' = [t EXCEPT ![c].keys = @ \ {k}, ![c].kept = @ \cup {k}]
    BY <1>5 DEF S3DeletePrefix
  <2> DEFINE x == t[c].keys \ {k}
             y == t[c].kept \cup {k}
             r == [t[c] EXCEPT !.keys = x, !.kept = y]
  <2>2. t' = [t EXCEPT ![c] = r] /\ t[c].pc = "sweep"
    BY <1>1, <1>5, <2>1 DEF S3DeletePrefix, At
  <2>3. /\ x \in SUBSET AllKeys /\ y \in SUBSET AllKeys /\ x \cup y = t[c].keys \cup t[c].kept
        /\ x \subseteq t[c].keys
    BY <1>1, <2>1 DEF TransferType
  <2> HIDE DEF x, y
  <2>4. /\ r \in TransferType /\ r.pc = t[c].pc /\ r.told = t[c].told /\ r.keys = x /\ r.kept = y
        /\ r.slug = t[c].slug /\ r.before = t[c].before
    BY <1>1, <2>3 DEF TransferType
  <2> HIDE DEF r
  <2>5. ClientOK(c, r, s3, Ever)
    BY <1>1, <2>2, <2>3, <2>4 DEF ClientOK, InConfirm, Left
  <2>6. r.pc \notin PrePut
    BY <2>2, <2>4 DEF PrePut
  <2> QED
    BY <1>2, <2>2, <2>4, <2>5, <2>6, Walk
<1>6. CASE DeleteDone(c)
  <2>1. t[c].pc = "sweep" /\ Left(t[c], s3) \subseteq t[c].kept
    BY <1>1, <1>6 DEF DeleteDone, At, ClientOK
  <2> QED
    BY <1>2, <1>6, <2>1, Ends DEF DeleteDone, Results
<1> QED
  BY <1>3, <1>4, <1>5, <1>6

\* A transfer fails, a person starts one, and an agent looks for an import.
LEMMA OtherWalks ==
    ASSUME IInv,
           \/ \E c \in Clients : Fails(c)
           \/ \E c \in Clients, s \in Slugs : HandleDeleteProject(c, s)
           \/ \E c \in Clients, s \in Slugs, h \in Hosts : RunImport(c, s, h)
           \/ \E s \in Slugs : CheckImport(s)
    PROVE  IInv'
<1>1. ASSUME NEW c \in Clients, Fails(c) PROVE IInv'
  <2>1. Quiet
    BY <1>1, QuietStep DEF IInv, Fails
  <2> QED
    BY <1>1, <2>1, Ends DEF Fails, Results
<1>2. ASSUME NEW c \in Clients, NEW s \in Slugs, NEW h \in Hosts, RunImport(c, s, h) PROVE IInv'
  <2>1. Quiet
    BY <1>2, QuietStep DEF IInv, RunImport
  <2> QED
    BY <1>2, <2>1, Starts DEF RunImport
<1>3. ASSUME NEW c \in Clients, NEW s \in Slugs, HandleDeleteProject(c, s) PROVE IInv'
  <2>1. Quiet
    BY <1>3 DEF IInv, TypeOK, HandleDeleteProject, Quiet
  <2> QED
    BY <1>3, <2>1, Starts, TransfersAssumption DEF HandleDeleteProject
<1>4. ASSUME NEW s \in Slugs, CheckImport(s) PROVE IInv'
  <2>1. kv[s].ref # Nobody => kv[s].ref \in Clients
    BY DEF IInv, TypeOK, ProjectType
  <2>2. agent' \in [Slugs -> {"none", "starting", "plain"} \cup Clients]
    BY <1>4, <2>1 DEF IInv, TypeOK, CheckImport
  <2>3. UNCHANGED <<proj, kv, atts, s3, t, swept, faults>>
    BY <1>4 DEF CheckImport
  <2>4. TypeOK'
    BY <2>2, <2>3 DEF IInv, TypeOK
  <2>5. GenInv' /\ NothingDangling' /\ FreshInv' /\ ClientInv'
    BY <2>3 DEF IInv, GenInv, NothingDangling, Served, FreshInv, ClientInv, Ever
  <2> QED
    BY <2>4, <2>5 DEF IInv
<1> QED
  BY <1>1, <1>2, <1>3, <1>4

---------------------------------------------------------------------------
(* Objects are stored and removed *)

\* A client stores its object, and nobody stored it before.
LEMMA PutInv ==
    ASSUME IInv, NEW c \in Clients, NEW n \in 0 .. 2, NEW h \in Hosts, NEW p \in PCs,
           Put(Key(t[c].slug, c, n, h)), Go(c, p), UNCHANGED <<proj, kv, atts, agent, swept, faults>>,
           \/ t[c].pc = "put" /\ p = "confirm"
           \/ t[c].pc = "webput" /\ p = "head"
           \/ t[c].pc = "agentput" /\ p = "agentconfirm" /\ n = t[c].n + 1 /\ h = DefaultHost
    PROVE  IInv'
<1> DEFINE k == Key(t[c].slug, c, n, h)
<1>1. ClientOK(c, t[c], s3, Ever)
  BY DEF IInv, ClientInv
<1>2. k \in AllKeys /\ k[2] = c
  BY <1>1, KeyType DEF ClientOK
<1>3. k \notin Ever
  BY <1>2 DEF IInv, FreshInv, PrePut
<1>4. s3' = s3 \cup {k}
  BY DEF Put
<1>5. PICK r \in TransferType :
         t' = [t EXCEPT ![c] = r] /\ r.pc = p /\ r.told = t[c].told /\ Same(r, t[c])
  BY GoFacts DEF IInv
<1>6. /\ r.slug \in Slugs /\ r.before = {} /\ r.cursor = 0 /\ r.keys \subseteq Ever
      /\ (p = "agentconfirm" => k = Key(r.slug, c, r.n + 1, DefaultHost))
  BY <1>1, <1>5 DEF Same, ClientOK
<1> HIDE DEF k
<1>7. Ever' = Ever \cup {k}
  BY <1>4 DEF Ever
<1>8. ClientOK(c, r, s3', Ever')
  BY <1>5, <1>6, <1>7 DEF ClientOK, InConfirm
<1>9. ClientInv' /\ t' \in [Clients -> TransferType]
  BY <1>3, <1>4, <1>5, <1>7, <1>8, ClientsKept
<1>10. FreshInv'
  <2>1. r.pc \notin PrePut
    BY <1>5 DEF PrePut
  <2> QED
    BY <1>2, <1>5, <1>7, <2>1, FreshKept
<1>11. TypeOK'
  BY <1>2, <1>4, <1>9 DEF IInv, TypeOK
<1>12. GenInv' /\ NothingDangling'
  BY <1>4 DEF IInv, GenInv, NothingDangling, Served
<1> QED
  BY <1>9, <1>10, <1>11, <1>12 DEF IInv

LEMMA Puts ==
    ASSUME IInv, NEW c \in Clients, UploadToS3(c) \/ WebPut(c) \/ AgentPut(c) PROVE IInv'
<1>1. t[c].n \in 0 .. 2 /\ t[c].n + 1 \in 0 .. 2 /\ t[c].host \in Hosts /\ DefaultHost \in Hosts
  <2>1. t[c].n \in 0 .. 1 /\ t[c].host \in Hosts
    BY DEF IInv, TypeOK, TransferType
  <2> QED
    BY <2>1, TransfersAssumption
<1>2. CASE UploadToS3(c)
  BY <1>1, <1>2, PutInv DEF UploadToS3, At, Archive, PCs
<1>3. CASE WebPut(c)
  BY <1>1, <1>3, PutInv DEF WebPut, At, Attachment, PCs
<1>4. CASE AgentPut(c)
  BY <1>1, <1>4, PutInv DEF AgentPut, At, Attempt, PCs
<1> QED
  BY <1>2, <1>3, <1>4

LEMMA Sweeps == ASSUME IInv, NEW c \in Clients, S3DeleteObject(c) PROVE IInv'
<1>1. /\ t[c] \in TransferType /\ ClientOK(c, t[c], s3, Ever) /\ t \in [Clients -> TransferType]
      /\ t[c].pc = "sweep" /\ UNCHANGED <<proj, kv, atts, agent, faults>>
  BY DEF IInv, TypeOK, ClientInv, S3DeleteObject, At
<1>2. PICK k \in t[c].keys : /\ s3' = s3 \ {k} /\ swept' = swept \cup {k}
                             /\ t' = [t EXCEPT ![c].keys = @ \ {k}]
  BY DEF S3DeleteObject
<1> DEFINE x == t[c].keys \ {k}
           r == [t[c] EXCEPT !.keys = x]
<1>3. t' = [t EXCEPT ![c] = r]
  BY <1>1, <1>2
<1>4. k \in AllKeys /\ x \in SUBSET AllKeys /\ t[c].keys = x \cup {k}
  BY <1>1, <1>2 DEF TransferType
<1> HIDE DEF x
<1>5. /\ r \in TransferType /\ r.pc = "sweep" /\ r.told = t[c].told /\ r.keys = x
      /\ r.slug = t[c].slug /\ r.before = t[c].before /\ r.kept = t[c].kept
  BY <1>1, <1>4 DEF TransferType
<1> HIDE DEF r
<1>6. Ever' = Ever /\ k \in Ever
  <2>1. k \in Ever
    BY <1>1, <1>2 DEF ClientOK
  <2> QED
    BY <1>2, <2>1 DEF Ever
<1>7. ClientOK(c, r, s3', Ever')
  BY <1>1, <1>2, <1>4, <1>5, <1>6 DEF ClientOK, InConfirm, Left
<1>8. ClientInv' /\ t' \in [Clients -> TransferType]
  BY <1>2, <1>3, <1>5, <1>6, <1>7, ClientsKept
<1>9. FreshInv'
  <2>1. r.pc \notin PrePut
    BY <1>5 DEF PrePut
  <2> QED
    BY <1>3, <1>5, <1>6, <2>1, FreshKept
<1>10. TypeOK'
  BY <1>1, <1>2, <1>4, <1>8 DEF IInv, TypeOK
<1>11. GenInv' /\ NothingDangling'
  <2>1. Served' = Served /\ proj' = proj
    BY <1>1 DEF Served
  <2>2. \A j : j \in s3 \cup swept => j \in s3' \cup swept'
    BY <1>2
  <2>3. NothingDangling'
    BY <1>1, <2>1, <2>2 DEF IInv, NothingDangling
  <2> QED
    BY <1>1, <2>3 DEF IInv, GenInv
<1> QED
  BY <1>8, <1>9, <1>10, <1>11 DEF IInv

---------------------------------------------------------------------------
(* Rows come, change and go *)

\* The row of the project that an import makes, and its import_ref.
LEMMA Imports ==
    ASSUME IInv, NEW c \in Clients, CreateProject(c) \/ SetProjectImportRef(c) PROVE IInv'
<1>1. /\ ClientOK(c, t[c], s3, Ever) /\ t[c].slug \in Slugs /\ Archive(c) \in Ever
      /\ t[c].pc \in {"insert", "ref"} /\ UNCHANGED <<kv, atts, s3, agent, swept, faults>>
  BY DEF IInv, ClientInv, ClientOK, CreateProject, SetProjectImportRef, At, InConfirm, Archive
<1>2. CASE proj' = proj /\ End(c, "failed") /\ t[c].pc = "insert"
  <2>1. Quiet
    BY <1>1, <1>2, QuietStep DEF IInv
  <2> QED
    BY <1>2, <2>1, Ends DEF Results
<1>3. CASE proj' = proj /\ Go(c, "kv") /\ t[c].pc = "ref"
  <2>1. Quiet
    BY <1>1, <1>3, QuietStep DEF IInv
  <2> QED
    BY <1>1, <1>3, <2>1, GoesOn DEF PCs, InConfirm, PrePut
<1>4. ASSUME NEW row \in ProjectType, NEW p \in {"ref", "kv"}, Go(c, p), row.gen = c,
             proj' = [proj EXCEPT ![t[c].slug] = row],
             \/ proj[t[c].slug] = NoProject /\ row.ref = Nobody
             \/ proj[t[c].slug].gen = c /\ row.ref = c
      PROVE  IInv'
  <2>1. p \in PCs
    BY DEF PCs, InConfirm
  <2>2. PICK r \in TransferType :
           t' = [t EXCEPT ![c] = r] /\ r.pc = p /\ r.told = t[c].told /\ Same(r, t[c])
    BY <1>4, <2>1, GoFacts DEF IInv
  <2>3. /\ r.slug = t[c].slug /\ r.slug \in Slugs /\ r.before = {} /\ r.cursor = 0
        /\ r.keys \subseteq Ever /\ r.host \in Hosts /\ Key(r.slug, c, 0, r.host) \in Ever
    BY <1>1, <2>2 DEF Same, ClientOK, Archive, TransferType
  <2>4. Ever' = Ever
    BY <1>1 DEF Ever
  <2>5. ClientOK(c, r, s3', Ever')
    BY <1>4, <2>2, <2>3, <2>4 DEF ClientOK, InConfirm
  <2>6. ClientInv' /\ t' \in [Clients -> TransferType]
    BY <1>1, <2>2, <2>4, <2>5, ClientsKept
  <2>7. FreshInv'
    <3>1. r.pc \notin PrePut
      BY <1>4, <2>2 DEF PrePut
    <3> QED
      BY <2>2, <2>4, <3>1, FreshKept
  <2> DEFINE s == t[c].slug
  <2>8. /\ s \in Slugs /\ proj' \in [Slugs -> ProjectType] /\ proj'[s] = row /\ c # "none"
        /\ \A q \in Slugs \ {s} : proj'[q] = proj[q]
    BY <1>1, <1>4, TransfersAssumption DEF IInv, TypeOK
  <2> HIDE DEF s
  <2>9. \A a \in atts : a.proj = proj'[a.key[1]].gen /\ a.proj # "none"
    <3> SUFFICES ASSUME NEW a \in atts PROVE a.proj = proj'[a.key[1]].gen /\ a.proj # "none"
      OBVIOUS
    <3>1. a.key \in AllKeys /\ a.proj = proj[a.key[1]].gen /\ a.proj # "none"
      BY DEF IInv, TypeOK, RowType
    <3>2. a.key[1] \in Slugs
      BY <3>1 DEF AllKeys
    <3>3. a.key[1] = s => proj[s].gen = c
      BY <1>4, <3>1 DEF s, NoProject
    <3> QED
      BY <1>4, <2>8, <3>1, <3>2, <3>3
  <2>10. TypeOK'
    BY <1>1, <2>6, <2>8, <2>9 DEF IInv, TypeOK
  <2>11. GenInv'
    BY <1>4, <2>8 DEF IInv, GenInv
  <2>12. NothingDangling'
    <3>1. Served' = Served /\ s3' \cup swept' = s3 \cup swept /\ "none" \notin Clients
      BY <1>1, TransfersAssumption DEF Served
    <3>2. \E h \in Hosts : Key(s, c, 0, h) \in s3 \cup swept
      BY <2>3 DEF Ever, s
    <3>3. ASSUME NEW q \in Slugs, proj'[q].ref \in Clients
          PROVE  \E h \in Hosts : Key(q, proj'[q].ref, 0, h) \in s3 \cup swept
      <4>1. CASE q = s
        BY <1>4, <2>8, <3>1, <3>2, <3>3, <4>1 DEF Nobody
      <4>2. CASE q # s
        BY <2>8, <3>3, <4>2 DEF IInv, NothingDangling
      <4> QED
        BY <4>1, <4>2
    <3> QED
      BY <3>1, <3>3 DEF IInv, NothingDangling
  <2> QED
    BY <2>6, <2>7, <2>10, <2>11, <2>12 DEF IInv
<1>5. CASE CreateProject(c)
  <2>1. CASE proj[t[c].slug] = NoProject
    <3> DEFINE row == [gen |-> c, ref |-> Nobody]
    <3>1. row \in ProjectType /\ row.gen = c /\ row.ref = Nobody
      BY DEF ProjectType, Gens
    <3>2. proj' = [proj EXCEPT ![t[c].slug] = row] /\ Go(c, "ref")
      BY <1>5, <2>1 DEF CreateProject
    <3> HIDE DEF row
    <3> QED
      BY <1>4, <2>1, <3>1, <3>2
  <2> QED
    BY <1>2, <1>5, <2>1 DEF CreateProject, At
<1>6. CASE SetProjectImportRef(c)
  <2>1. CASE proj[t[c].slug].gen = c
    <3> DEFINE row == [proj[t[c].slug] EXCEPT !.ref = c]
    <3>1. row \in ProjectType /\ row.gen = c /\ row.ref = c
      BY <1>1, <2>1 DEF IInv, TypeOK, ProjectType
    <3>2. proj' = [proj EXCEPT ![t[c].slug] = row] /\ Go(c, "kv")
      BY <1>1, <1>6, <2>1 DEF SetProjectImportRef, IInv, TypeOK
    <3> HIDE DEF row
    <3> QED
      BY <1>4, <2>1, <3>1, <3>2
  <2> QED
    BY <1>3, <1>6, <2>1 DEF SetProjectImportRef, At
<1> QED
  BY <1>5, <1>6

\* Rows of attachments that the projects there are own, and that point at
\* something if they are handed out.
RowsOK(rows) ==
    /\ rows \subseteq RowType
    /\ \A a \in rows : a.proj = proj[a.key[1]].gen /\ a.proj # "none"
    /\ \A a \in rows : a.confirmed => a.key \in Ever

LEMMA RowsAre == ASSUME IInv PROVE RowsOK(atts)
  BY DEF IInv, TypeOK, NothingDangling, RowsOK, Served, Ever

\* Steps that change the rows of attachments.
LEMMA RowsStep ==
    ASSUME IInv, NEW c \in Clients, NEW r \in TransferType, t' = [t EXCEPT ![c] = r],
           UNCHANGED <<proj, kv, s3, agent, swept>>, faults' \in 0 .. MaxFaults, RowsOK(atts'),
           ClientOK(c, r, s3, Ever), r.pc \in PrePut => t[c].pc \in PrePut
    PROVE  IInv'
<1>1. Ever' = Ever
  BY DEF Ever
<1>2. ClientInv' /\ t' \in [Clients -> TransferType]
  BY <1>1, ClientsKept
<1>3. FreshInv'
  BY <1>1, FreshKept
<1>4. TypeOK'
  BY <1>2 DEF IInv, TypeOK, RowsOK
<1>5. GenInv'
  BY DEF IInv, GenInv
<1>6. NothingDangling'
  BY DEF IInv, NothingDangling, Served, RowsOK, Ever
<1> QED
  BY <1>2, <1>3, <1>4, <1>5, <1>6 DEF IInv

LEMMA CreateRow ==
    ASSUME IInv, NEW c \in Clients, NEW s \in Slugs, NEW n \in 0 .. 2, CreateAttachment(c, s, n)
    PROVE  RowsOK(atts')
<1> DEFINE row == [key |-> Key(s, c, n, DefaultHost), proj |-> proj[s].gen, confirmed |-> FALSE]
<1>1. atts' = atts \cup {row} /\ proj[s] # NoProject
  BY DEF CreateAttachment
<1>2. row.key = Key(s, c, n, DefaultHost) /\ row.proj = proj[s].gen /\ row.confirmed = FALSE
  OBVIOUS
<1>3. row \in RowType
  <2>1. Key(s, c, n, DefaultHost) \in AllKeys
    BY KeyType, TransfersAssumption
  <2>2. proj[s].gen \in Gens
    BY DEF IInv, TypeOK, ProjectType
  <2> QED
    BY <2>1, <2>2 DEF RowType
<1> HIDE DEF row
<1>4. row.proj = proj[row.key[1]].gen /\ row.proj # "none"
  BY <1>1, <1>2, KeyType, TransfersAssumption DEF IInv, GenInv
<1> QED
  BY <1>1, <1>2, <1>3, <1>4, RowsAre DEF RowsOK

LEMMA ConfirmRow ==
    ASSUME IInv, NEW k \in Ever, ConfirmAttachment(k) PROVE RowsOK(atts')
<1>1. RowsOK(atts)
  BY RowsAre
<1>2. ASSUME NEW a \in atts'
      PROVE  /\ a \in RowType /\ a.proj = proj[a.key[1]].gen /\ a.proj # "none"
             /\ a.confirmed => a.key \in Ever
  <2>1. CASE a \in atts
    BY <1>1, <2>1 DEF RowsOK
  <2>2. CASE a \notin atts
    <3>1. PICK b \in atts : b.key = k /\ a = [b EXCEPT !.confirmed = TRUE]
      BY <1>2, <2>2 DEF ConfirmAttachment, Row
    <3>2. b \in RowType /\ b.proj = proj[b.key[1]].gen /\ b.proj # "none"
      BY <1>1, <3>1 DEF RowsOK
    <3>3. a \in RowType /\ a.key = b.key /\ a.proj = b.proj
      BY <3>1, <3>2 DEF RowType
    <3> QED
      BY <3>1, <3>2, <3>3
  <2> QED
    BY <2>1, <2>2
<1> QED
  BY <1>2 DEF RowsOK

LEMMA Uploads ==
    ASSUME IInv, NEW c \in Clients,
           \/ \E s \in Slugs : HandleAttachmentUploadURL(c, s) \/ HandleNATSAttachmentUpload(c, s)
           \/ RetryUpload(c)
    PROVE  IInv'
<1>1. ASSUME NEW s \in Slugs, NEW p \in {"webput", "agentput"}, NEW n \in 0 .. 1,
             CreateAttachment(c, s, 1), t[c].pc = "idle", t' = [t EXCEPT ![c] = Transfer(p, s, n, DefaultHost)],
             UNCHANGED <<proj, kv, s3, agent, swept, faults>>
      PROVE  IInv'
  <2> DEFINE r == Transfer(p, s, n, DefaultHost)
  <2>1. t' = [t EXCEPT ![c] = r]
    BY <1>1
  <2>2. p \in PCs
    BY DEF PCs
  <2>3. /\ r \in TransferType /\ r.pc = p /\ r.slug = s /\ r.told = "waiting" /\ r.before = {}
        /\ r.keys = {} /\ r.cursor = 0
    BY <2>2, StartFacts, TransfersAssumption
  <2> HIDE DEF r
  <2>4. ClientOK(c, r, s3, Ever)
    BY <2>3 DEF ClientOK, InConfirm
  <2>5. t[c].pc \in PrePut
    BY <1>1 DEF PrePut
  <2>6. RowsOK(atts') /\ faults' \in 0 .. MaxFaults
    BY <1>1, CreateRow DEF IInv, TypeOK
  <2> QED
    BY <1>1, <2>1, <2>3, <2>4, <2>5, <2>6, RowsStep
<1>2. ASSUME NEW s \in Slugs, HandleAttachmentUploadURL(c, s) PROVE IInv'
  <2>1. /\ CreateAttachment(c, s, 1) /\ t[c].pc = "idle"
        /\ t' = [t EXCEPT ![c] = Transfer("webput", s, 1, DefaultHost)]
        /\ UNCHANGED <<proj, kv, s3, agent, swept, faults>>
    BY <1>2 DEF HandleAttachmentUploadURL, At
  <2>2. "webput" \in {"webput", "agentput"} /\ 1 \in 0 .. 1
    OBVIOUS
  <2> QED
    BY <1>1, <2>1, <2>2
<1>3. ASSUME NEW s \in Slugs, HandleNATSAttachmentUpload(c, s) PROVE IInv'
  <2>1. /\ CreateAttachment(c, s, 1) /\ t[c].pc = "idle"
        /\ t' = [t EXCEPT ![c] = Transfer("agentput", s, 0, DefaultHost)]
        /\ UNCHANGED <<proj, kv, s3, agent, swept, faults>>
    BY <1>3 DEF HandleNATSAttachmentUpload, Begin, At
  <2>2. "agentput" \in {"webput", "agentput"} /\ 0 \in 0 .. 1
    OBVIOUS
  <2> QED
    BY <1>1, <2>1, <2>2
<1>4. CASE RetryUpload(c)
  <2>1. /\ t[c] \in TransferType /\ ClientOK(c, t[c], s3, Ever) /\ t[c].pc = "agentput"
        /\ Fault /\ UNCHANGED <<proj, kv, s3, agent, swept>>
    BY <1>4 DEF IInv, TypeOK, ClientInv, RetryUpload, At
  <2>2. CASE End(c, "failed") /\ UNCHANGED atts
    <3>1. Quiet
      BY <2>1, <2>2, QuietStep DEF IInv
    <3> QED
      BY <2>1, <2>2, <3>1, Ends DEF Results
  <2>3. CASE CreateAttachment(c, t[c].slug, 2) /\ t' = [t EXCEPT ![c].n = 1]
    <3> DEFINE r == [t[c] EXCEPT !.n = 1]
    <3>1. t' = [t EXCEPT ![c] = r]
      BY <2>3 DEF IInv, TypeOK
    <3>2. /\ r \in TransferType /\ r.pc = "agentput" /\ r.slug = t[c].slug
          /\ r.before = t[c].before /\ r.keys = t[c].keys /\ r.cursor = t[c].cursor
      BY <2>1 DEF TransferType
    <3> HIDE DEF r
    <3>3. ClientOK(c, r, s3, Ever)
      BY <2>1, <3>2 DEF ClientOK, InConfirm
    <3>4. t[c].slug \in Slugs
      BY <2>1 DEF ClientOK
    <3>5. RowsOK(atts')
      BY <2>3, <3>4, CreateRow
    <3>6. faults' \in 0 .. MaxFaults
      BY <2>1, TransfersAssumption DEF IInv, TypeOK, Fault
    <3>7. t[c].pc \in PrePut
      BY <2>1 DEF PrePut
    <3> QED
      BY <2>1, <3>1, <3>2, <3>3, <3>5, <3>6, <3>7, RowsStep
  <2> QED
    BY <1>4, <2>2, <2>3 DEF RetryUpload
<1> QED
  BY <1>2, <1>3, <1>4

LEMMA Confirms ==
    ASSUME IInv, NEW c \in Clients,
           MarkConfirmed(c) \/ HandleNATSAttachmentConfirm(c) \/ ConfirmFails(c)
    PROVE  IInv'
<1>1. /\ t[c] \in TransferType /\ ClientOK(c, t[c], s3, Ever)
      /\ UNCHANGED <<proj, kv, s3, agent, swept>>
  BY DEF IInv, TypeOK, ClientInv, MarkConfirmed, HandleNATSAttachmentConfirm, ConfirmFails
<1>2. faults' \in 0 .. MaxFaults
  BY TransfersAssumption DEF IInv, TypeOK, Fault, MarkConfirmed, HandleNATSAttachmentConfirm,
                             ConfirmFails
<1>3. RowsOK(atts') /\ t[c].pc \in {"mark", "agentconfirm"}
  <2>1. CASE MarkConfirmed(c)
    <3>1. Attachment(c) \in Ever
      BY <1>1, <2>1 DEF MarkConfirmed, At, ClientOK, Attachment
    <3> QED
      BY <2>1, <3>1, ConfirmRow DEF MarkConfirmed, At
  <2>2. CASE HandleNATSAttachmentConfirm(c) \/ ConfirmFails(c)
    <3>1. Attempt(c) \in Ever /\ t[c].pc = "agentconfirm"
      BY <1>1, <2>2 DEF HandleNATSAttachmentConfirm, ConfirmFails, At, ClientOK, Attempt
    <3>2. ConfirmAttachment(Attempt(c)) \/ UNCHANGED atts
      BY <2>2 DEF HandleNATSAttachmentConfirm, ConfirmFails
    <3>3. CASE ConfirmAttachment(Attempt(c))
      BY <3>1, <3>3, ConfirmRow
    <3>4. CASE UNCHANGED atts
      BY <3>1, <3>4, RowsAre DEF RowsOK
    <3> QED
      BY <3>1, <3>2, <3>3, <3>4
  <2> QED
    BY <2>1, <2>2
<1>4. ASSUME NEW p \in {"sent", "end"}, NEW r \in TransferType, t' = [t EXCEPT ![c] = r],
             r.pc = p, Same(r, t[c])
      PROVE  IInv'
  <2>1. /\ r.slug \in Slugs /\ r.before = {} /\ r.cursor = 0 /\ r.keys \subseteq Ever
    BY <1>1, <1>3, <1>4 DEF Same, ClientOK
  <2>2. ClientOK(c, r, s3, Ever)
    BY <1>4, <2>1 DEF ClientOK, InConfirm, Left
  <2>3. r.pc \notin PrePut
    BY <1>4 DEF PrePut
  <2> QED
    BY <1>1, <1>2, <1>3, <1>4, <2>2, <2>3, RowsStep
<1>5. CASE Go(c, "sent")
  <2>1. "sent" \in PCs
    BY DEF PCs
  <2> QED
    BY <1>4, <1>5, <2>1, GoFacts DEF IInv
<1>6. ASSUME NEW result \in Results, End(c, result) PROVE IInv'
  BY <1>4, <1>6, EndFacts DEF IInv
<1>7. "ok" \in Results /\ "failed" \in Results
  BY DEF Results
<1> QED
  BY <1>5, <1>6, <1>7 DEF MarkConfirmed, HandleNATSAttachmentConfirm, ConfirmFails

\* The row goes, and with it the rows of the attachments.
LEMMA Deletes == ASSUME IInv, NEW c \in Clients, DeleteRow(c) PROVE IInv'
<1>1. /\ t[c] \in TransferType /\ ClientOK(c, t[c], s3, Ever) /\ t[c].pc = "row"
      /\ UNCHANGED <<kv, s3, agent, swept, faults>> /\ s3 \subseteq AllKeys
  BY DEF IInv, TypeOK, ClientInv, DeleteRow, At
<1>2. CASE End(c, "failed") /\ UNCHANGED <<proj, atts>>
  <2>1. Quiet
    BY <1>1, <1>2, QuietStep DEF IInv
  <2> QED
    BY <1>1, <1>2, <2>1, Ends DEF Results
<1> DEFINE s == t[c].slug
           x == Objects(s)
           r == [t[c] EXCEPT !.pc = "list", !.before = x]
<1>3. CASE /\ proj' = [proj EXCEPT ![s] = NoProject]
           /\ atts' = {a \in atts : a.key[1] # s}
           /\ t' = [t EXCEPT ![c].pc = "list", ![c].before = x]
  <2>1. t' = [t EXCEPT ![c] = r]
    BY <1>3 DEF IInv, TypeOK
  <2>2. x \in SUBSET AllKeys /\ x \subseteq Ever /\ \A k \in x : k[1] = s
    BY <1>1 DEF Objects, Ever
  <2> HIDE DEF x
  <2>3. /\ r \in TransferType /\ r.pc = "list" /\ r.slug = s /\ r.told = t[c].told
        /\ r.before = x /\ r.keys = t[c].keys /\ r.cursor = t[c].cursor
    BY <1>1, <2>2 DEF TransferType, PCs
  <2> HIDE DEF r
  <2>4. \A k \in x : KeyPlace(k) > 0
    BY <2>2, TransfersAssumption DEF KeyPlace, AllKeys
  <2>5. \A k \in Left(r, s3) : KeyPlace(k) > r.cursor
    BY <1>1, <2>3, <2>4 DEF ClientOK, Left
  <2>6. ClientOK(c, r, s3, Ever)
    BY <1>1, <2>2, <2>3, <2>5 DEF ClientOK, InConfirm
  <2>7. Ever' = Ever
    BY <1>1 DEF Ever
  <2>8. ClientInv' /\ t' \in [Clients -> TransferType]
    BY <1>1, <2>1, <2>3, <2>6, <2>7, ClientsKept
  <2>9. FreshInv'
    <3>1. r.pc \notin PrePut
      BY <2>3 DEF PrePut
    <3> QED
      BY <2>1, <2>3, <2>7, <3>1, FreshKept
  <2>10. s \in Slugs
    BY <1>1 DEF ClientOK
  <2> HIDE DEF s
  <2>11. /\ NoProject \in ProjectType /\ NoProject.gen = "none" /\ NoProject.ref \notin Clients
    BY TransfersAssumption DEF NoProject, ProjectType, Gens, Nobody
  <2>12. /\ proj' \in [Slugs -> ProjectType] /\ proj'[s] = NoProject
         /\ \A q \in Slugs \ {s} : proj'[q] = proj[q]
    BY <1>3, <2>10, <2>11 DEF IInv, TypeOK
  <2>13. \A a \in atts' : a.proj = proj'[a.key[1]].gen /\ a.proj # "none"
    <3> SUFFICES ASSUME NEW a \in atts' PROVE a.proj = proj'[a.key[1]].gen /\ a.proj # "none"
      OBVIOUS
    <3>1. a \in atts /\ a.key[1] # s
      BY <1>3
    <3>2. a.key \in AllKeys /\ a.proj = proj[a.key[1]].gen /\ a.proj # "none"
      BY <3>1 DEF IInv, TypeOK, RowType
    <3>3. a.key[1] \in Slugs
      BY <3>2 DEF AllKeys
    <3> QED
      BY <2>12, <3>1, <3>2, <3>3
  <2>14. TypeOK'
    BY <1>1, <1>3, <2>8, <2>12, <2>13 DEF IInv, TypeOK
  <2>15. GenInv'
    BY <2>12 DEF IInv, GenInv
  <2>16. NothingDangling'
    <3>1. Served' \subseteq Served
      BY <1>3 DEF Served
    <3>2. \A q \in Slugs : proj'[q].ref \in Clients => proj'[q] = proj[q]
      BY <2>11, <2>12
    <3> QED
      BY <1>1, <2>12, <3>1, <3>2 DEF IInv, NothingDangling
  <2> QED
    BY <2>8, <2>9, <2>14, <2>15, <2>16 DEF IInv
<1> QED
  BY <1>2, <1>3 DEF DeleteRow

---------------------------------------------------------------------------
(* The theorems *)

LEMMA InitInv == Init => IInv
<1> SUFFICES ASSUME Init PROVE IInv
  OBVIOUS
<1>1. /\ Idle \in TransferType /\ Idle.pc = "idle" /\ Idle.before = {} /\ Idle.keys = {}
      /\ Idle.cursor = 0
  <2>1. "idle" \in PCs
    BY DEF PCs
  <2> QED
    BY <2>1, StartFacts, TransfersAssumption DEF Idle
<1>2. \A c \in Clients : t[c] = Idle
  BY DEF Init
<1>3. ClientInv
  BY <1>1, <1>2 DEF ClientInv, ClientOK, InConfirm
<1>4. /\ NoProject \in ProjectType /\ [gen |-> "first", ref |-> Nobody] \in ProjectType
      /\ NoProject.ref = "none" /\ [gen |-> "first", ref |-> Nobody].ref = "none"
      /\ [gen |-> "first", ref |-> Nobody].gen = "first"
  BY DEF NoProject, Nobody, ProjectType, Gens
<1>5. \A s \in Slugs : proj[s] \in {NoProject, [gen |-> "first", ref |-> Nobody]}
  BY DEF Init
<1>6. TypeOK
  BY <1>1, <1>4, TransfersAssumption DEF Init, TypeOK
<1>7. GenInv
  BY <1>4, <1>5 DEF GenInv
<1>8. FreshInv
  BY DEF Init, FreshInv, Ever
<1>9. NothingDangling
  <2>1. "none" \notin Clients
    BY TransfersAssumption
  <2>2. \A s \in Slugs : proj[s].ref = "none"
    BY <1>4, <1>5
  <2>3. Served = {}
    BY DEF Init, Served
  <2> QED
    BY <2>1, <2>2, <2>3 DEF NothingDangling
<1> QED
  BY <1>3, <1>6, <1>7, <1>8, <1>9 DEF IInv

LEMMA NextInv == ASSUME IInv, [Next]_vars PROVE IInv'
<1>1. ASSUME NEW c \in Clients, Step(c) PROVE IInv'
  BY <1>1, ImportWalks, Puts, Imports, ConfirmWalks, AttachmentWalks, Confirms, Deletes,
     DeleteWalks, Sweeps DEF Step
<1>2. ASSUME NEW c \in Clients, NEW s \in Slugs, Start(c, s) PROVE IInv'
  BY <1>2, OtherWalks, Uploads DEF Start
<1>3. ASSUME NEW c \in Clients,
             \/ PromptProjectName(c) \/ ConfirmSkips(c) \/ ConfirmTimeout(c) \/ DownloadFails(c)
             \/ ReplyLost(c) \/ RetryUpload(c) \/ ConfirmFails(c) \/ ListFails(c)
             \/ S3DeletePrefix(c) \/ Fails(c)
      PROVE  IInv'
  BY <1>3, PromptWalks, ConfirmWalks, AttachmentWalks, Uploads, Confirms, DeleteWalks, OtherWalks
<1>4. ASSUME NEW s \in Slugs, CheckImport(s) PROVE IInv'
  BY <1>4, OtherWalks
<1>5. CASE UNCHANGED vars
  BY <1>5 DEF IInv, vars, TypeOK, GenInv, FreshInv, ClientInv, Ever, NothingDangling, Served
<1> QED
  BY <1>1, <1>2, <1>3, <1>4, <1>5 DEF Next

\* The inductive invariant.
THEOREM Invariance == Spec => []IInv
  <1> QED
    BY InitInv, NextInv, PTL DEF Spec

\* Every row of an attachment belongs to the project there is under its slug,
\* whichever imports and deletes of that slug overlap (db.go, the foreign key
\* of attachments).
THEOREM TransferTypes == Spec => []TypeOK
  <1>1. IInv => TypeOK
    BY DEF IInv
  <1> QED
    BY <1>1, Invariance, PTL

\* What the database points at was stored: confirmed attachments and
\* import_refs, including those confirmed without asking the store.
THEOREM PointersStored == Spec => []NothingDangling
  <1>1. IInv => NothingDangling
    BY DEF IInv
  <1> QED
    BY <1>1, Invariance, PTL

\* A delete that answered left nothing the project had under its row's host
\* when its row went, except what the store refused to delete and, if a page of
\* the listing failed, what was there then: whatever is uploaded between the
\* pages, and wherever it sorts.
THEOREM DeletesSweep == Spec => []SweepComplete
  <1>1. ASSUME IInv PROVE SweepComplete
    BY <1>1 DEF IInv, ClientInv, ClientOK, SweepComplete, Deleted, Left
  <1>2. IInv => SweepComplete
    BY <1>1
  <1> QED
    BY <1>2, Invariance, PTL
================================================================================
