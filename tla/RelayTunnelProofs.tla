--------------------------- MODULE RelayTunnelProofs ---------------------------
(***************************************************************************)
(* That the relay neither leaks nor loses a proxied request, and that the  *)
(* cleanup after an old tunnel spares its successor, for any number of     *)
(* requests, phones, terminals and tunnels.                                *)
(***************************************************************************)
EXTENDS RelayTunnel, SequenceTheorems, TLAPS

\* What is sent or registered on a tunnel goes to one that was looked up.
TargetInv ==
    /\ \A r \in Reqs : req[r].pc \in {"got", "send", "wait"} => req[r].t \in Tunnels
    /\ \A p \in Phones : phone[p].pc = "got" => phone[p].t \in Tunnels
    /\ \A p \in Ptys : pty[p].pc = "open" => pty[p].t \in Tunnels
    /\ cpc = "run" => conn \in Tunnels

\* A reply is made for a request that is taken out of the pending map with it.
ReplyInv ==
    \A r \in Reqs :
        /\ reply[r] # "none" => \A t \in Tunnels : r \notin pending[t]
        /\ req[r].pc \in {"new", "got"} => reply[r] = "none"

\* What the read loop of a tunnel has in its hand was pending on that tunnel, is in
\* no map any more, and has no outcome yet; its handler may have left.
HandInv ==
    \A t \in Tunnels : \A r \in hand[t] :
        /\ reply[r] = "none" /\ req[r].t = t /\ req[r].pc \in {"send", "wait", "done"}
        /\ handler[t] = "run" /\ \A s \in Tunnels : r \notin pending[s]

\* Tunnels are dialled in order, and the relay handles those that were dialled.
DialInv ==
    /\ \A s, t \in Tunnels : s < t /\ link[t] # "none" => link[s] # "none"
    /\ \A t \in Tunnels : link[t] = "none" => handler[t] = "none" /\ tunnels # t

\* The requests and tunnels, as opposed to the types.
Core == ReplyInv /\ DialInv /\ PendingMatchesWaiting /\ NewestServes /\ HandInv
Types == TypeOK /\ TargetInv
IInv == Types /\ Core

-----------------------------------------------------------------------------
(* The operators                                                           *)

\* Messages of each kind.
LEMMA Messages ==
    /\ \A t \in Tunnels, r \in Reqs : Msg(t, "http", r) \in ToConnector
    /\ \A t \in Tunnels, p \in Phones :
          Msg(t, "wsConnect", p) \in ToConnector /\ Msg(t, "wsClose", p) \in ToConnector
    /\ \A t \in Tunnels, p \in Ptys :
          Msg(t, "ptyConnect", p) \in ToConnector /\ Msg(t, "ptyClose", p) \in ToConnector
    /\ \A r \in Reqs : [kind |-> "httpResponse", id |-> r] \in ToRelay
    /\ \A p \in Phones : [kind |-> "wsMessage", id |-> p] \in ToRelay
                         /\ [kind |-> "wsClose", id |-> p] \in ToRelay
    /\ \A p \in Ptys : [kind |-> "ptyClose", id |-> p] \in ToRelay
  BY DEF Msg, ToConnector, ToRelay

\* What the kind of a message says about its id.
LEMMA MessageIds ==
    /\ \A m \in ToConnector : /\ m.kind = "http" => m.id \in Reqs
                              /\ m.kind \in {"wsConnect", "wsClose"} => m.id \in Phones
                              /\ m.kind \in {"ptyConnect", "ptyClose"} => m.id \in Ptys
    /\ \A m \in ToRelay : /\ m.kind = "httpResponse" => m.id \in Reqs
                          /\ m.kind \in {"wsMessage", "wsClose"} => m.id \in Phones
                          /\ m.kind = "ptyClose" => m.id \in Ptys
  BY DEF ToConnector, ToRelay

\* A write adds its message or nothing.
LEMMA WriteType ==
    ASSUME TypeOK, NEW t, NEW m \in ToConnector, Write(t, m) PROVE todo' \subseteq ToConnector
  BY DEF TypeOK, Write

\* What the connector sends arrives in order on the tunnel it has.
LEMMA SendType ==
    ASSUME TypeOK, NEW kind, NEW id, [kind |-> kind, id |-> id] \in ToRelay, Send(kind, id)
    PROVE  out' \in [Tunnels -> Seq(ToRelay)]
<1>1. CASE conn = NoTunnel \/ link[conn] = "down"
  BY <1>1 DEF TypeOK, Send
<1>2. CASE conn # NoTunnel /\ link[conn] # "down"
  <2>1. conn \in Tunnels /\ Append(out[conn], [kind |-> kind, id |-> id]) \in Seq(ToRelay)
    BY <1>2 DEF TypeOK
  <2> QED
    BY <1>2, <2>1 DEF TypeOK, Send
<1> QED
  BY <1>1, <1>2

\* What the relay reads off a tunnel.
LEMMA ReceivedType ==
    ASSUME TypeOK, NEW t \in Tunnels, NEW kind, Received(t, kind)
    PROVE  /\ out' \in [Tunnels -> Seq(ToRelay)]
           /\ Head(out[t]) \in ToRelay /\ Head(out[t]).kind = kind
<1>1. out[t] \in Seq(ToRelay) /\ out[t] # <<>>
  BY DEF TypeOK, Received
<1>2. Head(out[t]) \in ToRelay /\ Tail(out[t]) \in Seq(ToRelay)
  BY <1>1
<1> QED
  BY <1>2 DEF TypeOK, Received

\* A phone as the relay keeps it.
PhoneOK(c) == c \in PhoneType /\ Len(c.ch) <= ChCap

\* A full channel drops the message; nothing else of the phone changes.
LEMMA PushType ==
    ASSUME NEW c, PhoneOK(c), NEW m \in {"frame", "close"}
    PROVE  PhoneOK(Push(c, m)) /\ Push(c, m).pc = c.pc /\ Push(c, m).t = c.t
<1>1. c.ch \in Seq({"frame", "close"}) /\ Len(c.ch) \in Nat
  BY DEF PhoneOK, PhoneType
<1>2. CASE Len(c.ch) < ChCap
  <2>1. /\ Append(c.ch, m) \in Seq({"frame", "close"})
        /\ Len(Append(c.ch, m)) = Len(c.ch) + 1
    BY <1>1
  <2>2. Push(c, m) = [c EXCEPT !.ch = Append(c.ch, m)]
    BY <1>2 DEF Push
  <2> HIDE DEF Push
  <2>3. Push(c, m) \in PhoneType /\ Push(c, m).ch = Append(c.ch, m)
        /\ Push(c, m).pc = c.pc /\ Push(c, m).t = c.t
    BY <2>1, <2>2 DEF PhoneOK, PhoneType
  <2> QED
    BY <1>1, <1>2, <2>1, <2>3, ConstantsAssumption DEF PhoneOK
<1>3. CASE ~(Len(c.ch) < ChCap)
  BY <1>3 DEF Push
<1> QED
  BY <1>2, <1>3

PhonesOK(f) == f \in [Phones -> PhoneType] /\ \A p \in Phones : Len(f[p].ch) <= ChCap

\* A step of one phone.
LEMMA OnePhone ==
    ASSUME TypeOK, NEW p \in Phones, NEW c, PhoneOK(c)
    PROVE  PhonesOK([phone EXCEPT ![p] = c]) /\ PhoneOK(phone[p])
  BY DEF TypeOK, PhoneOK, PhonesOK

\* What the steps of a phone make of its record.
LEMMA PhoneFields ==
    ASSUME NEW c, PhoneOK(c)
    PROVE  /\ \A x \in {"open", "got", "on", "leaving"} : PhoneOK([c EXCEPT !.pc = x])
           /\ \A x \in {"got", "on"}, t \in Tunnels \cup {NoTunnel} :
                 PhoneOK([c EXCEPT !.pc = x, !.t = t])
           /\ PhoneOK([c EXCEPT !.pc = "on", !.bound = TRUE])
           /\ PhoneOK([c EXCEPT !.bound = FALSE])
           /\ [c EXCEPT !.bound = FALSE].pc = c.pc /\ [c EXCEPT !.bound = FALSE].t = c.t
<1> USE DEF PhoneOK, PhoneType
<1>1. \A x \in {"open", "got", "on", "leaving"} : PhoneOK([c EXCEPT !.pc = x])
  OBVIOUS
<1>2. \A x \in {"got", "on"}, t \in Tunnels \cup {NoTunnel} :
         PhoneOK([c EXCEPT !.pc = x, !.t = t])
  OBVIOUS
<1>3. PhoneOK([c EXCEPT !.pc = "on", !.bound = TRUE])
  OBVIOUS
<1>4. PhoneOK([c EXCEPT !.bound = FALSE])
      /\ [c EXCEPT !.bound = FALSE].pc = c.pc /\ [c EXCEPT !.bound = FALSE].t = c.t
  OBVIOUS
<1> QED
  BY <1>1, <1>2, <1>3, <1>4

\* No phone, a phone that left, and the rest of a phone's channel.
LEMMA PhoneEnds ==
    /\ PhoneOK(NoPhone) /\ PhoneOK([NoPhone EXCEPT !.pc = "gone"])
    /\ \A c : PhoneOK(c) /\ c.ch # <<>> => \A x \in {"on", "leaving"} :
          PhoneOK([c EXCEPT !.ch = Tail(c.ch), !.pc = x])
<1>1. <<>> \in Seq({"frame", "close"}) /\ Len(<<>>) = 0
  OBVIOUS
<1>2. PhoneOK(NoPhone) /\ PhoneOK([NoPhone EXCEPT !.pc = "gone"])
  <2>1. NoPhone \in PhoneType /\ [NoPhone EXCEPT !.pc = "gone"] \in PhoneType
    BY <1>1 DEF PhoneType, NoPhone
  <2>2. NoPhone.ch = <<>> /\ [NoPhone EXCEPT !.pc = "gone"].ch = <<>>
    BY DEF NoPhone
  <2>3. 0 <= ChCap
    BY ConstantsAssumption
  <2> QED
    BY <1>1, <2>1, <2>2, <2>3 DEF PhoneOK
<1>3. ASSUME NEW c, PhoneOK(c), c.ch # <<>>, NEW x \in {"on", "leaving"}
      PROVE  PhoneOK([c EXCEPT !.ch = Tail(c.ch), !.pc = x])
  <2>1. Tail(c.ch) \in Seq({"frame", "close"}) /\ Len(Tail(c.ch)) <= ChCap
    BY <1>3, ConstantsAssumption DEF PhoneOK, PhoneType
  <2> QED
    BY <1>3, <2>1 DEF PhoneOK, PhoneType
<1> QED
  BY <1>2, <1>3

\* What the steps of a request and of a terminal make of their records.
LEMMA ReqFields ==
    /\ \A q \in RequestType : q.t \in Tunnels \cup {NoTunnel}
          /\ \A x \in {"send", "wait", "done"} : [q EXCEPT !.pc = x] \in RequestType
    /\ \A x \in {"done", "got"}, t \in Tunnels \cup {NoTunnel} : [pc |-> x, t |-> t] \in RequestType
    /\ \A y \in PtyType : \A x \in {"on", "leaving"} :
          [y EXCEPT !.pc = x] \in PtyType /\ [y EXCEPT !.listed = FALSE, !.pc = x] \in PtyType
    /\ \A y \in PtyType : [y EXCEPT !.listed = FALSE, !.pc = @] \in PtyType
    /\ NoPty \in PtyType /\ [pc |-> "gone", t |-> NoTunnel, listed |-> FALSE] \in PtyType
    /\ \A t \in Tunnels : [pc |-> "open", t |-> t, listed |-> TRUE] \in PtyType
<1>1. \A q \in RequestType : q.t \in Tunnels \cup {NoTunnel}
          /\ \A x \in {"send", "wait", "done"} : [q EXCEPT !.pc = x] \in RequestType
  BY DEF RequestType
<1>2. \A x \in {"done", "got"}, t \in Tunnels \cup {NoTunnel} : [pc |-> x, t |-> t] \in RequestType
  BY DEF RequestType
<1>3. \A y \in PtyType : \A x \in {"on", "leaving"} :
          [y EXCEPT !.pc = x] \in PtyType /\ [y EXCEPT !.listed = FALSE, !.pc = x] \in PtyType
  BY DEF PtyType
<1>4. \A y \in PtyType : [y EXCEPT !.listed = FALSE, !.pc = @] \in PtyType
  BY DEF PtyType
<1>5. /\ NoPty \in PtyType /\ [pc |-> "gone", t |-> NoTunnel, listed |-> FALSE] \in PtyType
      /\ \A t \in Tunnels : [pc |-> "open", t |-> t, listed |-> TRUE] \in PtyType
  BY DEF PtyType, NoPty
<1> QED
  BY <1>1, <1>2, <1>3, <1>4, <1>5

\* No tunnel is none of the tunnels.
LEMMA NoTunnelOutside == NoTunnel \notin Tunnels
  BY ConstantsAssumption DEF NoTunnel, Tunnels

-----------------------------------------------------------------------------
(* The steps                                                               *)

\* Nothing is open and nothing was dialled.
LEMMA InitInv == Init => IInv
<1> SUFFICES ASSUME Init PROVE IInv
  OBVIOUS
<1>1. phone \in [Phones -> PhoneType] /\ \A p \in Phones : Len(phone[p].ch) <= ChCap
  BY PhoneEnds DEF Init, PhoneOK
<1>2. req \in [Reqs -> RequestType] /\ pty \in [Ptys -> PtyType]
  BY ReqFields DEF Init, RequestType
<1>3. out \in [Tunnels -> Seq(ToRelay)]
  BY DEF Init
<1>4. TypeOK
  BY <1>1, <1>2, <1>3 DEF Init, TypeOK
<1>5. TargetInv
  BY DEF Init, TargetInv, NoPhone, NoPty
<1>6. Core
  BY NoTunnelOutside DEF Init, Core, ReplyInv, DialInv, PendingMatchesWaiting, NewestServes, HandInv
<1> QED
  BY <1>4, <1>5, <1>6 DEF IInv, Types

\* Phones, terminals and the connector do not touch requests and tunnels.
LEMMA CoreKept ==
    ASSUME Core, UNCHANGED <<tunnels, handler, pending, hand, req, reply, link>> PROVE Core'
  BY DEF Core, ReplyInv, DialInv, PendingMatchesWaiting, NewestServes, HandInv

\* sendHTTPViaTunnel: a request is pending from its registration on, until its
\* answer, its failure or its timeout takes it out.
LEMMA ReqInv == ASSUME IInv, NEW r \in Reqs, ReqStep(r) PROVE IInv'
<1> USE DEF IInv, Types, relayVars, connVars, netVars
<1>0. req[r] \in RequestType
  BY DEF TypeOK
<1>1. CASE ReqLookup(r)
  <2>1. TypeOK'
    BY <1>0, <1>1, ReqFields DEF ReqLookup, TypeOK
  <2>2. TargetInv'
    BY <1>0, <1>1 DEF ReqLookup, TargetInv, TypeOK
  <2>3. Core'
    BY <1>0, <1>1 DEF ReqLookup, TypeOK, Core, ReplyInv, DialInv, PendingMatchesWaiting, NewestServes, HandInv
  <2> QED
    BY <2>1, <2>2, <2>3
<1>2. CASE ReqRegister(r)
  <2>1. TypeOK'
    BY <1>0, <1>2, ReqFields DEF ReqRegister, TypeOK
  <2>2. TargetInv'
    BY <1>0, <1>2 DEF ReqRegister, TargetInv, TypeOK, RequestType
  <2>3. Core'
    BY <1>0, <1>2 DEF ReqRegister, TypeOK, TargetInv, RequestType, Core, ReplyInv, DialInv,
                      PendingMatchesWaiting, NewestServes, HandInv
  <2> QED
    BY <2>1, <2>2, <2>3
<1>3. CASE ReqSend(r)
  <2>1. Msg(req[r].t, "http", r) \in ToConnector
    BY <1>3, Messages DEF ReqSend, TargetInv
  <2>2. todo' \subseteq ToConnector
    BY <1>3, <2>1, WriteType DEF ReqSend
  <2>3. TypeOK'
    BY <1>0, <1>3, <2>2, ReqFields DEF ReqSend, TypeOK
  <2>4. TargetInv'
    BY <1>0, <1>3 DEF ReqSend, TargetInv, TypeOK, RequestType
  <2>5. Core'
    BY <1>0, <1>3 DEF ReqSend, TypeOK, RequestType, Core, ReplyInv, DialInv,
                      PendingMatchesWaiting, NewestServes, HandInv
  <2> QED
    BY <2>3, <2>4, <2>5
<1>4. CASE ReqSendError(r) \/ ReqTimeout(r)
  <2>0. /\ req[r].pc \in {"send", "wait"}
        /\ pending' = [pending EXCEPT ![req[r].t] = @ \ {r}]
        /\ req' = [req EXCEPT ![r].pc = "done"]
        /\ UNCHANGED <<tunnels, handler, hand, reply, phone, pty, connVars, netVars>>
    BY <1>4 DEF ReqSendError, ReqTimeout, End
  <2>1. TypeOK'
    BY <1>0, <2>0, ReqFields DEF TypeOK
  <2>2. TargetInv'
    BY <1>0, <2>0 DEF TargetInv, TypeOK, RequestType
  <2>3. \A t \in Tunnels : pending'[t] = pending[t] \ {r}
    BY <2>0 DEF TypeOK, Core, PendingMatchesWaiting
  <2>4. /\ \A q \in Reqs : q # r => req'[q] = req[q]
        /\ req'[r].pc = "done" /\ req'[r].t = req[r].t
    BY <1>0, <2>0 DEF TypeOK, RequestType
  <2>5. ReplyInv' /\ DialInv' /\ NewestServes'
    BY <2>0, <2>3, <2>4 DEF Core, ReplyInv, DialInv, NewestServes
  <2>7. HandInv'
    BY <2>0, <2>3, <2>4 DEF Core, HandInv, TypeOK
  <2>6. PendingMatchesWaiting'
    BY <2>0, <2>3, <2>4 DEF Core, PendingMatchesWaiting, TargetInv
  <2> QED
    BY <2>1, <2>2, <2>5, <2>6, <2>7 DEF Core
<1>5. CASE ReqReply(r)
  <2>1. TypeOK'
    BY <1>0, <1>5, ReqFields DEF ReqReply, End, TypeOK
  <2>2. TargetInv'
    BY <1>0, <1>5 DEF ReqReply, End, TargetInv, TypeOK, RequestType
  <2>3. Core'
    BY <1>0, <1>5 DEF ReqReply, End, TypeOK, RequestType, Core, ReplyInv, DialInv,
                      PendingMatchesWaiting, NewestServes, HandInv
  <2> QED
    BY <2>1, <2>2, <2>3
<1> QED
  BY <1>1, <1>2, <1>3, <1>4, <1>5 DEF ReqStep

\* Dialling evicts the old entry of the host; the cleanup of a tunnel takes away
\* its own entry only and fails what was pending on it.
LEMMA TunnelInv ==
    ASSUME IInv, NEW t \in Tunnels,
           \/ Dial(t) \/ Break(t) \/ RelayNotices(t) \/ Unregister(t) \/ FailPending(t)
    PROVE  IInv'
<1> USE DEF IInv, Types, relayVars, reqVars, connVars, netVars
<1>1. CASE Dial(t)
  <2>1. TypeOK' /\ TargetInv'
    BY <1>1 DEF Dial, TypeOK, TargetInv
  <2>2. ReplyInv' /\ PendingMatchesWaiting'
    BY <1>1 DEF Dial, Core, ReplyInv, PendingMatchesWaiting
  <2>3. \A s \in Tunnels : s > t => link[s] = "none" /\ handler[s] = "none"
    BY <1>1, ConstantsAssumption DEF Dial, Core, DialInv, Tunnels
  <2>4. link' = [s \in Tunnels |-> IF s = t THEN "up"
                                   ELSE IF s = tunnels THEN "down" ELSE link[s]]
    BY <1>1 DEF Dial
  <2>5. \A s \in Tunnels : s < t => link[s] # "none"
    BY <1>1, ConstantsAssumption DEF Dial, Tunnels
  <2>6. \A s \in Tunnels : link'[s] = "none" <=> s > t
    BY <2>3, <2>4, <2>5 DEF Core, DialInv, Tunnels
  <2>7. \A s \in Tunnels : handler'[s] = IF s = t THEN "run" ELSE handler[s]
    BY <1>1 DEF Dial, TypeOK
  <2>8. tunnels' = t
    BY <1>1 DEF Dial
  <2>9. DialInv'
    BY <2>3, <2>6, <2>7, <2>8 DEF DialInv, Tunnels
  <2>10. NewestServes'
    BY <2>3, <2>6, <2>7, <2>8 DEF NewestServes, Tunnels
  <2>11. HandInv'
    BY <1>1, <2>7 DEF Dial, Core, HandInv
  <2> QED
    BY <2>1, <2>2, <2>9, <2>10, <2>11 DEF Core
<1>2. CASE Break(t)
  <2>1. TypeOK' /\ TargetInv'
    BY <1>2 DEF Break, TypeOK, TargetInv
  <2>2. Core'
    BY <1>2 DEF Break, TypeOK, Core, ReplyInv, DialInv, PendingMatchesWaiting, NewestServes, HandInv
  <2> QED
    BY <2>1, <2>2
<1>3. CASE RelayNotices(t) \/ Unregister(t)
  <2>1. TypeOK' /\ TargetInv'
    BY <1>3 DEF RelayNotices, Unregister, TypeOK, TargetInv
  <2>2. /\ UNCHANGED <<pending, req, reply, link>>
        /\ \A s \in Tunnels : handler'[s] # handler[s] => s = t /\ handler'[s] # "run"
        /\ tunnels' = tunnels \/ (tunnels = t /\ tunnels' = NoTunnel /\ handler[t] # "run")
        /\ link[t] # "none" /\ hand' = hand /\ hand[t] = {}
    BY <1>3 DEF RelayNotices, Unregister, TypeOK, Core, DialInv, HandInv
  <2>a. ReplyInv' /\ PendingMatchesWaiting' /\ DialInv'
    BY <2>2, NoTunnelOutside DEF Core, ReplyInv, PendingMatchesWaiting, DialInv
  <2>b. NewestServes'
    BY <2>2 DEF Core, NewestServes
  <2>c. HandInv'
    BY <2>2 DEF Core, HandInv
  <2> QED
    BY <2>1, <2>a, <2>b, <2>c DEF Core
<1>4. CASE FailPending(t)
  <2>1. TypeOK' /\ TargetInv'
    BY <1>4 DEF FailPending, TypeOK, TargetInv
  <2>2. /\ \A r \in Reqs : r \in pending[t] => reply[r] = "none" /\ reply'[r] = "nil"
        /\ \A r \in Reqs : r \notin pending[t] => reply'[r] = reply[r]
        /\ \A s \in Tunnels : pending'[s] = IF s = t THEN {} ELSE pending[s]
    BY <1>4 DEF FailPending, TypeOK, Core, ReplyInv
  <2>a. UNCHANGED <<req, hand>>
    BY <1>4 DEF FailPending
  <2>b. ReplyInv'
    BY <2>2, <2>a DEF Core, ReplyInv, PendingMatchesWaiting
  <2>c. PendingMatchesWaiting'
    BY <2>2, <2>a DEF Core, PendingMatchesWaiting, TargetInv
  <2>3. ReplyInv' /\ PendingMatchesWaiting'
    BY <2>b, <2>c
  <2>4. DialInv' /\ NewestServes'
    BY <1>4 DEF FailPending, TypeOK, Core, DialInv, NewestServes
  <2>5. handler[t] = "fail" /\ \A s \in Tunnels : s # t => handler'[s] = handler[s]
    BY <1>4 DEF FailPending, TypeOK
  <2>6. ASSUME NEW s \in Tunnels, NEW r \in hand[s]
        PROVE  /\ reply'[r] = reply[r] /\ handler'[s] = handler[s]
               /\ \A u \in Tunnels : pending'[u] \subseteq pending[u]
    <3>1. r \in Reqs /\ r \notin pending[t] /\ s # t
      BY <2>5, <2>6 DEF Core, HandInv, TypeOK
    <3> QED
      BY <2>2, <2>5, <3>1
  <2>7. HandInv'
    BY <2>a, <2>6 DEF Core, HandInv
  <2> QED
    BY <2>1, <2>3, <2>4, <2>7 DEF Core
<1> QED
  BY <1>1, <1>2, <1>3, <1>4

\* The read loop of a tunnel, and the phones it loses.
LEMMA RelayInv ==
    ASSUME IInv, NEW t \in Tunnels,
           \/ NotifyPhones(t) \/ DispatchHTTP(t) \/ DeliverHTTP(t) \/ DispatchPtyClose(t)
           \/ DispatchWS(t, "wsMessage", "frame") \/ DispatchWS(t, "wsClose", "close")
    PROVE  IInv'
<1> USE DEF IInv, Types, relayVars, reqVars, connVars, netVars
<1>0. \A p \in Phones : PhoneOK(phone[p])
  BY DEF TypeOK, PhoneOK
<1>1. CASE NotifyPhones(t)
  <2> DEFINE c(p) == Push([phone[p] EXCEPT !.bound = FALSE], "close")
  <2>1. \A p \in Phones : PhoneOK(c(p)) /\ c(p).pc = phone[p].pc /\ c(p).t = phone[p].t
    BY <1>0, PhoneFields, PushType
  <2>2. phone' = [p \in Phones |-> IF Listed(p) /\ phone[p].bound THEN c(p) ELSE phone[p]]
    BY <1>1 DEF NotifyPhones
  <2> HIDE DEF c
  <2>3. \A p \in Phones : PhoneOK(phone'[p]) /\ phone'[p].pc = phone[p].pc /\ phone'[p].t = phone[p].t
    BY <1>0, <2>1, <2>2
  <2>4. PhonesOK(phone')
    BY <2>2, <2>3 DEF PhoneOK, PhonesOK
  <2>5. TypeOK'
    BY <1>1, <2>4 DEF NotifyPhones, TypeOK, PhonesOK
  <2>6. TargetInv'
    BY <1>1, <2>3 DEF NotifyPhones, TargetInv
  <2>7. Core'
    BY <1>1 DEF NotifyPhones, TypeOK, Core, ReplyInv, DialInv, PendingMatchesWaiting, NewestServes, HandInv
  <2> QED
    BY <2>5, <2>6, <2>7
<1>2. CASE DispatchHTTP(t)
  <2> DEFINE r == Head(out[t]).id
  <2>1. out' \in [Tunnels -> Seq(ToRelay)] /\ r \in Reqs
    BY <1>2, ReceivedType, MessageIds DEF DispatchHTTP
  <2>2. /\ pending' = [pending EXCEPT ![t] = @ \ {r}]
        /\ hand' = [hand EXCEPT ![t] = pending[t] \cap {r}]
        /\ UNCHANGED <<tunnels, handler, reqVars, phone, pty, connVars, link, todo>>
        /\ handler[t] = "run" /\ hand[t] = {}
    BY <1>2 DEF DispatchHTTP, Received
  <2> HIDE DEF r
  <2>3. TypeOK' /\ TargetInv'
    BY <2>1, <2>2 DEF TypeOK, TargetInv
  <2>4. \A s \in Tunnels : /\ pending'[s] = IF s = t THEN pending[t] \ {r} ELSE pending[s]
                           /\ hand'[s] = IF s = t THEN pending[t] \cap {r} ELSE hand[s]
    BY <2>2 DEF TypeOK
  <2>5. ReplyInv'
    BY <2>2, <2>4 DEF Core, ReplyInv
  <2>6. PendingMatchesWaiting'
    BY <2>1, <2>2, <2>4 DEF Core, PendingMatchesWaiting, TargetInv
  <2>7. DialInv' /\ NewestServes'
    BY <2>2 DEF Core, DialInv, NewestServes
  <2>8. r \in pending[t] => /\ reply[r] = "none" /\ req[r].t = t
                            /\ req[r].pc \in {"send", "wait", "done"}
                            /\ \A s \in Tunnels : s # t => r \notin pending[s]
    BY <2>1 DEF Core, ReplyInv, PendingMatchesWaiting
  <2>9. HandInv'
    BY <2>2, <2>4, <2>8 DEF Core, HandInv
  <2> QED
    BY <2>3, <2>5, <2>6, <2>7, <2>9 DEF Core
<1>5. CASE DeliverHTTP(t)
  <2>1. TypeOK' /\ TargetInv'
    BY <1>5 DEF DeliverHTTP, TypeOK, TargetInv
  <2>2. /\ \A r \in Reqs : r \in hand[t] => reply'[r] = "answer"
        /\ \A r \in Reqs : r \notin hand[t] => reply'[r] = reply[r]
        /\ \A s \in Tunnels : hand'[s] = IF s = t THEN {} ELSE hand[s]
        /\ UNCHANGED <<tunnels, handler, pending, req, link>>
    BY <1>5 DEF DeliverHTTP, TypeOK, Core, HandInv
  <2>3. ReplyInv'
    BY <2>2 DEF Core, ReplyInv, HandInv
  <2>4. PendingMatchesWaiting'
    BY <2>2 DEF Core, PendingMatchesWaiting, TargetInv
  <2>5. DialInv' /\ NewestServes'
    BY <2>2 DEF Core, DialInv, NewestServes
  <2>7. ASSUME NEW s \in Tunnels, NEW r \in hand'[s]
        PROVE  r \in hand[s] /\ reply'[r] = reply[r]
    <3>1. r \in hand[s] /\ s # t
      BY <2>2, <2>7
    <3>2. r \in Reqs /\ req[r].t = s
      BY <3>1 DEF Core, HandInv, TypeOK
    <3>3. r \in hand[t] => req[r].t = t
      BY DEF Core, HandInv
    <3> QED
      BY <2>2, <3>1, <3>2, <3>3
  <2>6. HandInv'
    BY <2>2, <2>7 DEF Core, HandInv
  <2> QED
    BY <2>1, <2>3, <2>4, <2>5, <2>6 DEF Core
<1>3. ASSUME NEW kind \in {"wsMessage", "wsClose"}, NEW m \in {"frame", "close"},
             DispatchWS(t, kind, m)
      PROVE  IInv'
  <2> DEFINE p == Head(out[t]).id
  <2>1. out' \in [Tunnels -> Seq(ToRelay)] /\ p \in Phones
    BY <1>3, ReceivedType, MessageIds DEF DispatchWS
  <2>2. /\ phone' = IF Listed(p) /\ phone[p].bound
                    THEN [phone EXCEPT ![p] = Push(phone[p], m)] ELSE phone
        /\ UNCHANGED <<relayVars, reqVars, pty, connVars, link, todo>>
    BY <1>3 DEF DispatchWS
  <2> HIDE DEF p
  <2>3. PhoneOK(Push(phone[p], m)) /\ Push(phone[p], m).pc = phone[p].pc
        /\ Push(phone[p], m).t = phone[p].t
    BY <1>0, <2>1, PushType
  <2>4. PhonesOK(phone')
    BY <2>1, <2>2, <2>3, OnePhone DEF TypeOK, PhonesOK
  <2>5. TypeOK'
    BY <2>1, <2>2, <2>4 DEF TypeOK, PhonesOK
  <2>6. TargetInv'
    BY <2>1, <2>2, <2>3 DEF TypeOK, TargetInv
  <2> QED
    BY <2>2, <2>5, <2>6, CoreKept
<1>4. CASE DispatchPtyClose(t)
  <2> DEFINE p == Head(out[t]).id
  <2>1. out' \in [Tunnels -> Seq(ToRelay)] /\ p \in Ptys
    BY <1>4, ReceivedType, MessageIds DEF DispatchPtyClose
  <2>2. /\ pty' = IF pty[p].listed
                  THEN [pty EXCEPT ![p].listed = FALSE, ![p].pc = IF @ = "on" THEN "leaving" ELSE @]
                  ELSE pty
        /\ UNCHANGED <<relayVars, reqVars, phone, connVars, link, todo>>
    BY <1>4 DEF DispatchPtyClose
  <2> HIDE DEF p
  <2>3. pty[p] \in PtyType
    BY <2>1 DEF TypeOK
  <2>4. pty' \in [Ptys -> PtyType] /\ \A q \in Ptys :
           pty'[q].t = pty[q].t /\ (pty'[q].pc = pty[q].pc \/ pty'[q].pc = "leaving")
    BY <2>1, <2>2, <2>3 DEF TypeOK, PtyType
  <2>5. TypeOK'
    BY <2>1, <2>2, <2>4 DEF TypeOK
  <2>6. TargetInv'
    BY <2>2, <2>4 DEF TargetInv
  <2> QED
    BY <2>2, <2>5, <2>6, CoreKept
<1> QED
  BY <1>1, <1>2, <1>3, <1>4, <1>5

\* A phone's WebSocket.
LEMMA PhoneInv ==
    ASSUME IInv, NEW p \in Phones,
           \/ PhoneOpen(p) \/ PhoneLookup(p) \/ PhoneConnect(p)
           \/ PhoneReceive(p) \/ PhoneLeaves(p) \/ PhoneClosed(p)
    PROVE  IInv'
<1> USE DEF IInv, Types, relayVars, reqVars, connVars, netVars
<1>0. PhoneOK(phone[p]) /\ phone[p] \in PhoneType
  BY DEF TypeOK, PhoneOK
<1>1. ASSUME NEW c, PhoneOK(c), c.pc = "got" => c.t \in Tunnels,
             phone' = [phone EXCEPT ![p] = c], todo' \subseteq ToConnector,
             UNCHANGED <<relayVars, reqVars, pty, connVars, link, out>>
      PROVE  IInv'
  <2>1. PhonesOK(phone')
    BY <1>1, OnePhone
  <2>2. TypeOK'
    BY <1>1, <2>1 DEF TypeOK, PhonesOK
  <2>3. TargetInv'
    BY <1>1 DEF TargetInv, TypeOK
  <2> QED
    BY <1>1, <2>2, <2>3, CoreKept
<1>2. CASE PhoneOpen(p)
  <2> DEFINE c == [phone[p] EXCEPT !.pc = "open"]
  <2>1. PhoneOK(c) /\ c.pc = "open"
    BY <1>0, PhoneFields DEF PhoneType
  <2>2. phone' = [phone EXCEPT ![p] = c]
    BY <1>2 DEF PhoneOpen
  <2> HIDE DEF c
  <2> QED
    BY <1>1, <1>2, <2>1, <2>2 DEF PhoneOpen, TypeOK
<1>3. CASE PhoneLookup(p)
  <2> DEFINE x == IF tunnels = NoTunnel THEN "on" ELSE "got"
             c == [phone[p] EXCEPT !.pc = x, !.t = tunnels]
  <2>1. PhoneOK(c)
    BY <1>0, PhoneFields DEF TypeOK
  <2>2. c.pc = x /\ c.t = tunnels
    BY <1>0 DEF PhoneType
  <2>3. phone' = [phone EXCEPT ![p] = c]
    BY <1>0, <1>3 DEF PhoneLookup, TypeOK, PhoneType
  <2>4. c.pc = "got" => c.t \in Tunnels
    BY <2>2 DEF TypeOK
  <2> HIDE DEF c
  <2> QED
    BY <1>1, <1>3, <2>1, <2>3, <2>4 DEF PhoneLookup, TypeOK
<1>4. CASE PhoneConnect(p)
  <2> DEFINE c == [phone[p] EXCEPT !.pc = "on", !.bound = TRUE]
  <2>1. PhoneOK(c) /\ c.pc = "on"
    BY <1>0, PhoneFields DEF PhoneType
  <2>2. phone' = [phone EXCEPT ![p] = c]
    BY <1>0, <1>4 DEF PhoneConnect, TypeOK, PhoneType
  <2>3. Msg(phone[p].t, "wsConnect", p) \in ToConnector
    BY <1>4, Messages DEF PhoneConnect, TargetInv
  <2>4. todo' \subseteq ToConnector
    BY <1>4, <2>3, WriteType DEF PhoneConnect
  <2> HIDE DEF c
  <2> QED
    BY <1>1, <1>4, <2>1, <2>2, <2>4 DEF PhoneConnect
<1>5. CASE PhoneReceive(p)
  <2> DEFINE x == IF Head(phone[p].ch) = "close" /\ ~phone[p].bound THEN "leaving" ELSE "on"
             c == [phone[p] EXCEPT !.ch = Tail(phone[p].ch), !.pc = x]
  <2>1. PhoneOK(c)
    BY <1>0, <1>5, PhoneEnds DEF PhoneReceive
  <2>2. c.pc = x
    BY <1>0 DEF PhoneType
  <2>3. phone' = [phone EXCEPT ![p] = c]
    BY <1>0, <1>5 DEF PhoneReceive, TypeOK, PhoneType
  <2>4. c.pc # "got"
    BY <2>2
  <2> HIDE DEF c
  <2> QED
    BY <1>1, <1>5, <2>1, <2>3, <2>4 DEF PhoneReceive, TypeOK
<1>6. CASE PhoneLeaves(p)
  <2> DEFINE c == [phone[p] EXCEPT !.pc = "leaving"]
  <2>1. PhoneOK(c) /\ c.pc = "leaving"
    BY <1>0, PhoneFields DEF PhoneType
  <2>2. phone' = [phone EXCEPT ![p] = c]
    BY <1>6 DEF PhoneLeaves
  <2> HIDE DEF c
  <2> QED
    BY <1>1, <1>6, <2>1, <2>2 DEF PhoneLeaves, TypeOK
<1>7. CASE PhoneClosed(p)
  <2> DEFINE c == [NoPhone EXCEPT !.pc = "gone"]
  <2>1. PhoneOK(c) /\ c.pc = "gone"
    BY PhoneEnds DEF NoPhone
  <2>2. phone' = [phone EXCEPT ![p] = c]
    BY <1>7 DEF PhoneClosed
  <2>3. tunnels # NoTunnel => Msg(tunnels, "wsClose", p) \in ToConnector
    BY Messages DEF TypeOK
  <2>4. todo' \subseteq ToConnector
    BY <1>7, <2>3, WriteType DEF PhoneClosed, TypeOK
  <2> HIDE DEF c
  <2> QED
    BY <1>1, <1>7, <2>1, <2>2, <2>4 DEF PhoneClosed
<1> QED
  BY <1>2, <1>3, <1>4, <1>5, <1>6, <1>7

\* A browser's terminal.
LEMMA PtyInv ==
    ASSUME IInv, NEW p \in Ptys,
           \/ PtyOpen(p) \/ PtyConnect(p) \/ PtyConnectError(p) \/ PtyLeaves(p) \/ PtyClosed(p)
    PROVE  IInv'
<1> USE DEF IInv, Types, relayVars, reqVars, connVars, netVars
<1>0. pty[p] \in PtyType
  BY DEF TypeOK
<1>1. ASSUME NEW c, c \in PtyType, c.pc = "open" => c.t \in Tunnels,
             pty' = [pty EXCEPT ![p] = c], todo' \subseteq ToConnector,
             UNCHANGED <<relayVars, reqVars, phone, connVars, link, out>>
      PROVE  IInv'
  <2>1. TypeOK'
    BY <1>1 DEF TypeOK
  <2>2. TargetInv'
    BY <1>1 DEF TargetInv, TypeOK
  <2> QED
    BY <1>1, <2>1, <2>2, CoreKept
<1>2. CASE PtyOpen(p)
  <2> DEFINE c == [pc |-> "open", t |-> tunnels, listed |-> TRUE]
  <2>1. tunnels \in Tunnels
    BY <1>2 DEF PtyOpen, TypeOK
  <2>2. c \in PtyType /\ c.t \in Tunnels
    BY <2>1, ReqFields
  <2>3. pty' = [pty EXCEPT ![p] = c]
    BY <1>2 DEF PtyOpen
  <2> HIDE DEF c
  <2> QED
    BY <1>1, <1>2, <2>2, <2>3 DEF PtyOpen, TypeOK
<1>3. CASE PtyConnect(p)
  <2> DEFINE c == [pty[p] EXCEPT !.pc = "on"]
  <2>1. c \in PtyType /\ c.pc = "on"
    BY <1>0, ReqFields DEF PtyType
  <2>2. pty' = [pty EXCEPT ![p] = c]
    BY <1>3 DEF PtyConnect
  <2>3. Msg(pty[p].t, "ptyConnect", p) \in ToConnector
    BY <1>3, Messages DEF PtyConnect, TargetInv
  <2>4. todo' \subseteq ToConnector
    BY <1>3, <2>3, WriteType DEF PtyConnect
  <2> HIDE DEF c
  <2> QED
    BY <1>1, <1>3, <2>1, <2>2, <2>4 DEF PtyConnect
<1>4. CASE PtyConnectError(p) \/ PtyLeaves(p)
  <2> DEFINE c == [pty[p] EXCEPT !.pc = "leaving"]
  <2>1. c \in PtyType /\ c.pc = "leaving"
    BY <1>0, ReqFields DEF PtyType
  <2>2. pty' = [pty EXCEPT ![p] = c]
    BY <1>4 DEF PtyConnectError, PtyLeaves
  <2> HIDE DEF c
  <2> QED
    BY <1>1, <1>4, <2>1, <2>2 DEF PtyConnectError, PtyLeaves, TypeOK
<1>5. CASE PtyClosed(p)
  <2> DEFINE c == [pc |-> "gone", t |-> NoTunnel, listed |-> FALSE]
  <2>1. c \in PtyType /\ c.pc = "gone"
    BY ReqFields
  <2>2. pty' = [pty EXCEPT ![p] = c]
    BY <1>5 DEF PtyClosed
  <2>3. tunnels # NoTunnel => Msg(tunnels, "ptyClose", p) \in ToConnector
    BY Messages DEF TypeOK
  <2>4. todo' \subseteq ToConnector
    BY <1>5, <2>3, WriteType DEF PtyClosed, TypeOK
  <2> HIDE DEF c
  <2> QED
    BY <1>1, <1>5, <2>1, <2>2, <2>4 DEF PtyClosed
<1> QED
  BY <1>2, <1>3, <1>4, <1>5

\* The connector gives up a tunnel and closes what it had opened for it.
LEMMA ConnectorInv ==
    ASSUME IInv, ConnectorNotices \/ CloseWS \/ ClosePty PROVE IInv'
<1> USE DEF IInv, Types, relayVars, reqVars, connVars, netVars
<1>1. TypeOK'
  BY DEF ConnectorNotices, CloseWS, ClosePty, TypeOK
<1>2. TargetInv'
  BY DEF ConnectorNotices, CloseWS, ClosePty, TargetInv
<1>3. UNCHANGED <<tunnels, handler, pending, hand, req, reply, link>>
  BY DEF ConnectorNotices, CloseWS, ClosePty
<1> QED
  BY <1>1, <1>2, <1>3, CoreKept

\* A goroutine of the connector answers on the tunnel it finds, if any.
LEMMA HandleInv ==
    ASSUME IInv,
           \/ \E m \in todo : Handle(m)
           \/ \E p \in Phones : UpstreamFrame(p) \/ UpstreamCloses(p)
           \/ \E p \in Ptys : ShellExits(p)
    PROVE  IInv'
<1> USE DEF IInv, Types, relayVars, reqVars, connVars, netVars
<1>1. ASSUME out' \in [Tunnels -> Seq(ToRelay)], todo' \subseteq todo,
             upstream' \subseteq Phones, shells' \subseteq Ptys,
             UNCHANGED <<relayVars, reqVars, phone, pty, conn, cpc, link>>
      PROVE  IInv'
  <2>1. TypeOK'
    BY <1>1 DEF TypeOK
  <2>2. TargetInv'
    BY <1>1 DEF TargetInv
  <2> QED
    BY <1>1, <2>1, <2>2, CoreKept
<1>2. ASSUME NEW m \in todo, HandleHTTP(m) PROVE IInv'
  <2>1. m.id \in Reqs
    BY <1>2, MessageIds DEF HandleHTTP, TypeOK
  <2>2. out' \in [Tunnels -> Seq(ToRelay)]
    BY <1>2, <2>1, Messages, SendType DEF HandleHTTP
  <2> QED
    BY <1>1, <1>2, <2>2 DEF HandleHTTP, TypeOK
<1>3. ASSUME NEW m \in todo, HandleWSConnect(m) \/ HandleWSClose(m) PROVE IInv'
  <2>1. m.id \in Phones
    BY <1>3, MessageIds DEF HandleWSConnect, HandleWSClose, TypeOK
  <2>2. out' = out \/ Send("wsClose", m.id)
    BY <1>3 DEF HandleWSConnect, HandleWSClose
  <2>3. out' \in [Tunnels -> Seq(ToRelay)]
    BY <2>1, <2>2, Messages, SendType DEF TypeOK
  <2>4. upstream' \subseteq Phones /\ todo' \subseteq todo
        /\ UNCHANGED <<relayVars, reqVars, phone, pty, conn, cpc, shells, link>>
    BY <1>3, <2>1 DEF HandleWSConnect, HandleWSClose, TypeOK
  <2> QED
    BY <1>1, <2>3, <2>4 DEF TypeOK
<1>4. ASSUME NEW m \in todo, HandlePtyConnect(m) \/ HandlePtyClose(m) PROVE IInv'
  <2>1. m.id \in Ptys
    BY <1>4, MessageIds DEF HandlePtyConnect, HandlePtyClose, TypeOK
  <2>2. out' = out \/ Send("ptyClose", m.id)
    BY <1>4 DEF HandlePtyConnect, HandlePtyClose
  <2>3. out' \in [Tunnels -> Seq(ToRelay)]
    BY <2>1, <2>2, Messages, SendType DEF TypeOK
  <2>4. shells' \subseteq Ptys /\ todo' \subseteq todo
        /\ UNCHANGED <<relayVars, reqVars, phone, pty, conn, cpc, upstream, link>>
    BY <1>4, <2>1 DEF HandlePtyConnect, HandlePtyClose, TypeOK
  <2> QED
    BY <1>1, <2>3, <2>4 DEF TypeOK
<1>5. ASSUME NEW p \in Phones, UpstreamFrame(p) \/ UpstreamCloses(p) PROVE IInv'
  <2>1. Send("wsMessage", p) \/ Send("wsClose", p)
    BY <1>5 DEF UpstreamFrame, UpstreamCloses
  <2>2. out' \in [Tunnels -> Seq(ToRelay)]
    BY <2>1, Messages, SendType
  <2>3. upstream' \subseteq Phones
        /\ UNCHANGED <<relayVars, reqVars, phone, pty, conn, cpc, shells, link, todo>>
    BY <1>5 DEF UpstreamFrame, UpstreamCloses, TypeOK
  <2> QED
    BY <1>1, <2>2, <2>3 DEF TypeOK
<1>6. ASSUME NEW p \in Ptys, ShellExits(p) PROVE IInv'
  <2>1. out' \in [Tunnels -> Seq(ToRelay)]
    BY <1>6, Messages, SendType DEF ShellExits
  <2> QED
    BY <1>1, <1>6, <2>1 DEF ShellExits, TypeOK
<1> QED
  BY <1>2, <1>3, <1>4, <1>5, <1>6 DEF Handle

\* Every step keeps the invariant.
LEMMA NextInv == IInv /\ [Next]_vars => IInv'
<1> SUFFICES ASSUME IInv, [Next]_vars PROVE IInv'
  OBVIOUS
<1>1. CASE UNCHANGED vars
  <2>1. TypeOK' /\ TargetInv'
    BY <1>1 DEF IInv, Types, TypeOK, TargetInv, vars, relayVars, reqVars, connVars, netVars
  <2>2. Core'
    BY <1>1, CoreKept DEF IInv, vars, relayVars, reqVars, connVars, netVars
  <2> QED
    BY <2>1, <2>2 DEF IInv, Types
<1>2. CASE Next
  BY <1>2, ReqInv, TunnelInv, RelayInv, PhoneInv, PtyInv, ConnectorInv, HandleInv
  DEF Next, TunnelStep
<1> QED
  BY <1>1, <1>2

\* The invariant holds throughout.
LEMMA SpecInv == Spec => []IInv
  BY InitInv, NextInv, PTL DEF Spec

-----------------------------------------------------------------------------
(* The theorems                                                            *)

\* HandleTunnel and dispatchTunnelMsg: whatever the connector answers, late, to
\* another tunnel or not at all, a message names what its kind says and the
\* channel of a phone stays within its buffer.
THEOREM RelayTypes == Spec => []TypeOK
<1>1. IInv => TypeOK
  BY DEF IInv, Types
<1> QED
  BY <1>1, SpecInv, PTL

\* sendHTTPViaTunnel, dispatchTunnelMsg and the cleanup of HandleTunnel: no
\* pending entry leaks and no waiting request is forgotten.
THEOREM RequestsAccountedFor == Spec => []PendingMatchesWaiting
<1>1. IInv => PendingMatchesWaiting
  BY DEF IInv, Core
<1> QED
  BY <1>1, SpecInv, PTL

\* HandleTunnel: the entry of a host is its newest tunnel while the relay serves
\* it, however late the cleanup of the tunnels before it.
THEOREM SuccessorKept == Spec => []NewestServes
<1>1. IInv => NewestServes
  BY DEF IInv, Core
<1> QED
  BY <1>1, SpecInv, PTL

\* sendHTTPViaTunnel, dispatchTunnelMsg and the cleanup of HandleTunnel: the read loop
\* takes up an answer only while the handler of its request waits, on the tunnel it was
\* sent on; what it took up finds the channel empty, whether or not the handler has left
\* in the meantime, and nobody else fills the channel but the cleanup of that tunnel.
THEOREM LateAnswersDropped == Spec => AnsweredOnce
<1> DEFINE Once(r, t) ==
        /\ r \in hand'[t] \ hand[t] =>
              req[r].pc \in {"send", "wait"} /\ req[r].t = t /\ reply[r] = "none"
        /\ r \in hand[t] \ hand'[t] => reply[r] = "none" /\ reply'[r] = "answer"
        /\ reply'[r] # reply[r] =>
              reply[r] = "none" /\ (r \in hand[req[r].t] \/ handler[req[r].t] = "fail")
<1>1. ASSUME IInv, Next, NEW r \in Reqs, NEW t \in Tunnels PROVE Once(r, t)
  <2>1. CASE reply' = reply /\ hand' = hand
    BY <2>1
  <2>2. ASSUME NEW s \in Tunnels, FailPending(s) PROVE Once(r, t)
    <3>1. handler[s] = "fail" /\ hand' = hand /\ (reply'[r] # reply[r] => r \in pending[s])
      BY <2>2 DEF FailPending
    <3>2. r \in pending[s] => req[r].t = s /\ reply[r] = "none"
      BY <1>1 DEF IInv, Core, PendingMatchesWaiting, ReplyInv
    <3> QED
      BY <3>1, <3>2
  <2>3. ASSUME NEW s \in Tunnels, DispatchHTTP(s) PROVE Once(r, t)
    <3>1. /\ reply' = reply /\ hand[s] = {}
          /\ \A u \in Tunnels : hand'[u] # hand[u] => u = s /\ hand'[u] \subseteq pending[s]
      BY <1>1, <2>3 DEF DispatchHTTP, Received, reqVars, IInv, Types, TypeOK
    <3>2. r \in pending[s] => /\ req[r].pc \in {"send", "wait"}
                              /\ req[r].t = s /\ reply[r] = "none"
      BY <1>1 DEF IInv, Core, PendingMatchesWaiting, ReplyInv
    <3> QED
      BY <3>1, <3>2
  <2>4. ASSUME NEW s \in Tunnels, DeliverHTTP(s) PROVE Once(r, t)
    <3>1. /\ r \notin hand[s] => reply'[r] = reply[r]
          /\ r \in hand[s] /\ reply[r] = "none" => reply'[r] = "answer"
          /\ \A u \in Tunnels : hand'[u] = IF u = s THEN {} ELSE hand[u]
      BY <1>1, <2>4 DEF DeliverHTTP, IInv, Types, TypeOK
    <3>2. r \in hand[s] => req[r].t = s /\ reply[r] = "none"
      BY <1>1 DEF IInv, Core, HandInv
    <3> QED
      BY <3>1, <3>2
  <2>5. ASSUME NEW s \in Tunnels, Dial(s) \/ Break(s) \/ TunnelStep(s) PROVE Once(r, t)
    BY <2>1, <2>2, <2>3, <2>4, <2>5
    DEF Dial, Break, TunnelStep, RelayNotices, Unregister, NotifyPhones, DispatchWS,
        DispatchPtyClose, reqVars, relayVars
  <2>6. ASSUME ConnectorNotices \/ CloseWS \/ ClosePty PROVE Once(r, t)
    BY <2>1, <2>6 DEF ConnectorNotices, CloseWS, ClosePty, reqVars, relayVars
  <2>7. ASSUME NEW q \in Reqs, ReqStep(q) PROVE Once(r, t)
    BY <2>1, <2>7 DEF ReqStep, ReqLookup, ReqRegister, ReqSend, ReqSendError, ReqReply,
                      ReqTimeout, relayVars
  <2>8. ASSUME NEW p \in Phones,
               \/ PhoneOpen(p) \/ PhoneLookup(p) \/ PhoneConnect(p)
               \/ PhoneReceive(p) \/ PhoneLeaves(p) \/ PhoneClosed(p)
               \/ UpstreamFrame(p) \/ UpstreamCloses(p)
        PROVE  Once(r, t)
    BY <2>1, <2>8
    DEF PhoneOpen, PhoneLookup, PhoneConnect, PhoneReceive, PhoneLeaves, PhoneClosed,
        UpstreamFrame, UpstreamCloses, reqVars, relayVars
  <2>9. ASSUME NEW p \in Ptys,
               \/ PtyOpen(p) \/ PtyConnect(p) \/ PtyConnectError(p)
               \/ PtyLeaves(p) \/ PtyClosed(p) \/ ShellExits(p)
        PROVE  Once(r, t)
    BY <2>1, <2>9
    DEF PtyOpen, PtyConnect, PtyConnectError, PtyLeaves, PtyClosed, ShellExits, reqVars, relayVars
  <2>10. ASSUME NEW m \in todo, Handle(m) PROVE Once(r, t)
    BY <2>1, <2>10
    DEF Handle, HandleHTTP, HandleWSConnect, HandleWSClose, HandlePtyConnect, HandlePtyClose,
        reqVars, relayVars
  <2> HIDE DEF Once
  <2> QED
    BY <1>1, <2>5, <2>6, <2>7, <2>8, <2>9, <2>10 DEF Next
<1>2. IInv /\ [Next]_vars => [\A r \in Reqs, t \in Tunnels : Once(r, t)]_vars
  BY <1>1
<1> QED
  BY <1>2, SpecInv, PTL DEF Spec, AnsweredOnce
=============================================================================
