------------------------------ MODULE RelayTunnel ------------------------------
(***************************************************************************)
(* The relay (mclaude-relay/relay.go) and the connector of one laptop      *)
(* (mclaude-connector/main.go), joined by a tunnel that breaks and is      *)
(* dialled again.  Over the tunnel run HTTP requests, the WebSockets of    *)
(* phones and the terminals of browsers.                                   *)
(*                                                                         *)
(* The relay reads a tunnel in order; the connector starts a goroutine per *)
(* message, so a message to it is a member of a set, and a goroutine goes  *)
(* on when its tunnel is gone.  What the connector sends, it sends on the  *)
(* tunnel it has at that moment.  Either side may notice a broken tunnel   *)
(* late: until then its writes may succeed and be lost.                    *)
(*                                                                         *)
(* Payloads are left out: a frame or terminal data only passes through.    *)
(* Every request, phone and terminal has a fresh id and is used once.      *)
(* Bounds: MaxTunnels tunnels ever dialled, MaxOpen requests, phones and   *)
(* terminals ever opened, ChCap the buffer of a phone's channel.           *)
(***************************************************************************)
EXTENDS Naturals, Sequences, FiniteSets

CONSTANTS Reqs, Phones, Ptys, MaxTunnels, MaxOpen, ChCap

ASSUME ConstantsAssumption == MaxTunnels \in Nat /\ MaxOpen \in Nat /\ ChCap \in Nat \ {0}

Tunnels  == 1 .. MaxTunnels
NoTunnel == 0

VARIABLES
    tunnels,   \* the relay's entry for the laptop
    link,      \* the network connection of a tunnel: none, up, down
    handler,   \* HandleTunnel of a tunnel: none, run, unregister, fail, notify, done
    pending,   \* requests in the pending map of a tunnel
    hand,      \* the request a tunnel's read loop took out of it and has not served
    req,       \* [pc, t] of a request
    reply,     \* the channel of a request: none, answer, nil
    phone,     \* [pc, t, bound, ch] of a phone's WebSocket
    pty,       \* [pc, t, listed] of a browser's terminal
    conn,      \* the connector's tunnel
    cpc,       \* the connector: away, run, closeWS, closePty
    todo,      \* messages to the connector whose goroutine has not finished
    out,       \* messages to the relay, per tunnel
    upstream,  \* phones with a connection to mclaude-server
    shells     \* terminals with a running shell

relayVars == <<tunnels, handler, pending, hand>>
reqVars   == <<req, reply>>
connVars  == <<conn, cpc, upstream, shells>>
netVars   == <<link, todo, out>>
vars      == <<relayVars, reqVars, phone, pty, connVars, netVars>>

NoPhone == [pc |-> "off", t |-> NoTunnel, bound |-> FALSE, ch |-> <<>>]
NoPty   == [pc |-> "off", t |-> NoTunnel, listed |-> FALSE]

Init ==
    /\ tunnels = NoTunnel
    /\ link = [t \in Tunnels |-> "none"]
    /\ handler = [t \in Tunnels |-> "none"]
    /\ pending = [t \in Tunnels |-> {}] /\ hand = [t \in Tunnels |-> {}]
    /\ req = [r \in Reqs |-> [pc |-> "new", t |-> NoTunnel]]
    /\ reply = [r \in Reqs |-> "none"]
    /\ phone = [p \in Phones |-> NoPhone]
    /\ pty = [p \in Ptys |-> NoPty]
    /\ conn = NoTunnel /\ cpc = "away"
    /\ todo = {} /\ out = [t \in Tunnels |-> <<>>]
    /\ upstream = {} /\ shells = {}

MayOpen ==
    Cardinality({r \in Reqs : req[r].pc # "new"})
        + Cardinality({p \in Phones : phone[p].pc # "off"})
        + Cardinality({p \in Ptys : pty[p].pc # "off"}) < MaxOpen

---------------------------------------------------------------------------
(* Tunnel: dialling, breaking, cleaning up on both sides *)

Msg(t, kind, id) == [t |-> t, kind |-> kind, id |-> id]

\* A connector that connects again evicts the entry of its host name.
Dial(t) ==
    /\ cpc = "away" /\ link[t] = "none"
    /\ \A s \in 1 .. t - 1 : link[s] # "none"
    /\ link' = [s \in Tunnels |-> IF s = t THEN "up"
                                  ELSE IF s = tunnels THEN "down" ELSE link[s]]
    /\ tunnels' = t
    /\ handler' = [handler EXCEPT ![t] = "run"]
    /\ conn' = t /\ cpc' = "run"
    /\ UNCHANGED <<pending, hand, reqVars, phone, pty, upstream, shells, todo, out>>

Break(t) ==
    /\ link[t] = "up"
    /\ link' = [link EXCEPT ![t] = "down"]
    /\ UNCHANGED <<relayVars, reqVars, phone, pty, connVars, todo, out>>

\* Messages not read when the connector gives up the tunnel are lost.
ConnectorNotices ==
    /\ cpc = "run" /\ link[conn] = "down"
    /\ \E lost \in SUBSET {m \in todo : m.t = conn} : todo' = todo \ lost
    /\ conn' = NoTunnel /\ cpc' = "closeWS"
    /\ UNCHANGED <<relayVars, reqVars, phone, pty, upstream, shells, link, out>>

CloseWS ==
    /\ cpc = "closeWS"
    /\ upstream' = {} /\ cpc' = "closePty"
    /\ UNCHANGED <<relayVars, reqVars, phone, pty, conn, shells, netVars>>

ClosePty ==
    /\ cpc = "closePty"
    /\ shells' = {} /\ cpc' = "away"
    /\ UNCHANGED <<relayVars, reqVars, phone, pty, conn, upstream, netVars>>

RelayNotices(t) ==
    /\ handler[t] = "run" /\ hand[t] = {} /\ link[t] = "down"
    /\ handler' = [handler EXCEPT ![t] = "unregister"]
    /\ UNCHANGED <<tunnels, pending, hand, reqVars, phone, pty, connVars, netVars>>

UnregisterMutant(t) ==
    /\ handler[t] = "unregister"
    /\ tunnels' = NoTunnel
    /\ handler' = [handler EXCEPT ![t] = "fail"]
    /\ UNCHANGED <<pending, hand, reqVars, phone, pty, connVars, netVars>>

Unregister(t) ==
    /\ handler[t] = "unregister"
    /\ tunnels' = IF tunnels = t THEN NoTunnel ELSE tunnels
    /\ handler' = [handler EXCEPT ![t] = "fail"]
    /\ UNCHANGED <<pending, hand, reqVars, phone, pty, connVars, netVars>>

FailPendingMutant(t) ==
    /\ handler[t] = "fail"
    /\ pending' = [pending EXCEPT ![t] = {}]
    /\ handler' = [handler EXCEPT ![t] = "notify"]
    /\ UNCHANGED <<tunnels, hand, reqVars, phone, pty, connVars, netVars>>

FailPending(t) ==
    /\ handler[t] = "fail"
    /\ reply' = [r \in Reqs |-> IF r \in pending[t] /\ reply[r] = "none"
                                THEN "nil" ELSE reply[r]]
    /\ pending' = [pending EXCEPT ![t] = {}]
    /\ handler' = [handler EXCEPT ![t] = "notify"]
    /\ UNCHANGED <<tunnels, hand, req, phone, pty, connVars, netVars>>

PushMutant(c, m) == [c EXCEPT !.ch = Append(@, m)]

\* A full channel drops the message.
Push(c, m) == IF Len(c.ch) < ChCap THEN [c EXCEPT !.ch = Append(@, m)] ELSE c

Listed(p) == phone[p].pc \in {"open", "got", "on"}

\* Every phone bound to the host is unbound, whichever tunnel it was bound to.
NotifyPhones(t) ==
    /\ handler[t] = "notify"
    /\ phone' = [p \in Phones |->
                    IF Listed(p) /\ phone[p].bound
                    THEN Push([phone[p] EXCEPT !.bound = FALSE], "close") ELSE phone[p]]
    /\ handler' = [handler EXCEPT ![t] = "done"]
    /\ UNCHANGED <<tunnels, pending, hand, reqVars, pty, connVars, netVars>>

---------------------------------------------------------------------------
(* HTTP requests *)

\* A write to tunnel t: delivered, or lost without an error.
Write(t, m) ==
    IF link[t] = "up" THEN todo' = todo \cup {m} ELSE UNCHANGED todo
\* A write to a broken tunnel may also report an error.
WriteError(t) == link[t] = "down"

End(r) == req' = [req EXCEPT ![r].pc = "done"]

ReqLookup(r) ==
    /\ req[r].pc = "new" /\ MayOpen
    /\ req' = [req EXCEPT ![r] = [pc |-> IF tunnels = NoTunnel THEN "done" ELSE "got",
                                  t |-> tunnels]]
    /\ UNCHANGED <<relayVars, reply, phone, pty, connVars, netVars>>

ReqRegister(r) ==
    /\ req[r].pc = "got"
    /\ pending' = [pending EXCEPT ![req[r].t] = @ \cup {r}]
    /\ req' = [req EXCEPT ![r].pc = "send"]
    /\ UNCHANGED <<tunnels, handler, hand, reply, phone, pty, connVars, netVars>>

ReqSend(r) ==
    /\ req[r].pc = "send"
    /\ Write(req[r].t, Msg(req[r].t, "http", r))
    /\ req' = [req EXCEPT ![r].pc = "wait"]
    /\ UNCHANGED <<relayVars, reply, phone, pty, connVars, link, out>>

ReqSendError(r) ==
    /\ req[r].pc = "send" /\ WriteError(req[r].t)
    /\ pending' = [pending EXCEPT ![req[r].t] = @ \ {r}]
    /\ End(r)
    /\ UNCHANGED <<tunnels, handler, hand, reply, phone, pty, connVars, netVars>>

ReqReply(r) ==
    /\ req[r].pc = "wait" /\ reply[r] # "none"
    /\ End(r)
    /\ UNCHANGED <<relayVars, reply, phone, pty, connVars, netVars>>

ReqTimeoutMutant(r) ==
    /\ req[r].pc = "wait" /\ reply[r] # "none"
    /\ End(r)
    /\ UNCHANGED <<relayVars, reply, phone, pty, connVars, netVars>>

ReqTimeout(r) ==
    /\ req[r].pc = "wait"
    /\ pending' = [pending EXCEPT ![req[r].t] = @ \ {r}]
    /\ End(r)
    /\ UNCHANGED <<tunnels, handler, hand, reply, phone, pty, connVars, netVars>>

---------------------------------------------------------------------------
(* Phones *)

PhoneOpen(p) ==
    /\ phone[p] = NoPhone /\ MayOpen
    /\ phone' = [phone EXCEPT ![p].pc = "open"]
    /\ UNCHANGED <<relayVars, reqVars, pty, connVars, netVars>>

PhoneLookup(p) ==
    /\ phone[p].pc = "open"
    /\ phone' = [phone EXCEPT ![p].pc = IF tunnels = NoTunnel THEN "on" ELSE "got",
                              ![p].t = tunnels]
    /\ UNCHANGED <<relayVars, reqVars, pty, connVars, netVars>>

PhoneConnect(p) ==
    /\ phone[p].pc = "got"
    /\ phone' = [phone EXCEPT ![p].pc = "on", ![p].bound = TRUE]
    /\ Write(phone[p].t, Msg(phone[p].t, "wsConnect", p))
    /\ UNCHANGED <<relayVars, reqVars, pty, connVars, link, out>>

\* A close ends the phone's connection only when it is bound to no tunnel.
PhoneReceive(p) ==
    /\ phone[p].pc = "on" /\ phone[p].ch # <<>>
    /\ phone' = [phone EXCEPT ![p].ch = Tail(@),
                              ![p].pc = IF Head(phone[p].ch) = "close" /\ ~phone[p].bound
                                        THEN "leaving" ELSE "on"]
    /\ UNCHANGED <<relayVars, reqVars, pty, connVars, netVars>>

PhoneLeaves(p) ==
    /\ phone[p].pc = "on"
    /\ phone' = [phone EXCEPT ![p].pc = "leaving"]
    /\ UNCHANGED <<relayVars, reqVars, pty, connVars, netVars>>

PhoneClosed(p) ==
    /\ phone[p].pc = "leaving"
    /\ phone' = [phone EXCEPT ![p] = [NoPhone EXCEPT !.pc = "gone"]]
    /\ IF phone[p].bound /\ tunnels # NoTunnel
       THEN Write(tunnels, Msg(tunnels, "wsClose", p)) ELSE UNCHANGED todo
    /\ UNCHANGED <<relayVars, reqVars, pty, connVars, link, out>>

---------------------------------------------------------------------------
(* Terminals *)

PtyOpen(p) ==
    /\ pty[p] = NoPty /\ MayOpen /\ tunnels # NoTunnel
    /\ pty' = [pty EXCEPT ![p] = [pc |-> "open", t |-> tunnels, listed |-> TRUE]]
    /\ UNCHANGED <<relayVars, reqVars, phone, connVars, netVars>>

PtyConnect(p) ==
    /\ pty[p].pc = "open"
    /\ Write(pty[p].t, Msg(pty[p].t, "ptyConnect", p))
    /\ pty' = [pty EXCEPT ![p].pc = "on"]
    /\ UNCHANGED <<relayVars, reqVars, phone, connVars, link, out>>

PtyConnectError(p) ==
    /\ pty[p].pc = "open" /\ WriteError(pty[p].t)
    /\ pty' = [pty EXCEPT ![p].pc = "leaving"]
    /\ UNCHANGED <<relayVars, reqVars, phone, connVars, netVars>>

\* The browser goes away, or its connection was closed by the relay.
PtyLeaves(p) ==
    /\ pty[p].pc = "on"
    /\ pty' = [pty EXCEPT ![p].pc = "leaving"]
    /\ UNCHANGED <<relayVars, reqVars, phone, connVars, netVars>>

PtyClosed(p) ==
    /\ pty[p].pc = "leaving"
    /\ pty' = [pty EXCEPT ![p] = [pc |-> "gone", t |-> NoTunnel, listed |-> FALSE]]
    /\ IF tunnels # NoTunnel THEN Write(tunnels, Msg(tunnels, "ptyClose", p))
       ELSE UNCHANGED todo
    /\ UNCHANGED <<relayVars, reqVars, phone, connVars, link, out>>

---------------------------------------------------------------------------
(* Connector: goroutines of messages and of upstream connections *)

Send(kind, id) ==
    out' = IF conn = NoTunnel \/ link[conn] = "down" THEN out
           ELSE [out EXCEPT ![conn] = Append(@, [kind |-> kind, id |-> id])]

\* Served from disk, from mclaude-server or with an error: one response.
HandleHTTP(m) ==
    /\ m \in todo /\ m.kind = "http"
    /\ todo' = todo \ {m}
    /\ Send("httpResponse", m.id)
    /\ UNCHANGED <<relayVars, reqVars, phone, pty, connVars, link>>

HandleWSConnect(m) ==
    /\ m \in todo /\ m.kind = "wsConnect"
    /\ todo' = todo \ {m}
    /\ \/ upstream' = upstream \cup {m.id} /\ UNCHANGED out
       \/ Send("wsClose", m.id) /\ UNCHANGED upstream
    /\ UNCHANGED <<relayVars, reqVars, phone, pty, conn, cpc, shells, link>>

\* Closing the connection ends its reader, which reports it to the relay.
HandleWSClose(m) ==
    /\ m \in todo /\ m.kind = "wsClose"
    /\ todo' = todo \ {m}
    /\ upstream' = upstream \ {m.id}
    /\ IF m.id \in upstream THEN Send("wsClose", m.id) ELSE UNCHANGED out
    /\ UNCHANGED <<relayVars, reqVars, phone, pty, conn, cpc, shells, link>>

UpstreamFrame(p) ==
    /\ p \in upstream
    /\ \A t \in Tunnels : out[t] = <<>>       \* bound: frames do not pile up
    /\ Send("wsMessage", p)
    /\ UNCHANGED <<relayVars, reqVars, phone, pty, connVars, link, todo>>

UpstreamCloses(p) ==
    /\ p \in upstream
    /\ upstream' = upstream \ {p}
    /\ Send("wsClose", p)
    /\ UNCHANGED <<relayVars, reqVars, phone, pty, conn, cpc, shells, link, todo>>

HandlePtyConnect(m) ==
    /\ m \in todo /\ m.kind = "ptyConnect"
    /\ todo' = todo \ {m}
    /\ \/ shells' = shells \cup {m.id} /\ UNCHANGED out
       \/ Send("ptyClose", m.id) /\ UNCHANGED shells
    /\ UNCHANGED <<relayVars, reqVars, phone, pty, conn, cpc, upstream, link>>

HandlePtyClose(m) ==
    /\ m \in todo /\ m.kind = "ptyClose"
    /\ todo' = todo \ {m}
    /\ shells' = shells \ {m.id}
    /\ IF m.id \in shells THEN Send("ptyClose", m.id) ELSE UNCHANGED out
    /\ UNCHANGED <<relayVars, reqVars, phone, pty, conn, cpc, upstream, link>>

ShellExits(p) ==
    /\ p \in shells
    /\ shells' = shells \ {p}
    /\ Send("ptyClose", p)
    /\ UNCHANGED <<relayVars, reqVars, phone, pty, conn, cpc, upstream, link, todo>>

---------------------------------------------------------------------------
(* Relay: the read loop of a tunnel *)

Received(t, kind) == /\ handler[t] = "run" /\ hand[t] = {} /\ out[t] # <<>>
                     /\ Head(out[t]).kind = kind
                     /\ out' = [out EXCEPT ![t] = Tail(@)]

\* A slip: the channel of a request is found although its entry is gone.
DispatchHTTPMutant(t) ==
    /\ Received(t, "httpResponse")
    /\ LET r == Head(out[t]).id IN
        /\ pending' = [pending EXCEPT ![t] = @ \ {r}]
        /\ hand' = [hand EXCEPT ![t] = {r}]
    /\ UNCHANGED <<tunnels, handler, reqVars, phone, pty, connVars, link, todo>>

\* Under the lock: a late or foreign response finds no entry and is dropped.
DispatchHTTP(t) ==
    /\ Received(t, "httpResponse")
    /\ LET r == Head(out[t]).id IN
        /\ pending' = [pending EXCEPT ![t] = @ \ {r}]
        /\ hand' = [hand EXCEPT ![t] = pending[t] \cap {r}]
    /\ UNCHANGED <<tunnels, handler, reqVars, phone, pty, connVars, link, todo>>

\* After the unlock: a full channel drops the answer.  The handler may have left.
DeliverHTTP(t) ==
    /\ hand[t] # {}
    /\ reply' = [r \in Reqs |-> IF r \in hand[t] /\ reply[r] = "none"
                                THEN "answer" ELSE reply[r]]
    /\ hand' = [hand EXCEPT ![t] = {}]
    /\ UNCHANGED <<tunnels, handler, pending, req, phone, pty, connVars, netVars>>

DispatchWS(t, kind, m) ==
    /\ Received(t, kind)
    /\ LET p == Head(out[t]).id IN
        phone' = IF Listed(p) /\ phone[p].bound
                 THEN [phone EXCEPT ![p] = Push(@, m)] ELSE phone
    /\ UNCHANGED <<relayVars, reqVars, pty, connVars, link, todo>>

\* The terminal is unlisted and the browser's connection closed.
DispatchPtyClose(t) ==
    /\ Received(t, "ptyClose")
    /\ LET p == Head(out[t]).id IN
        pty' = IF pty[p].listed
               THEN [pty EXCEPT ![p].listed = FALSE,
                                ![p].pc = IF @ = "on" THEN "leaving" ELSE @]
               ELSE pty
    /\ UNCHANGED <<relayVars, reqVars, phone, connVars, link, todo>>

---------------------------------------------------------------------------

TunnelStep(t) ==
    \/ RelayNotices(t) \/ Unregister(t) \/ FailPending(t) \/ NotifyPhones(t)
    \/ DispatchHTTP(t) \/ DeliverHTTP(t) \/ DispatchPtyClose(t)
    \/ DispatchWS(t, "wsMessage", "frame") \/ DispatchWS(t, "wsClose", "close")

ReqStep(r) == \/ ReqLookup(r) \/ ReqRegister(r) \/ ReqSend(r) \/ ReqSendError(r)
              \/ ReqReply(r) \/ ReqTimeout(r)

Handle(m) == \/ HandleHTTP(m) \/ HandleWSConnect(m) \/ HandleWSClose(m)
             \/ HandlePtyConnect(m) \/ HandlePtyClose(m)

Next ==
    \/ \E t \in Tunnels : Dial(t) \/ Break(t) \/ TunnelStep(t)
    \/ ConnectorNotices \/ CloseWS \/ ClosePty
    \/ \E r \in Reqs : ReqStep(r)
    \/ \E p \in Phones : \/ PhoneOpen(p) \/ PhoneLookup(p) \/ PhoneConnect(p)
                         \/ PhoneReceive(p) \/ PhoneLeaves(p) \/ PhoneClosed(p)
                         \/ UpstreamFrame(p) \/ UpstreamCloses(p)
    \/ \E p \in Ptys : \/ PtyOpen(p) \/ PtyConnect(p) \/ PtyConnectError(p)
                       \/ PtyLeaves(p) \/ PtyClosed(p) \/ ShellExits(p)
    \/ \E m \in todo : Handle(m)

Spec == Init /\ [][Next]_vars

(* A request is a goroutine of the relay with a timer of 25 s. *)
FairSpec == Spec /\ \A r \in Reqs : WF_vars(ReqStep(r))

---------------------------------------------------------------------------

RequestType == [pc : {"new", "got", "send", "wait", "done"}, t : Tunnels \cup {NoTunnel}]
PhoneType   == [pc : {"off", "open", "got", "on", "leaving", "gone"}, t : Tunnels \cup {NoTunnel},
                bound : BOOLEAN, ch : Seq({"frame", "close"})]
PtyType     == [pc : {"off", "open", "on", "leaving", "gone"}, t : Tunnels \cup {NoTunnel},
                listed : BOOLEAN]
ToConnector == [t : Tunnels, kind : {"http"}, id : Reqs]
               \cup [t : Tunnels, kind : {"wsConnect", "wsClose"}, id : Phones]
               \cup [t : Tunnels, kind : {"ptyConnect", "ptyClose"}, id : Ptys]
ToRelay     == [kind : {"httpResponse"}, id : Reqs]
               \cup [kind : {"wsMessage", "wsClose"}, id : Phones]
               \cup [kind : {"ptyClose"}, id : Ptys]

\* The types: a message names a request, a phone or a terminal as its kind says,
\* and no channel holds more than its buffer.
TypeOK ==
    /\ tunnels \in Tunnels \cup {NoTunnel} /\ conn \in Tunnels \cup {NoTunnel}
    /\ link \in [Tunnels -> {"none", "up", "down"}]
    /\ handler \in [Tunnels -> {"none", "run", "unregister", "fail", "notify", "done"}]
    /\ pending \in [Tunnels -> SUBSET Reqs] /\ hand \in [Tunnels -> SUBSET Reqs]
    /\ req \in [Reqs -> RequestType]
    /\ reply \in [Reqs -> {"none", "answer", "nil"}]
    /\ phone \in [Phones -> PhoneType] /\ \A p \in Phones : Len(phone[p].ch) <= ChCap
    /\ pty \in [Ptys -> PtyType]
    /\ todo \subseteq ToConnector /\ out \in [Tunnels -> Seq(ToRelay)]
    /\ cpc \in {"away", "run", "closeWS", "closePty"}
    /\ upstream \subseteq Phones /\ shells \subseteq Ptys

\* sendHTTPViaTunnel, dispatchTunnelMsg and the cleanup of HandleTunnel
\* (relay.go:244, 296, 801): a pending entry always has a request that waits
\* for it on that tunnel, so nothing leaks, and a waiting request is still pending,
\* in the hand of its tunnel's read loop, or has its outcome in its channel, so no
\* answer and no failure of the tunnel is lost on the way.
PendingMatchesWaiting ==
    \A r \in Reqs :
        /\ \A t \in Tunnels : r \in pending[t] =>
                req[r].pc \in {"send", "wait"} /\ req[r].t = t
        /\ req[r].pc \in {"send", "wait"} =>
                r \in pending[req[r].t] \cup hand[req[r].t] \/ reply[r] # "none"

\* HandleTunnel (relay.go:199, 238): the cleanup of an evicted tunnel, however
\* late, does not take away the tunnel that replaced it.
NewestServes ==
    \A t \in Tunnels :
        (handler[t] = "run" /\ \A s \in Tunnels : s > t => link[s] = "none")
            => tunnels = t

\* dispatchTunnelMsg and the cleanup of HandleTunnel (relay.go:244, 296).  The read
\* loop takes up an answer only for a request whose handler still waits, on the
\* tunnel the request was sent on: one that comes after the timeout, a second time
\* or on the tunnel that followed is dropped.  What it has taken up always finds
\* the channel of one place empty, also when the handler leaves in between, and
\* nobody else fills the channel but the cleanup of that tunnel.
AnsweredOnce ==
    [][\A r \in Reqs, t \in Tunnels :
          /\ r \in hand'[t] \ hand[t] =>
                req[r].pc \in {"send", "wait"} /\ req[r].t = t /\ reply[r] = "none"
          /\ r \in hand[t] \ hand'[t] => reply[r] = "none" /\ reply'[r] = "answer"
          /\ reply'[r] # reply[r] =>
                reply[r] = "none" /\ (r \in hand[req[r].t] \/ handler[req[r].t] = "fail")]_vars

\* sendHTTPViaTunnel (relay.go:801): every proxied request is answered,
\* whatever happens to the tunnel and the laptop.
RequestsEnd == \A r \in Reqs : (req[r].pc # "new") ~> (req[r].pc = "done")

\* HandleTunnel (relay.go:234): once the relay has cleaned up after a tunnel,
\* no terminal of that tunnel is open any more.
PtyEndsWithTunnel ==
    \A p \in Ptys : pty[p].pc = "on" => handler[pty[p].t] # "done"
================================================================================
