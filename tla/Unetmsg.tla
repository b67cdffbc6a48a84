------------------------------ MODULE Unetmsg ------------------------------
(***************************************************************************)
(* The unetmsg daemons of two hosts (unetmsgd-remote.uc with the publish   *)
(* and subscribe lists of unetmsgd.uc and unetmsgd-client.uc), one name    *)
(* and the connections between them.                                       *)
(*                                                                         *)
(* Each host opens a connection to the other one, over which it announces  *)
(* what its clients publish and subscribe; the other end mirrors that.  A  *)
(* connection is a TCP stream with a queue each way that ends with "eof"   *)
(* once a side has closed it or the link is lost.  Its two ends, the       *)
(* sock_data of network_open_channel (tx) and of network_accept (rx), are  *)
(* closed one after the other, so that old and new connections overlap.    *)
(*                                                                         *)
(* A daemon is single threaded: a callback is one action.  The functions   *)
(* that callbacks are made of map a system state s = [host, conn, told] to *)
(* the next one.                                                           *)
(***************************************************************************)
EXTENDS Integers, Sequences, SequencesExt

CONSTANTS
  Hosts,         \* two hosts
  NConns,        \* connections that can exist at a time
  MaxHandles,    \* bound on the clients publishing or subscribing on a host
  Settings       \* settings to consider

Conns == 1 .. NConns
NoConn == 0      \* no entry in rx_channels or tx_channels

\* peers: what unetd may say of a peer; disturb: the kinds of events that may
\* happen; events: how many events of clients, unetd and the network may come;
\* late: how many timers may fire while an answer is on its way.
SettingRecords ==
  [peers: SUBSET {"no", "deny", "ok", "any"}, events: Nat, late: Nat,
   disturb: SUBSET {"clients", "update", "reopen", "restart", "link", "tokens"}]

ASSUME UnetmsgAssumption ==
  /\ \E a, b \in Hosts : a # b /\ Hosts = {a, b}
  /\ NConns \in Nat /\ MaxHandles \in Nat
  /\ Settings \subseteq SettingRecords
  /\ \A s \in Settings : s.peers \ {"no", "deny"} # {}

VARIABLES
  host,      \* the daemon of each host
  conn,      \* the connections, with the sock_data at either end
  told,      \* history: hosts whose subscribers got a "publish" in this step
  env        \* the setting, with the events and late timers still to come

vars == <<host, conn, told, env>>

Kinds == {"publish", "subscribe"}
Other(h) == CHOOSE o \in Hosts : o # h

Announce(kind, enabled) == [kind |-> kind, enabled |-> enabled]
Messages == [kind: Kinds \union {"hello", "auth", "reply", "refuse", "eof"},
             enabled: BOOLEAN]
Msg(kind) == Announce(kind, TRUE)

\* core.publish[name] and core.subscribe[name]: how many handles, and whether
\* the name has ever been used, since an empty list stays in place.
\* remote: the kinds for which core.remote_*[name] has an entry of the other
\* host.  peer: the other host in net.peers: with a list of allowed names that
\* the name is on ("ok") or not ("deny"), without a list ("any"), not at all.
HostStates(peers) ==
  [handles: [Kinds -> 0 .. MaxHandles], named: SUBSET Kinds, remote: SUBSET Kinds,
   peer: peers, timer: {"off", "short", "long"},
   tx: Conns \union {NoConn}, rx: Conns \union {NoConn}]

\* list: the kinds in which sock_data of the accepting end has the name.
ConnStates ==
  [from: Hosts, tx: {"closed", "wait", "asked", "auth"},
   rx: {"none", "hello", "auth", "closed"}, list: SUBSET Kinds,
   up: Seq(Messages), down: Seq(Messages)]

TypeOK ==
  /\ host \in [Hosts -> HostStates(env.peers)]
  /\ conn \in [Conns -> ConnStates]
  /\ told \subseteq Hosts
  /\ env \in SettingRecords
  /\ \E s \in Settings : /\ env.peers = s.peers /\ env.disturb = s.disturb
                         /\ env.events <= s.events /\ env.late <= s.late

Closed(c) == conn[c].tx = "closed" /\ conn[c].rx = "closed"

\* The connection to use next; they are interchangeable.
Unused == {c \in Conns : Closed(c) /\ \A d \in 1 .. c - 1 : ~Closed(d)}

-----------------------------------------------------------------------------
(* Sending and closing. *)

Sys == [host |-> host, conn |-> conn, told |-> {}]
Become(s) == host' = s.host /\ conn' = s.conn /\ told' = s.told

Put(q, m) == IF q # <<>> /\ Last(q).kind = "eof" THEN q ELSE Append(q, m)

SendUp(s, c, m)   == [s EXCEPT !.conn[c].up = Put(@, m)]
SendDown(s, c, m) == [s EXCEPT !.conn[c].down = Put(@, m)]

\* network_socket_close at either end: what is queued still arrives.
TxClosed(r) ==
  [r EXCEPT !.tx = "closed", !.down = <<>>,
            !.up = IF r.rx = "closed" THEN <<>> ELSE Put(r.up, Msg("eof"))]
RxClosed(r) ==
  [r EXCEPT !.rx = "closed", !.up = <<>>, !.list = {},
            !.down = IF r.tx = "closed" THEN <<>> ELSE Put(r.down, Msg("eof"))]
CloseTx(s, c) == [s EXCEPT !.conn[c] = TxClosed(s.conn[c])]
CloseRx(s, c) == [s EXCEPT !.conn[c] = RxClosed(s.conn[c])]

Arm(s, h, t) == [s EXCEPT !.host[h].timer = t]

\* core.handle_publish: the local subscribers are told that something about
\* the publishers has changed.
HandlePublish(s, h) ==
  IF s.host[h].handles["subscribe"] > 0 THEN [s EXCEPT !.told = @ \union {h}] ELSE s

\* network_rx_cleanup_state
RxCleanupState(s, h) ==
  LET t == [s EXCEPT !.host[h].remote = {}]
  IN  IF "publish" \in s.host[h].remote THEN HandlePublish(t, h) ELSE t

\* Mutant: the state is wiped, whichever connection of the peer is closed.
RxSocketCloseAny(s, h, c) ==
  LET t == RxCleanupState([s EXCEPT !.host[h].rx = IF @ = c THEN NoConn ELSE @], h)
  IN  CloseRx(t, c)

\* network_rx_socket_close
RxSocketClose(s, h, c) ==
  LET t == IF s.host[h].rx = c
           THEN RxCleanupState([s EXCEPT !.host[h].rx = NoConn], h) ELSE s
  IN  CloseRx(t, c)

\* network_tx_socket_close
TxSocketClose(s, h, c) ==
  CloseTx([s EXCEPT !.host[h].tx = IF @ = c THEN NoConn ELSE @], c)

\* The connections in rx_channels and tx_channels, closed if there are any.
CloseEntries(s, h, ends) ==
  LET t == IF "rx" \in ends /\ s.host[h].rx # NoConn
           THEN RxSocketClose(s, h, s.host[h].rx) ELSE s
  IN  IF "tx" \in ends /\ t.host[h].tx # NoConn
      THEN TxSocketClose(t, h, t.host[h].tx) ELSE t

TxAuth(s, h) == s.host[h].tx # NoConn /\ s.conn[s.host[h].tx].tx = "auth"

-----------------------------------------------------------------------------
(* Clients: client_pubsub, client_disconnect, pubsub_add, pubsub_del. *)

\* remote.pubsub_set
PubsubSet(s, h, kind, enabled) ==
  IF TxAuth(s, h) THEN SendUp(s, s.host[h].tx, Announce(kind, enabled)) ELSE s

Event(kind) ==
  /\ kind \in env.disturb /\ env.events > 0
  /\ env' = [env EXCEPT !.events = @ - 1]

ClientAdds(h, kind) ==
  LET n == host[h].handles[kind]
      s == IF n = 0 \/ kind = "publish" THEN PubsubSet(Sys, h, kind, TRUE) ELSE Sys
      t == [s EXCEPT !.host[h].handles[kind] = n + 1,
                     !.host[h].named = host[h].named \union {kind}]
  IN  /\ Event("clients") /\ n < MaxHandles
      /\ Become(IF kind = "publish" THEN HandlePublish(t, h) ELSE t)

\* Mutant: a client that is not on the list, or no longer, is taken off it.
ClientLeavesUnlisted(h, kind) ==
  LET n == host[h].handles[kind]
      s == IF kind = "publish" THEN HandlePublish(Sys, h) ELSE Sys
      t == [s EXCEPT !.host[h].handles[kind] = n - 1]
  IN  /\ Event("clients")
      /\ Become(IF n = 1 \/ kind = "publish" THEN PubsubSet(t, h, kind, n > 1) ELSE t)

ClientLeaves(h, kind) ==
  LET n == host[h].handles[kind]
      s == IF kind = "publish" THEN HandlePublish(Sys, h) ELSE Sys
      t == [s EXCEPT !.host[h].handles[kind] = n - 1]
  IN  /\ Event("clients") /\ n > 0
      /\ Become(IF n = 1 \/ kind = "publish" THEN PubsubSet(t, h, kind, n > 1) ELSE t)

-----------------------------------------------------------------------------
(* Connecting: network_connect_peers and network_open_channel. *)

\* Timers are slower than the answers they wait for, except for a few.
Idle(c) == conn[c].up = <<>> /\ conn[c].down = <<>> /\ conn[c].rx # "none"
Fires == IF \A c \in Conns : Idle(c) THEN UNCHANGED env
         ELSE env.late > 0 /\ env' = [env EXCEPT !.late = @ - 1]

FreshConn(h) == [from |-> h, tx |-> "wait", rx |-> "none", list |-> {},
                 up |-> <<>>, down |-> <<>>]

NetTimer(h) ==
  LET s == Arm(Sys, h, "off") IN
  /\ host[h].timer # "off" /\ Fires
  /\ IF host[h].peer = "no" THEN Become(CloseEntries(s, h, {"tx", "rx"}))
     ELSE IF TxAuth(Sys, h) THEN Become(s)
     ELSE LET t == CloseEntries(s, h, {"tx"}) IN
          \E c \in Unused :
            Become(Arm([t EXCEPT !.conn[c] = FreshConn(h), !.host[h].tx = c],
                       h, "long"))

\* network_accept, which closes the socket if the address is not of a peer.
Accept(c) ==
  LET h == Other(conn[c].from) IN
  /\ conn[c].rx = "none"
  /\ Become(IF host[h].peer = "no" THEN CloseRx(Sys, c)
            ELSE SendDown([Sys EXCEPT !.conn[c].rx = "hello"], c, Msg("hello")))
  /\ UNCHANGED env

-----------------------------------------------------------------------------
(* The end that has opened the connection: callbacks of network_open_channel. *)

Got(s, c, q) == IF q = "up" THEN [s EXCEPT !.conn[c].up = Tail(@)]
                ELSE [s EXCEPT !.conn[c].down = Tail(@)]

\* cb: a "hello" is answered with a token, if unetd makes one.
TxHello(s, h, c) ==
  SendUp([s EXCEPT !.conn[c].tx = "asked"], c, Msg("auth"))

\* Mutant: the subscribers are not told of publishers announced before.
TxAuthenticatedSilently(s, h, c) ==
  LET t == [s EXCEPT !.conn[c].tx = "auth"]
      u == IF "publish" \in t.host[h].named
           THEN SendUp(t, c, Announce("publish", TRUE)) ELSE t
  IN  IF "subscribe" \in t.host[h].named
      THEN SendUp(u, c, Announce("subscribe", TRUE)) ELSE u

\* Mutant: what the clients subscribe is not announced again.
TxAuthenticatedPartly(s, h, c) ==
  LET t == [s EXCEPT !.conn[c].tx = "auth"]
      u == IF "publish" \in t.host[h].named
           THEN SendUp(t, c, Announce("publish", TRUE)) ELSE t
      rx == t.host[h].rx
  IN  IF rx # NoConn /\ "publish" \in t.conn[rx].list THEN HandlePublish(u, h) ELSE u

\* auth_data_cb: every name known is announced, also one whose list is empty.
TxAuthenticated(s, h, c) ==
  LET t == [s EXCEPT !.conn[c].tx = "auth"]
      u == IF "publish" \in t.host[h].named
           THEN SendUp(t, c, Announce("publish", TRUE)) ELSE t
      v == IF "subscribe" \in t.host[h].named
           THEN SendUp(u, c, Announce("subscribe", TRUE)) ELSE u
      rx == t.host[h].rx
  IN  IF rx # NoConn /\ "publish" \in t.conn[rx].list THEN HandlePublish(v, h) ELSE v

\* Mutant: a lost connection is not opened again.
TxDisconnectedForever(s, h, c) == TxSocketClose(s, h, c)

\* disconnect_cb
TxDisconnected(s, h, c) ==
  LET t == TxSocketClose(s, h, c)
  IN  IF s.host[h].timer # "off" THEN t
      ELSE Arm(t, h, IF s.conn[c].tx = "auth" THEN "short" ELSE "long")

TxReceive(c) ==
  LET m == Head(conn[c].down).kind
      h == conn[c].from
      s == Got(Sys, c, "down")
  IN  /\ conn[c].down # <<>> /\ conn[c].tx # "closed"
      /\ Become(CASE m = "eof" -> TxDisconnected(s, h, c)
                  [] m = "hello" /\ conn[c].tx = "wait" -> TxHello(s, h, c)
                  [] m = "reply" /\ conn[c].tx = "asked" -> TxAuthenticated(s, h, c)
                  [] OTHER -> TxSocketClose(s, h, c))
      /\ UNCHANGED env

\* The token of a "hello" or of a reply is missing or not accepted.
TxTokenFails(c) ==
  /\ Event("tokens")
  /\ conn[c].down # <<>> /\ conn[c].tx \in {"wait", "asked"}
  /\ Head(conn[c].down).kind \in {"hello", "reply"}
  /\ Become(TxSocketClose(Got(Sys, c, "down"), conn[c].from, c))

\* The timer set with the request for authentication.
TxTimer(c) ==
  /\ conn[c].tx = "asked" /\ Fires
  /\ Become(TxSocketClose(Sys, conn[c].from, c))

-----------------------------------------------------------------------------
(* The accepting end: callbacks of network_accept. *)

\* network_check_auth, and the answer.
RxAuthenticated(s, h, c, answer) ==
  LET t == RxCleanupState(CloseEntries(s, h, {"rx"}), h)
      u == [t EXCEPT !.conn[c].rx = "auth", !.host[h].rx = c]
      v == IF TxAuth(u, h) THEN u ELSE Arm(u, h, "short")
  IN  SendDown(v, c, Msg(answer))

\* network_socket_handle_request for "publish" and "subscribe", enabled.  For a
\* peer that is gone but still connected reading its permissions is an
\* exception, and the announcement is dropped like one that is not allowed.
RxEnable(s, h, c, kind) ==
  LET tell(t) == IF kind = "publish" /\ TxAuth(t, h) THEN HandlePublish(t, h) ELSE t
  IN  IF kind \in s.conn[c].list THEN tell(s)
      ELSE IF s.host[h].peer \in {"no", "deny"} THEN s
      ELSE tell([s EXCEPT !.host[h].remote = @ \union {kind},
                          !.conn[c].list = @ \union {kind}])

\* The same, not enabled.
RxDisable(s, h, c, kind) ==
  LET t == IF kind = "publish" THEN HandlePublish(s, h) ELSE s
  IN  IF kind \notin s.conn[c].list THEN s
      ELSE [t EXCEPT !.host[h].remote = @ \ {kind}, !.conn[c].list = @ \ {kind}]

RxReceive(c) ==
  LET m == Head(conn[c].up)
      h == Other(conn[c].from)
      s == Got(Sys, c, "up")
  IN  /\ conn[c].up # <<>> /\ conn[c].rx \in {"hello", "auth"}
      /\ LET asks == m.kind = "auth" /\ host[h].peer # "no" IN
         Become(CASE m.kind = "eof" \/ (conn[c].rx = "hello" /\ ~asks) -> RxSocketClose(s, h, c)
                  [] conn[c].rx = "hello" /\ asks -> RxAuthenticated(s, h, c, "reply")
                  [] conn[c].rx = "auth" /\ m.kind \in Kinds /\ m.enabled ->
                       RxEnable(s, h, c, m.kind)
                  [] conn[c].rx = "auth" /\ m.kind \in Kinds /\ ~m.enabled ->
                       RxDisable(s, h, c, m.kind))
      /\ UNCHANGED env

\* The token is not accepted, or unetd makes none for the reply; in this case
\* the request for authentication ends without an answer.
RxTokenFails(c) ==
  LET h == Other(conn[c].from)
      s == Got(Sys, c, "up")
  IN  /\ Event("tokens")
      /\ conn[c].up # <<>> /\ conn[c].rx = "hello" /\ Head(conn[c].up).kind = "auth"
      /\ host[h].peer # "no"
      /\ \/ Become(RxSocketClose(s, h, c))
         \/ Become(RxAuthenticated(s, h, c, "refuse"))

\* The timer of a connection that has not been authenticated.
RxTimer(c) ==
  /\ conn[c].rx = "hello" /\ Fires
  /\ Become(CloseRx(Sys, c))

-----------------------------------------------------------------------------
(* unetd and the network. *)

\* The list that network_update compares; one that is missing is null.
Allowed(peer) == IF peer \in {"no", "any"} THEN "null" ELSE peer

\* network_update: the peer comes, goes, is allowed something else or stays; the
\* timer is set in any case.
NetworkUpdate(h, peer) ==
  LET ends == IF host[h].peer = "no" \/ Allowed(host[h].peer) = Allowed(peer)
              THEN {} ELSE {"rx", "tx"}
      s == CloseEntries(Sys, h, ends)
  IN  /\ Event("update") /\ peer \in env.peers
      /\ Become(Arm([s EXCEPT !.host[h].peer = peer], h, "short"))

\* network_update, when the local address changes: network_close and
\* network_open, which can listen at the new address.
NetworkReopen(h) ==
  /\ Event("reopen")
  /\ Become(Arm(CloseEntries(Sys, h, {"rx", "tx"}), h, "short"))

NewHost(p) == [handles |-> [k \in Kinds |-> 0], named |-> {}, remote |-> {}, peer |-> p,
               timer |-> "short", tx |-> NoConn, rx |-> NoConn]

\* The daemon is restarted; its clients come back as new ones.
Restart(h) ==
  LET closed(c) ==
        IF conn[c].from = h
        THEN IF conn[c].tx = "closed" THEN conn[c] ELSE TxClosed(conn[c])
        ELSE IF conn[c].rx \in {"none", "closed"} THEN conn[c] ELSE RxClosed(conn[c])
  IN  /\ Event("restart")
      /\ host' = [host EXCEPT ![h] = NewHost(host[h].peer)]
      /\ conn' = [c \in Conns |-> closed(c)]
      /\ told' = {}

\* The link is lost, with all that is on its way.  It is taken from TCP that either
\* end will notice, although an idle connection has to send something first.
LinkLost(c) ==
  /\ Event("link") /\ ~Closed(c)
  /\ conn' = [conn EXCEPT
                ![c].up = IF conn[c].rx = "closed" THEN <<>> ELSE <<Msg("eof")>>,
                ![c].down = IF conn[c].tx = "closed" THEN <<>> ELSE <<Msg("eof")>>]
  /\ told' = {}
  /\ UNCHANGED host

Init ==
  /\ env \in Settings
  /\ \E p \in env.peers \ {"no", "deny"} : host = [h \in Hosts |-> NewHost(p)]
  /\ conn = [c \in Conns |-> [from |-> CHOOSE h \in Hosts : TRUE, tx |-> "closed",
                              rx |-> "closed", list |-> {}, up |-> <<>>, down |-> <<>>]]
  /\ told = {}

Timers(c) == TxTimer(c) \/ RxTimer(c)
Callbacks(c) == Accept(c) \/ TxReceive(c) \/ RxReceive(c)

Environment ==
  \/ \E h \in Hosts : \/ \E k \in Kinds : ClientAdds(h, k) \/ ClientLeaves(h, k)
                      \/ \E p \in {"no", "deny", "ok", "any"} : NetworkUpdate(h, p)
                      \/ NetworkReopen(h) \/ Restart(h)
  \/ \E c \in Conns : LinkLost(c) \/ TxTokenFails(c) \/ RxTokenFails(c)

Next == \/ Environment
        \/ \E c \in Conns : Callbacks(c) \/ Timers(c)
        \/ \E h \in Hosts : NetTimer(h)

Spec == Init /\ [][Next]_vars

\* uloop delivers what has arrived and fires the timers that are set.
FairSpec == /\ Spec
            /\ \A c \in Conns : WF_vars(Callbacks(c)) /\ WF_vars(Timers(c))
            /\ \A h \in Hosts : WF_vars(NetTimer(h))

-----------------------------------------------------------------------------
(* Properties. *)

\* A peer without an authenticated outgoing connection is tried again: the
\* only wake-up there is, net.timer, is set.
RetryArmed ==
  \A h \in Hosts : host[h].peer # "no" /\ ~TxAuth(Sys, h) => host[h].timer # "off"

\* What a host believes of the other one is what the current incoming
\* connection has announced, while connections overlap as well; without one it
\* believes nothing.  It believes something only of a peer that is allowed it,
\* or of one that has gone and that net.timer is about to disconnect.
MirrorsCurrent ==
  \A h \in Hosts :
    LET rx == host[h].rx IN
    /\ host[h].remote = IF rx = NoConn THEN {} ELSE conn[rx].list
    /\ host[h].remote # {} =>
         \/ host[h].peer \in {"ok", "any"}
         \/ host[h].peer = "no" /\ host[h].timer # "off"

\* A host can reach a publisher on the other one: it knows of it and has a
\* channel to it.
Reach(s, h) == "publish" \in s.host[h].remote /\ TxAuth(s, h)

\* Subscribers are told in the step in which a remote publisher gets within
\* reach, whichever of announcement and outgoing channel comes last.
ToldWhenReachable ==
  [][\A h \in Hosts :
       /\ ~Reach(Sys, h)
       /\ Reach([host |-> host', conn |-> conn'], h)
       /\ host[h].handles["subscribe"] > 0 /\ host'[h].handles["subscribe"] > 0
       => h \in told']_vars

Knows(h, o, kind) == kind \in host[o].remote

\* After the last disturbance, hosts that are peers of each other are
\* connected, and each knows what the clients of the other one publish and
\* subscribe and nothing that was never announced.  The exception are peers
\* without a list of allowed names: network_update does not disconnect them, and
\* what one announces while it is gone from the list of peers is lost.
Converges ==
  <>[](\A h \in Hosts :
         (\A g \in Hosts : host[g].peer = "ok") =>
           /\ TxAuth(Sys, h)
           /\ \A k \in Kinds :
                /\ host[h].handles[k] > 0 => Knows(h, Other(h), k)
                /\ Knows(h, Other(h), k) => k \in host[h].named)
=============================================================================
