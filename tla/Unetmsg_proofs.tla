--------------------------- MODULE Unetmsg_proofs ---------------------------
(***************************************************************************)
(* Proofs about Unetmsg for any number of connections, clients, events and *)
(* late timers.                                                            *)
(*                                                                         *)
(* The callbacks are functions from system states to system states, and so *)
(* are the lemmas: what each function keeps, and what it changes.  The     *)
(* invariant relates the two ends of a connection (which messages can be   *)
(* on their way, given the states of the ends), the entries of             *)
(* rx_channels and tx_channels and the connections, and the mirrored lists *)
(* and the announcements.                                                  *)
(***************************************************************************)
EXTENDS Unetmsg, TLAPS

-----------------------------------------------------------------------------
(* One connection. *)

\* What is on its way to the accepting end: one request for authentication at
\* most, in front of everything else and only until that end has taken it.
UpOrdered(r) ==
  \A i \in 1 .. Len(r.up) :
    /\ r.up[i].kind \in Kinds \union {"auth", "eof"}
    /\ r.up[i].kind = "eof" => i = Len(r.up)
    /\ r.rx # "closed" =>
         /\ r.tx = "wait" => r.up[i].kind = "eof"
         /\ r.up[i].kind = "auth" => i = 1 /\ r.rx = "hello" /\ r.tx # "auth"

\* What is on its way back: "hello" and the answer to the request, never both.
DownOrdered(r) ==
  \A i \in 1 .. Len(r.down) :
    /\ r.down[i].kind \in {"hello", "reply", "refuse", "eof"}
    /\ r.down[i].kind = "eof" => i = Len(r.down)
    /\ r.tx # "closed" =>
         /\ r.down[i].kind = "hello" => i = 1 /\ r.tx = "wait" /\ r.rx # "none"
         /\ r.down[i].kind \in {"reply", "refuse"} =>
              i = 1 /\ r.tx = "asked" /\ r.rx \in {"auth", "closed"}

\* How far the two ends can be apart.
EndsInStep(r) ==
  /\ r.tx = "wait" => r.rx # "auth"
  /\ r.tx = "auth" => r.rx \in {"auth", "closed"}
  /\ r.rx = "none" => r.tx \in {"wait", "closed"}
  /\ r.rx # "auth" => r.list = {}

InStep(r) == UpOrdered(r) /\ DownOrdered(r) /\ EndsInStep(r)

\* What a queue holds after Put: nothing follows the end of a stream.
LEMMA PutFacts ==
  ASSUME NEW q \in Seq(Messages), NEW m \in Messages
  PROVE  /\ Put(q, m) \in Seq(Messages) /\ Len(Put(q, m)) \in Nat /\ Len(Put(q, m)) > 0
         /\ \/ Put(q, m) = q /\ Len(q) > 0 /\ q[Len(q)].kind = "eof"
            \/ /\ Len(Put(q, m)) = Len(q) + 1
               /\ \A i \in 1 .. Len(q) : Put(q, m)[i] = q[i]
               /\ Put(q, m)[Len(q) + 1] = m
               /\ Len(q) = 0 \/ q[Len(q)].kind # "eof"
BY DEF Put, Last

\* The messages the code sends are messages.
LEMMA MessageTypes ==
  /\ \A k \in {"hello", "auth", "reply", "refuse", "eof"} : Msg(k) \in Messages /\ Msg(k).kind = k
  /\ \A k \in Kinds, e \in BOOLEAN : Announce(k, e) \in Messages /\ Announce(k, e).kind = k
BY DEF Msg, Announce, Messages, Kinds

\* Closing the end that has opened the connection.
LEMMA TxClosedInStep ==
  ASSUME NEW r \in ConnStates
  PROVE  /\ TxClosed(r) \in ConnStates
         /\ TxClosed(r).tx = "closed" /\ TxClosed(r).rx = r.rx
         /\ TxClosed(r).from = r.from /\ TxClosed(r).list = r.list
         /\ InStep(r) => InStep(TxClosed(r))
<1> DEFINE t == TxClosed(r)
           q == IF r.rx = "closed" THEN <<>> ELSE Put(r.up, Msg("eof"))
<1>1. r.up \in Seq(Messages) /\ Msg("eof") \in Messages /\ Msg("eof").kind = "eof"
  BY MessageTypes DEF ConnStates
<1>2. q \in Seq(Messages) /\ (r.rx = "closed" => q = <<>>)
  BY <1>1, PutFacts
<1>3. r.rx # "closed" => q = Put(r.up, Msg("eof"))
  OBVIOUS
<1>4. t = [r EXCEPT !.tx = "closed", !.down = <<>>, !.up = q]
  BY DEF TxClosed
<1> HIDE DEF t, q
<1>5. /\ t \in ConnStates /\ t.tx = "closed" /\ t.rx = r.rx /\ t.from = r.from
      /\ t.list = r.list /\ t.down = <<>> /\ t.up = q
  <2>1. <<>> \in Seq(Messages)
    OBVIOUS
  <2> QED BY <1>2, <1>4, <2>1 DEF ConnStates
<1>6. ASSUME InStep(r) PROVE InStep(t)
  <2>1. EndsInStep(t) /\ DownOrdered(t)
    BY <1>5, <1>6 DEF EndsInStep, DownOrdered, InStep
  <2>2. CASE r.rx = "closed"
    BY <1>2, <1>5, <2>1, <2>2 DEF UpOrdered, InStep
  <2>3. CASE r.rx # "closed"
    <3>1. UpOrdered(t)
      <4>0. Len(r.up) \in Nat
        BY <1>1
      <4>1. /\ Len(q) \in Nat
            /\ \/ q = r.up
               \/ /\ Len(q) = Len(r.up) + 1 /\ q[Len(r.up) + 1].kind = "eof"
                  /\ \A i \in 1 .. Len(r.up) : q[i] = r.up[i]
                  /\ Len(r.up) = 0 \/ r.up[Len(r.up)].kind # "eof"
        <5> DEFINE m == Msg("eof")
        <5> HIDE DEF m
        <5>1. q = Put(r.up, m) /\ m \in Messages /\ m.kind = "eof"
          BY <1>1, <1>3, <2>3 DEF m
        <5> QED BY <1>1, <5>1, PutFacts
      <4> QED BY <1>5, <1>6, <4>0, <4>1 DEF UpOrdered, InStep
    <3> QED BY <2>1, <3>1 DEF InStep
  <2> QED BY <2>2, <2>3
<1> QED BY <1>5, <1>6 DEF t

\* Closing the accepting end.
LEMMA RxClosedInStep ==
  ASSUME NEW r \in ConnStates
  PROVE  /\ RxClosed(r) \in ConnStates
         /\ RxClosed(r).rx = "closed" /\ RxClosed(r).tx = r.tx
         /\ RxClosed(r).from = r.from /\ RxClosed(r).list = {}
         /\ InStep(r) => InStep(RxClosed(r))
<1> DEFINE t == RxClosed(r)
           q == IF r.tx = "closed" THEN <<>> ELSE Put(r.down, Msg("eof"))
<1>1. r.down \in Seq(Messages) /\ Msg("eof") \in Messages /\ Msg("eof").kind = "eof"
  BY MessageTypes DEF ConnStates
<1>2. q \in Seq(Messages) /\ (r.tx = "closed" => q = <<>>)
  BY <1>1, PutFacts
<1>3. r.tx # "closed" => q = Put(r.down, Msg("eof"))
  OBVIOUS
<1>4. t = [r EXCEPT !.rx = "closed", !.up = <<>>, !.list = {}, !.down = q]
  BY DEF RxClosed
<1> HIDE DEF t, q
<1>5. /\ t \in ConnStates /\ t.rx = "closed" /\ t.tx = r.tx /\ t.from = r.from
      /\ t.list = {} /\ t.up = <<>> /\ t.down = q
  <2>1. <<>> \in Seq(Messages)
    OBVIOUS
  <2> QED BY <1>2, <1>4, <2>1 DEF ConnStates
<1>6. ASSUME InStep(r) PROVE InStep(t)
  <2>1. EndsInStep(t) /\ UpOrdered(t)
    BY <1>5, <1>6 DEF EndsInStep, UpOrdered, InStep
  <2>2. CASE r.tx = "closed"
    BY <1>2, <1>5, <2>1, <2>2 DEF DownOrdered, InStep
  <2>3. CASE r.tx # "closed"
    <3>1. DownOrdered(t)
      <4>0. Len(r.down) \in Nat
        BY <1>1
      <4>1. /\ Len(q) \in Nat
            /\ \/ q = r.down
               \/ /\ Len(q) = Len(r.down) + 1 /\ q[Len(r.down) + 1].kind = "eof"
                  /\ \A i \in 1 .. Len(r.down) : q[i] = r.down[i]
                  /\ Len(r.down) = 0 \/ r.down[Len(r.down)].kind # "eof"
        <5> DEFINE m == Msg("eof")
        <5> HIDE DEF m
        <5>1. q = Put(r.down, m) /\ m \in Messages /\ m.kind = "eof"
          BY <1>1, <1>3, <2>3 DEF m
        <5> QED BY <1>1, <5>1, PutFacts
      <4> QED BY <1>5, <1>6, <4>0, <4>1 DEF DownOrdered, InStep
    <3> QED BY <2>1, <3>1 DEF InStep
  <2> QED BY <2>2, <2>3
<1> QED BY <1>5, <1>6 DEF t

\* Taking a message from a queue.
LEMMA TakenInStep ==
  ASSUME NEW r \in ConnStates, InStep(r)
  PROVE  /\ r.up # <<>> => /\ [r EXCEPT !.up = Tail(r.up)] \in ConnStates
                           /\ InStep([r EXCEPT !.up = Tail(r.up)])
         /\ r.down # <<>> => /\ [r EXCEPT !.down = Tail(r.down)] \in ConnStates
                             /\ InStep([r EXCEPT !.down = Tail(r.down)])
<1>1. ASSUME NEW q \in Seq(Messages), q # <<>>
      PROVE  /\ Tail(q) \in Seq(Messages) /\ Len(Tail(q)) = Len(q) - 1
             /\ \A i \in 1 .. Len(Tail(q)) : Tail(q)[i] = q[i + 1] /\ i + 1 \in 1 .. Len(q)
  BY <1>1
<1>2. ASSUME r.up # <<>>
      PROVE  /\ [r EXCEPT !.up = Tail(r.up)] \in ConnStates
             /\ InStep([r EXCEPT !.up = Tail(r.up)])
  <2> DEFINE t == [r EXCEPT !.up = Tail(r.up)]
  <2>1. /\ t \in ConnStates /\ t.tx = r.tx /\ t.rx = r.rx /\ t.down = r.down
        /\ t.up = Tail(r.up) /\ t.list = r.list
    BY <1>1, <1>2 DEF ConnStates
  <2>2. /\ Len(Tail(r.up)) = Len(r.up) - 1 /\ Len(r.up) \in Nat
        /\ \A i \in 1 .. Len(Tail(r.up)) : Tail(r.up)[i] = r.up[i + 1] /\ i + 1 \in 1 .. Len(r.up)
    BY <1>1, <1>2 DEF ConnStates
  <2> HIDE DEF t
  <2>3. UpOrdered(t)
    BY <2>1, <2>2 DEF UpOrdered, InStep
  <2>4. InStep(t)
    BY <2>1, <2>3 DEF InStep, DownOrdered, EndsInStep
  <2> QED BY <2>1, <2>4 DEF t
<1>3. ASSUME r.down # <<>>
      PROVE  /\ [r EXCEPT !.down = Tail(r.down)] \in ConnStates
             /\ InStep([r EXCEPT !.down = Tail(r.down)])
  <2> DEFINE t == [r EXCEPT !.down = Tail(r.down)]
  <2>1. /\ t \in ConnStates /\ t.tx = r.tx /\ t.rx = r.rx /\ t.up = r.up
        /\ t.down = Tail(r.down) /\ t.list = r.list
    BY <1>1, <1>3 DEF ConnStates
  <2>2. /\ Len(Tail(r.down)) = Len(r.down) - 1 /\ Len(r.down) \in Nat
        /\ \A i \in 1 .. Len(Tail(r.down)) :
             Tail(r.down)[i] = r.down[i + 1] /\ i + 1 \in 1 .. Len(r.down)
    BY <1>1, <1>3 DEF ConnStates
  <2> HIDE DEF t
  <2>3. DownOrdered(t)
    BY <2>1, <2>2 DEF DownOrdered, InStep
  <2>4. InStep(t)
    BY <2>1, <2>3 DEF InStep, UpOrdered, EndsInStep
  <2> QED BY <2>1, <2>4 DEF t
<1> QED BY <1>2, <1>3

\* An announcement, which only follows an accepted reply.
LEMMA AnnouncedInStep ==
  ASSUME NEW r \in ConnStates, InStep(r), r.tx = "auth",
         NEW m \in Messages, m.kind \in Kinds
  PROVE  /\ [r EXCEPT !.up = Put(r.up, m)] \in ConnStates
         /\ InStep([r EXCEPT !.up = Put(r.up, m)])
<1> DEFINE q == Put(r.up, m)
           t == [r EXCEPT !.up = q]
<1>1. r.up \in Seq(Messages) /\ Len(r.up) \in Nat
  BY DEF ConnStates
<1>2. /\ q \in Seq(Messages) /\ Len(q) \in Nat
      /\ \/ q = r.up
         \/ /\ Len(q) = Len(r.up) + 1 /\ q[Len(r.up) + 1] = m
            /\ \A i \in 1 .. Len(r.up) : q[i] = r.up[i]
            /\ Len(r.up) = 0 \/ r.up[Len(r.up)].kind # "eof"
  BY <1>1, PutFacts
<1> HIDE DEF q
<1>3. t \in ConnStates /\ t.tx = r.tx /\ t.rx = r.rx /\ t.down = r.down /\ t.up = q /\ t.list = r.list
  BY <1>2 DEF ConnStates
<1> HIDE DEF t
<1>4. UpOrdered(t)
  BY <1>1, <1>2, <1>3 DEF UpOrdered, InStep, Kinds
<1>5. InStep(t)
  BY <1>3, <1>4 DEF InStep, DownOrdered, EndsInStep
<1> QED BY <1>3, <1>5 DEF t, q

\* The request for authentication, the answer to "hello".
LEMMA AskedInStep ==
  ASSUME NEW r \in ConnStates, InStep(r), r.tx = "wait", r.rx \in {"hello", "closed"},
         \A i \in 1 .. Len(r.down) : r.down[i].kind = "eof",
         NEW m \in Messages, m.kind = "auth"
  PROVE  /\ [r EXCEPT !.tx = "asked", !.up = Put(r.up, m)] \in ConnStates
         /\ InStep([r EXCEPT !.tx = "asked", !.up = Put(r.up, m)])
<1> DEFINE q == Put(r.up, m)
           t == [r EXCEPT !.tx = "asked", !.up = q]
<1>1. r.up \in Seq(Messages) /\ Len(r.up) \in Nat
  BY DEF ConnStates
<1>2. /\ q \in Seq(Messages) /\ Len(q) \in Nat
      /\ \/ q = r.up
         \/ /\ Len(q) = Len(r.up) + 1 /\ q[Len(r.up) + 1] = m
            /\ \A i \in 1 .. Len(r.up) : q[i] = r.up[i]
            /\ Len(r.up) = 0 \/ r.up[Len(r.up)].kind # "eof"
  BY <1>1, PutFacts
<1> HIDE DEF q
<1>3. t \in ConnStates /\ t.tx = "asked" /\ t.rx = r.rx /\ t.down = r.down /\ t.up = q /\ t.list = r.list
  BY <1>2 DEF ConnStates
<1> HIDE DEF t
<1>4. UpOrdered(t)
  BY <1>1, <1>2, <1>3 DEF UpOrdered, InStep
<1>5. DownOrdered(t) /\ EndsInStep(t)
  BY <1>3 DEF DownOrdered, EndsInStep, InStep
<1> QED BY <1>3, <1>4, <1>5 DEF t, q, InStep

\* The reply is taken: both ends are authenticated.
LEMMA RepliedInStep ==
  ASSUME NEW r \in ConnStates, InStep(r), r.tx = "asked", r.rx \in {"auth", "closed"},
         \A i \in 1 .. Len(r.down) : r.down[i].kind = "eof"
  PROVE  /\ [r EXCEPT !.tx = "auth"] \in ConnStates
         /\ InStep([r EXCEPT !.tx = "auth"])
<1> DEFINE t == [r EXCEPT !.tx = "auth"]
<1>1. t \in ConnStates /\ t.tx = "auth" /\ t.rx = r.rx /\ t.down = r.down /\ t.up = r.up /\ t.list = r.list
  BY DEF ConnStates
<1> HIDE DEF t
<1>2. InStep(t)
  BY <1>1 DEF InStep, UpOrdered, DownOrdered, EndsInStep
<1> QED BY <1>1, <1>2 DEF t

\* network_check_auth has accepted the request.
LEMMA AcceptedInStep ==
  ASSUME NEW r \in ConnStates, InStep(r), r.rx = "hello", r.tx \in {"asked", "closed"},
         \A i \in 1 .. Len(r.up) : r.up[i].kind # "auth"
  PROVE  /\ [r EXCEPT !.rx = "auth"] \in ConnStates
         /\ InStep([r EXCEPT !.rx = "auth"])
<1> DEFINE t == [r EXCEPT !.rx = "auth"]
<1>1. t \in ConnStates /\ t.tx = r.tx /\ t.rx = "auth" /\ t.down = r.down /\ t.up = r.up /\ t.list = r.list
  BY DEF ConnStates
<1> HIDE DEF t
<1>2. InStep(t)
  BY <1>1 DEF InStep, UpOrdered, DownOrdered, EndsInStep
<1> QED BY <1>1, <1>2 DEF t

\* The accepting end says something: "hello" at first, later the answer to the
\* request for authentication.
LEMMA AnsweredInStep ==
  ASSUME NEW r \in ConnStates, InStep(r), NEW m \in Messages, NEW rx,
         \/ r.rx = "none" /\ rx = "hello" /\ m.kind = "hello"
         \/ /\ r.rx = "auth" /\ rx = "auth" /\ m.kind \in {"reply", "refuse"}
            /\ r.tx \in {"asked", "closed"}
            /\ r.tx = "asked" => \A i \in 1 .. Len(r.down) : r.down[i].kind = "eof"
  PROVE  /\ [r EXCEPT !.rx = rx, !.down = Put(r.down, m)] \in ConnStates
         /\ InStep([r EXCEPT !.rx = rx, !.down = Put(r.down, m)])
<1> DEFINE q == Put(r.down, m)
           t == [r EXCEPT !.rx = rx, !.down = q]
<1>1. r.down \in Seq(Messages) /\ Len(r.down) \in Nat
  BY DEF ConnStates
<1>2. /\ q \in Seq(Messages) /\ Len(q) \in Nat
      /\ \/ q = r.down
         \/ /\ Len(q) = Len(r.down) + 1 /\ q[Len(r.down) + 1] = m
            /\ \A i \in 1 .. Len(r.down) : q[i] = r.down[i]
            /\ Len(r.down) = 0 \/ r.down[Len(r.down)].kind # "eof"
  BY <1>1, PutFacts
<1> HIDE DEF q
<1>3. t \in ConnStates /\ t.tx = r.tx /\ t.rx = rx /\ t.down = q /\ t.up = r.up /\ t.list = r.list
  BY <1>2 DEF ConnStates
<1> HIDE DEF t
<1>4. r.tx # "closed" => \A i \in 1 .. Len(r.down) : r.down[i].kind = "eof"
  BY DEF InStep, DownOrdered, EndsInStep
<1>5. UpOrdered(t)
  BY <1>3 DEF UpOrdered, InStep
<1>6. DownOrdered(t)
  BY <1>1, <1>2, <1>3, <1>4 DEF DownOrdered, InStep, EndsInStep
<1>7. EndsInStep(t)
  BY <1>3 DEF EndsInStep, InStep
<1> QED BY <1>3, <1>5, <1>6, <1>7 DEF t, q, InStep

-----------------------------------------------------------------------------
(* The system. *)

Systems(P) == [host: [Hosts -> HostStates(P)], conn: [Conns -> ConnStates],
               told: SUBSET Hosts]

\* The entries of tx_channels and rx_channels are connections of that host, open
\* at its end, and every authenticated incoming connection has its entry.
Linked(s) ==
  \A h \in Hosts :
    /\ s.host[h].tx # NoConn => /\ s.conn[s.host[h].tx].from = h
                                /\ s.conn[s.host[h].tx].tx # "closed"
    /\ s.host[h].rx # NoConn => /\ s.conn[s.host[h].rx].from # h
                                /\ s.conn[s.host[h].rx].rx = "auth"
    /\ \A c \in Conns : s.conn[c].rx = "auth" /\ s.conn[c].from # h => s.host[h].rx = c

\* What a host believes of the other one is what that connection has announced.
Mirrored(s) ==
  \A h \in Hosts :
    s.host[h].remote = IF s.host[h].rx = NoConn THEN {} ELSE s.conn[s.host[h].rx].list

Valid(P, s) ==
  s \in Systems(P) /\ (\A c \in Conns : InStep(s.conn[c])) /\ Linked(s) /\ Mirrored(s)

\* Nothing that clients, unetd or a timer see has changed.
SameHosts(s, t) ==
  \A g \in Hosts : /\ t.host[g].handles = s.host[g].handles
                   /\ t.host[g].peer = s.host[g].peer
                   /\ t.host[g].timer = s.host[g].timer

\* The outgoing connections are as authenticated as before, but for that of h.
SameTxAuthBut(s, t, h) == \A g \in Hosts : g # h => (TxAuth(t, g) <=> TxAuth(s, g))
SameTxAuth(s, t) == \A g \in Hosts : TxAuth(t, g) <=> TxAuth(s, g)

\* No host believes more than before.
LessRemote(s, t) == \A g \in Hosts : t.host[g].remote \subseteq s.host[g].remote

\* There are two hosts.
LEMMA OtherHost ==
  \A h \in Hosts : /\ Other(h) \in Hosts /\ Other(h) # h
                   /\ \A g \in Hosts : g # h => g = Other(h)
<1>1. PICK a \in Hosts, b \in Hosts : a # b /\ Hosts = {a, b}
  BY UnetmsgAssumption
<1> SUFFICES ASSUME NEW h \in Hosts
             PROVE  /\ Other(h) \in Hosts /\ Other(h) # h
                    /\ \A g \in Hosts : g # h => g = Other(h)
  OBVIOUS
<1>2. \E o \in Hosts : o # h
  BY <1>1
<1>3. Other(h) \in Hosts /\ Other(h) # h
  BY <1>2 DEF Other
<1> QED BY <1>1, <1>3

\* The numbers of connections.
LEMMA ConnNumbers == NoConn \notin Conns
BY DEF NoConn, Conns

\* A state in parts.
LEMMA Parts ==
  ASSUME NEW P, NEW s \in Systems(P)
  PROVE  /\ s.host \in [Hosts -> HostStates(P)] /\ s.conn \in [Conns -> ConnStates]
         /\ s.told \in SUBSET Hosts
         /\ \A h \in Hosts : /\ s.host[h] \in HostStates(P)
                             /\ s.host[h].tx \in Conns \union {NoConn}
                             /\ s.host[h].rx \in Conns \union {NoConn}
                             /\ s.host[h].remote \in SUBSET Kinds
                             /\ s.host[h].peer \in P
                             /\ s.host[h].timer \in {"off", "short", "long"}
                             /\ s.host[h].handles \in [Kinds -> 0 .. MaxHandles]
                             /\ s.host[h].named \in SUBSET Kinds
         /\ \A c \in Conns : s.conn[c] \in ConnStates /\ s.conn[c].from \in Hosts
<1>1. /\ s.host \in [Hosts -> HostStates(P)] /\ s.conn \in [Conns -> ConnStates]
      /\ s.told \in SUBSET Hosts
  BY DEF Systems
<1>2. \A h \in Hosts : s.host[h] \in HostStates(P)
  BY <1>1
<1>3. \A c \in Conns : s.conn[c] \in ConnStates
  BY <1>1
<1> QED BY <1>1, <1>2, <1>3 DEF HostStates, ConnStates

\* A step in which one connection changes, and no end of it comes or goes that
\* has an entry.
LEMMA ConnChange ==
  ASSUME NEW P, NEW s, Valid(P, s), NEW c \in Conns, NEW r \in ConnStates, InStep(r),
         r.from = s.conn[c].from, r.list = s.conn[c].list,
         r.tx = "closed" => \A g \in Hosts : s.host[g].tx # c,
         r.rx = "auth" <=> s.conn[c].rx = "auth",
         NEW t, t \in Systems(P), t.host = s.host, t.conn = [s.conn EXCEPT ![c] = r]
  PROVE  /\ Valid(P, t) /\ SameHosts(s, t) /\ LessRemote(s, t)
         /\ ((r.tx = "auth" <=> s.conn[c].tx = "auth") => SameTxAuth(s, t))
<1>0. s \in Systems(P) /\ Linked(s) /\ Mirrored(s) /\ \A d \in Conns : InStep(s.conn[d])
  BY DEF Valid
<1>1. t.conn[c] = r /\ \A d \in Conns : d # c => t.conn[d] = s.conn[d]
  BY <1>0, Parts
<1>2. \A d \in Conns : InStep(t.conn[d]) /\ t.conn[d].from = s.conn[d].from
                       /\ t.conn[d].list = s.conn[d].list
                       /\ (t.conn[d].rx = "auth" <=> s.conn[d].rx = "auth")
  BY <1>0, <1>1
<1>3. Linked(t)
  BY <1>0, <1>1, <1>2, Parts DEF Linked
<1>4. Mirrored(t)
  BY <1>0, <1>2, Parts DEF Mirrored
<1>5. SameHosts(s, t) /\ LessRemote(s, t)
  BY DEF SameHosts, LessRemote
<1>6. (r.tx = "auth" <=> s.conn[c].tx = "auth") => SameTxAuth(s, t)
  BY <1>0, <1>1, Parts DEF SameTxAuth, TxAuth
<1> QED BY <1>2, <1>3, <1>4, <1>5, <1>6 DEF Valid

\* A system whose hosts or connections are replaced.
LEMMA Replaced ==
  ASSUME NEW P, NEW s \in Systems(P)
  PROVE  /\ \A c \in Conns, r \in ConnStates :
              /\ [s EXCEPT !.conn = [s.conn EXCEPT ![c] = r]] \in Systems(P)
              /\ [s EXCEPT !.conn = [s.conn EXCEPT ![c] = r]].host = s.host
              /\ [s EXCEPT !.conn = [s.conn EXCEPT ![c] = r]].told = s.told
              /\ [s EXCEPT !.conn = [s.conn EXCEPT ![c] = r]].conn = [s.conn EXCEPT ![c] = r]
         /\ \A h \in Hosts, x \in HostStates(P) :
              /\ [s EXCEPT !.host = [s.host EXCEPT ![h] = x]] \in Systems(P)
              /\ [s EXCEPT !.host = [s.host EXCEPT ![h] = x]].conn = s.conn
              /\ [s EXCEPT !.host = [s.host EXCEPT ![h] = x]].told = s.told
              /\ [s EXCEPT !.host = [s.host EXCEPT ![h] = x]].host = [s.host EXCEPT ![h] = x]
<1>1. ASSUME NEW c \in Conns, NEW r \in ConnStates
      PROVE  /\ [s EXCEPT !.conn = [s.conn EXCEPT ![c] = r]] \in Systems(P)
             /\ [s EXCEPT !.conn = [s.conn EXCEPT ![c] = r]].host = s.host
             /\ [s EXCEPT !.conn = [s.conn EXCEPT ![c] = r]].told = s.told
             /\ [s EXCEPT !.conn = [s.conn EXCEPT ![c] = r]].conn = [s.conn EXCEPT ![c] = r]
  <2> DEFINE f == [s.conn EXCEPT ![c] = r]
  <2>1. f \in [Conns -> ConnStates]
    BY Parts
  <2> HIDE DEF f
  <2> QED BY <2>1 DEF Systems
<1>2. ASSUME NEW h \in Hosts, NEW x \in HostStates(P)
      PROVE  /\ [s EXCEPT !.host = [s.host EXCEPT ![h] = x]] \in Systems(P)
             /\ [s EXCEPT !.host = [s.host EXCEPT ![h] = x]].conn = s.conn
             /\ [s EXCEPT !.host = [s.host EXCEPT ![h] = x]].told = s.told
             /\ [s EXCEPT !.host = [s.host EXCEPT ![h] = x]].host = [s.host EXCEPT ![h] = x]
  <2> DEFINE f == [s.host EXCEPT ![h] = x]
  <2>1. f \in [Hosts -> HostStates(P)]
    BY Parts
  <2> HIDE DEF f
  <2> QED BY <2>1 DEF Systems
<1> QED BY <1>1, <1>2

-----------------------------------------------------------------------------
(* What the functions of the callbacks keep. *)

\* A step that leaves the entries and the ends of all connections alone.
SameEnds(s, t) ==
  /\ t.host = s.host
  /\ \A d \in Conns : /\ t.conn[d].from = s.conn[d].from /\ t.conn[d].list = s.conn[d].list
                      /\ t.conn[d].tx = s.conn[d].tx /\ t.conn[d].rx = s.conn[d].rx

\* Such a step changes no host.
LEMMA SameEndsFacts ==
  ASSUME NEW P, NEW s \in Systems(P), NEW t, SameEnds(s, t)
  PROVE  SameHosts(s, t) /\ LessRemote(s, t) /\ SameTxAuth(s, t)
BY Parts DEF SameEnds, SameHosts, LessRemote, SameTxAuth, TxAuth

\* An announcement changes no end.
LEMMA SendUpStep ==
  ASSUME NEW P, NEW s, Valid(P, s), NEW c \in Conns, s.conn[c].tx = "auth",
         NEW kind \in Kinds, NEW enabled \in BOOLEAN
  PROVE  LET t == SendUp(s, c, Announce(kind, enabled)) IN
         Valid(P, t) /\ SameEnds(s, t) /\ t.told = s.told
<1> DEFINE m == Announce(kind, enabled)
           t == SendUp(s, c, m)
           r == [s.conn[c] EXCEPT !.up = Put(s.conn[c].up, m)]
<1>0. s \in Systems(P) /\ \A d \in Conns : InStep(s.conn[d])
  BY DEF Valid
<1>1. m \in Messages /\ m.kind \in Kinds
  BY MessageTypes
<1> HIDE DEF m
<1>2. r \in ConnStates /\ InStep(r)
  BY <1>0, <1>1, Parts, AnnouncedInStep
<1>3. r.from = s.conn[c].from /\ r.list = s.conn[c].list /\ r.tx = s.conn[c].tx
      /\ r.rx = s.conn[c].rx
  BY <1>0, Parts DEF ConnStates
<1>4. t = [s EXCEPT !.conn = [s.conn EXCEPT ![c] = r]]
  BY DEF SendUp
<1> HIDE DEF r, t
<1>5. t \in Systems(P) /\ t.host = s.host /\ t.told = s.told /\ t.conn = [s.conn EXCEPT ![c] = r]
  BY <1>0, <1>2, <1>4, Replaced
<1>6. Valid(P, t)
  BY <1>2, <1>3, <1>5, ConnChange
<1>7. SameEnds(s, t)
  BY <1>0, <1>3, <1>5, Parts DEF SameEnds
<1> QED BY <1>5, <1>6, <1>7 DEF t, m

\* pubsub_set sends an announcement over an authenticated connection.
LEMMA PubsubSetStep ==
  ASSUME NEW P, NEW s, Valid(P, s), NEW h \in Hosts, NEW kind \in Kinds, NEW enabled \in BOOLEAN
  PROVE  LET t == PubsubSet(s, h, kind, enabled) IN
         Valid(P, t) /\ SameEnds(s, t) /\ t.told = s.told
<1>1. CASE ~TxAuth(s, h)
  BY <1>1 DEF PubsubSet, SameEnds
<1>2. CASE TxAuth(s, h)
  <2>1. s.host[h].tx \in Conns /\ s.conn[s.host[h].tx].tx = "auth"
    BY <1>2, Parts DEF TxAuth, Valid
  <2>2. PubsubSet(s, h, kind, enabled) = SendUp(s, s.host[h].tx, Announce(kind, enabled))
    BY <1>2 DEF PubsubSet
  <2> QED BY <2>1, <2>2, SendUpStep
<1> QED BY <1>1, <1>2

\* Reading a message changes no end.
LEMMA GotStep ==
  ASSUME NEW P, NEW s, Valid(P, s), NEW c \in Conns
  PROVE  /\ s.conn[c].up # <<>> =>
              /\ Valid(P, Got(s, c, "up")) /\ SameEnds(s, Got(s, c, "up"))
              /\ Got(s, c, "up").told = s.told
              /\ Got(s, c, "up").conn[c].up = Tail(s.conn[c].up)
         /\ s.conn[c].down # <<>> =>
              /\ Valid(P, Got(s, c, "down")) /\ SameEnds(s, Got(s, c, "down"))
              /\ Got(s, c, "down").told = s.told
              /\ Got(s, c, "down").conn[c].down = Tail(s.conn[c].down)
<1>0. s \in Systems(P) /\ s.conn[c] \in ConnStates /\ InStep(s.conn[c]) /\ Linked(s)
  BY Parts DEF Valid
<1>1. ASSUME NEW r \in ConnStates, InStep(r), r.from = s.conn[c].from,
             r.list = s.conn[c].list, r.tx = s.conn[c].tx, r.rx = s.conn[c].rx,
             NEW t, t = [s EXCEPT !.conn = [s.conn EXCEPT ![c] = r]]
      PROVE  Valid(P, t) /\ SameEnds(s, t) /\ t.told = s.told /\ t.conn[c] = r
  <2>1. t \in Systems(P) /\ t.host = s.host /\ t.told = s.told /\ t.conn = [s.conn EXCEPT ![c] = r]
    BY <1>0, <1>1, Replaced
  <2>0. /\ r \in ConnStates /\ InStep(r) /\ r.from = s.conn[c].from
        /\ r.list = s.conn[c].list /\ r.tx = s.conn[c].tx /\ r.rx = s.conn[c].rx
    BY <1>1
  <2>2. r.tx = "closed" => \A g \in Hosts : s.host[g].tx # c
    <3> SUFFICES ASSUME s.conn[c].tx = "closed", NEW g \in Hosts, s.host[g].tx = c
                 PROVE  FALSE
      BY <2>0
    <3> QED BY <1>0, ConnNumbers DEF Linked
  <2>3. Valid(P, t)
    <3>1. r.rx = "auth" <=> s.conn[c].rx = "auth"
      BY <2>0
    <3> QED BY <2>0, <2>1, <2>2, <3>1, ConnChange
  <2>4. SameEnds(s, t) /\ t.conn[c] = r
    BY <1>0, <1>1, <2>1, Parts DEF SameEnds
  <2> QED BY <2>1, <2>3, <2>4
<1>2. ASSUME s.conn[c].up # <<>>
      PROVE  /\ Valid(P, Got(s, c, "up")) /\ SameEnds(s, Got(s, c, "up"))
             /\ Got(s, c, "up").told = s.told
             /\ Got(s, c, "up").conn[c].up = Tail(s.conn[c].up)
  <2> DEFINE r == [s.conn[c] EXCEPT !.up = Tail(s.conn[c].up)]
  <2>1. r \in ConnStates /\ InStep(r)
    BY <1>0, <1>2, TakenInStep
  <2>2. /\ r.from = s.conn[c].from /\ r.list = s.conn[c].list /\ r.tx = s.conn[c].tx
        /\ r.rx = s.conn[c].rx /\ r.up = Tail(s.conn[c].up)
    BY <1>0 DEF ConnStates
  <2>3. Got(s, c, "up") = [s EXCEPT !.conn = [s.conn EXCEPT ![c] = r]]
    BY DEF Got
  <2> HIDE DEF r
  <2> QED BY <1>1, <2>1, <2>2, <2>3
<1>3. ASSUME s.conn[c].down # <<>>
      PROVE  /\ Valid(P, Got(s, c, "down")) /\ SameEnds(s, Got(s, c, "down"))
             /\ Got(s, c, "down").told = s.told
             /\ Got(s, c, "down").conn[c].down = Tail(s.conn[c].down)
  <2> DEFINE r == [s.conn[c] EXCEPT !.down = Tail(s.conn[c].down)]
  <2>1. r \in ConnStates /\ InStep(r)
    BY <1>0, <1>3, TakenInStep
  <2>2. /\ r.from = s.conn[c].from /\ r.list = s.conn[c].list /\ r.tx = s.conn[c].tx
        /\ r.rx = s.conn[c].rx /\ r.down = Tail(s.conn[c].down)
    BY <1>0 DEF ConnStates
  <2>3. Got(s, c, "down") = [s EXCEPT !.conn = [s.conn EXCEPT ![c] = r]]
    BY DEF Got
  <2> HIDE DEF r
  <2> QED BY <1>1, <2>1, <2>2, <2>3
<1> QED BY <1>2, <1>3

\* Telling the subscribers changes neither hosts nor connections.
LEMMA HandlePublishStep ==
  ASSUME NEW P, NEW s, NEW h \in Hosts
  PROVE  /\ s \in Systems(P) =>
              /\ HandlePublish(s, h) \in Systems(P)
              /\ HandlePublish(s, h).host = s.host /\ HandlePublish(s, h).conn = s.conn
              /\ s.told \subseteq HandlePublish(s, h).told
              /\ s.host[h].handles["subscribe"] > 0 => h \in HandlePublish(s, h).told
         /\ Valid(P, s) => Valid(P, HandlePublish(s, h))
<1>1. ASSUME s \in Systems(P)
      PROVE  /\ HandlePublish(s, h) \in Systems(P)
             /\ HandlePublish(s, h).host = s.host /\ HandlePublish(s, h).conn = s.conn
             /\ s.told \subseteq HandlePublish(s, h).told
             /\ s.host[h].handles["subscribe"] > 0 => h \in HandlePublish(s, h).told
  <2>1. CASE s.host[h].handles["subscribe"] > 0
    <3>1. HandlePublish(s, h) = [s EXCEPT !.told = s.told \union {h}]
      BY <2>1 DEF HandlePublish
    <3> QED BY <1>1, <3>1 DEF Systems
  <2>2. CASE ~(s.host[h].handles["subscribe"] > 0)
    BY <1>1, <2>2 DEF HandlePublish
  <2> QED BY <2>1, <2>2
<1>2. ASSUME Valid(P, s) PROVE Valid(P, HandlePublish(s, h))
  <2>1. s \in Systems(P) /\ (\A c \in Conns : InStep(s.conn[c])) /\ Linked(s) /\ Mirrored(s)
    BY <1>2 DEF Valid
  <2>2. /\ HandlePublish(s, h) \in Systems(P) /\ HandlePublish(s, h).host = s.host
        /\ HandlePublish(s, h).conn = s.conn
    BY <1>1, <2>1
  <2> QED BY <2>1, <2>2 DEF Valid, Linked, Mirrored
<1> QED BY <1>1, <1>2

\* Setting net.timer.
LEMMA ArmStep ==
  ASSUME NEW P, NEW s, Valid(P, s), NEW h \in Hosts, NEW k, k \in {"off", "short", "long"},
         NEW t, t = Arm(s, h, k)
  PROVE  /\ Valid(P, t) /\ t.conn = s.conn /\ t.told = s.told /\ SameTxAuth(s, t)
         /\ t.host[h].timer = k
         /\ \A g \in Hosts : /\ g # h => t.host[g].timer = s.host[g].timer
                             /\ t.host[g].handles = s.host[g].handles
                             /\ t.host[g].named = s.host[g].named
                             /\ t.host[g].peer = s.host[g].peer
                             /\ t.host[g].remote = s.host[g].remote
                             /\ t.host[g].tx = s.host[g].tx
                             /\ t.host[g].rx = s.host[g].rx
<1> DEFINE x == [s.host[h] EXCEPT !.timer = k]
<1>0. s \in Systems(P) /\ (\A c \in Conns : InStep(s.conn[c])) /\ Linked(s) /\ Mirrored(s)
  BY DEF Valid
<1>1. x \in HostStates(P) /\ x.timer = k /\ x.handles = s.host[h].handles
      /\ x.named = s.host[h].named /\ x.peer = s.host[h].peer /\ x.remote = s.host[h].remote
      /\ x.tx = s.host[h].tx /\ x.rx = s.host[h].rx
  BY <1>0, Parts DEF HostStates
<1>2. t = [s EXCEPT !.host = [s.host EXCEPT ![h] = x]]
  BY DEF Arm
<1>3. t \in Systems(P) /\ t.conn = s.conn /\ t.told = s.told /\ t.host = [s.host EXCEPT ![h] = x]
  <2> HIDE DEF x
  <2> QED BY <1>0, <1>1, <1>2, Replaced
<1>4. \A g \in Hosts : /\ t.host[g].tx = s.host[g].tx /\ t.host[g].rx = s.host[g].rx
                       /\ t.host[g].remote = s.host[g].remote /\ t.host[g].peer = s.host[g].peer
                       /\ t.host[g].handles = s.host[g].handles /\ t.host[g].named = s.host[g].named
                       /\ t.host[g].timer = IF g = h THEN k ELSE s.host[g].timer
                       /\ g # h => t.host[g] = s.host[g]
  <2> HIDE DEF x
  <2> QED BY <1>0, <1>1, <1>3, Parts
<1>5. Valid(P, t)
  BY <1>0, <1>3, <1>4 DEF Valid, Linked, Mirrored
<1>6. SameTxAuth(s, t)
  BY <1>3, <1>4 DEF SameTxAuth, TxAuth
<1> QED BY <1>3, <1>4, <1>5, <1>6

\* network_rx_cleanup_state forgets what the other host has announced.
LEMMA RxCleanupFacts ==
  ASSUME NEW P, NEW s \in Systems(P), NEW h \in Hosts
  PROVE  /\ RxCleanupState(s, h) \in Systems(P) /\ RxCleanupState(s, h).conn = s.conn
         /\ RxCleanupState(s, h).host = [s.host EXCEPT ![h] = [s.host[h] EXCEPT !.remote = {}]]
<1> DEFINE x == [s.host[h] EXCEPT !.remote = {}]
           t == [s EXCEPT !.host = [s.host EXCEPT ![h] = x]]
<1>1. x \in HostStates(P)
  <2>1. s.host[h] \in HostStates(P)
    BY Parts
  <2> QED BY <2>1 DEF HostStates
<1>2. t \in Systems(P) /\ t.conn = s.conn /\ t.host = [s.host EXCEPT ![h] = x]
  <2> HIDE DEF x
  <2> QED BY <1>1, Replaced
<1>3. RxCleanupState(s, h) = IF "publish" \in s.host[h].remote THEN HandlePublish(t, h) ELSE t
  BY DEF RxCleanupState
<1> HIDE DEF t, x
<1>4. HandlePublish(t, h) \in Systems(P) /\ HandlePublish(t, h).conn = t.conn
      /\ HandlePublish(t, h).host = t.host
  BY <1>2, HandlePublishStep
<1> QED BY <1>2, <1>3, <1>4 DEF x

\* network_rx_socket_close
LEMMA RxSocketCloseStep ==
  ASSUME NEW P, NEW s, Valid(P, s), NEW c \in Conns, NEW h \in Hosts, s.conn[c].from # h,
         NEW t, t = RxSocketClose(s, h, c)
  PROVE  /\ Valid(P, t) /\ SameHosts(s, t) /\ LessRemote(s, t) /\ SameTxAuth(s, t)
         /\ \A g \in Hosts : /\ t.host[g].tx = s.host[g].tx /\ t.host[g].named = s.host[g].named
                             /\ t.host[g].rx = IF g = h /\ s.host[g].rx = c THEN NoConn
                                               ELSE s.host[g].rx
         /\ \A d \in Conns : d # c => t.conn[d] = s.conn[d]
         /\ t.conn[c].tx = s.conn[c].tx /\ t.conn[c].rx = "closed"
<1> DEFINE r == RxClosed(s.conn[c])
           mine == s.host[h].rx = c
           x == IF mine THEN [s.host[h] EXCEPT !.rx = NoConn, !.remote = {}] ELSE s.host[h]
<1>0. s \in Systems(P) /\ (\A d \in Conns : InStep(s.conn[d])) /\ Linked(s) /\ Mirrored(s)
  BY DEF Valid
<1>1. /\ r \in ConnStates /\ InStep(r) /\ r.rx = "closed" /\ r.tx = s.conn[c].tx
      /\ r.from = s.conn[c].from /\ r.list = {}
  BY <1>0, Parts, RxClosedInStep
<1>2. /\ x \in HostStates(P) /\ x.tx = s.host[h].tx /\ x.handles = s.host[h].handles
      /\ x.named = s.host[h].named /\ x.peer = s.host[h].peer /\ x.timer = s.host[h].timer
      /\ x.rx = (IF mine THEN NoConn ELSE s.host[h].rx)
      /\ x.remote = (IF mine THEN {} ELSE s.host[h].remote)
  <2>1. CASE mine
    <3>1. s.host[h] \in HostStates(P) /\ x = [s.host[h] EXCEPT !.rx = NoConn, !.remote = {}]
      BY <1>0, <2>1, Parts
    <3> QED BY <2>1, <3>1 DEF HostStates
  <2>2. CASE ~mine
    BY <1>0, <2>2, Parts
  <2> QED BY <2>1, <2>2
<1>3. t \in Systems(P) /\ t.host = [s.host EXCEPT ![h] = x] /\ t.conn = [s.conn EXCEPT ![c] = r]
  <2>1. ASSUME NEW u, u \in Systems(P), u.conn = s.conn, t = CloseRx(u, c),
               u.host = [s.host EXCEPT ![h] = x]
        PROVE  t \in Systems(P) /\ t.host = [s.host EXCEPT ![h] = x]
               /\ t.conn = [s.conn EXCEPT ![c] = r]
    <3>1. t = [u EXCEPT !.conn = [u.conn EXCEPT ![c] = r]]
      BY <2>1 DEF CloseRx
    <3> HIDE DEF r, x
    <3> QED BY <1>1, <2>1, <3>1, Replaced
  <2>2. CASE mine
    <3> DEFINE y == [s.host[h] EXCEPT !.rx = NoConn]
               v == [s EXCEPT !.host = [s.host EXCEPT ![h] = y]]
               u == RxCleanupState(v, h)
    <3>1. y \in HostStates(P) /\ x = [y EXCEPT !.remote = {}]
      BY <1>0, <2>2, Parts DEF HostStates
    <3>2. t = CloseRx(u, c)
      BY <2>2 DEF RxSocketClose
    <3> HIDE DEF y, x
    <3>3. v \in Systems(P) /\ v.conn = s.conn /\ v.host = [s.host EXCEPT ![h] = y]
      BY <1>0, <3>1, Replaced
    <3> HIDE DEF v
    <3>4. u \in Systems(P) /\ u.conn = v.conn
          /\ u.host = [v.host EXCEPT ![h] = [v.host[h] EXCEPT !.remote = {}]]
      BY <3>3, RxCleanupFacts
    <3> HIDE DEF u
    <3>5. v.host[h] = y
      BY <1>0, <3>3, Parts
    <3>6. u.host = [v.host EXCEPT ![h] = x]
      BY <3>1, <3>4, <3>5
    <3>7. u.host = [s.host EXCEPT ![h] = x]
      BY <1>0, <3>3, <3>6, Parts
    <3> QED BY <2>1, <3>2, <3>3, <3>4, <3>7
  <2>3. CASE ~mine
    <3>1. t = CloseRx(s, c) /\ x = s.host[h]
      BY <2>3 DEF RxSocketClose
    <3> HIDE DEF x
    <3>2. s.host = [s.host EXCEPT ![h] = x]
      BY <1>0, <3>1, Parts
    <3> QED BY <1>0, <2>1, <3>1, <3>2
  <2> QED BY <2>2, <2>3
<1>m. mine <=> s.host[h].rx = c
  OBVIOUS
<1> HIDE DEF r, x, mine
<1>4. /\ t.conn[c] = r /\ \A d \in Conns : d # c => t.conn[d] = s.conn[d]
      /\ t.host[h] = x /\ \A g \in Hosts : g # h => t.host[g] = s.host[g]
  BY <1>0, <1>3, Parts
<1>5. \A g \in Hosts : g # h => s.host[g].rx # c
  <2> SUFFICES ASSUME NEW g \in Hosts, g # h, s.host[g].rx = c PROVE FALSE
    OBVIOUS
  <2>1. s.conn[c].from # g
    BY <1>0, ConnNumbers DEF Linked
  <2>2. s.conn[c].from \in Hosts
    BY <1>0, Parts
  <2> QED BY <2>1, <2>2, OtherHost
<1>6. Linked(t)
  <2> SUFFICES ASSUME NEW g \in Hosts
               PROVE  /\ t.host[g].tx # NoConn => /\ t.conn[t.host[g].tx].from = g
                                                  /\ t.conn[t.host[g].tx].tx # "closed"
                      /\ t.host[g].rx # NoConn => /\ t.conn[t.host[g].rx].from # g
                                                  /\ t.conn[t.host[g].rx].rx = "auth"
                      /\ \A d \in Conns : t.conn[d].rx = "auth" /\ t.conn[d].from # g
                           => t.host[g].rx = d
    BY DEF Linked
  <2>1. t.host[g].tx = s.host[g].tx
    BY <1>2, <1>4
  <2>2. \A d \in Conns : t.conn[d].tx = s.conn[d].tx /\ t.conn[d].from = s.conn[d].from
    BY <1>1, <1>4
  <2>3. t.host[g].rx = IF s.host[g].rx = c THEN NoConn ELSE s.host[g].rx
    BY <1>2, <1>4, <1>5, <1>m
  <2>4. s.host[g].tx \in Conns \union {NoConn} /\ s.host[g].rx \in Conns \union {NoConn}
    BY <1>0, Parts
  <2> QED BY <1>0, <1>1, <1>4, <2>1, <2>2, <2>3, <2>4 DEF Linked
<1>7. Mirrored(t)
  BY <1>0, <1>2, <1>4, <1>5, <1>m, Parts DEF Mirrored
<1>8. Valid(P, t)
  BY <1>0, <1>1, <1>3, <1>4, <1>6, <1>7 DEF Valid
<1>9. /\ SameHosts(s, t) /\ LessRemote(s, t)
      /\ \A g \in Hosts : /\ t.host[g].tx = s.host[g].tx /\ t.host[g].named = s.host[g].named
                          /\ t.host[g].rx = IF g = h /\ s.host[g].rx = c THEN NoConn
                                            ELSE s.host[g].rx
  BY <1>2, <1>4, <1>m DEF SameHosts, LessRemote
<1>10. SameTxAuth(s, t)
  BY <1>0, <1>1, <1>4, <1>9, Parts DEF SameTxAuth, SameTxAuthBut, TxAuth
<1> QED BY <1>1, <1>4, <1>8, <1>9, <1>10

\* network_tx_socket_close
LEMMA TxSocketCloseStep ==
  ASSUME NEW P, NEW s, Valid(P, s), NEW c \in Conns, NEW h \in Hosts, s.conn[c].from = h,
         NEW t, t = TxSocketClose(s, h, c)
  PROVE  /\ Valid(P, t) /\ SameHosts(s, t) /\ LessRemote(s, t) /\ t.told = s.told
         /\ SameTxAuthBut(s, t, h)
         /\ TxAuth(t, h) => TxAuth(s, h)
         /\ s.conn[c].tx # "auth" => SameTxAuth(s, t)
         /\ \A g \in Hosts : /\ t.host[g].named = s.host[g].named
                             /\ t.host[g].tx \in {s.host[g].tx, NoConn}
                             /\ t.host[g].rx = s.host[g].rx
         /\ s.host[h].tx = c => t.host[h].tx = NoConn
         /\ \A d \in Conns : d # c => t.conn[d] = s.conn[d]
         /\ t.conn[c].rx = s.conn[c].rx
<1> DEFINE r == TxClosed(s.conn[c])
           n == IF s.host[h].tx = c THEN NoConn ELSE s.host[h].tx
           x == [s.host[h] EXCEPT !.tx = n]
           u == [s EXCEPT !.host = [s.host EXCEPT ![h] = x]]
<1>0. s \in Systems(P) /\ (\A d \in Conns : InStep(s.conn[d])) /\ Linked(s) /\ Mirrored(s)
  BY DEF Valid
<1>1. /\ r \in ConnStates /\ InStep(r) /\ r.tx = "closed" /\ r.rx = s.conn[c].rx
      /\ r.from = s.conn[c].from /\ r.list = s.conn[c].list
  BY <1>0, Parts, TxClosedInStep
<1>2. n \in Conns \union {NoConn}
  BY <1>0, Parts
<1>n. /\ s.host[h].tx = c => n = NoConn
      /\ s.host[h].tx # c => n = s.host[h].tx
  OBVIOUS
<1>t. t = CloseTx(u, c)
  BY DEF TxSocketClose
<1> HIDE DEF n
<1>3. /\ x \in HostStates(P) /\ x.tx = n /\ x.handles = s.host[h].handles
      /\ x.named = s.host[h].named /\ x.peer = s.host[h].peer /\ x.timer = s.host[h].timer
      /\ x.rx = s.host[h].rx /\ x.remote = s.host[h].remote
  BY <1>0, <1>2, Parts DEF HostStates
<1> HIDE DEF x
<1>4. u \in Systems(P) /\ u.conn = s.conn /\ u.told = s.told /\ u.host = [s.host EXCEPT ![h] = x]
  BY <1>0, <1>3, Replaced
<1>5. t = [u EXCEPT !.conn = [u.conn EXCEPT ![c] = r]]
  BY <1>t, <1>4 DEF CloseTx
<1> HIDE DEF u, r
<1>6. t \in Systems(P) /\ t.host = [s.host EXCEPT ![h] = x] /\ t.conn = [s.conn EXCEPT ![c] = r]
      /\ t.told = s.told
  BY <1>1, <1>4, <1>5, Replaced
<1>7. /\ t.conn[c] = r /\ \A d \in Conns : d # c => t.conn[d] = s.conn[d]
      /\ t.host[h] = x /\ \A g \in Hosts : g # h => t.host[g] = s.host[g]
  BY <1>0, <1>6, Parts
<1>8. \A g \in Hosts : g # h => s.host[g].tx # c
  BY <1>0, ConnNumbers DEF Linked
<1>9. /\ SameHosts(s, t) /\ LessRemote(s, t)
      /\ \A g \in Hosts : /\ t.host[g].named = s.host[g].named
                          /\ t.host[g].tx \in {s.host[g].tx, NoConn}
                          /\ t.host[g].rx = s.host[g].rx
                          /\ t.host[g].remote = s.host[g].remote
                          /\ t.host[g].tx # c
                          /\ s.host[g].tx # c => t.host[g].tx = s.host[g].tx
  BY <1>3, <1>7, <1>8, <1>n, ConnNumbers DEF SameHosts, LessRemote
<1>10. Linked(t)
  <2> SUFFICES ASSUME NEW g \in Hosts
               PROVE  /\ t.host[g].tx # NoConn => /\ t.conn[t.host[g].tx].from = g
                                                  /\ t.conn[t.host[g].tx].tx # "closed"
                      /\ t.host[g].rx # NoConn => /\ t.conn[t.host[g].rx].from # g
                                                  /\ t.conn[t.host[g].rx].rx = "auth"
                      /\ \A d \in Conns : t.conn[d].rx = "auth" /\ t.conn[d].from # g
                           => t.host[g].rx = d
    BY DEF Linked
  <2>1. \A d \in Conns : t.conn[d].rx = s.conn[d].rx /\ t.conn[d].from = s.conn[d].from
    BY <1>1, <1>7
  <2>2. s.host[g].tx \in Conns \union {NoConn} /\ s.host[g].rx \in Conns \union {NoConn}
    BY <1>0, Parts
  <2>3. /\ s.host[g].tx # NoConn => /\ s.conn[s.host[g].tx].from = g
                                    /\ s.conn[s.host[g].tx].tx # "closed"
        /\ s.host[g].rx # NoConn => /\ s.conn[s.host[g].rx].from # g
                                    /\ s.conn[s.host[g].rx].rx = "auth"
        /\ \A d \in Conns : s.conn[d].rx = "auth" /\ s.conn[d].from # g => s.host[g].rx = d
    BY <1>0 DEF Linked
  <2>4. /\ t.host[g].rx = s.host[g].rx /\ t.host[g].tx # c
        /\ t.host[g].tx \in {s.host[g].tx, NoConn}
    BY <1>9
  <2>5. t.host[g].tx # NoConn => /\ t.conn[t.host[g].tx].from = g
                                 /\ t.conn[t.host[g].tx].tx # "closed"
    BY <1>7, <2>2, <2>3, <2>4
  <2>6. t.host[g].rx # NoConn => /\ t.conn[t.host[g].rx].from # g
                                 /\ t.conn[t.host[g].rx].rx = "auth"
    BY <2>1, <2>2, <2>3, <2>4
  <2> QED BY <2>1, <2>3, <2>4, <2>5, <2>6
<1>11. Mirrored(t)
  <2>1. \A d \in Conns : t.conn[d].list = s.conn[d].list
    BY <1>1, <1>7
  <2> QED BY <1>0, <1>9, <2>1, Parts DEF Mirrored
<1>12. Valid(P, t)
  BY <1>0, <1>1, <1>6, <1>7, <1>10, <1>11 DEF Valid
<1>13. /\ SameTxAuthBut(s, t, h) /\ (TxAuth(t, h) => TxAuth(s, h))
       /\ s.conn[c].tx # "auth" => SameTxAuth(s, t)
  <2>1. \A g \in Hosts : s.host[g].tx # c => (TxAuth(t, g) <=> TxAuth(s, g))
    BY <1>0, <1>7, <1>9, Parts DEF TxAuth
  <2>2. s.host[h].tx = c => ~TxAuth(t, h) /\ (TxAuth(s, h) <=> s.conn[c].tx = "auth")
    BY <1>3, <1>7, <1>n, ConnNumbers DEF TxAuth
  <2> QED BY <1>8, <2>1, <2>2 DEF SameTxAuth, SameTxAuthBut
<1>14. s.host[h].tx = c => t.host[h].tx = NoConn
  BY <1>3, <1>7, <1>n
<1> QED BY <1>1, <1>6, <1>7, <1>9, <1>12, <1>13, <1>14

\* Closing the connections of the entries of a host.
LEMMA CloseEntriesStep ==
  ASSUME NEW P, NEW s, Valid(P, s), NEW h \in Hosts, NEW ends,
         NEW t, t = CloseEntries(s, h, ends)
  PROVE  /\ Valid(P, t) /\ SameHosts(s, t) /\ LessRemote(s, t)
         /\ SameTxAuthBut(s, t, h)
         /\ TxAuth(t, h) => TxAuth(s, h)
         /\ "tx" \notin ends => SameTxAuth(s, t) /\ t.host[h].tx = s.host[h].tx
         /\ "rx" \in ends => t.host[h].rx = NoConn
         /\ "tx" \in ends => t.host[h].tx = NoConn
         /\ \A g \in Hosts : t.host[g].named = s.host[g].named
         /\ \A c \in Conns : /\ "rx" \in ends => c # s.host[h].rx
                             /\ "tx" \in ends => c # s.host[h].tx
                             => t.conn[c] = s.conn[c]
<1> DEFINE closeRx == "rx" \in ends /\ s.host[h].rx # NoConn
           u == IF closeRx THEN RxSocketClose(s, h, s.host[h].rx) ELSE s
           closeTx == "tx" \in ends /\ u.host[h].tx # NoConn
<1>0. s \in Systems(P) /\ Linked(s)
  BY DEF Valid
<1>t. t = IF closeTx THEN TxSocketClose(u, h, u.host[h].tx) ELSE u
  BY DEF CloseEntries
<1>1. /\ Valid(P, u) /\ SameHosts(s, u) /\ LessRemote(s, u) /\ SameTxAuth(s, u)
      /\ \A g \in Hosts : u.host[g].named = s.host[g].named /\ u.host[g].tx = s.host[g].tx
      /\ "rx" \in ends => u.host[h].rx = NoConn
      /\ \A c \in Conns : ("rx" \in ends => c # s.host[h].rx) => u.conn[c] = s.conn[c]
  <2>1. CASE closeRx
    <3> DEFINE d == s.host[h].rx
    <3>1. d \in Conns /\ s.conn[d].from # h /\ u = RxSocketClose(s, h, d)
      BY <1>0, <2>1, Parts DEF Linked
    <3>2. d = s.host[h].rx /\ "rx" \in ends
      BY <2>1
    <3> HIDE DEF d, u, closeRx
    <3>3. /\ Valid(P, u) /\ SameHosts(s, u) /\ LessRemote(s, u) /\ SameTxAuth(s, u)
          /\ \A g \in Hosts : /\ u.host[g].named = s.host[g].named /\ u.host[g].tx = s.host[g].tx
                              /\ u.host[g].rx = IF g = h /\ s.host[g].rx = d THEN NoConn
                                                ELSE s.host[g].rx
          /\ \A c \in Conns : c # d => u.conn[c] = s.conn[c]
      BY <3>1, RxSocketCloseStep
    <3> QED BY <3>2, <3>3
  <2>2. CASE ~closeRx
    <3>1. u = s /\ ("rx" \in ends => s.host[h].rx = NoConn)
      BY <2>2
    <3> HIDE DEF u
    <3>2. SameHosts(s, u) /\ LessRemote(s, u) /\ SameTxAuth(s, u)
      BY <3>1 DEF SameHosts, LessRemote, SameTxAuth, SameTxAuthBut
    <3> QED BY <3>1, <3>2
  <2> QED BY <2>1, <2>2
<1>c. closeTx <=> "tx" \in ends /\ u.host[h].tx # NoConn
  OBVIOUS
<1>d. (closeTx => t = TxSocketClose(u, h, u.host[h].tx)) /\ (~closeTx => t = u)
  BY <1>t
<1> HIDE DEF u, closeTx
<1>u. u \in Systems(P) /\ Linked(u)
  BY <1>1 DEF Valid
<1>2. /\ Valid(P, t) /\ SameHosts(u, t) /\ LessRemote(u, t) /\ SameTxAuthBut(u, t, h)
      /\ TxAuth(t, h) => TxAuth(u, h)
      /\ "tx" \notin ends => t = u
      /\ \A g \in Hosts : t.host[g].named = u.host[g].named /\ t.host[g].rx = u.host[g].rx
      /\ "tx" \in ends => t.host[h].tx = NoConn
      /\ \A c \in Conns : ("tx" \in ends => c # u.host[h].tx) => t.conn[c] = u.conn[c]
  <2>1. CASE closeTx
    <3> DEFINE d == u.host[h].tx
    <3>1. d \in Conns /\ u.conn[d].from = h /\ t = TxSocketClose(u, h, d) /\ "tx" \in ends
      BY <1>u, <1>c, <1>d, <2>1, Parts DEF Linked
    <3>2. d = u.host[h].tx
      OBVIOUS
    <3> HIDE DEF d
    <3>3. /\ Valid(P, t) /\ SameHosts(u, t) /\ LessRemote(u, t)
          /\ SameTxAuthBut(u, t, h) /\ (TxAuth(t, h) => TxAuth(u, h))
          /\ \A g \in Hosts : t.host[g].named = u.host[g].named /\ t.host[g].rx = u.host[g].rx
          /\ t.host[h].tx = NoConn
          /\ \A c \in Conns : c # d => t.conn[c] = u.conn[c]
      <4>1. Valid(P, u) /\ u.host[h].tx = d
        BY <1>1, <3>2
      <4> QED BY <3>1, <4>1, TxSocketCloseStep
    <3> QED BY <3>1, <3>2, <3>3
  <2>2. CASE ~closeTx
    <3>1. t = u /\ ("tx" \in ends => u.host[h].tx = NoConn)
      BY <1>c, <1>d, <2>2
    <3>2. SameHosts(u, t) /\ LessRemote(u, t) /\ SameTxAuthBut(u, t, h)
      BY <3>1 DEF SameHosts, LessRemote, SameTxAuth, SameTxAuthBut
    <3> QED BY <1>1, <3>1, <3>2
  <2> QED BY <2>1, <2>2
<1>3. SameHosts(s, t) /\ LessRemote(s, t) /\ SameTxAuthBut(s, t, h)
  BY <1>1, <1>2 DEF SameHosts, LessRemote, SameTxAuth, SameTxAuthBut
<1>4. TxAuth(t, h) => TxAuth(s, h)
  BY <1>1, <1>2 DEF SameTxAuth, SameTxAuthBut
<1> QED BY <1>1, <1>2, <1>3, <1>4

\* The answer to "hello": the connection is asked to be authenticated.
LEMMA TxHelloStep ==
  ASSUME NEW P, NEW s, Valid(P, s), NEW c \in Conns, NEW h, s.conn[c].tx = "wait",
         s.conn[c].rx \in {"hello", "closed"},
         \A i \in 1 .. Len(s.conn[c].down) : s.conn[c].down[i].kind = "eof"
  PROVE  LET t == TxHello(s, h, c) IN
         Valid(P, t) /\ SameHosts(s, t) /\ LessRemote(s, t) /\ SameTxAuth(s, t)
<1> DEFINE m == Msg("auth")
           a == [s.conn[c] EXCEPT !.tx = "asked"]
           r == [s.conn[c] EXCEPT !.tx = "asked", !.up = Put(s.conn[c].up, m)]
           u == [s EXCEPT !.conn = [s.conn EXCEPT ![c] = a]]
           t == SendUp(u, c, m)
<1>0. s \in Systems(P) /\ (\A d \in Conns : InStep(s.conn[d])) /\ Linked(s) /\ Mirrored(s)
  BY DEF Valid
<1>m. m \in Messages /\ m.kind = "auth"
  BY MessageTypes
<1>t. TxHello(s, h, c) = t
  BY DEF TxHello
<1> HIDE DEF m
<1>1. r \in ConnStates /\ InStep(r)
  BY <1>0, <1>m, Parts, AskedInStep
<1>2. s.conn[c] \in ConnStates
  BY <1>0, Parts
<1>3. a \in ConnStates /\ r = [a EXCEPT !.up = Put(a.up, m)]
  BY <1>1, <1>2 DEF ConnStates
<1>4. r.from = s.conn[c].from /\ r.list = s.conn[c].list /\ r.tx = "asked" /\ r.rx = s.conn[c].rx
  BY <1>2 DEF ConnStates
<1> HIDE DEF a, r
<1>5. u \in Systems(P) /\ u.host = s.host /\ u.conn = [s.conn EXCEPT ![c] = a]
  BY <1>0, <1>3, Replaced
<1> HIDE DEF u
<1>6. u.conn[c] = a
  BY <1>0, <1>5, Parts
<1>7. t = [u EXCEPT !.conn = [u.conn EXCEPT ![c] = r]]
  BY <1>3, <1>6 DEF SendUp
<1> HIDE DEF t
<1>8. t \in Systems(P) /\ t.host = u.host /\ t.conn = [u.conn EXCEPT ![c] = r]
  BY <1>1, <1>5, <1>7, Replaced
<1>9. t.conn = [s.conn EXCEPT ![c] = r]
  BY <1>0, <1>5, <1>8, Parts
<1>10. (r.rx = "auth" <=> s.conn[c].rx = "auth") /\ (r.tx = "auth" <=> s.conn[c].tx = "auth")
       /\ r.tx # "closed"
  BY <1>4
<1>11. Valid(P, t) /\ SameHosts(s, t) /\ LessRemote(s, t) /\ SameTxAuth(s, t)
  BY <1>1, <1>4, <1>5, <1>8, <1>9, <1>10, ConnChange
<1> QED BY <1>t, <1>11

\* network_accept sends "hello" or closes the socket.
LEMMA AcceptStep ==
  ASSUME NEW P, NEW s, Valid(P, s), NEW c \in Conns, s.conn[c].rx = "none"
  PROVE  LET t == SendDown([s EXCEPT !.conn[c].rx = "hello"], c, Msg("hello")) IN
         Valid(P, t) /\ SameHosts(s, t) /\ LessRemote(s, t) /\ SameTxAuth(s, t)
<1> DEFINE m == Msg("hello")
           a == [s.conn[c] EXCEPT !.rx = "hello"]
           r == [s.conn[c] EXCEPT !.rx = "hello", !.down = Put(s.conn[c].down, m)]
           u == [s EXCEPT !.conn = [s.conn EXCEPT ![c] = a]]
           t == SendDown(u, c, m)
<1>0. s \in Systems(P) /\ (\A d \in Conns : InStep(s.conn[d])) /\ Linked(s) /\ Mirrored(s)
  BY DEF Valid
<1>m. m \in Messages /\ m.kind = "hello"
  BY MessageTypes
<1>t. SendDown([s EXCEPT !.conn[c].rx = "hello"], c, Msg("hello")) = t
  OBVIOUS
<1> HIDE DEF m
<1>1. r \in ConnStates /\ InStep(r)
  BY <1>0, <1>m, Parts, AnsweredInStep
<1>2. s.conn[c] \in ConnStates
  BY <1>0, Parts
<1>3. a \in ConnStates /\ r = [a EXCEPT !.down = Put(a.down, m)]
  BY <1>1, <1>2 DEF ConnStates
<1>4. r.from = s.conn[c].from /\ r.list = s.conn[c].list /\ r.tx = s.conn[c].tx /\ r.rx = "hello"
  BY <1>2 DEF ConnStates
<1> HIDE DEF a, r
<1>5. u \in Systems(P) /\ u.host = s.host /\ u.conn = [s.conn EXCEPT ![c] = a]
  BY <1>0, <1>3, Replaced
<1> HIDE DEF u
<1>6. u.conn[c] = a
  BY <1>0, <1>5, Parts
<1>7. t = [u EXCEPT !.conn = [u.conn EXCEPT ![c] = r]]
  BY <1>3, <1>6 DEF SendDown
<1> HIDE DEF t
<1>8. t \in Systems(P) /\ t.host = u.host /\ t.conn = [u.conn EXCEPT ![c] = r]
  BY <1>1, <1>5, <1>7, Replaced
<1>9. t.conn = [s.conn EXCEPT ![c] = r]
  BY <1>0, <1>5, <1>8, Parts
<1>10. (r.rx = "auth" <=> s.conn[c].rx = "auth") /\ (r.tx = "auth" <=> s.conn[c].tx = "auth")
       /\ (r.tx = "closed" => \A g \in Hosts : s.host[g].tx # c)
  BY <1>0, <1>4, ConnNumbers DEF Linked
<1>11. Valid(P, t) /\ SameHosts(s, t) /\ LessRemote(s, t) /\ SameTxAuth(s, t)
  BY <1>1, <1>4, <1>5, <1>8, <1>9, <1>10, ConnChange
<1> QED BY <1>t, <1>11

\* Announcing a name that is known, and nothing else otherwise.
LEMMA MaybeSendUp ==
  ASSUME NEW P, NEW s, Valid(P, s), NEW c \in Conns, s.conn[c].tx = "auth",
         NEW kind \in Kinds, NEW b \in BOOLEAN
  PROVE  LET t == IF b THEN SendUp(s, c, Announce(kind, TRUE)) ELSE s IN
         Valid(P, t) /\ SameEnds(s, t) /\ t.told = s.told
<1>1. CASE b
  BY <1>1, SendUpStep
<1>2. CASE ~b
  BY <1>2 DEF SameEnds
<1> QED BY <1>1, <1>2

\* auth_data_cb: the outgoing connection is authenticated, and subscribers are
\* told of a publisher that is now within reach.
LEMMA TxAuthenticatedStep ==
  ASSUME NEW P, NEW s, Valid(P, s), NEW c \in Conns, NEW h \in Hosts, s.conn[c].from = h,
         s.conn[c].tx = "asked", s.conn[c].rx \in {"auth", "closed"},
         \A i \in 1 .. Len(s.conn[c].down) : s.conn[c].down[i].kind = "eof"
  PROVE  LET t == TxAuthenticated(s, h, c) IN
         /\ Valid(P, t) /\ SameHosts(s, t) /\ LessRemote(s, t)
         /\ SameTxAuthBut(s, t, h)
         /\ TxAuth(s, h) => TxAuth(t, h)
         /\ "publish" \in s.host[h].remote /\ s.host[h].handles["subscribe"] > 0 => h \in t.told
<1> DEFINE r == [s.conn[c] EXCEPT !.tx = "auth"]
           t == [s EXCEPT !.conn = [s.conn EXCEPT ![c] = r]]
           kp == "publish" \in t.host[h].named
           u == IF kp THEN SendUp(t, c, Announce("publish", TRUE)) ELSE t
           ks == "subscribe" \in t.host[h].named
           v == IF ks THEN SendUp(u, c, Announce("subscribe", TRUE)) ELSE u
           rx == t.host[h].rx
           w == IF rx # NoConn /\ "publish" \in t.conn[rx].list THEN HandlePublish(v, h) ELSE v
<1>w. TxAuthenticated(s, h, c) = w
  BY DEF TxAuthenticated
<1>0. s \in Systems(P) /\ (\A d \in Conns : InStep(s.conn[d])) /\ Linked(s) /\ Mirrored(s)
  BY DEF Valid
<1>1. r \in ConnStates /\ InStep(r)
  BY <1>0, Parts, RepliedInStep
<1>2. r.from = s.conn[c].from /\ r.list = s.conn[c].list /\ r.tx = "auth" /\ r.rx = s.conn[c].rx
  BY <1>0, Parts DEF ConnStates
<1> HIDE DEF r
<1>3. t \in Systems(P) /\ t.host = s.host /\ t.conn = [s.conn EXCEPT ![c] = r]
  BY <1>0, <1>1, Replaced
<1> HIDE DEF t
<1>4. Valid(P, t) /\ SameHosts(s, t) /\ LessRemote(s, t)
  BY <1>1, <1>2, <1>3, ConnChange
<1>5. t.conn[c].tx = "auth" /\ \A d \in Conns : d # c => t.conn[d] = s.conn[d]
  BY <1>0, <1>2, <1>3, Parts
<1>6. kp \in BOOLEAN /\ ks \in BOOLEAN /\ "publish" \in Kinds /\ "subscribe" \in Kinds
  BY DEF Kinds
<1> HIDE DEF kp, ks
<1>7. Valid(P, u) /\ SameEnds(t, u) /\ u.told = t.told
  BY <1>4, <1>5, <1>6, MaybeSendUp
<1> HIDE DEF u
<1>8. u.conn[c].tx = "auth"
  BY <1>5, <1>7 DEF SameEnds
<1>9. Valid(P, v) /\ SameEnds(u, v) /\ v.told = u.told
  BY <1>6, <1>7, <1>8, MaybeSendUp
<1> HIDE DEF v
<1>10. SameEnds(t, v) /\ v \in Systems(P)
  BY <1>7, <1>9 DEF SameEnds, Valid
<1>11. Valid(P, w) /\ w.host = v.host /\ w.conn = v.conn
  BY <1>9, <1>10, HandlePublishStep
<1>12. ASSUME "publish" \in s.host[h].remote, s.host[h].handles["subscribe"] > 0
       PROVE  h \in w.told
  <2>1. t.host[h].remote = s.host[h].remote /\ v.host[h] = s.host[h]
    BY <1>3, <1>10 DEF SameEnds
  <2>2. rx # NoConn /\ "publish" \in t.conn[rx].list
    BY <1>4, <1>12, <2>1 DEF Valid, Mirrored
  <2>3. w = HandlePublish(v, h)
    BY <2>2
  <2> QED BY <1>10, <1>12, <2>1, <2>3, HandlePublishStep
<1> HIDE DEF w
<1>13. SameEnds(t, w)
  BY <1>10, <1>11 DEF SameEnds
<1>14. /\ w.host = s.host /\ w.conn[c].tx = "auth"
       /\ \A d \in Conns : d # c => w.conn[d].tx = s.conn[d].tx
  BY <1>3, <1>5, <1>13 DEF SameEnds
<1>15. SameHosts(s, w) /\ LessRemote(s, w)
  BY <1>14 DEF SameHosts, LessRemote
<1>16. \A g \in Hosts : g # h => s.host[g].tx # c
  BY <1>0, ConnNumbers DEF Linked
<1>17. SameTxAuthBut(s, w, h) /\ (TxAuth(s, h) => TxAuth(w, h))
  BY <1>0, <1>14, <1>16, Parts DEF SameTxAuth, SameTxAuthBut, TxAuth
<1> QED BY <1>w, <1>11, <1>12, <1>15, <1>17

\* disconnect_cb: net.timer is set.
LEMMA TxDisconnectedStep ==
  ASSUME NEW P, NEW s, Valid(P, s), NEW c \in Conns, NEW h \in Hosts, s.conn[c].from = h
  PROVE  LET t == TxDisconnected(s, h, c) IN
         /\ Valid(P, t) /\ LessRemote(s, t) /\ SameTxAuthBut(s, t, h)
         /\ TxAuth(t, h) => TxAuth(s, h)
         /\ \A g \in Hosts : /\ t.host[g].handles = s.host[g].handles
                             /\ t.host[g].peer = s.host[g].peer
                             /\ s.host[g].timer # "off" \/ g = h => t.host[g].timer # "off"
<1> DEFINE t == TxSocketClose(s, h, c)
           k == IF s.conn[c].tx = "auth" THEN "short" ELSE "long"
<1>1. /\ Valid(P, t) /\ SameHosts(s, t) /\ LessRemote(s, t) /\ SameTxAuthBut(s, t, h)
      /\ TxAuth(t, h) => TxAuth(s, h)
  BY TxSocketCloseStep
<1>2. k \in {"off", "short", "long"} /\ k # "off"
  OBVIOUS
<1>3. TxDisconnected(s, h, c) = IF s.host[h].timer # "off" THEN t ELSE Arm(t, h, k)
  BY DEF TxDisconnected
<1> HIDE DEF t, k
<1>4. CASE s.host[h].timer # "off"
  BY <1>1, <1>3, <1>4 DEF SameHosts
<1>5. CASE s.host[h].timer = "off"
  <2> DEFINE u == Arm(t, h, k)
  <2>1. /\ Valid(P, u) /\ SameTxAuth(t, u)
        /\ \A g \in Hosts : /\ u.host[g].timer = IF g = h THEN k ELSE t.host[g].timer
                            /\ u.host[g].handles = t.host[g].handles
                            /\ u.host[g].peer = t.host[g].peer
                            /\ u.host[g].remote = t.host[g].remote
    <3>1. k \in {"off", "short", "long"} /\ Valid(P, t) /\ u = Arm(t, h, k)
      BY <1>1, <1>2
    <3> HIDE DEF u
    <3> QED BY <3>1, ArmStep
  <2>2. TxDisconnected(s, h, c) = u
    BY <1>3, <1>5
  <2> HIDE DEF u
  <2> QED BY <1>1, <1>2, <2>1, <2>2 DEF SameHosts, LessRemote, SameTxAuth, SameTxAuthBut
<1> QED BY <1>4, <1>5

\* network_check_auth: the connection replaces the one before.
LEMMA RxAuthenticatedStep ==
  ASSUME NEW P, NEW s, Valid(P, s), NEW c \in Conns, NEW h \in Hosts, s.conn[c].from # h,
         s.conn[c].rx = "hello", s.conn[c].tx \in {"asked", "closed"},
         \A i \in 1 .. Len(s.conn[c].up) : s.conn[c].up[i].kind # "auth",
         NEW answer \in {"reply", "refuse"}
  PROVE  LET t == RxAuthenticated(s, h, c, answer) IN
         /\ Valid(P, t) /\ LessRemote(s, t) /\ SameTxAuth(s, t)
         /\ \A g \in Hosts : /\ t.host[g].handles = s.host[g].handles
                             /\ t.host[g].peer = s.host[g].peer
                             /\ s.host[g].timer # "off" => t.host[g].timer # "off"
<1> DEFINE e == CloseEntries(s, h, {"rx"})
           t == RxCleanupState(e, h)
           r == [t.conn[c] EXCEPT !.rx = "auth"]
           x == [t.host[h] EXCEPT !.rx = c]
           f == [t EXCEPT !.conn = [t.conn EXCEPT ![c] = r]]
           u == [f EXCEPT !.host = [f.host EXCEPT ![h] = [f.host[h] EXCEPT !.rx = c]]]
           v == IF TxAuth(u, h) THEN u ELSE Arm(u, h, "short")
           m == Msg(answer)
           w == SendDown(v, c, m)
<1>0. s \in Systems(P) /\ (\A d \in Conns : InStep(s.conn[d])) /\ Linked(s) /\ Mirrored(s)
  BY DEF Valid
<1>1. /\ Valid(P, e) /\ SameHosts(s, e) /\ LessRemote(s, e) /\ SameTxAuth(s, e)
      /\ e.host[h].rx = NoConn
      /\ \A d \in Conns : d # s.host[h].rx => e.conn[d] = s.conn[d]
  <2> DEFINE ends == {"rx"}
  <2>1. "rx" \in ends /\ "tx" \notin ends /\ e = CloseEntries(s, h, ends)
    OBVIOUS
  <2> HIDE DEF ends, e
  <2> QED BY <2>1, CloseEntriesStep
<1>2. e.conn[c] = s.conn[c]
  BY <1>0, <1>1, ConnNumbers DEF Linked
<1> HIDE DEF e
<1>3. t \in Systems(P) /\ t.conn = e.conn /\ t.host = e.host
  <2>1. e \in Systems(P) /\ e.host[h].remote = {}
    BY <1>1 DEF Valid, Mirrored
  <2>2. /\ t \in Systems(P) /\ t.conn = e.conn
        /\ t.host = [e.host EXCEPT ![h] = [e.host[h] EXCEPT !.remote = {}]]
    BY <2>1, RxCleanupFacts
  <2>3. e.host[h] = [e.host[h] EXCEPT !.remote = {}]
    <3>1. e.host[h] \in HostStates(P)
      BY <2>1, Parts
    <3> QED BY <2>1, <3>1 DEF HostStates
  <2>4. e.host = [e.host EXCEPT ![h] = e.host[h]]
    BY <2>1, Parts
  <2> QED BY <2>2, <2>3, <2>4
<1>4. RxAuthenticated(s, h, c, answer) = w
  BY DEF RxAuthenticated, e
<1> HIDE DEF t
<1>5. /\ Valid(P, t) /\ SameHosts(s, t) /\ LessRemote(s, t) /\ SameTxAuth(s, t)
      /\ t.host[h].rx = NoConn /\ t.host[h].remote = {} /\ t.conn[c] = s.conn[c]
  BY <1>1, <1>2, <1>3 DEF Valid, Linked, Mirrored, SameHosts, LessRemote, SameTxAuth, SameTxAuthBut, TxAuth
<1>6. /\ r \in ConnStates /\ InStep(r) /\ r.rx = "auth" /\ r.tx = s.conn[c].tx
      /\ r.from = s.conn[c].from /\ r.list = {} /\ r.up = s.conn[c].up /\ r.down = s.conn[c].down
  <2>1. s.conn[c] \in ConnStates /\ InStep(s.conn[c]) /\ s.conn[c].list = {}
    BY <1>0, Parts DEF InStep, EndsInStep
  <2>2. r = [s.conn[c] EXCEPT !.rx = "auth"]
    BY <1>5
  <2>3. r \in ConnStates /\ InStep(r)
    BY <2>1, <2>2, AcceptedInStep
  <2> QED BY <2>1, <2>2, <2>3 DEF ConnStates
<1>7. /\ x \in HostStates(P) /\ x.rx = c /\ x.tx = t.host[h].tx /\ x.remote = {}
      /\ x.handles = t.host[h].handles /\ x.peer = t.host[h].peer /\ x.timer = t.host[h].timer
  <2>1. t.host[h] \in HostStates(P)
    BY <1>3, Parts
  <2> QED BY <1>5, <2>1 DEF HostStates
<1> HIDE DEF r, x
<1>8. f \in Systems(P) /\ f.host = t.host /\ f.conn = [t.conn EXCEPT ![c] = r]
  BY <1>3, <1>6, Replaced
<1>u. u = [f EXCEPT !.host = [f.host EXCEPT ![h] = x]]
  <2> HIDE DEF f
  <2> QED BY <1>8 DEF x
<1> HIDE DEF f, u
<1>9. u \in Systems(P) /\ u.conn = f.conn /\ u.host = [f.host EXCEPT ![h] = x]
  BY <1>7, <1>8, <1>u, Replaced
<1>10. /\ u.conn[c] = r /\ \A d \in Conns : d # c => u.conn[d] = t.conn[d]
       /\ u.host[h] = x /\ \A g \in Hosts : g # h => u.host[g] = t.host[g]
  BY <1>3, <1>8, <1>9, Parts
<1>11. /\ SameHosts(t, u) /\ LessRemote(t, u) /\ SameTxAuth(t, u)
  <2>1. SameHosts(t, u) /\ LessRemote(t, u)
    BY <1>5, <1>7, <1>10 DEF SameHosts, LessRemote
  <2>2. \A d \in Conns : u.conn[d].tx = t.conn[d].tx
    BY <1>5, <1>6, <1>10
  <2>3. \A g \in Hosts : u.host[g].tx = t.host[g].tx
    BY <1>7, <1>10
  <2>4. SameTxAuth(t, u)
    BY <1>3, <2>2, <2>3, Parts DEF SameTxAuth, SameTxAuthBut, TxAuth
  <2> QED BY <2>1, <2>4
<1>12. Valid(P, u)
  <2>0. t \in Systems(P) /\ (\A d \in Conns : InStep(t.conn[d])) /\ Linked(t) /\ Mirrored(t)
    BY <1>5 DEF Valid
  <2>1. \A d \in Conns : InStep(u.conn[d]) /\ u.conn[d].from = t.conn[d].from
                         /\ u.conn[d].tx = t.conn[d].tx
    BY <1>5, <1>6, <1>10, <2>0
  <2>2. \A d \in Conns : t.conn[d].rx = "auth" => t.conn[d].from = h
    BY <1>5, <2>0, ConnNumbers DEF Linked
  <2>3. \A g \in Hosts : g # h => s.conn[c].from = g /\ t.host[g].rx # c
    <3>1. s.conn[c].from \in Hosts
      BY <1>0, Parts
    <3>2. t.conn[c].rx # "auth"
      BY <1>5
    <3>3. \A g \in Hosts : t.host[g].rx # c
      BY <2>0, <3>2, ConnNumbers DEF Linked
    <3> QED BY <3>1, <3>3, OtherHost
  <2>4. Linked(u)
    <3> SUFFICES ASSUME NEW g \in Hosts
                 PROVE  /\ u.host[g].tx # NoConn => /\ u.conn[u.host[g].tx].from = g
                                                    /\ u.conn[u.host[g].tx].tx # "closed"
                        /\ u.host[g].rx # NoConn => /\ u.conn[u.host[g].rx].from # g
                                                    /\ u.conn[u.host[g].rx].rx = "auth"
                        /\ \A d \in Conns : u.conn[d].rx = "auth" /\ u.conn[d].from # g
                             => u.host[g].rx = d
      BY DEF Linked
    <3>1. u.host[g].tx = t.host[g].tx /\ t.host[g].tx \in Conns \union {NoConn}
          /\ t.host[g].rx \in Conns \union {NoConn}
      BY <1>3, <1>7, <1>10, Parts
    <3>2. u.host[g].tx # NoConn => /\ u.conn[u.host[g].tx].from = g
                                   /\ u.conn[u.host[g].tx].tx # "closed"
      BY <2>0, <2>1, <3>1 DEF Linked
    <3>3. CASE g = h
      BY <1>5, <1>6, <1>7, <1>10, <2>1, <2>2, <3>2, <3>3
    <3>4. CASE g # h
      <4>1. u.host[g].rx = t.host[g].rx /\ t.host[g].rx # c /\ s.conn[c].from = g
        BY <1>10, <2>3, <3>4
      <4> QED BY <1>5, <1>10, <2>0, <2>1, <3>1, <3>2, <4>1 DEF Linked
    <3> QED BY <3>3, <3>4
  <2>5. Mirrored(u)
    <3> SUFFICES ASSUME NEW g \in Hosts
                 PROVE  u.host[g].remote = IF u.host[g].rx = NoConn THEN {}
                                           ELSE u.conn[u.host[g].rx].list
      BY DEF Mirrored
    <3>1. CASE g = h
      BY <1>6, <1>7, <1>10, <3>1, ConnNumbers
    <3>2. CASE g # h
      BY <1>3, <1>10, <2>0, <2>3, <3>2, Parts DEF Mirrored
    <3> QED BY <3>1, <3>2
  <2> QED BY <1>9, <2>1, <2>4, <2>5 DEF Valid
<1>13. /\ Valid(P, v) /\ v.conn = u.conn /\ SameTxAuth(u, v) /\ LessRemote(u, v)
       /\ \A g \in Hosts : /\ v.host[g].handles = u.host[g].handles
                           /\ v.host[g].peer = u.host[g].peer
                           /\ u.host[g].timer # "off" => v.host[g].timer # "off"
  <2>1. CASE TxAuth(u, h)
    <3>1. v = u
      BY <2>1
    <3> HIDE DEF v
    <3> QED BY <1>12, <3>1 DEF SameTxAuth, SameTxAuthBut, LessRemote
  <2>2. CASE ~TxAuth(u, h)
    <3>1. v = Arm(u, h, "short")
      BY <2>2
    <3> HIDE DEF v
    <3>2. /\ Valid(P, v) /\ v.conn = u.conn /\ SameTxAuth(u, v)
          /\ v.host[h].timer = "short"
          /\ \A g \in Hosts : /\ g # h => v.host[g].timer = u.host[g].timer
                              /\ v.host[g].handles = u.host[g].handles
                              /\ v.host[g].peer = u.host[g].peer
                              /\ v.host[g].remote = u.host[g].remote
      <4> DEFINE k == "short"
      <4>1. k \in {"off", "short", "long"} /\ v = Arm(u, h, k) /\ k = "short"
        BY <3>1
      <4> HIDE DEF k
      <4> QED BY <1>12, <4>1, ArmStep
    <3> QED BY <3>2 DEF LessRemote
  <2> QED BY <2>1, <2>2
<1> HIDE DEF v
<1>m. m \in Messages /\ m.kind = answer
  BY MessageTypes
<1> HIDE DEF m
<1>14. Valid(P, w) /\ w.host = v.host /\ SameTxAuth(v, w)
  <2> DEFINE q == [v.conn[c] EXCEPT !.rx = "auth", !.down = Put(v.conn[c].down, m)]
  <2>1. v.conn[c] = r
    BY <1>10, <1>13
  <2>2. r.tx = "asked" => \A i \in 1 .. Len(r.down) : r.down[i].kind = "eof"
    <3>1. DownOrdered(s.conn[c])
      BY <1>0 DEF InStep
    <3> QED BY <1>6, <3>1 DEF DownOrdered
  <2>3. q \in ConnStates /\ InStep(q)
    BY <1>6, <1>m, <2>1, <2>2, AnsweredInStep
  <2>4. /\ q.rx = "auth" /\ q.tx = r.tx /\ q.from = r.from /\ q.list = r.list
        /\ q = [v.conn[c] EXCEPT !.down = Put(v.conn[c].down, m)]
    BY <1>6, <2>1 DEF ConnStates
  <2>5. w = [v EXCEPT !.conn = [v.conn EXCEPT ![c] = q]]
    BY <2>4 DEF SendDown
  <2> HIDE DEF q, w
  <2>6. v \in Systems(P) /\ Linked(v)
    BY <1>13 DEF Valid
  <2>7. w \in Systems(P) /\ w.host = v.host /\ w.conn = [v.conn EXCEPT ![c] = q]
    BY <2>3, <2>5, <2>6, Replaced
  <2>8. q.tx = "closed" => \A g \in Hosts : v.host[g].tx # c
    BY <2>1, <2>4, <2>6, ConnNumbers DEF Linked
  <2>9. /\ q.from = v.conn[c].from /\ q.list = v.conn[c].list
        /\ (q.rx = "auth" <=> v.conn[c].rx = "auth") /\ (q.tx = "auth" <=> v.conn[c].tx = "auth")
    BY <1>6, <2>1, <2>4
  <2> QED BY <1>13, <2>3, <2>7, <2>8, <2>9, ConnChange
<1> HIDE DEF w
<1>15. LessRemote(s, w) /\ SameTxAuth(s, w)
  BY <1>5, <1>11, <1>13, <1>14 DEF LessRemote, SameTxAuth, SameTxAuthBut
<1>16. \A g \in Hosts : /\ w.host[g].handles = s.host[g].handles
                        /\ w.host[g].peer = s.host[g].peer
                        /\ s.host[g].timer # "off" => w.host[g].timer # "off"
  BY <1>5, <1>11, <1>13, <1>14 DEF SameHosts
<1> QED BY <1>4, <1>14, <1>15, <1>16

\* The lists of the connection c and of the host h become K.
WithList(s, h, c, K) == [s EXCEPT !.host[h].remote = K, !.conn[c].list = K]

\* The change of both lists is a system state.
LEMMA ListChange ==
  ASSUME NEW P, NEW s \in Systems(P), NEW c \in Conns, NEW h \in Hosts, NEW K, K \in SUBSET Kinds
  PROVE  LET t == WithList(s, h, c, K) IN
         /\ t \in Systems(P) /\ t.told = s.told
         /\ t.host = [s.host EXCEPT ![h] = [s.host[h] EXCEPT !.remote = K]]
         /\ t.conn = [s.conn EXCEPT ![c] = [s.conn[c] EXCEPT !.list = K]]
<1> DEFINE x == [s.host[h] EXCEPT !.remote = K]
           u == [s EXCEPT !.host = [s.host EXCEPT ![h] = x]]
           r == [s.conn[c] EXCEPT !.list = K]
           t == WithList(s, h, c, K)
<1>1. x \in HostStates(P)
  <2>1. s.host[h] \in HostStates(P)
    BY Parts
  <2> QED BY <2>1 DEF HostStates
<1>2. r \in ConnStates
  <2>1. s.conn[c] \in ConnStates
    BY Parts
  <2> QED BY <2>1 DEF ConnStates
<1>3. t = [u EXCEPT !.conn = [u.conn EXCEPT ![c] = [u.conn[c] EXCEPT !.list = K]]]
  BY DEF WithList
<1> HIDE DEF x, t
<1>4. u \in Systems(P) /\ u.conn = s.conn /\ u.told = s.told /\ u.host = [s.host EXCEPT ![h] = x]
  BY <1>1, Replaced
<1> HIDE DEF u
<1>5. t = [u EXCEPT !.conn = [u.conn EXCEPT ![c] = r]]
  BY <1>3, <1>4
<1> HIDE DEF r
<1>6. t \in Systems(P) /\ t.host = u.host /\ t.told = u.told /\ t.conn = [u.conn EXCEPT ![c] = r]
  BY <1>2, <1>4, <1>5, Replaced
<1> QED BY <1>4, <1>6 DEF x, r, t

\* What is announced over the connection of the entry and what is believed of
\* the other host change together.
LEMMA ListStep ==
  ASSUME NEW P, NEW s, Valid(P, s), NEW c \in Conns, NEW h \in Hosts, s.conn[c].from # h,
         s.conn[c].rx = "auth", NEW K, K \in SUBSET Kinds,
         NEW t, t = WithList(s, h, c, K)
  PROVE  /\ Valid(P, t) /\ SameHosts(s, t) /\ SameTxAuth(s, t)
         /\ t.host[h].remote = K /\ \A g \in Hosts : g # h => t.host[g] = s.host[g]
<1> DEFINE r == [s.conn[c] EXCEPT !.list = K]
           x == [s.host[h] EXCEPT !.remote = K]
<1>0. s \in Systems(P) /\ (\A d \in Conns : InStep(s.conn[d])) /\ Linked(s) /\ Mirrored(s)
  BY DEF Valid
<1>1. /\ r \in ConnStates /\ r.rx = "auth" /\ r.tx = s.conn[c].tx /\ r.from = s.conn[c].from
      /\ r.list = K /\ r.up = s.conn[c].up /\ r.down = s.conn[c].down
  <2>1. s.conn[c] \in ConnStates
    BY <1>0, Parts
  <2> QED BY <2>1 DEF ConnStates
<1>2. InStep(r)
  <2>1. InStep(s.conn[c])
    BY <1>0
  <2> HIDE DEF r
  <2> QED BY <1>1, <2>1 DEF InStep, UpOrdered, DownOrdered, EndsInStep
<1>3. /\ x.tx = s.host[h].tx /\ x.rx = s.host[h].rx /\ x.remote = K
      /\ x.handles = s.host[h].handles /\ x.peer = s.host[h].peer /\ x.timer = s.host[h].timer
  <2>1. s.host[h] \in HostStates(P)
    BY <1>0, Parts
  <2> QED BY <2>1 DEF HostStates
<1>t. t \in Systems(P) /\ t.host = [s.host EXCEPT ![h] = x] /\ t.conn = [s.conn EXCEPT ![c] = r]
  BY <1>0, ListChange
<1>4. /\ t.conn[c] = r /\ \A d \in Conns : d # c => t.conn[d] = s.conn[d]
      /\ t.host[h] = x /\ \A g \in Hosts : g # h => t.host[g] = s.host[g]
  <2> HIDE DEF r, x
  <2> QED BY <1>0, <1>t, Parts
<1> HIDE DEF r, x
<1>5. s.host[h].rx = c
  BY <1>0 DEF Linked
<1>6. \A g \in Hosts : g # h => s.host[g].rx # c
  <2> SUFFICES ASSUME NEW g \in Hosts, g # h, s.host[g].rx = c PROVE FALSE
    OBVIOUS
  <2>1. s.conn[c].from # g
    BY <1>0, ConnNumbers DEF Linked
  <2>2. s.conn[c].from \in Hosts
    BY <1>0, Parts
  <2> QED BY <2>1, <2>2, OtherHost
<1>7. \A d \in Conns : InStep(t.conn[d]) /\ t.conn[d].from = s.conn[d].from
                       /\ t.conn[d].tx = s.conn[d].tx /\ t.conn[d].rx = s.conn[d].rx
  BY <1>0, <1>1, <1>2, <1>4
<1>8. \A g \in Hosts : t.host[g].tx = s.host[g].tx /\ t.host[g].rx = s.host[g].rx
  BY <1>3, <1>4
<1>9. Linked(t)
  <2> SUFFICES ASSUME NEW g \in Hosts
               PROVE  /\ t.host[g].tx # NoConn => /\ t.conn[t.host[g].tx].from = g
                                                  /\ t.conn[t.host[g].tx].tx # "closed"
                      /\ t.host[g].rx # NoConn => /\ t.conn[t.host[g].rx].from # g
                                                  /\ t.conn[t.host[g].rx].rx = "auth"
                      /\ \A d \in Conns : t.conn[d].rx = "auth" /\ t.conn[d].from # g
                           => t.host[g].rx = d
    BY DEF Linked
  <2>1. s.host[g].tx \in Conns \union {NoConn} /\ s.host[g].rx \in Conns \union {NoConn}
    BY <1>0, Parts
  <2> QED BY <1>0, <1>7, <1>8, <2>1 DEF Linked
<1>10. Mirrored(t)
  <2> SUFFICES ASSUME NEW g \in Hosts
               PROVE  t.host[g].remote = IF t.host[g].rx = NoConn THEN {}
                                         ELSE t.conn[t.host[g].rx].list
    BY DEF Mirrored
  <2>1. CASE g = h
    BY <1>1, <1>3, <1>4, <1>5, <1>8, <2>1, ConnNumbers
  <2>2. CASE g # h
    <3>1. t.host[g] = s.host[g] /\ s.host[g].rx # c /\ s.host[g].rx \in Conns \union {NoConn}
      BY <1>0, <1>4, <1>6, <2>2, Parts
    <3>2. t.conn[s.host[g].rx] = s.conn[s.host[g].rx] \/ s.host[g].rx = NoConn
      BY <1>4, <3>1
    <3>3. s.host[g].remote = IF s.host[g].rx = NoConn THEN {} ELSE s.conn[s.host[g].rx].list
      BY <1>0 DEF Mirrored
    <3> QED BY <3>1, <3>2, <3>3
  <2> QED BY <2>1, <2>2
<1>11. SameTxAuth(s, t)
  BY <1>0, <1>7, <1>8, Parts DEF SameTxAuth, TxAuth
<1>12. SameHosts(s, t)
  BY <1>3, <1>4 DEF SameHosts
<1> QED BY <1>3, <1>4, <1>7, <1>9, <1>10, <1>11, <1>12, <1>t DEF Valid

\* An announcement is mirrored if the peer is allowed it, and the subscribers are
\* told if they can reach the publisher.
LEMMA RxEnableStep ==
  ASSUME NEW P, NEW s, Valid(P, s), NEW c \in Conns, NEW h \in Hosts, s.conn[c].from # h,
         s.conn[c].rx = "auth", NEW kind \in Kinds,
         NEW t, t = RxEnable(s, h, c, kind)
  PROVE  /\ Valid(P, t) /\ SameHosts(s, t) /\ SameTxAuth(s, t)
         /\ \A g \in Hosts : g # h => t.host[g] = s.host[g]
         /\ \/ t.host[h].remote = s.host[h].remote
            \/ /\ s.host[h].peer \notin {"no", "deny"}
               /\ t.host[h].remote = s.host[h].remote \union {kind}
               /\ kind = "publish" /\ TxAuth(s, h) /\ s.host[h].handles["subscribe"] > 0
                    => h \in t.told
<1>0. s \in Systems(P) /\ Linked(s) /\ Mirrored(s)
  BY DEF Valid
<1>1. ASSUME NEW a, Valid(P, a)
      PROVE  /\ Valid(P, HandlePublish(a, h)) /\ HandlePublish(a, h).host = a.host
             /\ HandlePublish(a, h).conn = a.conn
             /\ a.host[h].handles["subscribe"] > 0 => h \in HandlePublish(a, h).told
  BY <1>1, HandlePublishStep DEF Valid
<1>2. CASE kind \in s.conn[c].list
  <2>1. t = IF kind = "publish" /\ TxAuth(s, h) THEN HandlePublish(s, h) ELSE s
    BY <1>2 DEF RxEnable
  <2>2. Valid(P, t) /\ t.host = s.host /\ t.conn = s.conn
    BY <1>1, <2>1
  <2> QED BY <2>2 DEF SameHosts, SameTxAuth, TxAuth
<1>3. CASE kind \notin s.conn[c].list /\ s.host[h].peer \in {"no", "deny"}
  <2>1. t = s
    BY <1>3 DEF RxEnable
  <2> QED BY <2>1 DEF SameHosts, SameTxAuth
<1>4. CASE kind \notin s.conn[c].list /\ s.host[h].peer \notin {"no", "deny"}
  <2> DEFINE K == s.conn[c].list \union {kind}
             a == WithList(s, h, c, K)
  <2>2. s.host[h].rx = c /\ s.host[h].remote = s.conn[c].list
    BY <1>0, ConnNumbers DEF Linked, Mirrored
  <2>1. t = IF kind = "publish" /\ TxAuth(a, h) THEN HandlePublish(a, h) ELSE a
    <3> DEFINE b == [s EXCEPT !.host[h].remote = s.host[h].remote \union {kind},
                              !.conn[c].list = s.conn[c].list \union {kind}]
    <3>1. [s EXCEPT !.host[h].remote = @ \union {kind}, !.conn[c].list = @ \union {kind}] = b
      BY <1>0 DEF Systems
    <3>2. t = IF kind = "publish" /\ TxAuth(b, h) THEN HandlePublish(b, h) ELSE b
      BY <1>4, <3>1 DEF RxEnable
    <3>3. b = a
      BY <2>2 DEF WithList
    <3> QED BY <3>2, <3>3
  <2>3. K \in SUBSET Kinds
    BY <1>0, Parts DEF ConnStates
  <2>k. K = s.host[h].remote \union {kind}
    BY <2>2
  <2> HIDE DEF K
  <2>5. /\ Valid(P, a) /\ SameHosts(s, a) /\ SameTxAuth(s, a)
        /\ a.host[h].remote = K /\ \A g \in Hosts : g # h => a.host[g] = s.host[g]
    BY <2>3, ListStep
  <2> HIDE DEF a
  <2>6. /\ Valid(P, t) /\ t.host = a.host /\ t.conn = a.conn
        /\ kind = "publish" /\ TxAuth(a, h) /\ a.host[h].handles["subscribe"] > 0 => h \in t.told
    BY <1>1, <2>1, <2>5
  <2>7. SameHosts(s, t) /\ SameTxAuth(s, t)
    BY <2>5, <2>6 DEF SameHosts, SameTxAuth, TxAuth
  <2> QED BY <1>4, <2>5, <2>6, <2>7, <2>k DEF SameHosts, SameTxAuth
<1> QED BY <1>2, <1>3, <1>4

\* The same, not enabled: the host believes less.
LEMMA RxDisableStep ==
  ASSUME NEW P, NEW s, Valid(P, s), NEW c \in Conns, NEW h \in Hosts, s.conn[c].from # h,
         s.conn[c].rx = "auth", NEW kind \in Kinds,
         NEW t, t = RxDisable(s, h, c, kind)
  PROVE  Valid(P, t) /\ SameHosts(s, t) /\ SameTxAuth(s, t) /\ LessRemote(s, t)
<1>0. s \in Systems(P) /\ Linked(s) /\ Mirrored(s)
  BY DEF Valid
<1>1. CASE kind \notin s.conn[c].list
  <2>1. t = s
    BY <1>1 DEF RxDisable
  <2> QED BY <2>1 DEF SameHosts, SameTxAuth, LessRemote
<1>2. CASE kind \in s.conn[c].list
  <2> DEFINE a == IF kind = "publish" THEN HandlePublish(s, h) ELSE s
             K == a.conn[c].list \ {kind}
  <2>1. t = [a EXCEPT !.host[h].remote = @ \ {kind}, !.conn[c].list = @ \ {kind}]
    BY <1>2 DEF RxDisable
  <2>2. Valid(P, a) /\ a.host = s.host /\ a.conn = s.conn
    BY <1>0, HandlePublishStep
  <2> HIDE DEF a
  <2>3. a.host[h].rx = c /\ a.host[h].remote = a.conn[c].list /\ a \in Systems(P)
    BY <1>0, <2>2, ConnNumbers DEF Linked, Mirrored, Valid
  <2>4. K \in SUBSET Kinds /\ K \subseteq s.host[h].remote
    BY <2>2, <2>3, Parts
  <2>t. t = WithList(a, h, c, K)
    <3>1. t = [a EXCEPT !.host[h].remote = a.host[h].remote \ {kind},
                        !.conn[c].list = a.conn[c].list \ {kind}]
      BY <2>1, <2>3 DEF Systems
    <3> QED BY <2>3, <3>1 DEF WithList
  <2> HIDE DEF K
  <2>c. a.conn[c].from # h /\ a.conn[c].rx = "auth"
    BY <2>2
  <2>6. /\ Valid(P, t) /\ SameHosts(a, t) /\ SameTxAuth(a, t)
        /\ t.host[h].remote = K /\ \A g \in Hosts : g # h => t.host[g] = a.host[g]
    BY <2>2, <2>4, <2>t, <2>c, ListStep
  <2> QED BY <2>2, <2>4, <2>6 DEF SameHosts, SameTxAuth, LessRemote, TxAuth
<1> QED BY <1>1, <1>2

\* The entry of h becomes a new connection c.
WithFresh(s, h, c) == [s EXCEPT !.conn[c] = FreshConn(h), !.host[h].tx = c]

\* network_open_channel: a new connection, not authenticated yet.
LEMMA FreshStep ==
  ASSUME NEW P, NEW s, Valid(P, s), NEW h \in Hosts, s.host[h].tx = NoConn,
         NEW c \in Conns, s.conn[c].tx = "closed", s.conn[c].rx = "closed",
         NEW t, t = WithFresh(s, h, c)
  PROVE  /\ Valid(P, t) /\ SameHosts(s, t) /\ SameTxAuth(s, t) /\ LessRemote(s, t)
<1> DEFINE r == FreshConn(h)
           x == [s.host[h] EXCEPT !.tx = c]
           u == [s EXCEPT !.conn = [s.conn EXCEPT ![c] = r]]
<1>0. s \in Systems(P) /\ (\A d \in Conns : InStep(s.conn[d])) /\ Linked(s) /\ Mirrored(s)
  BY DEF Valid
<1>1. r \in ConnStates /\ r.from = h /\ r.tx = "wait" /\ r.rx = "none" /\ r.list = {}
      /\ Len(r.up) = 0 /\ Len(r.down) = 0
  <2>1. <<>> \in Seq(Messages)
    OBVIOUS
  <2> QED BY <2>1 DEF FreshConn, ConnStates
<1>2. InStep(r)
  <2> HIDE DEF r
  <2> QED BY <1>1 DEF InStep, UpOrdered, DownOrdered, EndsInStep
<1>3. /\ x \in HostStates(P) /\ x.tx = c /\ x.rx = s.host[h].rx /\ x.remote = s.host[h].remote
      /\ x.handles = s.host[h].handles /\ x.peer = s.host[h].peer /\ x.timer = s.host[h].timer
  <2>1. s.host[h] \in HostStates(P)
    BY <1>0, Parts
  <2> QED BY <2>1 DEF HostStates
<1>x. x = [s.host[h] EXCEPT !.tx = c]
  OBVIOUS
<1>4. t = [u EXCEPT !.host = [u.host EXCEPT ![h] = [u.host[h] EXCEPT !.tx = c]]]
  BY DEF WithFresh
<1> HIDE DEF r, x
<1>5. u \in Systems(P) /\ u.host = s.host /\ u.conn = [s.conn EXCEPT ![c] = r]
  BY <1>0, <1>1, Replaced
<1> HIDE DEF u
<1>6. t = [u EXCEPT !.host = [u.host EXCEPT ![h] = x]]
  BY <1>4, <1>5, <1>x
<1>7. t \in Systems(P) /\ t.conn = u.conn /\ t.host = [u.host EXCEPT ![h] = x]
  BY <1>3, <1>5, <1>6, Replaced
<1>8. /\ t.conn[c] = r /\ \A d \in Conns : d # c => t.conn[d] = s.conn[d]
      /\ t.host[h] = x /\ \A g \in Hosts : g # h => t.host[g] = s.host[g]
  BY <1>0, <1>5, <1>7, Parts
<1>9. \A g \in Hosts : s.host[g].tx # c /\ s.host[g].rx # c
  BY <1>0, ConnNumbers DEF Linked
<1>10. Linked(t)
  <2> SUFFICES ASSUME NEW g \in Hosts
               PROVE  /\ t.host[g].tx # NoConn => /\ t.conn[t.host[g].tx].from = g
                                                  /\ t.conn[t.host[g].tx].tx # "closed"
                      /\ t.host[g].rx # NoConn => /\ t.conn[t.host[g].rx].from # g
                                                  /\ t.conn[t.host[g].rx].rx = "auth"
                      /\ \A d \in Conns : t.conn[d].rx = "auth" /\ t.conn[d].from # g
                           => t.host[g].rx = d
    BY DEF Linked
  <2>1. t.host[g].rx = s.host[g].rx /\ s.host[g].rx \in Conns \union {NoConn}
        /\ s.host[g].tx \in Conns \union {NoConn}
    BY <1>0, <1>3, <1>8, Parts
  <2>2. /\ t.host[g].rx # NoConn => /\ t.conn[t.host[g].rx].from # g
                                    /\ t.conn[t.host[g].rx].rx = "auth"
        /\ \A d \in Conns : t.conn[d].rx = "auth" /\ t.conn[d].from # g
             => t.host[g].rx = d
    BY <1>0, <1>1, <1>8, <1>9, <2>1 DEF Linked
  <2>3. t.host[g].tx # NoConn => /\ t.conn[t.host[g].tx].from = g
                                 /\ t.conn[t.host[g].tx].tx # "closed"
    BY <1>0, <1>1, <1>3, <1>8, <1>9, <2>1 DEF Linked
  <2> QED BY <2>2, <2>3
<1>11. Mirrored(t)
  BY <1>0, <1>3, <1>8, <1>9, Parts DEF Mirrored
<1>12. SameHosts(s, t) /\ LessRemote(s, t)
  BY <1>3, <1>8 DEF SameHosts, LessRemote
<1>13. SameTxAuth(s, t)
  BY <1>0, <1>1, <1>3, <1>8, <1>9, Parts, ConnNumbers DEF SameTxAuth, TxAuth
<1> QED BY <1>0, <1>2, <1>7, <1>8, <1>10, <1>11, <1>12, <1>13 DEF Valid

-----------------------------------------------------------------------------
(* The invariant. *)

\* net.timer is set where a peer has to be tried again.
ArmedAt(s, h) == s.host[h].peer # "no" /\ ~TxAuth(s, h) => s.host[h].timer # "off"

\* Peers with and without a list of allowed names.
Mixed(P) == {"any", "deny"} \subseteq P

\* Only a peer that is allowed to is believed, or one that has gone and had no
\* list, which net.timer is about to disconnect.
TrustedAt(P, s, h) ==
  ~Mixed(P) /\ s.host[h].remote # {} =>
    \/ s.host[h].peer \in {"ok", "any"}
    \/ s.host[h].peer = "no" /\ s.host[h].timer # "off" /\ "any" \in P

\* The subscribers are told when a publisher gets within reach.
TellingAt(s, t, h) ==
  ~Reach(s, h) /\ Reach(t, h) /\ s.host[h].handles["subscribe"] > 0
    /\ t.host[h].handles["subscribe"] > 0 => h \in t.told

Ready(P, s) == Valid(P, s) /\ \A h \in Hosts : ArmedAt(s, h) /\ TrustedAt(P, s, h)

Good(P, s, t) == Ready(P, t) /\ \A h \in Hosts : TellingAt(s, t, h)

\* Nothing happens to h that would need net.timer or a word to subscribers.
CalmAt(s, t, h) ==
  /\ t.host[h].peer = s.host[h].peer
  /\ t.host[h].remote \subseteq s.host[h].remote
  /\ s.host[h].timer # "off" => t.host[h].timer # "off"
  /\ TxAuth(t, h) => TxAuth(s, h)
  /\ TxAuth(s, h) => TxAuth(t, h) \/ t.host[h].timer # "off"

\* Such a host stays ready.
LEMMA CalmReady ==
  ASSUME NEW P, NEW s, NEW h, NEW t, ArmedAt(s, h), TrustedAt(P, s, h), CalmAt(s, t, h)
  PROVE  ArmedAt(t, h) /\ TrustedAt(P, t, h) /\ TellingAt(s, t, h)
BY DEF ArmedAt, TrustedAt, CalmAt, TellingAt, Reach

\* Most steps are calm everywhere.
LEMMA CalmStep ==
  ASSUME NEW P, NEW s, Ready(P, s), NEW t, Valid(P, t), SameHosts(s, t), LessRemote(s, t),
         SameTxAuth(s, t)
  PROVE  Good(P, s, t)
<1>1. \A h \in Hosts : CalmAt(s, t, h)
  BY DEF CalmAt, SameHosts, LessRemote, SameTxAuth
<1> QED BY <1>1, CalmReady DEF Ready, Good

\* A step of which something is known for every host.
LEMMA GoodStep ==
  ASSUME NEW P, NEW s, Ready(P, s), NEW t, Valid(P, t),
         \A g \in Hosts : CalmAt(s, t, g) \/ (ArmedAt(t, g) /\ TrustedAt(P, t, g) /\ TellingAt(s, t, g))
  PROVE  Good(P, s, t)
BY CalmReady DEF Ready, Good

\* A good step after one that changes no end is good.
LEMMA AfterSameEnds ==
  ASSUME NEW P, NEW s, NEW u, Ready(P, s), Valid(P, u), SameEnds(s, u)
  PROVE  /\ Ready(P, u)
         /\ \A t : Good(P, u, t) => Good(P, s, t)
<1>1. SameHosts(s, u) /\ LessRemote(s, u) /\ SameTxAuth(s, u) /\ u.host = s.host
  BY SameEndsFacts DEF Ready, Valid, SameEnds
<1>2. Ready(P, u)
  BY <1>1, CalmStep DEF Good
<1>3. \A h \in Hosts : Reach(u, h) <=> Reach(s, h)
  BY <1>1 DEF Reach, SameTxAuth
<1> QED BY <1>1, <1>2, <1>3 DEF Good, TellingAt

\* A change of a host that leaves its entries and its lists alone.
LEMMA HostChange ==
  ASSUME NEW P, NEW s, Valid(P, s), NEW t, t \in Systems(P), t.conn = s.conn,
         \A g \in Hosts : /\ t.host[g].tx = s.host[g].tx /\ t.host[g].rx = s.host[g].rx
                          /\ t.host[g].remote = s.host[g].remote
  PROVE  Valid(P, t) /\ LessRemote(s, t) /\ SameTxAuth(s, t)
<1>1. Linked(t) /\ Mirrored(t)
  BY DEF Valid, Linked, Mirrored
<1>2. SameTxAuth(s, t) /\ LessRemote(s, t)
  BY DEF SameTxAuth, TxAuth, LessRemote
<1> QED BY <1>1, <1>2 DEF Valid

\* The handles of h change.
WithHandles(s, h, kind, n, named) ==
  [s EXCEPT !.host[h].handles[kind] = n, !.host[h].named = named]

\* Clients come and go.
LEMMA HandlesStep ==
  ASSUME NEW P, NEW s, Ready(P, s), NEW h \in Hosts, NEW kind \in Kinds,
         NEW n \in 0 .. MaxHandles, NEW named \in SUBSET Kinds,
         NEW t, t = WithHandles(s, h, kind, n, named)
  PROVE  Good(P, s, t) /\ \A g \in Hosts : CalmAt(s, t, g)
<1> DEFINE f == [s.host[h].handles EXCEPT ![kind] = n]
           y == [s.host[h] EXCEPT !.handles = f]
           x == [y EXCEPT !.named = named]
           u == [s EXCEPT !.host = [s.host EXCEPT ![h] = y]]
<1>0. s \in Systems(P) /\ Valid(P, s)
  BY DEF Valid, Ready
<1>1. /\ y \in HostStates(P) /\ x \in HostStates(P) /\ x.tx = s.host[h].tx /\ x.rx = s.host[h].rx
      /\ x.remote = s.host[h].remote /\ x.peer = s.host[h].peer /\ x.timer = s.host[h].timer
  <2>1. s.host[h] \in HostStates(P) /\ s.host[h].handles \in [Kinds -> 0 .. MaxHandles]
    BY <1>0, Parts
  <2>2. f \in [Kinds -> 0 .. MaxHandles]
    BY <2>1
  <2> HIDE DEF f
  <2>3. /\ y \in HostStates(P) /\ y.tx = s.host[h].tx /\ y.rx = s.host[h].rx
        /\ y.remote = s.host[h].remote /\ y.peer = s.host[h].peer /\ y.timer = s.host[h].timer
    BY <2>1, <2>2 DEF HostStates
  <2> HIDE DEF y
  <2> QED BY <2>3 DEF HostStates
<1>2. t = [u EXCEPT !.host = [u.host EXCEPT ![h] = [u.host[h] EXCEPT !.named = named]]]
  BY DEF WithHandles
<1>x. x = [y EXCEPT !.named = named]
  OBVIOUS
<1> HIDE DEF y, x
<1>3. u \in Systems(P) /\ u.conn = s.conn /\ u.host = [s.host EXCEPT ![h] = y]
  BY <1>0, <1>1, Replaced
<1> HIDE DEF u
<1>4. u.host[h] = y
  BY <1>0, <1>3, Parts
<1>5. t = [u EXCEPT !.host = [u.host EXCEPT ![h] = x]]
  BY <1>2, <1>4, <1>x
<1>6. t \in Systems(P) /\ t.conn = s.conn /\ t.host = [u.host EXCEPT ![h] = x]
  BY <1>1, <1>3, <1>5, Replaced
<1>7. t.host[h] = x /\ \A g \in Hosts : g # h => t.host[g] = s.host[g]
  <2>1. s.host \in [Hosts -> HostStates(P)] /\ u.host \in [Hosts -> HostStates(P)]
    BY <1>0, <1>3, Parts
  <2> QED BY <1>3, <1>6, <2>1
<1>8. Valid(P, t) /\ LessRemote(s, t) /\ SameTxAuth(s, t)
  <2>1. \A g \in Hosts : /\ t.host[g].tx = s.host[g].tx /\ t.host[g].rx = s.host[g].rx
                         /\ t.host[g].remote = s.host[g].remote
    BY <1>1, <1>7
  <2>2. t \in Systems(P) /\ t.conn = s.conn
    BY <1>6
  <2> QED BY <1>0, <2>1, <2>2, HostChange
<1>9. \A g \in Hosts : CalmAt(s, t, g)
  BY <1>1, <1>7, <1>8 DEF CalmAt, LessRemote, SameTxAuth
<1> QED BY <1>8, <1>9, GoodStep

\* Telling subscribers more does no harm.
LEMMA ToldMore ==
  ASSUME NEW P, NEW s, NEW t, Good(P, s, t), NEW h \in Hosts, NEW u, u = HandlePublish(t, h)
  PROVE  Good(P, s, u)
<1>1. Valid(P, t) /\ t \in Systems(P)
  BY DEF Good, Ready, Valid
<1>2. Valid(P, u) /\ u.host = t.host /\ u.conn = t.conn /\ t.told \subseteq u.told
  BY <1>1, HandlePublishStep
<1> QED BY <1>2 DEF Good, Ready, ArmedAt, TrustedAt, TellingAt, Reach, TxAuth

\* Announcing after a step keeps it good.
LEMMA AnnouncedAfter ==
  ASSUME NEW P, NEW s, NEW t, Good(P, s, t), NEW h \in Hosts, NEW kind \in Kinds,
         NEW enabled \in BOOLEAN, NEW u, u = PubsubSet(t, h, kind, enabled)
  PROVE  Good(P, s, u)
<1>1. Valid(P, t) /\ t \in Systems(P)
  BY DEF Good, Ready, Valid
<1>2. Valid(P, u) /\ SameEnds(t, u) /\ u.told = t.told
  BY <1>1, PubsubSetStep
<1>3. SameTxAuth(t, u) /\ u.host = t.host
  BY <1>1, <1>2, SameEndsFacts DEF SameEnds
<1> QED BY <1>2, <1>3 DEF Good, Ready, ArmedAt, TrustedAt, TellingAt, Reach, SameTxAuth

WithCount(s, h, kind, n) == [s EXCEPT !.host[h].handles[kind] = n]

\* A client goes.
LEMMA CountStep ==
  ASSUME NEW P, NEW s, Ready(P, s), NEW h \in Hosts, NEW kind \in Kinds,
         NEW n \in 0 .. MaxHandles, NEW t, t = WithCount(s, h, kind, n)
  PROVE  Good(P, s, t)
<1> DEFINE f == [s.host[h].handles EXCEPT ![kind] = n]
           y == [s.host[h] EXCEPT !.handles = f]
<1>0. s \in Systems(P) /\ Valid(P, s)
  BY DEF Valid, Ready
<1>1. /\ y \in HostStates(P) /\ y.tx = s.host[h].tx /\ y.rx = s.host[h].rx
      /\ y.remote = s.host[h].remote /\ y.peer = s.host[h].peer /\ y.timer = s.host[h].timer
  <2>1. s.host[h] \in HostStates(P) /\ s.host[h].handles \in [Kinds -> 0 .. MaxHandles]
    BY <1>0, Parts
  <2>2. f \in [Kinds -> 0 .. MaxHandles]
    BY <2>1
  <2> HIDE DEF f
  <2> QED BY <2>1, <2>2 DEF HostStates
<1>2. t = [s EXCEPT !.host = [s.host EXCEPT ![h] = y]]
  BY DEF WithCount
<1> HIDE DEF y
<1>3. t \in Systems(P) /\ t.conn = s.conn /\ t.host = [s.host EXCEPT ![h] = y]
  BY <1>0, <1>1, <1>2, Replaced
<1>4. t.host[h] = y /\ \A g \in Hosts : g # h => t.host[g] = s.host[g]
  BY <1>0, <1>3, Parts
<1>5. Valid(P, t) /\ LessRemote(s, t) /\ SameTxAuth(s, t)
  <2>1. \A g \in Hosts : /\ t.host[g].tx = s.host[g].tx /\ t.host[g].rx = s.host[g].rx
                         /\ t.host[g].remote = s.host[g].remote
    BY <1>1, <1>4
  <2>2. t \in Systems(P) /\ t.conn = s.conn
    BY <1>3
  <2> QED BY <1>0, <2>1, <2>2, HostChange
<1>6. \A g \in Hosts : CalmAt(s, t, g)
  BY <1>1, <1>4, <1>5 DEF CalmAt, LessRemote, SameTxAuth
<1> QED BY <1>5, <1>6, GoodStep

-----------------------------------------------------------------------------
(* The actions, as functions from systems to systems. *)

\* client_pubsub, with pubsub_add.
LEMMA AddsGood ==
  ASSUME NEW P, NEW s, Ready(P, s), NEW h \in Hosts, NEW kind \in Kinds,
         NEW n \in 0 .. MaxHandles, NEW named \in SUBSET Kinds,
         NEW u, u = PubsubSet(s, h, kind, TRUE) \/ u = s,
         NEW v, v = WithHandles(u, h, kind, n, named),
         NEW t, t = HandlePublish(v, h) \/ t = v
  PROVE  Good(P, s, t)
<1>1. Valid(P, s) /\ s \in Systems(P)
  BY DEF Ready, Valid
<1>2. Valid(P, u) /\ SameEnds(s, u)
  <2>1. Valid(P, s) /\ SameEnds(s, s)
    BY <1>1 DEF SameEnds
  <2>2. CASE u = PubsubSet(s, h, kind, TRUE)
    BY <1>1, <2>2, PubsubSetStep
  <2> QED BY <2>1, <2>2
<1>3. Ready(P, u) /\ \A w : Good(P, u, w) => Good(P, s, w)
  BY <1>2, AfterSameEnds
<1>4. Good(P, u, v)
  BY <1>3, HandlesStep
<1>5. Good(P, s, v)
  BY <1>3, <1>4
<1>6. CASE t = HandlePublish(v, h)
  BY <1>5, <1>6, ToldMore
<1> QED BY <1>5, <1>6

\* client_disconnect, with pubsub_del.
LEMMA LeavesGood ==
  ASSUME NEW P, NEW s, Ready(P, s), NEW h \in Hosts, NEW kind \in Kinds,
         NEW n \in 0 .. MaxHandles, NEW e \in BOOLEAN,
         NEW u, u = HandlePublish(s, h) \/ u = s, NEW v, v = WithCount(u, h, kind, n),
         NEW t, t = PubsubSet(v, h, kind, e) \/ t = v
  PROVE  Good(P, s, t)
<1>1. Valid(P, s) /\ s \in Systems(P)
  BY DEF Ready, Valid
<1>2. Valid(P, u) /\ SameEnds(s, u)
  BY <1>1, HandlePublishStep DEF SameEnds
<1>3. Ready(P, u) /\ \A w : Good(P, u, w) => Good(P, s, w)
  BY <1>2, AfterSameEnds
<1>4. Good(P, u, v)
  BY <1>3, CountStep
<1>5. Good(P, s, v)
  BY <1>3, <1>4
<1>6. CASE t = PubsubSet(v, h, kind, e)
  BY <1>5, <1>6, AnnouncedAfter
<1> QED BY <1>5, <1>6

\* net.timer, for a peer that is gone.
LEMMA TimerGoneGood ==
  ASSUME NEW P, NEW s, Ready(P, s), NEW h \in Hosts, s.host[h].peer = "no",
         NEW u, u = Arm(s, h, "off"),
         NEW ends, "tx" \in ends, "rx" \in ends, NEW t, t = CloseEntries(u, h, ends)
  PROVE  Good(P, s, t)
<1>1. Valid(P, s)
  BY DEF Ready
<1>2. /\ Valid(P, u) /\ SameTxAuth(s, u)
      /\ \A g \in Hosts : /\ g # h => u.host[g].timer = s.host[g].timer
                          /\ u.host[g].peer = s.host[g].peer
                          /\ u.host[g].remote = s.host[g].remote
  BY <1>1, ArmStep
<1>3. /\ Valid(P, t) /\ SameHosts(u, t) /\ LessRemote(u, t)
      /\ SameTxAuthBut(u, t, h) /\ (TxAuth(t, h) => TxAuth(u, h)) /\ t.host[h].rx = NoConn
  BY <1>2, CloseEntriesStep
<1>4. t.host[h].remote = {}
  BY <1>3 DEF Valid, Mirrored
<1>5. t.host[h].peer = "no"
  BY <1>2, <1>3 DEF SameHosts
<1>6. ArmedAt(t, h) /\ TrustedAt(P, t, h) /\ TellingAt(s, t, h)
  BY <1>4, <1>5 DEF ArmedAt, TrustedAt, TellingAt, Reach
<1>7. \A g \in Hosts : g # h => CalmAt(s, t, g)
  BY <1>2, <1>3 DEF CalmAt, SameHosts, LessRemote, SameTxAuth, SameTxAuthBut
<1> QED BY <1>3, <1>6, <1>7, GoodStep

\* net.timer, for a peer that is connected.
LEMMA TimerDoneGood ==
  ASSUME NEW P, NEW s, Ready(P, s), NEW h \in Hosts, s.host[h].peer # "no", TxAuth(s, h),
         NEW t, t = Arm(s, h, "off")
  PROVE  Good(P, s, t)
<1>1. Valid(P, s)
  BY DEF Ready
<1>2. /\ Valid(P, t) /\ SameTxAuth(s, t)
      /\ \A g \in Hosts : /\ g # h => t.host[g].timer = s.host[g].timer
                          /\ t.host[g].peer = s.host[g].peer
                          /\ t.host[g].remote = s.host[g].remote
  BY <1>1, ArmStep
<1>3. ArmedAt(t, h) /\ TrustedAt(P, t, h) /\ TellingAt(s, t, h)
  BY <1>2 DEF Ready, ArmedAt, TrustedAt, TellingAt, Reach, SameTxAuth
<1>4. \A g \in Hosts : g # h => CalmAt(s, t, g)
  BY <1>2 DEF CalmAt, SameTxAuth
<1> QED BY <1>2, <1>3, <1>4, GoodStep

\* net.timer, for a peer to connect to.
LEMMA TimerOpensGood ==
  ASSUME NEW P, NEW s, Ready(P, s), NEW h \in Hosts,
         NEW c \in Conns, s.conn[c].tx = "closed", s.conn[c].rx = "closed",
         NEW u, u = Arm(s, h, "off"),
         NEW ends, "tx" \in ends, "rx" \notin ends, NEW v, v = CloseEntries(u, h, ends),
         NEW w, w = WithFresh(v, h, c), NEW t, t = Arm(w, h, "long")
  PROVE  Good(P, s, t)
<1>1. Valid(P, s) /\ Linked(s)
  BY DEF Ready, Valid
<1>2. /\ Valid(P, u) /\ SameTxAuth(s, u) /\ u.conn = s.conn
      /\ \A g \in Hosts : /\ g # h => u.host[g].timer = s.host[g].timer
                          /\ u.host[g].peer = s.host[g].peer
                          /\ u.host[g].remote = s.host[g].remote
                          /\ u.host[g].tx = s.host[g].tx
  BY <1>1, ArmStep
<1>3. c # u.host[h].tx
  BY <1>1, <1>2, ConnNumbers DEF Linked
<1>4. /\ Valid(P, v) /\ SameHosts(u, v) /\ LessRemote(u, v)
      /\ SameTxAuthBut(u, v, h) /\ (TxAuth(v, h) => TxAuth(u, h)) /\ v.host[h].tx = NoConn
      /\ v.conn[c] = u.conn[c]
  BY <1>2, <1>3, CloseEntriesStep
<1>5. Valid(P, w) /\ SameHosts(v, w) /\ SameTxAuth(v, w) /\ LessRemote(v, w)
  <2>1. Valid(P, v) /\ v.host[h].tx = NoConn /\ v.conn[c].tx = "closed" /\ v.conn[c].rx = "closed"
    BY <1>2, <1>4
  <2> QED BY <2>1, FreshStep
<1>6. /\ Valid(P, t) /\ SameTxAuth(w, t) /\ t.host[h].timer = "long"
      /\ \A g \in Hosts : /\ g # h => t.host[g].timer = w.host[g].timer
                          /\ t.host[g].peer = w.host[g].peer
                          /\ t.host[g].remote = w.host[g].remote
  BY <1>5, ArmStep
<1>7. ASSUME NEW g \in Hosts PROVE CalmAt(s, t, g)
  <2>1. t.host[g].peer = s.host[g].peer /\ t.host[g].remote \subseteq s.host[g].remote
    BY <1>2, <1>4, <1>5, <1>6 DEF SameHosts, LessRemote
  <2>2. s.host[g].timer # "off" => t.host[g].timer # "off"
    BY <1>2, <1>4, <1>5, <1>6 DEF SameHosts
  <2>3. (TxAuth(t, g) => TxAuth(s, g)) /\ (g # h => (TxAuth(s, g) => TxAuth(t, g)))
    BY <1>2, <1>4, <1>5, <1>6 DEF SameTxAuth, SameTxAuthBut
  <2> QED BY <1>6, <2>1, <2>2, <2>3 DEF CalmAt
<1> QED BY <1>6, <1>7, GoodStep

\* network_accept, for an address that is not of a peer, and the timer of a
\* connection that has not been authenticated.
LEMMA CloseRxGood ==
  ASSUME NEW P, NEW s, Ready(P, s), NEW c \in Conns, s.conn[c].rx # "auth",
         NEW t, t = CloseRx(s, c)
  PROVE  Good(P, s, t)
<1> DEFINE h == Other(s.conn[c].from)
<1>1. Valid(P, s) /\ s \in Systems(P) /\ Linked(s)
  BY DEF Ready, Valid
<1>2. h \in Hosts /\ s.conn[c].from # h /\ s.host[h].rx # c
  <2>1. h \in Hosts /\ s.conn[c].from # h
    BY <1>1, Parts, OtherHost
  <2> HIDE DEF h
  <2> QED BY <1>1, <2>1, ConnNumbers DEF Linked
<1> HIDE DEF h
<1>3. t = RxSocketClose(s, h, c)
  BY <1>2 DEF RxSocketClose
<1>4. Valid(P, t) /\ SameHosts(s, t) /\ LessRemote(s, t) /\ SameTxAuth(s, t)
  BY <1>1, <1>2, <1>3, RxSocketCloseStep
<1> QED BY <1>4, CalmStep

\* network_rx_socket_close.
LEMMA RxCloseGood ==
  ASSUME NEW P, NEW s, Ready(P, s), NEW c \in Conns, NEW h \in Hosts, s.conn[c].from # h,
         NEW t, t = RxSocketClose(s, h, c)
  PROVE  Good(P, s, t)
<1>1. Valid(P, s)
  BY DEF Ready
<1>2. Valid(P, t) /\ SameHosts(s, t) /\ LessRemote(s, t) /\ SameTxAuth(s, t)
  BY <1>1, RxSocketCloseStep
<1> QED BY <1>2, CalmStep

\* network_tx_socket_close, of a connection that is not authenticated.
LEMMA TxCloseGood ==
  ASSUME NEW P, NEW s, Ready(P, s), NEW c \in Conns, NEW h \in Hosts, s.conn[c].from = h,
         s.conn[c].tx # "auth", NEW t, t = TxSocketClose(s, h, c)
  PROVE  Good(P, s, t)
<1>1. Valid(P, s)
  BY DEF Ready
<1>2. Valid(P, t) /\ SameHosts(s, t) /\ LessRemote(s, t) /\ SameTxAuth(s, t)
  BY <1>1, TxSocketCloseStep
<1> QED BY <1>2, CalmStep

\* disconnect_cb.
LEMMA DisconnectedGood ==
  ASSUME NEW P, NEW s, Ready(P, s), NEW c \in Conns, NEW h \in Hosts, s.conn[c].from = h,
         NEW t, t = TxDisconnected(s, h, c)
  PROVE  Good(P, s, t)
<1>1. Valid(P, s)
  BY DEF Ready
<1>2. /\ Valid(P, t) /\ LessRemote(s, t) /\ SameTxAuthBut(s, t, h)
      /\ TxAuth(t, h) => TxAuth(s, h)
      /\ \A g \in Hosts : /\ t.host[g].handles = s.host[g].handles
                          /\ t.host[g].peer = s.host[g].peer
                          /\ s.host[g].timer # "off" \/ g = h => t.host[g].timer # "off"
  BY <1>1, TxDisconnectedStep
<1>3. ASSUME NEW g \in Hosts PROVE CalmAt(s, t, g)
  <2>1. t.host[g].peer = s.host[g].peer /\ t.host[g].remote \subseteq s.host[g].remote
    BY <1>2 DEF LessRemote
  <2>2. (s.host[g].timer # "off" => t.host[g].timer # "off") /\ (g = h => t.host[g].timer # "off")
    BY <1>2
  <2>3. (TxAuth(t, g) => TxAuth(s, g)) /\ (g # h => (TxAuth(s, g) => TxAuth(t, g)))
    BY <1>2 DEF SameTxAuthBut
  <2> QED BY <2>1, <2>2, <2>3 DEF CalmAt
<1> QED BY <1>2, <1>3, GoodStep

\* auth_data_cb.
LEMMA AuthenticatedGood ==
  ASSUME NEW P, NEW s, Ready(P, s), NEW c \in Conns, NEW h \in Hosts, s.conn[c].from = h,
         s.conn[c].tx = "asked", s.conn[c].rx \in {"auth", "closed"},
         \A i \in 1 .. Len(s.conn[c].down) : s.conn[c].down[i].kind = "eof",
         NEW t, t = TxAuthenticated(s, h, c)
  PROVE  Good(P, s, t)
<1>1. Valid(P, s) /\ ArmedAt(s, h) /\ TrustedAt(P, s, h)
  BY DEF Ready
<1>2. /\ Valid(P, t) /\ SameHosts(s, t) /\ LessRemote(s, t)
      /\ SameTxAuthBut(s, t, h)
      /\ TxAuth(s, h) => TxAuth(t, h)
      /\ "publish" \in s.host[h].remote /\ s.host[h].handles["subscribe"] > 0 => h \in t.told
  BY <1>1, TxAuthenticatedStep
<1>3. ArmedAt(t, h) /\ TrustedAt(P, t, h)
  BY <1>1, <1>2 DEF ArmedAt, TrustedAt, SameHosts, LessRemote
<1>4. TellingAt(s, t, h)
  BY <1>2 DEF TellingAt, Reach, LessRemote
<1>5. \A g \in Hosts : g # h => CalmAt(s, t, g)
  BY <1>2 DEF CalmAt, SameHosts, LessRemote, SameTxAuthBut
<1> QED BY <1>2, <1>3, <1>4, <1>5, GoodStep

\* network_check_auth.
LEMMA AcceptedGood ==
  ASSUME NEW P, NEW s, Ready(P, s), NEW c \in Conns, NEW h \in Hosts, s.conn[c].from # h,
         s.conn[c].rx = "hello", s.conn[c].tx \in {"asked", "closed"},
         \A i \in 1 .. Len(s.conn[c].up) : s.conn[c].up[i].kind # "auth",
         NEW answer \in {"reply", "refuse"}, NEW t, t = RxAuthenticated(s, h, c, answer)
  PROVE  Good(P, s, t)
<1>1. Valid(P, s)
  BY DEF Ready
<1>2. /\ Valid(P, t) /\ LessRemote(s, t) /\ SameTxAuth(s, t)
      /\ \A g \in Hosts : /\ t.host[g].handles = s.host[g].handles
                          /\ t.host[g].peer = s.host[g].peer
                          /\ s.host[g].timer # "off" => t.host[g].timer # "off"
  BY <1>1, RxAuthenticatedStep
<1>3. \A g \in Hosts : CalmAt(s, t, g)
  BY <1>2 DEF CalmAt, LessRemote, SameTxAuth
<1> QED BY <1>2, <1>3, GoodStep

\* network_socket_handle_request, enabled.
LEMMA EnableGood ==
  ASSUME NEW P, NEW s, Ready(P, s), NEW c \in Conns, NEW h \in Hosts, s.conn[c].from # h,
         s.conn[c].rx = "auth", P \subseteq {"no", "deny", "ok", "any"},
         NEW kind \in Kinds, NEW t, t = RxEnable(s, h, c, kind)
  PROVE  Good(P, s, t)
<1>1. Valid(P, s) /\ s \in Systems(P) /\ ArmedAt(s, h) /\ TrustedAt(P, s, h)
  BY DEF Ready, Valid
<1>2. /\ Valid(P, t) /\ SameHosts(s, t) /\ SameTxAuth(s, t)
      /\ \A g \in Hosts : g # h => t.host[g] = s.host[g]
      /\ \/ t.host[h].remote = s.host[h].remote
         \/ /\ s.host[h].peer \notin {"no", "deny"}
            /\ t.host[h].remote = s.host[h].remote \union {kind}
            /\ kind = "publish" /\ TxAuth(s, h) /\ s.host[h].handles["subscribe"] > 0
                 => h \in t.told
  BY <1>1, RxEnableStep
<1>3. \A g \in Hosts : g # h => CalmAt(s, t, g)
  BY <1>2 DEF CalmAt, SameHosts, SameTxAuth
<1>4. CASE t.host[h].remote = s.host[h].remote
  <2>1. CalmAt(s, t, h)
    BY <1>2, <1>4 DEF CalmAt, SameHosts, SameTxAuth
  <2> QED BY <1>2, <1>3, <2>1, GoodStep
<1>5. CASE /\ s.host[h].peer \notin {"no", "deny"}
           /\ t.host[h].remote = s.host[h].remote \union {kind}
           /\ kind = "publish" /\ TxAuth(s, h) /\ s.host[h].handles["subscribe"] > 0
                => h \in t.told
  <2>1. ArmedAt(t, h)
    BY <1>1, <1>2 DEF ArmedAt, SameHosts, SameTxAuth
  <2>2. s.host[h].peer \in P
    BY <1>1, Parts
  <2>3. P \subseteq {"no", "deny", "ok", "any"} => TrustedAt(P, t, h)
    BY <1>2, <1>5, <2>2 DEF TrustedAt, SameHosts
  <2>4. TellingAt(s, t, h)
    BY <1>2, <1>5 DEF TellingAt, Reach, SameTxAuth
  <2> QED BY <1>2, <1>3, <2>1, <2>3, <2>4, GoodStep
<1> QED BY <1>2, <1>4, <1>5

\* network_socket_handle_request, not enabled.
LEMMA DisableGood ==
  ASSUME NEW P, NEW s, Ready(P, s), NEW c \in Conns, NEW h \in Hosts, s.conn[c].from # h,
         s.conn[c].rx = "auth", NEW kind \in Kinds, NEW t, t = RxDisable(s, h, c, kind)
  PROVE  Good(P, s, t)
<1>1. Valid(P, s)
  BY DEF Ready
<1>2. Valid(P, t) /\ SameHosts(s, t) /\ SameTxAuth(s, t) /\ LessRemote(s, t)
  BY <1>1, RxDisableStep
<1> QED BY <1>2, CalmStep

WithPeer(s, h, peer) == [s EXCEPT !.host[h].peer = peer]

\* unetd says something else of the peer.
LEMMA PeerStep ==
  ASSUME NEW P, NEW s, Valid(P, s), NEW h \in Hosts, NEW peer \in P,
         NEW t, t = WithPeer(s, h, peer)
  PROVE  /\ Valid(P, t) /\ LessRemote(s, t) /\ SameTxAuth(s, t)
         /\ t.host[h].peer = peer
         /\ \A g \in Hosts : /\ g # h => t.host[g].peer = s.host[g].peer
                             /\ t.host[g].timer = s.host[g].timer
<1> DEFINE y == [s.host[h] EXCEPT !.peer = peer]
<1>0. s \in Systems(P)
  BY DEF Valid
<1>1. /\ y \in HostStates(P) /\ y.tx = s.host[h].tx /\ y.rx = s.host[h].rx
      /\ y.remote = s.host[h].remote /\ y.peer = peer /\ y.timer = s.host[h].timer
  <2>1. s.host[h] \in HostStates(P)
    BY <1>0, Parts
  <2> QED BY <2>1 DEF HostStates
<1>2. t = [s EXCEPT !.host = [s.host EXCEPT ![h] = y]]
  BY DEF WithPeer
<1> HIDE DEF y
<1>3. t \in Systems(P) /\ t.conn = s.conn /\ t.host = [s.host EXCEPT ![h] = y]
  BY <1>0, <1>1, <1>2, Replaced
<1>4. t.host[h] = y /\ \A g \in Hosts : g # h => t.host[g] = s.host[g]
  BY <1>0, <1>3, Parts
<1>5. Valid(P, t) /\ LessRemote(s, t) /\ SameTxAuth(s, t)
  <2>1. \A g \in Hosts : /\ t.host[g].tx = s.host[g].tx /\ t.host[g].rx = s.host[g].rx
                         /\ t.host[g].remote = s.host[g].remote
    BY <1>1, <1>4
  <2>2. t \in Systems(P) /\ t.conn = s.conn
    BY <1>3
  <2> QED BY <2>1, <2>2, HostChange
<1> QED BY <1>1, <1>4, <1>5

\* network_update, for a peer.
LEMMA UpdateGood ==
  ASSUME NEW P, P \subseteq {"no", "deny", "ok", "any"},
         NEW s, Ready(P, s), NEW h \in Hosts, NEW peer \in P,
         NEW ends,
         \/ "rx" \in ends
         \/ s.host[h].peer = "no" \/ Allowed(s.host[h].peer) = Allowed(peer),
         NEW u, u = CloseEntries(s, h, ends),
         NEW v, v = WithPeer(u, h, peer), NEW t, t = Arm(v, h, "short")
  PROVE  Good(P, s, t)
<1>1. Valid(P, s) /\ s \in Systems(P) /\ TrustedAt(P, s, h)
  BY DEF Ready, Valid
<1>2. /\ Valid(P, u) /\ SameHosts(s, u) /\ LessRemote(s, u) /\ SameTxAuthBut(s, u, h)
      /\ (TxAuth(u, h) => TxAuth(s, h)) /\ ("rx" \in ends => u.host[h].rx = NoConn)
  BY <1>1, CloseEntriesStep
<1>3. /\ Valid(P, v) /\ LessRemote(u, v) /\ SameTxAuth(u, v) /\ v.host[h].peer = peer
      /\ \A g \in Hosts : /\ g # h => v.host[g].peer = u.host[g].peer
                          /\ v.host[g].timer = u.host[g].timer
  BY <1>2, PeerStep
<1>4. /\ Valid(P, t) /\ SameTxAuth(v, t) /\ t.host[h].timer = "short"
      /\ \A g \in Hosts : /\ g # h => t.host[g].timer = v.host[g].timer
                          /\ t.host[g].peer = v.host[g].peer
                          /\ t.host[g].remote = v.host[g].remote
  BY <1>3, ArmStep
<1>5. t.host[h].peer = peer
  BY <1>3, <1>4
<1>6. t.host[h].remote \subseteq s.host[h].remote
  BY <1>2, <1>3, <1>4 DEF LessRemote
<1>7. (TxAuth(t, h) => TxAuth(s, h))
  BY <1>2, <1>3, <1>4 DEF SameTxAuth
<1>8. ArmedAt(t, h) /\ TellingAt(s, t, h)
  BY <1>4, <1>6, <1>7 DEF ArmedAt, TellingAt, Reach
<1>9. TrustedAt(P, t, h)
  <2>1. CASE "rx" \in ends
    <3>1. u.host[h].remote = {}
      BY <1>2, <2>1 DEF Valid, Mirrored
    <3>2. t.host[h].remote = {}
      BY <1>3, <1>4, <3>1 DEF LessRemote
    <3> QED BY <3>2 DEF TrustedAt
  <2>2. CASE s.host[h].peer = "no"
    <3>1. ~Mixed(P) /\ t.host[h].remote # {} => "any" \in P
      BY <1>1, <1>6, <2>2 DEF TrustedAt
    <3>2. CASE peer = "no"
      BY <1>4, <1>5, <3>1, <3>2 DEF TrustedAt
    <3>3. CASE peer = "deny"
      BY <3>1, <3>3 DEF TrustedAt, Mixed
    <3>4. CASE peer \in {"ok", "any"}
      BY <1>5, <3>4 DEF TrustedAt
    <3> QED BY <3>2, <3>3, <3>4
  <2>3. CASE s.host[h].peer # "no" /\ Allowed(s.host[h].peer) = Allowed(peer)
    <3>1. s.host[h].peer \in P
      BY <1>1, Parts
    <3>2. CASE peer \in {"ok", "any"}
      BY <1>5, <3>2 DEF TrustedAt
    <3>3. CASE peer = "deny"
      <4>1. s.host[h].peer = "deny"
        BY <2>3, <3>1, <3>3 DEF Allowed
      <4> QED BY <1>1, <1>6, <4>1 DEF TrustedAt
    <3>4. CASE peer = "no"
      <4>1. s.host[h].peer = "any"
        BY <2>3, <3>1, <3>4 DEF Allowed
      <4> QED BY <1>4, <1>5, <3>1, <3>4, <4>1 DEF TrustedAt
    <3> QED BY <3>2, <3>3, <3>4
  <2> QED BY <2>1, <2>2, <2>3
<1>10. ASSUME NEW g \in Hosts, g # h PROVE CalmAt(s, t, g)
  <2>1. t.host[g].peer = s.host[g].peer /\ t.host[g].timer = s.host[g].timer
    BY <1>2, <1>3, <1>4, <1>10 DEF SameHosts
  <2>2. t.host[g].remote \subseteq s.host[g].remote
    BY <1>2, <1>3, <1>4 DEF LessRemote
  <2>3. TxAuth(t, g) <=> TxAuth(s, g)
    BY <1>2, <1>3, <1>4, <1>10 DEF SameTxAuth, SameTxAuthBut
  <2> QED BY <2>1, <2>2, <2>3 DEF CalmAt
<1> QED BY <1>4, <1>8, <1>9, <1>10, GoodStep

\* network_close and network_open.
LEMMA ReopenGood ==
  ASSUME NEW P, NEW s, Ready(P, s), NEW h \in Hosts, NEW ends,
         NEW u, u = CloseEntries(s, h, ends), NEW t, t = Arm(u, h, "short")
  PROVE  Good(P, s, t)
<1>1. Valid(P, s)
  BY DEF Ready
<1>2. /\ Valid(P, u) /\ SameHosts(s, u) /\ LessRemote(s, u) /\ SameTxAuthBut(s, u, h)
      /\ (TxAuth(u, h) => TxAuth(s, h))
  BY <1>1, CloseEntriesStep
<1>3. /\ Valid(P, t) /\ SameTxAuth(u, t) /\ t.host[h].timer = "short"
      /\ \A g \in Hosts : /\ g # h => t.host[g].timer = u.host[g].timer
                          /\ t.host[g].peer = u.host[g].peer
                          /\ t.host[g].remote = u.host[g].remote
  BY <1>2, ArmStep
<1>4. ASSUME NEW g \in Hosts PROVE CalmAt(s, t, g)
  <2>1. t.host[g].peer = s.host[g].peer /\ t.host[g].remote \subseteq s.host[g].remote
    BY <1>2, <1>3 DEF SameHosts, LessRemote
  <2>2. (s.host[g].timer # "off" => t.host[g].timer # "off") /\ (g = h => t.host[g].timer # "off")
    BY <1>2, <1>3 DEF SameHosts
  <2>3. (TxAuth(t, g) => TxAuth(s, g)) /\ (g # h => (TxAuth(s, g) => TxAuth(t, g)))
    BY <1>2, <1>3 DEF SameTxAuth, SameTxAuthBut
  <2> QED BY <2>1, <2>2, <2>3 DEF CalmAt
<1> QED BY <1>3, <1>4, GoodStep

\* The connections of a host that is restarted.
Ended(r, h) ==
  IF r.from = h THEN IF r.tx = "closed" THEN r ELSE TxClosed(r)
  ELSE IF r.rx \in {"none", "closed"} THEN r ELSE RxClosed(r)

\* Such an end closes the connection in an orderly way.
LEMMA EndedFacts ==
  ASSUME NEW r \in ConnStates, InStep(r), NEW h
  PROVE  /\ Ended(r, h) \in ConnStates /\ InStep(Ended(r, h)) /\ Ended(r, h).from = r.from
         /\ r.from = h => Ended(r, h).rx = r.rx /\ Ended(r, h).list = r.list
         /\ r.from # h => Ended(r, h).tx = r.tx /\ Ended(r, h).rx # "auth"
<1>1. CASE r.from = h
  BY <1>1, TxClosedInStep DEF Ended
<1>2. CASE r.from # h
  BY <1>2, RxClosedInStep DEF Ended
<1> QED BY <1>1, <1>2

\* A host is restarted.
LEMMA RestartGood ==
  ASSUME NEW P, NEW s, Ready(P, s), NEW h \in Hosts,
         NEW t, t.host = [s.host EXCEPT ![h] = NewHost(s.host[h].peer)],
         t.conn = [c \in Conns |-> Ended(s.conn[c], h)], t \in Systems(P)
  PROVE  Good(P, s, t)
<1> DEFINE x == NewHost(s.host[h].peer)
<1>1. Valid(P, s) /\ s \in Systems(P) /\ Linked(s) /\ Mirrored(s) /\ \A c \in Conns : InStep(s.conn[c])
  BY DEF Ready, Valid
<1>2. x.tx = NoConn /\ x.rx = NoConn /\ x.remote = {} /\ x.timer = "short"
  BY DEF NewHost
<1>3. t.host[h] = x /\ \A g \in Hosts : g # h => t.host[g] = s.host[g]
  BY <1>1, Parts
<1> HIDE DEF x
<1>4. \A c \in Conns : /\ t.conn[c] \in ConnStates /\ InStep(t.conn[c])
                       /\ t.conn[c].from = s.conn[c].from
                       /\ s.conn[c].from = h => /\ t.conn[c].rx = s.conn[c].rx
                                                /\ t.conn[c].list = s.conn[c].list
                       /\ s.conn[c].from # h => /\ t.conn[c].tx = s.conn[c].tx
                                                /\ t.conn[c].rx # "auth"
  <2> SUFFICES ASSUME NEW c \in Conns
               PROVE  /\ t.conn[c] \in ConnStates /\ InStep(t.conn[c])
                      /\ t.conn[c].from = s.conn[c].from
                      /\ s.conn[c].from = h => /\ t.conn[c].rx = s.conn[c].rx
                                               /\ t.conn[c].list = s.conn[c].list
                      /\ s.conn[c].from # h => /\ t.conn[c].tx = s.conn[c].tx
                                               /\ t.conn[c].rx # "auth"
    OBVIOUS
  <2>1. t.conn[c] = Ended(s.conn[c], h)
    OBVIOUS
  <2>2. s.conn[c] \in ConnStates /\ InStep(s.conn[c])
    BY <1>1, Parts
  <2>3. /\ Ended(s.conn[c], h) \in ConnStates /\ InStep(Ended(s.conn[c], h))
        /\ Ended(s.conn[c], h).from = s.conn[c].from
        /\ s.conn[c].from = h => /\ Ended(s.conn[c], h).rx = s.conn[c].rx
                                 /\ Ended(s.conn[c], h).list = s.conn[c].list
        /\ s.conn[c].from # h => /\ Ended(s.conn[c], h).tx = s.conn[c].tx
                                 /\ Ended(s.conn[c], h).rx # "auth"
    BY <2>2, EndedFacts
  <2> QED BY <2>1, <2>3
<1>5. \A g \in Hosts : g # h => /\ s.host[g].tx \in Conns \union {NoConn}
                                /\ s.host[g].rx \in Conns \union {NoConn}
                                /\ \A f \in Hosts : f # g => f = h
  BY <1>1, Parts, OtherHost
<1>6. \A c \in Conns : s.conn[c].from \in Hosts
  BY <1>1, Parts
<1>7. Linked(t)
  <2>1. ASSUME NEW g \in Hosts, g # h, s.host[g].tx # NoConn
        PROVE  t.conn[s.host[g].tx].from = g /\ t.conn[s.host[g].tx].tx # "closed"
    BY <1>1, <1>4, <1>5, <2>1 DEF Linked
  <2>2. ASSUME NEW g \in Hosts, g # h, s.host[g].rx # NoConn
        PROVE  t.conn[s.host[g].rx].from # g /\ t.conn[s.host[g].rx].rx = "auth"
    BY <1>1, <1>4, <1>5, <1>6, <2>2 DEF Linked
  <2>3. ASSUME NEW g \in Hosts, g # h, NEW c \in Conns, t.conn[c].rx = "auth", t.conn[c].from # g
        PROVE  s.host[g].rx = c
    BY <1>1, <1>4, <1>5, <1>6, <2>3 DEF Linked
  <2>4. ASSUME NEW c \in Conns, t.conn[c].rx = "auth", t.conn[c].from # h
        PROVE  FALSE
    BY <1>4, <2>4
  <2>5. ASSUME NEW g \in Hosts, g # h
        PROVE  /\ t.host[g].tx # NoConn => /\ t.conn[t.host[g].tx].from = g
                                           /\ t.conn[t.host[g].tx].tx # "closed"
               /\ t.host[g].rx # NoConn => /\ t.conn[t.host[g].rx].from # g
                                           /\ t.conn[t.host[g].rx].rx = "auth"
               /\ \A c \in Conns : t.conn[c].rx = "auth" /\ t.conn[c].from # g => t.host[g].rx = c
    <3>1. t.host[g] = s.host[g]
      BY <1>3, <2>5
    <3> QED BY <2>1, <2>2, <2>3, <2>5, <3>1
  <2>6. t.host[h].tx = NoConn /\ t.host[h].rx = NoConn
    BY <1>2, <1>3
  <2> QED BY <2>4, <2>5, <2>6 DEF Linked
<1>8. Mirrored(t)
  <2>1. ASSUME NEW g \in Hosts, g # h, s.host[g].rx # NoConn
        PROVE  t.conn[s.host[g].rx].list = s.conn[s.host[g].rx].list
    BY <1>1, <1>4, <1>5, <1>6, <2>1 DEF Linked
  <2>2. ASSUME NEW g \in Hosts, g # h
        PROVE  t.host[g].remote = IF t.host[g].rx = NoConn THEN {} ELSE t.conn[t.host[g].rx].list
    <3>1. t.host[g] = s.host[g]
      BY <1>3, <2>2
    <3> QED BY <1>1, <2>1, <2>2, <3>1 DEF Mirrored
  <2>3. t.host[h].rx = NoConn /\ t.host[h].remote = {}
    BY <1>2, <1>3
  <2> QED BY <2>2, <2>3 DEF Mirrored
<1>9. Valid(P, t)
  BY <1>4, <1>7, <1>8 DEF Valid
<1>10. ASSUME NEW g \in Hosts, g # h PROVE CalmAt(s, t, g)
  <2>1. TxAuth(t, g) <=> TxAuth(s, g)
    BY <1>1, <1>3, <1>4, <1>5, <1>10 DEF TxAuth, Linked
  <2> QED BY <1>3, <1>10, <2>1 DEF CalmAt
<1>11. ArmedAt(t, h) /\ TrustedAt(P, t, h) /\ TellingAt(s, t, h)
  BY <1>2, <1>3 DEF ArmedAt, TrustedAt, TellingAt, Reach
<1> QED BY <1>9, <1>10, <1>11, GoodStep

WithQueues(r, up, down) == [r EXCEPT !.up = up, !.down = down]

\* What is on its way is lost.
LEMMA LostInStep ==
  ASSUME NEW r \in ConnStates, InStep(r), NEW up \in {<<>>, <<Msg("eof")>>},
         NEW down \in {<<>>, <<Msg("eof")>>}, NEW x, x = WithQueues(r, up, down)
  PROVE  /\ x \in ConnStates /\ InStep(x)
         /\ x.from = r.from /\ x.list = r.list /\ x.tx = r.tx /\ x.rx = r.rx
<1>1. Msg("eof") \in Messages /\ Msg("eof").kind = "eof"
  BY MessageTypes
<1>2. ASSUME NEW m \in Messages PROVE <<>> \in Seq(Messages) /\ <<m>> \in Seq(Messages)
  OBVIOUS
<1>3. ASSUME NEW q \in {<<>>, <<Msg("eof")>>}
      PROVE  /\ q \in Seq(Messages)
             /\ \A i \in 1 .. Len(q) : i = Len(q) /\ q[i].kind = "eof"
  <2>1. CASE q = <<>>
    BY <1>1, <1>2, <2>1
  <2>2. CASE q = <<Msg("eof")>>
    BY <1>1, <1>2, <2>2
  <2> QED BY <2>1, <2>2
<1>4. x \in ConnStates /\ x.up = up /\ x.down = down /\ x.tx = r.tx /\ x.rx = r.rx /\ x.list = r.list
      /\ x.from = r.from
  BY <1>3 DEF ConnStates, WithQueues
<1>5. UpOrdered(x) /\ DownOrdered(x)
  <2>1. \A i \in 1 .. Len(x.up) : i = Len(x.up) /\ x.up[i].kind = "eof"
    BY <1>3, <1>4
  <2>2. \A i \in 1 .. Len(x.down) : i = Len(x.down) /\ x.down[i].kind = "eof"
    BY <1>3, <1>4
  <2>3. UpOrdered(x)
    BY <2>1 DEF UpOrdered
  <2> QED BY <2>2, <2>3 DEF DownOrdered
<1>6. EndsInStep(x)
  BY <1>4 DEF EndsInStep, InStep
<1>7. InStep(x)
  BY <1>5, <1>6 DEF InStep
<1> QED BY <1>4, <1>7

\* The loss of a link is for the ends to notice.
LEMMA LostGood ==
  ASSUME NEW P, NEW s, Ready(P, s), NEW c \in Conns, NEW up \in {<<>>, <<Msg("eof")>>},
         NEW down \in {<<>>, <<Msg("eof")>>},
         NEW r, r = WithQueues(s.conn[c], up, down),
         NEW t, t.host = s.host, t \in Systems(P), t.conn = [s.conn EXCEPT ![c] = r]
  PROVE  Good(P, s, t)
<1>1. Valid(P, s) /\ s \in Systems(P) /\ Linked(s) /\ InStep(s.conn[c])
  BY DEF Ready, Valid
<1>2. s.conn[c] \in ConnStates
  BY <1>1, Parts
<1>3. /\ r \in ConnStates /\ InStep(r)
      /\ r.from = s.conn[c].from /\ r.list = s.conn[c].list /\ r.tx = s.conn[c].tx
      /\ r.rx = s.conn[c].rx
  BY <1>1, <1>2, LostInStep
<1>4. r.tx = s.conn[c].tx
  BY <1>3
<1>5. r.tx = "closed" => \A g \in Hosts : s.host[g].tx # c
  <2>1. s.conn[c].tx = "closed" => \A g \in Hosts : s.host[g].tx # c
    BY <1>1, ConnNumbers DEF Linked
  <2> QED BY <1>4, <2>1
<1>6. Valid(P, t) /\ SameHosts(s, t) /\ LessRemote(s, t) /\ SameTxAuth(s, t)
  BY <1>1, <1>3, <1>5, ConnChange
<1> QED BY <1>6, CalmStep

-----------------------------------------------------------------------------
(* The actions. *)

Inv == TypeOK /\ Ready(env.peers, Sys)

\* The system becomes one that is good after the present one.
Stepped == \E t : Become(t) /\ Good(env.peers, Sys, t)

\* The system of the current state.
LEMMA SysFacts ==
  ASSUME Inv
  PROVE  /\ Sys.host = host /\ Sys.conn = conn /\ Ready(env.peers, Sys)
         /\ Valid(env.peers, Sys) /\ Sys \in Systems(env.peers)
         /\ env.peers \subseteq {"no", "deny", "ok", "any"}
<1>1. Sys.host = host /\ Sys.conn = conn
  BY DEF Sys
<1>2. Ready(env.peers, Sys) /\ Valid(env.peers, Sys) /\ Sys \in Systems(env.peers)
  BY DEF Inv, Ready, Valid
<1>3. env.peers \subseteq {"no", "deny", "ok", "any"}
  BY DEF Inv, TypeOK, SettingRecords
<1> QED BY <1>1, <1>2, <1>3

\* A client publishes or subscribes.
LEMMA ClientAddsStep ==
  ASSUME Inv, NEW h \in Hosts, NEW kind \in Kinds, ClientAdds(h, kind)
  PROVE  Stepped
<1> DEFINE n == host[h].handles[kind]
           named == host[h].named \union {kind}
           u == IF n = 0 \/ kind = "publish" THEN PubsubSet(Sys, h, kind, TRUE) ELSE Sys
           v == WithHandles(u, h, kind, n + 1, named)
           t == IF kind = "publish" THEN HandlePublish(v, h) ELSE v
<1>1. Become(t) /\ n < MaxHandles
  BY DEF ClientAdds, WithHandles
<1>2. n + 1 \in 0 .. MaxHandles /\ named \in SUBSET Kinds
  <2>1. host[h].handles \in [Kinds -> 0 .. MaxHandles] /\ host[h].named \in SUBSET Kinds
    BY SysFacts, Parts
  <2>2. n \in 0 .. MaxHandles
    BY <2>1
  <2> HIDE DEF n
  <2> QED BY <1>1, <2>1, <2>2, UnetmsgAssumption
<1>3. (u = PubsubSet(Sys, h, kind, TRUE) \/ u = Sys) /\ (t = HandlePublish(v, h) \/ t = v)
  OBVIOUS
<1>4. v = WithHandles(u, h, kind, n + 1, named)
  OBVIOUS
<1> HIDE DEF n, named, u, v, t
<1>5. Good(env.peers, Sys, t)
  BY <1>2, <1>3, <1>4, SysFacts, AddsGood
<1> QED BY <1>1, <1>5 DEF Stepped

\* A client goes.
LEMMA ClientLeavesStep ==
  ASSUME Inv, NEW h \in Hosts, NEW kind \in Kinds, ClientLeaves(h, kind)
  PROVE  Stepped
<1> DEFINE n == host[h].handles[kind]
           e == n > 1
           u == IF kind = "publish" THEN HandlePublish(Sys, h) ELSE Sys
           v == WithCount(u, h, kind, n - 1)
           t == IF n = 1 \/ kind = "publish" THEN PubsubSet(v, h, kind, e) ELSE v
<1>1. Become(t) /\ n > 0
  BY DEF ClientLeaves, WithCount
<1>2. n - 1 \in 0 .. MaxHandles /\ e \in BOOLEAN
  <2>1. host[h].handles \in [Kinds -> 0 .. MaxHandles]
    BY SysFacts, Parts
  <2>2. n \in 0 .. MaxHandles
    BY <2>1
  <2> HIDE DEF n
  <2> QED BY <1>1, <2>2, UnetmsgAssumption
<1>3. (u = HandlePublish(Sys, h) \/ u = Sys) /\ (t = PubsubSet(v, h, kind, e) \/ t = v)
  OBVIOUS
<1>4. v = WithCount(u, h, kind, n - 1)
  OBVIOUS
<1> HIDE DEF n, e, u, v, t
<1>5. Good(env.peers, Sys, t)
  BY <1>2, <1>3, <1>4, SysFacts, LeavesGood
<1> QED BY <1>1, <1>5 DEF Stepped

\* network_connect_peers.
LEMMA NetTimerStep ==
  ASSUME Inv, NEW h \in Hosts, NetTimer(h)
  PROVE  Stepped
<1> DEFINE u == Arm(Sys, h, "off")
<1>0. Sys.host = host /\ Sys.conn = conn
  BY SysFacts
<1>1. CASE host[h].peer = "no"
  <2> DEFINE ends == {"tx", "rx"}
             t == CloseEntries(u, h, ends)
  <2>1. Become(t)
    BY <1>1 DEF NetTimer
  <2>2. "tx" \in ends /\ "rx" \in ends /\ t = CloseEntries(u, h, ends) /\ u = Arm(Sys, h, "off")
    OBVIOUS
  <2>3. Sys.host[h].peer = "no"
    BY <1>0, <1>1
  <2> HIDE DEF u, ends, t
  <2>4. Good(env.peers, Sys, t)
    BY <2>2, <2>3, SysFacts, TimerGoneGood
  <2> QED BY <2>1, <2>4 DEF Stepped
<1>2. CASE host[h].peer # "no" /\ TxAuth(Sys, h)
  <2>1. Become(u)
    BY <1>2 DEF NetTimer
  <2>2. u = Arm(Sys, h, "off") /\ Sys.host[h].peer # "no"
    BY <1>0, <1>2
  <2> HIDE DEF u
  <2>3. Good(env.peers, Sys, u)
    BY <1>2, <2>2, SysFacts, TimerDoneGood
  <2> QED BY <2>1, <2>3 DEF Stepped
<1>3. CASE host[h].peer # "no" /\ ~TxAuth(Sys, h)
  <2> DEFINE ends == {"tx"}
             v == CloseEntries(u, h, ends)
             w(c) == WithFresh(v, h, c)
             t(c) == Arm(w(c), h, "long")
  <2>1. PICK c \in Unused : Become(t(c))
    BY <1>3 DEF NetTimer, WithFresh
  <2>2. c \in Conns /\ Sys.conn[c].tx = "closed" /\ Sys.conn[c].rx = "closed"
    BY <1>0, <2>1 DEF Unused, Closed
  <2>3. /\ "tx" \in ends /\ "rx" \notin ends /\ u = Arm(Sys, h, "off")
        /\ v = CloseEntries(u, h, ends)
        /\ w(c) = WithFresh(v, h, c) /\ t(c) = Arm(w(c), h, "long")
    OBVIOUS
  <2> HIDE DEF u, ends, v, w, t
  <2>4. Good(env.peers, Sys, t(c))
    BY <2>2, <2>3, SysFacts, TimerOpensGood
  <2> QED BY <2>1, <2>4 DEF Stepped
<1> QED BY <1>1, <1>2, <1>3

\* The ends of a connection.
LEMMA EndFacts ==
  ASSUME Inv, NEW c \in Conns
  PROVE  /\ Sys.conn[c] = conn[c] /\ conn[c] \in ConnStates /\ InStep(conn[c])
         /\ conn[c].from \in Hosts /\ Other(conn[c].from) \in Hosts
         /\ Other(conn[c].from) # conn[c].from
<1>1. Sys.conn[c] = conn[c] /\ conn[c] \in ConnStates /\ conn[c].from \in Hosts
  BY SysFacts, Parts
<1>2. InStep(conn[c])
  BY SysFacts DEF Valid
<1> QED BY <1>1, <1>2, OtherHost

\* network_accept.
LEMMA AcceptActionStep ==
  ASSUME Inv, NEW c \in Conns, Accept(c)
  PROVE  Stepped
<1>0. Sys.conn[c].rx = "none"
  BY EndFacts DEF Accept
<1>1. CASE host[Other(conn[c].from)].peer = "no"
  <2>1. Become(CloseRx(Sys, c))
    BY <1>1 DEF Accept
  <2>2. Good(env.peers, Sys, CloseRx(Sys, c))
    BY <1>0, SysFacts, CloseRxGood
  <2> QED BY <2>1, <2>2 DEF Stepped
<1>2. CASE host[Other(conn[c].from)].peer # "no"
  <2> DEFINE t == SendDown([Sys EXCEPT !.conn[c].rx = "hello"], c, Msg("hello"))
  <2>1. Become(t)
    BY <1>2 DEF Accept
  <2>2. Valid(env.peers, t) /\ SameHosts(Sys, t) /\ LessRemote(Sys, t) /\ SameTxAuth(Sys, t)
    BY <1>0, SysFacts, AcceptStep
  <2> HIDE DEF t
  <2>3. Good(env.peers, Sys, t)
    BY <2>2, SysFacts, CalmStep
  <2> QED BY <2>1, <2>3 DEF Stepped
<1> QED BY <1>1, <1>2

\* What an opening end has received.
LEMMA DownRest ==
  ASSUME NEW r \in ConnStates, InStep(r), r.down # <<>>, r.tx # "closed"
  PROVE  /\ \A i \in 1 .. Len(Tail(r.down)) : Tail(r.down)[i].kind = "eof"
         /\ Head(r.down).kind \in {"hello", "reply", "refuse", "eof"}
         /\ Head(r.down).kind = "hello" => r.tx = "wait" /\ r.rx \in {"hello", "closed"}
         /\ Head(r.down).kind = "reply" => r.tx = "asked" /\ r.rx \in {"auth", "closed"}
         /\ Head(r.down).kind = "refuse" => r.tx = "asked"
<1>1. r.down \in Seq(Messages) /\ r.rx \in {"none", "hello", "auth", "closed"}
  BY DEF ConnStates
<1>2. Len(r.down) \in Nat /\ Len(r.down) > 0 /\ Head(r.down) = r.down[1]
  BY <1>1
<1>3. /\ Len(Tail(r.down)) = Len(r.down) - 1
      /\ \A i \in 1 .. Len(Tail(r.down)) : Tail(r.down)[i] = r.down[i + 1]
  BY <1>1
<1>4. DownOrdered(r) /\ EndsInStep(r)
  BY DEF InStep
<1>5. \A i \in 1 .. Len(r.down) :
        /\ r.down[i].kind \in {"hello", "reply", "refuse", "eof"}
        /\ r.down[i].kind = "hello" => i = 1 /\ r.tx = "wait" /\ r.rx # "none"
        /\ r.down[i].kind \in {"reply", "refuse"} => i = 1 /\ r.tx = "asked" /\ r.rx \in {"auth", "closed"}
  BY <1>4 DEF DownOrdered
<1>6. ASSUME NEW i \in 1 .. Len(Tail(r.down)) PROVE Tail(r.down)[i].kind = "eof"
  <2>1. i + 1 \in 1 .. Len(r.down) /\ i + 1 # 1
    BY <1>2, <1>3
  <2> QED BY <1>3, <1>5, <2>1
<1>7. 1 \in 1 .. Len(r.down)
  BY <1>2
<1> QED BY <1>1, <1>2, <1>4, <1>5, <1>6, <1>7 DEF EndsInStep

\* What an accepting end has received.
LEMMA UpRest ==
  ASSUME NEW r \in ConnStates, InStep(r), r.up # <<>>, r.rx \in {"hello", "auth"}
  PROVE  /\ Head(r.up).kind \in Kinds \union {"auth", "eof"} /\ Head(r.up).enabled \in BOOLEAN
         /\ Head(r.up).kind = "auth" => /\ r.rx = "hello" /\ r.tx \in {"asked", "closed"}
                                        /\ \A i \in 1 .. Len(Tail(r.up)) : Tail(r.up)[i].kind # "auth"
<1>1. r.up \in Seq(Messages) /\ r.tx \in {"closed", "wait", "asked", "auth"}
  BY DEF ConnStates
<1>2. Len(r.up) \in Nat /\ Len(r.up) > 0 /\ Head(r.up) = r.up[1] /\ Head(r.up) \in Messages
  BY <1>1
<1>3. /\ Len(Tail(r.up)) = Len(r.up) - 1
      /\ \A i \in 1 .. Len(Tail(r.up)) : Tail(r.up)[i] = r.up[i + 1]
  BY <1>1
<1>4. UpOrdered(r)
  BY DEF InStep
<1>5. \A i \in 1 .. Len(r.up) :
        /\ r.up[i].kind \in Kinds \union {"auth", "eof"}
        /\ r.tx = "wait" => r.up[i].kind = "eof"
        /\ r.up[i].kind = "auth" => i = 1 /\ r.rx = "hello" /\ r.tx # "auth"
  BY <1>4 DEF UpOrdered
<1>6. ASSUME NEW i \in 1 .. Len(Tail(r.up)) PROVE Tail(r.up)[i].kind # "auth"
  <2>1. i + 1 \in 1 .. Len(r.up) /\ i + 1 # 1
    BY <1>2, <1>3
  <2> QED BY <1>3, <1>5, <2>1
<1>7. 1 \in 1 .. Len(r.up)
  BY <1>2
<1>8. Head(r.up).enabled \in BOOLEAN
  BY <1>2 DEF Messages
<1> QED BY <1>1, <1>2, <1>5, <1>6, <1>7, <1>8

\* The state once a message has been read.
LEMMA Received ==
  ASSUME Inv, NEW c \in Conns
  PROVE  /\ conn[c].down # <<>> =>
              LET s == Got(Sys, c, "down") IN
              /\ Ready(env.peers, s) /\ \A t : Good(env.peers, s, t) => Good(env.peers, Sys, t)
              /\ s.conn[c].from = conn[c].from /\ s.conn[c].tx = conn[c].tx
              /\ s.conn[c].rx = conn[c].rx /\ s.conn[c].down = Tail(conn[c].down)
         /\ conn[c].up # <<>> =>
              LET s == Got(Sys, c, "up") IN
              /\ Ready(env.peers, s) /\ \A t : Good(env.peers, s, t) => Good(env.peers, Sys, t)
              /\ s.conn[c].from = conn[c].from /\ s.conn[c].tx = conn[c].tx
              /\ s.conn[c].rx = conn[c].rx /\ s.conn[c].up = Tail(conn[c].up)
<1>0. Sys.conn[c] = conn[c] /\ Valid(env.peers, Sys) /\ Ready(env.peers, Sys)
  BY SysFacts, EndFacts
<1>1. ASSUME conn[c].down # <<>>
      PROVE  LET s == Got(Sys, c, "down") IN
             /\ Ready(env.peers, s) /\ \A t : Good(env.peers, s, t) => Good(env.peers, Sys, t)
             /\ s.conn[c].from = conn[c].from /\ s.conn[c].tx = conn[c].tx
             /\ s.conn[c].rx = conn[c].rx /\ s.conn[c].down = Tail(conn[c].down)
  <2> DEFINE s == Got(Sys, c, "down")
  <2>1. Valid(env.peers, s) /\ SameEnds(Sys, s) /\ s.conn[c].down = Tail(conn[c].down)
    BY <1>0, <1>1, GotStep
  <2> HIDE DEF s
  <2>2. Ready(env.peers, s) /\ \A t : Good(env.peers, s, t) => Good(env.peers, Sys, t)
    BY <1>0, <2>1, AfterSameEnds
  <2>3. s.conn[c].from = conn[c].from /\ s.conn[c].tx = conn[c].tx /\ s.conn[c].rx = conn[c].rx
    BY <1>0, <2>1 DEF SameEnds
  <2> QED BY <2>1, <2>2, <2>3 DEF s
<1>2. ASSUME conn[c].up # <<>>
      PROVE  LET s == Got(Sys, c, "up") IN
             /\ Ready(env.peers, s) /\ \A t : Good(env.peers, s, t) => Good(env.peers, Sys, t)
             /\ s.conn[c].from = conn[c].from /\ s.conn[c].tx = conn[c].tx
             /\ s.conn[c].rx = conn[c].rx /\ s.conn[c].up = Tail(conn[c].up)
  <2> DEFINE s == Got(Sys, c, "up")
  <2>1. Valid(env.peers, s) /\ SameEnds(Sys, s) /\ s.conn[c].up = Tail(conn[c].up)
    BY <1>0, <1>2, GotStep
  <2> HIDE DEF s
  <2>2. Ready(env.peers, s) /\ \A t : Good(env.peers, s, t) => Good(env.peers, Sys, t)
    BY <1>0, <2>1, AfterSameEnds
  <2>3. s.conn[c].from = conn[c].from /\ s.conn[c].tx = conn[c].tx /\ s.conn[c].rx = conn[c].rx
    BY <1>0, <2>1 DEF SameEnds
  <2> QED BY <2>1, <2>2, <2>3 DEF s
<1> QED BY <1>1, <1>2

\* The callbacks of network_open_channel.
LEMMA TxReceiveStep ==
  ASSUME Inv, NEW c \in Conns, TxReceive(c)
  PROVE  Stepped
<1> DEFINE m == Head(conn[c].down).kind
           h == conn[c].from
           s == Got(Sys, c, "down")
           t == CASE m = "eof" -> TxDisconnected(s, h, c)
                  [] m = "hello" /\ conn[c].tx = "wait" -> TxHello(s, h, c)
                  [] m = "reply" /\ conn[c].tx = "asked" -> TxAuthenticated(s, h, c)
                  [] OTHER -> TxSocketClose(s, h, c)
<1>1. conn[c].down # <<>> /\ conn[c].tx # "closed" /\ Become(t)
  BY DEF TxReceive
<1>2. /\ Ready(env.peers, s) /\ \A w : Good(env.peers, s, w) => Good(env.peers, Sys, w)
      /\ s.conn[c].from = h /\ s.conn[c].tx = conn[c].tx
      /\ s.conn[c].rx = conn[c].rx /\ s.conn[c].down = Tail(conn[c].down)
  BY <1>1, Received
<1>3. h \in Hosts /\ conn[c] \in ConnStates /\ InStep(conn[c])
  BY EndFacts
<1>4. /\ \A i \in 1 .. Len(Tail(conn[c].down)) : Tail(conn[c].down)[i].kind = "eof"
      /\ m \in {"hello", "reply", "refuse", "eof"}
      /\ m = "hello" => conn[c].tx = "wait" /\ conn[c].rx \in {"hello", "closed"}
      /\ m = "reply" => conn[c].tx = "asked" /\ conn[c].rx \in {"auth", "closed"}
      /\ m = "refuse" => conn[c].tx = "asked"
  BY <1>1, <1>3, DownRest
<1>5. CASE m = "eof"
  <2>1. t = TxDisconnected(s, h, c)
    BY <1>5
  <2> HIDE DEF m, h, s, t
  <2>2. Good(env.peers, s, t)
    BY <1>2, <1>3, <2>1, DisconnectedGood
  <2> QED BY <1>1, <1>2, <2>2 DEF Stepped
<1>6. CASE m = "hello"
  <2>1. t = TxHello(s, h, c)
    BY <1>4, <1>6
  <2> HIDE DEF m, h, s, t
  <2>2. Valid(env.peers, s)
    BY <1>2 DEF Ready
  <2>3. /\ s.conn[c].tx = "wait" /\ s.conn[c].rx \in {"hello", "closed"}
        /\ \A i \in 1 .. Len(s.conn[c].down) : s.conn[c].down[i].kind = "eof"
    BY <1>2, <1>4, <1>6
  <2>4. Valid(env.peers, t) /\ SameHosts(s, t) /\ LessRemote(s, t) /\ SameTxAuth(s, t)
    BY <2>1, <2>2, <2>3, TxHelloStep
  <2>5. Good(env.peers, s, t)
    BY <1>2, <2>4, CalmStep
  <2> QED BY <1>1, <1>2, <2>5 DEF Stepped
<1>7. CASE m = "reply"
  <2>1. t = TxAuthenticated(s, h, c)
    BY <1>4, <1>7
  <2> HIDE DEF m, h, s, t
  <2>2. /\ s.conn[c].tx = "asked" /\ s.conn[c].rx \in {"auth", "closed"}
        /\ \A i \in 1 .. Len(s.conn[c].down) : s.conn[c].down[i].kind = "eof"
    BY <1>2, <1>4, <1>7
  <2>3. Good(env.peers, s, t)
    BY <1>2, <1>3, <2>1, <2>2, AuthenticatedGood
  <2> QED BY <1>1, <1>2, <2>3 DEF Stepped
<1>8. CASE m = "refuse"
  <2>1. t = TxSocketClose(s, h, c)
    BY <1>8
  <2> HIDE DEF m, h, s, t
  <2>2. s.conn[c].tx # "auth"
    BY <1>2, <1>4, <1>8
  <2>3. Good(env.peers, s, t)
    BY <1>2, <1>3, <2>1, <2>2, TxCloseGood
  <2> QED BY <1>1, <1>2, <2>3 DEF Stepped
<1> QED BY <1>4, <1>5, <1>6, <1>7, <1>8

\* A token that is not accepted, at the opening end.
LEMMA TxTokenFailsStep ==
  ASSUME Inv, NEW c \in Conns, TxTokenFails(c)
  PROVE  Stepped
<1> DEFINE h == conn[c].from
           s == Got(Sys, c, "down")
           t == TxSocketClose(s, h, c)
<1>1. conn[c].down # <<>> /\ conn[c].tx \in {"wait", "asked"} /\ Become(t)
  BY DEF TxTokenFails
<1>2. /\ Ready(env.peers, s) /\ \A w : Good(env.peers, s, w) => Good(env.peers, Sys, w)
      /\ s.conn[c].from = h /\ s.conn[c].tx = conn[c].tx
  BY <1>1, Received
<1>3. h \in Hosts
  BY EndFacts
<1>4. t = TxSocketClose(s, h, c)
  OBVIOUS
<1> HIDE DEF h, s, t
<1>5. Good(env.peers, s, t)
  BY <1>1, <1>2, <1>3, <1>4, TxCloseGood
<1> QED BY <1>1, <1>2, <1>5 DEF Stepped

\* The timer of the request for authentication.
LEMMA TxTimerStep ==
  ASSUME Inv, NEW c \in Conns, TxTimer(c)
  PROVE  Stepped
<1> DEFINE t == TxSocketClose(Sys, conn[c].from, c)
<1>1. conn[c].tx = "asked" /\ Become(t)
  BY DEF TxTimer
<1>2. Sys.conn[c] = conn[c] /\ conn[c].from \in Hosts /\ Ready(env.peers, Sys)
  BY SysFacts, EndFacts
<1>3. Good(env.peers, Sys, t)
  BY <1>1, <1>2, TxCloseGood
<1> QED BY <1>1, <1>3 DEF Stepped

\* The callbacks of network_accept.
LEMMA RxReceiveStep ==
  ASSUME Inv, NEW c \in Conns, RxReceive(c)
  PROVE  Stepped
<1> DEFINE m == Head(conn[c].up)
           h == Other(conn[c].from)
           s == Got(Sys, c, "up")
           asks == m.kind = "auth" /\ host[h].peer # "no"
           t == CASE m.kind = "eof" \/ (conn[c].rx = "hello" /\ ~asks) -> RxSocketClose(s, h, c)
                  [] conn[c].rx = "hello" /\ asks -> RxAuthenticated(s, h, c, "reply")
                  [] conn[c].rx = "auth" /\ m.kind \in Kinds /\ m.enabled ->
                       RxEnable(s, h, c, m.kind)
                  [] conn[c].rx = "auth" /\ m.kind \in Kinds /\ ~m.enabled ->
                       RxDisable(s, h, c, m.kind)
<1>1. conn[c].up # <<>> /\ conn[c].rx \in {"hello", "auth"} /\ Become(t)
  BY DEF RxReceive
<1>2. /\ Ready(env.peers, s) /\ \A w : Good(env.peers, s, w) => Good(env.peers, Sys, w)
      /\ s.conn[c].from # h /\ s.conn[c].tx = conn[c].tx
      /\ s.conn[c].rx = conn[c].rx /\ s.conn[c].up = Tail(conn[c].up)
  BY <1>1, Received, EndFacts
<1>3. h \in Hosts /\ conn[c] \in ConnStates /\ InStep(conn[c])
  BY EndFacts
<1>4. /\ m.kind \in Kinds \union {"auth", "eof"} /\ m.enabled \in BOOLEAN
      /\ m.kind = "auth" => /\ conn[c].rx = "hello" /\ conn[c].tx \in {"asked", "closed"}
                            /\ \A i \in 1 .. Len(Tail(conn[c].up)) : Tail(conn[c].up)[i].kind # "auth"
  BY <1>1, <1>3, UpRest
<1>k. "eof" \notin Kinds /\ "auth" \notin Kinds
  BY DEF Kinds
<1>p. env.peers \subseteq {"no", "deny", "ok", "any"}
  BY SysFacts
<1> HIDE DEF m, h, s, asks
<1>5. CASE m.kind = "eof" \/ (conn[c].rx = "hello" /\ ~asks)
  <2>1. t = RxSocketClose(s, h, c)
    BY <1>5, <1>k DEF asks
  <2> HIDE DEF t
  <2>2. Good(env.peers, s, t)
    BY <1>2, <1>3, <2>1, RxCloseGood
  <2> QED BY <1>1, <1>2, <2>2 DEF Stepped
<1>6. CASE m.kind # "eof" /\ conn[c].rx = "hello" /\ asks
  <2>1. t = RxAuthenticated(s, h, c, "reply")
    BY <1>6
  <2> HIDE DEF t
  <2>2. /\ s.conn[c].rx = "hello" /\ s.conn[c].tx \in {"asked", "closed"}
        /\ \A i \in 1 .. Len(s.conn[c].up) : s.conn[c].up[i].kind # "auth"
    BY <1>2, <1>4, <1>6 DEF asks
  <2>3. Good(env.peers, s, t)
    BY <1>2, <1>3, <2>1, <2>2, AcceptedGood
  <2> QED BY <1>1, <1>2, <2>3 DEF Stepped
<1>7. CASE conn[c].rx = "auth" /\ m.kind \in Kinds /\ m.enabled
  <2>1. t = RxEnable(s, h, c, m.kind)
    BY <1>7, <1>k
  <2> HIDE DEF t
  <2>2. Good(env.peers, s, t)
    BY <1>2, <1>3, <1>7, <1>p, <2>1, EnableGood
  <2> QED BY <1>1, <1>2, <2>2 DEF Stepped
<1>8. CASE conn[c].rx = "auth" /\ m.kind \in Kinds /\ ~m.enabled
  <2>1. t = RxDisable(s, h, c, m.kind)
    BY <1>8, <1>k
  <2> HIDE DEF t
  <2>2. Good(env.peers, s, t)
    BY <1>2, <1>3, <1>8, <2>1, DisableGood
  <2> QED BY <1>1, <1>2, <2>2 DEF Stepped
<1> QED BY <1>1, <1>4, <1>5, <1>6, <1>7, <1>8

\* A token that is not accepted, at the accepting end.
LEMMA RxTokenFailsStep ==
  ASSUME Inv, NEW c \in Conns, RxTokenFails(c)
  PROVE  Stepped
<1> DEFINE h == Other(conn[c].from)
           s == Got(Sys, c, "up")
<1>1. /\ conn[c].up # <<>> /\ conn[c].rx = "hello" /\ Head(conn[c].up).kind = "auth"
      /\ Become(RxSocketClose(s, h, c)) \/ Become(RxAuthenticated(s, h, c, "refuse"))
  BY DEF RxTokenFails
<1>2. /\ Ready(env.peers, s) /\ \A w : Good(env.peers, s, w) => Good(env.peers, Sys, w)
      /\ s.conn[c].from # h /\ s.conn[c].tx = conn[c].tx
      /\ s.conn[c].rx = conn[c].rx /\ s.conn[c].up = Tail(conn[c].up)
  BY <1>1, Received, EndFacts
<1>3. h \in Hosts /\ conn[c] \in ConnStates /\ InStep(conn[c])
  BY EndFacts
<1>4. /\ conn[c].tx \in {"asked", "closed"}
      /\ \A i \in 1 .. Len(Tail(conn[c].up)) : Tail(conn[c].up)[i].kind # "auth"
  BY <1>1, <1>3, UpRest
<1> HIDE DEF h, s
<1>5. Good(env.peers, s, RxSocketClose(s, h, c))
  BY <1>2, <1>3, RxCloseGood
<1>6. Good(env.peers, s, RxAuthenticated(s, h, c, "refuse"))
  <2>1. /\ s.conn[c].rx = "hello" /\ s.conn[c].tx \in {"asked", "closed"}
        /\ \A i \in 1 .. Len(s.conn[c].up) : s.conn[c].up[i].kind # "auth"
    BY <1>1, <1>2, <1>4
  <2> QED BY <1>2, <1>3, <2>1, AcceptedGood
<1> QED BY <1>1, <1>2, <1>5, <1>6 DEF Stepped

\* The timer of a connection that has not been authenticated.
LEMMA RxTimerStep ==
  ASSUME Inv, NEW c \in Conns, RxTimer(c)
  PROVE  Stepped
<1>1. Sys.conn[c].rx # "auth" /\ Become(CloseRx(Sys, c))
  BY EndFacts DEF RxTimer
<1>2. Good(env.peers, Sys, CloseRx(Sys, c))
  BY <1>1, SysFacts, CloseRxGood
<1> QED BY <1>1, <1>2 DEF Stepped

\* network_update.
LEMMA NetworkUpdateStep ==
  ASSUME Inv, NEW h \in Hosts, NEW peer, NetworkUpdate(h, peer)
  PROVE  Stepped
<1> DEFINE ends == IF host[h].peer = "no" \/ Allowed(host[h].peer) = Allowed(peer)
                   THEN {} ELSE {"rx", "tx"}
           u == CloseEntries(Sys, h, ends)
           v == WithPeer(u, h, peer)
           t == Arm(v, h, "short")
<1>1. Become(t) /\ peer \in env.peers
  BY DEF NetworkUpdate, WithPeer
<1>2. "rx" \in ends \/ host[h].peer = "no" \/ Allowed(host[h].peer) = Allowed(peer)
  OBVIOUS
<1>3. u = CloseEntries(Sys, h, ends) /\ v = WithPeer(u, h, peer) /\ t = Arm(v, h, "short")
  OBVIOUS
<1> HIDE DEF ends, u, v, t
<1>4. /\ Ready(env.peers, Sys) /\ env.peers \subseteq {"no", "deny", "ok", "any"}
      /\ Sys.host[h] = host[h]
  BY SysFacts
<1>5. Good(env.peers, Sys, t)
  BY <1>1, <1>2, <1>3, <1>4, UpdateGood
<1> QED BY <1>1, <1>5 DEF Stepped

\* network_close and network_open.
LEMMA NetworkReopenStep ==
  ASSUME Inv, NEW h \in Hosts, NetworkReopen(h)
  PROVE  Stepped
<1> DEFINE ends == {"rx", "tx"}
           u == CloseEntries(Sys, h, ends)
           t == Arm(u, h, "short")
<1>1. Become(t)
  BY DEF NetworkReopen
<1>2. u = CloseEntries(Sys, h, ends) /\ t = Arm(u, h, "short")
  OBVIOUS
<1> HIDE DEF ends, u, t
<1>3. Good(env.peers, Sys, t)
  BY <1>2, SysFacts, ReopenGood
<1> QED BY <1>1, <1>3 DEF Stepped

\* The daemon is restarted.
LEMMA RestartStep ==
  ASSUME Inv, NEW h \in Hosts, Restart(h)
  PROVE  Stepped
<1> DEFINE x == NewHost(host[h].peer)
           f == [host EXCEPT ![h] = x]
           g == [c \in Conns |-> Ended(conn[c], h)]
           t == [host |-> f, conn |-> g, told |-> {}]
<1>1. Become(t)
  BY DEF Restart, Become, Ended
<1>2. /\ Sys.host = host /\ Sys.conn = conn /\ Ready(env.peers, Sys)
      /\ Sys \in Systems(env.peers)
  BY SysFacts
<1>3. x \in HostStates(env.peers)
  <2>1. host[h].peer \in env.peers
    BY <1>2, Parts
  <2>2. [k \in Kinds |-> 0] \in [Kinds -> 0 .. MaxHandles]
    BY UnetmsgAssumption
  <2> QED BY <2>1, <2>2 DEF NewHost, HostStates
<1>4. f \in [Hosts -> HostStates(env.peers)]
  <2>1. host \in [Hosts -> HostStates(env.peers)]
    BY <1>2, Parts
  <2> HIDE DEF x
  <2> QED BY <1>3, <2>1
<1>5. g \in [Conns -> ConnStates]
  <2>1. ASSUME NEW c \in Conns PROVE Ended(conn[c], h) \in ConnStates
    BY EndFacts, EndedFacts
  <2> QED BY <2>1
<1>6. t.host = f /\ t.conn = g
  OBVIOUS
<1>7. t \in Systems(env.peers)
  <2> HIDE DEF f, g
  <2> QED BY <1>4, <1>5 DEF Systems
<1>8. f = [Sys.host EXCEPT ![h] = NewHost(Sys.host[h].peer)]
  BY <1>2
<1>9. g = [c \in Conns |-> Ended(Sys.conn[c], h)]
  BY <1>2
<1> HIDE DEF t
<1>10. Good(env.peers, Sys, t)
  BY <1>2, <1>6, <1>7, <1>8, <1>9, RestartGood
<1> QED BY <1>1, <1>10 DEF Stepped

\* The link is lost.
LEMMA LinkLostStep ==
  ASSUME Inv, NEW c \in Conns, LinkLost(c)
  PROVE  Stepped
<1> DEFINE up == IF conn[c].rx = "closed" THEN <<>> ELSE <<Msg("eof")>>
           down == IF conn[c].tx = "closed" THEN <<>> ELSE <<Msg("eof")>>
           r == WithQueues(conn[c], up, down)
           g == [conn EXCEPT ![c] = r]
           t == [host |-> host, conn |-> g, told |-> {}]
<1>0. up \in {<<>>, <<Msg("eof")>>} /\ down \in {<<>>, <<Msg("eof")>>}
  OBVIOUS
<1>1. conn' = [conn EXCEPT ![c].up = up, ![c].down = down] /\ told' = {} /\ host' = host
  BY DEF LinkLost
<1> HIDE DEF up, down
<1>2. /\ Sys.host = host /\ Sys.conn = conn /\ Ready(env.peers, Sys)
      /\ Sys \in Systems(env.peers)
      /\ host \in [Hosts -> HostStates(env.peers)] /\ conn \in [Conns -> ConnStates]
  BY SysFacts, Parts
<1>3. [conn EXCEPT ![c].up = up, ![c].down = down] = g
  BY <1>2 DEF WithQueues
<1>4. r \in ConnStates
  BY <1>0, EndFacts, LostInStep
<1>5. r = WithQueues(Sys.conn[c], up, down)
  BY <1>2
<1> HIDE DEF r
<1>6. g \in [Conns -> ConnStates] /\ g = [Sys.conn EXCEPT ![c] = r]
  BY <1>2, <1>4
<1>7. t.host = Sys.host /\ t.conn = g /\ t.told = {}
  BY <1>2
<1>8. t \in Systems(env.peers)
  <2> HIDE DEF g
  <2> QED BY <1>2, <1>6 DEF Systems
<1>9. Become(t)
  BY <1>1, <1>3 DEF Become
<1>10. t.conn = [Sys.conn EXCEPT ![c] = r] /\ t.host = Sys.host
  BY <1>6, <1>7
<1> HIDE DEF g, t
<1>11. Good(env.peers, Sys, t)
  BY <1>0, <1>2, <1>5, <1>8, <1>10, LostGood
<1> QED BY <1>9, <1>11 DEF Stepped

-----------------------------------------------------------------------------
(* The specification. *)

\* The setting, with what may still come.
EnvOK(e) ==
  /\ e \in SettingRecords
  /\ \E s \in Settings : /\ e.peers = s.peers /\ e.disturb = s.disturb
                         /\ e.events <= s.events /\ e.late <= s.late

\* An event or a late timer is counted.
LEMMA EnvStep ==
  ASSUME EnvOK(env), (\E kind : Event(kind)) \/ Fires \/ UNCHANGED env
  PROVE  EnvOK(env') /\ env'.peers = env.peers
<1>1. PICK s \in Settings : /\ env.peers = s.peers /\ env.disturb = s.disturb
                            /\ env.events <= s.events /\ env.late <= s.late
  BY DEF EnvOK
<1>2. env \in SettingRecords /\ s.events \in Nat /\ s.late \in Nat
  BY UnetmsgAssumption DEF EnvOK, SettingRecords
<1>3. CASE env' = env
  BY <1>3
<1>4. ASSUME env.events > 0, env' = [env EXCEPT !.events = @ - 1]
      PROVE  EnvOK(env') /\ env'.peers = env.peers
  <2>1. /\ env' \in SettingRecords /\ env'.peers = env.peers /\ env'.disturb = env.disturb
        /\ env'.late = env.late /\ env'.events = env.events - 1
    BY <1>2, <1>4 DEF SettingRecords
  <2>2. env'.events <= s.events
    BY <1>1, <1>2, <2>1 DEF SettingRecords
  <2> QED BY <1>1, <2>1, <2>2 DEF EnvOK
<1>5. ASSUME env.late > 0, env' = [env EXCEPT !.late = @ - 1]
      PROVE  EnvOK(env') /\ env'.peers = env.peers
  <2>1. /\ env' \in SettingRecords /\ env'.peers = env.peers /\ env'.disturb = env.disturb
        /\ env'.events = env.events /\ env'.late = env.late - 1
    BY <1>2, <1>5 DEF SettingRecords
  <2>2. env'.late <= s.late
    BY <1>1, <1>2, <2>1 DEF SettingRecords
  <2> QED BY <1>1, <2>1, <2>2 DEF EnvOK
<1> QED BY <1>3, <1>4, <1>5 DEF Event, Fires

\* Every step is a good one.
LEMMA NextStep ==
  ASSUME Inv, Next
  PROVE  Stepped /\ EnvOK(env') /\ env'.peers = env.peers
<1>0. EnvOK(env)
  BY DEF Inv, TypeOK, EnvOK
<1>1. ASSUME NEW h \in Hosts, NEW k \in Kinds, ClientAdds(h, k)
      PROVE  Stepped /\ \E kind : Event(kind)
  BY <1>1, ClientAddsStep DEF ClientAdds
<1>2. ASSUME NEW h \in Hosts, NEW k \in Kinds, ClientLeaves(h, k)
      PROVE  Stepped /\ \E kind : Event(kind)
  BY <1>2, ClientLeavesStep DEF ClientLeaves
<1>3. ASSUME NEW h \in Hosts, NEW p, NetworkUpdate(h, p)
      PROVE  Stepped /\ \E kind : Event(kind)
  BY <1>3, NetworkUpdateStep DEF NetworkUpdate
<1>4. ASSUME NEW h \in Hosts, NetworkReopen(h)
      PROVE  Stepped /\ \E kind : Event(kind)
  BY <1>4, NetworkReopenStep DEF NetworkReopen
<1>5. ASSUME NEW h \in Hosts, Restart(h)
      PROVE  Stepped /\ \E kind : Event(kind)
  BY <1>5, RestartStep DEF Restart
<1>6. ASSUME NEW c \in Conns, LinkLost(c)
      PROVE  Stepped /\ \E kind : Event(kind)
  BY <1>6, LinkLostStep DEF LinkLost
<1>7. ASSUME NEW c \in Conns, TxTokenFails(c)
      PROVE  Stepped /\ \E kind : Event(kind)
  BY <1>7, TxTokenFailsStep DEF TxTokenFails
<1>8. ASSUME NEW c \in Conns, RxTokenFails(c)
      PROVE  Stepped /\ \E kind : Event(kind)
  BY <1>8, RxTokenFailsStep DEF RxTokenFails
<1>9. ASSUME NEW c \in Conns, Accept(c)
      PROVE  Stepped /\ UNCHANGED env
  BY <1>9, AcceptActionStep DEF Accept
<1>10. ASSUME NEW c \in Conns, TxReceive(c)
      PROVE  Stepped /\ UNCHANGED env
  BY <1>10, TxReceiveStep DEF TxReceive
<1>11. ASSUME NEW c \in Conns, RxReceive(c)
      PROVE  Stepped /\ UNCHANGED env
  BY <1>11, RxReceiveStep DEF RxReceive
<1>12. ASSUME NEW c \in Conns, TxTimer(c)
      PROVE  Stepped /\ Fires
  BY <1>12, TxTimerStep DEF TxTimer
<1>13. ASSUME NEW c \in Conns, RxTimer(c)
      PROVE  Stepped /\ Fires
  BY <1>13, RxTimerStep DEF RxTimer
<1>14. ASSUME NEW h \in Hosts, NetTimer(h)
      PROVE  Stepped /\ Fires
  BY <1>14, NetTimerStep DEF NetTimer
<1>15. Stepped /\ ((\E kind : Event(kind)) \/ Fires \/ UNCHANGED env)
  BY <1>1, <1>2, <1>3, <1>4, <1>5, <1>6, <1>7, <1>8, <1>9, <1>10, <1>11, <1>12, <1>13, <1>14
     DEF Next, Environment, Callbacks, Timers
<1> QED BY <1>0, <1>15, EnvStep

\* A system that differs in its history alone.
LEMMA Forgotten ==
  ASSUME NEW P, NEW t, Ready(P, t), NEW w, w \in Systems(P), w.host = t.host, w.conn = t.conn
  PROVE  Ready(P, w)
<1>1. Valid(P, w)
  BY DEF Ready, Valid, Linked, Mirrored
<1> QED BY <1>1 DEF Ready, ArmedAt, TrustedAt, TxAuth

\* Nothing has been opened yet.
LEMMA Initially == Init => Inv
<1> SUFFICES ASSUME Init PROVE Inv
  OBVIOUS
<1>1. env \in Settings /\ env \in SettingRecords
  BY UnetmsgAssumption DEF Init
<1>2. PICK p \in env.peers : host = [h \in Hosts |-> NewHost(p)]
  BY DEF Init
<1>3. NewHost(p) \in HostStates(env.peers)
  <2>1. [k \in Kinds |-> 0] \in [Kinds -> 0 .. MaxHandles]
    BY UnetmsgAssumption
  <2> QED BY <2>1 DEF NewHost, HostStates
<1>4. host \in [Hosts -> HostStates(env.peers)]
  BY <1>2, <1>3
<1> DEFINE a == CHOOSE h \in Hosts : TRUE
           r == [from |-> a, tx |-> "closed", rx |-> "closed", list |-> {}, up |-> <<>>, down |-> <<>>]
<1>5. a \in Hosts
  <2>1. \E h \in Hosts : TRUE
    BY UnetmsgAssumption
  <2> QED BY <2>1
<1>6. conn = [c \in Conns |-> r]
  BY DEF Init
<1> HIDE DEF a
<1>7. r \in ConnStates /\ InStep(r)
  BY <1>5 DEF ConnStates, InStep, UpOrdered, DownOrdered, EndsInStep
<1>8. conn \in [Conns -> ConnStates]
  BY <1>6, <1>7
<1>9. TypeOK
  <2>1. env.events <= env.events /\ env.late <= env.late
    BY <1>1 DEF SettingRecords
  <2> QED BY <1>1, <1>4, <1>8, <2>1 DEF TypeOK, Init
<1>10. Sys \in Systems(env.peers)
  BY <1>4, <1>8 DEF Sys, Systems
<1>11. Sys.host = host /\ Sys.conn = conn
  BY DEF Sys
<1>12. \A h \in Hosts : /\ host[h].tx = NoConn /\ host[h].rx = NoConn /\ host[h].remote = {}
                        /\ host[h].timer = "short"
  BY <1>2 DEF NewHost
<1>13. \A c \in Conns : conn[c].rx # "auth" /\ InStep(conn[c])
  BY <1>6, <1>7
<1>14. Valid(env.peers, Sys)
  <2>1. Linked(Sys) /\ Mirrored(Sys)
    BY <1>11, <1>12, <1>13 DEF Linked, Mirrored
  <2> QED BY <1>10, <1>11, <1>13, <2>1 DEF Valid
<1>15. \A h \in Hosts : ArmedAt(Sys, h) /\ TrustedAt(env.peers, Sys, h)
  BY <1>11, <1>12 DEF ArmedAt, TrustedAt
<1> QED BY <1>9, <1>14, <1>15 DEF Inv, Ready

\* The invariant is inductive.
LEMMA Inductive == Inv /\ [Next]_vars => Inv'
<1> SUFFICES ASSUME Inv, [Next]_vars PROVE Inv'
  OBVIOUS
<1>1. CASE UNCHANGED vars
  <2>1. Sys' = Sys /\ env' = env
    BY <1>1 DEF vars, Sys
  <2>2. TypeOK'
    BY <1>1 DEF Inv, TypeOK, vars
  <2> QED BY <2>1, <2>2 DEF Inv
<1>2. CASE Next
  <2>1. Stepped /\ EnvOK(env') /\ env'.peers = env.peers
    BY <1>2, NextStep
  <2>2. PICK t : Become(t) /\ Good(env.peers, Sys, t)
    BY <2>1 DEF Stepped
  <2>3. Ready(env.peers, t) /\ t \in Systems(env.peers)
    BY <2>2 DEF Good, Ready, Valid
  <2>4. host' = t.host /\ conn' = t.conn /\ told' = t.told
    BY <2>2 DEF Become
  <2>5. /\ host' \in [Hosts -> HostStates(env.peers)] /\ conn' \in [Conns -> ConnStates]
        /\ told' \subseteq Hosts
    BY <2>3, <2>4, Parts
  <2>6. TypeOK'
    BY <2>1, <2>5 DEF TypeOK, EnvOK
  <2>7. Sys' \in Systems(env.peers) /\ Sys'.host = t.host /\ Sys'.conn = t.conn
    BY <2>4, <2>5 DEF Sys, Systems
  <2>8. Ready(env.peers, Sys')
    BY <2>3, <2>7, Forgotten
  <2> QED BY <2>1, <2>6, <2>8 DEF Inv
<1> QED BY <1>1, <1>2

\* Subscribers are told of what gets within reach.
LEMMA StepTells ==
  ASSUME Inv, Next, NEW h \in Hosts, ~Reach(Sys, h), Reach([host |-> host', conn |-> conn'], h),
         host[h].handles["subscribe"] > 0, host'[h].handles["subscribe"] > 0
  PROVE  h \in told'
<1>1. PICK t : Become(t) /\ Good(env.peers, Sys, t)
  BY NextStep DEF Stepped
<1>2. host' = t.host /\ conn' = t.conn /\ told' = t.told
  BY <1>1 DEF Become
<1>3. Reach(t, h)
  BY <1>2 DEF Reach, TxAuth
<1>4. TellingAt(Sys, t, h) /\ Sys.host = host
  BY <1>1, SysFacts DEF Good
<1> QED BY <1>2, <1>3, <1>4 DEF TellingAt

\* The specification keeps the invariant.
THEOREM Invariance == Spec => []Inv
BY Initially, Inductive, PTL DEF Spec

\* The daemons, their connections and what is queued on them are of their
\* types, however many connections and clients there are.
THEOREM TypeCorrect == Spec => []TypeOK
<1>1. Inv => TypeOK
  BY DEF Inv
<1> QED BY <1>1, Invariance, PTL

\* A peer without an authenticated outgoing connection has net.timer set,
\* whatever clients, unetd and the network do.
THEOREM RetryIsArmed == Spec => []RetryArmed
<1>1. Inv => RetryArmed
  BY SysFacts DEF Inv, Ready, ArmedAt, RetryArmed
<1> QED BY <1>1, Invariance, PTL

\* A host believes of the other one what the current incoming connection has
\* announced, and only what the peer is allowed to announce, as long as unetd
\* does not take the list of a peer away and set it up again.
THEOREM MirrorIsCurrent ==
  ASSUME \A s \in Settings : ~Mixed(s.peers)
  PROVE  Spec => []MirrorsCurrent
<1>1. Inv => MirrorsCurrent
  <2> SUFFICES ASSUME Inv PROVE MirrorsCurrent
    OBVIOUS
  <2>1. Sys.host = host /\ Sys.conn = conn /\ Mirrored(Sys)
    BY SysFacts DEF Valid
  <2>2. ~Mixed(env.peers)
    BY DEF Inv, TypeOK
  <2>3. \A h \in Hosts : TrustedAt(env.peers, Sys, h)
    BY SysFacts DEF Ready
  <2> QED BY <2>1, <2>2, <2>3 DEF MirrorsCurrent, Mirrored, TrustedAt
<1> QED BY <1>1, Invariance, PTL

\* The first half of that needs no such condition.
THEOREM MirrorMatches == Spec => []Mirrored(Sys)
<1>1. Inv => Mirrored(Sys)
  BY SysFacts DEF Valid
<1> QED BY <1>1, Invariance, PTL

\* Subscribers are told in the step in which a remote publisher gets within
\* reach, whichever of announcement and outgoing channel comes last.
THEOREM ToldInTime == Spec => ToldWhenReachable
<1>1. ASSUME Inv, [Next]_vars
      PROVE  [\A h \in Hosts :
                /\ ~Reach(Sys, h)
                /\ Reach([host |-> host', conn |-> conn'], h)
                /\ host[h].handles["subscribe"] > 0 /\ host'[h].handles["subscribe"] > 0
                => h \in told']_vars
  BY <1>1, StepTells
<1> QED BY <1>1, Invariance, PTL DEF Spec, ToldWhenReachable
=============================================================================
