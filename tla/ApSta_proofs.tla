---------------------------- MODULE ApSta_proofs ----------------------------
(***************************************************************************)
(* Proofs about ApSta, for any configurations and frequencies and any      *)
(* number of jobs, moves and faults.                                       *)
(*                                                                         *)
(* What hostapd and wpa_supplicant have settled on is right because of     *)
(* what is on its way before: the calls of hostapd are answered in the     *)
(* order in which they were made and only the answer to the last one       *)
(* counts, there is at most one notification of wpa_supplicant and nothing *)
(* behind it, and a client interface that does not run is going to be      *)
(* started by something that is still to come.                             *)
(***************************************************************************)
EXTENDS ApSta, TLAPS

-----------------------------------------------------------------------------
(* The invariant. *)

\* The last call, while it has not been read, is the one that is awaited.
LastCall(state) == CASE state = "check_phy" -> "status"
                     [] state = "wpas_stopped" -> "stop"
                     [] state = "none" -> "start"

\* Calls and their answers are in order.
CallsInOrder ==
  /\ \A i \in 1 .. Len(toWpas) : toWpas[i].call = calls - Len(toWpas) + i
  /\ \A i \in 1 .. Len(toHostapd) :
       toHostapd[i].kind = "reply" => toHostapd[i].call <= calls - Len(toWpas)
  /\ toWpas # <<>> => toWpas[Len(toWpas)].kind = LastCall(pending.state)
  /\ pending.state = "none" => \A i \in 1 .. Len(toWpas) : toWpas[i].kind = "start"

\* wpa_supplicant waits for the answer to its last message, which is about the
\* state that it is still in.
Notified ==
  /\ \A i \in 1 .. Len(toHostapd) :
       toHostapd[i].kind # "reply" => calling /\ i = Len(toHostapd)
  /\ calling => /\ toHostapd # <<>> /\ sta.running
                /\ LET m == toHostapd[Len(toHostapd)] IN
                   /\ m.freq = Target
                   /\ m.kind = sta.state \/ (m.kind = "csa" /\ sta.state = "completed")

\* The setup script starts what it has configured.
Starts(call) == call.to # "hostapd" /\ ~call.defer
StartsLater ==
  \A i \in 1 .. Len(script) :
    script[i].to # "hostapd" /\ script[i].defer /\ script[i].config # None =>
      \E j \in i + 1 .. Len(script) : Starts(script[j])

\* A client interface that does not run is started by something to come.
StartComes ==
  sta.config # None /\ ~sta.running =>
    \/ timers > 0
    \/ \E i \in 1 .. Len(script) : Starts(script[i])
    \/ toWpas # <<>>
    \/ pending.state = "wpas_stopped"
    \/ /\ pending.state = "check_phy"
       /\ \A i \in 1 .. Len(toHostapd) :
            toHostapd[i].kind = "reply" /\ toHostapd[i].call = calls => toHostapd[i].freq = None

\* The configuration that is pending, or else in use, is the last one.
ConfigCurrent ==
  /\ ap.state = "absent" => ap.config = None
  /\ pending.state # "none" => ap.state = "absent" /\ (unapplied \/ pending.config = config)
  /\ pending.state = "none" /\ ~unapplied =>
       ap.config = config \/ (faults > 0 /\ ap.state = "absent")

\* The access point is as the client interface needs it.
InTune(state, freq) ==
  /\ sta.state = "completed" => state \in {"up", "woken"} /\ freq = Target
  /\ sta.state = "scanning" => state \in {"stopped", "woken"}

\* It is, unless wpa_supplicant is about to say so.
Tuned ==
  ap.state # "absent" /\ sta.running /\ ~calling /\ ~missed => InTune(ap.state, ap.freq)

\* It will be once hostapd has read the answer that it waits for.
TunedByAnswer ==
  \A i \in 1 .. Len(toHostapd) :
    /\ toHostapd[i].kind = "reply" /\ toHostapd[i].call = calls
    /\ ~calling /\ sta.running /\ ~missed
    /\ pending.state = "wpas_stopped" \/ (pending.state = "check_phy" /\ toHostapd[i].freq # None)
    => InTune("up", IF pending.state = "check_phy" THEN toHostapd[i].freq ELSE "own")

Inv == /\ TypeOK /\ CallsInOrder /\ Notified /\ StartsLater /\ StartComes
       /\ ConfigCurrent /\ Tuned /\ TunedByAnswer

-----------------------------------------------------------------------------
(* Sequences. *)

\* What is left once the first element has been read.
LEMMA TailFacts ==
  ASSUME NEW S, NEW q \in Seq(S), q # <<>>
  PROVE  /\ Tail(q) \in Seq(S) /\ Len(q) \in Nat /\ Len(q) > 0 /\ Len(Tail(q)) = Len(q) - 1
         /\ Head(q) = q[1] /\ Head(q) \in S
         /\ \A i \in 1 .. Len(Tail(q)) : Tail(q)[i] = q[i + 1] /\ i + 1 \in 1 .. Len(q)
<1>1. Len(q) \in Nat /\ Len(q) > 0
  OBVIOUS
<1>2. Tail(q) \in Seq(S) /\ Len(Tail(q)) = Len(q) - 1
  OBVIOUS
<1>3. \A i \in 1 .. Len(Tail(q)) : Tail(q)[i] = q[i + 1]
  OBVIOUS
<1>4. Head(q) = q[1] /\ Head(q) \in S
  BY <1>1
<1> QED BY <1>1, <1>2, <1>3, <1>4

\* A message is sent.
LEMMA AppendFacts ==
  ASSUME NEW S, NEW q \in Seq(S), NEW m \in S
  PROVE  /\ Append(q, m) \in Seq(S) /\ Len(q) \in Nat /\ Len(Append(q, m)) = Len(q) + 1
         /\ Append(q, m)[Len(q) + 1] = m /\ Append(q, m) # <<>>
         /\ \A i \in 1 .. Len(q) : Append(q, m)[i] = q[i]
OBVIOUS

\* Nothing is left.
LEMMA EmptyFacts ==
  ASSUME NEW S, NEW q \in Seq(S)
  PROVE  Len(q) \in Nat /\ (q = <<>> <=> Len(q) = 0)
OBVIOUS

-----------------------------------------------------------------------------
(* Types. *)

\* The calls of hostapd.
LEMMA CallTypes ==
  /\ \A k \in {"status", "stop", "start"}, n \in Nat : [kind |-> k, call |-> n] \in WpasMsgs
  /\ \A m \in WpasMsgs : m.kind \in {"status", "stop", "start"} /\ m.call \in Nat
BY DEF WpasMsgs

\* The answers to them.
LEMMA AnswerTypes ==
  ASSUME NEW m \in WpasMsgs, NEW f \in ApChannels \union {None}
  PROVE  /\ Answer(m, f) \in HostapdMsgs /\ Answer(m, f).kind = "reply"
         /\ Answer(m, f).call = m.call /\ Answer(m, f).freq = f
<1>1. m.call \in Nat
  BY CallTypes
<1> QED BY <1>1 DEF Answer, HostapdMsgs

\* The notifications of wpa_supplicant.
LEMMA NoteTypes ==
  ASSUME NEW k \in {"idle", "scanning", "completed", "csa"}, NEW f \in ApChannels
  PROVE  [kind |-> k, call |-> 0, freq |-> f] \in HostapdMsgs
BY DEF HostapdMsgs

\* What hostapd reads.
LEMMA MessageTypes ==
  ASSUME NEW m \in HostapdMsgs
  PROVE  /\ m.kind \in {"reply", "idle", "scanning", "completed", "csa"}
         /\ m.kind # "reply" => m.freq \in ApChannels
         /\ m.freq \in ApChannels \union {None} /\ m.call \in Nat
BY DEF HostapdMsgs

Pendings == [state: {"none", "check_phy", "wpas_stopped"},
             config: ApConfigs \union {None}, call: Nat]
Aps == [state: {"absent", "up", "stopped", "woken"},
        config: [radio: Nat, bss: Nat] \union {None}, freq: ApChannels]
Stas == [config: StaConfigs \union {None}, running: BOOLEAN,
         state: StaStates, freq: ApChannels, csa: Freqs \union {None}]

\* What becomes of the client interface.
LEMMA StaTypes ==
  ASSUME sta \in Stas
  PROVE  /\ IfaceStop \in Stas /\ IfaceStop.config = sta.config /\ ~IfaceStop.running
         /\ StartPending \in Stas /\ StartPending.config = sta.config
         /\ sta.config # None => StartPending.running
         /\ StartPending = sta \/ StartPending.state = "new"
         /\ \A c \in StaConfigs \union {None} :
              /\ SetStaConfig(c) \in Stas /\ SetStaConfig(c).config = c
              /\ SetStaConfig(c) = sta \/ ~SetStaConfig(c).running
         /\ PhyStatus \in ApChannels \union {None}
         /\ \A k \in StaStates, f \in ApChannels :
              LET n == [sta EXCEPT !.state = k, !.freq = f, !.csa = None] IN
              /\ n \in Stas /\ n.config = sta.config /\ n.running = sta.running
              /\ n.state = k /\ n.freq = f /\ n.csa = None
         /\ \A f \in Freqs :
              LET n == [sta EXCEPT !.csa = f] IN
              /\ n \in Stas /\ n.config = sta.config /\ n.running = sta.running
              /\ n.state = sta.state /\ n.csa = f
<1>1. "own" \in ApChannels /\ "new" \in StaStates
  BY DEF ApChannels, StaStates
<1>2. IfaceStop \in Stas /\ IfaceStop.config = sta.config /\ ~IfaceStop.running
  BY <1>1 DEF Stas, IfaceStop
<1>3. /\ StartPending \in Stas /\ StartPending.config = sta.config
      /\ sta.config # None => StartPending.running
      /\ StartPending = sta \/ StartPending.state = "new"
  BY <1>1 DEF Stas, StartPending
<1>4. ASSUME NEW c \in StaConfigs \union {None}
      PROVE  /\ SetStaConfig(c) \in Stas /\ SetStaConfig(c).config = c
             /\ SetStaConfig(c) = sta \/ ~SetStaConfig(c).running
  BY <1>2 DEF SetStaConfig, Stas
<1>5. PhyStatus \in ApChannels \union {None}
  BY DEF PhyStatus, Stas
<1>6. ASSUME NEW k \in StaStates, NEW f \in ApChannels
      PROVE  LET n == [sta EXCEPT !.state = k, !.freq = f, !.csa = None] IN
             /\ n \in Stas /\ n.config = sta.config /\ n.running = sta.running
             /\ n.state = k /\ n.freq = f /\ n.csa = None
  BY DEF Stas
<1>7. ASSUME NEW f \in Freqs
      PROVE  LET n == [sta EXCEPT !.csa = f] IN
             /\ n \in Stas /\ n.config = sta.config /\ n.running = sta.running
             /\ n.state = sta.state /\ n.csa = f
  BY DEF Stas
<1> QED BY <1>2, <1>3, <1>4, <1>5, <1>6, <1>7

\* What becomes of the access point.
LEMMA FollowedTypes ==
  ASSUME ap \in Aps, NEW m \in HostapdMsgs, m.kind # "reply", NEW a \in Followed(m)
  PROVE  /\ a \in Aps /\ a.config = ap.config
         /\ m.kind = "scanning" => a.state = "stopped"
         /\ m.kind = "completed" => a.state \in {"up", "woken"} /\ a.freq = m.freq
         /\ ap.state # "absent" => a.state # "absent"
<1>1. m.kind \in {"idle", "scanning", "completed", "csa"} /\ m.freq \in ApChannels
  BY MessageTypes
<1>2. CASE m.kind = "scanning"
  BY <1>1, <1>2 DEF Followed, Aps
<1>3. CASE m.kind = "idle"
  BY <1>1, <1>3 DEF Followed, Aps
<1>4. CASE m.kind = "completed"
  BY <1>1, <1>4 DEF Followed, Aps
<1>5. CASE m.kind = "csa"
  BY <1>1, <1>5 DEF Followed, Aps
<1> QED BY <1>1, <1>2, <1>3, <1>4, <1>5

-----------------------------------------------------------------------------
(* The actions. *)

\* The types, by name.
LEMMA TypeParts ==
  ASSUME TypeOK
  PROVE  /\ pending \in Pendings /\ ap \in Aps /\ sta \in Stas
         /\ toWpas \in Seq(WpasMsgs) /\ toHostapd \in Seq(HostapdMsgs)
         /\ script \in Seq(ScriptCalls)
         /\ calls \in Nat /\ timers \in Nat /\ calling \in BOOLEAN
         /\ pending.state \in {"none", "check_phy", "wpas_stopped"}
         /\ pending.state # "none" => pending.config # None /\ pending.call = calls
         /\ pending.config \in ApConfigs \union {None}
         /\ ap.state \in {"absent", "up", "stopped", "woken"}
         /\ ap.state # "absent" => ap.config \in [radio: Nat, bss: Nat]
         /\ sta.running \in BOOLEAN /\ sta.state \in StaStates /\ sta.freq \in ApChannels
         /\ Len(toWpas) \in Nat /\ Len(toHostapd) \in Nat /\ Len(script) \in Nat
<1>1. /\ pending \in Pendings /\ ap \in Aps /\ sta \in Stas
      /\ toWpas \in Seq(WpasMsgs) /\ toHostapd \in Seq(HostapdMsgs)
      /\ script \in Seq(ScriptCalls)
      /\ calls \in Nat /\ timers \in Nat /\ calling \in BOOLEAN
      /\ pending.state # "none" => pending.config # None /\ pending.call = calls
      /\ ap.state # "absent" => ap.config # None
  BY DEF TypeOK, Pendings, Aps, Stas
<1>2. Len(toWpas) \in Nat /\ Len(toHostapd) \in Nat /\ Len(script) \in Nat
  BY <1>1
<1> QED BY <1>1, <1>2 DEF Pendings, Aps, Stas

\* phy_status and phy_set_state.
LEMMA WpasRequestStep ==
  ASSUME Inv, WpasRequest
  PROVE  Inv'
<1> DEFINE m == Head(toWpas)
           n == Len(toWpas)
           f == IF m.kind = "status" THEN PhyStatus ELSE None
           a == Answer(m, f)
<1>0. TypeOK /\ CallsInOrder /\ Notified /\ StartsLater /\ StartComes
      /\ ConfigCurrent /\ Tuned /\ TunedByAnswer
  BY DEF Inv
<1>1. /\ toWpas # <<>> /\ ~calling /\ toWpas' = Tail(toWpas) /\ toHostapd' = Append(toHostapd, a)
      /\ sta' = (CASE m.kind = "stop" -> IfaceStop
                  [] m.kind = "start" -> StartPending
                  [] m.kind = "status" -> sta)
      /\ config' = config /\ pending' = pending /\ ap' = ap /\ calls' = calls
      /\ faults' = faults /\ unapplied' = unapplied /\ timers' = timers /\ calling' = calling
      /\ missed' = IF m.kind = "status" THEN sta.csa # None ELSE missed
      /\ script' = script /\ jobs' = jobs /\ moves' = moves
  BY DEF WpasRequest, hostapd
<1>2. /\ pending.state \in {"none", "check_phy", "wpas_stopped"} /\ calls \in Nat
      /\ sta \in Stas /\ toWpas \in Seq(WpasMsgs) /\ toHostapd \in Seq(HostapdMsgs)
      /\ Len(toHostapd) \in Nat
  BY <1>0, TypeParts
<1>3. /\ Tail(toWpas) \in Seq(WpasMsgs) /\ n \in Nat /\ n > 0 /\ Len(Tail(toWpas)) = n - 1
      /\ m = toWpas[1] /\ m \in WpasMsgs
      /\ \A i \in 1 .. Len(Tail(toWpas)) : Tail(toWpas)[i] = toWpas[i + 1] /\ i + 1 \in 1 .. n
  BY <1>1, <1>2, TailFacts
<1>4. m.kind \in {"status", "stop", "start"} /\ f \in ApChannels \union {None}
  BY <1>2, <1>3, CallTypes, StaTypes
<1>5. a \in HostapdMsgs /\ a.kind = "reply" /\ a.call = m.call /\ a.freq = f
  BY <1>3, <1>4, AnswerTypes
<1>6. /\ Append(toHostapd, a) \in Seq(HostapdMsgs)
      /\ Len(Append(toHostapd, a)) = Len(toHostapd) + 1
      /\ Append(toHostapd, a)[Len(toHostapd) + 1] = a
      /\ \A i \in 1 .. Len(toHostapd) : Append(toHostapd, a)[i] = toHostapd[i]
  BY <1>2, <1>5, AppendFacts
<1>7. /\ m.kind = "status" => sta' = sta
      /\ m.kind = "stop" => sta' = IfaceStop
      /\ m.kind = "start" => sta' = StartPending
  BY <1>1
<1>8. m.call = calls - n + 1
  BY <1>0, <1>3 DEF CallsInOrder
<1>9. f # None /\ m.kind = "status" => sta.running /\ sta.state = "completed" /\ f = sta.freq
  BY DEF PhyStatus
<1>10. ~sta.running => f = None
  BY DEF PhyStatus
<1> HIDE DEF m, n, f, a
<1>11. n = 1 => m.kind = LastCall(pending.state)
  BY <1>0, <1>1, <1>3 DEF CallsInOrder, n
<1>12. /\ pending.state = "none" => m.kind = "start"
       /\ n = 1 /\ pending.state = "check_phy" => m.kind = "status"
       /\ n = 1 /\ pending.state = "wpas_stopped" => m.kind = "stop"
  BY <1>0, <1>3, <1>11 DEF CallsInOrder, LastCall, n
<1>13. sta' \in Stas
  BY <1>2, <1>4, <1>7, StaTypes
<1>14. TypeOK'
  <2>1. missed' \in BOOLEAN
    BY <1>0, <1>1 DEF TypeOK
  <2> QED BY <1>0, <1>1, <1>3, <1>6, <1>13, <2>1 DEF TypeOK, Stas
<1>15. CallsInOrder'
  <2>1. ASSUME NEW i \in 1 .. Len(toWpas') PROVE toWpas'[i].call = calls' - Len(toWpas') + i
    BY <1>0, <1>1, <1>2, <1>3 DEF CallsInOrder, n
  <2>2. ASSUME NEW i \in 1 .. Len(toHostapd'), toHostapd'[i].kind = "reply"
        PROVE  toHostapd'[i].call <= calls' - Len(toWpas')
    <3>1. CASE i \in 1 .. Len(toHostapd)
      <4>1. toHostapd[i].call <= calls - n
        BY <1>0, <1>1, <1>6, <2>2, <3>1 DEF CallsInOrder, n
      <4>2. toHostapd[i] \in HostapdMsgs
        BY <1>2, <3>1
      <4> QED BY <1>1, <1>2, <1>3, <1>6, <3>1, <4>1, <4>2, MessageTypes
    <3>2. CASE i = Len(toHostapd) + 1
      BY <1>1, <1>2, <1>3, <1>5, <1>6, <1>8, <3>2
    <3> QED BY <1>1, <1>2, <1>6, <2>2, <3>1, <3>2
  <2>3. toWpas' # <<>> => toWpas'[Len(toWpas')].kind = LastCall(pending'.state)
    BY <1>0, <1>1, <1>3, EmptyFacts DEF CallsInOrder, n
  <2>4. pending'.state = "none" => \A i \in 1 .. Len(toWpas') : toWpas'[i].kind = "start"
    BY <1>0, <1>1, <1>3 DEF CallsInOrder, n
  <2> QED BY <2>1, <2>2, <2>3, <2>4 DEF CallsInOrder
<1>16. Notified'
  <2>1. ASSUME NEW i \in 1 .. Len(toHostapd') PROVE toHostapd'[i].kind = "reply"
    <3>1. CASE i \in 1 .. Len(toHostapd)
      BY <1>0, <1>1, <1>6, <3>1 DEF Notified
    <3>2. CASE i = Len(toHostapd) + 1
      BY <1>1, <1>5, <1>6, <3>2
    <3> QED BY <1>1, <1>2, <1>6, <3>1, <3>2
  <2> QED BY <1>1, <2>1 DEF Notified
<1>17. StartsLater'
  BY <1>0, <1>1 DEF StartsLater
<1>18. ASSUME n = 1, NEW i \in 1 .. Len(toHostapd'),
              toHostapd'[i].kind = "reply", toHostapd'[i].call = calls
       PROVE  toHostapd'[i].freq = f
  <2>1. CASE i \in 1 .. Len(toHostapd)
    <3>1. toHostapd[i].call <= calls - n
      BY <1>0, <1>1, <1>6, <1>18, <2>1 DEF CallsInOrder, n
    <3> QED BY <1>1, <1>2, <1>6, <1>18, <2>1, <3>1
  <2>2. CASE i = Len(toHostapd) + 1
    BY <1>1, <1>5, <1>6, <2>2
  <2> QED BY <1>1, <1>2, <1>6, <2>1, <2>2
<1>19. ASSUME n # 1, NEW i \in 1 .. Len(toHostapd')
       PROVE  ~(toHostapd'[i].kind = "reply" /\ toHostapd'[i].call = calls)
  <2>1. CASE i \in 1 .. Len(toHostapd)
    <3>1. toHostapd[i].kind = "reply" => toHostapd[i].call <= calls - n
      BY <1>0, <2>1 DEF CallsInOrder, n
    <3> QED BY <1>1, <1>2, <1>3, <1>6, <2>1, <3>1
  <2>2. CASE i = Len(toHostapd) + 1
    BY <1>1, <1>2, <1>3, <1>5, <1>6, <1>8, <1>19, <2>2
  <2> QED BY <1>1, <1>2, <1>6, <2>1, <2>2
<1>20. StartComes'
  <2>1. CASE n # 1
    <3>1. toWpas' # <<>>
      BY <1>1, <1>3, <2>1, EmptyFacts
    <3> QED BY <3>1 DEF StartComes
  <2>2. CASE n = 1 /\ pending.state = "none"
    <3>1. sta'.config # None => sta'.running
      BY <1>2, <1>7, <1>12, <2>2, StaTypes
    <3> QED BY <3>1 DEF StartComes
  <2>3. CASE n = 1 /\ pending.state = "wpas_stopped"
    BY <1>1, <2>3 DEF StartComes
  <2>4. CASE n = 1 /\ pending.state = "check_phy"
    BY <1>1, <1>7, <1>10, <1>12, <1>18, <2>4 DEF StartComes
  <2> QED BY <1>2, <2>1, <2>2, <2>3, <2>4
<1>21. ConfigCurrent'
  BY <1>0, <1>1 DEF ConfigCurrent
<1>22. Tuned'
  <2>1. ASSUME ap.state # "absent", sta'.running, ~missed' PROVE InTune(ap.state, ap.freq)'
    <3>1. sta' = StartPending /\ missed' = missed
      BY <1>0, <1>1, <1>2, <1>7, <1>12, <2>1 DEF ConfigCurrent
    <3>2. CASE StartPending = sta
      <4>1. sta' = sta /\ ap' = ap
        BY <1>1, <3>1, <3>2
      <4>2. ~calling
        BY <1>1
      <4>3. ~missed
        BY <2>1, <3>1, Zenon
      <4>4. sta.running
        BY <2>1, <4>1, Zenon
      <4>5. InTune(ap.state, ap.freq)
        BY <1>0, <2>1, <4>2, <4>3, <4>4 DEF Tuned
      <4> QED BY <4>1, <4>5 DEF InTune, Target
    <3>3. CASE StartPending.state = "new"
      BY <3>1, <3>3 DEF InTune
    <3> QED BY <1>2, <3>2, <3>3, StaTypes
  <2> QED BY <1>1, <2>1 DEF Tuned
<1>23. TunedByAnswer'
  <2> SUFFICES ASSUME NEW i \in 1 .. Len(toHostapd'),
                      toHostapd'[i].kind = "reply", toHostapd'[i].call = calls', sta'.running, ~missed',
                      pending'.state = "wpas_stopped"
                        \/ (pending'.state = "check_phy" /\ toHostapd'[i].freq # None)
               PROVE  InTune("up", IF pending.state = "check_phy" THEN toHostapd[i].freq ELSE "own")'
    BY DEF TunedByAnswer
  <2>1. n = 1 /\ toHostapd'[i].freq = f
    BY <1>1, <1>18, <1>19
  <2>2. CASE pending.state = "wpas_stopped"
    BY <1>2, <1>7, <1>12, <2>1, <2>2, StaTypes
  <2>3. CASE pending.state = "check_phy" /\ f # None
    BY <1>1, <1>7, <1>9, <1>12, <2>1, <2>3 DEF InTune, Target
  <2> QED BY <1>1, <2>1, <2>2, <2>3
<1> QED BY <1>14, <1>15, <1>16, <1>17, <1>20, <1>21, <1>22, <1>23 DEF Inv

\* The timer of config_set.
LEMMA StartTimerStep ==
  ASSUME Inv, StartTimer
  PROVE  Inv'
<1>0. TypeOK /\ CallsInOrder /\ Notified /\ StartsLater /\ StartComes
      /\ ConfigCurrent /\ Tuned /\ TunedByAnswer
  BY DEF Inv
<1>1. /\ timers > 0 /\ ~calling /\ timers' = timers - 1 /\ sta' = StartPending
      /\ config' = config /\ pending' = pending /\ ap' = ap /\ calls' = calls
      /\ faults' = faults /\ unapplied' = unapplied /\ missed' = missed /\ calling' = calling
      /\ toWpas' = toWpas /\ toHostapd' = toHostapd
      /\ script' = script /\ jobs' = jobs /\ moves' = moves
  BY DEF StartTimer, hostapd
<1>2. sta \in Stas /\ timers \in Nat
  BY <1>0, TypeParts
<1>3. /\ sta' \in Stas /\ (sta'.config # None => sta'.running)
      /\ sta' = sta \/ sta'.state = "new"
  BY <1>1, <1>2, StaTypes
<1>4. TypeOK'
  BY <1>0, <1>1, <1>2, <1>3 DEF TypeOK, Stas
<1>5. CallsInOrder' /\ StartsLater' /\ ConfigCurrent'
  BY <1>0, <1>1 DEF CallsInOrder, StartsLater, ConfigCurrent
<1>6. Notified'
  BY <1>0, <1>1 DEF Notified
<1>7. StartComes'
  BY <1>3 DEF StartComes
<1>8. Tuned'
  BY <1>0, <1>1, <1>3 DEF Tuned, InTune, Target
<1>9. TunedByAnswer'
  BY <1>0, <1>1, <1>3 DEF TunedByAnswer, InTune, Target
<1> QED BY <1>4, <1>5, <1>6, <1>7, <1>8, <1>9 DEF Inv

\* The client interface changes, and hostapd is called.
LEMMA NotifyStep ==
  ASSUME Inv, ~calling, sta.running, moves < MaxMoves, moves' = moves + 1,
         NEW k \in {"idle", "scanning", "completed", "csa"}, NEW f \in ApChannels,
         NEW state \in StaStates, state # "new", k = state \/ (k = "csa" /\ state = "completed"),
         sta' \in Stas, sta'.config = sta.config, sta'.running, sta'.state = state, Target' = f,
         toHostapd' = Append(toHostapd, [kind |-> k, call |-> 0, freq |-> f]), calling' = TRUE,
         UNCHANGED <<hostapd, timers, missed, toWpas, script, jobs>>
  PROVE  Inv'
<1> DEFINE a == [kind |-> k, call |-> 0, freq |-> f]
<1>0. TypeOK /\ CallsInOrder /\ Notified /\ StartsLater /\ StartComes
      /\ ConfigCurrent /\ Tuned /\ TunedByAnswer
  BY DEF Inv
<1>1. /\ config' = config /\ pending' = pending /\ ap' = ap /\ calls' = calls
      /\ faults' = faults /\ unapplied' = unapplied /\ missed' = missed /\ timers' = timers
      /\ toWpas' = toWpas /\ script' = script /\ jobs' = jobs
  BY DEF hostapd
<1>2. toHostapd \in Seq(HostapdMsgs) /\ Len(toHostapd) \in Nat
  BY <1>0, TypeParts
<1>3. a \in HostapdMsgs /\ a.kind = k /\ a.freq = f
  BY NoteTypes
<1>4. toHostapd' = Append(toHostapd, a)
  OBVIOUS
<1> HIDE DEF a
<1>5. /\ toHostapd' \in Seq(HostapdMsgs) /\ Len(toHostapd') = Len(toHostapd) + 1
      /\ toHostapd'[Len(toHostapd) + 1] = a /\ toHostapd' # <<>>
      /\ \A i \in 1 .. Len(toHostapd) : toHostapd'[i] = toHostapd[i]
  BY <1>2, <1>3, <1>4, AppendFacts
<1>6. moves' \in 0 .. MaxMoves
  <2>1. moves \in 0 .. MaxMoves
    BY <1>0 DEF TypeOK
  <2> QED BY <2>1, ApStaAssumption
<1>7. TypeOK'
  BY <1>0, <1>1, <1>5, <1>6 DEF TypeOK, Stas
<1>8. \A i \in 1 .. Len(toHostapd') : i \in 1 .. Len(toHostapd) \/ i = Len(toHostapd) + 1
  BY <1>2, <1>5
<1>9. \A i \in 1 .. Len(toHostapd') : toHostapd'[i].kind = "reply" =>
        i \in 1 .. Len(toHostapd) /\ toHostapd'[i] = toHostapd[i]
  BY <1>3, <1>5, <1>8
<1>10. CallsInOrder'
  BY <1>0, <1>1, <1>9 DEF CallsInOrder
<1>11. Notified'
  <2>1. \A i \in 1 .. Len(toHostapd) : toHostapd[i].kind = "reply"
    BY <1>0 DEF Notified
  <2>2. \A i \in 1 .. Len(toHostapd') : toHostapd'[i].kind # "reply" => i = Len(toHostapd')
    BY <1>5, <1>8, <2>1
  <2> QED BY <1>3, <1>5, <2>2 DEF Notified
<1>12. StartsLater' /\ ConfigCurrent'
  BY <1>0, <1>1 DEF StartsLater, ConfigCurrent
<1>13. StartComes'
  BY DEF StartComes
<1>14. Tuned'
  BY DEF Tuned
<1>15. TunedByAnswer'
  BY DEF TunedByAnswer
<1> QED BY <1>7, <1>10, <1>11, <1>12, <1>13, <1>14, <1>15 DEF Inv

\* state.
LEMMA StaStateStep ==
  ASSUME Inv, NEW k, NEW f \in ApChannels, k \in {"idle", "scanning", "completed"}, StaState(k, f)
  PROVE  Inv'
<1>1. sta \in Stas
  BY TypeParts DEF Inv
<1>2. /\ sta' \in Stas /\ sta'.config = sta.config /\ sta'.running
      /\ sta'.state = k /\ sta'.freq = f /\ sta'.csa = None
  <2>1. k \in StaStates /\ sta.running /\ sta' = [sta EXCEPT !.state = k, !.freq = f, !.csa = None]
    BY DEF StaState, StaStates
  <2> QED BY <1>1, <2>1, StaTypes
<1>3. Target' = f
  BY <1>2 DEF Target
<1> QED BY <1>2, <1>3, NotifyStep DEF StaState, StaStates

\* CH_SWITCH_STARTED.
LEMMA ChannelSwitchStep ==
  ASSUME Inv, NEW f \in Freqs, ChannelSwitch(f)
  PROVE  Inv'
<1>1. sta \in Stas
  BY TypeParts DEF Inv
<1>2. /\ sta' \in Stas /\ sta'.config = sta.config /\ sta'.running
      /\ sta'.state = "completed" /\ sta'.csa = f
  <2>1. sta.running /\ sta.state = "completed" /\ sta' = [sta EXCEPT !.csa = f]
    BY DEF ChannelSwitch
  <2> QED BY <1>1, <2>1, StaTypes
<1>3. Target' = f
  BY <1>2, ApStaAssumption DEF Target
<1>4. f \in ApChannels
  BY DEF ApChannels
<1> QED BY <1>2, <1>3, <1>4, NotifyStep DEF ChannelSwitch, StaStates

\* The end of the switch.
LEMMA SwitchDoneStep ==
  ASSUME Inv, SwitchDone
  PROVE  Inv'
<1>0. TypeOK /\ CallsInOrder /\ Notified /\ StartsLater /\ StartComes
      /\ ConfigCurrent /\ Tuned /\ TunedByAnswer
  BY DEF Inv
<1>1. /\ sta.csa # None /\ ~calling /\ sta' = [sta EXCEPT !.freq = sta.csa, !.csa = None]
      /\ config' = config /\ pending' = pending /\ ap' = ap /\ calls' = calls
      /\ faults' = faults /\ unapplied' = unapplied /\ missed' = missed /\ calling' = calling
      /\ toWpas' = toWpas /\ toHostapd' = toHostapd /\ timers' = timers
      /\ script' = script /\ jobs' = jobs /\ moves' = moves
  BY DEF SwitchDone, hostapd
<1>2. /\ sta' \in Stas /\ sta'.config = sta.config /\ sta'.running = sta.running
      /\ sta'.state = sta.state /\ sta'.freq = sta.csa /\ sta'.csa = None
  <2>1. sta \in Stas
    BY <1>0, TypeParts
  <2> QED BY <1>1, <2>1 DEF Stas, ApChannels
<1>3. Target' = Target
  BY <1>1, <1>2 DEF Target
<1>4. TypeOK'
  BY <1>0, <1>1, <1>2 DEF TypeOK, Stas
<1>5. CallsInOrder' /\ StartsLater' /\ ConfigCurrent'
  BY <1>0, <1>1 DEF CallsInOrder, StartsLater, ConfigCurrent
<1>6. Notified'
  BY <1>0, <1>1 DEF Notified
<1>7. StartComes'
  BY <1>0, <1>1, <1>2 DEF StartComes
<1>8. Tuned'
  BY <1>0, <1>1, <1>2, <1>3 DEF Tuned, InTune
<1>9. TunedByAnswer'
  BY <1>0, <1>1, <1>2, <1>3 DEF TunedByAnswer, InTune
<1> QED BY <1>4, <1>5, <1>6, <1>7, <1>8, <1>9 DEF Inv

\* apsta_state.
LEMMA ApstaStateStep ==
  ASSUME Inv, ApstaState
  PROVE  Inv'
<1> DEFINE m == Head(toHostapd)
           n == Len(toHostapd)
<1>0. TypeOK /\ CallsInOrder /\ Notified /\ StartsLater /\ StartComes
      /\ ConfigCurrent /\ Tuned /\ TunedByAnswer
  BY DEF Inv
<1>1. /\ toHostapd # <<>> /\ m.kind # "reply" /\ toHostapd' = Tail(toHostapd)
      /\ calling' = FALSE
      /\ config' = config /\ pending' = pending /\ calls' = calls
      /\ unapplied' = unapplied /\ missed' = Misses(m) /\ timers' = timers /\ sta' = sta
      /\ toWpas' = toWpas /\ script' = script /\ jobs' = jobs /\ moves' = moves
  BY DEF ApstaState
<1>2. /\ ~Reached => ap' = ap /\ faults' = faults
      /\ Reached => \/ ap' \in Followed(m) /\ faults' = faults
                    \/ m.kind = "csa" /\ faults < MaxFaults /\ faults' = faults + 1 /\ ap' = ap
  BY DEF ApstaState, Obeys
<1>3. toHostapd \in Seq(HostapdMsgs) /\ n \in Nat /\ ap \in Aps
  BY <1>0, TypeParts
<1>4. /\ Tail(toHostapd) \in Seq(HostapdMsgs) /\ n > 0 /\ Len(Tail(toHostapd)) = n - 1
      /\ m = toHostapd[1] /\ m \in HostapdMsgs
  BY <1>1, <1>3, TailFacts
<1>5. n = 1 /\ calling
  <2>1. \A i \in 1 .. n : toHostapd[i].kind # "reply" => calling /\ i = n
    BY <1>0 DEF Notified
  <2> HIDE DEF n, m
  <2>2. 1 \in 1 .. n
    BY <1>3, <1>4
  <2> QED BY <1>1, <1>4, <2>1, <2>2
<1>6. Len(toHostapd') = 0
  BY <1>1, <1>4, <1>5
<1>7. /\ sta.running /\ m.freq = Target
      /\ m.kind = sta.state \/ (m.kind = "csa" /\ sta.state = "completed")
  BY <1>0, <1>4, <1>5 DEF Notified
<1> HIDE DEF m, n
<1>8. /\ ap' \in Aps /\ ap'.config = ap.config
      /\ ap.state = "absent" <=> ap'.state = "absent"
      /\ Reached =>
           /\ m.kind = "scanning" => ap'.state = "stopped"
           /\ m.kind = "completed" => ap'.state \in {"up", "woken"} /\ ap'.freq = m.freq
  <2>1. CASE ap' = ap /\ (Reached => m.kind = "csa")
    BY <1>3, <2>1
  <2>2. CASE Reached /\ ap' \in Followed(m)
    BY <1>1, <1>3, <1>4, <2>2, FollowedTypes DEF Reached
  <2> QED BY <1>2, <2>1, <2>2
<1>9. TypeOK'
  <2>1. faults \in 0 .. MaxFaults /\ MaxFaults \in Nat
    BY <1>0, ApStaAssumption DEF TypeOK
  <2>2. faults' \in 0 .. MaxFaults
    BY <1>2, <2>1
  <2>3. missed' \in BOOLEAN
    BY <1>0, <1>1 DEF TypeOK, Misses
  <2> QED BY <1>0, <1>1, <1>4, <1>8, <2>2, <2>3 DEF TypeOK, Aps
<1>10. CallsInOrder'
  BY <1>0, <1>1, <1>6 DEF CallsInOrder
<1>11. Notified'
  <2>1. \A i \in 1 .. Len(toHostapd') : FALSE
    BY <1>6
  <2> QED BY <1>1, <2>1 DEF Notified
<1>12. StartsLater'
  BY <1>0, <1>1 DEF StartsLater
<1>13. StartComes'
  BY <1>7, <1>1 DEF StartComes
<1>14. ConfigCurrent'
  <2>1. faults' > 0 \/ ~(faults > 0)
    <3>1. faults \in 0 .. MaxFaults /\ MaxFaults \in Nat
      BY <1>0, ApStaAssumption DEF TypeOK
    <3> QED BY <1>2, <3>1
  <2> QED BY <1>0, <1>1, <1>8, <2>1 DEF ConfigCurrent
<1>15. Tuned'
  <2> SUFFICES ASSUME ap'.state # "absent", ~missed' PROVE InTune(ap.state, ap.freq)'
    BY DEF Tuned
  <2>1. Reached
    BY <1>1, <1>8 DEF Misses, Reached
  <2>2. m.kind = "csa" => ap'.freq = m.freq /\ ap'.state # "stopped"
    BY <1>1, <2>1 DEF Misses
  <2>3. ap'.state \in {"absent", "up", "stopped", "woken"}
    BY <1>8 DEF Aps
  <2> QED BY <1>1, <1>7, <1>8, <2>1, <2>2, <2>3 DEF InTune, Target
<1>16. TunedByAnswer'
  BY <1>6 DEF TunedByAnswer
<1> QED BY <1>9, <1>10, <1>11, <1>12, <1>13, <1>14, <1>15, <1>16 DEF Inv

\* hostapd has read an answer.
LEMMA AnswerRead ==
  ASSUME TypeOK, CallsInOrder, Notified, toHostapd # <<>>, Head(toHostapd).kind = "reply",
         toHostapd' = Tail(toHostapd), UNCHANGED wpas
  PROVE  /\ toHostapd' \in Seq(HostapdMsgs) /\ Notified'
         /\ Head(toHostapd) \in HostapdMsgs
         /\ Head(toHostapd) = toHostapd[1] /\ 1 \in 1 .. Len(toHostapd)
         /\ \A i \in 1 .. Len(toHostapd') : /\ toHostapd'[i] = toHostapd[i + 1]
                                            /\ i + 1 \in 1 .. Len(toHostapd)
         /\ calling => toHostapd'[Len(toHostapd')] = toHostapd[Len(toHostapd)]
         /\ Head(toHostapd).call = calls => toWpas = <<>>
<1> DEFINE n == Len(toHostapd)
<1>1. /\ toHostapd \in Seq(HostapdMsgs) /\ n \in Nat /\ calls \in Nat
      /\ toWpas \in Seq(WpasMsgs) /\ Len(toWpas) \in Nat
  BY TypeParts
<1>2. /\ Tail(toHostapd) \in Seq(HostapdMsgs) /\ n > 0 /\ Len(Tail(toHostapd)) = n - 1
      /\ Head(toHostapd) = toHostapd[1] /\ Head(toHostapd) \in HostapdMsgs
      /\ \A i \in 1 .. Len(Tail(toHostapd)) : Tail(toHostapd)[i] = toHostapd[i + 1] /\ i + 1 \in 1 .. n
  BY <1>1, TailFacts
<1>3. 1 \in 1 .. n
  BY <1>1, <1>2
<1>4. ASSUME calling
      PROVE  toHostapd[n].kind # "reply" /\ n > 1
  <2>1. sta.state \in StaStates
    BY TypeParts
  <2>2. toHostapd[n].kind # "reply"
    BY <1>4, <2>1 DEF Notified, StaStates
  <2>3. n # 1
    BY <1>2, <2>2
  <2> QED BY <1>1, <1>2, <2>2, <2>3
<1> HIDE DEF n
<1>5. calling => toHostapd'[Len(toHostapd')] = toHostapd[n]
  <2> SUFFICES ASSUME calling PROVE toHostapd'[Len(toHostapd')] = toHostapd[n]
    OBVIOUS
  <2>1. n - 1 \in 1 .. Len(Tail(toHostapd)) /\ (n - 1) + 1 = n
    BY <1>1, <1>2, <1>4
  <2> QED BY <1>2, <2>1
<1>6. Notified'
  <2>1. ASSUME NEW i \in 1 .. Len(toHostapd'), toHostapd'[i].kind # "reply"
        PROVE  calling /\ i = Len(toHostapd')
    <3>1. toHostapd[i + 1].kind # "reply" /\ i + 1 \in 1 .. n
      BY <1>2, <2>1
    <3>2. calling /\ i + 1 = n
      BY <3>1 DEF Notified, n
    <3> QED BY <1>1, <1>2, <3>2
  <2>2. calling => toHostapd' # <<>>
    <3>1. calling => Len(toHostapd') # 0
      BY <1>1, <1>2, <1>4
    <3> QED BY <1>2, <3>1, EmptyFacts
  <2>3. sta' = sta /\ calling' = calling
    BY DEF wpas
  <2> QED BY <1>5, <2>1, <2>2, <2>3 DEF Notified, Target, n
<1>7. Head(toHostapd).call = calls => toWpas = <<>>
  <2>1. toHostapd[1].call <= calls - Len(toWpas)
    BY <1>2, <1>3 DEF CallsInOrder, n
  <2> QED BY <1>1, <1>2, <2>1, EmptyFacts
<1> QED BY <1>2, <1>3, <1>5, <1>6, <1>7 DEF n

\* An answer that is not awaited.
LEMMA ReplyDropped ==
  ASSUME Inv, toHostapd # <<>>, Head(toHostapd).kind = "reply", toHostapd' = Tail(toHostapd),
         UNCHANGED <<pending, ap, calls, faults, toWpas, config, unapplied, wpas, missed,
                     script, jobs, moves>>
  PROVE  Inv'
<1>0. TypeOK /\ CallsInOrder /\ Notified /\ StartsLater /\ StartComes
      /\ ConfigCurrent /\ Tuned /\ TunedByAnswer
  BY DEF Inv
<1>1. /\ toHostapd' \in Seq(HostapdMsgs) /\ Notified'
      /\ \A i \in 1 .. Len(toHostapd') : /\ toHostapd'[i] = toHostapd[i + 1]
                                         /\ i + 1 \in 1 .. Len(toHostapd)
      /\ calling => toHostapd'[Len(toHostapd')] = toHostapd[Len(toHostapd)]
  BY <1>0, AnswerRead
<1>2. /\ pending' = pending /\ ap' = ap /\ calls' = calls /\ faults' = faults /\ toWpas' = toWpas
      /\ config' = config /\ unapplied' = unapplied /\ missed' = missed /\ sta' = sta /\ timers' = timers
      /\ calling' = calling /\ script' = script /\ jobs' = jobs /\ moves' = moves
  BY DEF wpas
<1>3. TypeOK'
  BY <1>0, <1>1, <1>2 DEF TypeOK
<1>4. CallsInOrder'
  BY <1>0, <1>1, <1>2 DEF CallsInOrder
<1>5. StartsLater' /\ ConfigCurrent'
  BY <1>0, <1>2 DEF StartsLater, ConfigCurrent
<1>6. StartComes'
  BY <1>0, <1>1, <1>2 DEF StartComes
<1>7. Tuned'
  BY <1>0, <1>1, <1>2 DEF Tuned, InTune, Target
<1>8. TunedByAnswer'
  BY <1>0, <1>1, <1>2 DEF TunedByAnswer, InTune, Target
<1> QED BY <1>1, <1>3, <1>4, <1>5, <1>6, <1>7, <1>8 DEF Inv

\* A call of hostapd.
LEMMA Asked ==
  ASSUME TypeOK, CallsInOrder, NEW k \in {"status", "stop", "start"}, Ask(k), calls' = calls + 1,
         \A i \in 1 .. Len(toHostapd') : \E j \in 1 .. Len(toHostapd) : toHostapd'[i] = toHostapd[j],
         k = LastCall(pending'.state), pending'.state = "none" => k = "start" /\ toWpas = <<>>
  PROVE  /\ CallsInOrder' /\ toWpas' \in Seq(WpasMsgs) /\ toWpas' # <<>>
         /\ \A i \in 1 .. Len(toHostapd') :
              ~(toHostapd'[i].kind = "reply" /\ toHostapd'[i].call = calls')
<1> DEFINE a == [kind |-> k, call |-> calls + 1]
           n == Len(toWpas)
<1>1. calls \in Nat /\ toHostapd \in Seq(HostapdMsgs) /\ toWpas \in Seq(WpasMsgs) /\ n \in Nat
  BY TypeParts
<1>2. a \in WpasMsgs /\ a.kind = k /\ a.call = calls + 1
  BY <1>1, CallTypes
<1>3. toWpas' = Append(toWpas, a)
  BY DEF Ask
<1> HIDE DEF a
<1>4. /\ toWpas' \in Seq(WpasMsgs) /\ Len(toWpas') = n + 1 /\ toWpas'[n + 1] = a /\ toWpas' # <<>>
      /\ \A i \in 1 .. n : toWpas'[i] = toWpas[i]
  BY <1>1, <1>2, <1>3, AppendFacts
<1>5. ASSUME NEW i \in 1 .. Len(toHostapd'), toHostapd'[i].kind = "reply"
      PROVE  toHostapd'[i].call <= calls - n /\ toHostapd'[i].call # calls'
  <2>1. PICK j \in 1 .. Len(toHostapd) : toHostapd'[i] = toHostapd[j]
    OBVIOUS
  <2>2. toHostapd[j].call <= calls - n
    BY <1>5, <2>1 DEF CallsInOrder
  <2>3. toHostapd[j].call \in Nat
    BY <1>1, MessageTypes
  <2> QED BY <1>1, <2>1, <2>2, <2>3
<1> HIDE DEF n
<1>6. calls' - Len(toWpas') = calls - n
  BY <1>1, <1>4
<1>7. ASSUME NEW i \in 1 .. Len(toWpas') PROVE toWpas'[i].call = calls' - Len(toWpas') + i
  <2>1. CASE i \in 1 .. n
    BY <1>4, <1>6, <2>1 DEF CallsInOrder, n
  <2>2. CASE i = n + 1
    BY <1>1, <1>2, <1>4, <1>6, <2>2
  <2> QED BY <1>1, <1>4, <2>1, <2>2
<1>8. ASSUME pending'.state = "none", NEW i \in 1 .. Len(toWpas') PROVE toWpas'[i].kind = "start"
  <2>1. n = 0
    BY <1>1, <1>8, EmptyFacts DEF n
  <2>2. i = n + 1
    BY <1>4, <2>1
  <2> QED BY <1>2, <1>4, <1>8, <2>2
<1>9. CallsInOrder'
  BY <1>2, <1>4, <1>5, <1>6, <1>7, <1>8 DEF CallsInOrder
<1> QED BY <1>4, <1>5, <1>9

\* An answer that is awaited.
LEMMA ReplyTaken ==
  ASSUME Inv, toHostapd # <<>>, Head(toHostapd).kind = "reply", toHostapd' = Tail(toHostapd),
         pending.state # "none", Head(toHostapd).call = pending.call,
         CheckPhy(Head(toHostapd).freq) \/ WpasStopped,
         UNCHANGED <<config, unapplied, wpas, missed, script, jobs, moves>>
  PROVE  Inv'
<1> DEFINE m == Head(toHostapd)
<1>0. TypeOK /\ CallsInOrder /\ Notified /\ StartsLater /\ StartComes
      /\ ConfigCurrent /\ Tuned /\ TunedByAnswer
  BY DEF Inv
<1>1. /\ toHostapd' \in Seq(HostapdMsgs) /\ Notified'
      /\ m \in HostapdMsgs /\ m = toHostapd[1] /\ 1 \in 1 .. Len(toHostapd)
      /\ \A i \in 1 .. Len(toHostapd') : /\ toHostapd'[i] = toHostapd[i + 1]
                                         /\ i + 1 \in 1 .. Len(toHostapd)
      /\ m.call = calls => toWpas = <<>>
  BY <1>0, AnswerRead
<1>2. /\ config' = config /\ unapplied' = unapplied /\ missed' = missed /\ sta' = sta /\ timers' = timers
      /\ calling' = calling /\ script' = script /\ jobs' = jobs /\ moves' = moves
  BY DEF wpas
<1>3. /\ pending.config \in ApConfigs /\ m.call = calls /\ toWpas = <<>> /\ calls \in Nat
      /\ pending \in Pendings /\ ap \in Aps /\ ap.state = "absent"
      /\ pending.state \in {"check_phy", "wpas_stopped"}
      /\ Len(toWpas) = 0 /\ pending.config \in [radio: Nat, bss: Nat]
  BY <1>0, <1>1, TypeParts, EmptyFacts, ApStaAssumption DEF ConfigCurrent
<1>4. m.freq \in ApChannels \union {None} /\ m.kind = "reply"
  BY <1>1, MessageTypes
<1>5. faults \in 0 .. MaxFaults /\ MaxFaults \in Nat
  BY <1>0, ApStaAssumption DEF TypeOK
<1>6. \A i \in 1 .. Len(toHostapd') : \E j \in 1 .. Len(toHostapd) : toHostapd'[i] = toHostapd[j]
  BY <1>1
<1> HIDE DEF m
<1>7. StartsLater'
  BY <1>0, <1>2 DEF StartsLater
<1>8. CASE /\ pending.state = "check_phy" /\ m.freq # None
           /\ ap' = [state |-> "up", config |-> pending.config, freq |-> m.freq]
           /\ pending' = Idle /\ UNCHANGED <<calls, faults, toWpas>>
  <2>1. ap' \in Aps /\ ap'.state = "up" /\ ap'.config = pending.config /\ ap'.freq = m.freq
    BY <1>3, <1>4, <1>8 DEF Aps
  <2>2. pending' \in Pendings /\ pending'.state = "none"
    BY <1>8 DEF Idle, Pendings
  <2>3. TypeOK'
    BY <1>0, <1>1, <1>2, <1>8, <2>1, <2>2 DEF TypeOK, Aps, Pendings
  <2>4. CallsInOrder'
    <3>1. \A i \in 1 .. Len(toWpas') : FALSE
      BY <1>3, <1>8
    <3>2. \A i \in 1 .. Len(toHostapd') :
            toHostapd'[i].kind = "reply" => toHostapd'[i].call <= calls' - Len(toWpas')
      BY <1>0, <1>1, <1>8 DEF CallsInOrder
    <3> QED BY <1>3, <1>8, <3>1, <3>2 DEF CallsInOrder
  <2>5. StartComes'
    BY <1>0, <1>1, <1>2, <1>3, <1>4, <1>8 DEF StartComes
  <2>6. ConfigCurrent'
    BY <1>0, <1>2, <1>8, <2>1, <2>2 DEF ConfigCurrent
  <2>7. Tuned'
    <3>1. ~calling /\ sta.running /\ ~missed => InTune("up", m.freq)
      BY <1>0, <1>1, <1>3, <1>4, <1>8 DEF TunedByAnswer
    <3> QED BY <1>2, <2>1, <3>1 DEF Tuned, InTune, Target
  <2>8. TunedByAnswer'
    BY <2>2 DEF TunedByAnswer
  <2> QED BY <1>1, <1>7, <2>3, <2>4, <2>5, <2>6, <2>7, <2>8 DEF Inv
<1>9. CASE /\ pending.state = "check_phy"
           /\ faults' = faults \/ (faults < MaxFaults /\ faults' = faults + 1)
           /\ Ask("stop") /\ calls' = calls + 1
           /\ pending' = [pending EXCEPT !.state = "wpas_stopped", !.call = calls + 1]
           /\ UNCHANGED ap
  <2>1. faults' \in 0 .. MaxFaults
    BY <1>5, <1>9
  <2>2. /\ pending' \in Pendings /\ pending'.state = "wpas_stopped" /\ pending'.call = calls'
        /\ pending'.config = pending.config
    <3>1. /\ pending' = [pending EXCEPT !.state = "wpas_stopped", !.call = calls + 1]
          /\ pending \in Pendings /\ calls + 1 \in Nat /\ calls' = calls + 1
      BY <1>3, <1>9
    <3> QED BY <3>1 DEF Pendings
  <2>3. "stop" = LastCall(pending'.state) /\ pending'.state # "none"
    BY <2>2 DEF LastCall
  <2>4. /\ CallsInOrder' /\ toWpas' \in Seq(WpasMsgs) /\ toWpas' # <<>>
        /\ \A i \in 1 .. Len(toHostapd') :
             ~(toHostapd'[i].kind = "reply" /\ toHostapd'[i].call = calls')
    <3>1. Ask("stop") /\ calls' = calls + 1 /\ toWpas = <<>>
      BY <1>3, <1>9
    <3> QED BY <1>0, <1>6, <2>3, <3>1, Asked
  <2>5. TypeOK'
    <3>1. pending'.config # None /\ calls' \in Nat
      BY <1>0, <1>3, <1>9, <2>2 DEF TypeOK
    <3> QED BY <1>0, <1>1, <1>2, <1>9, <2>1, <2>2, <2>4, <3>1 DEF TypeOK, Pendings
  <2>6. StartComes'
    BY <2>4 DEF StartComes
  <2>7. ConfigCurrent'
    BY <1>0, <1>2, <1>3, <1>9, <2>2 DEF ConfigCurrent
  <2>8. Tuned'
    BY <1>3, <1>9 DEF Tuned
  <2>9. TunedByAnswer'
    BY <2>4 DEF TunedByAnswer
  <2> QED BY <1>1, <1>7, <2>4, <2>5, <2>6, <2>7, <2>8, <2>9 DEF Inv
<1>10. CASE /\ pending.state = "wpas_stopped" /\ IfaceAdd(pending.config, "own")
            /\ Ask("start") /\ calls' = calls + 1 /\ pending' = Idle
  <2>1. /\ faults' \in 0 .. MaxFaults /\ ap' \in Aps
        /\ \/ ap'.state = "up" /\ ap'.config = pending.config /\ ap'.freq = "own" /\ faults' = faults
           \/ ap'.state = "absent" /\ ap'.config = None /\ faults' > 0
    <3>1. CASE ap' = [state |-> "up", config |-> pending.config, freq |-> "own"] /\ UNCHANGED faults
      BY <1>3, <1>5, <3>1 DEF Aps, ApChannels
    <3>2. CASE faults < MaxFaults /\ faults' = faults + 1 /\ ap' = Absent
      <4>1. faults' \in 0 .. MaxFaults /\ faults' > 0
        BY <1>5, <3>2
      <4> QED BY <3>2, <4>1 DEF Aps, Absent, ApChannels
    <3> QED BY <1>10, <3>1, <3>2 DEF IfaceAdd
  <2>2. pending' \in Pendings /\ pending'.state = "none"
    BY <1>10 DEF Idle, Pendings
  <2>3. "start" = LastCall(pending'.state)
    BY <2>2 DEF LastCall
  <2>4. /\ CallsInOrder' /\ toWpas' \in Seq(WpasMsgs) /\ toWpas' # <<>>
        /\ \A i \in 1 .. Len(toHostapd') :
             ~(toHostapd'[i].kind = "reply" /\ toHostapd'[i].call = calls')
    <3>1. Ask("start") /\ calls' = calls + 1 /\ toWpas = <<>>
      BY <1>3, <1>10
    <3> QED BY <1>0, <1>6, <2>3, <3>1, Asked
  <2>5. TypeOK'
    <3>1. calls' \in Nat
      BY <1>3, <1>10
    <3> QED BY <1>0, <1>1, <1>2, <2>1, <2>2, <2>4, <3>1 DEF TypeOK, Pendings, Aps
  <2>6. StartComes'
    BY <2>4 DEF StartComes
  <2>7. ConfigCurrent'
    BY <1>0, <1>2, <1>3, <1>10, <2>1, <2>2 DEF ConfigCurrent
  <2>8. Tuned'
    <3>1. ~calling /\ sta.running /\ ~missed => InTune("up", "own")
      BY <1>0, <1>1, <1>3, <1>4, <1>10 DEF TunedByAnswer
    <3> QED BY <1>2, <2>1, <3>1 DEF Tuned, InTune, Target
  <2>9. TunedByAnswer'
    BY <2>2 DEF TunedByAnswer
  <2> QED BY <1>1, <1>7, <2>4, <2>5, <2>6, <2>7, <2>8, <2>9 DEF Inv
<1>11. CASE CheckPhy(m.freq)
  BY <1>8, <1>9, <1>11 DEF CheckPhy
<1>12. CASE WpasStopped
  BY <1>10, <1>12 DEF WpasStopped
<1> QED BY <1>11, <1>12 DEF m

\* The answers to hostapd.
LEMMA HostapdReplyStep ==
  ASSUME Inv, HostapdReply
  PROVE  Inv'
<1> DEFINE m == Head(toHostapd)
<1>1. /\ toHostapd # <<>> /\ m.kind = "reply" /\ toHostapd' = Tail(toHostapd)
      /\ UNCHANGED <<config, unapplied, wpas, missed, script, jobs, moves>>
  BY DEF HostapdReply
<1>2. CASE pending.state # "none" /\ m.call = pending.call
  <2>1. CheckPhy(m.freq) \/ WpasStopped
    BY <1>2 DEF HostapdReply
  <2> QED BY <1>1, <1>2, <2>1, ReplyTaken
<1>3. CASE ~(pending.state # "none" /\ m.call = pending.call)
  <2>1. UNCHANGED <<pending, ap, calls, faults, toWpas>>
    BY <1>3 DEF HostapdReply
  <2> QED BY <1>1, <2>1, ReplyDropped
<1> QED BY <1>2, <1>3

\* The setup script goes on.
LEMMA ScriptGoesOn ==
  ASSUME script \in Seq(ScriptCalls), script # <<>>, script' = Tail(script), StartsLater
  PROVE  /\ script' \in Seq(ScriptCalls) /\ StartsLater'
         /\ Head(script) \in ScriptCalls
         /\ ~Starts(Head(script)) /\ (\E i \in 1 .. Len(script) : Starts(script[i])) =>
              \E i \in 1 .. Len(script') : Starts(script'[i])
         /\ Head(script).to # "hostapd" /\ Head(script).defer /\ Head(script).config # None =>
              \E i \in 1 .. Len(script') : Starts(script'[i])
<1> DEFINE n == Len(script)
<1>1. /\ Tail(script) \in Seq(ScriptCalls) /\ n \in Nat /\ n > 0 /\ Len(Tail(script)) = n - 1
      /\ Head(script) = script[1] /\ Head(script) \in ScriptCalls
      /\ \A i \in 1 .. Len(Tail(script)) : Tail(script)[i] = script[i + 1] /\ i + 1 \in 1 .. n
  BY TailFacts
<1> HIDE DEF n
<1>2. ASSUME NEW i \in 2 .. n PROVE i - 1 \in 1 .. Len(script') /\ script'[i - 1] = script[i]
  <2>1. i - 1 \in 1 .. Len(script') /\ (i - 1) + 1 = i
    BY <1>1
  <2> QED BY <1>1, <2>1
<1>3. ASSUME NEW i \in 1 .. n,
             script[i].to # "hostapd" /\ script[i].defer /\ script[i].config # None
      PROVE  \E j \in 1 .. Len(script') : j >= i /\ Starts(script'[j])
  <2>1. PICK j \in i + 1 .. n : Starts(script[j])
    BY <1>3 DEF StartsLater, n
  <2>2. j \in 2 .. n /\ j - 1 >= i
    BY <1>1
  <2> QED BY <1>2, <2>1, <2>2
<1>4. StartsLater'
  <2> SUFFICES ASSUME NEW i \in 1 .. Len(script'), script'[i].to # "hostapd", script'[i].defer,
                      script'[i].config # None
               PROVE  \E j \in i + 1 .. Len(script') : Starts(script'[j])
    BY DEF StartsLater, Starts
  <2>1. i + 1 \in 1 .. n /\ script'[i] = script[i + 1]
    BY <1>1
  <2>2. PICK j \in 1 .. Len(script') : j >= i + 1 /\ Starts(script'[j])
    BY <1>3, <2>1
  <2> QED BY <1>1, <2>2
<1>5. ~Starts(Head(script)) /\ (\E i \in 1 .. n : Starts(script[i])) =>
        \E i \in 1 .. Len(script') : Starts(script'[i])
  <2> SUFFICES ASSUME ~Starts(Head(script)), NEW i \in 1 .. n, Starts(script[i])
               PROVE  \E j \in 1 .. Len(script') : Starts(script'[j])
    OBVIOUS
  <2>1. i \in 2 .. n
    BY <1>1
  <2> QED BY <1>2, <2>1
<1>6. 1 \in 1 .. n
  BY <1>1
<1> QED BY <1>1, <1>3, <1>4, <1>5, <1>6 DEF n

\* The calls of the setup script.
LEMMA ScriptTypes ==
  ASSUME NEW x \in ScriptCalls
  PROVE  /\ x.to \in {"hostapd", "wpas", "start"} /\ x.defer \in BOOLEAN
         /\ x.to = "hostapd" => x.config \in ApConfigs \union {None}
         /\ x.to # "hostapd" => x.config \in StaConfigs \union {None}
BY DEF ScriptCalls

\* config_set of wpa_supplicant.
LEMMA WpasConfigSetStep ==
  ASSUME Inv, WpasConfigSet
  PROVE  Inv'
<1> DEFINE x == Head(script)
<1>0. TypeOK /\ CallsInOrder /\ Notified /\ StartsLater /\ StartComes
      /\ ConfigCurrent /\ Tuned /\ TunedByAnswer
  BY DEF Inv
<1>1. /\ script # <<>> /\ x.to \in {"wpas", "start"} /\ ~calling /\ script' = Tail(script)
      /\ sta' = SetStaConfig(x.config) /\ timers' = IF x.defer THEN timers ELSE timers + 1
      /\ config' = config /\ pending' = pending /\ ap' = ap /\ calls' = calls
      /\ faults' = faults /\ unapplied' = unapplied /\ missed' = missed /\ calling' = calling
      /\ toWpas' = toWpas /\ toHostapd' = toHostapd /\ jobs' = jobs /\ moves' = moves
  BY DEF WpasConfigSet, hostapd
<1>2. sta \in Stas /\ timers \in Nat /\ script \in Seq(ScriptCalls)
  BY <1>0, TypeParts
<1>3. /\ script' \in Seq(ScriptCalls) /\ StartsLater' /\ x \in ScriptCalls
      /\ ~Starts(x) /\ (\E i \in 1 .. Len(script) : Starts(script[i])) =>
           \E i \in 1 .. Len(script') : Starts(script'[i])
      /\ x.to # "hostapd" /\ x.defer /\ x.config # None =>
           \E i \in 1 .. Len(script') : Starts(script'[i])
  BY <1>0, <1>1, <1>2, ScriptGoesOn
<1> HIDE DEF x
<1>4. x.config \in StaConfigs \union {None} /\ x.defer \in BOOLEAN
  BY <1>1, <1>3, ScriptTypes
<1>5. sta' \in Stas /\ sta'.config = x.config /\ (sta' = sta \/ ~sta'.running)
  BY <1>1, <1>2, <1>4, StaTypes
<1>6. timers' \in Nat /\ (~x.defer => timers' > 0) /\ (x.defer => timers' = timers)
  BY <1>1, <1>2, <1>4
<1>7. TypeOK'
  BY <1>0, <1>1, <1>3, <1>5, <1>6 DEF TypeOK, Stas
<1>8. CallsInOrder' /\ ConfigCurrent'
  BY <1>0, <1>1 DEF CallsInOrder, ConfigCurrent
<1>9. Notified'
  BY <1>0, <1>1 DEF Notified
<1>10. StartComes'
  <2>1. CASE ~x.defer
    BY <1>6, <2>1 DEF StartComes
  <2>2. CASE x.defer
    <3>1. sta'.config # None => \E i \in 1 .. Len(script') : Starts(script'[i])
      BY <1>1, <1>3, <1>5, <2>2
    <3> QED BY <3>1 DEF StartComes
  <2> QED BY <2>1, <2>2
<1>11. Tuned'
  BY <1>0, <1>1, <1>5 DEF Tuned, InTune, Target
<1>12. TunedByAnswer'
  BY <1>0, <1>1, <1>5 DEF TunedByAnswer, InTune, Target
<1> QED BY <1>3, <1>7, <1>8, <1>9, <1>10, <1>11, <1>12 DEF Inv

\* config_set of hostapd.
LEMMA HostapdConfigSetStep ==
  ASSUME Inv, HostapdConfigSet
  PROVE  Inv'
<1> DEFINE x == Head(script)
           c == x.config
<1>0. TypeOK /\ CallsInOrder /\ Notified /\ StartsLater /\ StartComes
      /\ ConfigCurrent /\ Tuned /\ TunedByAnswer
  BY DEF Inv
<1>1. /\ script # <<>> /\ x.to = "hostapd" /\ IfaceSetConfig(c) /\ script' = Tail(script)
      /\ sta' = sta /\ timers' = timers /\ calling' = calling
      /\ missed' = missed /\ toHostapd' = toHostapd /\ jobs' = jobs /\ moves' = moves
  BY DEF HostapdConfigSet, wpas
<1>2. /\ ap \in Aps /\ pending \in Pendings /\ calls \in Nat /\ script \in Seq(ScriptCalls)
  BY <1>0, TypeParts
<1>3. /\ script' \in Seq(ScriptCalls) /\ StartsLater' /\ x \in ScriptCalls
      /\ ~Starts(x) /\ (\E i \in 1 .. Len(script) : Starts(script[i])) =>
           \E i \in 1 .. Len(script') : Starts(script'[i])
  BY <1>0, <1>1, <1>2, ScriptGoesOn
<1>4. c \in ApConfigs \union {None} /\ ~Starts(x)
  BY <1>1, <1>3, ScriptTypes DEF Starts
<1> HIDE DEF x, c
<1>5. config' = c
  BY <1>1 DEF IfaceSetConfig
<1>6. Notified'
  BY <1>0, <1>1 DEF Notified, Target
<1>7. ASSUME UNCHANGED <<pending, calls, toWpas>>
      PROVE  CallsInOrder' /\ StartComes' /\ TunedByAnswer'
  <2>1. CallsInOrder'
    BY <1>0, <1>1, <1>7 DEF CallsInOrder
  <2>2. StartComes'
    BY <1>0, <1>1, <1>3, <1>4, <1>7 DEF StartComes
  <2>3. TunedByAnswer'
    BY <1>0, <1>1, <1>7 DEF TunedByAnswer, InTune, Target
  <2> QED BY <2>1, <2>2, <2>3
<1>8. CASE /\ c = None /\ ap' = Absent /\ unapplied' = (pending.state # "none")
           /\ UNCHANGED <<pending, calls, faults, toWpas>>
  <2>1. ap' \in Aps /\ ap'.state = "absent" /\ ap'.config = None
    BY <1>8 DEF Absent, Aps, ApChannels
  <2>2. TypeOK'
    <3>1. unapplied' \in BOOLEAN
      BY <1>8
    <3> QED BY <1>0, <1>1, <1>3, <1>4, <1>5, <1>8, <2>1, <3>1 DEF TypeOK, Aps
  <2>3. ConfigCurrent'
    BY <1>0, <1>5, <1>8, <2>1 DEF ConfigCurrent
  <2>4. Tuned'
    BY <2>1 DEF Tuned
  <2> QED BY <1>3, <1>6, <1>7, <1>8, <2>2, <2>3, <2>4 DEF Inv
<1>9. CASE c # None /\ c = config /\ UNCHANGED <<pending, ap, calls, faults, toWpas, unapplied>>
  <2>1. TypeOK'
    BY <1>0, <1>1, <1>3, <1>4, <1>5, <1>9 DEF TypeOK
  <2>2. ConfigCurrent'
    BY <1>0, <1>5, <1>9 DEF ConfigCurrent
  <2>3. Tuned'
    BY <1>0, <1>1, <1>5, <1>9 DEF Tuned, InTune, Target
  <2> QED BY <1>3, <1>6, <1>7, <1>9, <2>1, <2>2, <2>3 DEF Inv
<1>10. CASE /\ c # None /\ c # config /\ MayReload(c) /\ ap' \in Reloaded(c)
            /\ UNCHANGED <<pending, calls, faults, toWpas, unapplied>>
  <2>1. /\ ap.config \in [radio: Nat, bss: Nat] /\ c \in [radio: Nat, bss: Nat]
        /\ ap.state # "absent" /\ pending.state = "none" /\ config.radio = c.radio
    BY <1>0, <1>4, <1>10, TypeParts, ApStaAssumption DEF MayReload
  <2>2. /\ ap' \in Aps /\ ap'.freq = ap.freq
        /\ ap'.config = [radio |-> ap.config.radio, bss |-> c.bss]
        /\ ap'.state = ap.state \/ (ap.state # "up" /\ ap'.state = "woken")
    <3>1. PICK t \in IF ap.state = "up" THEN {"up"} ELSE {ap.state, "woken"} :
            ap' = [ap EXCEPT !.config = [radio |-> ap.config.radio, bss |-> c.bss], !.state = t]
      BY <1>10 DEF Reloaded
    <3>2. /\ t \in {"absent", "up", "stopped", "woken"}
          /\ t = ap.state \/ (ap.state # "up" /\ t = "woken")
      BY <1>2, <3>1 DEF Aps
    <3>3. [radio |-> ap.config.radio, bss |-> c.bss] \in [radio: Nat, bss: Nat]
      BY <2>1
    <3> QED BY <1>2, <3>1, <3>2, <3>3 DEF Aps
  <2>3. ap'.config # None
    <3>1. ap'.config \in [radio: Nat, bss: Nat]
      BY <2>1, <2>2
    <3> QED BY <3>1, ApStaAssumption
  <2>4. TypeOK'
    BY <1>0, <1>1, <1>3, <1>4, <1>5, <1>10, <2>2, <2>3 DEF TypeOK, Aps
  <2>5. ConfigCurrent'
    <3>1. ASSUME ~unapplied PROVE ap'.config = c
      <4>1. ap.config = config
        BY <1>0, <2>1, <3>1 DEF ConfigCurrent
      <4> QED BY <2>1, <2>2, <4>1
    <3>2. ap'.state # "absent"
      BY <2>1, <2>2
    <3> QED BY <1>5, <1>10, <2>1, <3>1, <3>2 DEF ConfigCurrent
  <2>6. Tuned'
    BY <1>0, <1>1, <2>1, <2>2 DEF Tuned, InTune, Target
  <2> QED BY <1>3, <1>6, <1>7, <1>10, <2>4, <2>5, <2>6 DEF Inv
<1>11. CASE /\ faults < MaxFaults /\ faults' = faults + 1
            /\ unapplied' = TRUE /\ UNCHANGED <<pending, ap, calls, toWpas>>
  <2>1. faults' \in 0 .. MaxFaults
    <3>1. faults \in 0 .. MaxFaults /\ MaxFaults \in Nat
      BY <1>0, ApStaAssumption DEF TypeOK
    <3> QED BY <1>11, <3>1
  <2>2. TypeOK'
    BY <1>0, <1>1, <1>3, <1>4, <1>5, <1>11, <2>1 DEF TypeOK
  <2>3. ConfigCurrent'
    BY <1>0, <1>11 DEF ConfigCurrent
  <2>4. Tuned'
    BY <1>0, <1>1, <1>11 DEF Tuned, InTune, Target
  <2> QED BY <1>3, <1>6, <1>7, <1>11, <2>2, <2>3, <2>4 DEF Inv
<1>12. CASE c # None /\ c # config /\ IfaceRestart(c) /\ unapplied' = FALSE
  <2>1. /\ ap' = Absent /\ Ask("status") /\ calls' = calls + 1 /\ faults' = faults
        /\ pending' = [state |-> "check_phy", config |-> c, call |-> calls + 1]
    BY <1>12 DEF IfaceRestart
  <2>2. ap' \in Aps /\ ap'.state = "absent" /\ ap'.config = None
    BY <2>1 DEF Absent, Aps, ApChannels
  <2>3. /\ pending' \in Pendings /\ pending'.state = "check_phy" /\ pending'.config = c
        /\ pending'.call = calls' /\ calls' \in Nat
    BY <1>2, <1>4, <2>1 DEF Pendings
  <2>4. "status" = LastCall(pending'.state) /\ pending'.state # "none"
    BY <2>3 DEF LastCall
  <2>5. /\ CallsInOrder' /\ toWpas' \in Seq(WpasMsgs) /\ toWpas' # <<>>
        /\ \A i \in 1 .. Len(toHostapd') :
             ~(toHostapd'[i].kind = "reply" /\ toHostapd'[i].call = calls')
    <3>1. Ask("status") /\ calls' = calls + 1
      BY <2>1
    <3>2. \A i \in 1 .. Len(toHostapd') : \E j \in 1 .. Len(toHostapd) : toHostapd'[i] = toHostapd[j]
      BY <1>1
    <3> QED BY <1>0, <2>4, <3>1, <3>2, Asked
  <2>6. TypeOK'
    BY <1>0, <1>1, <1>3, <1>4, <1>5, <1>12, <2>1, <2>2, <2>3, <2>5 DEF TypeOK, Aps, Pendings
  <2>7. StartComes'
    BY <2>5 DEF StartComes
  <2>8. ConfigCurrent'
    BY <1>5, <1>12, <2>2, <2>3 DEF ConfigCurrent
  <2>9. Tuned'
    BY <2>2 DEF Tuned
  <2>10. TunedByAnswer'
    BY <2>5 DEF TunedByAnswer
  <2> QED BY <1>3, <1>6, <2>5, <2>6, <2>7, <2>8, <2>9, <2>10 DEF Inv
<1> QED BY <1>1, <1>8, <1>9, <1>10, <1>11, <1>12 DEF IfaceSetConfig

\* The scripts that netifd runs.
LEMMA JobScripts ==
  ASSUME NEW q \in {Setup(a, s) : a \in ApConfigs \union {None}, s \in StaConfigs \union {None}}
                   \union {ResetConfig}
  PROVE  /\ q \in Seq(ScriptCalls)
         /\ \A i \in 1 .. Len(q) :
              q[i].to # "hostapd" /\ q[i].defer /\ q[i].config # None =>
                \E j \in i + 1 .. Len(q) : Starts(q[j])
<1>1. CASE q = ResetConfig
  <2> DEFINE x == [to |-> "hostapd", config |-> None, defer |-> FALSE]
             y == [to |-> "wpas", config |-> None, defer |-> FALSE]
  <2>1. x \in ScriptCalls /\ y \in ScriptCalls /\ x.config = None /\ y.config = None
    BY DEF ScriptCalls
  <2>2. q = <<x, y>>
    BY <1>1 DEF ResetConfig
  <2> HIDE DEF x, y
  <2> QED BY <2>1, <2>2
<1>2. ASSUME NEW a \in ApConfigs \union {None}, NEW s \in StaConfigs \union {None}, q = Setup(a, s)
      PROVE  /\ q \in Seq(ScriptCalls)
             /\ \A i \in 1 .. Len(q) :
                  q[i].to # "hostapd" /\ q[i].defer /\ q[i].config # None =>
                    \E j \in i + 1 .. Len(q) : Starts(q[j])
  <2> DEFINE x == [to |-> "wpas", config |-> s, defer |-> TRUE]
             y == [to |-> "hostapd", config |-> a, defer |-> TRUE]
             z == [to |-> "start", config |-> s, defer |-> FALSE]
  <2>1. /\ x \in ScriptCalls /\ y \in ScriptCalls /\ z \in ScriptCalls
        /\ x.config = s /\ y.to = "hostapd" /\ Starts(z) /\ ~z.defer
    BY DEF ScriptCalls, Starts
  <2>2. s = None => q = <<x, y>> \o <<>>
    BY <1>2 DEF Setup
  <2>3. s # None => q = <<x, y>> \o <<z>>
    BY <1>2 DEF Setup
  <2> HIDE DEF x, y, z
  <2>4. CASE s = None
    <3>1. q = <<x, y>>
      BY <2>1, <2>2, <2>4
    <3> QED BY <2>1, <2>4, <3>1
  <2>5. CASE s # None
    <3>1. q = <<x, y, z>>
      BY <2>1, <2>3, <2>5
    <3>2. q \in Seq(ScriptCalls) /\ Len(q) = 3 /\ q[1] = x /\ q[2] = y /\ q[3] = z
      BY <2>1, <3>1
    <3>3. ASSUME NEW i \in 1 .. 3, q[i].to # "hostapd", q[i].defer
          PROVE  \E j \in i + 1 .. 3 : Starts(q[j])
      <4>1. i = 1
        BY <2>1, <3>2, <3>3
      <4>2. 3 \in i + 1 .. 3
        BY <4>1
      <4> QED BY <2>1, <3>2, <4>2
    <3> QED BY <3>2, <3>3
  <2> QED BY <2>4, <2>5
<1> QED BY <1>1, <1>2

\* netifd runs the setup script.
LEMMA JobStep ==
  ASSUME Inv, Job
  PROVE  Inv'
<1>0. TypeOK /\ CallsInOrder /\ Notified /\ StartsLater /\ StartComes
      /\ ConfigCurrent /\ Tuned /\ TunedByAnswer
  BY DEF Inv
<1>1. /\ script = <<>> /\ jobs < MaxJobs /\ jobs' = jobs + 1
      /\ config' = config /\ pending' = pending /\ ap' = ap /\ calls' = calls
      /\ faults' = faults /\ unapplied' = unapplied /\ missed' = missed /\ sta' = sta /\ timers' = timers
      /\ calling' = calling /\ toWpas' = toWpas /\ toHostapd' = toHostapd /\ moves' = moves
  BY DEF Job, hostapd, wpas
<1>2. script' \in Seq(ScriptCalls) /\ StartsLater'
  <2>1. /\ script' \in Seq(ScriptCalls)
        /\ \A i \in 1 .. Len(script') :
             script'[i].to # "hostapd" /\ script'[i].defer /\ script'[i].config # None =>
               \E j \in i + 1 .. Len(script') : Starts(script'[j])
    BY JobScripts DEF Job
  <2> QED BY <2>1 DEF StartsLater, Starts
<1>3. jobs' \in 0 .. MaxJobs
  <2>1. jobs \in 0 .. MaxJobs
    BY <1>0 DEF TypeOK
  <2> QED BY <1>1, <2>1, ApStaAssumption
<1>4. TypeOK'
  BY <1>0, <1>1, <1>2, <1>3 DEF TypeOK
<1>5. CallsInOrder' /\ ConfigCurrent' /\ Notified'
  BY <1>0, <1>1 DEF CallsInOrder, ConfigCurrent, Notified, Target
<1>6. Tuned' /\ TunedByAnswer'
  BY <1>0, <1>1 DEF Tuned, TunedByAnswer, InTune, Target
<1>7. StartComes'
  <2>1. \A i \in 1 .. Len(script) : FALSE
    BY <1>1
  <2> QED BY <1>0, <1>1, <2>1 DEF StartComes
<1> QED BY <1>2, <1>4, <1>5, <1>6, <1>7 DEF Inv

-----------------------------------------------------------------------------
(* The specification. *)

\* Nothing has been configured yet.
LEMMA Initially == Init => Inv
<1> SUFFICES ASSUME Init PROVE Inv
  OBVIOUS
<1>1. /\ config = None /\ pending = Idle /\ ap = Absent /\ sta = NoSta
      /\ timers = 0 /\ toWpas = <<>> /\ toHostapd = <<>> /\ calling = FALSE
      /\ script = <<>> /\ calls = 0 /\ unapplied = FALSE /\ missed = FALSE
      /\ jobs = 0 /\ moves = 0 /\ faults = 0
  BY DEF Init
<1>2. /\ \A i \in 1 .. Len(toWpas) : FALSE
      /\ \A i \in 1 .. Len(toHostapd) : FALSE
      /\ \A i \in 1 .. Len(script) : FALSE
  BY <1>1
<1>3. toWpas \in Seq(WpasMsgs) /\ toHostapd \in Seq(HostapdMsgs) /\ script \in Seq(ScriptCalls)
  BY <1>1
<1>4. pending \in Pendings /\ pending.state = "none"
  BY <1>1 DEF Idle, Pendings
<1>5. ap \in Aps /\ ap.state = "absent" /\ ap.config = None
  BY <1>1 DEF Absent, Aps, ApChannels
<1>6. sta \in Stas /\ sta.config = None
  BY <1>1 DEF NoSta, Stas, StaStates, ApChannels
<1>7. TypeOK
  <2>1. config \in ApConfigs \union {None} /\ timers \in Nat /\ calls \in Nat
        /\ calling \in BOOLEAN /\ unapplied \in BOOLEAN /\ missed \in BOOLEAN
    BY <1>1
  <2>2. jobs \in 0 .. MaxJobs /\ moves \in 0 .. MaxMoves /\ faults \in 0 .. MaxFaults
    BY <1>1, ApStaAssumption
  <2> QED BY <2>1, <2>2, <1>3, <1>4, <1>5, <1>6 DEF TypeOK, Pendings, Aps, Stas
<1>8. CallsInOrder /\ Notified /\ StartsLater /\ TunedByAnswer
  BY <1>1, <1>2 DEF CallsInOrder, Notified, StartsLater, TunedByAnswer
<1>9. StartComes /\ ConfigCurrent /\ Tuned
  BY <1>1, <1>4, <1>5, <1>6 DEF StartComes, ConfigCurrent, Tuned
<1> QED BY <1>7, <1>8, <1>9 DEF Inv

\* The invariant is inductive.
LEMMA Inductive == Inv /\ [Next]_vars => Inv'
<1> SUFFICES ASSUME Inv, [Next]_vars PROVE Inv'
  OBVIOUS
<1>1. CASE UNCHANGED vars
  <2>1. /\ config' = config /\ pending' = pending /\ ap' = ap /\ sta' = sta
        /\ timers' = timers /\ toWpas' = toWpas /\ toHostapd' = toHostapd
        /\ calling' = calling /\ script' = script /\ calls' = calls /\ unapplied' = unapplied /\ missed' = missed
        /\ jobs' = jobs /\ moves' = moves /\ faults' = faults
    BY <1>1 DEF vars, hostapd, wpas
  <2>2. TypeOK'
    BY <2>1 DEF Inv, TypeOK
  <2>3. CallsInOrder' /\ Notified' /\ StartsLater'
    BY <2>1 DEF Inv, CallsInOrder, Notified, Target, StartsLater
  <2>4. StartComes' /\ ConfigCurrent'
    BY <2>1 DEF Inv, StartComes, ConfigCurrent
  <2>5. Tuned' /\ TunedByAnswer'
    BY <2>1 DEF Inv, Tuned, TunedByAnswer, InTune, Target
  <2> QED BY <2>2, <2>3, <2>4, <2>5 DEF Inv
<1>2. CASE Processes
  BY <1>2, WpasRequestStep, StartTimerStep, HostapdReplyStep, ApstaStateStep,
     HostapdConfigSetStep, WpasConfigSetStep DEF Processes
<1>3. CASE Environment
  <2>1. ASSUME NEW s \in {"idle", "scanning"}, StaState(s, "own") PROVE Inv'
    <3>1. "own" \in ApChannels
      BY DEF ApChannels
    <3> QED BY <2>1, <3>1, StaStateStep
  <2>2. ASSUME NEW f \in Freqs, StaState("completed", f) \/ ChannelSwitch(f) PROVE Inv'
    <3>1. f \in ApChannels
      BY DEF ApChannels
    <3> QED BY <2>2, <3>1, StaStateStep, ChannelSwitchStep
  <2> QED BY <1>3, <2>1, <2>2, JobStep, SwitchDoneStep DEF Environment
<1> QED BY <1>1, <1>2, <1>3 DEF Next

\* The invariant holds throughout.
THEOREM Invariance == Spec => []Inv
BY Initially, Inductive, PTL DEF Spec

\* Both scripts, what they send each other and what is left of the setup script
\* keep their types.
THEOREM TypeCorrect == Spec => []TypeOK
<1>1. Inv => TypeOK
  BY DEF Inv
<1> QED BY <1>1, Invariance, PTL

\* Once everything has settled, the access point is on the channel of a client
\* interface that is connected, or on the one this moves to, and silent while it
\* scans unless a reload has woken a bss, however the two daemons and the setup
\* script were interleaved before, and unless it could not hear of a switch of the
\* channel, or its configuration was gone while it was there.
THEOREM ApFollows == Spec => []FollowsSta
<1>1. Inv => FollowsSta
  BY DEF Inv, Tuned, InTune, FollowsSta, Settled
<1> QED BY <1>1, Invariance, PTL

\* Once everything has settled, the client interface runs if it is configured,
\* and the access point has the configuration that was set last, unless it could
\* not be added, its phy could not be opened, or it was pending when its
\* configuration was removed.
THEOREM BothRestored == Spec => []Restored
<1>1. Inv => StaRestarted
  <2> SUFFICES ASSUME Inv, Settled, sta.config # None PROVE sta.running
    BY DEF StaRestarted
  <2>1. \A i \in 1 .. Len(script) : FALSE
    BY DEF Settled
  <2>2. timers = 0 /\ toWpas = <<>> /\ pending.state = "none"
    BY DEF Settled
  <2> QED BY <2>1, <2>2 DEF Inv, StartComes
<1>2. Inv => ApCurrent
  BY DEF Inv, ConfigCurrent, ApCurrent, Settled
<1>3. Inv => Restored
  BY <1>1, <1>2 DEF Restored
<1> QED BY <1>3, Invariance, PTL
=============================================================================
