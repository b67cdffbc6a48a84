------------------------------- MODULE ApSta -------------------------------
(***************************************************************************)
(* An access point and a client interface on one radio: the control        *)
(* scripts of hostapd (hostapd.uc) and wpa_supplicant (wpa_supplicant.uc), *)
(* and the setup script that configures both.                              *)
(*                                                                         *)
(* The two share the channel, so that hostapd asks wpa_supplicant for its  *)
(* state before it starts, stops it meanwhile if it is not connected, and  *)
(* is told by wpa_supplicant of every change later on.  The two are single *)
(* threaded processes that talk through ubus, which keeps the order of the *)
(* messages from one to the other.  hostapd does not wait for its answers, *)
(* wpa_supplicant does; the setup script waits for each of its calls.      *)
(***************************************************************************)
EXTENDS Integers, Sequences

CONSTANTS
  ApConfigs,   \* configurations of the access point, [radio, bss]
  StaConfigs,  \* configurations of the client interface
  Freqs,       \* frequencies the client interface may connect at
  None,        \* no configuration
  MaxJobs,     \* bound on the runs of the setup script
  MaxMoves,    \* bound on the changes of the client interface
  MaxFaults    \* bound on the calls that fail: a phy cannot be opened, an interface
               \* cannot be added, a switch of the channel is refused

ASSUME ApStaAssumption ==
  /\ ApConfigs \subseteq [radio: Nat, bss: Nat]
  /\ None \notin [radio: Nat, bss: Nat] \union StaConfigs \union Freqs
  /\ "own" \notin Freqs
  /\ MaxJobs \in Nat /\ MaxMoves \in Nat /\ MaxFaults \in Nat

VARIABLES
  config,    \* hostapd.data.config of the radio
  pending,   \* hostapd.data.pending_config of the radio, and the answer awaited
  ap,        \* the interface in hostapd
  sta,       \* the client interface in wpa_supplicant
  timers,    \* its start_pending timers that are set
  toWpas, toHostapd,  \* messages on their way
  calling,   \* wpa_supplicant waits for the answer to apsta_state
  script,    \* the calls left to the setup script
  calls,     \* the calls made by hostapd, to tell their answers apart
  unapplied, \* history: the configuration was stored only, because the interface
             \* was pending when it was removed, or its phy could not be opened
  missed,    \* history: the access point does not know that the client interface
             \* moves to another channel, or was not told of its state
  jobs, moves, faults

hostapd == <<config, pending, ap, calls, faults, unapplied>>
wpas == <<sta, timers, calling>>
vars == <<hostapd, wpas, missed, toWpas, toHostapd, script, jobs, moves>>

Idle == [state |-> "none", config |-> None, call |-> 0]
Absent == [state |-> "absent", config |-> None, freq |-> "own"]
NoSta == [config |-> None, running |-> FALSE, state |-> "new", freq |-> "own", csa |-> None]

ApChannels == Freqs \union {"own"}
StaStates == {"new", "idle", "scanning", "completed"}

\* Calls of hostapd; answers to them and calls of wpa_supplicant; calls of the
\* setup script.
WpasMsgs == [kind: {"status", "stop", "start"}, call: Nat]
HostapdMsgs == [kind: {"reply"}, call: Nat, freq: ApChannels \union {None}]
               \union [kind: {"idle", "scanning", "completed", "csa"}, call: {0}, freq: ApChannels]
ScriptCalls == [to: {"hostapd"}, config: ApConfigs \union {None}, defer: BOOLEAN]
               \union [to: {"wpas", "start"}, config: StaConfigs \union {None}, defer: BOOLEAN]

TypeOK ==
  /\ config \in ApConfigs \union {None}
  /\ pending \in [state: {"none", "check_phy", "wpas_stopped"},
                  config: ApConfigs \union {None}, call: Nat]
  /\ pending.state # "none" => pending.config # None /\ pending.call = calls
  /\ ap \in [state: {"absent", "up", "stopped", "woken"},
             config: [radio: Nat, bss: Nat] \union {None}, freq: ApChannels]
  /\ ap.state # "absent" => ap.config # None
  /\ sta \in [config: StaConfigs \union {None}, running: BOOLEAN,
              state: StaStates, freq: ApChannels, csa: Freqs \union {None}]
  /\ toWpas \in Seq(WpasMsgs) /\ toHostapd \in Seq(HostapdMsgs) /\ script \in Seq(ScriptCalls)
  /\ timers \in Nat /\ calls \in Nat /\ calling \in BOOLEAN
  /\ unapplied \in BOOLEAN /\ missed \in BOOLEAN
  /\ jobs \in 0 .. MaxJobs /\ moves \in 0 .. MaxMoves /\ faults \in 0 .. MaxFaults

-----------------------------------------------------------------------------
(* wpa_supplicant.uc.  A phy that it opens is there. *)

\* iface_stop: the phy of the interface is forgotten first, so that hostapd is
\* not told.
IfaceStop == [sta EXCEPT !.running = FALSE, !.state = "new", !.freq = "own", !.csa = None]

\* start_pending and iface_start
StartPending ==
  IF sta.config = None \/ sta.running THEN sta
  ELSE [sta EXCEPT !.running = TRUE, !.state = "new", !.freq = "own", !.csa = None]

\* set_config and iface_cb: an interface whose configuration stays is kept.
SetStaConfig(c) == IF c = sta.config THEN sta ELSE [IfaceStop EXCEPT !.config = c]

\* phy_status: nothing of an interface that does not run or is disabled.  The
\* frequency is that of the current bss, the old one until a switch is over.
PhyStatus ==
  IF sta.running /\ sta.state = "completed" THEN sta.freq ELSE None

Answer(m, freq) == [kind |-> "reply", call |-> m.call, freq |-> freq]

\* The methods phy_status and phy_set_state.
WpasRequest ==
  LET m == Head(toWpas) IN
  /\ toWpas # <<>> /\ ~calling
  /\ toWpas' = Tail(toWpas)
  /\ sta' = CASE m.kind = "stop" -> IfaceStop
              [] m.kind = "start" -> StartPending
              [] m.kind = "status" -> sta
  /\ toHostapd' = Append(toHostapd, Answer(m, IF m.kind = "status" THEN PhyStatus ELSE None))
  /\ missed' = IF m.kind = "status" THEN sta.csa # None ELSE missed
  /\ UNCHANGED <<hostapd, timers, calling, script, jobs, moves>>

\* The timer of config_set.
StartTimer ==
  /\ timers > 0 /\ ~calling
  /\ timers' = timers - 1
  /\ sta' = StartPending
  /\ UNCHANGED <<hostapd, calling, missed, toWpas, toHostapd, script, jobs, moves>>

\* state, which calls iface_hostapd_notify: the client interface starts to scan
\* or loses its access point, connects, or gets inactive or disabled.
StaState(state, freq) ==
  /\ moves < MaxMoves /\ moves' = moves + 1
  /\ sta.running /\ ~calling /\ <<state, freq>> # <<sta.state, sta.freq>>
  /\ sta' = [sta EXCEPT !.state = state, !.freq = freq, !.csa = None]
  /\ toHostapd' = Append(toHostapd, [kind |-> state, call |-> 0, freq |-> freq])
  /\ calling' = TRUE
  /\ UNCHANGED <<hostapd, timers, missed, toWpas, script, jobs>>

\* The channel that the client interface is on, or moves to.
Target == IF sta.csa = None THEN sta.freq ELSE sta.csa

\* event CH_SWITCH_STARTED, which calls iface_channel_switch: the access point
\* that the client interface is connected to will move.
ChannelSwitch(freq) ==
  /\ moves < MaxMoves /\ moves' = moves + 1
  /\ sta.running /\ ~calling /\ sta.state = "completed" /\ freq # Target
  /\ sta' = [sta EXCEPT !.csa = freq]
  /\ toHostapd' = Append(toHostapd, [kind |-> "csa", call |-> 0, freq |-> freq])
  /\ calling' = TRUE
  /\ UNCHANGED <<hostapd, timers, missed, toWpas, script, jobs>>

\* It has moved, and the client interface with it.  wpas_ucode_event does not
\* pass that event on.
SwitchDone ==
  /\ sta.csa # None /\ ~calling
  /\ sta' = [sta EXCEPT !.freq = sta.csa, !.csa = None]
  /\ UNCHANGED <<hostapd, timers, calling, missed, toWpas, toHostapd, script, jobs, moves>>

-----------------------------------------------------------------------------
(* hostapd.uc *)

Ask(kind) == toWpas' = Append(toWpas, [kind |-> kind, call |-> calls + 1])

\* iface_add
IfaceAdd(c, freq) ==
  \/ /\ ap' = [state |-> "up", config |-> c, freq |-> freq]
     /\ UNCHANGED faults
  \/ /\ faults < MaxFaults /\ faults' = faults + 1
     /\ ap' = Absent

\* iface_restart and iface_pending_init: what is pending is aborted, and its
\* answer with it.
IfaceRestart(c) ==
  /\ ap' = Absent
  /\ Ask("status") /\ calls' = calls + 1
  /\ pending' = [state |-> "check_phy", config |-> c, call |-> calls + 1]
  /\ UNCHANGED faults

\* iface_reload_config, if only a bss has changed and the interface is up: it
\* is changed as it runs, or restarted if a step fails.
MayReload(c) ==
  /\ config # None /\ config.radio = c.radio
  /\ pending.state = "none" /\ ap.state # "absent"

\* What it makes of the interface.  A bss that is added or set up anew begins to
\* beacon, also while the others are silent; one that is renamed does not.
Reloaded(c) ==
  {[ap EXCEPT !.config = [radio |-> @.radio, bss |-> c.bss], !.state = s] :
     s \in IF ap.state = "up" THEN {"up"} ELSE {ap.state, "woken"}}

\* iface_set_config.  A configuration is stored first, and stays when the phy
\* cannot be opened.  One without a bss removes the interface, and leaves what is
\* pending alone.
IfaceSetConfig(c) ==
  /\ config' = c
  /\ \/ /\ faults < MaxFaults /\ faults' = faults + 1
        /\ unapplied' = TRUE /\ UNCHANGED <<pending, ap, calls, toWpas>>
     \/ /\ c = None /\ ap' = Absent
        /\ unapplied' = (pending.state # "none") /\ UNCHANGED <<pending, calls, faults, toWpas>>
     \/ c # None /\ c = config /\ UNCHANGED <<pending, ap, calls, faults, toWpas, unapplied>>
     \/ /\ c # None /\ c # config /\ MayReload(c)
        /\ ap' \in Reloaded(c)
        /\ UNCHANGED <<pending, calls, faults, toWpas, unapplied>>
     \/ c # None /\ c # config /\ IfaceRestart(c) /\ unapplied' = FALSE

\* Mutant: the access point starts on the channel of its configuration.
CheckPhyOwn(freq) ==
  /\ pending.state = "check_phy"
  /\ \/ /\ freq # None
        /\ ap' = [state |-> "up", config |-> pending.config, freq |-> "own"]
        /\ pending' = Idle
        /\ UNCHANGED <<calls, faults, toWpas>>
     \/ /\ freq = None /\ UNCHANGED <<faults, ap>>
        /\ Ask("stop") /\ calls' = calls + 1
        /\ pending' = [pending EXCEPT !.state = "wpas_stopped", !.call = calls + 1]

\* __iface_pending_next: the client interface is connected, and the access
\* point follows it, or else it is stopped.
CheckPhy(freq) ==
  /\ pending.state = "check_phy"
  /\ \/ /\ freq # None
        /\ ap' = [state |-> "up", config |-> pending.config, freq |-> freq]
        /\ pending' = Idle
        /\ UNCHANGED <<calls, faults, toWpas>>
     \/ /\ \/ freq = None /\ UNCHANGED faults
           \/ freq # None /\ faults < MaxFaults /\ faults' = faults + 1
        /\ Ask("stop") /\ calls' = calls + 1
        /\ pending' = [pending EXCEPT !.state = "wpas_stopped", !.call = calls + 1]
        /\ UNCHANGED ap

\* Mutant: nothing ends what is pending.
WpasStoppedForever ==
  /\ pending.state = "wpas_stopped"
  /\ IfaceAdd(pending.config, "own")
  /\ Ask("start") /\ calls' = calls + 1
  /\ UNCHANGED pending

\* __iface_pending_next: the client interface has stopped, and is started again
\* whether or not the access point could be added.  Nobody waits for the answer.
WpasStopped ==
  /\ pending.state = "wpas_stopped"
  /\ IfaceAdd(pending.config, "own")
  /\ Ask("start") /\ calls' = calls + 1
  /\ pending' = Idle

\* Mutant: every answer is taken for the one that is awaited.
HostapdReplyAny ==
  LET m == Head(toHostapd) IN
  /\ toHostapd # <<>> /\ m.kind = "reply"
  /\ toHostapd' = Tail(toHostapd)
  /\ IF pending.state # "none" THEN CheckPhy(m.freq) \/ WpasStopped
     ELSE UNCHANGED <<pending, ap, calls, faults, toWpas>>
  /\ UNCHANGED <<config, unapplied, wpas, missed, script, jobs, moves>>

\* An answer arrives; it is dropped if it belongs to a call that was aborted.
\* No step of __iface_pending_next throws here.
HostapdReply ==
  LET m == Head(toHostapd) IN
  /\ toHostapd # <<>> /\ m.kind = "reply"
  /\ toHostapd' = Tail(toHostapd)
  /\ IF pending.state # "none" /\ m.call = pending.call
     THEN CheckPhy(m.freq) \/ WpasStopped
     ELSE UNCHANGED <<pending, ap, calls, faults, toWpas>>
  /\ UNCHANGED <<config, unapplied, wpas, missed, script, jobs, moves>>

\* What apsta_state may do to the interface: stop, start or switch_channel.
\* Started without a frequency it keeps its channel, if it starts at all:
\* uc_hostapd_iface_start reads a variable that is not initialized then.  Started
\* on the channel it has, it is left as it is if the first bss beacons.  Only
\* what beacons can switch; every frequency is one that iface_freq_info knows.
Followed(m) ==
  LET moved == [ap EXCEPT !.freq = m.freq] IN
  CASE m.kind = "scanning" -> {[ap EXCEPT !.state = "stopped"]}
    [] m.kind = "idle" -> {ap, [ap EXCEPT !.state = "up"]}
    [] m.kind = "completed" -> {[moved EXCEPT !.state = "up"]}
                               \union IF ap.state = "woken" /\ ap.freq = m.freq THEN {ap} ELSE {}
    [] m.kind = "csa" -> CASE ap.state = "up" -> {moved}
                           [] ap.state = "woken" -> {moved, ap}
                           [] OTHER -> {ap}

\* Whether apsta_state finds an interface.
Reached == config # None /\ ap.state # "absent"

\* What it does, or else a switch of the channel fails.
Obeys(m) ==
  \/ /\ ap' \in IF Reached THEN Followed(m) ELSE {ap}
     /\ UNCHANGED faults
  \/ /\ Reached /\ m.kind = "csa"
     /\ faults < MaxFaults /\ faults' = faults + 1 /\ UNCHANGED ap

\* Whether the access point has missed what it should know.  It need not know of
\* states that the client interface has before it exists, since it asks for the
\* state then, but a switch of the channel is in no answer.
Misses(m) ==
  IF Reached THEN m.kind = "csa" /\ (ap'.freq # m.freq \/ ap'.state = "stopped")
  ELSE missed \/ m.kind = "csa" \/ ap.state # "absent"

\* Mutant: without an interface the call is not answered.
ApstaStateSilent ==
  LET m == Head(toHostapd) IN
  /\ toHostapd # <<>> /\ m.kind # "reply"
  /\ toHostapd' = Tail(toHostapd)
  /\ Obeys(m) /\ missed' = Misses(m)
  /\ calling' = (config = None)
  /\ UNCHANGED <<config, pending, calls, unapplied, sta, timers, toWpas, script, jobs, moves>>

\* The method apsta_state, and the answer that wpa_supplicant waits for.
ApstaState ==
  LET m == Head(toHostapd) IN
  /\ toHostapd # <<>> /\ m.kind # "reply"
  /\ toHostapd' = Tail(toHostapd)
  /\ Obeys(m) /\ missed' = Misses(m)
  /\ calling' = FALSE
  /\ UNCHANGED <<config, pending, calls, unapplied, sta, timers, toWpas, script, jobs, moves>>

-----------------------------------------------------------------------------
(* The setup script: drv_mac80211_setup and mac80211_reset_config. *)

Setup(a, s) == <<[to |-> "wpas", config |-> s, defer |-> TRUE],
                 [to |-> "hostapd", config |-> a, defer |-> TRUE]>>
               \o IF s = None THEN <<>>
                  ELSE <<[to |-> "start", config |-> s, defer |-> FALSE]>>
ResetConfig == <<[to |-> "hostapd", config |-> None, defer |-> FALSE],
                 [to |-> "wpas", config |-> None, defer |-> FALSE]>>

\* netifd runs the script to set the radio up or to tear it down.
Job ==
  /\ script = <<>> /\ jobs < MaxJobs /\ jobs' = jobs + 1
  /\ script' \in {Setup(a, s) : a \in ApConfigs \union {None}, s \in StaConfigs \union {None}}
                 \union {ResetConfig}
  /\ UNCHANGED <<hostapd, wpas, missed, toWpas, toHostapd, moves>>

\* config_set of hostapd
HostapdConfigSet ==
  /\ script # <<>> /\ Head(script).to = "hostapd"
  /\ IfaceSetConfig(Head(script).config)
  /\ script' = Tail(script)
  /\ UNCHANGED <<wpas, missed, toHostapd, jobs, moves>>

\* config_set of wpa_supplicant, with a configuration or to start it
WpasConfigSet ==
  /\ script # <<>> /\ Head(script).to \in {"wpas", "start"} /\ ~calling
  /\ sta' = SetStaConfig(Head(script).config)
  /\ timers' = IF Head(script).defer THEN timers ELSE timers + 1
  /\ script' = Tail(script)
  /\ UNCHANGED <<hostapd, calling, missed, toWpas, toHostapd, jobs, moves>>

Init ==
  /\ config = None /\ pending = Idle /\ ap = Absent /\ sta = NoSta
  /\ timers = 0 /\ toWpas = <<>> /\ toHostapd = <<>> /\ calling = FALSE
  /\ script = <<>> /\ calls = 0 /\ unapplied = FALSE /\ missed = FALSE
  /\ jobs = 0 /\ moves = 0 /\ faults = 0

Processes == WpasRequest \/ StartTimer \/ HostapdReply \/ ApstaState
             \/ HostapdConfigSet \/ WpasConfigSet
Environment == \/ Job
               \/ SwitchDone
               \/ \E s \in {"idle", "scanning"} : StaState(s, "own")
               \/ \E f \in Freqs : StaState("completed", f) \/ ChannelSwitch(f)

Next == Processes \/ Environment

Spec == Init /\ [][Next]_vars

\* The processes go on; nothing is assumed of the environment.
FairSpec == Spec /\ WF_vars(Processes)

-----------------------------------------------------------------------------
(* Properties. *)

\* Nothing is on its way between the scripts.
Settled == /\ pending.state = "none" /\ ~calling /\ timers = 0
           /\ toWpas = <<>> /\ toHostapd = <<>> /\ script = <<>>

\* The access point is on the channel of the client interface when this one is
\* connected, or on the one that it moves to, and it is silent while the client
\* interface scans, unless a reload has woken some bss: apsta_state and the
\* answer to phy_status together miss no change of state, although each ignores
\* some.  What they can miss is a switch of the channel: its notice is refused,
\* or it comes while there is no interface, and the answer still has the old
\* channel.  A notice is also lost on an interface that stays although its
\* configuration is gone, when the phy could not be opened.
FollowsSta ==
  Settled /\ config # None /\ ap.state # "absent" /\ sta.running /\ ~missed =>
    /\ sta.state = "completed" => ap.state \in {"up", "woken"} /\ ap.freq = Target
    /\ sta.state = "scanning" => ap.state \in {"stopped", "woken"}

\* The client interface that hostapd has stopped is started again, however
\* often its work is aborted and begun again in between.
StaRestarted == Settled /\ sta.config # None => sta.running

\* The interface of hostapd has the configuration that was set last; there is
\* none if there is no such configuration, or if it could not be added.  The
\* exceptions are a configuration that is removed while the interface is pending,
\* which comes up all the same, and one that is stored although the phy could not
\* be opened, so that nothing happens when it is set again.
ApCurrent ==
  Settled /\ ~unapplied => ap.config = config \/ (faults > 0 /\ ap.state = "absent")

\* When hostapd and wpa_supplicant have settled, both interfaces are as they
\* were configured, however often a configuration came in the middle of another.
Restored == StaRestarted /\ ApCurrent

\* Everything comes to rest: hostapd does not wait for wpa_supplicant while
\* this one waits for hostapd.
ComesToRest == []<>Settled
=============================================================================
