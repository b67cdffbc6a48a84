------------------------------ MODULE Wireless ------------------------------
(***************************************************************************)
(* netifd's wireless device manager: the device state machine and the      *)
(* handler queue of wireless-device.uc, driven by the ubus methods and     *)
(* netifd callbacks of wireless.uc and by the setup script (mac80211.sh).  *)
(*                                                                         *)
(* netifd is one event loop.  Every callback runs to its end before the    *)
(* next one, so an event is atomic; inside it two things are unrolled into *)
(* steps of their own, during which no other event can happen (Quiet):     *)
(*   - a loop over the devices (call.todo holds the ones still to visit),  *)
(*   - run_next_handler, always the last thing its callers do (draining).  *)
(*                                                                         *)
(* Abstracted: a configuration is a model value; all virtual interfaces of *)
(* a device share one network whose state is net (NetOff: disabled, else   *)
(* the ifindex of its bridge); the handler data and the link notifications *)
(* derived from it, ubus replies and logging are left out.                 *)
(***************************************************************************)
EXTENDS Naturals, FiniteSets

CONSTANTS
  Devices,       \* names of wifi-device sections
  Configs,       \* possible contents of a device section with its interfaces
  Absent,        \* the section does not exist
  IfIndexes,     \* ifindex values the network's bridge may have
  NetOff,        \* the network is disabled and has no ifindex
  NoHandler,     \* no handler runs (wdev_cur is null)
  DefaultRetry,  \* DEFAULT_RETRY
  CoarseClock,   \* TRUE: two requests may get the same time() second
  MaxCalls       \* bound on the events caused by the environment

ASSUME WirelessAssumption ==
  /\ DefaultRetry \in Nat
  /\ MaxCalls \in Nat
  /\ CoarseClock \in BOOLEAN
  /\ Absent \notin Configs
  /\ NetOff \notin IfIndexes
  /\ NoHandler \notin Devices
  /\ Configs # {}

VARIABLES
  wdev,        \* the wdev object of each name; present = listed in devices
  queue,       \* wdev_handler: the operation waiting for each device, if any
  ahead,       \* devices whose entry in wdev_handler has an earlier time
  wdev_cur,    \* device whose handler script runs, or NoHandler
  cur_op,      \* operation of that script, "none" without one
  up_sent,     \* the running setup script has called wireless_set_up
  applied,     \* handler_config given to the last setup script (history)
  net,         \* state of the network the interfaces belong to
  timer,       \* handler_timer is armed
  draining,    \* the event loop is inside run_next_handler
  call,        \* the loop over devices in progress
  start_due,   \* config_init has run, config_start has not yet
  calls        \* environment events so far

vars == <<wdev, queue, ahead, wdev_cur, cur_op, up_sent, applied, net, timer,
          draining, call, start_due, calls>>

States     == {"down", "setup", "up", "teardown"}
Operations == {"setup", "teardown"}
Nets       == IfIndexes \union {NetOff}
HandlerConfigs == [data: Configs, net: Nets]

WDevs == [present: BOOLEAN, state: States, autostart: BOOLEAN,
          retry: 0 .. DefaultRetry, retry_setup_failed: BOOLEAN,
          config_change: BOOLEAN, delete: BOOLEAN, data: Configs,
          disabled_vifs: BOOLEAN, ifindex_cache: Nets,
          handler_config: HandlerConfigs, procs: BOOLEAN]

NewConfigs == [Devices -> Configs \union {Absent}]
CallOps    == {"up", "down", "retry", "reconf", "check", "start", "config"}

TypeOK ==
  /\ wdev \in [Devices -> WDevs]
  /\ queue \in [Devices -> Operations \union {"none"}]
  /\ ahead \in [Devices -> SUBSET Devices]
  /\ wdev_cur \in Devices \union {NoHandler}
  /\ cur_op \in Operations \union {"none"}
  /\ up_sent \in BOOLEAN
  /\ applied \in [Devices -> HandlerConfigs]
  /\ net \in Nets
  /\ timer \in BOOLEAN
  /\ draining \in BOOLEAN
  /\ call \in [op: CallOps, todo: SUBSET Devices, new: NewConfigs]
  /\ start_due \in BOOLEAN
  /\ calls \in Nat

-----------------------------------------------------------------------------
(* The methods of a wdev object, as functions on its record. *)

\* Mutant: the state is not checked for a teardown in progress.
SetupInTeardown(w) ==
  IF w.state # "setup" /\ w.autostart /\ ~w.retry_setup_failed
  THEN [w EXCEPT !.procs = FALSE, !.config_change = FALSE, !.state = "setup"]
  ELSE w

\* Mutant: config_change is consumed before the early returns.
SetupConsumesFirst(w) ==
  IF w.state \in {"up", "down"} /\ w.autostart /\ ~w.retry_setup_failed
  THEN [w EXCEPT !.procs = FALSE, !.config_change = FALSE, !.state = "setup"]
  ELSE [w EXCEPT !.config_change = FALSE]

\* Mutant: a device that gave up is set up again.
SetupAfterFailure(w) ==
  IF w.state \in {"up", "down"} /\ w.autostart
  THEN [w EXCEPT !.procs = FALSE, !.config_change = FALSE, !.state = "setup"]
  ELSE w

\* setup(): from up or down, unless the device is stopped or has failed.
Setup(w) ==
  IF w.state \in {"up", "down"} /\ w.autostart /\ ~w.retry_setup_failed
  THEN [w EXCEPT !.procs = FALSE, !.config_change = FALSE, !.state = "setup"]
  ELSE w

Teardown(w) ==
  IF w.state \in {"setup", "up"}
  THEN [w EXCEPT !.procs = FALSE, !.state = "teardown"]
  ELSE w

\* Re-reads the state of the networks.  A newly disabled or enabled network,
\* or an enabled one with another ifindex, raises config_change.
UpdateDisabledVifs(w) ==
  LET off     == net = NetOff
      changed == ~off /\ net # w.ifindex_cache
  IN  [w EXCEPT !.disabled_vifs = off,
                !.ifindex_cache = net,
                !.config_change = @ \/ changed \/ (off # w.disabled_vifs)]

\* wdev_config_init(): the handler configuration from data and the networks.
ConfigInit(w) == [w EXCEPT !.handler_config = [data |-> w.data, net |-> net]]

Reset(w) == [w EXCEPT !.retry = DefaultRetry, !.retry_setup_failed = FALSE]

Check(w) ==
  LET u == UpdateDisabledVifs(w)
  IN  IF u.config_change THEN Setup(ConfigInit(u)) ELSE u

\* update(data) with the data of a configuration reload.
Update(w, data) ==
  IF w.data = data
  THEN w
  ELSE Check([Reset([w EXCEPT !.data = data, !.ifindex_cache = NetOff,
                              !.delete = FALSE])
              EXCEPT !.config_change = TRUE])

\* update() without data: the ubus method reconf.
Reconf(w) == Check([Reset(w) EXCEPT !.config_change = TRUE])

Start(w) ==
  IF w.delete
  THEN w
  ELSE LET r == Reset([w EXCEPT !.autostart = TRUE])
           u == UpdateDisabledVifs(r)
       IN  IF r.state # "down" THEN r
           ELSE IF u.config_change THEN Setup(ConfigInit(u)) ELSE Setup(u)

RetrySetup(w) ==
  IF ~w.delete /\ w.state = "down" /\ w.autostart THEN Start(w) ELSE w

\* stop(): during a setup only cancel_setup is set, which no code reads.
Stop(w) ==
  LET s == [w EXCEPT !.autostart = FALSE]
  IN  IF s.state = "up" THEN Teardown(s) ELSE s

Destroy(w) ==
  LET x == [w EXCEPT !.autostart = FALSE, !.delete = TRUE]
  IN  IF x.state = "down" THEN [x EXCEPT !.present = FALSE] ELSE Stop(x)

\* new(): retry is not set before the first start(), which reads as 0.
New(data) ==
  ConfigInit(UpdateDisabledVifs(
    [present |-> TRUE, state |-> "down", autostart |-> TRUE, retry |-> 0,
     retry_setup_failed |-> FALSE, config_change |-> FALSE, delete |-> FALSE,
     data |-> data, disabled_vifs |-> FALSE, ifindex_cache |-> NetOff,
     handler_config |-> [data |-> data, net |-> net], procs |-> FALSE]))

\* Mutant: a failed setup does not use up a retry.
SetupCbRetriesForever(w) ==
  IF w.state # "setup"
  THEN IF w.state = "up" /\ w.config_change THEN Setup(ConfigInit(w)) ELSE w
  ELSE Teardown(w)

\* Mutant: the retry counter is decremented without a test for zero.
SetupCbNoFloor(w) ==
  IF w.state # "setup"
  THEN IF w.state = "up" /\ w.config_change THEN Setup(ConfigInit(w)) ELSE w
  ELSE Teardown([w EXCEPT !.retry = @ - 1])

\* wdev_setup_cb(): the setup script ended, or did not start.
SetupCb(w) ==
  IF w.state # "setup"
  THEN IF w.state = "up" /\ w.config_change THEN Setup(ConfigInit(w)) ELSE w
  ELSE IF w.retry > 0
       THEN Teardown([w EXCEPT !.retry = @ - 1])
       ELSE Teardown([w EXCEPT !.retry_setup_failed = TRUE])

\* Mutant: the device is not set up again after a teardown.
TeardownCbStaysDown(w) ==
  LET x == [w EXCEPT !.state = "down"]
  IN  IF x.delete THEN [x EXCEPT !.present = FALSE] ELSE x


TeardownCb(w) ==
  LET x == [w EXCEPT !.state = "down"]
  IN  IF x.delete THEN [x EXCEPT !.present = FALSE] ELSE Setup(x)

HandlerCb(op, w) == IF op = "setup" THEN SetupCb(w) ELSE TeardownCb(w)

-----------------------------------------------------------------------------
(* The handler queue. *)

NoCall == [op |-> "config", todo |-> {}, new |-> [d \in Devices |-> Absent]]
Quiet  == ~draining /\ call.todo = {}
Present == {d \in Devices : wdev[d].present}
Queued == {e \in Devices : queue[e] # "none"}

\* The ways a request of d made now may sort against the queued ones: after
\* all of them, or in the same second as the newest.
AheadOf(d) ==
  LET others == Queued \ {d}
      newest == {e \in others : \A f \in others : e \notin ahead[f]}
  IN  {others} \union (IF CoarseClock THEN {others \ newest} ELSE {})

\* run_handler(): setup() and teardown() assign the state and then queue the
\* operation of that name, replacing the one that waits; run_next_handler is
\* left to the draining steps.
RunHandler(d, w) ==
  IF w.state # wdev[d].state /\ w.state \in Operations
  THEN /\ queue' = [queue EXCEPT ![d] = w.state]
       /\ \E s \in AheadOf(d) :
            ahead' = [e \in Devices |-> IF e = d THEN s ELSE ahead[e] \ {d}]
       /\ draining' = TRUE
  ELSE UNCHANGED <<queue, ahead, draining>>

\* A method of d is applied: its record becomes w.
Apply(d, w) == wdev' = [wdev EXCEPT ![d] = w] /\ RunHandler(d, w)

\* __run_next_handler(): the oldest entry leaves the queue and its script is
\* started with the handler configuration of this moment.
StartScript(d) ==
  /\ draining /\ wdev_cur = NoHandler
  /\ queue[d] # "none" /\ ahead[d] = {}
  /\ wdev_cur' = d
  /\ cur_op' = queue[d]
  /\ up_sent' = FALSE
  /\ applied' = IF queue[d] = "setup"
                THEN [applied EXCEPT ![d] = wdev[d].handler_config]
                ELSE applied
  /\ queue' = [queue EXCEPT ![d] = "none"]
  /\ ahead' = [e \in Devices |-> ahead[e] \ {d}]
  /\ draining' = FALSE
  /\ UNCHANGED <<wdev, net, timer, call, start_due, calls>>

\* __run_next_handler() when the process cannot be created: the completion
\* callback runs at once, and the loop of run_next_handler goes on.
SpawnFails(d) ==
  /\ draining /\ wdev_cur = NoHandler
  /\ queue[d] # "none" /\ ahead[d] = {}
  /\ calls < MaxCalls
  /\ LET w == HandlerCb(queue[d], wdev[d])
         q == [queue EXCEPT ![d] = "none"]
         again == w.state # wdev[d].state /\ w.state \in Operations
     IN  /\ wdev' = [wdev EXCEPT ![d] = w]
         /\ queue' = IF again THEN [q EXCEPT ![d] = w.state] ELSE q
         /\ \E s \in AheadOf(d) :
              ahead' = [e \in Devices |->
                          IF e = d THEN IF again THEN s ELSE {}
                          ELSE ahead[e] \ {d}]
  /\ timer' = TRUE
  /\ calls' = calls + 1
  /\ UNCHANGED <<wdev_cur, cur_op, up_sent, applied, net, draining, call,
                 start_due>>

\* run_next_handler() returns: a script runs, or nothing is queued.
DrainDone ==
  /\ draining
  /\ wdev_cur # NoHandler \/ Queued = {}
  /\ draining' = FALSE
  /\ UNCHANGED <<wdev, queue, ahead, wdev_cur, cur_op, up_sent, applied, net,
                 timer, call, start_due, calls>>

\* handler_timer fires.
HandlerTimer ==
  /\ Quiet /\ timer
  /\ timer' = FALSE
  /\ draining' = TRUE
  /\ UNCHANGED <<wdev, queue, ahead, wdev_cur, cur_op, up_sent, applied, net,
                 call, start_due, calls>>

\* Mutant: handler_timer is not armed when a script ends.
RunHandlerCbNoTimer ==
  /\ Quiet /\ wdev_cur # NoHandler
  /\ wdev_cur' = NoHandler
  /\ cur_op' = "none"
  /\ up_sent' = FALSE
  /\ Apply(wdev_cur, HandlerCb(cur_op, wdev[wdev_cur]))
  /\ UNCHANGED <<timer, applied, net, call, start_due, calls>>

\* run_handler_cb(): the running handler is over and its callback runs.
RunHandlerCb ==
  /\ Quiet /\ wdev_cur # NoHandler
  /\ wdev_cur' = NoHandler
  /\ cur_op' = "none"
  /\ up_sent' = FALSE
  /\ timer' = TRUE
  /\ Apply(wdev_cur, HandlerCb(cur_op, wdev[wdev_cur]))
  /\ UNCHANGED <<applied, net, call, start_due, calls>>

\* The script exits by itself.
ScriptExit == RunHandlerCb

\* run_handler_timeout(): after 30 s the script is cancelled, whatever it does.
\* It is taken from netifd that a cancelled process does not call back.
ScriptTimeout == RunHandlerCb

-----------------------------------------------------------------------------
(* What the scripts report (notify), in the order of drv_mac80211_setup: a  *)
(* failure or a process, and wireless_set_up last.  Of these a teardown has  *)
(* only the failure of a channel that is not valid, which _wdev_handler      *)
(* reports before either script begins.                                      *)

ScriptTells(d, w) ==
  /\ Quiet /\ wdev_cur = d /\ ~up_sent
  /\ Apply(d, w)
  /\ UNCHANGED <<wdev_cur, cur_op, applied, net, timer, call, start_due>>

\* NOTIFY_CMD_UP and wdev_mark_up.
NotifyUp(d) ==
  /\ cur_op = "setup"
  /\ ScriptTells(d, IF wdev[d].state = "setup"
                    THEN [wdev[d] EXCEPT !.state = "up"] ELSE wdev[d])
  /\ up_sent' = TRUE
  /\ UNCHANGED calls

\* NOTIFY_CMD_PROCESS_ADD.
NotifyProcess(d) ==
  /\ cur_op = "setup"
  /\ wdev[d].state \in {"setup", "up"} /\ ~wdev[d].procs
  /\ ScriptTells(d, [wdev[d] EXCEPT !.procs = TRUE])
  /\ UNCHANGED <<up_sent, calls>>

\* NOTIFY_CMD_SET_RETRY with 0, sent by wireless_setup_failed.
NotifyRetry(d) ==
  /\ calls < MaxCalls
  /\ ScriptTells(d, [wdev[d] EXCEPT !.retry = 0])
  /\ calls' = calls + 1
  /\ UNCHANGED up_sent

-----------------------------------------------------------------------------
(* The environment. *)

\* wdev_proc_check(): a registered process is no longer alive.
ProcCheck(d) ==
  /\ Quiet /\ wdev[d].present /\ wdev[d].procs /\ calls < MaxCalls
  /\ Apply(d, Teardown(wdev[d]))
  /\ calls' = calls + 1
  /\ UNCHANGED <<wdev_cur, cur_op, up_sent, applied, net, timer, call, start_due>>

\* The network is enabled, disabled or gets another bridge; netifd calls
\* check_interfaces afterwards.
NetChange(n) ==
  /\ Quiet /\ n # net /\ calls < MaxCalls
  /\ net' = n
  /\ calls' = calls + 1
  /\ call' = [call EXCEPT !.op = "check", !.todo = Present]
  /\ UNCHANGED <<wdev, queue, ahead, wdev_cur, cur_op, up_sent, applied, timer,
                 draining, start_due>>

\* A ubus call to up, down, retry or reconf for one device or for all.
UbusCall(op, todo) ==
  /\ Quiet /\ calls < MaxCalls
  /\ todo # {}
  /\ calls' = calls + 1
  /\ call' = [call EXCEPT !.op = op, !.todo = todo]
  /\ UNCHANGED <<wdev, queue, ahead, wdev_cur, cur_op, up_sent, applied, net,
                 timer, draining, start_due>>

\* config_init() with the configuration new; netifd calls config_start later.
ConfigReload(new) ==
  /\ Quiet /\ ~start_due /\ calls < MaxCalls
  /\ calls' = calls + 1
  /\ call' = [op |-> "config", new |-> new,
              todo |-> {d \in Devices : wdev[d].present \/ new[d] # Absent}]
  /\ start_due' = TRUE
  /\ UNCHANGED <<wdev, queue, ahead, wdev_cur, cur_op, up_sent, applied, net,
                 timer, draining>>

ConfigStart ==
  /\ Quiet /\ start_due
  /\ start_due' = FALSE
  /\ call' = [call EXCEPT !.op = "start", !.todo = Present]
  /\ UNCHANGED <<wdev, queue, ahead, wdev_cur, cur_op, up_sent, applied, net,
                 timer, draining, calls>>

-----------------------------------------------------------------------------
(* One device of the loop in progress. *)

\* What the loop does to d.  config_start and check_interfaces skip the
\* stopped devices; update_config destroys, updates or creates.
Visit(op, d, w) ==
  CASE op = "up"     -> Start(w)
    [] op = "down"   -> Stop(w)
    [] op = "retry"  -> RetrySetup(w)
    [] op = "reconf" -> Reconf(w)
    [] op = "check"  -> IF w.autostart THEN Check(w) ELSE w
    [] op = "start"  -> IF w.autostart THEN Start(w) ELSE w
    [] op = "config" -> IF ~w.present THEN New(call.new[d])
                        ELSE IF call.new[d] = Absent THEN Destroy(w)
                        ELSE Update(w, call.new[d])

\* update_config destroys before it updates and creates.
Order(d) ==
  call.op = "config" /\ call.new[d] # Absent
    => \A e \in call.todo : call.new[e] # Absent

Creates(d) == call.op = "config" /\ ~wdev[d].present /\ call.new[d] # Absent

\* A device that was removed while the loop ran is not visited.
CallStep(d) ==
  /\ ~draining /\ d \in call.todo /\ Order(d)
  /\ call' = IF call.todo = {d} THEN NoCall ELSE [call EXCEPT !.todo = @ \ {d}]
  /\ Apply(d, IF wdev[d].present \/ Creates(d)
              THEN Visit(call.op, d, wdev[d]) ELSE wdev[d])
  /\ timer' = (timer \/ Creates(d))
  /\ UNCHANGED <<wdev_cur, cur_op, up_sent, applied, net, start_due, calls>>

-----------------------------------------------------------------------------

\* netifd starts with no device; the first configuration load creates them.
Init ==
  /\ net \in Nets
  /\ \E c \in Configs :
       wdev = [d \in Devices |-> [New(c) EXCEPT !.present = FALSE]]
  /\ queue = [d \in Devices |-> "none"]
  /\ ahead = [d \in Devices |-> {}]
  /\ wdev_cur = NoHandler
  /\ cur_op = "none"
  /\ up_sent = FALSE
  /\ applied = [d \in Devices |-> wdev[d].handler_config]
  /\ timer = FALSE
  /\ draining = FALSE
  /\ call = NoCall
  /\ start_due = FALSE
  /\ calls = 0

UbusTargets ==
  {{d} : d \in Present} \union {Present}

Drain == DrainDone \/ \E d \in Devices : StartScript(d) \/ SpawnFails(d)

Script == \/ ScriptExit
          \/ ScriptTimeout
          \/ \E d \in Devices : NotifyUp(d) \/ NotifyProcess(d) \/ NotifyRetry(d)

Environment ==
  \/ \E d \in Devices : ProcCheck(d)
  \/ \E n \in Nets : NetChange(n)
  \/ \E op \in {"up", "down", "retry", "reconf"} :
       \E todo \in UbusTargets : UbusCall(op, todo)
  \/ \E new \in NewConfigs : ConfigReload(new)

Next == \/ Drain
        \/ HandlerTimer
        \/ Script
        \/ Environment
        \/ ConfigStart
        \/ \E d \in Devices : CallStep(d)

\* The event loop goes on: it finishes what it is inside of, fires its timers
\* (the 30 s script timeout among them) and netifd ends a configuration load.
Fairness ==
  /\ WF_vars(DrainDone \/ \E d \in Devices : StartScript(d))
  /\ WF_vars(HandlerTimer)
  /\ WF_vars(ScriptTimeout)
  /\ WF_vars(ConfigStart)
  /\ WF_vars(\E d \in Devices : CallStep(d))

Spec == Init /\ [][Next]_vars
FairSpec == Spec /\ Fairness
-----------------------------------------------------------------------------
(* Properties. *)

\* No operation is lost or doubled although a new request replaces a waiting
\* one, the timeout completes a script and a device can be reconfigured while
\* its setup script still runs: what waits for a device is what its state says,
\* a device in setup or teardown has its script waiting or running, a teardown
\* is never queued behind itself, and a device that is down has no script (so
\* that it can be deleted).
HandlerMatchesState ==
  \A d \in Devices :
    LET s == wdev[d].state
        running(op) == wdev_cur = d /\ cur_op = op
    IN  /\ queue[d] # "none" => queue[d] = s
        /\ s = "setup" => queue[d] = "setup" \/ running("setup")
        /\ s = "teardown" <=> queue[d] = "teardown" \/ running("teardown")
        /\ running("teardown") => queue[d] = "none"
        /\ s = "down" => wdev_cur # d

\* A radio never runs an old configuration unnoticed: if the last setup script
\* of a device that is up, or whose only setup is the one running, got another
\* handler configuration than the current one, config_change is still raised.
StaleIsFlagged ==
  \A d \in Devices :
    LET w == wdev[d]
    IN  /\ \/ w.state = "up"
           \/ w.state = "setup" /\ queue[d] = "none"
        /\ applied[d] # w.handler_config
        => w.config_change

\* A device that gave up (retry_setup_failed) is down or on its way there,
\* and no setup of it waits or is accepted until a call resets it.
FailedIsDown ==
  \A d \in Devices :
    wdev[d].retry_setup_failed => /\ wdev[d].state \in {"teardown", "down"}
                                  /\ queue[d] # "setup"

\* A present device that should run and has not failed is down only before
\* its first start: no sequence of teardown, retry and reconfiguration leaves
\* it down with nobody to set it up.
NotForgotten ==
  \A d \in Devices :
    wdev[d].present /\ wdev[d].autostart /\ ~wdev[d].retry_setup_failed
      /\ wdev[d].state = "down"
    => start_due \/ (call.op = "start" /\ d \in call.todo)

\* With a quiet environment every device settles: retries run out, every
\* script ends or times out, and each device stays up or stays down.  One that
\* should run is up, unless it gave up, and runs its current configuration or
\* has config_change raised.
Settles ==
  \A d \in Devices :
    <>[](/\ wdev[d].state \in {"up", "down"}
         /\ wdev[d].present /\ wdev[d].autostart /\ ~wdev[d].retry_setup_failed
              => /\ wdev[d].state = "up"
                 /\ applied[d] = wdev[d].handler_config \/ wdev[d].config_change)

\* All devices share one script slot, and the end of a script that queues
\* nothing wakes the queue by handler_timer only: no waiting operation starves.
Served == \A d \in Devices : queue[d] # "none" ~> queue[d] = "none"

\* "wifi down" disables the device: once stopped it goes down, unless it is
\* started again.
DownDisables ==
  \A d \in Devices :
    (wdev[d].present /\ ~wdev[d].autostart)
      ~> (wdev[d].autostart \/ ~wdev[d].present \/ wdev[d].state = "down")
=============================================================================
