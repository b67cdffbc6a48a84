--------------------------- MODULE Wireless_proofs ---------------------------
(***************************************************************************)
(* Proofs about Wireless for every set of devices, configurations and      *)
(* networks, every retry limit and any number of environment events.       *)
(*                                                                         *)
(* The inductive invariant speaks of one device at a time (DeviceInv), in  *)
(* terms of its record, its queue entry and the script that runs for it.   *)
(* The methods of a device are reduced to a relation on its record (Legal),*)
(* so that the steps of the event loop need not look inside them.          *)
(***************************************************************************)
EXTENDS Wireless, TLAPS, FiniteSetTheorems, WellFoundedInduction

\* The operation of the script running for d.
Run(d) == IF wdev_cur = d THEN cur_op ELSE "none"

StartPending(d) == start_due \/ (call.op = "start" /\ d \in call.todo)

\* What a device record w, its queue entry q, its running script r (which has
\* reported up if sent) and the configuration a of its last setup agree on.
DeviceInv(w, q, r, sent, a) ==
  /\ q # "none" => q = w.state
  /\ w.state = "setup" => q = "setup" \/ r = "setup"
  /\ w.state = "teardown" <=> q = "teardown" \/ r = "teardown"
  /\ r = "teardown" => q = "none"
  /\ w.state = "down" => r = "none"
  /\ r = "setup" /\ ~sent => w.state \in {"setup", "teardown"} /\ q # "setup"
  /\ (w.state = "up" \/ (w.state = "setup" /\ q = "none")) /\ a # w.handler_config
       => w.config_change
  /\ w.retry_setup_failed => w.state \in {"teardown", "down"}
  /\ ~w.present => w.state = "down"
  /\ w.delete => ~w.autostart

\* A device nobody is going to start.
Waiting(w) == w.present /\ w.autostart /\ ~w.retry_setup_failed /\ w.state = "down"

CurOp == wdev_cur = NoHandler <=> cur_op = "none"

\* A configuration load in progress has config_start still to come.
LoadUnfinished == call.op = "config" /\ call.todo # {} => start_due

IInv ==
  /\ TypeOK
  /\ CurOp
  /\ LoadUnfinished
  /\ \A d \in Devices :
       /\ DeviceInv(wdev[d], queue[d], Run(d), up_sent, applied[d])
       /\ Waiting(wdev[d]) => StartPending(d)

\* What any method other than the completion callbacks may do to a record.
Legal(w, x) ==
  /\ x \in WDevs
  /\ \/ x.state = w.state /\ (w.config_change => x.config_change)
     \/ x.state = "setup" /\ w.state \in {"up", "down"} /\ ~x.retry_setup_failed
     \/ x.state = "teardown" /\ w.state \in {"setup", "up"}
  /\ x.state = w.state /\ x.handler_config # w.handler_config => x.config_change
  /\ x.retry_setup_failed => w.retry_setup_failed
  /\ x.delete => ~x.autostart
  /\ x.present = w.present \/ (w.state = "down" /\ ~x.present /\ x.state = "down")

\* The queue entry after a method turned w into x.
NewEntry(w, x, q) == IF x.state # w.state /\ x.state \in Operations THEN x.state ELSE q

-----------------------------------------------------------------------------
(* The methods. *)

\* setup() is legal and never leaves a device waiting that it may start.
LEMMA SetupLegal ==
  ASSUME NEW w \in WDevs, w.delete => ~w.autostart
  PROVE  Legal(w, Setup(w)) /\ ~Waiting(Setup(w))
BY DEF Legal, Setup, WDevs, Waiting, States

\* teardown() is legal.
LEMMA TeardownLegal ==
  ASSUME NEW w \in WDevs, w.delete => ~w.autostart
  PROVE  Legal(w, Teardown(w)) /\ (Waiting(Teardown(w)) => Waiting(w))
BY DEF Legal, Teardown, WDevs, Waiting, States

\* wdev_update_disabled_vifs only ever raises config_change.
LEMMA UpdateDisabledVifsFacts ==
  ASSUME NEW w \in WDevs, net \in Nets
  PROVE  LET u == UpdateDisabledVifs(w)
         IN  /\ u \in WDevs
             /\ w.config_change => u.config_change
             /\ u.state = w.state /\ u.autostart = w.autostart
             /\ u.retry_setup_failed = w.retry_setup_failed
             /\ u.present = w.present /\ u.delete = w.delete
             /\ u.handler_config = w.handler_config
             /\ u.data = w.data
BY DEF UpdateDisabledVifs, WDevs, Nets

\* wdev_config_init changes the handler configuration only.
LEMMA ConfigInitFacts ==
  ASSUME NEW w \in WDevs, net \in Nets
  PROVE  LET u == ConfigInit(w)
         IN  /\ u \in WDevs
             /\ u.config_change = w.config_change
             /\ u.state = w.state /\ u.autostart = w.autostart
             /\ u.retry_setup_failed = w.retry_setup_failed
             /\ u.present = w.present /\ u.delete = w.delete
BY DEF ConfigInit, WDevs, HandlerConfigs

\* wdev_reset restores the retry count and clears the failure.
LEMMA ResetFacts ==
  ASSUME NEW w \in WDevs
  PROVE  LET u == Reset(w)
         IN  /\ u \in WDevs
             /\ u.config_change = w.config_change
             /\ u.state = w.state /\ u.autostart = w.autostart
             /\ ~u.retry_setup_failed
             /\ u.present = w.present /\ u.delete = w.delete
             /\ u.handler_config = w.handler_config
<1>1. DefaultRetry \in 0 .. DefaultRetry
  BY WirelessAssumption
<1> QED BY <1>1 DEF Reset, WDevs

\* check(): when config_change is already raised, a device that may run is
\* not left waiting.
LEMMA CheckLegal ==
  ASSUME NEW w \in WDevs, net \in Nets, w.delete => ~w.autostart
  PROVE  /\ Legal(w, Check(w))
         /\ Waiting(Check(w)) => Waiting(w) /\ ~w.config_change
<1> DEFINE u == UpdateDisabledVifs(w)
           c == ConfigInit(u)
<1>1. /\ u \in WDevs
      /\ w.config_change => u.config_change
      /\ u.state = w.state /\ u.autostart = w.autostart
      /\ u.retry_setup_failed = w.retry_setup_failed
      /\ u.present = w.present /\ u.delete = w.delete
      /\ u.handler_config = w.handler_config
  BY UpdateDisabledVifsFacts
<1>2. /\ c \in WDevs
      /\ c.config_change = u.config_change
      /\ c.state = u.state /\ c.autostart = u.autostart
      /\ c.retry_setup_failed = u.retry_setup_failed
      /\ c.present = u.present /\ c.delete = u.delete
  BY <1>1, ConfigInitFacts
<1>3. Legal(c, Setup(c)) /\ ~Waiting(Setup(c))
  BY <1>1, <1>2, SetupLegal
<1>4. Check(w) = IF u.config_change THEN Setup(c) ELSE u
  BY DEF Check
<1> HIDE DEF u, c
<1>5. CASE u.config_change
  BY <1>1, <1>2, <1>3, <1>4, <1>5 DEF Legal, Waiting
<1>6. CASE ~u.config_change
  BY <1>1, <1>4, <1>6 DEF Legal, Waiting
<1> QED BY <1>5, <1>6

\* update(data) is legal and starts a device that may run.
LEMMA UpdateLegal ==
  ASSUME NEW w \in WDevs, net \in Nets, w.delete => ~w.autostart,
         NEW data \in Configs
  PROVE  /\ Legal(w, Update(w, data))
         /\ Waiting(Update(w, data)) => Waiting(w)
<1> DEFINE p == [w EXCEPT !.data = data, !.ifindex_cache = NetOff, !.delete = FALSE]
           r == Reset(p)
           c == [r EXCEPT !.config_change = TRUE]
<1>1. /\ p \in WDevs
      /\ p.state = w.state /\ p.autostart = w.autostart
      /\ p.present = w.present /\ ~p.delete
      /\ p.handler_config = w.handler_config
  BY DEF WDevs, Nets
<1>2. /\ r \in WDevs
      /\ r.state = p.state /\ r.autostart = p.autostart
      /\ ~r.retry_setup_failed
      /\ r.present = p.present /\ r.delete = p.delete
      /\ r.handler_config = p.handler_config
  BY <1>1, ResetFacts
<1> HIDE DEF r
<1>3. /\ c \in WDevs /\ c.config_change
      /\ c.state = r.state /\ c.autostart = r.autostart
      /\ ~c.retry_setup_failed
      /\ c.present = r.present /\ c.delete = r.delete
      /\ c.handler_config = r.handler_config
  BY <1>2 DEF WDevs
<1>4. Update(w, data) = IF w.data = data THEN w ELSE Check(c)
  BY DEF Update, r
<1> HIDE DEF p, c
<1>5. Legal(c, Check(c)) /\ ~Waiting(Check(c))
  BY <1>1, <1>2, <1>3, CheckLegal
<1>6. CASE w.data = data
  BY <1>4, <1>6 DEF Legal
<1>7. CASE w.data # data
  BY <1>1, <1>2, <1>3, <1>4, <1>5, <1>7 DEF Legal
<1> QED BY <1>6, <1>7

\* update() without data is legal.
LEMMA ReconfLegal ==
  ASSUME NEW w \in WDevs, net \in Nets, w.delete => ~w.autostart
  PROVE  /\ Legal(w, Reconf(w))
         /\ Waiting(Reconf(w)) => Waiting(w)
<1> DEFINE r == Reset(w)
           c == [r EXCEPT !.config_change = TRUE]
<1>2. /\ r \in WDevs
      /\ r.state = w.state /\ r.autostart = w.autostart
      /\ ~r.retry_setup_failed
      /\ r.present = w.present /\ r.delete = w.delete
      /\ r.handler_config = w.handler_config
  BY ResetFacts
<1> HIDE DEF r
<1>3. /\ c \in WDevs /\ c.config_change
      /\ c.state = r.state /\ c.autostart = r.autostart
      /\ ~c.retry_setup_failed
      /\ c.present = r.present /\ c.delete = r.delete
      /\ c.handler_config = r.handler_config
  BY <1>2 DEF WDevs
<1>4. Reconf(w) = Check(c)
  BY DEF Reconf, r
<1> HIDE DEF c
<1>5. Legal(c, Check(c)) /\ ~Waiting(Check(c))
  BY <1>2, <1>3, CheckLegal
<1> QED BY <1>2, <1>3, <1>4, <1>5 DEF Legal

\* start() is legal and leaves no device waiting.
LEMMA StartLegal ==
  ASSUME NEW w \in WDevs, net \in Nets, w.delete => ~w.autostart
  PROVE  Legal(w, Start(w)) /\ ~Waiting(Start(w))
<1> DEFINE a == [w EXCEPT !.autostart = TRUE]
           r == Reset(a)
           u == UpdateDisabledVifs(r)
           c == ConfigInit(u)
<1>1. CASE w.delete
  BY <1>1 DEF Start, Legal, Waiting
<1>2. CASE ~w.delete
  <2>1. /\ a \in WDevs /\ a.state = w.state /\ a.autostart /\ a.present = w.present
        /\ ~a.delete /\ a.config_change = w.config_change
        /\ a.handler_config = w.handler_config
    BY <1>2 DEF WDevs
  <2> HIDE DEF a
  <2>2. /\ r \in WDevs /\ r.state = w.state /\ r.autostart /\ r.present = w.present
        /\ ~r.delete /\ r.config_change = w.config_change /\ ~r.retry_setup_failed
        /\ r.handler_config = w.handler_config
    BY <2>1, ResetFacts
  <2> HIDE DEF r
  <2>3. /\ u \in WDevs /\ u.state = w.state /\ u.autostart /\ u.present = w.present
        /\ ~u.delete /\ ~u.retry_setup_failed
        /\ u.handler_config = w.handler_config
        /\ w.config_change => u.config_change
    BY <2>2, UpdateDisabledVifsFacts
  <2> HIDE DEF u
  <2>4. /\ c \in WDevs /\ c.state = w.state /\ c.autostart /\ c.present = w.present
        /\ ~c.delete /\ ~c.retry_setup_failed
    BY <2>3, ConfigInitFacts
  <2> HIDE DEF c
  <2>5. Start(w) = IF r.state # "down" THEN r
                   ELSE IF u.config_change THEN Setup(c) ELSE Setup(u)
    BY <1>2 DEF Start, a, r, u, c
  <2>6. Legal(c, Setup(c)) /\ ~Waiting(Setup(c)) /\ Legal(u, Setup(u)) /\ ~Waiting(Setup(u))
    BY <2>3, <2>4, SetupLegal
  <2>7. CASE r.state # "down"
    BY <2>2, <2>5, <2>7 DEF Legal, Waiting
  <2>8. r.state = "down" => (Setup(c)).state = "setup" /\ (Setup(u)).state = "setup"
    BY <2>2, <2>3, <2>4 DEF Setup, WDevs
  <2>9. CASE r.state = "down"
    BY <2>2, <2>3, <2>4, <2>5, <2>6, <2>8, <2>9 DEF Legal, Waiting
  <2> QED BY <2>7, <2>9
<1> QED BY <1>1, <1>2

\* retry_setup() is legal.
LEMMA RetrySetupLegal ==
  ASSUME NEW w \in WDevs, net \in Nets, w.delete => ~w.autostart
  PROVE  /\ Legal(w, RetrySetup(w))
         /\ Waiting(RetrySetup(w)) => Waiting(w)
<1>1. Legal(w, Start(w)) /\ ~Waiting(Start(w))
  BY StartLegal
<1>2. Legal(w, w)
  BY DEF Legal
<1> QED BY <1>1, <1>2 DEF RetrySetup

\* stop() is legal and leaves no device waiting to be started.
LEMMA StopLegal ==
  ASSUME NEW w \in WDevs
  PROVE  Legal(w, Stop(w)) /\ ~Waiting(Stop(w))
BY DEF Legal, Stop, Teardown, WDevs, Waiting, States

\* destroy() is legal.
LEMMA DestroyLegal ==
  ASSUME NEW w \in WDevs
  PROVE  Legal(w, Destroy(w)) /\ ~Waiting(Destroy(w))
BY DEF Legal, Destroy, Stop, Teardown, WDevs, Waiting, States

\* A new device is down.
LEMMA NewFacts ==
  ASSUME NEW data \in Configs, net \in Nets
  PROVE  /\ New(data) \in WDevs
         /\ New(data).state = "down"
         /\ New(data).present /\ ~New(data).delete
         /\ ~New(data).retry_setup_failed
<1> DEFINE w == [present |-> TRUE, state |-> "down", autostart |-> TRUE, retry |-> 0,
     retry_setup_failed |-> FALSE, config_change |-> FALSE, delete |-> FALSE,
     data |-> data, disabled_vifs |-> FALSE, ifindex_cache |-> NetOff,
     handler_config |-> [data |-> data, net |-> net], procs |-> FALSE]
<1>1. w \in WDevs
  BY WirelessAssumption DEF WDevs, States, Nets, HandlerConfigs
<1>2. UpdateDisabledVifs(w) \in WDevs
      /\ UpdateDisabledVifs(w).state = w.state /\ UpdateDisabledVifs(w).present = w.present
      /\ UpdateDisabledVifs(w).delete = w.delete
      /\ UpdateDisabledVifs(w).retry_setup_failed = w.retry_setup_failed
  BY <1>1, UpdateDisabledVifsFacts
<1>3. New(data) = ConfigInit(UpdateDisabledVifs(w))
  BY DEF New
<1> DEFINE u == UpdateDisabledVifs(w)
           c == ConfigInit(u)
<1>4. u \in WDevs /\ u.state = "down" /\ u.present /\ ~u.delete /\ ~u.retry_setup_failed
  BY <1>2
<1>5. New(data) = c
  BY <1>3
<1> HIDE DEF u, w
<1>6. c \in WDevs /\ c.state = "down" /\ c.present /\ ~c.delete /\ ~c.retry_setup_failed
  BY <1>4, ConfigInitFacts
<1> QED BY <1>5, <1>6

-----------------------------------------------------------------------------
(* One device at a step. *)

\* A legal method keeps the agreement between a device, its queue entry and
\* its script.
LEMMA MethodKeeps ==
  ASSUME NEW w \in WDevs, NEW x, Legal(w, x), w.present,
         NEW q \in Operations \union {"none"}, NEW r, NEW sent, NEW a,
         DeviceInv(w, q, r, sent, a)
  PROVE  DeviceInv(x, NewEntry(w, x, q), r, sent, a)
<1>1. w.state \in States /\ x.state \in States
  BY DEF Legal, WDevs
<1>2. CASE x.state = w.state
  <2>1. NewEntry(w, x, q) = q
    BY <1>2 DEF NewEntry
  <2> QED BY <1>1, <1>2, <2>1 DEF Legal, DeviceInv, States, Operations
<1>3. CASE x.state # w.state /\ x.state = "setup"
  <2>1. NewEntry(w, x, q) = "setup"
    BY <1>3 DEF NewEntry, Operations
  <2> QED BY <1>1, <1>3, <2>1 DEF Legal, DeviceInv, States, Operations
<1>4. CASE x.state # w.state /\ x.state = "teardown"
  <2>1. NewEntry(w, x, q) = "teardown"
    BY <1>4 DEF NewEntry, Operations
  <2> QED BY <1>1, <1>4, <2>1 DEF Legal, DeviceInv, States, Operations
<1> QED BY <1>1, <1>2, <1>3, <1>4 DEF Legal

\* The record after a failed setup, before the teardown it leads to.
LEMMA SetupCbFacts ==
  ASSUME NEW w \in WDevs, net \in Nets, w.delete => ~w.autostart
  PROVE  LET x == SetupCb(w)
         IN  /\ x \in WDevs
             /\ x.present = w.present
             /\ x.delete => ~x.autostart
             /\ w.state = "setup" => x.state = "teardown"
             /\ w.state # "setup" => Legal(w, x)
<1>1. CASE w.state = "setup"
  <2>1. CASE w.retry > 0
    <3> DEFINE v == [w EXCEPT !.retry = @ - 1]
    <3>1. w.retry - 1 \in 0 .. DefaultRetry
      BY <2>1, WirelessAssumption DEF WDevs
    <3>2. v \in WDevs /\ v.state = "setup" /\ v.present = w.present
          /\ v.delete = w.delete /\ v.autostart = w.autostart
      BY <1>1, <3>1 DEF WDevs
    <3>3. SetupCb(w) = Teardown(v)
      BY <1>1, <2>1 DEF SetupCb
    <3> HIDE DEF v
    <3>4. Teardown(v) = [v EXCEPT !.procs = FALSE, !.state = "teardown"]
      BY <3>2 DEF Teardown
    <3>5. /\ Teardown(v) \in WDevs /\ (Teardown(v)).present = v.present
          /\ (Teardown(v)).delete = v.delete /\ (Teardown(v)).autostart = v.autostart
          /\ (Teardown(v)).state = "teardown"
      BY <3>2, <3>4 DEF WDevs, States
    <3> QED BY <1>1, <3>2, <3>3, <3>5
  <2>2. CASE ~(w.retry > 0)
    <3> DEFINE v == [w EXCEPT !.retry_setup_failed = TRUE]
    <3>2. v \in WDevs /\ v.state = "setup" /\ v.present = w.present
          /\ v.delete = w.delete /\ v.autostart = w.autostart
      BY <1>1 DEF WDevs
    <3>3. SetupCb(w) = Teardown(v)
      BY <1>1, <2>2 DEF SetupCb
    <3> HIDE DEF v
    <3>4. Teardown(v) = [v EXCEPT !.procs = FALSE, !.state = "teardown"]
      BY <3>2 DEF Teardown
    <3>5. /\ Teardown(v) \in WDevs /\ (Teardown(v)).present = v.present
          /\ (Teardown(v)).delete = v.delete /\ (Teardown(v)).autostart = v.autostart
          /\ (Teardown(v)).state = "teardown"
      BY <3>2, <3>4 DEF WDevs, States
    <3> QED BY <1>1, <3>2, <3>3, <3>5
  <2> QED BY <2>1, <2>2
<1>2. CASE w.state = "up" /\ w.config_change
  <2> DEFINE c == ConfigInit(w)
  <2>1. /\ c \in WDevs /\ c.config_change = w.config_change
        /\ c.state = w.state /\ c.autostart = w.autostart
        /\ c.retry_setup_failed = w.retry_setup_failed
        /\ c.present = w.present /\ c.delete = w.delete
    BY ConfigInitFacts
  <2>2. SetupCb(w) = Setup(c)
    BY <1>2 DEF SetupCb
  <2> HIDE DEF c
  <2>3. Legal(c, Setup(c))
    BY <2>1, SetupLegal
  <2> QED BY <1>2, <2>1, <2>2, <2>3 DEF Legal
<1>3. CASE w.state # "setup" /\ ~(w.state = "up" /\ w.config_change)
  <2>1. SetupCb(w) = w
    BY <1>3 DEF SetupCb
  <2> QED BY <1>3, <2>1 DEF Legal
<1> QED BY <1>1, <1>2, <1>3

\* After a teardown the device is gone, stays down or is set up again.
LEMMA TeardownCbFacts ==
  ASSUME NEW w \in WDevs, w.delete => ~w.autostart, w.present
  PROVE  LET x == TeardownCb(w)
         IN  /\ x \in WDevs
             /\ x.delete => ~x.autostart
             /\ \/ x.state = "down" /\ ~Waiting(x)
                \/ x.state = "setup" /\ x.present /\ ~x.retry_setup_failed
<1> DEFINE v == [w EXCEPT !.state = "down"]
<1>1. v \in WDevs /\ v.state = "down" /\ v.delete = w.delete
      /\ v.autostart = w.autostart /\ v.present
  BY DEF WDevs, States
<1>2. TeardownCb(w) = IF v.delete THEN [v EXCEPT !.present = FALSE] ELSE Setup(v)
  BY DEF TeardownCb
<1> HIDE DEF v
<1>3. CASE v.delete
  BY <1>1, <1>2, <1>3 DEF WDevs, Waiting
<1>4. CASE ~v.delete
  <2>1. Legal(v, Setup(v)) /\ ~Waiting(Setup(v))
    BY <1>1, SetupLegal
  <2>2. (Setup(v)).state \in {"down", "setup"} /\ (Setup(v)).present
    BY <1>1 DEF Setup, WDevs
  <2> QED BY <1>1, <1>2, <1>4, <2>1, <2>2 DEF Legal
<1> QED BY <1>3, <1>4

\* The completion callback of a script that ran keeps the agreement.
LEMMA CallbackKeeps ==
  ASSUME NEW w \in WDevs, net \in Nets,
         NEW q \in Operations \union {"none"}, NEW r \in Operations, NEW sent, NEW a,
         DeviceInv(w, q, r, sent, a)
  PROVE  LET x == HandlerCb(r, w)
         IN  /\ x \in WDevs
             /\ DeviceInv(x, NewEntry(w, x, q), "none", FALSE, a)
             /\ ~Waiting(x)
<1> DEFINE x == HandlerCb(r, w)
           Goal == /\ x \in WDevs
                   /\ DeviceInv(x, NewEntry(w, x, q), "none", FALSE, a)
                   /\ ~Waiting(x)
<1>1. w.state \in States /\ w.present /\ (w.delete => ~w.autostart) /\ w.state # "down"
  BY DEF DeviceInv, WDevs, Operations
<1>2. CASE r = "setup"
  <2>1. x = SetupCb(w)
    BY <1>2 DEF HandlerCb
  <2> HIDE DEF x
  <2>2. /\ x \in WDevs /\ x.present = w.present /\ (x.delete => ~x.autostart)
        /\ w.state = "setup" => x.state = "teardown"
        /\ w.state # "setup" => Legal(w, x)
    BY <1>1, <2>1, SetupCbFacts
  <2>3. ASSUME w.state = "setup" PROVE Goal
    <3>1. NewEntry(w, x, q) = "teardown"
      BY <2>2, <2>3 DEF NewEntry, Operations
    <3> QED BY <1>1, <2>2, <2>3, <3>1 DEF DeviceInv, Waiting
  <2>4. ASSUME w.state # "setup" PROVE Goal
    <3>1. DeviceInv(x, NewEntry(w, x, q), r, sent, a)
      BY <1>1, <2>2, <2>4, MethodKeeps
    <3>2. x.state = "setup" => NewEntry(w, x, q) = "setup"
      BY <2>4 DEF NewEntry, Operations
    <3>3. x.state # "down"
      BY <1>1, <2>2, <2>4 DEF Legal
    <3> QED BY <1>2, <2>2, <3>1, <3>2, <3>3 DEF DeviceInv, Waiting
  <2> QED BY <2>3, <2>4 DEF x
<1>3. CASE r = "teardown"
  <2>1. x = TeardownCb(w)
    BY <1>3 DEF HandlerCb
  <2> HIDE DEF x
  <2>2. /\ x \in WDevs /\ (x.delete => ~x.autostart)
        /\ \/ x.state = "down" /\ ~Waiting(x)
           \/ x.state = "setup" /\ x.present /\ ~x.retry_setup_failed
    BY <1>1, <2>1, TeardownCbFacts
  <2>3. w.state = "teardown" /\ q = "none"
    BY <1>3 DEF DeviceInv
  <2>4. ASSUME x.state = "down" PROVE Goal
    <3>1. NewEntry(w, x, q) = "none"
      BY <2>3, <2>4 DEF NewEntry, Operations
    <3> QED BY <2>2, <2>4, <3>1 DEF DeviceInv
  <2>5. ASSUME x.state = "setup" PROVE Goal
    <3>1. NewEntry(w, x, q) = "setup"
      BY <2>3, <2>5 DEF NewEntry, Operations
    <3> QED BY <2>2, <2>5, <3>1 DEF DeviceInv, Waiting
  <2> QED BY <2>2, <2>4, <2>5 DEF x
<1> QED BY <1>2, <1>3 DEF Operations

\* So does the callback of a script that could not be started: it is the one
\* of a script that ran and left the queue empty.
LEMMA SpawnFailureKeeps ==
  ASSUME NEW w \in WDevs, net \in Nets, NEW q \in Operations, NEW sent, NEW a,
         DeviceInv(w, q, "none", sent, a)
  PROVE  LET x == HandlerCb(q, w)
         IN  /\ x \in WDevs
             /\ DeviceInv(x, NewEntry(w, x, "none"), "none", FALSE, a)
             /\ ~Waiting(x)
<1> DEFINE x == HandlerCb(q, w)
<1>1. w.state = q /\ w.present /\ (w.delete => ~w.autostart)
  BY DEF DeviceInv, Operations
<1>2. CASE q = "setup"
  <2>1. x = SetupCb(w)
    BY <1>2 DEF HandlerCb
  <2> HIDE DEF x
  <2>2. /\ x \in WDevs /\ x.present /\ (x.delete => ~x.autostart)
        /\ x.state = "teardown"
    BY <1>1, <1>2, <2>1, SetupCbFacts
  <2>3. NewEntry(w, x, "none") = "teardown"
    BY <1>1, <1>2, <2>2 DEF NewEntry, Operations
  <2>4. DeviceInv(x, NewEntry(w, x, "none"), "none", FALSE, a) /\ ~Waiting(x)
    BY <2>2, <2>3 DEF DeviceInv, Waiting
  <2> QED BY <2>2, <2>4 DEF x
<1>3. CASE q = "teardown"
  <2>1. DeviceInv(w, "none", q, TRUE, a)
    BY <1>1, <1>3 DEF DeviceInv
  <2>2. "none" \in Operations \union {"none"}
    OBVIOUS
  <2> HIDE DEF x
  <2>3. /\ HandlerCb(q, w) \in WDevs
        /\ DeviceInv(HandlerCb(q, w), NewEntry(w, HandlerCb(q, w), "none"), "none", FALSE, a)
        /\ ~Waiting(HandlerCb(q, w))
    BY <2>1, <2>2, CallbackKeeps
  <2> QED BY <2>3
<1> QED BY <1>2, <1>3 DEF Operations

-----------------------------------------------------------------------------
(* The steps of the event loop. *)

\* A step that applies the record x to d leaves the other devices alone.
LEMMA ApplyFacts ==
  ASSUME TypeOK, NEW d \in Devices, NEW x \in WDevs, Apply(d, x)
  PROVE  /\ wdev' \in [Devices -> WDevs]
         /\ queue' \in [Devices -> Operations \union {"none"}]
         /\ ahead' \in [Devices -> SUBSET Devices]
         /\ draining' \in BOOLEAN
         /\ wdev'[d] = x
         /\ queue'[d] = NewEntry(wdev[d], x, queue[d])
         /\ \A e \in Devices \ {d} : wdev'[e] = wdev[e] /\ queue'[e] = queue[e]
<1>1. /\ wdev \in [Devices -> WDevs]
      /\ queue \in [Devices -> Operations \union {"none"}]
      /\ ahead \in [Devices -> SUBSET Devices]
      /\ draining \in BOOLEAN
  BY DEF TypeOK
<1>2. /\ wdev' \in [Devices -> WDevs]
      /\ wdev'[d] = x
      /\ \A e \in Devices \ {d} : wdev'[e] = wdev[e]
  BY <1>1 DEF Apply
<1>3. AheadOf(d) \subseteq SUBSET Devices
  BY DEF AheadOf, Queued
<1>4. CASE x.state # wdev[d].state /\ x.state \in Operations
  <2>1. queue' = [queue EXCEPT ![d] = x.state] /\ draining' = TRUE
    BY <1>4 DEF Apply, RunHandler
  <2>2. PICK s \in AheadOf(d) :
          ahead' = [e \in Devices |-> IF e = d THEN s ELSE ahead[e] \ {d}]
    BY <1>4 DEF Apply, RunHandler
  <2>3. ahead' \in [Devices -> SUBSET Devices]
    BY <1>1, <1>3, <2>2
  <2> QED BY <1>1, <1>2, <1>4, <2>1, <2>3 DEF NewEntry
<1>5. CASE ~(x.state # wdev[d].state /\ x.state \in Operations)
  <2>1. UNCHANGED <<queue, ahead, draining>>
    BY <1>5 DEF Apply, RunHandler
  <2> QED BY <1>1, <1>2, <1>5, <2>1 DEF NewEntry
<1> QED BY <1>4, <1>5

\* An event that applies a legal method to a present device keeps the
\* invariant, if the device does not become one that nobody starts.
LEMMA LegalStep ==
  ASSUME IInv, NEW d \in Devices, NEW x \in WDevs, Apply(d, x),
         wdev[d].present, Legal(wdev[d], x),
         Waiting(x) => StartPending(d)',
         \A e \in Devices \ {d} : StartPending(e) => StartPending(e)',
         UNCHANGED <<wdev_cur, cur_op, up_sent, applied, net>>,
         LoadUnfinished',
         timer' \in BOOLEAN, start_due' \in BOOLEAN, calls' \in Nat,
         call' \in [op: CallOps, todo: SUBSET Devices, new: NewConfigs]
  PROVE  IInv'
<1>1. /\ wdev' \in [Devices -> WDevs]
      /\ queue' \in [Devices -> Operations \union {"none"}]
      /\ ahead' \in [Devices -> SUBSET Devices]
      /\ draining' \in BOOLEAN
      /\ wdev'[d] = x
      /\ queue'[d] = NewEntry(wdev[d], x, queue[d])
      /\ \A e \in Devices \ {d} : wdev'[e] = wdev[e] /\ queue'[e] = queue[e]
  BY ApplyFacts DEF IInv
<1>2. TypeOK' /\ CurOp'
  BY <1>1 DEF IInv, TypeOK, CurOp
<1>3. ASSUME NEW e \in Devices
      PROVE  /\ DeviceInv(wdev[e], queue[e], Run(e), up_sent, applied[e])'
             /\ (Waiting(wdev[e]) => StartPending(e))'
  <2>1. Run(e)' = Run(e)
    BY DEF Run
  <2>2. CASE e = d
    <3>1. wdev[d] \in WDevs /\ queue[d] \in Operations \union {"none"}
          /\ DeviceInv(wdev[d], queue[d], Run(d), up_sent, applied[d])
      BY DEF IInv, TypeOK
    <3>2. DeviceInv(x, NewEntry(wdev[d], x, queue[d]), Run(d), up_sent, applied[d])
      BY <3>1, MethodKeeps
    <3> QED BY <1>1, <2>1, <2>2, <3>2
  <2>3. CASE e # d
    <3>1. DeviceInv(wdev[e], queue[e], Run(e), up_sent, applied[e])
          /\ (Waiting(wdev[e]) => StartPending(e))
      BY DEF IInv
    <3> QED BY <1>1, <2>1, <2>3, <3>1
  <2> QED BY <2>2, <2>3
<1> QED BY <1>2, <1>3 DEF IInv

\* A step that leaves devices, queue and script alone keeps the invariant.
LEMMA LoopStep ==
  ASSUME IInv,
         UNCHANGED <<wdev, queue, ahead, wdev_cur, cur_op, up_sent, applied>>,
         \A e \in Devices : Waiting(wdev[e]) /\ StartPending(e) => StartPending(e)',
         LoadUnfinished', net' \in Nets,
         timer' \in BOOLEAN, start_due' \in BOOLEAN, calls' \in Nat,
         draining' \in BOOLEAN,
         call' \in [op: CallOps, todo: SUBSET Devices, new: NewConfigs]
  PROVE  IInv'
<1>1. TypeOK' /\ CurOp'
  BY DEF IInv, TypeOK, CurOp
<1>2. ASSUME NEW e \in Devices
      PROVE  /\ DeviceInv(wdev[e], queue[e], Run(e), up_sent, applied[e])'
             /\ (Waiting(wdev[e]) => StartPending(e))'
  <2>1. Run(e)' = Run(e)
    BY DEF Run
  <2>2. DeviceInv(wdev[e], queue[e], Run(e), up_sent, applied[e])
        /\ (Waiting(wdev[e]) => StartPending(e))
    BY DEF IInv
  <2> QED BY <2>1, <2>2
<1> QED BY <1>1, <1>2 DEF IInv

\* The invariant holds initially.
LEMMA InitInv == Init => IInv
<1> SUFFICES ASSUME Init PROVE IInv
  OBVIOUS
<1>1. PICK c \in Configs : wdev = [d \in Devices |-> [New(c) EXCEPT !.present = FALSE]]
  BY DEF Init
<1> DEFINE n == New(c)
           w == [n EXCEPT !.present = FALSE]
<1>2. net \in Nets
  BY DEF Init
<1>3. n \in WDevs /\ n.state = "down" /\ ~n.delete /\ ~n.retry_setup_failed
  BY <1>2, NewFacts
<1> HIDE DEF n
<1>4. w \in WDevs /\ w.state = "down" /\ ~w.delete /\ ~w.present /\ ~w.retry_setup_failed
  BY <1>3 DEF WDevs
<1>5. wdev = [d \in Devices |-> w]
  BY <1>1 DEF n
<1> HIDE DEF w
<1>6. w.handler_config \in HandlerConfigs
  BY <1>4 DEF WDevs
<1>7. NoCall \in [op: CallOps, todo: SUBSET Devices, new: NewConfigs]
  BY DEF NoCall, CallOps, NewConfigs
<1>8. TypeOK
  <2>1. wdev \in [Devices -> WDevs]
    BY <1>4, <1>5
  <2>2. applied \in [Devices -> HandlerConfigs]
    BY <1>5, <1>6 DEF Init
  <2> QED BY <1>2, <1>7, <2>1, <2>2 DEF TypeOK, Init, Operations
<1>9. CurOp /\ LoadUnfinished
  BY DEF Init, CurOp, LoadUnfinished, NoCall
<1>10. ASSUME NEW d \in Devices
       PROVE  /\ DeviceInv(wdev[d], queue[d], Run(d), up_sent, applied[d])
              /\ Waiting(wdev[d]) => StartPending(d)
  <2>1. wdev[d] = w /\ queue[d] = "none"
    BY <1>5 DEF Init
  <2>2. Run(d) = "none"
    BY DEF Run, Init
  <2> QED BY <1>4, <2>1, <2>2 DEF DeviceInv, Waiting
<1> QED BY <1>8, <1>9, <1>10 DEF IInv

\* Starting a script moves the operation from the queue to the script slot.
LEMMA StartScriptInv ==
  ASSUME IInv, NEW d \in Devices, StartScript(d)
  PROVE  IInv'
<1>1. TypeOK
  BY DEF IInv
<1>2. /\ wdev_cur = NoHandler /\ queue[d] \in Operations
      /\ wdev_cur' = d /\ cur_op' = queue[d] /\ up_sent' = FALSE
      /\ queue' = [queue EXCEPT ![d] = "none"]
      /\ wdev[d] \in WDevs /\ wdev[d].handler_config \in HandlerConfigs
  BY <1>1 DEF StartScript, TypeOK, WDevs
<1>3. TypeOK'
  <2>1. applied' \in [Devices -> HandlerConfigs]
    BY <1>1, <1>2 DEF StartScript, TypeOK
  <2>2. ahead' \in [Devices -> SUBSET Devices]
    BY <1>1 DEF StartScript, TypeOK
  <2> QED BY <1>1, <1>2, <2>1, <2>2 DEF StartScript, TypeOK
<1>4. CurOp'
  BY <1>2, WirelessAssumption DEF CurOp, Operations
<1>5. LoadUnfinished'
  BY DEF IInv, LoadUnfinished, StartScript
<1>6. ASSUME NEW e \in Devices
      PROVE  /\ DeviceInv(wdev[e], queue[e], Run(e), up_sent, applied[e])'
             /\ (Waiting(wdev[e]) => StartPending(e))'
  <2>1. DeviceInv(wdev[e], queue[e], Run(e), up_sent, applied[e])
        /\ (Waiting(wdev[e]) => StartPending(e))
    BY DEF IInv
  <2>2. Run(e) = "none"
    BY <1>2, WirelessAssumption DEF Run
  <2>3. (Waiting(wdev[e]) => StartPending(e))'
    BY <2>1 DEF StartScript, StartPending
  <2>4. CASE e = d
    <3>1. /\ wdev'[e] = wdev[e] /\ queue'[e] = "none" /\ Run(e)' = queue[e]
          /\ up_sent' = FALSE
          /\ queue[e] = "setup" => applied'[e] = wdev[e].handler_config
          /\ queue[e] = "teardown" => applied'[e] = applied[e]
      BY <1>1, <1>2, <2>4 DEF Run, StartScript, TypeOK
    <3>2. queue[e] \in {"setup", "teardown"} /\ wdev[e].state = queue[e]
      BY <1>2, <2>1, <2>4 DEF DeviceInv, Operations
    <3>3. DeviceInv(wdev[e], queue[e], Run(e), up_sent, applied[e])'
      BY <2>1, <2>2, <3>1, <3>2 DEF DeviceInv
    <3> QED BY <2>3, <3>3
  <2>5. CASE e # d
    <3>1. /\ wdev'[e] = wdev[e] /\ queue'[e] = queue[e] /\ Run(e)' = "none"
          /\ applied'[e] = applied[e]
      BY <1>1, <1>2, <2>5 DEF Run, StartScript, TypeOK
    <3>2. DeviceInv(wdev[e], queue[e], Run(e), up_sent, applied[e])'
      BY <2>1, <2>2, <3>1 DEF DeviceInv
    <3> QED BY <2>3, <3>2
  <2> QED BY <2>4, <2>5
<1> QED BY <1>3, <1>4, <1>5, <1>6 DEF IInv

\* A script that cannot be started is completed at once.
LEMMA SpawnFailsInv ==
  ASSUME IInv, NEW d \in Devices, SpawnFails(d)
  PROVE  IInv'
<1> DEFINE x == HandlerCb(queue[d], wdev[d])
<1>1. TypeOK
  BY DEF IInv
<1>2. wdev_cur = NoHandler /\ queue[d] \in Operations /\ wdev[d] \in WDevs /\ net \in Nets
  BY <1>1 DEF SpawnFails, TypeOK
<1>3. \A e \in Devices : Run(e) = "none" /\ Run(e)' = "none"
  BY <1>2, WirelessAssumption DEF Run, SpawnFails
<1>4. /\ x \in WDevs
      /\ DeviceInv(x, NewEntry(wdev[d], x, "none"), "none", FALSE, applied[d])
      /\ ~Waiting(x)
  <2>1. DeviceInv(wdev[d], queue[d], "none", up_sent, applied[d])
    BY <1>3 DEF IInv
  <2> QED BY <1>2, <2>1, SpawnFailureKeeps
<1>5. /\ wdev' = [wdev EXCEPT ![d] = x]
      /\ queue' = [queue EXCEPT ![d] = NewEntry(wdev[d], x, "none")]
  <2> HIDE DEF x
  <2>1. /\ wdev' = [wdev EXCEPT ![d] = x]
        /\ queue' = IF x.state # wdev[d].state /\ x.state \in Operations
                    THEN [[queue EXCEPT ![d] = "none"] EXCEPT ![d] = x.state]
                    ELSE [queue EXCEPT ![d] = "none"]
    BY DEF SpawnFails, x
  <2> QED BY <1>1, <2>1 DEF NewEntry, TypeOK
<1>6. ahead' \in [Devices -> SUBSET Devices]
  <2>1. AheadOf(d) \subseteq SUBSET Devices
    BY DEF AheadOf, Queued
  <2>2. ahead \in [Devices -> SUBSET Devices]
    BY <1>1 DEF TypeOK
  <2>3. PICK s \in AheadOf(d), b \in BOOLEAN :
          ahead' = [e \in Devices |-> IF e = d THEN IF b THEN s ELSE {} ELSE ahead[e] \ {d}]
    BY DEF SpawnFails
  <2> QED BY <2>1, <2>2, <2>3
<1> HIDE DEF x
<1>7. NewEntry(wdev[d], x, "none") \in Operations \union {"none"}
  BY DEF NewEntry
<1>8. TypeOK'
  BY <1>1, <1>4, <1>5, <1>6, <1>7 DEF SpawnFails, TypeOK
<1>9. CurOp' /\ LoadUnfinished'
  BY DEF IInv, CurOp, LoadUnfinished, SpawnFails
<1>10. ASSUME NEW e \in Devices
       PROVE  /\ DeviceInv(wdev[e], queue[e], Run(e), up_sent, applied[e])'
              /\ (Waiting(wdev[e]) => StartPending(e))'
  <2>1. applied' = applied /\ up_sent' = up_sent
    BY DEF SpawnFails
  <2>2. CASE e = d
    <3>1. wdev'[e] = x /\ queue'[e] = NewEntry(wdev[d], x, "none")
      BY <1>1, <1>5, <2>2 DEF TypeOK
    <3>2. DeviceInv(x, NewEntry(wdev[d], x, "none"), "none", up_sent, applied[d])
      BY <1>4 DEF DeviceInv
    <3> QED BY <1>3, <1>4, <2>1, <2>2, <3>1, <3>2
  <2>3. CASE e # d
    <3>1. wdev'[e] = wdev[e] /\ queue'[e] = queue[e]
      BY <1>1, <1>5, <2>3 DEF TypeOK
    <3>2. DeviceInv(wdev[e], queue[e], Run(e), up_sent, applied[e])
          /\ (Waiting(wdev[e]) => StartPending(e))
      BY DEF IInv
    <3>3. StartPending(e)' = StartPending(e)
      BY DEF StartPending, SpawnFails
    <3> QED BY <1>3, <2>1, <3>1, <3>2, <3>3
  <2> QED BY <2>2, <2>3
<1> QED BY <1>8, <1>9, <1>10 DEF IInv

\* The end of a script, by itself or by the timeout.
LEMMA RunHandlerCbInv ==
  ASSUME IInv, RunHandlerCb
  PROVE  IInv'
<1> DEFINE d == wdev_cur
           x == HandlerCb(cur_op, wdev[d])
<1>1. TypeOK /\ CurOp
  BY DEF IInv
<1>2. d \in Devices /\ cur_op \in Operations /\ wdev[d] \in WDevs /\ net \in Nets
      /\ queue[d] \in Operations \union {"none"}
  BY <1>1 DEF RunHandlerCb, TypeOK, CurOp
<1>3. /\ x \in WDevs
      /\ DeviceInv(x, NewEntry(wdev[d], x, queue[d]), "none", FALSE, applied[d])
      /\ ~Waiting(x)
  <2>1. DeviceInv(wdev[d], queue[d], cur_op, up_sent, applied[d])
    BY <1>2 DEF IInv, Run
  <2> QED BY <1>2, <2>1, CallbackKeeps
<1>4. Apply(d, x)
  BY DEF RunHandlerCb
<1> HIDE DEF x
<1>5. /\ wdev' \in [Devices -> WDevs]
      /\ queue' \in [Devices -> Operations \union {"none"}]
      /\ ahead' \in [Devices -> SUBSET Devices]
      /\ draining' \in BOOLEAN
      /\ wdev'[d] = x
      /\ queue'[d] = NewEntry(wdev[d], x, queue[d])
      /\ \A e \in Devices \ {d} : wdev'[e] = wdev[e] /\ queue'[e] = queue[e]
  BY <1>1, <1>2, <1>3, <1>4, ApplyFacts
<1>6. TypeOK'
  BY <1>1, <1>5 DEF RunHandlerCb, TypeOK
<1>7. CurOp' /\ LoadUnfinished'
  BY DEF IInv, CurOp, LoadUnfinished, RunHandlerCb
<1>8. ASSUME NEW e \in Devices
      PROVE  /\ DeviceInv(wdev[e], queue[e], Run(e), up_sent, applied[e])'
             /\ (Waiting(wdev[e]) => StartPending(e))'
  <2>1. applied' = applied /\ up_sent' = FALSE /\ Run(e)' = "none"
    BY WirelessAssumption DEF RunHandlerCb, Run
  <2>2. CASE e = d
    BY <1>3, <1>5, <2>1, <2>2
  <2>3. CASE e # d
    <3>1. DeviceInv(wdev[e], queue[e], Run(e), up_sent, applied[e])
          /\ (Waiting(wdev[e]) => StartPending(e))
      BY DEF IInv
    <3>2. Run(e) = "none"
      BY <2>3 DEF Run
    <3>3. StartPending(e)' = StartPending(e)
      BY DEF StartPending, RunHandlerCb
    <3>4. DeviceInv(wdev[e], queue[e], "none", FALSE, applied[e])
      BY <3>1, <3>2 DEF DeviceInv
    <3> QED BY <1>5, <2>1, <2>3, <3>1, <3>3, <3>4
  <2> QED BY <2>2, <2>3
<1> QED BY <1>6, <1>7, <1>8 DEF IInv

\* The script's report that the device is up.
LEMMA NotifyUpInv ==
  ASSUME IInv, NEW d \in Devices, NotifyUp(d)
  PROVE  IInv'
<1> DEFINE w == wdev[d]
           x == IF w.state = "setup" THEN [w EXCEPT !.state = "up"] ELSE w
<1>1. TypeOK
  BY DEF IInv
<1>2. w \in WDevs /\ queue[d] \in Operations \union {"none"}
  BY <1>1 DEF TypeOK
<1>3. DeviceInv(w, queue[d], Run(d), up_sent, applied[d]) /\ Run(d) = "setup" /\ ~up_sent
  BY DEF IInv, Run, NotifyUp, ScriptTells
<1>4. Apply(d, x)
  BY DEF NotifyUp, ScriptTells
<1>5. x \in WDevs /\ DeviceInv(x, NewEntry(w, x, queue[d]), "setup", TRUE, applied[d]) /\ ~Waiting(x)
  <2> HIDE DEF w
  <2>1. CASE w.state = "setup"
    <3> DEFINE y == [w EXCEPT !.state = "up"]
    <3>1. /\ y \in WDevs /\ y.state = "up" /\ y.present = w.present
          /\ y.delete = w.delete /\ y.autostart = w.autostart
          /\ y.retry_setup_failed = w.retry_setup_failed
          /\ y.handler_config = w.handler_config /\ y.config_change = w.config_change
      BY <1>2 DEF WDevs, States
    <3>2. x = y
      BY <2>1
    <3> HIDE DEF y, x
    <3>3. queue[d] = "none"
      BY <1>2, <1>3, <2>1 DEF DeviceInv
    <3>4. NewEntry(w, y, queue[d]) = "none"
      BY <3>1, <3>3 DEF NewEntry, Operations
    <3>5. DeviceInv(y, "none", "setup", TRUE, applied[d])
      BY <1>3, <2>1, <3>1, <3>3 DEF DeviceInv
    <3> QED BY <3>1, <3>2, <3>4, <3>5 DEF Waiting
  <2>2. CASE w.state # "setup"
    <3>1. x = w
      BY <2>2
    <3>2. NewEntry(w, w, queue[d]) = queue[d]
      BY DEF NewEntry
    <3> HIDE DEF x
    <3> QED BY <1>2, <1>3, <2>2, <3>1, <3>2 DEF DeviceInv, Waiting
  <2> QED BY <2>1, <2>2
<1> HIDE DEF x
<1>6. /\ wdev' \in [Devices -> WDevs]
      /\ queue' \in [Devices -> Operations \union {"none"}]
      /\ ahead' \in [Devices -> SUBSET Devices]
      /\ draining' \in BOOLEAN
      /\ wdev'[d] = x
      /\ queue'[d] = NewEntry(wdev[d], x, queue[d])
      /\ \A e \in Devices \ {d} : wdev'[e] = wdev[e] /\ queue'[e] = queue[e]
  BY <1>1, <1>4, <1>5, ApplyFacts
<1>7. TypeOK'
  BY <1>1, <1>6 DEF NotifyUp, ScriptTells, TypeOK
<1>8. CurOp' /\ LoadUnfinished'
  BY DEF IInv, CurOp, LoadUnfinished, NotifyUp, ScriptTells
<1>9. ASSUME NEW e \in Devices
      PROVE  /\ DeviceInv(wdev[e], queue[e], Run(e), up_sent, applied[e])'
             /\ (Waiting(wdev[e]) => StartPending(e))'
  <2>1. applied' = applied /\ up_sent' = TRUE /\ Run(e)' = Run(e)
    BY DEF NotifyUp, ScriptTells, Run
  <2>2. CASE e = d
    BY <1>3, <1>5, <1>6, <2>1, <2>2
  <2>3. CASE e # d
    <3>1. DeviceInv(wdev[e], queue[e], Run(e), up_sent, applied[e])
          /\ (Waiting(wdev[e]) => StartPending(e))
      BY DEF IInv
    <3>2. StartPending(e)' = StartPending(e)
      BY DEF StartPending, NotifyUp, ScriptTells
    <3>3. DeviceInv(wdev[e], queue[e], Run(e), TRUE, applied[e])
      BY <3>1 DEF DeviceInv
    <3> QED BY <1>6, <2>1, <2>3, <3>1, <3>2, <3>3
  <2> QED BY <2>2, <2>3
<1> QED BY <1>7, <1>8, <1>9 DEF IInv

\* The reports that change neither the state nor the configuration.
LEMMA NotifyOtherInv ==
  ASSUME IInv, NEW d \in Devices, NotifyProcess(d) \/ NotifyRetry(d)
  PROVE  IInv'
<1>1. TypeOK /\ wdev[d] \in WDevs
  BY DEF IInv, TypeOK
<1>2. DeviceInv(wdev[d], queue[d], Run(d), up_sent, applied[d]) /\ Run(d) # "none"
  <2>1. wdev_cur = d /\ wdev_cur # NoHandler
    BY WirelessAssumption DEF NotifyProcess, NotifyRetry, ScriptTells
  <2>2. cur_op # "none"
    BY <2>1 DEF IInv, CurOp
  <2> QED BY <2>1, <2>2 DEF IInv, Run
<1>3. wdev[d].present /\ (wdev[d].delete => ~wdev[d].autostart) /\ wdev[d].state # "down"
  BY <1>2 DEF DeviceInv
<1>4. PICK x : /\ x = [wdev[d] EXCEPT !.procs = TRUE]
                  \/ x = [wdev[d] EXCEPT !.retry = 0]
               /\ Apply(d, x)
  BY DEF NotifyProcess, NotifyRetry, ScriptTells
<1>5. 0 \in 0 .. DefaultRetry
  BY WirelessAssumption
<1>6. x \in WDevs /\ Legal(wdev[d], x) /\ ~Waiting(x)
  <2> DEFINE w == wdev[d]
  <2>1. w \in WDevs /\ w.state # "down" /\ (w.delete => ~w.autostart)
    BY <1>1, <1>3
  <2>2. x = [w EXCEPT !.procs = TRUE] \/ x = [w EXCEPT !.retry = 0]
    BY <1>4
  <2> HIDE DEF w
  <2>3. /\ x \in WDevs /\ x.state = w.state /\ x.config_change = w.config_change
        /\ x.handler_config = w.handler_config /\ x.present = w.present
        /\ x.retry_setup_failed = w.retry_setup_failed
        /\ x.delete = w.delete /\ x.autostart = w.autostart
    <3>1. CASE x = [w EXCEPT !.retry = 0]
      BY <1>5, <2>1, <3>1 DEF WDevs
    <3>2. CASE x = [w EXCEPT !.procs = TRUE]
      BY <2>1, <3>2 DEF WDevs
    <3> QED BY <2>2, <3>1, <3>2
  <2>4. Legal(w, x) /\ ~Waiting(x)
    BY <2>1, <2>3 DEF Legal, Waiting
  <2> QED BY <2>3, <2>4 DEF w
<1>7. /\ UNCHANGED <<wdev_cur, cur_op, up_sent, applied, net, timer, call, start_due>>
      /\ calls' \in Nat
  BY <1>1 DEF NotifyProcess, NotifyRetry, ScriptTells, TypeOK
<1>8. LoadUnfinished' /\ \A e \in Devices : StartPending(e)' = StartPending(e)
  BY <1>7 DEF IInv, LoadUnfinished, StartPending
<1>9. timer' \in BOOLEAN /\ start_due' \in BOOLEAN
      /\ call' \in [op: CallOps, todo: SUBSET Devices, new: NewConfigs]
  BY <1>1, <1>7 DEF TypeOK
<1> QED BY <1>3, <1>4, <1>6, <1>7, <1>8, <1>9, LegalStep

\* A dead process tears the device down.
LEMMA ProcCheckInv ==
  ASSUME IInv, NEW d \in Devices, ProcCheck(d)
  PROVE  IInv'
<1> DEFINE x == Teardown(wdev[d])
<1>1. TypeOK /\ wdev[d] \in WDevs
  BY DEF IInv, TypeOK
<1>2. (wdev[d].delete => ~wdev[d].autostart) /\ (Waiting(wdev[d]) => StartPending(d))
  BY DEF IInv, DeviceInv
<1>3. Apply(d, x) /\ wdev[d].present
  BY DEF ProcCheck
<1>4. Legal(wdev[d], x) /\ (Waiting(x) => Waiting(wdev[d]))
  BY <1>1, <1>2, TeardownLegal
<1> HIDE DEF x
<1>5. x \in WDevs
  BY <1>4 DEF Legal
<1>6. /\ UNCHANGED <<wdev_cur, cur_op, up_sent, applied, net, timer, call, start_due>>
      /\ calls' \in Nat
  BY <1>1 DEF ProcCheck, TypeOK
<1>7. LoadUnfinished' /\ \A e \in Devices : StartPending(e)' = StartPending(e)
  BY <1>6 DEF IInv, LoadUnfinished, StartPending
<1>8. timer' \in BOOLEAN /\ start_due' \in BOOLEAN
      /\ call' \in [op: CallOps, todo: SUBSET Devices, new: NewConfigs]
  BY <1>1, <1>6 DEF TypeOK
<1> QED BY <1>2, <1>3, <1>4, <1>5, <1>6, <1>7, <1>8, LegalStep

\* The events that only set the loop going.
LEMMA LoopEventsInv ==
  ASSUME IInv,
         \/ DrainDone
         \/ HandlerTimer
         \/ \E n \in Nets : NetChange(n)
         \/ \E op \in {"up", "down", "retry", "reconf"} :
              \E todo \in UbusTargets : UbusCall(op, todo)
         \/ \E new \in NewConfigs : ConfigReload(new)
         \/ ConfigStart
  PROVE  IInv'
<1>1. TypeOK /\ LoadUnfinished
  BY DEF IInv
<1>2. Present \subseteq Devices /\ UbusTargets \subseteq SUBSET Devices
  BY DEF Present, UbusTargets
<1>3. CASE DrainDone \/ HandlerTimer
  <2>1. /\ UNCHANGED <<wdev, queue, ahead, wdev_cur, cur_op, up_sent, applied, net,
                       call, start_due, calls>>
        /\ timer' \in BOOLEAN /\ draining' \in BOOLEAN
    BY <1>1, <1>3 DEF DrainDone, HandlerTimer, TypeOK
  <2>2. LoadUnfinished' /\ \A e \in Devices : StartPending(e)' = StartPending(e)
    BY <1>1, <2>1 DEF LoadUnfinished, StartPending
  <2>3. call' \in [op: CallOps, todo: SUBSET Devices, new: NewConfigs]
        /\ start_due' \in BOOLEAN /\ calls' \in Nat /\ net' \in Nets
    BY <1>1, <2>1 DEF TypeOK
  <2> QED BY <2>1, <2>2, <2>3, LoopStep
<1>4. CASE \/ \E n \in Nets : NetChange(n)
           \/ \E op \in {"up", "down", "retry", "reconf"} :
                \E todo \in UbusTargets : UbusCall(op, todo)
  <2>1. PICK op \in CallOps \ {"config"}, todo \in SUBSET Devices :
          /\ UNCHANGED <<wdev, queue, ahead, wdev_cur, cur_op, up_sent, applied,
                         timer, draining, start_due>>
          /\ calls' = calls + 1
          /\ net' \in Nets
          /\ call.todo = {}
          /\ call' = [call EXCEPT !.op = op, !.todo = todo]
    <3>1. CASE \E n \in Nets : NetChange(n)
      <4>1. "check" \in CallOps \ {"config"} /\ Present \in SUBSET Devices
        BY <1>2 DEF CallOps
      <4> QED BY <3>1, <4>1 DEF NetChange, Quiet
    <3>2. ASSUME NEW op \in {"up", "down", "retry", "reconf"},
                 NEW todo \in UbusTargets, UbusCall(op, todo)
          PROVE  /\ op \in CallOps \ {"config"} /\ todo \in SUBSET Devices
                 /\ UNCHANGED <<wdev, queue, ahead, wdev_cur, cur_op, up_sent, applied,
                                timer, draining, start_due>>
                 /\ calls' = calls + 1
                 /\ net' \in Nets
                 /\ call.todo = {}
                 /\ call' = [call EXCEPT !.op = op, !.todo = todo]
      <4>1. op \in CallOps \ {"config"}
        BY DEF CallOps
      <4>2. net' \in Nets
        BY <1>1, <3>2 DEF UbusCall, TypeOK
      <4> QED BY <1>2, <3>2, <4>1, <4>2 DEF UbusCall, Quiet
    <3> QED BY <1>4, <3>1, <3>2
  <2>2. call' \in [op: CallOps, todo: SUBSET Devices, new: NewConfigs]
        /\ call'.op # "config"
    BY <1>1, <2>1 DEF TypeOK
  <2>3. /\ LoadUnfinished'
        /\ \A e \in Devices : StartPending(e) => StartPending(e)'
    BY <2>1, <2>2 DEF LoadUnfinished, StartPending
  <2>4. timer' \in BOOLEAN /\ draining' \in BOOLEAN /\ start_due' \in BOOLEAN
        /\ calls' \in Nat
    BY <1>1, <2>1 DEF TypeOK
  <2> QED BY <2>1, <2>2, <2>3, <2>4, LoopStep
<1>5. CASE \E new \in NewConfigs : ConfigReload(new)
  <2>1. /\ UNCHANGED <<wdev, queue, ahead, wdev_cur, cur_op, up_sent, applied, net,
                       timer, draining>>
        /\ calls' = calls + 1
        /\ start_due' = TRUE
        /\ call' \in [op: CallOps, todo: SUBSET Devices, new: NewConfigs]
    BY <1>1, <1>5 DEF ConfigReload, CallOps
  <2>2. LoadUnfinished' /\ \A e \in Devices : StartPending(e)'
    BY <2>1 DEF LoadUnfinished, StartPending
  <2>3. timer' \in BOOLEAN /\ draining' \in BOOLEAN /\ calls' \in Nat /\ net' \in Nets
    BY <1>1, <2>1 DEF TypeOK
  <2> QED BY <2>1, <2>2, <2>3, LoopStep
<1>6. CASE ConfigStart
  <2>1. /\ UNCHANGED <<wdev, queue, ahead, wdev_cur, cur_op, up_sent, applied, net,
                       timer, draining, calls>>
        /\ start_due' = FALSE
        /\ call' = [call EXCEPT !.op = "start", !.todo = Present]
    BY <1>6 DEF ConfigStart
  <2>2. call' \in [op: CallOps, todo: SUBSET Devices, new: NewConfigs]
        /\ call'.op = "start" /\ call'.todo = Present
    BY <1>1, <1>2, <2>1 DEF TypeOK, CallOps
  <2>3. LoadUnfinished'
    BY <2>2 DEF LoadUnfinished
  <2>4. \A e \in Devices : Waiting(wdev[e]) => StartPending(e)'
    BY <2>2 DEF StartPending, Waiting, Present
  <2>5. timer' \in BOOLEAN /\ draining' \in BOOLEAN /\ calls' \in Nat /\ net' \in Nets
    BY <1>1, <2>1 DEF TypeOK
  <2> QED BY <2>1, <2>2, <2>3, <2>4, <2>5, LoopStep
<1> QED BY <1>3, <1>4, <1>5, <1>6

\* What the loop of a ubus method or of a netifd callback does to a present
\* device is legal, and config_start leaves none waiting.
LEMMA VisitLegal ==
  ASSUME NEW w \in WDevs, net \in Nets, w.delete => ~w.autostart, w.present,
         NEW d \in Devices, call \in [op: CallOps, todo: SUBSET Devices, new: NewConfigs]
  PROVE  /\ Legal(w, Visit(call.op, d, w))
         /\ Waiting(Visit(call.op, d, w)) => Waiting(w) /\ call.op # "start"
<1>0. Legal(w, w)
  BY DEF Legal
<1>1. CASE call.op = "up"
  BY <1>1, StartLegal DEF Visit
<1>2. CASE call.op = "down"
  BY <1>2, StopLegal DEF Visit
<1>3. CASE call.op = "retry"
  BY <1>3, RetrySetupLegal DEF Visit
<1>4. CASE call.op = "reconf"
  BY <1>4, ReconfLegal DEF Visit
<1>5. CASE call.op = "check"
  BY <1>0, <1>5, CheckLegal DEF Visit
<1>6. CASE call.op = "start"
  <2>1. Visit(call.op, d, w) = IF w.autostart THEN Start(w) ELSE w
    BY <1>6 DEF Visit
  <2> QED BY <1>0, <2>1, StartLegal DEF Waiting
<1>7. CASE call.op = "config"
  <2>1. Visit(call.op, d, w) = IF call.new[d] = Absent THEN Destroy(w)
                               ELSE Update(w, call.new[d])
    BY <1>7 DEF Visit
  <2>2. call.new[d] \in Configs \union {Absent}
    BY DEF NewConfigs
  <2>3. CASE call.new[d] = Absent
    BY <1>7, <2>1, <2>3, DestroyLegal
  <2>4. CASE call.new[d] # Absent
    BY <1>7, <2>1, <2>2, <2>4, UpdateLegal
  <2> QED BY <2>3, <2>4
<1> QED BY <1>1, <1>2, <1>3, <1>4, <1>5, <1>6, <1>7 DEF CallOps

\* One device of a loop.
LEMMA CallStepInv ==
  ASSUME IInv, NEW d \in Devices, CallStep(d)
  PROVE  IInv'
<1>1. TypeOK /\ wdev[d] \in WDevs /\ net \in Nets /\ LoadUnfinished
      /\ call \in [op: CallOps, todo: SUBSET Devices, new: NewConfigs]
  BY DEF IInv, TypeOK
<1>2. /\ DeviceInv(wdev[d], queue[d], Run(d), up_sent, applied[d])
      /\ Waiting(wdev[d]) => StartPending(d)
      /\ wdev[d].delete => ~wdev[d].autostart
  BY DEF IInv, DeviceInv
<1>3. /\ UNCHANGED <<wdev_cur, cur_op, up_sent, applied, net, start_due, calls>>
      /\ d \in call.todo
      /\ call' = IF call.todo = {d} THEN NoCall ELSE [call EXCEPT !.todo = @ \ {d}]
      /\ timer' = (timer \/ Creates(d))
  BY DEF CallStep
<1>4. /\ call' \in [op: CallOps, todo: SUBSET Devices, new: NewConfigs]
      /\ call'.todo = call.todo \ {d}
      /\ call'.todo # {} => call'.op = call.op
  <2>1. CASE call.todo = {d}
    <3>1. call' = NoCall
      BY <1>3, <2>1
    <3> QED BY <2>1, <3>1 DEF NoCall, CallOps, NewConfigs
  <2>2. CASE call.todo # {d}
    <3>1. call' = [call EXCEPT !.todo = @ \ {d}]
      BY <1>3, <2>2
    <3> QED BY <1>1, <3>1
  <2> QED BY <2>1, <2>2
<1>5. LoadUnfinished' /\ \A e \in Devices \ {d} : StartPending(e) => StartPending(e)'
  BY <1>1, <1>3, <1>4 DEF LoadUnfinished, StartPending
<1>6. timer' \in BOOLEAN /\ start_due' \in BOOLEAN /\ calls' \in Nat
  BY <1>1, <1>3 DEF TypeOK
<1>7. CASE wdev[d].present
  <2> DEFINE x == Visit(call.op, d, wdev[d])
  <2>1. Apply(d, x)
    BY <1>7 DEF CallStep
  <2>2. Legal(wdev[d], x) /\ (Waiting(x) => Waiting(wdev[d]) /\ call.op # "start")
    BY <1>1, <1>2, <1>7, VisitLegal
  <2> HIDE DEF x
  <2>3. x \in WDevs
    BY <2>2 DEF Legal
  <2>4. Waiting(x) => StartPending(d)'
    BY <1>2, <1>3, <2>2 DEF StartPending
  <2> QED BY <1>3, <1>4, <1>5, <1>6, <1>7, <2>1, <2>2, <2>3, <2>4, LegalStep
<1>8. CASE ~wdev[d].present
  <2> DEFINE x == IF Creates(d) THEN New(call.new[d]) ELSE wdev[d]
  <2>1. Apply(d, x)
    BY <1>8 DEF CallStep, Visit, Creates
  <2>2. wdev[d].state = "down" /\ queue[d] = "none" /\ Run(d) = "none"
    BY <1>1, <1>2, <1>8 DEF DeviceInv, TypeOK, Operations
  <2>3. /\ x \in WDevs /\ x.state = "down" /\ (x.delete => ~x.autostart)
        /\ Waiting(x) => start_due'
    <3>1. CASE Creates(d)
      <4>1. call.new[d] \in Configs
        BY <1>1, <3>1 DEF Creates, NewConfigs
      <4>2. start_due
        BY <1>1, <1>3, <3>1 DEF Creates, LoadUnfinished
      <4> QED BY <1>1, <1>3, <3>1, <4>1, <4>2, NewFacts
    <3>2. CASE ~Creates(d)
      BY <1>1, <1>2, <1>8, <2>2, <3>2 DEF Waiting
    <3> QED BY <3>1, <3>2
  <2> HIDE DEF x
  <2>4. NewEntry(wdev[d], x, queue[d]) = "none"
    BY <2>2, <2>3 DEF NewEntry
  <2>5. /\ wdev' \in [Devices -> WDevs]
        /\ queue' \in [Devices -> Operations \union {"none"}]
        /\ ahead' \in [Devices -> SUBSET Devices]
        /\ draining' \in BOOLEAN
        /\ wdev'[d] = x
        /\ queue'[d] = "none"
        /\ \A e \in Devices \ {d} : wdev'[e] = wdev[e] /\ queue'[e] = queue[e]
    BY <1>1, <2>1, <2>3, <2>4, ApplyFacts
  <2>6. TypeOK'
    BY <1>1, <1>3, <1>4, <1>6, <2>5 DEF TypeOK
  <2>7. CurOp'
    BY <1>3 DEF IInv, CurOp
  <2>8. ASSUME NEW e \in Devices
        PROVE  /\ DeviceInv(wdev[e], queue[e], Run(e), up_sent, applied[e])'
               /\ (Waiting(wdev[e]) => StartPending(e))'
    <3>1. Run(e)' = Run(e)
      BY <1>3 DEF Run
    <3>2. CASE e = d
      <4>1. DeviceInv(x, "none", "none", up_sent, applied[d])
        BY <2>3 DEF DeviceInv, WDevs
      <4>2. x.retry_setup_failed => x.state = "down"
        BY <2>3
      <4>3. Waiting(x) => StartPending(d)'
        BY <2>3 DEF StartPending
      <4> QED BY <1>3, <2>2, <2>5, <3>1, <3>2, <4>1, <4>3
    <3>3. CASE e # d
      <4>1. DeviceInv(wdev[e], queue[e], Run(e), up_sent, applied[e])
            /\ (Waiting(wdev[e]) => StartPending(e))
        BY DEF IInv
      <4> QED BY <1>3, <1>5, <2>5, <3>1, <3>3, <4>1
    <3> QED BY <3>2, <3>3
  <2> QED BY <1>5, <2>6, <2>7, <2>8 DEF IInv
<1> QED BY <1>7, <1>8

-----------------------------------------------------------------------------

\* IInv is an inductive invariant of the specification.
THEOREM InductiveInvariant == Spec => []IInv
<1>1. Init => IInv
  BY InitInv
<1>2. IInv /\ [Next]_vars => IInv'
  <2> SUFFICES ASSUME IInv, [Next]_vars PROVE IInv'
    OBVIOUS
  <2>1. CASE Drain
    BY <2>1, LoopEventsInv, StartScriptInv, SpawnFailsInv DEF Drain
  <2>2. CASE HandlerTimer \/ ConfigStart
    BY <2>2, LoopEventsInv
  <2>3. CASE Script
    BY <2>3, RunHandlerCbInv, NotifyUpInv, NotifyOtherInv
       DEF Script, ScriptExit, ScriptTimeout
  <2>4. CASE Environment
    BY <2>4, ProcCheckInv, LoopEventsInv DEF Environment
  <2>5. CASE \E d \in Devices : CallStep(d)
    BY <2>5, CallStepInv
  <2>6. CASE UNCHANGED vars
    <3>1. /\ UNCHANGED <<wdev, queue, ahead, wdev_cur, cur_op, up_sent, applied>>
          /\ UNCHANGED <<net, timer, draining, call, start_due, calls>>
      BY <2>6 DEF vars
    <3>2. TypeOK /\ LoadUnfinished
      BY DEF IInv
    <3>3. LoadUnfinished' /\ \A e \in Devices : StartPending(e)' = StartPending(e)
      BY <3>1, <3>2 DEF LoadUnfinished, StartPending
    <3>4. /\ net' \in Nets /\ timer' \in BOOLEAN /\ start_due' \in BOOLEAN
          /\ calls' \in Nat /\ draining' \in BOOLEAN
          /\ call' \in [op: CallOps, todo: SUBSET Devices, new: NewConfigs]
      BY <3>1, <3>2 DEF TypeOK
    <3> QED BY <3>1, <3>3, <3>4, LoopStep
  <2> QED BY <2>1, <2>2, <2>3, <2>4, <2>5, <2>6 DEF Next
<1> QED BY <1>1, <1>2, PTL DEF Spec

\* The device records, the queue and the loop variables keep their types; in
\* particular the retry counter never leaves 0 .. DEFAULT_RETRY.
THEOREM TypeCorrect == Spec => []TypeOK
<1>1. IInv => TypeOK
  BY DEF IInv
<1> QED BY <1>1, InductiveInvariant, PTL

\* Queue, script slot and device state always agree, for any number of
\* devices and any sequence of events.
THEOREM HandlersAgree == Spec => []HandlerMatchesState
<1>1. IInv => HandlerMatchesState
  <2> SUFFICES ASSUME IInv, NEW d \in Devices
               PROVE  LET s == wdev[d].state
                          running(op) == wdev_cur = d /\ cur_op = op
                      IN  /\ queue[d] # "none" => queue[d] = s
                          /\ s = "setup" => queue[d] = "setup" \/ running("setup")
                          /\ s = "teardown" <=> queue[d] = "teardown" \/ running("teardown")
                          /\ running("teardown") => queue[d] = "none"
                          /\ s = "down" => wdev_cur # d
    BY DEF HandlerMatchesState
  <2>1. DeviceInv(wdev[d], queue[d], Run(d), up_sent, applied[d]) /\ CurOp
    BY DEF IInv
  <2>2. CASE wdev_cur = d
    <3>1. Run(d) = cur_op /\ cur_op # "none"
      BY <2>1, <2>2, WirelessAssumption DEF Run, CurOp
    <3> QED BY <2>1, <2>2, <3>1 DEF DeviceInv
  <2>3. CASE wdev_cur # d
    <3>1. Run(d) = "none"
      BY <2>3 DEF Run
    <3> QED BY <2>1, <2>3, <3>1 DEF DeviceInv
  <2> QED BY <2>2, <2>3
<1> QED BY <1>1, InductiveInvariant, PTL

\* A radio that runs an old configuration always has config_change raised.
THEOREM StaleConfigFlagged == Spec => []StaleIsFlagged
<1>1. IInv => StaleIsFlagged
  BY DEF IInv, DeviceInv, StaleIsFlagged
<1> QED BY <1>1, InductiveInvariant, PTL

\* A device that gave up is down or going down.
THEOREM FailedStaysDown == Spec => []FailedIsDown
<1>1. IInv => FailedIsDown
  BY DEF IInv, DeviceInv, FailedIsDown
<1> QED BY <1>1, InductiveInvariant, PTL

\* No sequence of events leaves a device down that should run, has not failed
\* and is not about to be started.
THEOREM NobodyForgotten == Spec => []NotForgotten
<1>1. IInv => NotForgotten
  BY DEF IInv, Waiting, StartPending, NotForgotten
<1> QED BY <1>1, InductiveInvariant, PTL

-----------------------------------------------------------------------------
(* The order of the handler queue. *)

\* What is kept of the time stamps is a strict order on the waiting requests.
QueueOrdered ==
  /\ \A d \in Devices : ahead[d] \subseteq Queued \ {d}
  /\ \A d \in Devices : queue[d] = "none" => ahead[d] = {}
  /\ \A d \in Devices : \A e \in ahead[d] : ahead[e] \subseteq ahead[d] \ {e}

\* A request of d sorts after all others or together with the newest: either
\* way what is ahead of an entry ahead of it is ahead of it too.
LEMMA AheadOfClosed ==
  ASSUME TypeOK, QueueOrdered, NEW d \in Devices, NEW s \in AheadOf(d)
  PROVE  /\ s \subseteq Queued \ {d}
         /\ \A e \in s : ahead[e] \ {d} \subseteq s \ {e}
<1> DEFINE others == Queued \ {d}
           newest == {e \in others : \A f \in others : e \notin ahead[f]}
<1>1. s = others \/ s = others \ newest
  BY DEF AheadOf
<1>2. \A e \in others : ahead[e] \ {d} \subseteq others \ {e}
  BY DEF QueueOrdered, Queued
<1>3. CASE s = others
  BY <1>2, <1>3
<1>4. CASE s = others \ newest
  <2> SUFFICES ASSUME NEW e \in s, NEW g \in ahead[e] \ {d}
               PROVE  g \in s \ {e}
    BY <1>4
  <2>1. e \in others /\ g \in others \ {e}
    BY <1>2, <1>4
  <2>2. g \notin newest
    BY <2>1
  <2> QED BY <1>4, <2>1, <2>2
<1> QED BY <1>1, <1>3, <1>4

\* A request that enters the queue, or replaces the one that waits, keeps the
\* order.
LEMMA EntersOrdered ==
  ASSUME TypeOK, QueueOrdered, NEW d \in Devices, NEW s \in AheadOf(d),
         NEW q \in Operations,
         queue' = [queue EXCEPT ![d] = q],
         ahead' = [e \in Devices |-> IF e = d THEN s ELSE ahead[e] \ {d}]
  PROVE  QueueOrdered'
<1>1. /\ queue \in [Devices -> Operations \union {"none"}]
      /\ ahead \in [Devices -> SUBSET Devices]
      /\ "none" \notin Operations
  BY DEF TypeOK, Operations
<1>2. /\ s \subseteq Queued \ {d}
      /\ \A e \in s : ahead[e] \ {d} \subseteq s \ {e}
  BY AheadOfClosed
<1>3. Queued' = Queued \union {d}
  BY <1>1 DEF Queued
<1>4. ASSUME NEW e \in Devices
      PROVE  /\ ahead'[e] \subseteq Queued' \ {e}
             /\ queue'[e] = "none" => ahead'[e] = {}
             /\ \A g \in ahead'[e] : ahead'[g] \subseteq ahead'[e] \ {g}
  <2>1. CASE e = d
    <3>1. ahead'[e] = s /\ queue'[e] = q
      BY <1>1, <2>1
    <3>2. \A g \in s : g \in Devices /\ ahead'[g] = ahead[g] \ {d}
      BY <1>1, <1>2 DEF Queued
    <3> QED BY <1>1, <1>2, <1>3, <2>1, <3>1, <3>2
  <2>2. CASE e # d
    <3>1. ahead'[e] = ahead[e] \ {d} /\ queue'[e] = queue[e]
      BY <1>1, <2>2
    <3>2. \A g \in ahead[e] \ {d} : g \in Devices /\ ahead'[g] = ahead[g] \ {d}
      BY <1>1
    <3>3. /\ ahead[e] \subseteq Queued \ {e}
          /\ queue[e] = "none" => ahead[e] = {}
          /\ \A g \in ahead[e] : ahead[g] \subseteq ahead[e] \ {g}
      BY DEF QueueOrdered
    <3> QED BY <1>3, <3>1, <3>2, <3>3
  <2> QED BY <2>1, <2>2
<1> QED BY <1>4 DEF QueueOrdered

\* An entry that leaves the queue keeps the order of the others.
LEMMA LeavesOrdered ==
  ASSUME TypeOK, QueueOrdered, NEW d \in Devices, ahead[d] = {},
         queue' = [queue EXCEPT ![d] = "none"],
         ahead' = [e \in Devices |-> ahead[e] \ {d}]
  PROVE  QueueOrdered'
<1>1. /\ queue \in [Devices -> Operations \union {"none"}]
      /\ ahead \in [Devices -> SUBSET Devices]
  BY DEF TypeOK
<1>2. Queued' = Queued \ {d}
  BY <1>1 DEF Queued
<1>3. ASSUME NEW e \in Devices
      PROVE  /\ ahead'[e] \subseteq Queued' \ {e}
             /\ queue'[e] = "none" => ahead'[e] = {}
             /\ \A g \in ahead'[e] : ahead'[g] \subseteq ahead'[e] \ {g}
  <2>1. /\ ahead'[e] = ahead[e] \ {d}
        /\ e # d => queue'[e] = queue[e]
        /\ \A g \in ahead[e] : g \in Devices /\ ahead'[g] = ahead[g] \ {d}
    BY <1>1
  <2>2. /\ ahead[e] \subseteq Queued \ {e}
        /\ queue[e] = "none" => ahead[e] = {}
        /\ \A g \in ahead[e] : ahead[g] \subseteq ahead[e] \ {g}
    BY DEF QueueOrdered
  <2> QED BY <1>2, <2>1, <2>2
<1> QED BY <1>3 DEF QueueOrdered

\* A new operation goes to the end of the queue, a finished one leaves it.
LEMMA ApplyOrdered ==
  ASSUME TypeOK, QueueOrdered, NEW d \in Devices, NEW x, Apply(d, x)
  PROVE  QueueOrdered'
<1>1. CASE x.state # wdev[d].state /\ x.state \in Operations
  <2>1. PICK s \in AheadOf(d) :
          ahead' = [e \in Devices |-> IF e = d THEN s ELSE ahead[e] \ {d}]
    BY <1>1 DEF Apply, RunHandler
  <2>2. queue' = [queue EXCEPT ![d] = x.state]
    BY <1>1 DEF Apply, RunHandler
  <2> QED BY <1>1, <2>1, <2>2, EntersOrdered
<1>2. CASE ~(x.state # wdev[d].state /\ x.state \in Operations)
  <2>1. UNCHANGED <<queue, ahead>>
    BY <1>2 DEF Apply, RunHandler
  <2> QED BY <2>1 DEF QueueOrdered, Queued
<1> QED BY <1>1, <1>2

\* A script that cannot be started leaves the queue, and its device may enter
\* it again behind the others.
LEMMA SpawnFailsOrdered ==
  ASSUME TypeOK, QueueOrdered, NEW d \in Devices, SpawnFails(d)
  PROVE  QueueOrdered'
<1> DEFINE w == HandlerCb(queue[d], wdev[d])
           again == w.state # wdev[d].state /\ w.state \in Operations
<1>1. /\ queue \in [Devices -> Operations \union {"none"}]
      /\ ahead \in [Devices -> SUBSET Devices]
      /\ ahead[d] = {}
  BY DEF TypeOK, SpawnFails
<1>2. PICK s \in AheadOf(d) :
        ahead' = [e \in Devices |-> IF e = d THEN IF again THEN s ELSE {}
                                    ELSE ahead[e] \ {d}]
  BY DEF SpawnFails
<1>3. queue' = IF again THEN [[queue EXCEPT ![d] = "none"] EXCEPT ![d] = w.state]
               ELSE [queue EXCEPT ![d] = "none"]
  BY DEF SpawnFails
<1> HIDE DEF w
<1>4. CASE again
  <2>1. queue' = [queue EXCEPT ![d] = w.state] /\ w.state \in Operations
    BY <1>1, <1>3, <1>4
  <2>2. ahead' = [e \in Devices |-> IF e = d THEN s ELSE ahead[e] \ {d}]
    BY <1>2, <1>4
  <2> QED BY <2>1, <2>2, EntersOrdered
<1>5. CASE ~again
  <2>1. queue' = [queue EXCEPT ![d] = "none"]
    BY <1>3, <1>5
  <2>2. ahead' = [e \in Devices |-> ahead[e] \ {d}]
    BY <1>1, <1>2, <1>5
  <2> QED BY <1>1, <2>1, <2>2, LeavesOrdered
<1> QED BY <1>4, <1>5

\* It stays one, for any number of devices, also when two requests get the same
\* second and when a request replaces a waiting one.
LEMMA QueueStaysOrdered == Spec => []QueueOrdered
<1>1. Init => QueueOrdered
  BY DEF Init, QueueOrdered
<1>2. TypeOK /\ CurOp /\ QueueOrdered /\ [Next]_vars => QueueOrdered'
  <2> SUFFICES ASSUME TypeOK, CurOp, QueueOrdered, [Next]_vars PROVE QueueOrdered'
    OBVIOUS
  <2>1. CASE UNCHANGED <<queue, ahead>>
    BY <2>1 DEF QueueOrdered, Queued
  <2>2. ASSUME NEW d \in Devices, StartScript(d) PROVE QueueOrdered'
    BY <2>2, LeavesOrdered DEF StartScript
  <2>3. ASSUME NEW d \in Devices, SpawnFails(d) PROVE QueueOrdered'
    BY <2>3, SpawnFailsOrdered
  <2>4. CASE RunHandlerCb
    <3>1. wdev_cur \in Devices
      BY <2>4 DEF TypeOK, RunHandlerCb
    <3> QED BY <2>4, <3>1, ApplyOrdered DEF RunHandlerCb
  <2>5. ASSUME NEW d \in Devices, NotifyUp(d) \/ NotifyProcess(d) \/ NotifyRetry(d)
        PROVE  QueueOrdered'
    BY <2>5, ApplyOrdered DEF NotifyUp, NotifyProcess, NotifyRetry, ScriptTells
  <2>6. ASSUME NEW d \in Devices, ProcCheck(d) PROVE QueueOrdered'
    BY <2>6, ApplyOrdered DEF ProcCheck
  <2>7. ASSUME NEW d \in Devices, CallStep(d) PROVE QueueOrdered'
    BY <2>7, ApplyOrdered DEF CallStep
  <2>8. CASE DrainDone \/ HandlerTimer \/ ConfigStart
    BY <2>1, <2>8 DEF DrainDone, HandlerTimer, ConfigStart
  <2>9. CASE Environment
    BY <2>1, <2>6, <2>9 DEF Environment, NetChange, UbusCall, ConfigReload
  <2>10. CASE UNCHANGED vars
    BY <2>1, <2>10 DEF vars
  <2> QED BY <2>2, <2>3, <2>4, <2>5, <2>7, <2>8, <2>9, <2>10
          DEF Next, Drain, Script, ScriptExit, ScriptTimeout
<1>3. IInv => TypeOK /\ CurOp
  BY DEF IInv
<1> QED BY <1>1, <1>2, <1>3, InductiveInvariant, PTL DEF Spec

\* run_next_handler's search for the entry with the smallest time ends at one
\* that no other waits before, whenever anything waits.
OldestExists == Queued # {} => \E d \in Devices : queue[d] # "none" /\ ahead[d] = {}

\* With finitely many devices run_next_handler always finds an oldest entry.
THEOREM OldestFound ==
  ASSUME IsFiniteSet(Devices)
  PROVE  Spec => []OldestExists
<1>1. ASSUME TypeOK, QueueOrdered, Queued # {}
      PROVE  \E d \in Devices : queue[d] # "none" /\ ahead[d] = {}
  <2> DEFINE T == {ahead[d] : d \in Queued}
  <2>1. T \subseteq SUBSET Devices /\ T # {}
    BY <1>1 DEF TypeOK, Queued
  <2>2. T \subseteq FiniteSubsetsOf(Devices)
    BY <1>1, <2>1, FS_FiniteSubsetsOfFinite
  <2>3. PICK x \in T : \A y \in T : <<y, x>> \notin StrictSubsetOrdering(Devices)
    <3> HIDE DEF T
    <3> QED BY <2>1, <2>2, FS_StrictSubsetOrderingWellFounded, WFMin
  <2>4. PICK d \in Queued : x = ahead[d]
    OBVIOUS
  <2>5. ASSUME NEW e \in ahead[d] PROVE FALSE
    <3>1. e \in Queued /\ d \in Devices /\ e \in Devices
      BY <1>1 DEF QueueOrdered, Queued
    <3>2. ahead[e] \subseteq ahead[d] /\ e \notin ahead[e]
      BY <1>1, <3>1 DEF QueueOrdered
    <3>3. <<ahead[e], ahead[d]>> \in StrictSubsetOrdering(Devices)
      BY <2>1, <3>1, <3>2, <2>5 DEF StrictSubsetOrdering
    <3>4. ahead[e] \in T
      BY <3>1
    <3> QED BY <2>3, <2>4, <3>3, <3>4
  <2> QED BY <2>4, <2>5 DEF Queued
<1>2. TypeOK /\ QueueOrdered => OldestExists
  BY <1>1 DEF OldestExists
<1> QED BY <1>2, TypeCorrect, QueueStaysOrdered, PTL
=============================================================================
