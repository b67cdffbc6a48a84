------------------------------ MODULE Buttons ------------------------------
(***************************************************************************)
(* The driver gpio-button-hotplug: buttons and switches on GPIO lines,     *)
(* either polled (gpio-keys-polled) or driven by interrupts (gpio-keys),   *)
(* whose changes become uevents for the hotplug scripts.                   *)
(*                                                                         *)
(* The probe and remove functions, the threaded interrupt handlers, the    *)
(* delayed work of the driver and the work items that send the uevents are *)
(* concurrent; one work item never runs twice at a time, and it reads the  *)
(* line of a button once, so that handling one button is one action.       *)
(* Delays are left out: a work item that is queued may run at any moment,  *)
(* but see the setting quick.                                              *)
(***************************************************************************)
EXTENDS Integers, Sequences, SequencesExt

CONSTANTS
  NButtons,    \* buttons of the device, 1 .. NButtons
  Switches,    \* the buttons of type EV_SW; the others are of type EV_KEY
  Settings     \* settings to consider

Buttons == 1 .. NButtons

\* polled: bdev->polled; threshold: bdata->threshold of a polled button; nomap: the
\* buttons whose line has no interrupt, and noirq: those whose interrupt cannot be
\* requested; quick: whether the first run of
\* a button's work may come before its interrupt is requested, which it does if
\* software_debounce is 0; lossy: whether uevents may be lost for want of memory, or
\* overtake each other; flips: the changes of the lines that may come.
ASSUME ButtonsAssumption ==
  /\ NButtons \in Nat \ {0}
  /\ Switches \subseteq Buttons
  /\ Settings \subseteq [polled: BOOLEAN, threshold: Nat, nomap: SUBSET Buttons,
                         noirq: SUBSET Buttons, quick: BOOLEAN, lossy: BOOLEAN, flips: Nat]
  /\ \A s \in Settings : s.polled \/ s.threshold = 0

Unknown == -1

VARIABLES
  pin,     \* the value of the line of each button
  last,    \* bdata->last_state
  count,   \* bdata->count
  work,    \* the buttons whose delayed work is queued; all of them share one
           \* work item if they are polled
  irq,     \* the buttons whose interrupt is requested and not disabled
  edge,    \* the buttons with an interrupt that has not been handled
  events,  \* the uevents that are queued, in the order of their creation
  sent,    \* what userland was told last of each button
  turn,    \* the button that a poll is at; the first one if none is running
  run,     \* history: the last value polled, and how often in a row
  pc,      \* where probe or remove is
  at,      \* the button it is at
  env      \* the setting, with the changes of the lines still to come

driver == <<last, count, events, run>>
vars == <<pin, last, count, work, irq, edge, events, sent, turn, run, pc, at, env>>

Events == [button: Buttons, state: {0, 1}]

TypeOK ==
  /\ pin \in [Buttons -> {0, 1}]
  /\ last \in [Buttons -> {Unknown, 0, 1}]
  /\ count \in [Buttons -> 0 .. env.threshold]
  /\ work \subseteq Buttons /\ irq \subseteq Buttons /\ edge \subseteq Buttons
  /\ events \in Seq(Events)
  /\ sent \in [Buttons -> {Unknown, 0, 1}]
  /\ run \in [Buttons -> [value: {Unknown, 0, 1}, times: 0 .. env.threshold + 1]]
  /\ pc \in {"schedule", "request", "up", "disable", "cancel", "removed"}
  /\ at \in Buttons /\ turn \in Buttons
  /\ \E s \in Settings : env \in {[s EXCEPT !.flips = n] : n \in 0 .. s.flips}

-----------------------------------------------------------------------------
(* gpio_keys_handle_button, as a step of the state of one button.  d is the  *)
(* state of the driver that the step changes.                                *)

Driver == [last |-> last, count |-> count, events |-> events, run |-> run]
Becomes(d) == /\ last' = d.last /\ count' = d.count /\ events' = d.events
              /\ run' = d.run

\* set_state
SetState(d, b) == [d EXCEPT !.last[b] = pin[b], !.count[b] = 0]

\* button_hotplug_create_event, whose result is ignored: if there is no memory
\* for the event, or later for its message, userland is not told.
CreateEvent(d, b) == {[d EXCEPT !.events = Append(@, [button |-> b, state |-> pin[b]])]}
                     \union IF env.lossy THEN {d} ELSE {}

\* How often in a row the line has had its value.
Sampled(d, b) ==
  [d EXCEPT !.run[b] = [value |-> pin[b],
                        times |-> IF @.value # pin[b] THEN 1
                                  ELSE IF @.times <= env.threshold THEN @.times + 1
                                  ELSE @.times]]

\* Mutant: the state at initialization is reported like any other.
HandleButtonEager(d, b) ==
  IF d.last[b] = pin[b] THEN {[d EXCEPT !.count[b] = 0]}
  ELSE IF d.count[b] < env.threshold THEN {[d EXCEPT !.count[b] = @ + 1]}
  ELSE {SetState(e, b) : e \in CreateEvent(d, b)}

\* Mutant: the counter goes one past the threshold.
HandleButtonOneMore(d, b) ==
  IF d.last[b] = Unknown /\ b \notin Switches /\ pin[b] = 0 THEN {SetState(d, b)}
  ELSE IF d.last[b] = pin[b] THEN {[d EXCEPT !.count[b] = 0]}
  ELSE IF d.count[b] <= env.threshold THEN {[d EXCEPT !.count[b] = @ + 1]}
  ELSE {SetState(e, b) : e \in CreateEvent(d, b)}

\* The states that handling button b may lead to.
HandleButton(d, b) ==
  IF d.last[b] = Unknown /\ b \notin Switches /\ pin[b] = 0 THEN {SetState(d, b)}
  ELSE IF d.last[b] = pin[b] THEN {[d EXCEPT !.count[b] = 0]}
  ELSE IF d.count[b] < env.threshold THEN {[d EXCEPT !.count[b] = @ + 1]}
  ELSE {SetState(e, b) : e \in CreateEvent(d, b)}

\* gpio_keys_irq_work_func
IrqWork(b) ==
  /\ ~env.polled /\ b \in work
  /\ env.quick \/ pc # "request" \/ at # b
  /\ work' = work \ {b}
  /\ \E d \in HandleButton(Driver, b) : Becomes(d)
  /\ UNCHANGED <<pin, irq, edge, sent, turn, pc, at, env>>

\* The next button of gpio_keys_polled_poll, which queues itself again after the
\* last one.
Poll ==
  /\ env.polled /\ work # {}
  /\ \E d \in HandleButton(Sampled(Driver, turn), turn) : Becomes(d)
  /\ turn' = IF turn < NButtons THEN turn + 1 ELSE 1
  /\ UNCHANGED <<pin, work, irq, edge, sent, pc, at, env>>

\* Mutant: interrupts are triggered by one of the edges only.
HandleIrqRising(b) ==
  /\ b \in edge /\ b \in irq
  /\ edge' = edge \ {b}
  /\ work' = IF pin[b] = 1 THEN work \union {b} ELSE work
  /\ UNCHANGED <<pin, irq, sent, turn, pc, at, env, driver>>

\* button_handle_irq: the delayed work is queued, or its delay starts again.
HandleIrq(b) ==
  /\ b \in edge /\ b \in irq
  /\ edge' = edge \ {b}
  /\ work' = work \union {b}
  /\ UNCHANGED <<pin, irq, sent, turn, pc, at, env, driver>>

\* button_hotplug_work broadcasts a uevent.
HotplugWork ==
  \E i \in 1 .. (IF env.lossy THEN Len(events) ELSE IF events = <<>> THEN 0 ELSE 1) :
    /\ sent' = [sent EXCEPT ![events[i].button] = events[i].state]
    /\ events' = RemoveAt(events, i)
    /\ UNCHANGED <<pin, last, count, work, irq, edge, turn, run, pc, at, env>>

-----------------------------------------------------------------------------
(* gpio_keys_probe and gpio_keys_polled_probe. *)

PolledProbe ==
  /\ env.polled /\ pc = "schedule"
  /\ work' = Buttons /\ pc' = "up"
  /\ UNCHANGED <<pin, irq, edge, sent, turn, at, env, driver>>

\* The next button, or the end of the loop.
NextButton(loop, end) ==
  IF at < NButtons THEN pc' = loop /\ at' = at + 1 ELSE pc' = end /\ at' = 1

\* A button without an interrupt is passed over: not even its first state is read.
\* The buttons are those on GPIO lines, not those with an interrupt of their own,
\* which gpio_keys_button_probe does not support.
ProbeSchedule ==
  /\ ~env.polled /\ pc = "schedule"
  /\ IF at \in env.nomap THEN NextButton("schedule", "up") /\ UNCHANGED work
     ELSE work' = work \union {at} /\ pc' = "request" /\ UNCHANGED at
  /\ UNCHANGED <<pin, irq, edge, sent, turn, env, driver>>

\* An interrupt that cannot be requested is logged, and the loop goes on.
ProbeRequestIrq ==
  /\ pc = "request"
  /\ irq' = IF at \in env.noirq THEN irq ELSE irq \union {at}
  /\ NextButton("schedule", "up")
  /\ UNCHANGED <<pin, work, edge, sent, turn, env, driver>>

-----------------------------------------------------------------------------
(* gpio_keys_remove: gpio_keys_polled_close or gpio_keys_irq_close. *)

\* cancel_delayed_work_sync waits for a poll that is running.
PolledClose ==
  /\ env.polled /\ pc = "up" /\ turn = 1
  /\ work' = {} /\ pc' = "removed"
  /\ UNCHANGED <<pin, irq, edge, sent, turn, at, env, driver>>

\* Mutant: the work is cancelled while the interrupt may still queue it.
IrqCloseDisableLate ==
  /\ ~env.polled /\ pc \in {"up", "disable"}
  /\ work' = work \ {at} /\ pc' = "cancel"
  /\ UNCHANGED <<pin, irq, edge, sent, turn, at, env, driver>>

IrqCloseDisable ==
  /\ ~env.polled /\ pc \in {"up", "disable"}
  /\ irq' = irq \ {at} /\ pc' = "cancel"
  /\ UNCHANGED <<pin, work, edge, sent, turn, at, env, driver>>

IrqCloseCancel ==
  /\ pc = "cancel"
  /\ work' = work \ {at}
  /\ NextButton("disable", "removed")
  /\ UNCHANGED <<pin, irq, edge, sent, turn, env, driver>>

-----------------------------------------------------------------------------

\* Somebody presses or releases a button; contacts bounce the same way.
Flip(b) ==
  /\ env.flips > 0
  /\ env' = [env EXCEPT !.flips = @ - 1]
  /\ pin' = [pin EXCEPT ![b] = 1 - @]
  /\ edge' = IF b \in irq THEN edge \union {b} ELSE edge
  /\ UNCHANGED <<work, irq, sent, turn, pc, at, driver>>

Init ==
  /\ pin \in [Buttons -> {0, 1}]
  /\ last = [b \in Buttons |-> Unknown]
  /\ count = [b \in Buttons |-> 0]
  /\ work = {} /\ irq = {} /\ edge = {}
  /\ events = <<>>
  /\ sent = [b \in Buttons |-> Unknown]
  /\ run = [b \in Buttons |-> [value |-> Unknown, times |-> 0]]
  /\ pc = "schedule" /\ at = 1 /\ turn = 1
  /\ env \in Settings

Probe == PolledProbe \/ ProbeSchedule \/ ProbeRequestIrq
Close == PolledClose \/ IrqCloseDisable \/ IrqCloseCancel

Next == \/ Probe \/ Close \/ Poll \/ HotplugWork
        \/ \E b \in Buttons : IrqWork(b) \/ HandleIrq(b) \/ Flip(b)

Spec == Init /\ [][Next]_vars

\* The kernel runs what is queued, and handles interrupts.  Nobody has to
\* press a button or remove the driver.
FairSpec == /\ Spec
            /\ WF_vars(Probe) /\ WF_vars(Poll) /\ WF_vars(HotplugWork)
            /\ \A b \in Buttons : WF_vars(IrqWork(b)) /\ WF_vars(HandleIrq(b))

-----------------------------------------------------------------------------
(* Properties. *)

\* A polled button is reported only after env.threshold + 1 polls in a row have
\* seen the new value, the first report of a pressed key included; a switch
\* whose state is not known yet is the exception, since its counter is never
\* reset.
Debounced ==
  [][\A b \in Buttons :
       /\ last'[b] # last[b]
       /\ last[b] # Unknown \/ (b \notin Switches /\ last'[b] = 1)
       /\ env.polled
       => run'[b] = [value |-> last'[b], times |-> env.threshold + 1]]_vars

\* Userland is not told that a key is released before it was told that it was
\* pressed, unless uevents are lost: the first one of a key would start failsafe
\* mode.
NoGhostRelease ==
  [][\A b \in Buttons \ Switches :
       ~env.lossy /\ sent[b] = Unknown /\ sent'[b] # Unknown => sent'[b] = 1]_vars

\* A button event is reported for a reason: the line has been stable for long
\* enough, and a release follows a press.
EventsJustified == Debounced /\ NoGhostRelease

\* Once remove is past a button its work is neither queued nor queued again.
Quiet ==
  \A b \in Buttons :
    \/ pc = "removed"
    \/ pc \in {"disable", "cancel"} /\ b < at
    => b \notin work

\* What userland should know of a button: the value of its line, except of a
\* key that has never been pressed.
UserlandKnows(b) == sent[b] = pin[b] \/ (b \notin Switches /\ pin[b] = 0 /\ sent[b] = Unknown)

\* Userland comes to know the state of every line, and each change of it that
\* lasts, unless the driver is removed, uevents are lost, the button has no
\* interrupt or its work runs before the interrupt is requested: a change between
\* the two is not noticed.
Reported ==
  \A b \in Buttons :
    <>[](\/ UserlandKnows(b)
         \/ pc \notin {"schedule", "request", "up"}
         \/ env.lossy
         \/ ~env.polled /\ (b \in env.noirq \union env.nomap \/ env.quick))
=============================================================================
