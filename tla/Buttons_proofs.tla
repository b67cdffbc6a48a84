--------------------------- MODULE Buttons_proofs ---------------------------
(***************************************************************************)
(* Proofs about Buttons for any number of buttons and all settings:        *)
(* removing the driver leaves no work behind, the counters stay in their   *)
(* range, and every event that is reported has a reason.                   *)
(***************************************************************************)
EXTENDS Buttons, TLAPS

Configurations == [polled: BOOLEAN, threshold: Nat, nomap: SUBSET Buttons, noirq: SUBSET Buttons,
                   quick: BOOLEAN, lossy: BOOLEAN, flips: Nat]

\* The variables that removal is about.
Typed ==
  /\ at \in Buttons
  /\ work \subseteq Buttons /\ irq \subseteq Buttons
  /\ env \in Configurations

\* A polled driver requests no interrupts and has no loops over its buttons.
PolledIsPlain ==
  env.polled => irq = {} /\ pc \in {"schedule", "up", "removed"}

\* gpio_keys_irq_close starts at the first button.
StartsAtFirst == ~env.polled /\ pc = "up" => at = 1

\* gpio_keys_irq_close is past these buttons.
Past(b) == \/ pc = "removed"
           \/ pc \in {"disable", "cancel"} /\ b < at

\* Buttons whose interrupt the loop has disabled.
Disabled(b) == Past(b) \/ (pc = "cancel" /\ b = at)

\* No interrupt is left that could queue the work of a button again: this is
\* what makes Quiet inductive.
IInv ==
  /\ Typed
  /\ PolledIsPlain /\ StartsAtFirst
  /\ \A b \in Buttons : /\ Disabled(b) => b \notin irq
                        /\ Past(b) => b \notin work

\* The probe starts with nothing queued or requested.
LEMMA InitIInv == Init => IInv
BY ButtonsAssumption DEF Init, IInv, Typed, PolledIsPlain, StartsAtFirst, Past, Disabled,
   Buttons, Configurations

\* Probing adds works and interrupts before any button is past.
LEMMA ProbeKeepsIInv == IInv /\ Probe => IInv'
<1> SUFFICES ASSUME IInv, Probe PROVE IInv'
  OBVIOUS
<1> USE ButtonsAssumption DEF Buttons, Past, Disabled
<1>1. CASE PolledProbe
  BY <1>1 DEF PolledProbe, IInv, Typed, PolledIsPlain, StartsAtFirst
<1>2. CASE ProbeSchedule
  <2>1. Typed' /\ PolledIsPlain' /\ StartsAtFirst'
    <3>1. CASE at \in env.nomap
      <4>1. /\ UNCHANGED <<work, irq, env>> /\ ~env.polled
            /\ pc' \in {"schedule", "up"} /\ at' \in Buttons /\ (pc' = "up" => at' = 1)
        BY <1>2, <3>1 DEF ProbeSchedule, NextButton, IInv, Typed
      <4> QED BY <4>1 DEF IInv, Typed, PolledIsPlain, StartsAtFirst
    <3>2. CASE at \notin env.nomap
      BY <1>2, <3>2 DEF ProbeSchedule, IInv, Typed, PolledIsPlain, StartsAtFirst
    <3> QED BY <3>1, <3>2
  <2>2. \A b \in Buttons : ~Disabled(b)' /\ ~Past(b)'
    BY <1>2 DEF ProbeSchedule, NextButton
  <2> QED BY <2>1, <2>2 DEF IInv
<1>3. CASE ProbeRequestIrq
  <2>1. Typed' /\ PolledIsPlain' /\ StartsAtFirst'
    BY <1>3 DEF ProbeRequestIrq, NextButton, IInv, Typed, PolledIsPlain, StartsAtFirst
  <2>2. \A b \in Buttons : ~Disabled(b)' /\ ~Past(b)'
    BY <1>3 DEF ProbeRequestIrq, NextButton
  <2> QED BY <2>1, <2>2 DEF IInv
<1> QED
  BY <1>1, <1>2, <1>3 DEF Probe

\* Removal disables the interrupt of a button before it cancels the work, and
\* goes on with the next button only then.
LEMMA CloseKeepsIInv == IInv /\ Close => IInv'
<1> SUFFICES ASSUME IInv, Close PROVE IInv'
  OBVIOUS
<1> USE ButtonsAssumption DEF Buttons, Past, Disabled
<1>1. CASE PolledClose
  BY <1>1 DEF PolledClose, IInv, Typed, PolledIsPlain, StartsAtFirst
<1>2. CASE IrqCloseDisable
  BY <1>2 DEF IrqCloseDisable, IInv, Typed, PolledIsPlain, StartsAtFirst
<1>3. CASE IrqCloseCancel
  BY <1>3 DEF IrqCloseCancel, NextButton, IInv, Typed, PolledIsPlain, StartsAtFirst
<1> QED
  BY <1>1, <1>2, <1>3 DEF Close

\* Works, interrupts and line changes run at any time; only an interrupt queues
\* work, and only of a button that still has one.
LEMMA RunningKeepsIInv ==
  ASSUME IInv,
         \/ Poll \/ HotplugWork
         \/ \E b \in Buttons : IrqWork(b) \/ HandleIrq(b) \/ Flip(b)
  PROVE  IInv'
<1> USE ButtonsAssumption DEF Buttons, Past, Disabled
<1>1. CASE Poll
  BY <1>1 DEF Poll, IInv, Typed, PolledIsPlain, StartsAtFirst
<1>2. CASE HotplugWork
  BY <1>2 DEF HotplugWork, IInv, Typed, PolledIsPlain, StartsAtFirst
<1>3. ASSUME NEW b \in Buttons, IrqWork(b) PROVE IInv'
  BY <1>3 DEF IrqWork, IInv, Typed, PolledIsPlain, StartsAtFirst
<1>4. ASSUME NEW b \in Buttons, HandleIrq(b) PROVE IInv'
  BY <1>4 DEF HandleIrq, IInv, Typed, PolledIsPlain, StartsAtFirst
<1>5. ASSUME NEW b \in Buttons, Flip(b) PROVE IInv'
  <2>1. env' \in Configurations /\ env'.polled = env.polled
    BY <1>5 DEF Flip, IInv, Typed, Configurations
  <2> QED
    BY <1>5, <2>1 DEF Flip, IInv, Typed, PolledIsPlain, StartsAtFirst
<1> QED
  BY <1>1, <1>2, <1>3, <1>4, <1>5

\* IInv holds in every reachable state.
THEOREM InductiveInvariant == Spec => []IInv
<1>1. IInv /\ [Next]_vars => IInv'
  <2> SUFFICES ASSUME IInv, [Next]_vars PROVE IInv'
    OBVIOUS
  <2>1. CASE Next
    BY <2>1, ProbeKeepsIInv, CloseKeepsIInv, RunningKeepsIInv DEF Next
  <2>2. CASE UNCHANGED vars
    BY <2>2 DEF vars, IInv, Typed, PolledIsPlain, StartsAtFirst, Past, Disabled
  <2> QED
    BY <2>1, <2>2
<1> QED
  BY InitIInv, <1>1, PTL DEF Spec

\* Once gpio_keys_irq_close or gpio_keys_polled_close is past a button, its work
\* is not queued and is never queued again, whatever interrupts were on their way
\* and however many buttons there are.
THEOREM RemovalIsQuiet == Spec => []Quiet
<1>1. IInv => Quiet
  BY DEF IInv, Past, Quiet
<1> QED
  BY InductiveInvariant, <1>1, PTL

-----------------------------------------------------------------------------
(* What gpio_keys_handle_button does. *)

Counts == 0 .. env.threshold
Runs   == [value: {Unknown, 0, 1}, times: 0 .. env.threshold + 1]
Drivers == [last: [Buttons -> {Unknown, 0, 1}], count: [Buttons -> Counts],
            events: Seq(Events), run: [Buttons -> Runs]]

\* A key that is not pressed at initialization: its state is only kept.
FirstReleased(d, b) == d.last[b] = Unknown /\ b \notin Switches /\ pin[b] = 0

Kept(d, e, b)     == /\ FirstReleased(d, b)
                     /\ e.last[b] = 0 /\ e.count[b] = 0 /\ e.events = d.events
Same(d, e, b)     == /\ d.last[b] = pin[b]
                     /\ e.last[b] = d.last[b] /\ e.count[b] = 0 /\ e.events = d.events
Counted(d, e, b)  == /\ ~FirstReleased(d, b) /\ d.last[b] # pin[b] /\ d.count[b] < env.threshold
                     /\ e.last[b] = d.last[b] /\ e.count[b] = d.count[b] + 1
                     /\ e.events = d.events
Reports(d, e, b)  == /\ ~FirstReleased(d, b) /\ d.last[b] # pin[b] /\ d.count[b] = env.threshold
                     /\ e.last[b] = pin[b] /\ e.count[b] = 0
                     /\ \/ e.events = Append(d.events, [button |-> b, state |-> pin[b]])
                        \/ env.lossy /\ e.events = d.events

\* One of four things happens to the button, and nothing to the others.
Handled(d, e, b) ==
  /\ e \in Drivers /\ e.run = d.run
  /\ \A c \in Buttons \ {b} : e.last[c] = d.last[c] /\ e.count[c] = d.count[c]
  /\ Kept(d, e, b) \/ Same(d, e, b) \/ Counted(d, e, b) \/ Reports(d, e, b)

\* The fields of the driver's state.
LEMMA DriverFields ==
  ASSUME NEW d \in Drivers
  PROVE  /\ d.last \in [Buttons -> {Unknown, 0, 1}] /\ d.count \in [Buttons -> Counts]
         /\ d.events \in Seq(Events) /\ d.run \in [Buttons -> Runs]
BY DEF Drivers

\* set_state: the value of the line is the state, and the counter is reset.
LEMMA SetStateFacts ==
  ASSUME NEW d \in Drivers, NEW b \in Buttons, pin \in [Buttons -> {0, 1}], env.threshold \in Nat
  PROVE  /\ SetState(d, b) \in Drivers
         /\ SetState(d, b).run = d.run /\ SetState(d, b).events = d.events
         /\ SetState(d, b).last = [d.last EXCEPT ![b] = pin[b]]
         /\ SetState(d, b).count = [d.count EXCEPT ![b] = 0]
<1>1. [d.last EXCEPT ![b] = pin[b]] \in [Buttons -> {Unknown, 0, 1}]
  BY DriverFields
<1>2. [d.count EXCEPT ![b] = 0] \in [Buttons -> Counts]
  BY DriverFields DEF Counts
<1> QED BY <1>1, <1>2, DriverFields DEF SetState, Drivers

\* gpio_keys_handle_button, as the four cases.
LEMMA HandleButtonFacts ==
  ASSUME NEW d \in Drivers, NEW b \in Buttons, pin \in [Buttons -> {0, 1}], env.threshold \in Nat,
         NEW e \in HandleButton(d, b)
  PROVE  Handled(d, e, b)
<1>0. /\ d.last \in [Buttons -> {Unknown, 0, 1}] /\ d.count \in [Buttons -> Counts]
      /\ d.events \in Seq(Events) /\ d.run \in [Buttons -> Runs]
  BY DriverFields
<1>1. CASE FirstReleased(d, b)
  <2>1. e = SetState(d, b) /\ pin[b] = 0
    BY <1>1 DEF HandleButton, FirstReleased
  <2>2. /\ e \in Drivers /\ e.run = d.run /\ e.events = d.events
        /\ e.last = [d.last EXCEPT ![b] = pin[b]] /\ e.count = [d.count EXCEPT ![b] = 0]
    BY <2>1, SetStateFacts
  <2>3. /\ e.last[b] = 0 /\ e.count[b] = 0
        /\ \A c \in Buttons \ {b} : e.last[c] = d.last[c] /\ e.count[c] = d.count[c]
    BY <1>0, <2>1, <2>2
  <2> QED BY <1>1, <2>2, <2>3 DEF Handled, Kept
<1>2. CASE ~FirstReleased(d, b) /\ d.last[b] = pin[b]
  <2>1. e = [d EXCEPT !.count[b] = 0]
    BY <1>2 DEF HandleButton, FirstReleased
  <2>2. [d.count EXCEPT ![b] = 0] \in [Buttons -> Counts]
    BY <1>0 DEF Counts
  <2>3. /\ e \in Drivers /\ e.run = d.run /\ e.events = d.events /\ e.last = d.last
        /\ e.count = [d.count EXCEPT ![b] = 0]
    BY <2>1, <2>2 DEF Drivers
  <2>4. e.count[b] = 0 /\ \A c \in Buttons \ {b} : e.count[c] = d.count[c]
    BY <1>0, <2>3
  <2> QED BY <1>2, <2>3, <2>4 DEF Handled, Same
<1>3. CASE ~FirstReleased(d, b) /\ d.last[b] # pin[b] /\ d.count[b] < env.threshold
  <2>1. e = [d EXCEPT !.count[b] = @ + 1]
    BY <1>3 DEF HandleButton, FirstReleased
  <2>2. [d.count EXCEPT ![b] = d.count[b] + 1] \in [Buttons -> Counts]
    <3>1. d.count[b] + 1 \in Counts
      BY <1>0, <1>3 DEF Counts
    <3> QED BY <1>0, <3>1
  <2>3. /\ e \in Drivers /\ e.run = d.run /\ e.events = d.events /\ e.last = d.last
        /\ e.count = [d.count EXCEPT ![b] = d.count[b] + 1]
    BY <2>1, <2>2 DEF Drivers
  <2>4. e.count[b] = d.count[b] + 1 /\ \A c \in Buttons \ {b} : e.count[c] = d.count[c]
    BY <1>0, <2>3
  <2> QED BY <1>3, <2>3, <2>4 DEF Handled, Counted
<1>4. CASE ~FirstReleased(d, b) /\ d.last[b] # pin[b] /\ ~(d.count[b] < env.threshold)
  <2>0. d.count[b] = env.threshold
    BY <1>0, <1>4 DEF Counts
  <2>1. PICK f \in CreateEvent(d, b) : e = SetState(f, b)
    BY <1>4 DEF HandleButton, FirstReleased
  <2>2. /\ f \in Drivers /\ f.run = d.run /\ f.last = d.last /\ f.count = d.count
        /\ \/ f.events = Append(d.events, [button |-> b, state |-> pin[b]])
           \/ env.lossy /\ f.events = d.events
    <3>1. [button |-> b, state |-> pin[b]] \in Events
      BY DEF Events
    <3>2. Append(d.events, [button |-> b, state |-> pin[b]]) \in Seq(Events)
      BY <1>0, <3>1
    <3> QED BY <3>2 DEF CreateEvent, Drivers
  <2>3. /\ e \in Drivers /\ e.run = f.run /\ e.events = f.events
        /\ e.last = [f.last EXCEPT ![b] = pin[b]] /\ e.count = [f.count EXCEPT ![b] = 0]
    BY <2>1, <2>2, SetStateFacts
  <2>4. /\ e.last[b] = pin[b] /\ e.count[b] = 0
        /\ \A c \in Buttons \ {b} : e.last[c] = d.last[c] /\ e.count[c] = d.count[c]
    BY <1>0, <2>2, <2>3
  <2> QED BY <1>4, <2>0, <2>2, <2>3, <2>4 DEF Handled, Reports
<1> QED BY <1>1, <1>2, <1>3, <1>4

\* What a poll has seen.
LEMMA SampledFacts ==
  ASSUME NEW d \in Drivers, NEW b \in Buttons, pin \in [Buttons -> {0, 1}], env.threshold \in Nat
  PROVE  LET e == Sampled(d, b) IN
         /\ e \in Drivers /\ e.last = d.last /\ e.count = d.count /\ e.events = d.events
         /\ \A c \in Buttons \ {b} : e.run[c] = d.run[c]
         /\ e.run[b].value = pin[b]
         /\ e.run[b].times = IF d.run[b].value # pin[b] THEN 1
                             ELSE IF d.run[b].times <= env.threshold THEN d.run[b].times + 1
                             ELSE d.run[b].times
<1> DEFINE r == [value |-> pin[b],
                 times |-> IF d.run[b].value # pin[b] THEN 1
                           ELSE IF d.run[b].times <= env.threshold THEN d.run[b].times + 1
                           ELSE d.run[b].times]
<1>0. d.run \in [Buttons -> Runs] /\ d.run[b] \in Runs
  BY DriverFields
<1>1. /\ r \in Runs /\ r.value = pin[b]
      /\ r.times = IF d.run[b].value # pin[b] THEN 1
                   ELSE IF d.run[b].times <= env.threshold THEN d.run[b].times + 1
                   ELSE d.run[b].times
  BY <1>0 DEF Runs
<1>2. Sampled(d, b) = [d EXCEPT !.run = [d.run EXCEPT ![b] = r]]
  BY DEF Sampled
<1> HIDE DEF r
<1>3. [d.run EXCEPT ![b] = r] \in [Buttons -> Runs]
  BY <1>0, <1>1
<1>4. /\ Sampled(d, b) \in Drivers
      /\ Sampled(d, b).last = d.last /\ Sampled(d, b).count = d.count
      /\ Sampled(d, b).events = d.events /\ Sampled(d, b).run = [d.run EXCEPT ![b] = r]
  BY <1>2, <1>3 DEF Drivers
<1>5. /\ Sampled(d, b).run[b] = r
      /\ \A c \in Buttons \ {b} : Sampled(d, b).run[c] = d.run[c]
  BY <1>0, <1>4
<1> QED BY <1>1, <1>4, <1>5

-----------------------------------------------------------------------------
(* Why an event is reported. *)

\* The counter of a polled button is the number of polls that have seen the value
\* that is not reported yet.
CountsPolls ==
  env.polled => \A b \in Buttons :
    IF last[b] = Unknown
    THEN \/ b \in Switches
         \/ run[b].value = Unknown /\ count[b] = 0
         \/ run[b].value = 1 /\ run[b].times = count[b]
    ELSE \/ run[b].value = last[b] /\ count[b] = 0
         \/ run[b].value = 1 - last[b] /\ run[b].times = count[b]

\* The first event of a key that userland does not know of is a press, and
\* without one the driver has not seen the key pressed.
FirstIsPress ==
  ~env.lossy => \A b \in Buttons \ Switches : sent[b] = Unknown =>
    /\ \A i \in 1 .. Len(events) :
         events[i].button = b /\ (\A j \in 1 .. i - 1 : events[j].button # b) =>
           events[i].state = 1
    /\ (\A i \in 1 .. Len(events) : events[i].button # b) => last[b] \in {Unknown, 0}

ReportInv == TypeOK /\ CountsPolls /\ FirstIsPress

\* Nothing has been read or sent yet.
LEMMA InitReport == Init => ReportInv
<1> SUFFICES ASSUME Init PROVE ReportInv
  OBVIOUS
<1>1. env \in Configurations /\ env.threshold \in Nat /\ env.flips \in Nat
  BY ButtonsAssumption DEF Init, Configurations
<1>2. \A b \in Buttons : run[b] = [value |-> Unknown, times |-> 0] /\ count[b] = 0 /\ last[b] = Unknown
  BY DEF Init
<1>3. TypeOK
  <2>1. env \in {[env EXCEPT !.flips = n] : n \in 0 .. env.flips}
    <3>1. env = [env EXCEPT !.flips = env.flips]
      BY <1>1 DEF Configurations
    <3> QED BY <1>1, <3>1
  <2>2. run \in [Buttons -> [value: {Unknown, 0, 1}, times: 0 .. env.threshold + 1]]
    BY <1>1 DEF Init
  <2>3. at \in Buttons /\ turn \in Buttons /\ events \in Seq(Events)
    BY ButtonsAssumption DEF Init, Buttons
  <2>4. count \in [Buttons -> 0 .. env.threshold]
    BY <1>1 DEF Init
  <2> QED BY <2>1, <2>2, <2>3, <2>4 DEF TypeOK, Init
<1>4. CountsPolls
  BY <1>2 DEF CountsPolls
<1>5. FirstIsPress
  <2>1. \A i \in 1 .. Len(events) : FALSE
    BY DEF Init
  <2> QED BY <1>2, <2>1 DEF FirstIsPress
<1> QED BY <1>3, <1>4, <1>5 DEF ReportInv

\* The state of the driver in one record.
LEMMA DriverTyped ==
  ASSUME TypeOK
  PROVE  /\ Driver \in Drivers
         /\ Driver.last = last /\ Driver.count = count /\ Driver.events = events
         /\ Driver.run = run
BY DEF TypeOK, Driver, Drivers, Counts, Runs

\* A step that leaves the setting alone and gives the driver a state of the right
\* type keeps the types.
LEMMA TypesKept ==
  ASSUME TypeOK, UNCHANGED <<pin, sent, env, edge, irq>>, NEW d \in Drivers, Becomes(d),
         work' \subseteq Buttons, turn' \in Buttons, UNCHANGED <<pc, at>>
  PROVE  TypeOK'
<1>1. /\ last' \in [Buttons -> {Unknown, 0, 1}] /\ count' \in [Buttons -> 0 .. env.threshold]
      /\ events' \in Seq(Events)
      /\ run' \in [Buttons -> [value: {Unknown, 0, 1}, times: 0 .. env.threshold + 1]]
  BY DriverFields DEF Becomes, Counts, Runs
<1> QED BY <1>1 DEF TypeOK

\* An event appended to the queue is a press if it is the first one of a key.
LEMMA HandledFirstIsPress ==
  ASSUME TypeOK, FirstIsPress, UNCHANGED <<pin, sent, env>>,
         NEW d \in Drivers, d.last = last, d.events = events, NEW b \in Buttons,
         NEW e, Handled(d, e, b), Becomes(e)
  PROVE  FirstIsPress'
<1> SUFFICES ASSUME ~env.lossy, NEW k \in Buttons \ Switches, sent[k] = Unknown
             PROVE  /\ \A i \in 1 .. Len(events') :
                         events'[i].button = k /\ (\A j \in 1 .. i - 1 : events'[j].button # k) =>
                           events'[i].state = 1
                    /\ (\A i \in 1 .. Len(events') : events'[i].button # k) =>
                         last'[k] \in {Unknown, 0}
  BY DEF FirstIsPress
<1>1. /\ \A i \in 1 .. Len(events) :
           events[i].button = k /\ (\A j \in 1 .. i - 1 : events[j].button # k) =>
             events[i].state = 1
      /\ (\A i \in 1 .. Len(events) : events[i].button # k) => last[k] \in {Unknown, 0}
  BY DEF FirstIsPress
<1>2. events' = e.events /\ last' = e.last /\ last[k] \in {Unknown, 0, 1} /\ pin[b] \in {0, 1}
  BY DEF Becomes, TypeOK
<1>3. CASE Reports(d, e, b)
  <2>1. events' = Append(events, [button |-> b, state |-> pin[b]]) /\ events \in Seq(Events)
    BY <1>2, <1>3 DEF Reports, TypeOK
  <2>2. /\ Len(events') = Len(events) + 1 /\ Len(events) \in Nat
        /\ \A i \in 1 .. Len(events) : events'[i] = events[i]
        /\ events'[Len(events) + 1].button = b /\ events'[Len(events) + 1].state = pin[b]
    BY <2>1
  <2>3. b = k /\ (\A i \in 1 .. Len(events) : events[i].button # k) => pin[b] = 1
    BY <1>1, <1>2, <1>3 DEF Reports, FirstReleased, Unknown
  <2>4. k # b => last'[k] = last[k]
    BY <1>2 DEF Handled
  <2> HIDE DEF Reports
  <2>5. ASSUME NEW i \in 1 .. Len(events'), events'[i].button = k,
               \A j \in 1 .. i - 1 : events'[j].button # k
        PROVE  events'[i].state = 1
    <3>1. CASE i \in 1 .. Len(events)
      <4>1. \A j \in 1 .. i - 1 : j \in 1 .. Len(events)
        BY <2>2, <3>1
      <4> QED BY <1>1, <2>2, <2>5, <3>1, <4>1
    <3>2. CASE i = Len(events) + 1
      <4>1. \A j \in 1 .. Len(events) : events[j].button # k
        BY <2>2, <2>5, <3>2
      <4> QED BY <2>2, <2>3, <2>5, <3>2, <4>1
    <3> QED BY <2>2, <3>1, <3>2
  <2>6. ASSUME \A i \in 1 .. Len(events') : events'[i].button # k
        PROVE  last'[k] \in {Unknown, 0}
    <3>1. \A i \in 1 .. Len(events) : events[i].button # k /\ i \in 1 .. Len(events')
      BY <2>2, <2>6
    <3>2. Len(events) + 1 \in 1 .. Len(events')
      BY <2>2
    <3>3. k # b
      BY <2>2, <2>6, <3>2
    <3> QED BY <1>1, <2>4, <3>1, <3>3
  <2> QED BY <2>5, <2>6
<1>4. CASE ~Reports(d, e, b)
  <2>1. events' = events
    BY <1>2, <1>4 DEF Handled, Kept, Same, Counted
  <2>2. last'[k] = last[k] \/ last'[k] = 0
    <3>1. k # b => last'[k] = last[k]
      BY <1>2 DEF Handled
    <3>2. k = b => last'[k] = last[k] \/ last'[k] = 0
      BY <1>2, <1>4 DEF Handled, Kept, Same, Counted
    <3> QED BY <3>1, <3>2
  <2> QED BY <1>1, <2>1, <2>2
<1> QED BY <1>3, <1>4

\* The delayed work of a button with an interrupt.
LEMMA IrqWorkReport ==
  ASSUME ReportInv, IInv, NEW b \in Buttons, IrqWork(b)
  PROVE  ReportInv'
<1>1. TypeOK /\ CountsPolls /\ FirstIsPress /\ env.threshold \in Nat /\ pin \in [Buttons -> {0, 1}]
  BY DEF ReportInv, IInv, Typed, Configurations, TypeOK
<1>2. PICK e \in HandleButton(Driver, b) : Becomes(e)
  BY DEF IrqWork
<1>3. Driver \in Drivers /\ Driver.last = last /\ Driver.events = events
  BY <1>1, DriverTyped
<1>4. Handled(Driver, e, b) /\ e \in Drivers
  BY <1>1, <1>3, HandleButtonFacts DEF Handled
<1>5. /\ UNCHANGED <<pin, sent, env, edge, irq, turn, pc, at>> /\ ~env.polled
      /\ work' \subseteq Buttons /\ turn' \in Buttons
  BY <1>1 DEF IrqWork, TypeOK
<1>6. TypeOK'
  BY <1>1, <1>2, <1>4, <1>5, TypesKept
<1>7. FirstIsPress'
  BY <1>1, <1>2, <1>3, <1>4, <1>5, HandledFirstIsPress
<1>8. CountsPolls'
  BY <1>5 DEF CountsPolls
<1> QED BY <1>6, <1>7, <1>8 DEF ReportInv

\* What a poll does to one button: a report comes after enough equal polls.
LEMMA PollFacts ==
  ASSUME ReportInv, IInv, Poll
  PROVE  /\ ReportInv'
         /\ \A b \in Buttons :
              /\ last'[b] # last[b]
              /\ last[b] # Unknown \/ (b \notin Switches /\ last'[b] = 1)
              => run'[b] = [value |-> last'[b], times |-> env.threshold + 1]
<1>1. TypeOK /\ CountsPolls /\ FirstIsPress /\ env.threshold \in Nat /\ pin \in [Buttons -> {0, 1}]
  BY DEF ReportInv, IInv, Typed, Configurations, TypeOK
<1> DEFINE b == turn
           d == Sampled(Driver, b)
<1>2. b \in Buttons
  BY <1>1 DEF TypeOK
<1>3. PICK e \in HandleButton(d, b) : Becomes(e)
  BY DEF Poll
<1>4. /\ Driver \in Drivers /\ Driver.last = last /\ Driver.count = count
      /\ Driver.events = events /\ Driver.run = run
  BY <1>1, DriverTyped
<1>5. /\ d \in Drivers /\ d.last = last /\ d.count = count /\ d.events = events
      /\ \A c \in Buttons \ {b} : d.run[c] = run[c]
      /\ d.run[b].value = pin[b]
      /\ d.run[b].times = IF run[b].value # pin[b] THEN 1
                          ELSE IF run[b].times <= env.threshold THEN run[b].times + 1
                          ELSE run[b].times
  BY <1>1, <1>2, <1>4, SampledFacts
<1> HIDE DEF d
<1>6. Handled(d, e, b) /\ e \in Drivers
  BY <1>1, <1>2, <1>5, HandleButtonFacts DEF Handled
<1>7. /\ UNCHANGED <<pin, sent, env, edge, irq, pc, at>> /\ env.polled
      /\ work' \subseteq Buttons /\ turn' \in Buttons
  <2>1. turn' \in Buttons
    BY <1>2, ButtonsAssumption DEF Poll, Buttons
  <2> QED BY <1>1, <2>1 DEF Poll, TypeOK
<1>8. TypeOK'
  BY <1>1, <1>3, <1>6, <1>7, TypesKept
<1>9. FirstIsPress'
  BY <1>1, <1>2, <1>3, <1>5, <1>6, <1>7, HandledFirstIsPress
<1> HIDE DEF b
<1>10. /\ last' = e.last /\ count' = e.count /\ run' = d.run
       /\ \A c \in Buttons \ {b} : last'[c] = last[c] /\ count'[c] = count[c] /\ run'[c] = run[c]
  BY <1>3, <1>5, <1>6 DEF Becomes, Handled
<1>11. /\ last[b] \in {Unknown, 0, 1} /\ count[b] \in 0 .. env.threshold /\ pin[b] \in {0, 1}
       /\ run[b].times \in 0 .. env.threshold + 1 /\ run[b].value \in {Unknown, 0, 1}
       /\ run'[b] \in [value: {Unknown, 0, 1}, times: 0 .. env.threshold + 1]
       /\ run'[b].value = pin[b]
       /\ run'[b].times = IF run[b].value # pin[b] THEN 1
                          ELSE IF run[b].times <= env.threshold THEN run[b].times + 1
                          ELSE run[b].times
  <2>1. run[b] \in Runs /\ run'[b] \in Runs
    BY <1>1, <1>2, <1>5, <1>10, DriverFields DEF TypeOK, Runs
  <2>2. run[b].times \in 0 .. env.threshold + 1 /\ run[b].value \in {Unknown, 0, 1}
    BY <2>1 DEF Runs
  <2>3. last[b] \in {Unknown, 0, 1} /\ count[b] \in 0 .. env.threshold /\ pin[b] \in {0, 1}
    BY <1>1, <1>2 DEF TypeOK
  <2> QED BY <1>5, <1>10, <2>1, <2>2, <2>3 DEF Runs
<1>12. IF last[b] = Unknown
       THEN \/ b \in Switches
            \/ run[b].value = Unknown /\ count[b] = 0
            \/ run[b].value = 1 /\ run[b].times = count[b]
       ELSE \/ run[b].value = last[b] /\ count[b] = 0
            \/ run[b].value = 1 - last[b] /\ run[b].times = count[b]
  BY <1>1, <1>2, <1>7 DEF CountsPolls
<1>13. \/ FirstReleased(d, b) /\ last'[b] = 0 /\ count'[b] = 0
       \/ last[b] = pin[b] /\ last'[b] = last[b] /\ count'[b] = 0
       \/ /\ ~FirstReleased(d, b) /\ last[b] # pin[b] /\ count[b] < env.threshold
          /\ last'[b] = last[b] /\ count'[b] = count[b] + 1
       \/ /\ ~FirstReleased(d, b) /\ last[b] # pin[b] /\ count[b] = env.threshold
          /\ last'[b] = pin[b] /\ count'[b] = 0
  BY <1>5, <1>6, <1>10 DEF Handled, Kept, Same, Counted, Reports
<1>14. FirstReleased(d, b) <=> last[b] = Unknown /\ b \notin Switches /\ pin[b] = 0
  BY <1>5 DEF FirstReleased
<1>15. IF last'[b] = Unknown
       THEN \/ b \in Switches
            \/ run'[b].value = Unknown /\ count'[b] = 0
            \/ run'[b].value = 1 /\ run'[b].times = count'[b]
       ELSE \/ run'[b].value = last'[b] /\ count'[b] = 0
            \/ run'[b].value = 1 - last'[b] /\ run'[b].times = count'[b]
  BY <1>1, <1>11, <1>12, <1>13, <1>14 DEF Unknown
<1>16. CountsPolls'
  <2> SUFFICES ASSUME NEW c \in Buttons
               PROVE  IF last'[c] = Unknown
                      THEN \/ c \in Switches
                           \/ run'[c].value = Unknown /\ count'[c] = 0
                           \/ run'[c].value = 1 /\ run'[c].times = count'[c]
                      ELSE \/ run'[c].value = last'[c] /\ count'[c] = 0
                           \/ run'[c].value = 1 - last'[c] /\ run'[c].times = count'[c]
    BY DEF CountsPolls
  <2>1. CASE c = b
    BY <1>15, <2>1
  <2>2. CASE c # b
    BY <1>1, <1>7, <1>10, <2>2 DEF CountsPolls
  <2> QED BY <2>1, <2>2
<1>17. ASSUME last'[b] # last[b], last[b] # Unknown \/ (b \notin Switches /\ last'[b] = 1)
       PROVE  run'[b] = [value |-> last'[b], times |-> env.threshold + 1]
  <2>1. run'[b].value = last'[b] /\ run'[b].times = env.threshold + 1
    BY <1>1, <1>11, <1>12, <1>13, <1>14, <1>17 DEF Unknown
  <2> QED BY <1>11, <2>1
<1> QED BY <1>8, <1>9, <1>10, <1>16, <1>17 DEF ReportInv

\* The queue of uevents without its first entry.
LEMMA FirstRemoved ==
  ASSUME NEW q \in Seq(Events), q # <<>>
  PROVE  /\ RemoveAt(q, 1) \in Seq(Events)
         /\ Len(RemoveAt(q, 1)) = Len(q) - 1 /\ Len(q) \in Nat \ {0}
         /\ \A i \in 1 .. Len(q) - 1 : RemoveAt(q, 1)[i] = q[i + 1]
<1>1. Len(q) \in Nat /\ Len(q) > 0
  OBVIOUS
<1>2. SubSeq(q, 1, 0) = <<>>
  OBVIOUS
<1>3. /\ SubSeq(q, 2, Len(q)) \in Seq(Events) /\ Len(SubSeq(q, 2, Len(q))) = Len(q) - 1
      /\ \A i \in 1 .. Len(q) - 1 : SubSeq(q, 2, Len(q))[i] = q[i + 1]
  BY <1>1
<1>4. RemoveAt(q, 1) = <<>> \o SubSeq(q, 2, Len(q))
  BY <1>2 DEF RemoveAt
<1>5. \A s \in Seq(Events) : <<>> \o s = s
  OBVIOUS
<1>6. RemoveAt(q, 1) = SubSeq(q, 2, Len(q))
  BY <1>3, <1>4, <1>5
<1>7. Len(q) \in Nat \ {0}
  BY <1>1
<1> QED BY <1>3, <1>6, <1>7, Zenon

\* Taking any entry out leaves a queue of uevents.
LEMMA RemoveTyped ==
  ASSUME NEW q \in Seq(Events), NEW i \in 1 .. Len(q)
  PROVE  RemoveAt(q, i) \in Seq(Events)
<1>1. SubSeq(q, 1, i - 1) \in Seq(Events) /\ SubSeq(q, i + 1, Len(q)) \in Seq(Events)
  OBVIOUS
<1> QED BY <1>1 DEF RemoveAt

\* A uevent is sent: in order, unless uevents may overtake each other.
LEMMA HotplugFacts ==
  ASSUME ReportInv, HotplugWork
  PROVE  /\ ReportInv'
         /\ \A b \in Buttons \ Switches :
              ~env.lossy /\ sent[b] = Unknown /\ sent'[b] # Unknown => sent'[b] = 1
<1>1. TypeOK /\ CountsPolls /\ FirstIsPress /\ events \in Seq(Events) /\ Len(events) \in Nat
  BY DEF ReportInv, TypeOK
<1>2. PICK i \in 1 .. (IF env.lossy THEN Len(events) ELSE IF events = <<>> THEN 0 ELSE 1) :
        /\ sent' = [sent EXCEPT ![events[i].button] = events[i].state]
        /\ events' = RemoveAt(events, i)
        /\ UNCHANGED <<pin, last, count, work, irq, edge, turn, run, pc, at, env>>
  BY DEF HotplugWork
<1>3. i \in 1 .. Len(events) /\ (~env.lossy => i = 1 /\ events # <<>>)
  <2>1. CASE env.lossy
    BY <2>1
  <2>2. CASE ~env.lossy
    BY <1>1, <2>2
  <2> QED BY <2>1, <2>2
<1>4. events[i] \in Events /\ events[i].button \in Buttons /\ events[i].state \in {0, 1}
  <2>1. events[i] \in Events
    BY <1>1, <1>3
  <2> QED BY <2>1 DEF Events
<1>5. TypeOK'
  <2>1. events' \in Seq(Events)
    BY <1>1, <1>2, <1>3, RemoveTyped
  <2>2. sent' \in [Buttons -> {Unknown, 0, 1}]
    BY <1>1, <1>2, <1>4 DEF TypeOK
  <2> QED BY <1>1, <1>2, <2>1, <2>2 DEF TypeOK
<1>6. CountsPolls'
  BY <1>1, <1>2 DEF CountsPolls
<1>7. ASSUME ~env.lossy, NEW b \in Buttons \ Switches, sent[b] = Unknown, sent'[b] # Unknown
      PROVE  sent'[b] = 1
  <2>1. i = 1 /\ events[1].button = b /\ sent'[b] = events[1].state
    <3>1. sent \in [Buttons -> {Unknown, 0, 1}]
      BY <1>1 DEF TypeOK
    <3> QED BY <1>2, <1>3, <1>4, <1>7, <3>1
  <2>2. 1 \in 1 .. Len(events) /\ \A j \in 1 .. 1 - 1 : FALSE
    BY <1>1, <1>3
  <2> QED BY <1>1, <1>7, <2>1, <2>2 DEF FirstIsPress
<1>8. FirstIsPress'
  <2> SUFFICES ASSUME ~env.lossy, NEW k \in Buttons \ Switches, sent'[k] = Unknown
               PROVE  /\ \A n \in 1 .. Len(events') :
                           events'[n].button = k /\ (\A j \in 1 .. n - 1 : events'[j].button # k)
                             => events'[n].state = 1
                      /\ (\A n \in 1 .. Len(events') : events'[n].button # k) =>
                           last'[k] \in {Unknown, 0}
    BY <1>2 DEF FirstIsPress
  <2>1. i = 1 /\ events # <<>>
    BY <1>3
  <2>2. /\ Len(events') = Len(events) - 1 /\ Len(events) \in Nat \ {0}
        /\ \A n \in 1 .. Len(events) - 1 : events'[n] = events[n + 1]
    BY <1>1, <1>2, <2>1, FirstRemoved
  <2>3. events[1].button # k /\ sent[k] = Unknown
    <3>1. sent \in [Buttons -> {Unknown, 0, 1}]
      BY <1>1 DEF TypeOK
    <3> QED BY <1>2, <1>4, <2>1, <3>1 DEF Unknown
  <2>4. /\ \A n \in 1 .. Len(events) :
             events[n].button = k /\ (\A j \in 1 .. n - 1 : events[j].button # k) =>
               events[n].state = 1
        /\ (\A n \in 1 .. Len(events) : events[n].button # k) => last[k] \in {Unknown, 0}
    BY <1>1, <2>3 DEF FirstIsPress
  <2>5. ASSUME NEW n \in 1 .. Len(events'), events'[n].button = k,
               \A j \in 1 .. n - 1 : events'[j].button # k
        PROVE  events'[n].state = 1
    <3>1. n + 1 \in 1 .. Len(events) /\ events'[n] = events[n + 1]
      BY <2>2
    <3>2. ASSUME NEW j \in 1 .. (n + 1) - 1 PROVE events[j].button # k
      <4>1. CASE j = 1
        BY <2>3, <4>1
      <4>2. CASE j > 1
        <5>1. j - 1 \in 1 .. n - 1 /\ j - 1 \in 1 .. Len(events) - 1 /\ (j - 1) + 1 = j
          BY <2>2, <4>2
        <5> QED BY <2>2, <2>5, <5>1
      <4> QED BY <4>1, <4>2
    <3> QED BY <2>4, <2>5, <3>1, <3>2
  <2>6. ASSUME \A n \in 1 .. Len(events') : events'[n].button # k
        PROVE  last'[k] \in {Unknown, 0}
    <3>1. ASSUME NEW n \in 1 .. Len(events) PROVE events[n].button # k
      <4>1. CASE n = 1
        BY <2>3, <4>1
      <4>2. CASE n > 1
        <5>1. n - 1 \in 1 .. Len(events') /\ n - 1 \in 1 .. Len(events) - 1 /\ (n - 1) + 1 = n
          BY <2>2, <4>2
        <5> QED BY <2>2, <2>6, <5>1
      <4> QED BY <4>1, <4>2
    <3> QED BY <1>2, <2>4, <3>1
  <2> QED BY <2>5, <2>6
<1> QED BY <1>5, <1>6, <1>7, <1>8 DEF ReportInv

\* Probing, removal and interrupts read no line and send nothing.
LEMMA OtherReport ==
  ASSUME ReportInv, IInv, IInv',
         \/ Probe \/ Close
         \/ \E b \in Buttons : HandleIrq(b) \/ Flip(b)
  PROVE  ReportInv' /\ UNCHANGED <<last, sent>>
<1>1. TypeOK /\ CountsPolls /\ FirstIsPress
  BY DEF ReportInv
<1>2. /\ UNCHANGED <<last, count, events, run, sent, turn>>
      /\ work' \subseteq Buttons /\ irq' \subseteq Buttons /\ at' \in Buttons
      /\ pc' \in {"schedule", "request", "up", "disable", "cancel", "removed"}
      /\ edge' \subseteq Buttons
  <2>1. work' \subseteq Buttons /\ irq' \subseteq Buttons /\ at' \in Buttons
    BY DEF IInv, Typed
  <2>2. CASE Probe
    BY <1>1, <2>1, <2>2 DEF Probe, PolledProbe, ProbeSchedule, ProbeRequestIrq, NextButton,
       driver, TypeOK
  <2>3. CASE Close
    BY <1>1, <2>1, <2>3 DEF Close, PolledClose, IrqCloseDisable, IrqCloseCancel, NextButton,
       driver, TypeOK
  <2>4. ASSUME NEW b \in Buttons, HandleIrq(b) \/ Flip(b)
        PROVE  /\ UNCHANGED <<last, count, events, run, sent, turn, pc>>
               /\ edge' \subseteq Buttons
    BY <1>1, <2>4 DEF HandleIrq, Flip, driver, TypeOK
  <2>5. pc \in {"schedule", "request", "up", "disable", "cancel", "removed"}
    BY <1>1 DEF TypeOK
  <2> QED BY <2>1, <2>2, <2>3, <2>4, <2>5
<1>3. /\ pin' \in [Buttons -> {0, 1}]
      /\ \E s \in Settings : env' \in {[s EXCEPT !.flips = n] : n \in 0 .. s.flips}
      /\ env'.threshold = env.threshold /\ env'.polled = env.polled /\ env'.lossy = env.lossy
  <2>1. ASSUME UNCHANGED <<pin, env>>
        PROVE  /\ pin' \in [Buttons -> {0, 1}]
               /\ \E s \in Settings : env' \in {[s EXCEPT !.flips = n] : n \in 0 .. s.flips}
               /\ env' = env
    BY <1>1, <2>1 DEF TypeOK
  <2>2. ASSUME NEW b \in Buttons, Flip(b)
        PROVE  /\ pin' \in [Buttons -> {0, 1}]
               /\ \E s \in Settings : env' \in {[s EXCEPT !.flips = n] : n \in 0 .. s.flips}
               /\ env'.threshold = env.threshold /\ env'.polled = env.polled
               /\ env'.lossy = env.lossy
    <3>1. pin' = [pin EXCEPT ![b] = 1 - @] /\ pin \in [Buttons -> {0, 1}] /\ pin[b] \in {0, 1}
      BY <1>1, <2>2 DEF Flip, TypeOK
    <3>2. 1 - pin[b] \in {0, 1}
      BY <3>1
    <3>3. pin' \in [Buttons -> {0, 1}]
      BY <3>1, <3>2
    <3>4. PICK s \in Settings : \E n \in 0 .. s.flips : env = [s EXCEPT !.flips = n]
      BY <1>1 DEF TypeOK
    <3>5. PICK n \in 0 .. s.flips : env = [s EXCEPT !.flips = n]
      BY <3>4
    <3>6. s \in Configurations /\ s.flips \in Nat
      BY ButtonsAssumption DEF Configurations
    <3>7. env.flips = n /\ n > 0 /\ env' = [env EXCEPT !.flips = n - 1]
      BY <2>2, <3>5, <3>6 DEF Flip, Configurations
    <3>8. env' = [s EXCEPT !.flips = n - 1]
      BY <3>5, <3>6, <3>7 DEF Configurations
    <3>9. n - 1 \in 0 .. s.flips
      BY <3>6, <3>7
    <3>10. /\ env'.threshold = env.threshold /\ env'.polled = env.polled
           /\ env'.lossy = env.lossy
      BY <3>5, <3>6, <3>8 DEF Configurations
    <3> QED BY <3>3, <3>8, <3>9, <3>10
  <2>3. CASE Probe
    BY <2>1, <2>3 DEF Probe, PolledProbe, ProbeSchedule, ProbeRequestIrq
  <2>4. CASE Close
    BY <2>1, <2>4 DEF Close, PolledClose, IrqCloseDisable, IrqCloseCancel
  <2>5. ASSUME NEW b \in Buttons, HandleIrq(b) PROVE UNCHANGED <<pin, env>>
    BY <2>5 DEF HandleIrq
  <2> QED BY <2>1, <2>2, <2>3, <2>4, <2>5
<1>4. TypeOK'
  BY <1>1, <1>2, <1>3 DEF TypeOK
<1>5. CountsPolls'
  BY <1>1, <1>2, <1>3 DEF CountsPolls
<1>6. FirstIsPress'
  BY <1>1, <1>2, <1>3 DEF FirstIsPress
<1> QED BY <1>2, <1>4, <1>5, <1>6 DEF ReportInv

\* One step, with what it may report.
Justified ==
  /\ \A b \in Buttons :
       /\ last'[b] # last[b]
       /\ last[b] # Unknown \/ (b \notin Switches /\ last'[b] = 1)
       /\ env.polled
       => run'[b] = [value |-> last'[b], times |-> env.threshold + 1]
  /\ \A b \in Buttons \ Switches :
       ~env.lossy /\ sent[b] = Unknown /\ sent'[b] # Unknown => sent'[b] = 1

\* Every step keeps the invariant and reports only what is justified.
LEMMA ReportStep ==
  ASSUME ReportInv, IInv, IInv', [Next]_vars
  PROVE  ReportInv' /\ Justified
<1>1. CASE UNCHANGED vars
  <2>1. /\ UNCHANGED <<pin, last, count, work, irq, edge, events, sent>>
        /\ UNCHANGED <<turn, run, pc, at, env>>
    BY <1>1 DEF vars
  <2>2. TypeOK'
    BY <2>1 DEF ReportInv, TypeOK
  <2>3. CountsPolls' /\ FirstIsPress'
    BY <2>1 DEF ReportInv, CountsPolls, FirstIsPress
  <2> QED BY <2>1, <2>2, <2>3 DEF ReportInv, Justified
<1>2. CASE Poll
  <2>1. sent' = sent
    BY <1>2 DEF Poll
  <2> QED BY <1>2, <2>1, PollFacts DEF Justified
<1>3. CASE HotplugWork
  <2>1. last' = last
    BY <1>3 DEF HotplugWork
  <2> QED BY <1>3, <2>1, HotplugFacts DEF Justified
<1>4. ASSUME NEW b \in Buttons, IrqWork(b) PROVE ReportInv' /\ Justified
  <2>1. ~env.polled /\ sent' = sent
    BY <1>4 DEF IrqWork
  <2> QED BY <1>4, <2>1, IrqWorkReport DEF Justified
<1>5. CASE Probe \/ Close \/ \E b \in Buttons : HandleIrq(b) \/ Flip(b)
  <2>1. ReportInv' /\ UNCHANGED <<last, sent>>
    BY <1>5, OtherReport
  <2> QED BY <2>1 DEF Justified
<1> QED BY <1>1, <1>2, <1>3, <1>4, <1>5 DEF Next

\* The report invariant holds in every reachable state.
THEOREM ReportInvariant == Spec => []ReportInv
<1>1. ReportInv /\ IInv /\ IInv' /\ [Next]_vars => ReportInv'
  BY ReportStep
<1> QED BY InitReport, <1>1, InductiveInvariant, PTL DEF Spec

\* All variables keep their types, for any number of buttons and any threshold; in
\* particular the counter never passes the threshold, and the loops of probe,
\* remove and poll stay at a button.
THEOREM TypeCorrect == Spec => []TypeOK
<1>1. ReportInv => TypeOK
  BY DEF ReportInv
<1> QED BY <1>1, ReportInvariant, PTL

\* A polled button is reported only after enough polls in a row have seen the new
\* value, and unless uevents are lost the first one of a key is a press, for any
\* number of buttons, any threshold and any bouncing of the lines.
THEOREM ReportsJustified == Spec => EventsJustified
<1>1. ReportInv /\ IInv /\ IInv' /\ [Next]_vars =>
        [\A b \in Buttons :
           /\ last'[b] # last[b]
           /\ last[b] # Unknown \/ (b \notin Switches /\ last'[b] = 1)
           /\ env.polled
           => run'[b] = [value |-> last'[b], times |-> env.threshold + 1]]_vars
  BY ReportStep DEF Justified
<1>2. ReportInv /\ IInv /\ IInv' /\ [Next]_vars =>
        [\A b \in Buttons \ Switches :
           ~env.lossy /\ sent[b] = Unknown /\ sent'[b] # Unknown => sent'[b] = 1]_vars
  BY ReportStep DEF Justified
<1>3. Spec => Debounced
  BY <1>1, ReportInvariant, InductiveInvariant, PTL DEF Spec, Debounced
<1>4. Spec => NoGhostRelease
  BY <1>2, ReportInvariant, InductiveInvariant, PTL DEF Spec, NoGhostRelease
<1> QED BY <1>3, <1>4 DEF EventsJustified
=============================================================================
