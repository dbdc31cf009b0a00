------------------------------ MODULE Joystick ------------------------------
(***************************************************************************)
(* Class joystick (src/src/joystick.cpp): the monitor thread that reads    *)
(* the device and tells short presses from long ones, the udev thread that *)
(* opens a device plugged in and starts a new monitor, and the button map, *)
(* loaded by the player's constructor (listen) and by the udev thread.     *)
(*                                                                         *)
(* The kernel stamps events with a clock of `Wrap` ticks.  What a press    *)
(* really lasted is kept beside it, for the properties only.               *)
(***************************************************************************)
EXTENDS ButtonMap

CONSTANTS
  Wrap,                                 \* ticks of the kernel's clock, 2^32
  MinPressed, LongPress, MaxPressed,    \* joystick.h:16-18
  Buttons, Axes,                        \* numbers of the device's buttons and axes
  Devices,                              \* devices that may be plugged in
  Sections, Default,                    \* joystick.conf: button maps by ids, and the default one
  MaxQueue                              \* bound: events the kernel holds for the monitor

\* The code keeps the presses of 24 buttons (joystick.cpp:142).
ASSUME JoystickAssumption ==
  /\ Wrap \in Nat /\ MinPressed \in Nat /\ LongPress \in Nat /\ MaxPressed \in Nat
  /\ MinPressed <= LongPress /\ LongPress <= MaxPressed /\ MaxPressed < Wrap
  /\ Buttons \subseteq 0..23 /\ Axes \subseteq 0..23
  /\ \A d \in Devices : d \in [usb : BOOLEAN, ids : (Nat \ {0}) \X (Nat \ {0})]
  /\ DOMAIN Sections \subseteq Nat \X Nat
  /\ \A i \in DOMAIN Sections : Sections[i] \in Entries
  /\ Default \in Entries
  /\ MaxQueue \in Nat

Nobody == [usb |-> FALSE, ids |-> <<0, 0>>]     \* no device at dev_path
Loaders == {"main", "udev"}
Slots == {1, 2}             \* a monitor thread and the one that follows it

VARIABLES
  clock,            \* the kernel's milliseconds
  device,           \* what is plugged in at dev_path
  held, age,        \* is a button down ("before": since before the device was opened), and how long
  queue,            \* events of fd_joystick not yet read
  is_monitoring,
  cur, mon,         \* the slot of m_thread, and what each monitor thread is doing
  upc,              \* where the udev thread is
  ids,              \* vendor_id and product_id
  settings,         \* the button map
  load,             \* what each loader is doing in load_config
  joystick_event,
  listening,        \* has the player connected its handler?
  mixed,            \* did main's load ever overlap the handling of a plug?
  phase             \* "run" or "dead"

kernel == <<clock, held, age, queue>>
threads == <<is_monitoring, cur, mon, joystick_event>>
config == <<ids, settings, load>>
vars == <<kernel, device, threads, upc, config, listening, mixed, phase>>

Running == phase = "run"

-----------------------------------------------------------------------------
(* The device *)

NoEvent == "none"

Fresh == [pc |-> "test", key |-> 0, event |-> NoEvent,
          p |-> [b \in Buttons |-> FALSE], time |-> [b \in Buttons |-> 0]]
Ended == [Fresh EXCEPT !.pc = "ended"]

Event(type, n, t, a, here) ==
  [type |-> type, button |-> n, time |-> t, age |-> a, here |-> here]

\* The time that passes while no button is down is of no consequence.
Tick ==
  /\ Running /\ \E b \in Buttons : held[b] # "up"
  /\ clock' = (clock + 1) % Wrap
  /\ age' = [b \in Buttons |-> IF held[b] # "up" /\ age[b] < Wrap THEN age[b] + 1 ELSE age[b]]
  /\ UNCHANGED <<held, queue, device, threads, upc, config, listening, mixed, phase>>

Sends(e) ==
  /\ Running /\ device # Nobody /\ Len(queue) < MaxQueue
  /\ queue' = Append(queue, e)
  /\ UNCHANGED <<clock, device, threads, upc, config, listening, mixed, phase>>

PressButton(b) ==
  /\ held[b] = "up"
  /\ Sends(Event("press", b, clock, 0, TRUE))
  /\ held' = [held EXCEPT ![b] = "down"]
  /\ age' = [age EXCEPT ![b] = 0]

ReleaseButton(b) ==
  /\ held[b] # "up"
  /\ Sends(Event("release", b, clock, age[b], held[b] = "down"))
  /\ held' = [held EXCEPT ![b] = "up"]
  /\ age' = [age EXCEPT ![b] = 0]

MoveAxis(n) ==
  /\ \E dir \in {"plus", "minus"} : Sends(Event(dir, n, 0, 0, TRUE))
  /\ UNCHANGED <<held, age>>

\* A device that is withdrawn takes its events along; nobody is told.
Unplug ==
  /\ Running /\ device # Nobody
  /\ device' = Nobody
  /\ queue' = <<>>
  /\ held' = [b \in Buttons |-> "up"] /\ age' = [b \in Buttons |-> 0]
  /\ UNCHANGED <<clock, threads, upc, config, listening, mixed, phase>>

-----------------------------------------------------------------------------
(* joystick::monitor *)

\* Mutant: signed arithmetic, cut off at zero.
ElapsedSigned(now, then) == IF now >= then THEN now - then ELSE 0

\* j.time - time_pressed[j.button] of two __u32
Elapsed(now, then) == IF now >= then THEN now - then ELSE (now + Wrap) - then

\* The press's distance from the button's key in the map, for its length;
\* Nothing for one that is too short or too long.
Nothing == 1000
Kind(t) ==
  IF t > MaxPressed THEN Nothing
  ELSE IF t > LongPress THEN 100
  ELSE IF t > MinPressed THEN 0
  ELSE Nothing

MonTest(m) ==
  /\ Running /\ mon[m].pc = "test"
  /\ mon' = [mon EXCEPT ![m] = IF is_monitoring THEN [@ EXCEPT !.pc = "read"] ELSE Ended]
  /\ UNCHANGED <<kernel, device, is_monitoring, cur, joystick_event, upc, config, listening, mixed, phase>>

Lookup(s, k) == [s EXCEPT !.pc = "lookup", !.key = k]

\* Mutant: any release counts.
HandledReleases(s, e) ==
  LET b == e.button IN
  CASE e.type = "press" -> [s EXCEPT !.pc = "test", !.p[b] = TRUE, !.time[b] = e.time]
    [] e.type = "release" ->
         LET k == Kind(Elapsed(e.time, s.time[b]))
             r == [s EXCEPT !.p[b] = FALSE, !.time[b] = 0]
         IN IF k = Nothing THEN [r EXCEPT !.pc = "test"] ELSE Lookup(r, b + k)
    [] e.type = "plus" -> Lookup(s, b + 200)
    [] e.type = "minus" -> Lookup(s, b + 300)

\* What monitor s makes of event e.
Handled(s, e) ==
  LET b == e.button IN
  CASE e.type = "press" -> [s EXCEPT !.pc = "test", !.p[b] = TRUE, !.time[b] = e.time]
    [] e.type = "release" ->
         IF ~s.p[b] THEN [s EXCEPT !.pc = "test"]
         ELSE LET k == Kind(Elapsed(e.time, s.time[b]))
                  r == [s EXCEPT !.p[b] = FALSE, !.time[b] = 0]
              IN IF k = Nothing THEN [r EXCEPT !.pc = "test"] ELSE Lookup(r, b + k)
    [] e.type = "plus" -> Lookup(s, b + 200)
    [] e.type = "minus" -> Lookup(s, b + 300)

MonRead(m) ==
  /\ Running /\ mon[m].pc = "read"
  /\ IF queue = <<>>
       THEN mon' = [mon EXCEPT ![m].pc = "test"] /\ UNCHANGED queue
       ELSE mon' = [mon EXCEPT ![m] = Handled(@, Head(queue))] /\ queue' = Tail(queue)
  /\ UNCHANGED <<clock, held, age, device, is_monitoring, cur, joystick_event, upc, config,
                 listening, mixed, phase>>

Loading == \E x \in Loaders : load[x].pc \in {"scan", "ids", "pick", "fill"}

\* settings.at throws for a key it does not find, which ends the process; in a
\* map that another thread is filling it may find anything, or fail.
MonLookup(m) ==
  LET s == mon[m]
      Anything == {a \in {Default[i].action : i \in DOMAIN Default} : Loading}
  IN
  /\ Running /\ s.pc = "lookup"
  /\ \/ \E a \in Anything \cup {settings[k] : k \in DOMAIN settings \cap {s.key}} :
          /\ joystick_event' = a
          /\ mon' = [mon EXCEPT ![m].pc = "call", ![m].event = a, ![m].key = 0]
          /\ UNCHANGED phase
     \/ /\ Loading \/ s.key \notin DOMAIN settings
        /\ phase' = "dead"
        /\ UNCHANGED <<joystick_event, mon>>
  /\ UNCHANGED <<kernel, device, is_monitoring, cur, upc, config, listening, mixed>>

\* The signal calls the player's handler, which asks for the event and returns ...
MonCall(m) ==
  /\ Running /\ mon[m].pc = "call"
  /\ mon' = [mon EXCEPT ![m].pc = "test", ![m].event = NoEvent]
  /\ UNCHANGED <<kernel, device, is_monitoring, cur, joystick_event, upc, config, listening, mixed, phase>>

\* ... unless the operation it runs constructs a track and is caught in
\* push_duration (DbQueue), as it may be once populate has cleared the flag, which a
\* first start does before the handler is connected.
MonCaught(m) ==
  /\ Running /\ listening /\ mon[m].pc = "call"
  /\ mon' = [mon EXCEPT ![m].pc = "caught"]
  /\ UNCHANGED <<kernel, device, is_monitoring, cur, joystick_event, upc, config, listening, mixed, phase>>

-----------------------------------------------------------------------------
(* joystick::load_config, in the player's constructor and in the udev thread *)

Idle == [pc |-> "idle", found |-> <<0, 0>>, section |-> <<>>]

NoIds == ids[1] = 0 \/ ids[2] = 0

\* Mutant: the old map is not cleared.
LoadOver(x) ==
  /\ Running /\ load[x].pc = "clear"
  /\ load' = [load EXCEPT ![x].pc = IF NoIds THEN "scan" ELSE "pick"]
  /\ UNCHANGED <<kernel, device, threads, upc, ids, settings, listening, mixed, phase>>

LoadClear(x) ==
  /\ Running /\ load[x].pc = "clear"
  /\ settings' = MapOf(<<>>)
  /\ load' = [load EXCEPT ![x].pc = IF NoIds THEN "scan" ELSE "pick"]
  /\ UNCHANGED <<kernel, device, threads, upc, ids, listening, mixed, phase>>

\* get_hwids_by_path: a device without a USB parent has no ids, and strtoul is
\* called on a null pointer.
LoadScan(x) ==
  /\ Running /\ load[x].pc = "scan"
  /\ ids' = <<0, 0>>
  /\ IF device = Nobody \/ device.usb
       THEN load' = [load EXCEPT ![x].pc = "ids", ![x].found = device.ids] /\ UNCHANGED phase
       ELSE phase' = "dead" /\ UNCHANGED load
  /\ UNCHANGED <<kernel, device, threads, upc, settings, listening, mixed>>

LoadIds(x) ==
  /\ Running /\ load[x].pc = "ids"
  /\ ids' = IF load[x].found # <<0, 0>> THEN load[x].found ELSE ids
  /\ load' = [load EXCEPT ![x].pc = "pick", ![x].found = <<0, 0>>]
  /\ UNCHANGED <<kernel, device, threads, upc, settings, listening, mixed, phase>>

LoadPick(x) ==
  /\ Running /\ load[x].pc = "pick"
  /\ load' = [load EXCEPT ![x].pc = "fill", ![x].section = SectionOf(Sections, Default, ids)]
  /\ UNCHANGED <<kernel, device, threads, upc, ids, settings, listening, mixed, phase>>

\* Two threads inserting into one map may also break it.
LoadFill(x) ==
  /\ Running /\ load[x].pc = "fill"
  /\ \/ /\ settings' = Inserted(settings, load[x].section)
        /\ load' = [load EXCEPT ![x] = Idle]
        /\ upc' = IF x = "udev" THEN "select" ELSE upc
        /\ listening' = (listening \/ x = "main")
        /\ UNCHANGED phase
     \/ /\ \E y \in Loaders \ {x} : load[y].pc = "fill"
        /\ phase' = "dead"
        /\ UNCHANGED <<settings, load, upc, listening>>
  /\ UNCHANGED <<kernel, device, threads, ids, mixed>>

\* joystick::listen, once, in the player's constructor
Listen ==
  /\ Running /\ ~listening /\ load["main"].pc = "idle"
  /\ load' = [load EXCEPT !["main"].pc = "clear"]
  /\ mixed' = (mixed \/ upc # "select")
  /\ UNCHANGED <<kernel, device, threads, upc, ids, settings, listening, phase>>

-----------------------------------------------------------------------------
(* The udev thread: process_udev, js_plug, reconnect *)

\* The old device's events are gone with its descriptor; buttons that are down
\* when the new one is opened are reported as such, in events nobody looks at.
Plug(d) ==
  /\ Running /\ upc = "select"
  /\ device' = d
  /\ queue' = <<>>
  /\ held' \in [Buttons -> {"up", "before"}]
  /\ age' = [b \in Buttons |-> 0]
  /\ upc' = "opened"
  /\ mixed' = (mixed \/ load["main"].pc # "idle")
  /\ UNCHANGED <<clock, threads, config, listening, phase>>

\* Mutant: the monitor is not told to end.
StopNothing ==
  /\ Running /\ upc = "opened" /\ is_monitoring
  /\ upc' = "joining"
  /\ UNCHANGED <<kernel, device, threads, config, listening, mixed, phase>>

StopMonitor ==
  /\ Running /\ upc = "opened" /\ is_monitoring
  /\ is_monitoring' = FALSE
  /\ upc' = "joining"
  /\ UNCHANGED <<kernel, device, cur, mon, joystick_event, config, listening, mixed, phase>>

\* Mutant: the old thread is not waited for.
StartWithoutJoin ==
  /\ Running /\ upc = "joining"
  /\ mon[3 - cur].pc = "ended"
  /\ is_monitoring' = TRUE
  /\ cur' = 3 - cur
  /\ mon' = [mon EXCEPT ![3 - cur] = Fresh]
  /\ upc' = "compare"
  /\ UNCHANGED <<kernel, device, joystick_event, config, listening, mixed, phase>>

StartMonitor ==
  /\ Running /\ upc = "joining"
  /\ mon[cur].pc = "ended"                  \* m_thread.join()
  /\ is_monitoring' = TRUE
  /\ cur' = 3 - cur
  /\ mon' = [mon EXCEPT ![3 - cur] = Fresh]
  /\ upc' = "compare"
  /\ UNCHANGED <<kernel, device, joystick_event, config, listening, mixed, phase>>

\* Both ids must differ for the map to be loaded again.  A device without a USB
\* parent, or gone in the meantime, ends the process.
CompareIds ==
  /\ Running /\ upc = "compare"
  /\ IF ~device.usb
       THEN phase' = "dead" /\ UNCHANGED <<ids, upc, load>>
       ELSE /\ UNCHANGED phase
            /\ IF device.ids[1] # ids[1] /\ device.ids[2] # ids[2]
                 THEN /\ ids' = device.ids
                      /\ upc' = "load" /\ load' = [load EXCEPT !["udev"].pc = "clear"]
                 ELSE upc' = "select" /\ UNCHANGED <<ids, load>>
  /\ UNCHANGED <<kernel, device, threads, settings, listening, mixed>>

-----------------------------------------------------------------------------
Init ==
  /\ clock \in 0..(Wrap - 1)
  /\ device \in Devices \cup {Nobody}
  /\ held = [b \in Buttons |-> "up"] /\ age = [b \in Buttons |-> 0]
  /\ queue = <<>>
  /\ is_monitoring = TRUE
  /\ cur = 1 /\ mon = [m \in Slots |-> IF m = 1 THEN Fresh ELSE Ended]
  /\ upc = "select"
  /\ ids = <<0, 0>> /\ settings = MapOf(<<>>)
  /\ load = [x \in Loaders |-> Idle]
  /\ joystick_event = "noop"
  /\ listening = FALSE /\ mixed = FALSE
  /\ phase = "run"

User ==
  \/ Tick \/ Unplug
  \/ \E b \in Buttons : PressButton(b) \/ ReleaseButton(b)
  \/ \E n \in Axes : MoveAxis(n)

Monitor(m) == MonTest(m) \/ MonRead(m) \/ MonLookup(m) \/ MonCall(m) \/ MonCaught(m)
LoadConfig(x) == LoadClear(x) \/ LoadScan(x) \/ LoadIds(x) \/ LoadPick(x) \/ LoadFill(x)
Replug == StopMonitor \/ StartMonitor \/ CompareIds

Next ==
  \/ User
  \/ \E m \in Slots : Monitor(m)
  \/ Listen \/ \E x \in Loaders : LoadConfig(x)
  \/ \E d \in Devices : Plug(d)
  \/ Replug

\* Threads that can run are scheduled, and the handler may be caught or return;
\* nobody needs to touch the device.
Spec ==
  /\ Init /\ [][Next]_vars
  /\ \A m \in Slots : WF_vars(Monitor(m))
  /\ \A x \in Loaders : WF_vars(LoadConfig(x))
  /\ WF_vars(Replug)

-----------------------------------------------------------------------------
(* Properties *)

\* No event now, none yet, or an action of the file
Happenings == {NoEvent, "noop"} \cup STRING

TypeOK ==
  /\ clock \in 0..(Wrap - 1)
  /\ device \in Devices \cup {Nobody}
  /\ held \in [Buttons -> {"up", "down", "before"}] /\ age \in [Buttons -> 0..Wrap]
  /\ queue \in Seq([type : {"press", "release", "plus", "minus"}, button : Buttons \cup Axes,
                    time : 0..(Wrap - 1), age : 0..Wrap, here : BOOLEAN])
  /\ is_monitoring \in BOOLEAN
  /\ cur \in Slots
  /\ mon \in [Slots -> [pc : {"test", "read", "lookup", "call", "caught", "ended"}, key : Nat, event : Happenings,
                        p : [Buttons -> BOOLEAN], time : [Buttons -> 0..(Wrap - 1)]]]
  /\ upc \in {"select", "opened", "joining", "compare", "load"}
  /\ ids \in Nat \X Nat
  /\ \A k \in DOMAIN settings : k \in Nat /\ settings[k] \in STRING
  /\ load \in [Loaders -> [pc : {"idle", "clear", "scan", "ids", "pick", "fill"},
                           found : Nat \X Nat, section : Entries]]
  /\ joystick_event \in Happenings
  /\ listening \in BOOLEAN /\ mixed \in BOOLEAN
  /\ phase \in {"run", "dead"}

\* A release that ends a press this monitor has read is taken for what the press
\* really lasted, across a wrap-around of the clock, unless it lasted a whole
\* round of it (joystick.cpp:156-165).
PressesMeanWhatTheyLast ==
  [][\A m \in Slots :
       LET e == Head(queue) IN
       /\ mon[m].pc = "read" /\ mon'[m].pc # "read" /\ queue # <<>>
       /\ e.type = "release" /\ e.here /\ e.age < Wrap /\ mon[m].p[e.button]
       => IF Kind(e.age) = Nothing THEN mon'[m].pc = "test"
          ELSE mon'[m].pc = "lookup" /\ mon'[m].key = e.button + Kind(e.age)]_vars

\* A release counts only when the press before it was made on the same device:
\* a button down while the device is opened does nothing when it comes up, but in
\* the moment the old monitor still runs with the new descriptor.
NoPressNoEvent ==
  [][\A m \in Slots :
       LET e == Head(queue) IN
       /\ mon[m].pc = "read" /\ queue # <<>> /\ e.type = "release" /\ ~e.here
       /\ upc \notin {"opened", "joining"}
       => mon'[m].pc # "lookup"]_vars

\* While a monitor calls the handler, get_event (joystick.cpp:127) returns the
\* event that monitor set: no two monitors run at once.
HandlerSeesItsEvent ==
  \A m \in Slots : mon[m].pc = "call" => joystick_event = mon[m].event

Settled == listening /\ ~mixed /\ upc = "select"

\* Once listen has returned, and unless it overlapped a plug, the map is the whole
\* section of the ids last seen, and these share the vendor or the product with
\* the device plugged in (joystick.cpp:77, 214-259).
MapIsOfDevice ==
  Settled =>
    /\ settings = MapOf(SectionOf(Sections, Default, ids))
    /\ device # Nobody /\ device.usb /\ ~NoIds => device.ids[1] = ids[1] \/ device.ids[2] = ids[2]

\* With the map settled the only thing that ends the process is a button or an
\* axis the file does not name.
DiesOnlyOfUnmapped ==
  [][phase = "run" /\ phase' = "dead" /\ Settled =>
       \E m \in Slots : /\ mon[m].pc = "lookup"
                        /\ mon[m].key \notin DOMAIN MapOf(SectionOf(Sections, Default, ids))]_vars

\* A plug is dealt with: the old monitor ends, a new one starts, and the udev
\* thread listens again, unless the old one is caught in an operation it called.
ReplugEnds == upc = "opened" ~> upc = "select" \/ phase = "dead" \/ mon[cur].pc = "caught"

=============================================================================
