--------------------------- MODULE JoystickProofs ---------------------------
(***************************************************************************)
(* What module Joystick promises, for any clock, any thresholds of a       *)
(* press, any devices and any file of button maps.                         *)
(***************************************************************************)
EXTENDS Joystick, SequenceTheorems, WellFoundedInduction, TLAPS

Times == 0..(Wrap - 1)
States == [pc : {"test", "read", "lookup", "call", "caught", "ended"}, key : Nat, event : Happenings,
           p : [Buttons -> BOOLEAN], time : [Buttons -> Times]]
Events == [type : {"press", "release", "plus", "minus"}, button : Buttons \cup Axes,
           time : Times, age : 0..Wrap, here : BOOLEAN]
Loads == [pc : {"idle", "clear", "scan", "ids", "pick", "fill"}, found : Nat \X Nat, section : Entries]

ButtonsInv ==
  \A i \in DOMAIN queue : queue[i].type \in {"press", "release"} => queue[i].button \in Buttons

\* One monitor runs, and while it calls the handler the event is the one it set.
MonInv ==
  /\ \A m \in Slots : m # cur => mon[m].pc = "ended"
  /\ mon[cur].pc = "call" => joystick_event = mon[cur].event

-----------------------------------------------------------------------------
(* The presses *)

\* `a` ticks, less than a round of the clock, lie between two times.
Since(then, a, now) == then + a = now \/ then + a = now + Wrap

PressAt(q, k, b) == k \in DOMAIN q /\ q[k].type = "press" /\ q[k].button = b
NoPress(q, i, b) == \A k \in 1..(i - 1) : ~PressAt(q, k, b)
LastPress(q, j, i, b) ==
  j \in 1..(i - 1) /\ PressAt(q, j, b) /\ \A k \in (j + 1)..(i - 1) : ~PressAt(q, k, b)

\* The press of b before event number i of queue q, which the queue or monitor s
\* holds, was a ticks before now.
Known(q, s, i, b, a, now) ==
  /\ \A j \in DOMAIN q : LastPress(q, j, i, b) => Since(q[j].time, a, now)
  /\ NoPress(q, i, b) /\ s.p[b] => Since(s.time[b], a, now)

\* Every release of this device is stamped with its press's time and how long that
\* lasted, and so will be the release of a button that is down.
PressInv ==
  /\ \A i \in DOMAIN queue :
       queue[i].type = "release" /\ queue[i].here /\ queue[i].age < Wrap
       => Known(queue, mon[cur], i, queue[i].button, queue[i].age, queue[i].time)
  /\ \A b \in Buttons :
       held[b] = "down" /\ age[b] < Wrap => Known(queue, mon[cur], Len(queue) + 1, b, age[b], clock)

\* No press precedes the release of a button that was down when the device was
\* opened, and the monitor that was started for the device knows of none.
BeforeInv ==
  /\ \A b \in Buttons : held[b] = "before" => NoPress(queue, Len(queue) + 1, b)
  /\ \A i \in DOMAIN queue :
       queue[i].type = "release" /\ ~queue[i].here => NoPress(queue, i, queue[i].button)
  /\ upc \notin {"opened", "joining"} =>
       /\ \A b \in Buttons : held[b] = "before" => ~mon[cur].p[b]
       /\ \A i \in DOMAIN queue :
            queue[i].type = "release" /\ ~queue[i].here => ~mon[cur].p[queue[i].button]

-----------------------------------------------------------------------------
(* The button map *)

LoadsInv ==
  /\ upc = "load" <=> load["udev"].pc # "idle"
  /\ listening => load["main"].pc = "idle"
  /\ ~mixed => upc = "select" \/ load["main"].pc = "idle"

Section == SectionOf(Sections, Default, ids)

\* As long as the two loads do not overlap, the map is empty until it is filled
\* with the section of the ids, and stays that.
FilledInv ==
  ~mixed =>
    /\ \A x \in Loaders : load[x].pc \in {"scan", "ids", "pick", "fill"} => settings = MapOf(<<>>)
    /\ \A x \in Loaders : load[x].pc = "fill" => load[x].section = Section
    /\ listening /\ upc # "load" => settings = MapOf(Section)

Sharing == device.ids[1] = ids[1] \/ device.ids[2] = ids[2]

\* The ids are those of the device, or share one with it, unless there are none.
IdsInv ==
  ~mixed =>
    /\ upc = "select" /\ device # Nobody /\ device.usb /\ ~NoIds => Sharing
    /\ upc = "load" =>
         /\ ids \in (Nat \ {0}) \X (Nat \ {0}) /\ load["udev"].pc \in {"clear", "pick", "fill"}
         /\ device # Nobody => ids = device.ids
    /\ load["main"].pc = "ids" /\ device # Nobody => load["main"].found = device.ids

MapInv == LoadsInv /\ FilledInv /\ IdsInv

IInv == TypeOK /\ ButtonsInv /\ MonInv /\ PressInv /\ BeforeInv /\ MapInv

-----------------------------------------------------------------------------
(* Facts about the data *)

\* What the proofs use of the assumption on the constants, apart.
LEMMA Numbers ==
  /\ Wrap \in Nat /\ Wrap > 0 /\ 0 \in Times
  /\ Buttons \subseteq Nat /\ Axes \subseteq Nat
<1>1. Wrap \in Nat /\ MaxPressed \in Nat /\ MaxPressed < Wrap
  BY JoystickAssumption
<1>2. Buttons \subseteq 0..23 /\ Axes \subseteq 0..23
  BY JoystickAssumption
<1> QED
  BY <1>1, <1>2 DEF Times

\* A set of positions that is not empty has a first one.
LEMMA FirstPosition ==
  ASSUME NEW S \in SUBSET Nat, S # {}
  PROVE  \E i \in S : \A j \in S : i <= j
<1> DEFINE Less == {ss \in Nat \X Nat : ss[1] < ss[2]}
<1>1. IsWellFoundedOn(Less, Nat)
  BY NatLessThanWellFounded DEF OpToRel
<1>2. PICK i \in S : \A j \in S : <<j, i>> \notin Less
  <2> HIDE DEF Less
  <2> QED BY <1>1, WFMin
<1>3. \A j \in S : ~(j < i)
  BY <1>2
<1> QED BY <1>3

\* A list of entries is read into a map from numbers to names.
LEMMA MapOfType ==
  ASSUME NEW l \in Entries
  PROVE  \A k \in DOMAIN MapOf(l) : k \in Nat /\ MapOf(l)[k] \in STRING
<1> SUFFICES ASSUME NEW k \in {l[i].key : i \in DOMAIN l} PROVE k \in Nat /\ MapOf(l)[k] \in STRING
  BY DEF MapOf
<1> DEFINE S == {i \in DOMAIN l : l[i].key = k}
           First(i) == l[i].key = k /\ \A j \in 1..(i - 1) : l[j].key # k
           c == CHOOSE i \in DOMAIN l : First(i)
<1>1. l \in Seq([key : Nat, action : STRING])
  BY DEF Entries
<1>2. S # {} /\ S \in SUBSET Nat
  BY <1>1
<1>3. PICK i \in S : \A j \in S : i <= j
  BY <1>2, FirstPosition
<1>4. i \in DOMAIN l /\ First(i)
  BY <1>1, <1>3
<1>5. c \in DOMAIN l
  BY <1>4
<1>6. MapOf(l)[k] = l[c].action
  BY DEF MapOf
<1> HIDE DEF c
<1>7. c \in 1..Len(l) /\ i \in 1..Len(l)
  BY <1>1, <1>4, <1>5
<1>8. l[c] \in [key : Nat, action : STRING] /\ l[i] \in [key : Nat, action : STRING]
  BY <1>1, <1>7, ElementOfSeq
<1> QED
  BY <1>4, <1>6, <1>8

\* Entries are inserted into a map as they would be into an empty one.
LEMMA InsertedType ==
  ASSUME NEW f, NEW l \in Entries, \A k \in DOMAIN f : k \in Nat /\ f[k] \in STRING
  PROVE  \A k \in DOMAIN Inserted(f, l) : k \in Nat /\ Inserted(f, l)[k] \in STRING
BY MapOfType DEF Inserted

\* And into an empty one they give the map of the list.
LEMMA InsertedEmpty ==
  ASSUME NEW l
  PROVE  Inserted(MapOf(<<>>), l) = MapOf(l)
<1>1. DOMAIN MapOf(<<>>) = {}
  BY DEF MapOf
<1>2. Inserted(MapOf(<<>>), l) = [k \in DOMAIN MapOf(l) |-> MapOf(l)[k]]
  BY <1>1 DEF Inserted
<1>3. MapOf(l) = [k \in DOMAIN MapOf(l) |-> MapOf(l)[k]]
  BY DEF MapOf
<1> QED
  BY <1>2, <1>3

\* Whatever the ids, a section is a list of entries.
LEMMA SectionType ==
  ASSUME NEW i
  PROVE  SectionOf(Sections, Default, i) \in Entries
BY JoystickAssumption DEF SectionOf

\* The clock stays on its dial, and a tick is a tick across the wrap-around.
LEMMA ClockTicks ==
  ASSUME NEW c \in Times
  PROVE  /\ (c + 1) % Wrap \in Times
         /\ \A then \in Times, a \in Nat :
              a + 1 < Wrap /\ Since(then, a, c) => Since(then, a + 1, (c + 1) % Wrap)
<1>1. Wrap \in Nat /\ Wrap > 0
  BY JoystickAssumption
<1>2. (c + 1) % Wrap = IF c + 1 = Wrap THEN 0 ELSE c + 1
  BY <1>1 DEF Times
<1> QED
  BY <1>1, <1>2 DEF Times, Since

\* The difference of two stamps is what lies between them.
LEMMA ElapsedIsAge ==
  ASSUME NEW then \in Times, NEW now \in Times, NEW a \in Nat, a < Wrap, Since(then, a, now)
  PROVE  Elapsed(now, then) = a
BY JoystickAssumption DEF Times, Since, Elapsed

\* What a monitor makes of an event is a state of a monitor; a button it takes for
\* pressed was pressed before, or is by this event.
LEMMA HandledType ==
  ASSUME NEW s \in States, NEW e \in Events,
         e.type \in {"press", "release"} => e.button \in Buttons
  PROVE  /\ Handled(s, e) \in States
         /\ Handled(s, e).pc \in {"test", "lookup"}
         /\ \A b \in Buttons :
              Handled(s, e).p[b] =>
                IF e.type = "press" /\ e.button = b THEN Handled(s, e).time[b] = e.time
                ELSE s.p[b] /\ Handled(s, e).time[b] = s.time[b]
<1> DEFINE b == e.button
           k == Kind(Elapsed(e.time, s.time[b]))
           r == [s EXCEPT !.p[b] = FALSE, !.time[b] = 0]
<1>1. b \in Nat /\ 0 \in Times
  <2>1. b \in Buttons \cup Axes
    BY DEF Events
  <2> QED
    BY <2>1, Numbers
<1>2. b + 200 \in Nat /\ b + 300 \in Nat /\ (k = Nothing \/ b + k \in Nat)
  BY <1>1 DEF Kind, Nothing
<1>3. \A n \in Nat : Lookup(s, n) \in States
  BY DEF Lookup, States
<1>4. CASE e.type = "press"
  BY <1>4 DEF Handled, States, Events
<1>5. CASE e.type = "release" /\ ~s.p[b]
  BY <1>5 DEF Handled, States, Events
<1>6. CASE e.type = "release" /\ s.p[b]
  <2>1. r \in States /\ \A c \in Buttons : r.p[c] => s.p[c] /\ r.time[c] = s.time[c]
    BY <1>1, <1>6 DEF States
  <2>2. [r EXCEPT !.pc = "test"] \in States /\ \A n \in Nat : Lookup(r, n) \in States
    BY <2>1 DEF Lookup, States
  <2>3. Handled(s, e) = IF k = Nothing THEN [r EXCEPT !.pc = "test"] ELSE Lookup(r, b + k)
    BY <1>6 DEF Handled
  <2> HIDE DEF k, r
  <2>4. Handled(s, e) \in States
    BY <1>2, <2>2, <2>3
  <2>5. Handled(s, e).pc \in {"test", "lookup"} /\ Handled(s, e).p = r.p /\ Handled(s, e).time = r.time
    BY <2>1, <2>3 DEF Lookup, States
  <2> QED
    BY <1>6, <2>1, <2>4, <2>5
<1>7. CASE e.type \in {"plus", "minus"}
  <2>1. PICK n \in Nat : Handled(s, e) = Lookup(s, n)
    BY <1>2, <1>7 DEF Handled
  <2>2. Lookup(s, n).pc = "lookup" /\ Lookup(s, n).p = s.p /\ Lookup(s, n).time = s.time
    BY DEF Lookup, States
  <2> QED
    BY <1>3, <1>7, <2>1, <2>2
<1> QED
  BY <1>4, <1>5, <1>6, <1>7 DEF Events

-----------------------------------------------------------------------------
(* Types *)

KernelTypes ==
  /\ clock \in Times
  /\ device \in Devices \cup {Nobody}
  /\ held \in [Buttons -> {"up", "down", "before"}]
  /\ age \in [Buttons -> 0..Wrap]
  /\ queue \in Seq(Events)
  /\ ButtonsInv

ThreadTypes ==
  /\ is_monitoring \in BOOLEAN
  /\ cur \in Slots
  /\ mon \in [Slots -> States]
  /\ upc \in {"select", "opened", "joining", "compare", "load"}
  /\ joystick_event \in Happenings

ConfigTypes ==
  /\ ids \in Nat \X Nat
  /\ \A k \in DOMAIN settings : k \in Nat /\ settings[k] \in STRING
  /\ load \in [Loaders -> Loads]
  /\ listening \in BOOLEAN /\ mixed \in BOOLEAN
  /\ phase \in {"run", "dead"}

Types == KernelTypes /\ ThreadTypes /\ ConfigTypes

\* The parts add up to the types.
LEMMA TypesAre ==
  /\ TypeOK /\ ButtonsInv <=> Types
  /\ TypeOK' /\ ButtonsInv' <=> Types'
BY DEF TypeOK, Types, KernelTypes, ThreadTypes, ConfigTypes, Times, Events, States, Loads

\* The steps the device takes, and those it does not.
Kernel ==
  \/ Tick \/ Unplug
  \/ \E b \in Buttons : PressButton(b) \/ ReleaseButton(b)
  \/ \E n \in Axes : MoveAxis(n)
  \/ \E d \in Devices : Plug(d)
  \/ \E m \in Slots : MonRead(m)

\* The other steps leave the device and its events alone.
LEMMA OthersLeaveTheDevice ==
  ASSUME [Next]_vars, ~Kernel
  PROVE  UNCHANGED <<kernel, device>>
BY DEF Next, vars, Kernel, User, Monitor, MonTest, MonLookup, MonCall, MonCaught, Listen, LoadConfig, LoadClear,
       LoadScan, LoadIds, LoadPick, LoadFill, Replug, StopMonitor, StartMonitor, CompareIds, kernel

\* An event is added behind the others, which keep their places.
LEMMA Sent ==
  ASSUME Types, NEW e \in Events, queue' = Append(queue, e)
  PROVE  /\ queue' \in Seq(Events)
         /\ Len(queue) \in Nat /\ Len(queue') = Len(queue) + 1
         /\ DOMAIN queue = 1..Len(queue) /\ DOMAIN queue' = 1..(Len(queue) + 1)
         /\ \A i \in 1..Len(queue) : queue'[i] = queue[i]
         /\ queue'[Len(queue) + 1] = e
<1>1. queue \in Seq(Events)
  BY DEF Types, KernelTypes
<1> QED
  BY <1>1, AppendProperties

\* The first event is taken, and the others move up by one.
LEMMA Taken ==
  ASSUME Types, queue # <<>>, queue' = Tail(queue)
  PROVE  /\ Head(queue) = queue[1] /\ Head(queue) \in Events /\ 1 \in DOMAIN queue
         /\ queue' \in Seq(Events)
         /\ Len(queue) \in Nat /\ Len(queue) > 0 /\ Len(queue') = Len(queue) - 1
         /\ DOMAIN queue = 1..Len(queue) /\ DOMAIN queue' = 1..(Len(queue) - 1)
         /\ \A i \in 1..(Len(queue) - 1) : queue'[i] = queue[i + 1]
<1>1. queue \in Seq(Events)
  BY DEF Types, KernelTypes
<1>2. Len(queue) \in Nat /\ Len(queue) > 0
  BY <1>1, EmptySeq
<1>3. queue[1] \in Events
  BY <1>1, <1>2, ElementOfSeq
<1> QED
  BY <1>1, <1>2, <1>3, HeadTailProperties

\* The device, the clock and the events keep their types.
LEMMA KernelTypesKept ==
  ASSUME Types, [Next]_vars
  PROVE  KernelTypes'
<1> USE DEF Types, KernelTypes
<1>1. CASE Tick
  <2>1. clock' \in Times
    BY <1>1, ClockTicks DEF Tick
  <2>2. \A b \in Buttons : (IF held[b] # "up" /\ age[b] < Wrap THEN age[b] + 1 ELSE age[b]) \in 0..Wrap
    BY Numbers
  <2>3. age' \in [Buttons -> 0..Wrap]
    BY <1>1, <2>2 DEF Tick
  <2> QED
    BY <1>1, <2>1, <2>3 DEF Tick, ButtonsInv
<1>2. ASSUME NEW b \in Buttons, PressButton(b)
      PROVE  KernelTypes'
  <2> DEFINE e == Event("press", b, clock, 0, TRUE)
  <2>1. e \in Events /\ e.button \in Buttons
    BY Numbers DEF Event, Events
  <2>2. queue' = Append(queue, e)
    BY <1>2 DEF PressButton, Sends
  <2> HIDE DEF e
  <2>3. queue' \in Seq(Events) /\ ButtonsInv'
    BY <2>1, <2>2, Sent DEF ButtonsInv
  <2>4. age' \in [Buttons -> 0..Wrap]
    BY <1>2, Numbers DEF PressButton
  <2> QED
    BY <1>2, <2>3, <2>4 DEF PressButton, Sends
<1>3. ASSUME NEW b \in Buttons, ReleaseButton(b)
      PROVE  KernelTypes'
  <2> DEFINE e == Event("release", b, clock, age[b], held[b] = "down")
  <2>1. e \in Events /\ e.button \in Buttons
    BY DEF Event, Events
  <2>2. queue' = Append(queue, e)
    BY <1>3 DEF ReleaseButton, Sends
  <2> HIDE DEF e
  <2>3. queue' \in Seq(Events) /\ ButtonsInv'
    BY <2>1, <2>2, Sent DEF ButtonsInv
  <2>4. age' \in [Buttons -> 0..Wrap]
    BY <1>3, Numbers DEF ReleaseButton
  <2> QED
    BY <1>3, <2>3, <2>4 DEF ReleaseButton, Sends
<1>4. ASSUME NEW n \in Axes, MoveAxis(n)
      PROVE  KernelTypes'
  <2>1. PICK dir \in {"plus", "minus"} : Sends(Event(dir, n, 0, 0, TRUE))
    BY <1>4 DEF MoveAxis
  <2> DEFINE e == Event(dir, n, 0, 0, TRUE)
  <2>2. e \in Events /\ e.type \notin {"press", "release"}
    BY Numbers DEF Event, Events
  <2>3. queue' = Append(queue, e)
    BY <2>1 DEF Sends
  <2> HIDE DEF e
  <2>4. queue' \in Seq(Events) /\ ButtonsInv'
    BY <2>2, <2>3, Sent DEF ButtonsInv
  <2> QED
    BY <1>4, <2>1, <2>4 DEF MoveAxis, Sends
<1>5. CASE Unplug \/ \E d \in Devices : Plug(d)
  <2>1. queue' = <<>> /\ device' \in Devices \cup {Nobody} /\ clock' = clock
    BY <1>5 DEF Unplug, Plug
  <2>2. age' \in [Buttons -> 0..Wrap] /\ held' \in [Buttons -> {"up", "down", "before"}]
    BY <1>5, Numbers DEF Unplug, Plug
  <2> QED
    BY <2>1, <2>2 DEF ButtonsInv
<1>6. ASSUME NEW m \in Slots, MonRead(m)
      PROVE  KernelTypes'
  <2>1. CASE queue' = queue
    BY <1>6, <2>1 DEF MonRead, ButtonsInv
  <2>2. CASE queue # <<>> /\ queue' = Tail(queue)
    BY <1>6, <2>2, Taken DEF MonRead, ButtonsInv
  <2> QED
    BY <1>6, <2>1, <2>2 DEF MonRead
<1>7. CASE ~Kernel
  BY <1>7, OthersLeaveTheDevice DEF kernel, ButtonsInv
<1> QED
  BY <1>1, <1>2, <1>3, <1>4, <1>5, <1>6, <1>7 DEF Kernel

\* The steps that change what the threads are doing.
Threading ==
  \/ \E m \in Slots : Monitor(m)
  \/ \E x \in Loaders : LoadFill(x)
  \/ \E d \in Devices : Plug(d)
  \/ Replug

\* The other steps leave the threads alone.
LEMMA OthersLeaveTheThreads ==
  ASSUME [Next]_vars, ~Threading
  PROVE  UNCHANGED <<threads, upc>>
BY DEF Next, vars, Threading, User, Tick, Unplug, PressButton, ReleaseButton, MoveAxis, Sends, Listen,
       LoadConfig, LoadClear, LoadScan, LoadIds, LoadPick, threads

\* The threads keep theirs.
LEMMA ThreadTypesKept ==
  ASSUME Types, [Next]_vars
  PROVE  ThreadTypes'
<1> USE DEF Types, ThreadTypes
<1>9. NoEvent \in Happenings /\ STRING \subseteq Happenings
  BY DEF Happenings
<1>0. Fresh \in States /\ Ended \in States
  <2>1. Fresh \in States
    BY <1>9, Numbers DEF Fresh, States
  <2> QED
    BY <2>1 DEF Ended, States
<1>1. ASSUME NEW m \in Slots, MonTest(m)
      PROVE  ThreadTypes'
  <2>1. mon[m] \in States /\ [mon[m] EXCEPT !.pc = "read"] \in States
    BY DEF States
  <2> QED
    BY <1>0, <1>1, <2>1 DEF MonTest
<1>2. ASSUME NEW m \in Slots, MonRead(m)
      PROVE  ThreadTypes'
  <2>1. mon[m] \in States /\ [mon[m] EXCEPT !.pc = "test"] \in States
    BY DEF States
  <2>2. CASE mon' = [mon EXCEPT ![m].pc = "test"]
    BY <1>2, <2>1, <2>2 DEF MonRead
  <2>3. CASE queue # <<>> /\ queue' = Tail(queue) /\ mon' = [mon EXCEPT ![m] = Handled(@, Head(queue))]
    <3>1. Head(queue) \in Events /\ 1 \in DOMAIN queue /\ Head(queue) = queue[1]
      BY <2>3, Taken
    <3>2. Handled(mon[m], Head(queue)) \in States
      BY <2>1, <3>1, HandledType DEF KernelTypes, ButtonsInv
    <3> QED
      BY <1>2, <2>3, <3>2 DEF MonRead
  <2> QED
    BY <1>2, <2>2, <2>3 DEF MonRead
<1>3. ASSUME NEW m \in Slots, MonLookup(m)
      PROVE  ThreadTypes'
  <2>1. CASE UNCHANGED <<joystick_event, mon>>
    BY <1>3, <2>1 DEF MonLookup
  <2>2. ASSUME NEW a \in STRING, joystick_event' = a,
               mon' = [mon EXCEPT ![m].pc = "call", ![m].event = a, ![m].key = 0]
        PROVE  ThreadTypes'
    <3>1. mon[m] \in States /\ a \in Happenings
      BY <1>9
    <3>2. [mon[m] EXCEPT !.pc = "call", !.event = a, !.key = 0] \in States
      BY <3>1 DEF States
    <3>3. mon' \in [Slots -> States] /\ joystick_event' \in Happenings
      BY <2>2, <3>1, <3>2
    <3>4. UNCHANGED <<is_monitoring, cur, upc>>
      BY <1>3 DEF MonLookup
    <3> QED
      BY <3>3, <3>4
  <2>3. \A i \in DOMAIN Default : Default[i].action \in STRING
    <3>1. Default \in Seq([key : Nat, action : STRING])
      BY JoystickAssumption DEF Entries
    <3>2. \A i \in DOMAIN Default : Default[i] \in [key : Nat, action : STRING]
      BY <3>1, ElementOfSeq, LenProperties
    <3> QED
      BY <3>2
  <2>4. \A k \in DOMAIN settings : settings[k] \in STRING
    BY DEF ConfigTypes
  <2>5. CASE ~UNCHANGED <<joystick_event, mon>>
    <3>1. PICK a \in {Default[i].action : i \in DOMAIN Default} \cup {settings[k] : k \in DOMAIN settings} :
                 /\ joystick_event' = a
                 /\ mon' = [mon EXCEPT ![m].pc = "call", ![m].event = a, ![m].key = 0]
      <4>1. {a \in {Default[i].action : i \in DOMAIN Default} : Loading}
              \subseteq {Default[i].action : i \in DOMAIN Default}
        OBVIOUS
      <4>2. {settings[k] : k \in DOMAIN settings \cap {mon[m].key}} \subseteq {settings[k] : k \in DOMAIN settings}
        OBVIOUS
      <4>3. PICK a \in {c \in {Default[i].action : i \in DOMAIN Default} : Loading}
                         \cup {settings[k] : k \in DOMAIN settings \cap {mon[m].key}} :
                   /\ joystick_event' = a
                   /\ mon' = [mon EXCEPT ![m].pc = "call", ![m].event = a, ![m].key = 0]
        BY <1>3, <2>5 DEF MonLookup
      <4> QED
        BY <4>1, <4>2, <4>3
    <3>2. a \in STRING
      BY <2>3, <2>4
    <3> QED
      BY <2>2, <3>1, <3>2
  <2> QED
    BY <2>1, <2>5
<1>4. ASSUME NEW m \in Slots, MonCall(m) \/ MonCaught(m)
      PROVE  ThreadTypes'
  <2>1. mon[m] \in States
    OBVIOUS
  <2>2. [mon[m] EXCEPT !.pc = "test", !.event = NoEvent] \in States
    BY <1>9, <2>1 DEF States
  <2>3. [mon[m] EXCEPT !.pc = "caught"] \in States
    BY <2>1 DEF States
  <2> QED
    BY <1>4, <2>2, <2>3 DEF MonCall, MonCaught
<1>5. CASE Replug
  <2>1. CASE StopMonitor \/ CompareIds
    BY <2>1 DEF StopMonitor, CompareIds, threads
  <2>2. CASE StartMonitor
    <3>1. 3 - cur \in Slots
      BY DEF Slots
    <3> QED
      BY <1>0, <2>2, <3>1 DEF StartMonitor
  <2> QED
    BY <1>5, <2>1, <2>2 DEF Replug
<1>6. CASE \E d \in Devices : Plug(d)
  BY <1>6 DEF Plug, threads
<1>7. CASE \E x \in Loaders : LoadFill(x)
  BY <1>7 DEF LoadFill, threads
<1>8. CASE ~Threading
  BY <1>8, OthersLeaveTheThreads DEF threads
<1> QED
  BY <1>1, <1>2, <1>3, <1>4, <1>5, <1>6, <1>7, <1>8 DEF Threading, Monitor

\* And so do the map and its loaders.
LEMMA ConfigTypesKept ==
  ASSUME Types, [Next]_vars
  PROVE  ConfigTypes'
<1> USE DEF Types, ConfigTypes
<1>0. Idle \in Loads /\ \A x \in Loaders : load[x] \in Loads
  <2>1. <<>> \in Entries
    BY EmptySeq DEF Entries
  <2> QED
    BY <2>1 DEF Idle, Loads
<1>1. ASSUME NEW x \in Loaders, LoadClear(x)
      PROVE  ConfigTypes'
  <2>1. \A c \in {"scan", "pick"} : [load[x] EXCEPT !.pc = c] \in Loads
    BY <1>0 DEF Loads
  <2>2. DOMAIN settings' = {}
    BY <1>1 DEF LoadClear, MapOf
  <2>3. PICK c \in {"scan", "pick"} : load' = [load EXCEPT ![x].pc = c]
    BY <1>1 DEF LoadClear
  <2>4. load' \in [Loaders -> Loads]
    BY <2>1, <2>3
  <2> QED
    BY <1>1, <2>2, <2>4 DEF LoadClear
<1>2. ASSUME NEW x \in Loaders, LoadScan(x)
      PROVE  ConfigTypes'
  <2>1. CASE UNCHANGED load
    BY <1>2, <2>1 DEF LoadScan
  <2>2. CASE load' = [load EXCEPT ![x].pc = "ids", ![x].found = device.ids] /\ UNCHANGED phase
    <3>1. device.ids \in Nat \X Nat
      <4>1. CASE device = Nobody
        BY <4>1 DEF Nobody
      <4>2. CASE device \in Devices
        <5>1. device \in [usb : BOOLEAN, ids : (Nat \ {0}) \X (Nat \ {0})]
          BY <4>2, JoystickAssumption
        <5> QED
          BY <5>1
      <4> QED
        BY <4>1, <4>2 DEF KernelTypes
    <3>2. [load[x] EXCEPT !.pc = "ids", !.found = device.ids] \in Loads
      BY <1>0, <3>1 DEF Loads
    <3>3. load' \in [Loaders -> Loads]
      BY <2>2, <3>2
    <3>4. ids' \in Nat \X Nat
      BY <1>2 DEF LoadScan
    <3> QED
      BY <1>2, <2>2, <3>3, <3>4 DEF LoadScan
  <2> QED
    BY <1>2, <2>1, <2>2 DEF LoadScan
<1>3. ASSUME NEW x \in Loaders, LoadIds(x)
      PROVE  ConfigTypes'
  <2>1. load[x].found \in Nat \X Nat
    BY <1>0 DEF Loads
  <2>2. [load[x] EXCEPT !.pc = "pick", !.found = <<0, 0>>] \in Loads
    BY <1>0 DEF Loads
  <2> QED
    BY <1>3, <2>1, <2>2 DEF LoadIds
<1>4. ASSUME NEW x \in Loaders, LoadPick(x)
      PROVE  ConfigTypes'
  <2>1. SectionOf(Sections, Default, ids) \in Entries
    BY SectionType
  <2>2. [load[x] EXCEPT !.pc = "fill", !.section = SectionOf(Sections, Default, ids)] \in Loads
    BY <1>0, <2>1 DEF Loads
  <2>3. load' \in [Loaders -> Loads]
    BY <1>4, <2>2 DEF LoadPick
  <2> QED
    BY <1>4, <2>3 DEF LoadPick
<1>5. ASSUME NEW x \in Loaders, LoadFill(x)
      PROVE  ConfigTypes'
  <2>1. CASE UNCHANGED <<settings, load, listening>>
    BY <1>5, <2>1 DEF LoadFill
  <2>2. CASE settings' = Inserted(settings, load[x].section) /\ load' = [load EXCEPT ![x] = Idle]
    <3>1. load[x].section \in Entries
      BY <1>0 DEF Loads
    <3>2. \A k \in DOMAIN settings' : k \in Nat /\ settings'[k] \in STRING
      BY <2>2, <3>1, InsertedType
    <3>3. load' \in [Loaders -> Loads]
      BY <1>0, <2>2
    <3> QED
      BY <1>5, <3>2, <3>3 DEF LoadFill
  <2> QED
    BY <1>5, <2>1, <2>2 DEF LoadFill
<1>6. CASE Listen
  <2>1. [load["main"] EXCEPT !.pc = "clear"] \in Loads
    BY <1>0 DEF Loads, Loaders
  <2>2. load' \in [Loaders -> Loads]
    BY <1>6, <2>1 DEF Listen, Loaders
  <2> QED
    BY <1>6, <2>2 DEF Listen
<1>7. CASE CompareIds
  <2>1. CASE UNCHANGED <<ids, load>>
    BY <1>7, <2>1 DEF CompareIds
  <2>2. CASE device.usb /\ ids' = device.ids /\ load' = [load EXCEPT !["udev"].pc = "clear"]
    <3>1. device \in [usb : BOOLEAN, ids : (Nat \ {0}) \X (Nat \ {0})]
      BY <2>2, JoystickAssumption DEF KernelTypes, Nobody
    <3>2. ids' \in Nat \X Nat
      BY <2>2, <3>1
    <3>3. [load["udev"] EXCEPT !.pc = "clear"] \in Loads
      BY <1>0 DEF Loads, Loaders
    <3>4. load' \in [Loaders -> Loads]
      BY <2>2, <3>3 DEF Loaders
    <3> QED
      BY <1>7, <3>2, <3>4 DEF CompareIds
  <2> QED
    BY <1>7, <2>1, <2>2 DEF CompareIds
<1>8. CASE \E d \in Devices : Plug(d)
  BY <1>8 DEF Plug, config
<1>9. CASE \E m \in Slots : Monitor(m)
  BY <1>9 DEF Monitor, MonTest, MonRead, MonLookup, MonCall, MonCaught, config
<1>10. CASE User \/ StopMonitor \/ StartMonitor \/ UNCHANGED vars
  BY <1>10 DEF User, Tick, Unplug, PressButton, ReleaseButton, MoveAxis, Sends, StopMonitor, StartMonitor,
               config, vars
<1> QED
  BY <1>1, <1>2, <1>3, <1>4, <1>5, <1>6, <1>7, <1>8, <1>9, <1>10 DEF Next, LoadConfig, Replug

-----------------------------------------------------------------------------
(* One monitor at a time *)

\* A plug starts a monitor in the slot of one that ended, and only the one that runs steps.
LEMMA MonInvKept ==
  ASSUME Types, MonInv, [Next]_vars
  PROVE  MonInv'
<1> USE DEF MonInv, Types, ThreadTypes
<1>1. ASSUME NEW m \in Slots, MonTest(m) \/ MonRead(m) \/ MonCall(m) \/ MonCaught(m)
      PROVE  MonInv'
  <2>1. m = cur /\ cur' = cur
    BY <1>1 DEF MonTest, MonRead, MonCall, MonCaught
  <2>2. mon'[cur].pc # "call" /\ \A n \in Slots : n # cur => mon'[n] = mon[n]
    <3>1. CASE MonTest(m)
      BY <2>1, <3>1 DEF MonTest, Ended, Fresh, States
    <3>2. CASE MonRead(m)
      <4>1. CASE mon' = [mon EXCEPT ![m].pc = "test"]
        BY <2>1, <4>1 DEF States
      <4>2. CASE queue # <<>> /\ queue' = Tail(queue) /\ mon' = [mon EXCEPT ![m] = Handled(@, Head(queue))]
        <5>1. Head(queue) \in Events /\ 1 \in DOMAIN queue /\ Head(queue) = queue[1]
          BY <4>2, Taken
        <5>2. Handled(mon[m], Head(queue)).pc # "call"
          BY <5>1, HandledType DEF KernelTypes, ButtonsInv
        <5> QED
          BY <2>1, <4>2, <5>2
      <4> QED
        BY <3>2, <4>1, <4>2 DEF MonRead
    <3>3. CASE MonCall(m) \/ MonCaught(m)
      BY <2>1, <3>3 DEF MonCall, MonCaught, States
    <3> QED
      BY <1>1, <3>1, <3>2, <3>3
  <2> QED
    BY <2>1, <2>2
<1>2. ASSUME NEW m \in Slots, MonLookup(m)
      PROVE  MonInv'
  <2>1. m = cur /\ cur' = cur
    BY <1>2 DEF MonLookup
  <2>2. CASE UNCHANGED <<joystick_event, mon>>
    BY <2>1, <2>2
  <2>3. ASSUME NEW a, joystick_event' = a,
               mon' = [mon EXCEPT ![m].pc = "call", ![m].event = a, ![m].key = 0]
        PROVE  MonInv'
    <3>1. mon'[cur] = [mon[cur] EXCEPT !.pc = "call", !.event = a, !.key = 0]
      BY <2>1, <2>3
    <3>2. mon'[cur].event = a
      BY <3>1 DEF States
    <3> QED
      BY <2>1, <2>3, <3>2
  <2> QED
    BY <1>2, <2>2, <2>3 DEF MonLookup
<1>3. CASE StartMonitor
  <2>1. cur' = 3 - cur /\ 3 - cur \in Slots /\ \A m \in Slots : m # 3 - cur => m = cur
    BY <1>3 DEF StartMonitor, Slots
  <2>2. mon'[3 - cur] = Fresh /\ mon'[cur] = mon[cur]
    BY <1>3, <2>1 DEF StartMonitor, Slots
  <2> QED
    BY <1>3, <2>1, <2>2 DEF StartMonitor, Fresh
<1>4. CASE StopMonitor \/ CompareIds
  BY <1>4 DEF StopMonitor, CompareIds, threads
<1>5. CASE \/ \E x \in Loaders : LoadFill(x)
           \/ \E d \in Devices : Plug(d)
  BY <1>5 DEF LoadFill, Plug, threads
<1>6. CASE ~Threading
  BY <1>6, OthersLeaveTheThreads DEF threads
<1> QED
  BY <1>1, <1>2, <1>3, <1>4, <1>5, <1>6 DEF Threading, Monitor, Replug

-----------------------------------------------------------------------------
(* The button map *)

\* A device plugged in that has a USB parent has ids, which are not zero.
LEMMA DeviceIds ==
  ASSUME Types, device # Nobody
  PROVE  device.ids \in (Nat \ {0}) \X (Nat \ {0})
<1>1. device \in [usb : BOOLEAN, ids : (Nat \ {0}) \X (Nat \ {0})]
  BY JoystickAssumption DEF Types, KernelTypes
<1> QED
  BY <1>1

\* What a step of load_config leaves alone.
LEMMA LoadFrame ==
  ASSUME NEW x \in Loaders, LoadConfig(x)
  PROVE  UNCHANGED <<device, mixed>> /\ load[x].pc # "idle"
BY DEF LoadConfig, LoadClear, LoadScan, LoadIds, LoadPick, LoadFill

\* What all other steps but a plug do leave alone.
LEMMA OthersLeaveTheMap ==
  ASSUME \/ User \/ (\E m \in Slots : Monitor(m)) \/ UNCHANGED vars
  PROVE  UNCHANGED <<upc, ids, settings, load, listening, mixed>>
<1>1. CASE User
  BY <1>1 DEF User, Tick, Unplug, PressButton, ReleaseButton, MoveAxis, Sends, config
<1>2. CASE \E m \in Slots : Monitor(m)
  BY <1>2 DEF Monitor, MonTest, MonRead, MonLookup, MonCall, MonCaught, config
<1> QED
  BY <1>1, <1>2 DEF vars, config

\* A loader is at work only while its thread waits for it.
LEMMA LoadsKept ==
  ASSUME Types, LoadsInv, [Next]_vars
  PROVE  LoadsInv'
<1> USE DEF LoadsInv, Types, ThreadTypes, ConfigTypes
<1>1. ASSUME NEW x \in Loaders, LoadClear(x) \/ LoadScan(x) \/ LoadIds(x) \/ LoadPick(x)
      PROVE  LoadsInv'
  <2>1. UNCHANGED <<upc, listening, mixed>> /\ load[x].pc # "idle"
    BY <1>1 DEF LoadClear, LoadScan, LoadIds, LoadPick
  <2>2. load'[x].pc # "idle"
    BY <1>1, <2>1 DEF LoadClear, LoadScan, LoadIds, LoadPick, Loads
  <2>3. \A y \in Loaders : y # x => load'[y] = load[y]
    BY <1>1 DEF LoadClear, LoadScan, LoadIds, LoadPick
  <2> QED
    BY <2>1, <2>2, <2>3 DEF Loaders
<1>2. ASSUME NEW x \in Loaders, LoadFill(x)
      PROVE  LoadsInv'
  <2>1. CASE UNCHANGED <<settings, load, upc, listening>>
    BY <1>2, <2>1 DEF LoadFill
  <2>2. CASE /\ load' = [load EXCEPT ![x] = Idle]
             /\ upc' = IF x = "udev" THEN "select" ELSE upc
             /\ listening' = (listening \/ x = "main")
    <3>1. load'[x].pc = "idle" /\ load[x].pc = "fill" /\ mixed' = mixed
      BY <1>2, <2>2 DEF LoadFill, Idle
    <3>2. \A y \in Loaders : y # x => load'[y] = load[y]
      BY <2>2
    <3>3. x = "main" \/ x = "udev"
      BY DEF Loaders
    <3> QED
      BY <2>2, <3>1, <3>2, <3>3 DEF Loaders
  <2> QED
    BY <1>2, <2>1, <2>2 DEF LoadFill
<1>3. CASE Listen
  <2>1. load'["main"].pc = "clear" /\ load'["udev"] = load["udev"]
    BY <1>3 DEF Listen, Loaders, Loads
  <2> QED
    BY <1>3, <2>1 DEF Listen
<1>4. CASE \E d \in Devices : Plug(d)
  <2>1. upc = "select" /\ upc' = "opened" /\ UNCHANGED <<load, listening>>
    BY <1>4 DEF Plug, config
  <2>2. ~mixed' => ~mixed /\ load["main"].pc = "idle"
    BY <1>4 DEF Plug
  <2> QED
    BY <2>1, <2>2
<1>5. CASE CompareIds
  <2>1. CASE UNCHANGED <<ids, upc, load>>
    BY <1>5, <2>1 DEF CompareIds
  <2>2. CASE upc' = "load" /\ load' = [load EXCEPT !["udev"].pc = "clear"]
    <3>1. load'["udev"].pc = "clear" /\ load'["main"] = load["main"]
      BY <2>2 DEF Loaders, Loads
    <3> QED
      BY <1>5, <2>2, <3>1 DEF CompareIds
  <2>3. CASE upc' = "select" /\ UNCHANGED <<ids, load>>
    BY <1>5, <2>3 DEF CompareIds
  <2> QED
    BY <1>5, <2>1, <2>2, <2>3 DEF CompareIds
<1>6. CASE StopMonitor \/ StartMonitor
  BY <1>6 DEF StopMonitor, StartMonitor, config
<1>7. CASE User \/ (\E m \in Slots : Monitor(m)) \/ UNCHANGED vars
  BY <1>7, OthersLeaveTheMap
<1> QED
  BY <1>1, <1>2, <1>3, <1>4, <1>5, <1>6, <1>7 DEF Next, LoadConfig, Replug

\* The map is cleared before it is filled, with the section of ids that no longer change.
LEMMA FilledKept ==
  ASSUME Types, MapInv, [Next]_vars
  PROVE  FilledInv'
<1> SUFFICES ASSUME ~mixed'
             PROVE  /\ \A x \in Loaders : load'[x].pc \in {"scan", "ids", "pick", "fill"} => settings' = MapOf(<<>>)
                    /\ \A x \in Loaders : load'[x].pc = "fill" => load'[x].section = Section'
                    /\ listening' /\ upc' # "load" => settings' = MapOf(Section')
  BY DEF FilledInv
<1> USE DEF MapInv, LoadsInv, FilledInv, Types, ThreadTypes, ConfigTypes, Section
<1>1. ASSUME NEW x \in Loaders, LoadConfig(x)
      PROVE  FilledInv'
  <2>1. UNCHANGED <<device, mixed>> /\ load[x].pc # "idle" /\ ~mixed
    BY <1>1, LoadFrame
  <2>2. \A y \in Loaders : y # x => load[y].pc = "idle"
    BY <2>1 DEF Loaders
  <2>3. listening => upc = "load"
    BY <2>1, <2>2 DEF Loaders
  <2>4. CASE LoadClear(x)
    <3>1. load'[x].pc \in {"scan", "pick"} /\ \A y \in Loaders : y # x => load'[y] = load[y]
      BY <2>4 DEF LoadClear, Loads
    <3>2. settings' = MapOf(<<>>) /\ UNCHANGED <<upc, listening>>
      BY <2>4 DEF LoadClear
    <3> QED
      BY <2>2, <2>3, <3>1, <3>2
  <2>5. CASE LoadScan(x) \/ LoadIds(x)
    <3>1. load[x].pc \in {"scan", "ids"} /\ settings' = settings /\ UNCHANGED <<upc, listening>>
      BY <2>5 DEF LoadScan, LoadIds
    <3>2. load'[x].pc # "fill" /\ \A y \in Loaders : y # x => load'[y] = load[y]
      BY <2>5 DEF LoadScan, LoadIds, Loads
    <3> QED
      BY <2>1, <2>2, <2>3, <3>1, <3>2
  <2>6. CASE LoadPick(x)
    <3>1. load[x].pc = "pick" /\ settings' = settings /\ UNCHANGED <<upc, listening, ids>>
      BY <2>6 DEF LoadPick
    <3>2. load'[x].section = Section /\ \A y \in Loaders : y # x => load'[y] = load[y]
      BY <2>6 DEF LoadPick, Loads
    <3> QED
      BY <2>1, <2>2, <2>3, <3>1, <3>2
  <2>7. CASE LoadFill(x)
    <3>1. load[x].pc = "fill" /\ UNCHANGED ids
      BY <2>7 DEF LoadFill
    <3>2. CASE UNCHANGED <<settings, load, upc, listening>>
      BY <2>1, <3>1, <3>2
    <3>3. CASE settings' = Inserted(settings, load[x].section) /\ load' = [load EXCEPT ![x] = Idle]
      <4>1. settings = MapOf(<<>>) /\ load[x].section = Section
        BY <2>1, <3>1
      <4>2. settings' = MapOf(Section')
        BY <3>1, <3>3, <4>1, InsertedEmpty
      <4>3. \A y \in Loaders : load'[y].pc = "idle"
        BY <2>2, <3>3 DEF Idle
      <4> QED
        BY <4>2, <4>3
    <3> QED
      BY <2>7, <3>2, <3>3 DEF LoadFill
  <2> QED
    BY <1>1, <2>4, <2>5, <2>6, <2>7 DEF LoadConfig
<1>2. CASE Listen
  <2>1. load'["main"].pc = "clear" /\ load'["udev"] = load["udev"]
    BY <1>2 DEF Listen, Loaders, Loads
  <2>2. ~mixed /\ upc = "select" /\ load["udev"].pc = "idle"
    BY <1>2 DEF Listen
  <2>3. ~listening' /\ \A x \in Loaders : load'[x].pc \in {"idle", "clear"}
    BY <1>2, <2>1, <2>2 DEF Listen, Loaders
  <2> QED
    BY <2>3
<1>3. CASE \E d \in Devices : Plug(d)
  BY <1>3 DEF Plug, config
<1>4. CASE CompareIds
  <2>1. UNCHANGED <<mixed, settings, listening>> /\ upc = "compare"
    BY <1>4 DEF CompareIds
  <2>2. \A x \in Loaders : load[x].pc = "idle"
    BY <2>1 DEF Loaders
  <2>3. CASE UNCHANGED <<ids, load>>
    BY <2>1, <2>3
  <2>4. CASE upc' = "load" /\ load' = [load EXCEPT !["udev"].pc = "clear"]
    <3>1. \A x \in Loaders : load'[x].pc \in {"idle", "clear"}
      BY <2>2, <2>4 DEF Loaders, Loads
    <3> QED
      BY <2>4, <3>1
  <2> QED
    BY <1>4, <2>3, <2>4 DEF CompareIds
<1>5. CASE StopMonitor \/ StartMonitor
  BY <1>5 DEF StopMonitor, StartMonitor, config
<1>6. CASE User \/ (\E m \in Slots : Monitor(m)) \/ UNCHANGED vars
  BY <1>6, OthersLeaveTheMap
<1> QED
  BY <1>1, <1>2, <1>3, <1>4, <1>5, <1>6 DEF Next, Replug

\* The ids are taken from the device, or both compared with it.
LEMMA IdsKept ==
  ASSUME Types, MapInv, [Next]_vars
  PROVE  IdsInv'
<1> SUFFICES ASSUME ~mixed'
             PROVE  /\ upc' = "select" /\ device' # Nobody /\ device'.usb /\ ~NoIds' => Sharing'
                    /\ upc' = "load" =>
                         /\ ids' \in (Nat \ {0}) \X (Nat \ {0}) /\ load'["udev"].pc \in {"clear", "pick", "fill"}
                         /\ device' # Nobody => ids' = device'.ids
                    /\ load'["main"].pc = "ids" /\ device' # Nobody => load'["main"].found = device'.ids
  BY DEF IdsInv
<1> USE DEF MapInv, LoadsInv, IdsInv, Types, ThreadTypes, ConfigTypes
<1>0. \A i \in (Nat \ {0}) \X (Nat \ {0}) : i[1] # 0 /\ i[2] # 0 /\ i # <<0, 0>>
  OBVIOUS
<1>1. ASSUME LoadConfig("main")
      PROVE  IdsInv'
  <2>1. "main" \in Loaders /\ "udev" \in Loaders
    BY DEF Loaders
  <2>2. UNCHANGED <<device, mixed>> /\ load["main"].pc # "idle" /\ ~mixed
    BY <1>1, <2>1, LoadFrame
  <2>3. upc = "select" /\ load["udev"].pc = "idle"
    BY <2>2
  <2>4. upc' = "select"
    BY <1>1, <2>3 DEF LoadConfig, LoadClear, LoadScan, LoadIds, LoadPick, LoadFill
  <2>5. CASE LoadClear("main") \/ LoadPick("main") \/ LoadFill("main")
    <3>1. UNCHANGED ids
      BY <2>5 DEF LoadClear, LoadPick, LoadFill
    <3>2. load'["main"].pc # "ids"
      BY <2>1, <2>5 DEF LoadClear, LoadPick, LoadFill, Loads, Idle
    <3> QED
      BY <2>2, <2>3, <2>4, <3>1, <3>2 DEF NoIds, Sharing
  <2>6. CASE LoadScan("main")
    <3>1. ids' = <<0, 0>>
      BY <2>6 DEF LoadScan
    <3>2. load'["main"].pc = "ids" => load'["main"].found = device.ids
      BY <2>1, <2>6 DEF LoadScan, Loads
    <3> QED
      BY <2>2, <2>4, <3>1, <3>2 DEF NoIds
  <2>7. CASE LoadIds("main")
    <3>1. load'["main"].pc = "pick"
      BY <2>1, <2>7 DEF LoadIds, Loads
    <3>2. device # Nobody => ids' = device.ids
      <4>1. SUFFICES ASSUME device # Nobody PROVE ids' = device.ids
        OBVIOUS
      <4>2. load["main"].found = device.ids
        BY <2>2, <2>7, <4>1 DEF LoadIds
      <4>3. device.ids # <<0, 0>>
        BY <1>0, <4>1, DeviceIds
      <4> QED
        BY <2>7, <4>2, <4>3 DEF LoadIds
    <3> QED
      BY <2>2, <2>4, <3>1, <3>2 DEF Sharing
  <2> QED
    BY <1>1, <2>5, <2>6, <2>7 DEF LoadConfig
<1>2. ASSUME LoadConfig("udev")
      PROVE  IdsInv'
  <2>1. "main" \in Loaders /\ "udev" \in Loaders
    BY DEF Loaders
  <2>2. UNCHANGED <<device, mixed>> /\ load["udev"].pc # "idle" /\ ~mixed
    BY <1>2, <2>1, LoadFrame
  <2>3. upc = "load" /\ load["main"].pc = "idle" /\ load["udev"].pc \in {"clear", "pick", "fill"}
    BY <2>2
  <2>4. ~LoadScan("udev") /\ ~LoadIds("udev") /\ ~NoIds
    BY <1>0, <2>2, <2>3 DEF LoadScan, LoadIds, NoIds
  <2>5. load'["main"] = load["main"] /\ UNCHANGED ids
    BY <1>2, <2>1, <2>4 DEF LoadConfig, LoadClear, LoadPick, LoadFill
  <2>6. CASE LoadClear("udev") \/ LoadPick("udev")
    <3>1. upc' = upc
      BY <2>6 DEF LoadClear, LoadPick
    <3>2. load'["udev"].pc \in {"pick", "fill"}
      BY <2>1, <2>4, <2>6 DEF LoadClear, LoadPick, Loads
    <3> QED
      BY <2>2, <2>3, <2>5, <3>1, <3>2
  <2>7. CASE LoadFill("udev")
    <3>1. CASE UNCHANGED <<load, upc>>
      BY <2>2, <2>3, <2>5, <3>1
    <3>2. CASE upc' = "select"
      BY <2>2, <2>3, <2>5, <3>2 DEF Sharing
    <3> QED
      BY <2>7, <3>1, <3>2 DEF LoadFill
  <2> QED
    BY <1>2, <2>4, <2>6, <2>7 DEF LoadConfig
<1>3. CASE Listen
  <2>1. load'["main"].pc = "clear" /\ load'["udev"] = load["udev"]
    BY <1>3 DEF Listen, Loaders, Loads
  <2> QED
    BY <1>3, <2>1 DEF Listen, Sharing, NoIds
<1>4. CASE \E d \in Devices : Plug(d)
  BY <1>4 DEF Plug, config
<1>5. CASE CompareIds
  <2>1. UNCHANGED <<mixed, device>> /\ upc = "compare"
    BY <1>5 DEF CompareIds
  <2>2. load["main"].pc = "idle"
    BY <2>1
  <2>3. CASE UNCHANGED <<ids, upc, load>>
    BY <2>1, <2>2, <2>3
  <2>4. CASE device.usb /\ ids' = device.ids /\ upc' = "load" /\ load' = [load EXCEPT !["udev"].pc = "clear"]
    <3>1. device # Nobody
      BY <2>4 DEF Nobody
    <3>2. load'["udev"].pc = "clear" /\ load'["main"] = load["main"]
      BY <2>4 DEF Loaders, Loads
    <3> QED
      BY <2>1, <2>2, <2>4, <3>1, <3>2, DeviceIds
  <2>5. CASE ~(device.ids[1] # ids[1] /\ device.ids[2] # ids[2]) /\ upc' = "select" /\ UNCHANGED <<ids, load>>
    BY <2>1, <2>2, <2>5 DEF Sharing
  <2> QED
    BY <1>5, <2>3, <2>4, <2>5 DEF CompareIds
<1>6. CASE Unplug
  BY <1>6 DEF Unplug, config, threads
<1>7. CASE StopMonitor \/ StartMonitor
  BY <1>7 DEF StopMonitor, StartMonitor, config
<1>8. CASE \/ Tick \/ (\E b \in Buttons : PressButton(b) \/ ReleaseButton(b)) \/ (\E n \in Axes : MoveAxis(n))
           \/ (\E m \in Slots : Monitor(m)) \/ UNCHANGED vars
  BY <1>8 DEF Tick, PressButton, ReleaseButton, MoveAxis, Sends, Sharing, NoIds,
              Monitor, MonTest, MonRead, MonLookup, MonCall, MonCaught, config, vars
<1> QED
  BY <1>1, <1>2, <1>3, <1>4, <1>5, <1>6, <1>7, <1>8 DEF Next, User, Replug, Loaders

-----------------------------------------------------------------------------
(* Presses and releases *)

\* An event that is added changes nothing for those before it.
LEMMA KnownBefore ==
  ASSUME NEW q \in Seq(Events), NEW e \in Events, NEW s, NEW i \in 1..(Len(q) + 1), NEW b
  PROVE  /\ \A a, now : Known(q, s, i, b, a, now) => Known(Append(q, e), s, i, b, a, now)
         /\ NoPress(q, i, b) => NoPress(Append(q, e), i, b)
<1> DEFINE r == Append(q, e)
<1>1. /\ Len(q) \in Nat /\ DOMAIN q = 1..Len(q) /\ DOMAIN r = 1..(Len(q) + 1)
      /\ \A k \in 1..Len(q) : r[k] = q[k]
  BY AppendProperties
<1> HIDE DEF r
<1>2. \A k \in 1..(i - 1) : k \in 1..Len(q)
  BY <1>1
<1>3. \A k \in 1..(i - 1) : PressAt(r, k, b) <=> PressAt(q, k, b)
  BY <1>1, <1>2 DEF PressAt
<1>4. NoPress(r, i, b) <=> NoPress(q, i, b)
  BY <1>3 DEF NoPress
<1>5. \A j : LastPress(r, j, i, b) => LastPress(q, j, i, b) /\ j \in DOMAIN q /\ r[j] = q[j]
  <2> SUFFICES ASSUME NEW j, LastPress(r, j, i, b)
               PROVE  LastPress(q, j, i, b) /\ j \in DOMAIN q /\ r[j] = q[j]
    OBVIOUS
  <2>1. j \in 1..(i - 1) /\ \A k \in (j + 1)..(i - 1) : k \in 1..(i - 1)
    BY DEF LastPress
  <2> QED
    BY <1>1, <1>2, <1>3, <2>1 DEF LastPress
<1>6. \A a, now : Known(q, s, i, b, a, now) => Known(r, s, i, b, a, now)
  BY <1>4, <1>5 DEF Known
<1> QED
  BY <1>4, <1>6 DEF r

\* The event before a place that is no press of a button does not change what is
\* known of that button.
LEMMA KnownBehind ==
  ASSUME NEW q \in Seq(Events), NEW e \in Events, NEW s, NEW b, ~(e.type = "press" /\ e.button = b)
  PROVE  /\ \A a, now : Known(q, s, Len(q) + 1, b, a, now) => Known(Append(q, e), s, Len(q) + 2, b, a, now)
         /\ NoPress(q, Len(q) + 1, b) => NoPress(Append(q, e), Len(q) + 2, b)
<1> DEFINE r == Append(q, e)
           n == Len(q)
<1>1. /\ n \in Nat /\ DOMAIN q = 1..n /\ DOMAIN r = 1..(n + 1)
      /\ \A k \in 1..n : r[k] = q[k]
      /\ r[n + 1] = e
  BY AppendProperties
<1> HIDE DEF r, n
<1>2. \A k : PressAt(r, k, b) => k \in 1..n /\ PressAt(q, k, b)
  BY <1>1 DEF PressAt
<1>3. \A k \in 1..n : PressAt(q, k, b) => PressAt(r, k, b)
  BY <1>1 DEF PressAt
<1>4. NoPress(r, n + 2, b) <=> NoPress(q, n + 1, b)
  <2>1. 1..(n + 2 - 1) = 1..(n + 1) /\ 1..(n + 1 - 1) = 1..n /\ \A k \in 1..n : k \in 1..(n + 1)
    BY <1>1
  <2> QED
    BY <1>1, <1>2, <1>3, <2>1 DEF NoPress
<1>5. \A j : LastPress(r, j, n + 2, b) => LastPress(q, j, n + 1, b) /\ j \in DOMAIN q /\ r[j] = q[j]
  <2> SUFFICES ASSUME NEW j, LastPress(r, j, n + 2, b)
               PROVE  LastPress(q, j, n + 1, b) /\ j \in DOMAIN q /\ r[j] = q[j]
    OBVIOUS
  <2>1. j \in 1..n /\ PressAt(q, j, b)
    BY <1>2 DEF LastPress
  <2>2. \A k \in (j + 1)..n : k \in (j + 1)..(n + 2 - 1) /\ k \in 1..n
    BY <1>1, <2>1
  <2>3. \A k \in (j + 1)..n : ~PressAt(q, k, b)
    BY <1>1, <1>3, <2>2 DEF LastPress
  <2>4. n + 1 - 1 = n
    BY <1>1
  <2> QED
    BY <1>1, <2>1, <2>3, <2>4 DEF LastPress
<1>6. \A a, now : Known(q, s, n + 1, b, a, now) => Known(r, s, n + 2, b, a, now)
  BY <1>4, <1>5 DEF Known
<1> QED
  BY <1>4, <1>6 DEF r, n

\* A press that has just been made is the one before the place behind it.
LEMMA KnownNow ==
  ASSUME NEW q \in Seq(Events), NEW e \in Events, NEW s, NEW b, NEW now \in Times,
         e.type = "press", e.button = b, e.time = now
  PROVE  Known(Append(q, e), s, Len(q) + 2, b, 0, now)
<1> DEFINE r == Append(q, e)
           n == Len(q)
<1>1. n \in Nat /\ DOMAIN r = 1..(n + 1) /\ r[n + 1] = e
  BY AppendProperties
<1> HIDE DEF r, n
<1>2. n + 1 \in 1..(n + 1) /\ n + 2 - 1 = n + 1
  BY <1>1
<1>3. PressAt(r, n + 1, b)
  BY <1>1, <1>2 DEF PressAt
<1>4. ~NoPress(r, n + 2, b)
  BY <1>1, <1>2, <1>3 DEF NoPress
<1>5. \A j : LastPress(r, j, n + 2, b) => j = n + 1
  <2> SUFFICES ASSUME NEW j, LastPress(r, j, n + 2, b), j # n + 1
               PROVE  FALSE
    OBVIOUS
  <2>1. j \in 1..(n + 1)
    BY <1>1, <1>2 DEF LastPress
  <2>2. n + 1 \in (j + 1)..(n + 1)
    BY <1>1, <2>1
  <2> QED
    BY <1>1, <1>2, <1>3, <2>2 DEF LastPress
<1>6. Since(e.time, 0, now)
  BY Numbers DEF Since, Times
<1>7. Known(r, s, n + 2, b, 0, now)
  BY <1>1, <1>4, <1>5, <1>6 DEF Known
<1> QED
  BY <1>7 DEF r, n

\* What is known stays known when the monitor takes the first event.
LEMMA KnownBeyond ==
  ASSUME NEW q \in Seq(Events), q # <<>>, NEW s \in States, NEW i \in 1..Len(q), NEW b \in Buttons,
         q[1].type \in {"press", "release"} => q[1].button \in Buttons
  PROVE  /\ \A a, now : Known(q, s, i + 1, b, a, now) => Known(Tail(q), Handled(s, Head(q)), i, b, a, now)
         /\ NoPress(q, i + 1, b) => NoPress(Tail(q), i, b) /\ (Handled(s, Head(q)).p[b] => s.p[b])
<1> DEFINE r == Tail(q)
           h == Head(q)
           t == Handled(s, h)
           n == Len(q)
<1>1. /\ n \in Nat /\ n > 0 /\ DOMAIN q = 1..n /\ DOMAIN r = 1..(n - 1)
      /\ \A k \in 1..(n - 1) : r[k] = q[k + 1]
      /\ h = q[1]
  BY EmptySeq, HeadTailProperties
<1>2. h \in Events
  BY <1>1, ElementOfSeq
<1>3. t.p[b] => IF h.type = "press" /\ h.button = b THEN t.time[b] = h.time
                ELSE s.p[b] /\ t.time[b] = s.time[b]
  BY <1>1, <1>2, HandledType
<1> HIDE DEF r, h, t, n
<1>4. \A k \in 1..(i - 1) : k \in 1..(n - 1) /\ k + 1 \in 1..n /\ k + 1 \in 2..i /\ k \in DOMAIN r
  BY <1>1 DEF n
<1>5. \A k \in 1..(i - 1) : PressAt(r, k, b) <=> PressAt(q, k + 1, b)
  BY <1>1, <1>4 DEF PressAt
<1>6. \A k \in 2..i : k - 1 \in 1..(i - 1) /\ (k - 1) + 1 = k
  BY <1>1 DEF n
<1>7. i + 1 - 1 = i /\ 1 \in 1..i /\ \A k \in 1..i : k = 1 \/ k \in 2..i
  BY <1>1 DEF n
<1>8. NoPress(r, i, b) => \A k \in 2..i : ~PressAt(q, k, b)
  BY <1>5, <1>6 DEF NoPress
<1>9. PressAt(q, 1, b) <=> h.type = "press" /\ h.button = b
  BY <1>1 DEF PressAt
<1>10. NoPress(q, i + 1, b) => NoPress(r, i, b) /\ ~PressAt(q, 1, b)
  <2>1. \A k \in 2..i : k \in 1..i
    BY <1>1
  <2> QED
    BY <1>4, <1>5, <1>7, <2>1 DEF NoPress
<1>11. ASSUME NEW a, NEW now, Known(q, s, i + 1, b, a, now)
       PROVE  Known(r, t, i, b, a, now)
  <2>1. ASSUME NEW j \in DOMAIN r, LastPress(r, j, i, b)
        PROVE  Since(r[j].time, a, now)
    <3>1. j \in 1..(i - 1) /\ j + 1 \in DOMAIN q /\ r[j] = q[j + 1]
      BY <1>1, <1>4, <2>1 DEF LastPress
    <3>2. \A k \in ((j + 1) + 1)..i : k \in 2..i /\ k - 1 \in (j + 1)..(i - 1)
      BY <1>1, <3>1 DEF n
    <3>3. \A k \in ((j + 1) + 1)..i : ~PressAt(q, k, b)
      BY <1>5, <1>6, <2>1, <3>2 DEF LastPress
    <3>4. PressAt(q, j + 1, b) /\ j + 1 \in 1..i
      BY <1>4, <1>5, <2>1, <3>1 DEF LastPress
    <3>5. LastPress(q, j + 1, i + 1, b)
      BY <1>7, <3>3, <3>4 DEF LastPress
    <3> QED
      BY <1>11, <3>1, <3>5 DEF Known
  <2>2. ASSUME NoPress(r, i, b), t.p[b]
        PROVE  Since(t.time[b], a, now)
    <3>1. CASE PressAt(q, 1, b)
      <4>1. LastPress(q, 1, i + 1, b)
        BY <1>7, <1>8, <2>2, <3>1 DEF LastPress
      <4>2. 1 \in DOMAIN q
        BY <1>1
      <4> QED
        BY <1>1, <1>3, <1>9, <1>11, <2>2, <3>1, <4>1, <4>2 DEF Known
    <3>2. CASE ~PressAt(q, 1, b)
      <4>1. NoPress(q, i + 1, b)
        BY <1>7, <1>8, <2>2, <3>2 DEF NoPress
      <4> QED
        BY <1>3, <1>9, <1>11, <2>2, <3>2, <4>1 DEF Known
    <3> QED
      BY <3>1, <3>2
  <2> QED
    BY <2>1, <2>2 DEF Known
<1> QED
  BY <1>3, <1>9, <1>10, <1>11 DEF r, h, t

\* The monitor that runs reads an event.
ReadsOne ==
  /\ queue # <<>> /\ queue' = Tail(queue)
  /\ cur' = cur /\ mon'[cur] = Handled(mon[cur], Head(queue))

\* A monitor that reads an event takes it from the queue.
LEMMA ReadingTakesOne ==
  ASSUME Types, ReadsOne
  PROVE  queue' # queue
<1>1. Len(queue) \in Nat /\ Len(queue') = Len(queue) - 1
  BY Taken DEF ReadsOne
<1> QED
  BY <1>1

KnowsNoMore == \A b \in Buttons : mon'[cur'].p[b] => mon[cur].p[b] /\ mon'[cur'].time[b] = mon[cur].time[b]

\* A monitor learns of presses from events only.
LEMMA LearnsByReading ==
  ASSUME Types, MonInv, [Next]_vars
  PROVE  /\ ReadsOne \/ KnowsNoMore
         /\ (\E m \in Slots : MonRead(m)) /\ queue' # queue => ReadsOne
<1> USE DEF Types, ThreadTypes, MonInv
<1>1. ASSUME NEW m \in Slots, Monitor(m)
      PROVE  m = cur /\ cur' = cur /\ cur \in Slots /\ mon[cur] \in States
  BY <1>1 DEF Monitor, MonTest, MonRead, MonLookup, MonCall, MonCaught
<1>2. ASSUME NEW m \in Slots, MonTest(m)
      PROVE  KnowsNoMore
  <2>1. mon'[cur] = [mon[cur] EXCEPT !.pc = "read"] \/ mon'[cur] = Ended
    BY <1>1, <1>2 DEF Monitor, MonTest
  <2>2. \A b \in Buttons : ~Ended.p[b]
    BY DEF Ended, Fresh
  <2>3. [mon[cur] EXCEPT !.pc = "read"].p = mon[cur].p /\ [mon[cur] EXCEPT !.pc = "read"].time = mon[cur].time
    BY DEF States
  <2> QED
    BY <1>1, <1>2, <2>1, <2>2, <2>3 DEF Monitor, KnowsNoMore
<1>3. ASSUME NEW m \in Slots, MonRead(m)
      PROVE  (ReadsOne \/ KnowsNoMore) /\ (queue' # queue => ReadsOne)
  <2>1. CASE mon' = [mon EXCEPT ![m].pc = "test"] /\ UNCHANGED queue
    <3>1. mon'[cur] = [mon[cur] EXCEPT !.pc = "test"]
      BY <1>1, <1>3, <2>1 DEF Monitor
    <3>2. mon'[cur].p = mon[cur].p /\ mon'[cur].time = mon[cur].time
      BY <3>1 DEF States
    <3> QED
      BY <1>1, <1>3, <2>1, <3>2 DEF Monitor, KnowsNoMore
  <2>2. CASE queue # <<>> /\ queue' = Tail(queue) /\ mon' = [mon EXCEPT ![m] = Handled(@, Head(queue))]
    BY <1>1, <1>3, <2>2 DEF Monitor, ReadsOne
  <2> QED
    BY <1>3, <2>1, <2>2 DEF MonRead
<1>4. ASSUME NEW m \in Slots, MonLookup(m) \/ MonCall(m) \/ MonCaught(m)
      PROVE  KnowsNoMore
  <2>1. \/ mon' = mon
        \/ \E a : mon'[cur] = [mon[cur] EXCEPT !.pc = "call", !.event = a, !.key = 0]
        \/ mon'[cur] = [mon[cur] EXCEPT !.pc = "test", !.event = NoEvent]
        \/ mon'[cur] = [mon[cur] EXCEPT !.pc = "caught"]
    <3>1. CASE MonLookup(m)
      <4>1. \/ mon' = mon
            \/ \E a : mon' = [mon EXCEPT ![m].pc = "call", ![m].event = a, ![m].key = 0]
        BY <3>1 DEF MonLookup
      <4>2. m = cur /\ cur \in Slots
        BY <1>1, <3>1 DEF Monitor
      <4> QED
        BY <4>1, <4>2
    <3>2. CASE MonCall(m) \/ MonCaught(m)
      BY <1>1, <3>2 DEF Monitor, MonCall, MonCaught
    <3> QED
      BY <1>4, <3>1, <3>2
  <2>2. mon'[cur].p = mon[cur].p /\ mon'[cur].time = mon[cur].time
    BY <2>1 DEF States
  <2> QED
    BY <1>1, <1>4, <2>2 DEF Monitor, KnowsNoMore
<1>5. ASSUME StartMonitor
      PROVE  KnowsNoMore
  <2>1. mon'[cur'] = Fresh
    BY <1>5 DEF StartMonitor, Slots
  <2> QED
    BY <2>1 DEF KnowsNoMore, Fresh
<1>6. ASSUME StopMonitor \/ CompareIds
      PROVE  KnowsNoMore
  BY <1>6 DEF StopMonitor, CompareIds, threads, KnowsNoMore
<1>7. ASSUME \/ \E x \in Loaders : LoadFill(x)
             \/ \E d \in Devices : Plug(d)
      PROVE  KnowsNoMore
  BY <1>7 DEF LoadFill, Plug, threads, KnowsNoMore
<1>8. ASSUME ~Threading
      PROVE  KnowsNoMore
  <2>1. UNCHANGED <<mon, cur>>
    BY <1>8, OthersLeaveTheThreads DEF threads
  <2> QED
    BY <2>1 DEF KnowsNoMore
<1>9. ReadsOne \/ KnowsNoMore
  BY <1>2, <1>3, <1>4, <1>5, <1>6, <1>7, <1>8 DEF Threading, Monitor, Replug
<1> QED
  BY <1>3, <1>9

\* Only the start of a monitor ends the time in which an old one may read of a new device.
LEMMA OldMonitorGone ==
  ASSUME Types, LoadsInv, [Next]_vars, upc' \notin {"opened", "joining"}
  PROVE  upc \notin {"opened", "joining"} \/ \A b \in Buttons : ~mon'[cur'].p[b]
<1>1. CASE User \/ (\E m \in Slots : Monitor(m)) \/ UNCHANGED vars
  BY <1>1, OthersLeaveTheMap
<1>2. CASE Listen \/ \E x \in Loaders : LoadConfig(x)
  <2>1. upc' = upc \/ \E x \in Loaders : load[x].pc = "fill" /\ x = "udev"
    BY <1>2 DEF Listen, LoadConfig, LoadClear, LoadScan, LoadIds, LoadPick, LoadFill
  <2> QED
    BY <2>1 DEF LoadsInv
<1>3. CASE (\E d \in Devices : Plug(d)) \/ StopMonitor \/ CompareIds
  BY <1>3 DEF Plug, StopMonitor, CompareIds
<1>4. CASE StartMonitor
  <2>1. mon'[cur'] = Fresh
    BY <1>4 DEF StartMonitor, Slots, Types, ThreadTypes
  <2> QED
    BY <2>1 DEF Fresh
<1> QED
  BY <1>1, <1>2, <1>3, <1>4 DEF Next, Replug

\* A monitor that has learnt nothing knows what it knew.
LEMMA KnownStill ==
  ASSUME KnowsNoMore, NEW q, NEW i, NEW b \in Buttons, NEW a, NEW now, Known(q, mon[cur], i, b, a, now)
  PROVE  Known(q, mon'[cur'], i, b, a, now)
BY DEF Known, KnowsNoMore

\* Steps that neither read nor send an event, nor open or close the device, nor
\* pass time.
LEMMA OthersLeaveTheEvents ==
  ASSUME [Next]_vars, ~Kernel \/ ((\E m \in Slots : MonRead(m)) /\ queue' = queue)
  PROVE  UNCHANGED <<queue, held, age, clock>>
<1>1. CASE ~Kernel
  BY <1>1, OthersLeaveTheDevice DEF kernel
<1>2. CASE (\E m \in Slots : MonRead(m)) /\ queue' = queue
  BY <1>2 DEF MonRead
<1> QED
  BY <1>1, <1>2

\* A device opened or withdrawn takes the events along.
LEMMA Emptied ==
  ASSUME Types, Unplug \/ \E d \in Devices : Plug(d)
  PROVE  /\ queue' = <<>> /\ DOMAIN queue' = {} /\ Len(queue') = 0
         /\ \A b \in Buttons : held'[b] # "down"
<1>1. queue' = <<>>
  BY DEF Unplug, Plug
<1>2. \A b \in Buttons : held'[b] # "down"
  <2>1. CASE Unplug
    BY <2>1 DEF Unplug
  <2>2. ASSUME NEW d \in Devices, Plug(d)
        PROVE  \A b \in Buttons : held'[b] # "down"
    <3>1. held' \in [Buttons -> {"up", "before"}]
      BY <2>2 DEF Plug
    <3> QED
      BY <3>1
  <2> QED
    BY <2>1, <2>2
<1>3. DOMAIN queue' = {} /\ Len(queue') = 0
  BY <1>1
<1> QED
  BY <1>1, <1>2, <1>3

\* What is known of presses is kept by every step.
LEMMA PressesKept ==
  ASSUME Types, MonInv, PressInv, [Next]_vars
  PROVE  PressInv'
<1> USE DEF Types, KernelTypes, ThreadTypes
<1> DEFINE s == mon[cur]
           n == Len(queue)
<1>0. n \in Nat /\ DOMAIN queue = 1..n /\ \A i \in DOMAIN queue : queue[i] \in Events
  BY ElementOfSeq, LenProperties
<1>1. CASE Tick
  <2>1. UNCHANGED <<queue, held, mon, cur>> /\ clock' = (clock + 1) % Wrap
    BY <1>1 DEF Tick, threads
  <2>2. ASSUME NEW b \in Buttons, held[b] = "down", age'[b] < Wrap, Known(queue, s, n + 1, b, age[b], clock),
               age[b] < Wrap, age'[b] = age[b] + 1
        PROVE  Known(queue, s, n + 1, b, age'[b], clock')
    <3>1. \A then \in Times : Since(then, age[b], clock) => Since(then, age'[b], clock')
      BY <2>1, <2>2, Numbers, ClockTicks
    <3>2. s.time[b] \in Times /\ \A j \in DOMAIN queue : queue[j].time \in Times
      BY <1>0 DEF Events, States
    <3> QED
      BY <2>2, <3>1, <3>2 DEF Known
  <2>3. ASSUME NEW b \in Buttons, held[b] = "down", age'[b] < Wrap
        PROVE  age[b] < Wrap /\ age'[b] = age[b] + 1
    <3>1. age[b] \in 0..Wrap /\ Wrap \in Nat
      BY Numbers
    <3>2. age'[b] = IF age[b] < Wrap THEN age[b] + 1 ELSE age[b]
      BY <1>1, <2>3 DEF Tick
    <3> QED
      BY <2>3, <3>1, <3>2
  <2>4. \A b \in Buttons : held[b] = "down" /\ age'[b] < Wrap => Known(queue, s, n + 1, b, age'[b], clock')
    BY <2>2, <2>3 DEF PressInv
  <2> QED
    BY <2>1, <2>4 DEF PressInv
<1>2. ASSUME NEW b \in Buttons, PressButton(b)
      PROVE  PressInv'
  <2> DEFINE e == Event("press", b, clock, 0, TRUE)
  <2>1. e \in Events /\ e.type = "press" /\ e.button = b /\ e.time = clock
    BY Numbers DEF Event, Events
  <2>2. queue' = Append(queue, e) /\ UNCHANGED <<clock, mon, cur>>
    BY <1>2 DEF PressButton, Sends, threads
  <2>3. held' = [held EXCEPT ![b] = "down"] /\ age' = [age EXCEPT ![b] = 0]
    BY <1>2 DEF PressButton
  <2> HIDE DEF e
  <2>4. Len(queue') = n + 1 /\ DOMAIN queue' = 1..(n + 1) /\ \A i \in 1..n : queue'[i] = queue[i]
    BY <2>1, <2>2, Sent
  <2>5. queue'[n + 1] = e
    BY <2>1, <2>2, Sent
  <2>6. \A i \in 1..(n + 1) : i \in 1..n \/ i = n + 1
    BY <1>0
  <2>7. ASSUME NEW i \in 1..n, queue'[i].type = "release" /\ queue'[i].here /\ queue'[i].age < Wrap
        PROVE  Known(queue', mon'[cur'], i, queue'[i].button, queue'[i].age, queue'[i].time)
    <3>1. Known(queue, s, i, queue[i].button, queue[i].age, queue[i].time)
      BY <1>0, <2>4, <2>7 DEF PressInv
    <3>2. i \in 1..(n + 1)
      BY <1>0
    <3> QED
      BY <2>1, <2>2, <2>4, <3>1, <3>2, KnownBefore
  <2>8. ASSUME NEW c \in Buttons, held'[c] = "down", age'[c] < Wrap
        PROVE  Known(queue', mon'[cur'], n + 2, c, age'[c], clock')
    <3>1. CASE c = b
      BY <2>1, <2>2, <2>3, <3>1, KnownNow
    <3>2. CASE c # b
      <4>1. Known(queue, s, n + 1, c, age[c], clock)
        BY <2>3, <2>8, <3>2 DEF PressInv
      <4>2. Known(Append(queue, e), s, n + 2, c, age[c], clock)
        BY <2>1, <3>2, <4>1, KnownBehind
      <4> QED
        BY <2>2, <2>3, <3>2, <4>2
    <3> QED
      BY <3>1, <3>2
  <2>9. Len(queue') + 1 = n + 2
    BY <1>0, <2>4
  <2> QED
    BY <2>1, <2>4, <2>5, <2>6, <2>7, <2>8, <2>9 DEF PressInv
<1>3. ASSUME NEW e \in Events, e.type # "press", queue' = Append(queue, e), UNCHANGED <<clock, mon, cur>>,
             \A c \in Buttons : held'[c] = "down" => held[c] = "down" /\ age'[c] = age[c],
             e.type = "release" /\ e.here =>
               e.button \in Buttons /\ held[e.button] = "down" /\ e.age = age[e.button] /\ e.time = clock
      PROVE  PressInv'
  <2>4. Len(queue') = n + 1 /\ DOMAIN queue' = 1..(n + 1) /\ \A i \in 1..n : queue'[i] = queue[i]
    BY <1>3, Sent
  <2>5. queue'[n + 1] = e
    BY <1>3, Sent
  <2>6. \A i \in 1..(n + 1) : i \in 1..n \/ i = n + 1
    BY <1>0
  <2>7. ASSUME NEW i \in 1..n, queue'[i].type = "release" /\ queue'[i].here /\ queue'[i].age < Wrap
        PROVE  Known(queue', mon'[cur'], i, queue'[i].button, queue'[i].age, queue'[i].time)
    <3>1. Known(queue, s, i, queue[i].button, queue[i].age, queue[i].time)
      BY <1>0, <2>4, <2>7 DEF PressInv
    <3>2. i \in 1..(n + 1)
      BY <1>0
    <3> QED
      BY <1>3, <2>4, <3>1, <3>2, KnownBefore
  <2>8. ASSUME e.type = "release", e.here, e.age < Wrap
        PROVE  Known(queue', mon'[cur'], n + 1, e.button, e.age, e.time)
    <3>1. Known(queue, s, n + 1, e.button, e.age, e.time)
      BY <1>3, <2>8 DEF PressInv
    <3>2. n + 1 \in 1..(n + 1)
      BY <1>0
    <3> QED
      BY <1>3, <3>1, <3>2, KnownBefore
  <2>9. ASSUME NEW c \in Buttons, held'[c] = "down", age'[c] < Wrap
        PROVE  Known(queue', mon'[cur'], n + 2, c, age'[c], clock')
    <3>1. Known(queue, s, n + 1, c, age[c], clock) /\ age'[c] = age[c]
      BY <1>3, <2>9 DEF PressInv
    <3>2. Known(Append(queue, e), s, n + 2, c, age[c], clock)
      BY <1>3, <3>1, KnownBehind
    <3> QED
      BY <1>3, <3>1, <3>2
  <2>10. Len(queue') + 1 = n + 2
    BY <1>0, <2>4
  <2> QED
    BY <2>4, <2>5, <2>6, <2>7, <2>8, <2>9, <2>10 DEF PressInv
<1>4. ASSUME NEW b \in Buttons, ReleaseButton(b)
      PROVE  PressInv'
  <2> DEFINE e == Event("release", b, clock, age[b], held[b] = "down")
  <2>1. /\ e \in Events /\ e.type = "release" /\ e.button = b /\ e.time = clock /\ e.age = age[b]
        /\ e.here => held[b] = "down"
    BY DEF Event, Events
  <2>2. queue' = Append(queue, e) /\ UNCHANGED <<clock, mon, cur>>
    BY <1>4 DEF ReleaseButton, Sends, threads
  <2>3. \A c \in Buttons : held'[c] = "down" => held[c] = "down" /\ age'[c] = age[c]
    BY <1>4 DEF ReleaseButton
  <2> HIDE DEF e
  <2> QED
    BY <1>3, <2>1, <2>2, <2>3
<1>5. ASSUME NEW a \in Axes, MoveAxis(a)
      PROVE  PressInv'
  <2>1. PICK dir \in {"plus", "minus"} : Sends(Event(dir, a, 0, 0, TRUE))
    BY <1>5 DEF MoveAxis
  <2> DEFINE e == Event(dir, a, 0, 0, TRUE)
  <2>2. e \in Events /\ e.type \notin {"press", "release"}
    BY Numbers DEF Event, Events
  <2>3. queue' = Append(queue, e) /\ UNCHANGED <<clock, mon, cur, held, age>>
    BY <1>5, <2>1 DEF MoveAxis, Sends, threads
  <2> HIDE DEF e
  <2> QED
    BY <1>3, <2>2, <2>3
<1>6. CASE Unplug \/ \E d \in Devices : Plug(d)
  BY <1>6, Emptied DEF PressInv
<1>7. CASE (\E m \in Slots : MonRead(m)) /\ queue' # queue
  <2>1. ReadsOne /\ UNCHANGED <<held, age, clock>>
    BY <1>7, LearnsByReading DEF MonRead
  <2>2. s \in States /\ queue # <<>> /\ queue' = Tail(queue) /\ mon'[cur'] = Handled(s, Head(queue))
    BY <2>1 DEF ReadsOne
  <2>3. n > 0 /\ Len(queue') = n - 1 /\ DOMAIN queue' = 1..(n - 1) /\ \A i \in 1..(n - 1) : queue'[i] = queue[i + 1]
    BY <2>2, Taken
  <2>4. queue[1].type \in {"press", "release"} => queue[1].button \in Buttons
    BY <1>0, <2>3 DEF ButtonsInv
  <2>5. ASSUME NEW i \in 1..(n - 1), queue'[i].type = "release" /\ queue'[i].here /\ queue'[i].age < Wrap
        PROVE  Known(queue', mon'[cur'], i, queue'[i].button, queue'[i].age, queue'[i].time)
    <3>1. i \in 1..n /\ i + 1 \in 1..n
      BY <1>0
    <3>2. queue[i + 1].button \in Buttons
      BY <1>0, <2>3, <2>5, <3>1 DEF ButtonsInv
    <3>3. Known(queue, s, i + 1, queue[i + 1].button, queue[i + 1].age, queue[i + 1].time)
      BY <1>0, <2>3, <2>5, <3>1 DEF PressInv
    <3>4. Known(Tail(queue), Handled(s, Head(queue)), i, queue[i + 1].button, queue[i + 1].age, queue[i + 1].time)
      BY <2>2, <2>4, <3>1, <3>2, <3>3, KnownBeyond
    <3> QED
      BY <2>2, <2>3, <3>4
  <2>6. ASSUME NEW b \in Buttons, held'[b] = "down" /\ age'[b] < Wrap
        PROVE  Known(queue', mon'[cur'], n, b, age'[b], clock')
    <3>1. Known(queue, s, n + 1, b, age[b], clock)
      BY <2>1, <2>6 DEF PressInv
    <3>2. n \in 1..n
      BY <1>0, <2>3
    <3> QED
      BY <2>1, <2>2, <2>4, <3>1, <3>2, KnownBeyond
  <2>7. Len(queue') + 1 = n
    BY <1>0, <2>3
  <2> QED
    BY <2>3, <2>5, <2>6, <2>7 DEF PressInv
<1>8. CASE (~Kernel \/ ((\E m \in Slots : MonRead(m)) /\ queue' = queue)) /\ ~(ReadsOne /\ ~KnowsNoMore)
  <2>1. UNCHANGED <<queue, held, age, clock>> /\ KnowsNoMore
    BY <1>8, LearnsByReading, OthersLeaveTheEvents
  <2>2. \A i \in DOMAIN queue : queue[i].type = "release" => queue[i].button \in Buttons
    BY DEF ButtonsInv
  <2>3. ASSUME NEW i \in DOMAIN queue, queue[i].type = "release" /\ queue[i].here /\ queue[i].age < Wrap
        PROVE  Known(queue, mon'[cur'], i, queue[i].button, queue[i].age, queue[i].time)
    <3>1. Known(queue, s, i, queue[i].button, queue[i].age, queue[i].time)
      BY <2>3 DEF PressInv
    <3> QED
      BY <2>1, <2>2, <2>3, <3>1, KnownStill
  <2>4. ASSUME NEW b \in Buttons, held[b] = "down" /\ age[b] < Wrap
        PROVE  Known(queue, mon'[cur'], n + 1, b, age[b], clock)
    <3>1. Known(queue, s, n + 1, b, age[b], clock)
      BY <2>4 DEF PressInv
    <3> QED
      BY <2>1, <3>1, KnownStill
  <2>5. \A i \in DOMAIN queue' :
          queue'[i].type = "release" /\ queue'[i].here /\ queue'[i].age < Wrap
          => Known(queue', mon'[cur'], i, queue'[i].button, queue'[i].age, queue'[i].time)
    BY <2>1, <2>3
  <2>6. \A b \in Buttons :
          held'[b] = "down" /\ age'[b] < Wrap => Known(queue', mon'[cur'], Len(queue') + 1, b, age'[b], clock')
    BY <2>1, <2>4
  <2> QED
    BY <2>5, <2>6 DEF PressInv
<1>9. ASSUME queue' = queue PROVE ~ReadsOne
  BY <1>9, ReadingTakesOne
<1>10. ASSUME ~Kernel PROVE queue' = queue
  BY <1>10, OthersLeaveTheDevice DEF kernel
<1> QED
  BY <1>1, <1>2, <1>4, <1>5, <1>6, <1>7, <1>8, <1>9, <1>10 DEF Kernel

\* So is what is known of buttons held before the device was opened.
LEMMA BeforeKept ==
  ASSUME Types, MonInv, LoadsInv, BeforeInv, [Next]_vars
  PROVE  BeforeInv'
<1> USE DEF Types, KernelTypes, ThreadTypes
<1> DEFINE s == mon[cur]
           n == Len(queue)
           New == upc' \notin {"opened", "joining"}
           Empty == \A b \in Buttons : ~mon'[cur'].p[b]
<1>0. n \in Nat /\ DOMAIN queue = 1..n /\ \A i \in DOMAIN queue : queue[i] \in Events
  BY ElementOfSeq, LenProperties
<1>1. CASE Tick
  BY <1>1 DEF Tick, threads, BeforeInv
<1>2. ASSUME NEW e \in Events, queue' = Append(queue, e), UNCHANGED <<mon, cur, upc>>,
             \A c \in Buttons : held'[c] = "before" => held[c] = "before" /\ ~(e.type = "press" /\ e.button = c),
             e.type = "release" /\ ~e.here => e.button \in Buttons /\ held[e.button] = "before"
      PROVE  BeforeInv'
  <2>1. Len(queue') = n + 1 /\ DOMAIN queue' = 1..(n + 1) /\ \A i \in 1..n : queue'[i] = queue[i]
    BY <1>2, Sent
  <2>2. queue'[n + 1] = e
    BY <1>2, Sent
  <2>3. \A i \in 1..(n + 1) : i \in 1..n \/ i = n + 1
    BY <1>0
  <2>4. ASSUME NEW i \in 1..n, queue'[i].type = "release" /\ ~queue'[i].here
        PROVE  /\ NoPress(queue', i, queue'[i].button)
               /\ New => ~s.p[queue'[i].button]
    <3>1. NoPress(queue, i, queue[i].button) /\ (New => ~s.p[queue[i].button])
      BY <1>0, <1>2, <2>1, <2>4 DEF BeforeInv
    <3>2. i \in 1..(n + 1)
      BY <1>0
    <3> QED
      BY <1>2, <2>1, <3>1, <3>2, KnownBefore
  <2>5. ASSUME e.type = "release", ~e.here
        PROVE  /\ NoPress(queue', n + 1, e.button)
               /\ New => ~s.p[e.button]
    <3>1. NoPress(queue, n + 1, e.button) /\ (New => ~s.p[e.button])
      BY <1>2, <2>5 DEF BeforeInv
    <3>2. n + 1 \in 1..(n + 1)
      BY <1>0
    <3> QED
      BY <1>2, <3>1, <3>2, KnownBefore
  <2>6. ASSUME NEW c \in Buttons, held'[c] = "before"
        PROVE  NoPress(queue', n + 2, c) /\ (New => ~s.p[c])
    <3>1. NoPress(queue, n + 1, c) /\ (New => ~s.p[c])
      BY <1>2, <2>6 DEF BeforeInv
    <3>2. ~(e.type = "press" /\ e.button = c)
      BY <1>2, <2>6
    <3> QED
      BY <1>2, <3>1, <3>2, KnownBehind
  <2>7. Len(queue') + 1 = n + 2
    BY <1>0, <2>1
  <2>8. \A i \in DOMAIN queue' : queue'[i].type = "release" /\ ~queue'[i].here
          => NoPress(queue', i, queue'[i].button) /\ (New => ~s.p[queue'[i].button])
    BY <2>1, <2>2, <2>3, <2>4, <2>5
  <2>9. s = mon'[cur']
    BY <1>2
  <2> QED
    BY <2>6, <2>7, <2>8, <2>9 DEF BeforeInv
<1>3. ASSUME NEW b \in Buttons, PressButton(b)
      PROVE  BeforeInv'
  <2> DEFINE e == Event("press", b, clock, 0, TRUE)
  <2>1. e \in Events /\ e.type = "press" /\ e.button = b
    BY Numbers DEF Event, Events
  <2>2. queue' = Append(queue, e) /\ UNCHANGED <<mon, cur, upc>>
    BY <1>3 DEF PressButton, Sends, threads
  <2>3. held' = [held EXCEPT ![b] = "down"]
    BY <1>3 DEF PressButton
  <2> HIDE DEF e
  <2> QED
    BY <1>2, <2>1, <2>2, <2>3
<1>4. ASSUME NEW b \in Buttons, ReleaseButton(b)
      PROVE  BeforeInv'
  <2> DEFINE e == Event("release", b, clock, age[b], held[b] = "down")
  <2>1. e \in Events /\ e.type = "release" /\ e.button = b /\ (~e.here => held[b] # "down")
    BY DEF Event, Events
  <2>2. queue' = Append(queue, e) /\ UNCHANGED <<mon, cur, upc>>
    BY <1>4 DEF ReleaseButton, Sends, threads
  <2>3. held' = [held EXCEPT ![b] = "up"] /\ held[b] # "up"
    BY <1>4 DEF ReleaseButton
  <2>4. held[b] \in {"up", "down", "before"}
    OBVIOUS
  <2> HIDE DEF e
  <2> QED
    BY <1>2, <2>1, <2>2, <2>3, <2>4
<1>5. ASSUME NEW a \in Axes, MoveAxis(a)
      PROVE  BeforeInv'
  <2>1. PICK dir \in {"plus", "minus"} : Sends(Event(dir, a, 0, 0, TRUE))
    BY <1>5 DEF MoveAxis
  <2> DEFINE e == Event(dir, a, 0, 0, TRUE)
  <2>2. e \in Events /\ e.type \notin {"press", "release"}
    BY Numbers DEF Event, Events
  <2>3. queue' = Append(queue, e) /\ UNCHANGED <<mon, cur, upc, held>>
    BY <1>5, <2>1 DEF MoveAxis, Sends, threads
  <2> HIDE DEF e
  <2> QED
    BY <1>2, <2>2, <2>3
<1>6. CASE Unplug
  <2>1. held' = [b \in Buttons |-> "up"] /\ queue' = <<>>
    BY <1>6 DEF Unplug
  <2> QED
    BY <1>6, <2>1, Emptied DEF BeforeInv
<1>7. CASE \E d \in Devices : Plug(d)
  <2>1. upc' = "opened" /\ DOMAIN queue' = {} /\ Len(queue') = 0
    BY <1>7, Emptied DEF Plug
  <2>2. \A b \in Buttons : NoPress(queue', Len(queue') + 1, b)
    BY <2>1 DEF NoPress
  <2> QED
    BY <2>1, <2>2 DEF BeforeInv
<1>8. CASE (\E m \in Slots : MonRead(m)) /\ queue' # queue
  <2>1. ReadsOne /\ UNCHANGED <<held, upc>>
    BY <1>8, LearnsByReading DEF MonRead
  <2>2. s \in States /\ queue # <<>> /\ queue' = Tail(queue) /\ mon'[cur'] = Handled(s, Head(queue))
    BY <2>1 DEF ReadsOne
  <2>3. n > 0 /\ Len(queue') = n - 1 /\ DOMAIN queue' = 1..(n - 1) /\ \A i \in 1..(n - 1) : queue'[i] = queue[i + 1]
    BY <2>2, Taken
  <2>4. queue[1].type \in {"press", "release"} => queue[1].button \in Buttons
    BY <1>0, <2>3 DEF ButtonsInv
  <2>5. ASSUME NEW i \in 1..(n - 1), queue'[i].type = "release" /\ ~queue'[i].here
        PROVE  /\ NoPress(queue', i, queue'[i].button)
               /\ New => ~mon'[cur'].p[queue'[i].button]
    <3>1. i \in 1..n /\ i + 1 \in 1..n
      BY <1>0
    <3>2. queue[i + 1].button \in Buttons
      BY <1>0, <2>3, <2>5, <3>1 DEF ButtonsInv
    <3>3. NoPress(queue, i + 1, queue[i + 1].button) /\ (New => ~s.p[queue[i + 1].button])
      BY <1>0, <2>1, <2>3, <2>5, <3>1 DEF BeforeInv
    <3>4. NoPress(Tail(queue), i, queue[i + 1].button) /\ (New => ~Handled(s, Head(queue)).p[queue[i + 1].button])
      BY <2>2, <2>4, <3>1, <3>2, <3>3, KnownBeyond
    <3> QED
      BY <2>2, <2>3, <3>4
  <2>6. ASSUME NEW b \in Buttons, held'[b] = "before"
        PROVE  NoPress(queue', n, b) /\ (New => ~mon'[cur'].p[b])
    <3>1. NoPress(queue, n + 1, b) /\ (New => ~s.p[b])
      BY <2>1, <2>6 DEF BeforeInv
    <3>2. n \in 1..n
      BY <1>0, <2>3
    <3> QED
      BY <2>2, <2>4, <3>1, <3>2, KnownBeyond
  <2>7. Len(queue') + 1 = n
    BY <1>0, <2>3
  <2> QED
    BY <2>3, <2>5, <2>6, <2>7 DEF BeforeInv
<1>9. CASE (~Kernel \/ ((\E m \in Slots : MonRead(m)) /\ queue' = queue)) /\ ~(ReadsOne /\ ~KnowsNoMore)
  <2>1. UNCHANGED <<queue, held>> /\ KnowsNoMore
    BY <1>9, LearnsByReading, OthersLeaveTheEvents
  <2>2. New => upc \notin {"opened", "joining"} \/ Empty
    BY OldMonitorGone
  <2>3. \A i \in DOMAIN queue : queue[i].type = "release" => queue[i].button \in Buttons
    BY DEF ButtonsInv
  <2>4. ASSUME New
        PROVE  /\ \A b \in Buttons : held[b] = "before" => ~mon'[cur'].p[b]
               /\ \A i \in DOMAIN queue :
                    queue[i].type = "release" /\ ~queue[i].here => ~mon'[cur'].p[queue[i].button]
    <3>1. CASE Empty
      BY <2>3, <3>1
    <3>2. CASE upc \notin {"opened", "joining"}
      BY <2>1, <2>3, <3>2 DEF BeforeInv, KnowsNoMore
    <3> QED
      BY <2>2, <2>4, <3>1, <3>2
  <2> QED
    BY <2>1, <2>4 DEF BeforeInv
<1>10. ASSUME queue' = queue PROVE ~ReadsOne
  BY <1>10, ReadingTakesOne
<1>11. ASSUME ~Kernel PROVE queue' = queue
  BY <1>11, OthersLeaveTheDevice DEF kernel
<1> QED
  BY <1>1, <1>3, <1>4, <1>5, <1>6, <1>7, <1>8, <1>9, <1>10, <1>11 DEF Kernel

-----------------------------------------------------------------------------
(* The specification *)

\* The invariant holds when the program starts.
LEMMA InitIInv ==
  Init => IInv
<1> SUFFICES ASSUME Init PROVE IInv
  OBVIOUS
<1>1. Types
  <2>1. KernelTypes
    BY Numbers, EmptySeq DEF Init, KernelTypes, Times, ButtonsInv
  <2>2. Fresh \in States /\ Ended \in States
    <3>1. NoEvent \in Happenings
      BY DEF Happenings
    <3>2. Fresh \in States
      BY <3>1, Numbers DEF Fresh, States
    <3> QED
      BY <3>2 DEF Ended, States
  <2>3. ThreadTypes
    BY <2>2 DEF Init, ThreadTypes, Slots, Happenings
  <2>4. Idle \in Loads
    <3>1. <<>> \in Entries
      BY EmptySeq DEF Entries
    <3> QED
      BY <3>1 DEF Idle, Loads
  <2>5. DOMAIN MapOf(<<>>) = {}
    BY DEF MapOf
  <2>6. ids \in Nat \X Nat /\ load \in [Loaders -> Loads]
    BY <2>4 DEF Init
  <2>7. ConfigTypes
    BY <2>5, <2>6 DEF Init, ConfigTypes
  <2> QED
    BY <2>1, <2>3, <2>7 DEF Types
<1>2. TypeOK /\ ButtonsInv
  BY <1>1, TypesAre
<1>3. MonInv
  BY DEF Init, MonInv, Slots, Ended, Fresh
<1>4. mon[cur] = Fresh /\ queue = <<>> /\ DOMAIN queue = {} /\ Len(queue) = 0
  BY DEF Init, Slots
<1>5. PressInv /\ BeforeInv
  BY <1>4 DEF Init, PressInv, BeforeInv, Fresh
<1>6. MapInv
  BY DEF Init, MapInv, LoadsInv, FilledInv, IdsInv, NoIds, Idle, Loaders
<1> QED
  BY <1>2, <1>3, <1>5, <1>6 DEF IInv

\* Every step keeps it.
LEMMA StepIInv ==
  IInv /\ [Next]_vars => IInv'
<1> SUFFICES ASSUME IInv, [Next]_vars PROVE IInv'
  OBVIOUS
<1>1. Types
  BY TypesAre DEF IInv
<1>2. TypeOK' /\ ButtonsInv'
  BY <1>1, KernelTypesKept, ThreadTypesKept, ConfigTypesKept, TypesAre DEF Types
<1>3. MonInv'
  BY <1>1, MonInvKept DEF IInv
<1>4. PressInv' /\ BeforeInv'
  BY <1>1, PressesKept, BeforeKept DEF IInv, MapInv
<1>5. MapInv'
  BY <1>1, LoadsKept, FilledKept, IdsKept DEF IInv, MapInv
<1> QED
  BY <1>2, <1>3, <1>4, <1>5 DEF IInv

\* It holds in every state the threads of the class reach (joystick.cpp:28-259).
THEOREM InductiveInvariant == Spec => []IInv
BY InitIInv, StepIInv, PTL DEF Spec

\* The types, for any device, file of button maps and bounds.
THEOREM TypeCorrect == Spec => []TypeOK
<1>1. IInv => TypeOK
  BY DEF IInv
<1> QED
  BY <1>1, InductiveInvariant, PTL

\* joystick.cpp:44-110, 127: a plug starts a monitor only when the old one has ended,
\* so what the handler asks for is what its monitor set.
THEOREM HandlersSeeTheirEvents == Spec => []HandlerSeesItsEvent
<1>1. IInv => HandlerSeesItsEvent
  BY DEF IInv, MonInv, HandlerSeesItsEvent, TypeOK
<1> QED
  BY <1>1, InductiveInvariant, PTL

\* joystick.cpp:77, 214-259: the map is the section of the ids, and these are of the device.
THEOREM MapsAreOfDevices == Spec => []MapIsOfDevice
<1>1. IInv => MapIsOfDevice
  BY DEF IInv, MapInv, FilledInv, IdsInv, MapIsOfDevice, Settled, Section, Sharing, NoIds
<1> QED
  BY <1>1, InductiveInvariant, PTL

\* joystick.cpp:178: at() throws for a key the file does not name, and only then.
THEOREM OnlyUnmappedKill == Spec => DiesOnlyOfUnmapped
<1>1. ASSUME IInv, Next, phase = "run", phase' = "dead", Settled
      PROVE  \E m \in Slots : /\ mon[m].pc = "lookup"
                              /\ mon[m].key \notin DOMAIN MapOf(SectionOf(Sections, Default, ids))
  <2>1. \A x \in Loaders : load[x].pc = "idle"
    BY <1>1 DEF IInv, MapInv, LoadsInv, Settled, Loaders
  <2>2. settings = MapOf(SectionOf(Sections, Default, ids))
    BY <1>1 DEF IInv, MapInv, FilledInv, Settled, Section
  <2>3. ~Loading
    BY <2>1 DEF Loading
  <2>4. PICK m \in Slots : MonLookup(m)
    BY <1>1, <2>1 DEF Next, User, Tick, Unplug, PressButton, ReleaseButton, MoveAxis, Sends, Monitor,
                      MonTest, MonRead, MonCall, MonCaught, Listen, LoadConfig, LoadClear, LoadScan, LoadIds,
                      LoadPick, LoadFill, Plug, Replug, StopMonitor, StartMonitor, CompareIds, Settled
  <2> QED
    BY <1>1, <2>2, <2>3, <2>4 DEF MonLookup
<1>2. IInv /\ [Next]_vars =>
        [phase = "run" /\ phase' = "dead" /\ Settled =>
           \E m \in Slots : /\ mon[m].pc = "lookup"
                            /\ mon[m].key \notin DOMAIN MapOf(SectionOf(Sections, Default, ids))]_vars
  BY <1>1 DEF vars
<1> QED
  BY <1>2, InductiveInvariant, PTL DEF Spec, DiesOnlyOfUnmapped

\* What the first event, a release, finds in the monitor.
LEMMA FirstRelease ==
  ASSUME IInv, queue # <<>>, Head(queue).type = "release"
  PROVE  /\ Head(queue) \in Events /\ Head(queue).button \in Buttons /\ mon[cur] \in States
         /\ Head(queue).here /\ Head(queue).age < Wrap /\ mon[cur].p[Head(queue).button]
            => Since(mon[cur].time[Head(queue).button], Head(queue).age, Head(queue).time)
         /\ ~Head(queue).here /\ upc \notin {"opened", "joining"} => ~mon[cur].p[Head(queue).button]
<1>1. Types
  BY TypesAre DEF IInv
<1>2. queue \in Seq(Events) /\ mon[cur] \in States
  BY <1>1 DEF Types, KernelTypes, ThreadTypes
<1>3. Head(queue) = queue[1] /\ 1 \in DOMAIN queue /\ queue[1] \in Events
  <2>1. Len(queue) \in Nat /\ Len(queue) > 0 /\ DOMAIN queue = 1..Len(queue)
    BY <1>2, EmptySeq
  <2> QED
    BY <1>2, <2>1, ElementOfSeq, HeadTailProperties
<1>4. queue[1].button \in Buttons
  BY <1>3 DEF IInv, ButtonsInv
<1>5. \A b : NoPress(queue, 1, b)
  BY DEF NoPress
<1>6. queue[1].here /\ queue[1].age < Wrap /\ mon[cur].p[queue[1].button]
      => Since(mon[cur].time[queue[1].button], queue[1].age, queue[1].time)
  BY <1>3, <1>5 DEF IInv, PressInv, Known
<1>7. ~queue[1].here /\ upc \notin {"opened", "joining"} => ~mon[cur].p[queue[1].button]
  BY <1>3 DEF IInv, BeforeInv
<1> QED
  BY <1>2, <1>3, <1>4, <1>6, <1>7

\* joystick.cpp:156-165: the subtraction of two 32-bit stamps is the length of the press.
THEOREM PressesAreMeasured == Spec => PressesMeanWhatTheyLast
<1> DEFINE e == Head(queue)
           Means(m) ==
             /\ mon[m].pc = "read" /\ mon'[m].pc # "read" /\ queue # <<>>
             /\ e.type = "release" /\ e.here /\ e.age < Wrap /\ mon[m].p[e.button]
             => IF Kind(e.age) = Nothing THEN mon'[m].pc = "test"
                ELSE mon'[m].pc = "lookup" /\ mon'[m].key = e.button + Kind(e.age)
<1>1. ASSUME IInv, Next, NEW m \in Slots,
             mon[m].pc = "read" /\ mon'[m].pc # "read" /\ queue # <<>>,
             e.type = "release" /\ e.here /\ e.age < Wrap /\ mon[m].p[e.button]
      PROVE  IF Kind(e.age) = Nothing THEN mon'[m].pc = "test"
             ELSE mon'[m].pc = "lookup" /\ mon'[m].key = e.button + Kind(e.age)
  <2>1. m = cur
    BY <1>1 DEF IInv, MonInv
  <2>2. e \in Events /\ e.button \in Buttons /\ mon[m] \in States
    BY <1>1, <2>1, FirstRelease
  <2>3. Since(mon[m].time[e.button], e.age, e.time)
    BY <1>1, <2>1, FirstRelease
  <2>4. mon[m].time[e.button] \in Times /\ e.time \in Times /\ e.age \in 0..Wrap
    BY <2>2 DEF Events, States
  <2>5. Elapsed(e.time, mon[m].time[e.button]) = e.age
    <3>1. e.age \in Nat
      BY <2>4, Numbers
    <3> QED
      BY <1>1, <2>3, <2>4, <3>1, ElapsedIsAge
  <2>6. MonRead(m)
    <3>1. \A x \in Slots : x # m => mon[x].pc = "ended"
      BY <1>1, <2>1 DEF IInv, MonInv
    <3>2. mon \in [Slots -> States]
      BY <1>1, TypesAre DEF IInv, Types, ThreadTypes
    <3>3. mon' # mon /\ mon[m].pc = "read"
      BY <1>1
    <3>4. ~StartMonitor
      BY <1>1, <2>1 DEF StartMonitor
    <3>5. ~(User \/ Listen \/ (\E x \in Loaders : LoadConfig(x)) \/ (\E d \in Devices : Plug(d)))
      BY <3>3 DEF User, Tick, Unplug, PressButton, ReleaseButton, MoveAxis, Sends, Listen, LoadConfig,
                  LoadClear, LoadScan, LoadIds, LoadPick, LoadFill, Plug, threads
    <3>6. ~StopMonitor /\ ~CompareIds
      BY <3>3 DEF StopMonitor, CompareIds, threads
    <3>7. PICK x \in Slots : Monitor(x)
      BY <1>1, <3>4, <3>5, <3>6 DEF Next, Replug
    <3>8. x = m
      BY <3>1, <3>7 DEF Monitor, MonTest, MonRead, MonLookup, MonCall, MonCaught
    <3> QED
      BY <3>3, <3>7, <3>8 DEF Monitor, MonTest, MonLookup, MonCall, MonCaught
  <2>7. mon'[m] = Handled(mon[m], e)
    <3>1. mon \in [Slots -> States]
      BY <1>1, TypesAre DEF IInv, Types, ThreadTypes
    <3> QED
      BY <1>1, <2>6, <3>1 DEF MonRead
  <2> DEFINE r == [mon[m] EXCEPT !.p[e.button] = FALSE, !.time[e.button] = 0]
  <2>8. Handled(mon[m], e) =
          IF Kind(e.age) = Nothing THEN [r EXCEPT !.pc = "test"] ELSE Lookup(r, e.button + Kind(e.age))
    BY <1>1, <2>5 DEF Handled
  <2>9. [r EXCEPT !.pc = "test"].pc = "test" /\ \A k : Lookup(r, k).pc = "lookup" /\ Lookup(r, k).key = k
    BY <2>2 DEF Lookup, States
  <2> HIDE DEF r
  <2> QED
    BY <2>7, <2>8, <2>9
<1>2. IInv /\ [Next]_vars => [\A m \in Slots : Means(m)]_vars
  BY <1>1 DEF vars
<1> QED
  BY <1>2, InductiveInvariant, PTL DEF Spec, PressesMeanWhatTheyLast

\* joystick.cpp:150-158: a release without its press on this device does nothing.
THEOREM ReleasesNeedPresses == Spec => NoPressNoEvent
<1> DEFINE e == Head(queue)
<1>1. ASSUME IInv, Next, NEW m \in Slots,
             mon[m].pc = "read", queue # <<>>, e.type = "release", ~e.here, upc \notin {"opened", "joining"}
      PROVE  mon'[m].pc # "lookup"
  <2>1. m = cur /\ mon \in [Slots -> States]
    BY <1>1, TypesAre DEF IInv, MonInv, Types, ThreadTypes
  <2>2. e.button \in Buttons /\ mon[m] \in States /\ ~mon[m].p[e.button]
    BY <1>1, <2>1, FirstRelease
  <2>3. Handled(mon[m], e) = [mon[m] EXCEPT !.pc = "test"]
    BY <1>1, <2>2 DEF Handled
  <2>4. Handled(mon[m], e).pc = "test"
    BY <2>2, <2>3 DEF States
  <2>5. CASE mon' = mon
    BY <1>1, <2>5
  <2>6. ASSUME NEW x \in Slots, Monitor(x)
        PROVE  mon'[m].pc # "lookup"
    <3>1. x = m
      BY <1>1, <2>1, <2>6 DEF Monitor, MonTest, MonRead, MonLookup, MonCall, MonCaught, IInv, MonInv
    <3>2. MonRead(m)
      BY <1>1, <2>6, <3>1 DEF Monitor, MonTest, MonLookup, MonCall, MonCaught
    <3> QED
      BY <1>1, <2>1, <2>4, <3>2 DEF MonRead
  <2>7. CASE StartMonitor
    BY <1>1, <2>1, <2>7 DEF StartMonitor
  <2>8. CASE User \/ Listen \/ (\E x \in Loaders : LoadConfig(x)) \/ (\E d \in Devices : Plug(d))
             \/ StopMonitor \/ CompareIds
    <3>1. mon' = mon
      BY <2>8 DEF User, Tick, Unplug, PressButton, ReleaseButton, MoveAxis, Sends, Listen, LoadConfig,
                  LoadClear, LoadScan, LoadIds, LoadPick, LoadFill, Plug, StopMonitor, CompareIds, threads
    <3> QED
      BY <2>5, <3>1
  <2> QED
    BY <1>1, <2>6, <2>7, <2>8 DEF Next, Replug
<1>2. IInv /\ [Next]_vars =>
        [\A m \in Slots :
           LET h == Head(queue) IN
           /\ mon[m].pc = "read" /\ queue # <<>> /\ h.type = "release" /\ ~h.here
           /\ upc \notin {"opened", "joining"}
           => mon'[m].pc # "lookup"]_vars
  BY <1>1 DEF vars
<1> QED
  BY <1>2, InductiveInvariant, PTL DEF Spec, NoPressNoEvent

=============================================================================
