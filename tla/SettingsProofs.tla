--------------------------- MODULE SettingsProofs ---------------------------
(***************************************************************************)
(* What module Settings promises, for any number of threads and playlists. *)
(***************************************************************************)
EXTENDS Settings, TLAPS

AllIdle == \A x \in Writers : pc[x] = "idle"
NoneSaving == \A x \in Writers : ~Saving(x)

\* Who is in put: nobody before the constructor and after the end, only the
\* constructor while it lasts, then everybody else.
WhoInv ==
  /\ phase \in {"down", "failed"} => AllIdle
  /\ phase = "first" => \A x \in Threads : pc[x] = "idle"
  /\ phase = "run" => pc["main"] = "idle"

\* As long as saves do not overlap, one at most is under way, and the last change
\* of the memory is in the file, in the buffer of that save, or still to be saved.
NewestInv ==
  ~overlapped =>
    /\ \A x, y \in Writers : Saving(x) /\ Saving(y) => x = y
    /\ phase = "run" \/ (phase = "first" /\ puts > 0) =>
         \/ \E x \in Writers : pc[x] \in {"open", "dump"}
         \/ \E x \in Writers : pc[x] = "close" /\ buffer[x] = memory
         \/ NoneSaving /\ file = Whole(memory)

\* The puts of the first start are in memory.
PutsInv ==
  phase = "first" => \A i \in 1..5 : i <= puts => FirstPuts[i] \in memory.keys

\* Once the program runs, whatever it writes can be started with.
CompleteInv ==
  phase = "run" =>
    /\ Complete(memory)
    /\ \A x \in Writers : pc[x] = "close" => Complete(buffer[x])
    /\ ~overlapped /\ NoneSaving => file.state = "whole" /\ Complete(file.content)

\* Who finds no usable file was hurt.
HurtInv == (phase \in {"down", "failed"} /\ ~Usable) \/ phase = "failed" => hurt

IInv == TypeOK /\ WhoInv /\ NewestInv /\ PutsInv /\ CompleteInv /\ HurtInv

\* The values a file and a memory can have.
LEMMA Contents ==
  /\ Nothing \in Content
  /\ Absent \in [state : {"absent", "torn", "whole"}, content : Content]
  /\ Torn \in [state : {"absent", "torn", "whole"}, content : Content]
  /\ \A c \in Content : Whole(c) \in [state : {"absent", "torn", "whole"}, content : Content]
  BY SettingsAssumption DEF Nothing, Content, Absent, Torn, Whole

\* The constructor puts five keys, and saves once more.
LEMMA FivePuts == Len(FirstPuts) = 5
  BY DEF FirstPuts

\* Before the first start there is no file.
LEMMA InitIInv == Init => IInv
<1> SUFFICES ASSUME Init PROVE IInv
  OBVIOUS
<1>1. DataOK
  BY Contents DEF Init, DataOK, Idle
<1>5. TypeOK
  BY <1>1 DEF Init, TypeOK, DataOK
<1>2. AllIdle
  BY DEF Init, AllIdle, Idle
<1>3. Usable /\ phase = "down"
  BY DEF Init, Usable
<1>4. WhoInv /\ NewestInv /\ PutsInv /\ CompleteInv /\ HurtInv
  BY <1>2, <1>3 DEF AllIdle, WhoInv, NewestInv, PutsInv, CompleteInv, HurtInv, Saving
<1> QED
  BY <1>4, <1>5 DEF IInv

\* A put of a thread.
LEMMA PutKeepsIInv ==
  ASSUME IInv, NEW x \in Threads, NEW p \in Playlists, PutPlaylist(x, p)
  PROVE  IInv'
<1>1. /\ phase = "run" /\ pc[x] = "idle" /\ x \in Writers /\ x # "main"
      /\ pc' = [pc EXCEPT ![x] = "open"]
      /\ memory' = [memory EXCEPT !.current = p]
      /\ UNCHANGED <<file, buffer, overlapped, phase, puts, hurt>>
  BY SettingsAssumption DEF PutPlaylist, Put, Writers
<1>2. memory' \in Content /\ memory'.keys = memory.keys
  BY <1>1 DEF IInv, TypeOK, DataOK, Content
<1>3. TypeOK'
  <2>1. DataOK'
    BY <1>1, <1>2 DEF IInv, TypeOK, DataOK
  <2>2. puts' \in 0..6
    BY <1>1, <1>2 DEF IInv, TypeOK
  <2> QED
    BY <2>1, <2>2 DEF TypeOK
<1>4. pc'[x] = "open" /\ \A y \in Writers : y # x => pc'[y] = pc[y]
  BY <1>1 DEF IInv, TypeOK, DataOK
<1>5. \A y \in Writers : Saving(y)' <=> Saving(y)
  BY <1>1, <1>4 DEF Saving
<1>6. WhoInv' /\ PutsInv' /\ HurtInv'
  BY <1>1, <1>4, SettingsAssumption DEF IInv, WhoInv, PutsInv, HurtInv, AllIdle, Usable, Writers
<1>7. NewestInv'
  BY <1>1, <1>4, <1>5 DEF IInv, NewestInv
<1>8. CompleteInv'
  BY <1>1, <1>2, <1>4, <1>5 DEF IInv, CompleteInv, Complete, NoneSaving
<1> QED
  BY <1>3, <1>6, <1>7, <1>8 DEF IInv

\* The constructor of a first start.
LEMMA FirstKeepsIInv ==
  ASSUME IInv, FirstPut \/ FirstSave \/ FirstDone
  PROVE  IInv'
<1>0. "main" \in Writers
  BY DEF Writers
<1>1. Len(FirstPuts) = 5
  BY FivePuts
<1>2. CASE FirstPut
  <2>0. puts \in 0..4 /\ puts' = puts + 1
    BY <1>1, <1>2 DEF FirstPut, IInv, TypeOK
  <2>1. /\ phase = "first" /\ pc["main"] = "idle"
        /\ pc' = [pc EXCEPT !["main"] = "open"]
        /\ memory' = [memory EXCEPT !.keys = @ \cup {FirstPuts[puts + 1]}]
        /\ UNCHANGED <<file, buffer, overlapped, phase, hurt>>
    BY <1>1, <1>2 DEF FirstPut, Put
  <2>2. FirstPuts[puts + 1] \in Keys
    BY <2>0 DEF FirstPuts, Keys
  <2>3. memory' \in Content /\ memory'.keys = memory.keys \cup {FirstPuts[puts + 1]}
    BY <2>1, <2>2 DEF IInv, TypeOK, DataOK, Content
  <2>4. TypeOK'
    <3>1. DataOK'
      BY <1>0, <2>1, <2>3 DEF IInv, TypeOK, DataOK
    <3>2. puts' \in 0..6
      BY <2>0
    <3> QED
      BY <3>1, <3>2 DEF TypeOK
  <2>5. pc'["main"] = "open" /\ \A y \in Writers : y # "main" => pc'[y] = pc[y]
    BY <1>0, <2>1 DEF IInv, TypeOK, DataOK
  <2>6. \A y \in Writers : Saving(y)' <=> Saving(y)
    BY <2>1, <2>5 DEF Saving
  <2>7. WhoInv' /\ CompleteInv' /\ HurtInv'
    BY <2>1, <2>5, SettingsAssumption DEF IInv, WhoInv, CompleteInv, HurtInv, Usable, Writers
  <2>8. NewestInv'
    BY <1>0, <2>0, <2>1, <2>5, <2>6 DEF IInv, NewestInv
  <2>9. PutsInv'
    <3> SUFFICES ASSUME NEW i \in 1..5, i <= puts + 1 PROVE FirstPuts[i] \in memory'.keys
      BY <2>0, <2>1 DEF PutsInv
    <3>1. CASE i <= puts
      BY <3>1, <2>1, <2>3 DEF IInv, PutsInv
    <3>2. CASE i = puts + 1
      BY <3>2, <2>3
    <3> QED
      BY <3>1, <3>2, <2>0
  <2> QED
    BY <2>4, <2>7, <2>8, <2>9 DEF IInv
<1>3. CASE FirstSave
  <2>0. puts = 5 /\ puts' = 6
    BY <1>1, <1>3 DEF FirstSave
  <2>1. /\ phase = "first" /\ pc["main"] = "idle"
        /\ pc' = [pc EXCEPT !["main"] = "open"]
        /\ UNCHANGED <<file, memory, phase, buffer, overlapped, hurt>>
    BY <1>1, <1>3 DEF FirstSave
  <2>2. TypeOK'
    <3>1. DataOK'
      BY <1>0, <2>1 DEF IInv, TypeOK, DataOK
    <3>2. puts' \in 0..6
      BY <2>0
    <3> QED
      BY <3>1, <3>2 DEF TypeOK
  <2>3. pc'["main"] = "open" /\ \A y \in Writers : y # "main" => pc'[y] = pc[y]
    BY <1>0, <2>1 DEF IInv, TypeOK, DataOK
  <2>4. \A y \in Writers : Saving(y)' <=> Saving(y)
    BY <2>1, <2>3 DEF Saving
  <2>5. WhoInv' /\ CompleteInv' /\ HurtInv' /\ PutsInv'
    BY <2>0, <2>1, <2>3, SettingsAssumption DEF IInv, WhoInv, CompleteInv, HurtInv, PutsInv, Usable, Writers
  <2>6. NewestInv'
    BY <1>0, <2>0, <2>1, <2>3, <2>4 DEF IInv, NewestInv
  <2> QED
    BY <2>2, <2>5, <2>6 DEF IInv
<1>4. CASE FirstDone
  <2>1. /\ phase = "first" /\ pc["main"] = "idle" /\ puts > 5 /\ phase' = "run"
        /\ UNCHANGED <<file, memory, puts, pc, buffer, overlapped, hurt>>
    BY <1>1, <1>4 DEF FirstDone
  <2>2. TypeOK' /\ PutsInv' /\ HurtInv'
    BY <2>1 DEF IInv, TypeOK, DataOK, PutsInv, HurtInv
  <2>3. AllIdle
    BY <2>1 DEF IInv, WhoInv, AllIdle, Writers
  <2>4. NoneSaving
    BY <2>3 DEF AllIdle, NoneSaving, Saving
  <2>5. Complete(memory)
    BY <2>1 DEF IInv, TypeOK, DataOK, PutsInv, Complete, Asked, FirstPuts
  <2>6. ~overlapped => file = Whole(memory)
    BY <2>1, <2>3, Contents DEF IInv, TypeOK, DataOK, NewestInv, AllIdle
  <2>7. WhoInv' /\ NewestInv'
    BY <1>0, <2>1, <2>3, <2>4, <2>6 DEF IInv, WhoInv, NewestInv, AllIdle, NoneSaving, Saving, Whole
  <2>8. CompleteInv'
    BY <2>1, <2>3, <2>5, <2>6 DEF CompleteInv, Complete, NoneSaving, Saving, Whole, AllIdle
  <2> QED
    BY <2>2, <2>7, <2>8 DEF IInv
<1> QED
  BY <1>2, <1>3, <1>4

\* A save, of any thread.
LEMMA SaveKeepsIInv ==
  ASSUME IInv, NEW x \in Writers, Save(x)
  PROVE  IInv'
<1>1. CASE Open(x)
  <2>1. /\ pc[x] = "open" /\ file' = Torn
        /\ overlapped' = (overlapped \/ \E y \in Writers \ {x} : Saving(y))
        /\ pc' = [pc EXCEPT ![x] = "dump"]
        /\ UNCHANGED <<memory, phase, puts, buffer, hurt>>
    BY <1>1 DEF Open
  <2>2. TypeOK'
    <3>1. DataOK'
      BY <2>1, Contents DEF IInv, TypeOK, DataOK
    <3>2. puts' \in 0..6
      BY <2>1 DEF IInv, TypeOK
    <3> QED
      BY <3>1, <3>2 DEF TypeOK
  <2>3. pc'[x] = "dump" /\ \A y \in Writers : y # x => pc'[y] = pc[y]
    BY <2>1 DEF IInv, TypeOK, DataOK
  <2>4. WhoInv' /\ PutsInv' /\ HurtInv'
    BY <2>1, <2>3 DEF IInv, WhoInv, PutsInv, HurtInv, AllIdle, Writers
  <2>5. NewestInv' /\ CompleteInv'
    BY <2>1, <2>3 DEF IInv, NewestInv, CompleteInv, Saving, NoneSaving
  <2> QED
    BY <2>2, <2>4, <2>5 DEF IInv
<1>2. CASE Dump(x)
  <2>1. /\ pc[x] = "dump" /\ buffer' = [buffer EXCEPT ![x] = memory]
        /\ pc' = [pc EXCEPT ![x] = "close"]
        /\ UNCHANGED <<file, memory, phase, puts, overlapped, hurt>>
    BY <1>2 DEF Dump
  <2>2. TypeOK'
    <3>1. DataOK'
      BY <2>1 DEF IInv, TypeOK, DataOK
    <3>2. puts' \in 0..6
      BY <2>1 DEF IInv, TypeOK
    <3> QED
      BY <3>1, <3>2 DEF TypeOK
  <2>3. /\ pc'[x] = "close" /\ buffer'[x] = memory
        /\ \A y \in Writers : y # x => pc'[y] = pc[y] /\ buffer'[y] = buffer[y]
    BY <2>1 DEF IInv, TypeOK, DataOK
  <2>4. WhoInv' /\ PutsInv' /\ HurtInv'
    BY <2>1, <2>3 DEF IInv, WhoInv, PutsInv, HurtInv, AllIdle, Writers, Usable
  <2>5. NewestInv' /\ CompleteInv'
    BY <2>1, <2>3 DEF IInv, NewestInv, CompleteInv, Saving, NoneSaving
  <2> QED
    BY <2>2, <2>4, <2>5 DEF IInv
<1>3. CASE Close(x)
  <2>1. /\ pc[x] = "close" /\ (file' = Whole(buffer[x]) \/ (overlapped /\ file' = Torn))
        /\ pc' = [pc EXCEPT ![x] = "idle"] /\ buffer' = [buffer EXCEPT ![x] = Nothing]
        /\ UNCHANGED <<memory, phase, puts, overlapped, hurt>>
    BY <1>3 DEF Close
  <2>2. TypeOK'
    <3>1. DataOK'
      BY <2>1, Contents DEF IInv, TypeOK, DataOK
    <3>2. puts' \in 0..6
      BY <2>1 DEF IInv, TypeOK
    <3> QED
      BY <3>1, <3>2 DEF TypeOK
  <2>3. /\ pc'[x] = "idle"
        /\ \A y \in Writers : y # x => pc'[y] = pc[y] /\ buffer'[y] = buffer[y]
    BY <2>1 DEF IInv, TypeOK, DataOK
  <2>4. WhoInv' /\ PutsInv' /\ HurtInv'
    BY <2>1, <2>3 DEF IInv, WhoInv, PutsInv, HurtInv, AllIdle, Writers
  <2>5. NewestInv'
    <3> SUFFICES ASSUME ~overlapped PROVE NewestInv'
      BY <2>1 DEF NewestInv
    <3>1. \A y \in Writers : Saving(y) => y = x
      BY <2>1 DEF IInv, NewestInv, Saving
    <3>2. NoneSaving'
      BY <2>3, <3>1 DEF NoneSaving, Saving
    <3>3. file' = Whole(buffer[x])
      BY <2>1
    <3>4. ASSUME NEW y \in Writers, pc[y] \in {"open", "dump"} PROVE pc'[y] \in {"open", "dump"}
      BY <3>4, <2>1, <2>3
    <3>5. ASSUME NEW y \in Writers, pc[y] = "close", buffer[y] = memory PROVE file' = Whole(memory')
      BY <3>5, <2>1, <3>1, <3>3 DEF Saving
    <3> QED
      BY <2>1, <3>2, <3>4, <3>5 DEF IInv, NewestInv, NoneSaving, Saving
  <2>6. CompleteInv'
    BY <2>1, <2>3 DEF IInv, CompleteInv, Saving, NoneSaving, Whole
  <2> QED
    BY <2>2, <2>4, <2>5, <2>6 DEF IInv
<1> QED
  BY <1>1, <1>2, <1>3 DEF Save

\* The constructor when it finds a file or none.
LEMMA StartKeepsIInv ==
  ASSUME IInv, Start
  PROVE  IInv'
<1>1. /\ phase = "down" /\ AllIdle /\ overlapped' = FALSE /\ puts' = 0
      /\ UNCHANGED <<file, pc, buffer>>
  BY DEF Start, IInv, WhoInv
<1>2. file \in [state : {"absent", "torn", "whole"}, content : Content]
  BY DEF IInv, TypeOK, DataOK
<1>3. AllIdle' /\ NoneSaving'
  BY <1>1 DEF AllIdle, NoneSaving, Saving
<1>4. CASE file = Absent /\ phase' = "first" /\ memory' = Nothing /\ hurt' = FALSE
  <2>1. TypeOK'
    <3>1. DataOK'
      BY <1>1, <1>4, Contents DEF IInv, TypeOK, DataOK
    <3>2. puts' \in 0..6
      BY <1>1, <1>4 DEF IInv, TypeOK
    <3> QED
      BY <3>1, <3>2 DEF TypeOK
  <2>2. WhoInv' /\ NewestInv' /\ CompleteInv' /\ HurtInv'
    BY <1>1, <1>3, <1>4 DEF WhoInv, NewestInv, CompleteInv, HurtInv, AllIdle, NoneSaving, Writers
  <2>3. PutsInv'
    BY <1>1 DEF PutsInv
  <2> QED
    BY <2>1, <2>2, <2>3 DEF IInv
<1>5. CASE /\ file.state = "whole" /\ memory' = file.content
           /\ phase' = IF Complete(file.content) THEN "run" ELSE "failed"
           /\ hurt' = (hurt /\ phase' = "failed")
  <2>1. file = Whole(memory') /\ memory' \in Content
    BY <1>2, <1>5 DEF Whole
  <2>2. TypeOK'
    <3>1. DataOK'
      BY <1>1, <1>5, <2>1 DEF IInv, TypeOK, DataOK
    <3>2. puts' \in 0..6
      BY <1>1, <1>5, <2>1 DEF IInv, TypeOK
    <3> QED
      BY <3>1, <3>2 DEF TypeOK
  <2>3. ~Complete(file.content) => hurt
    BY <1>1, <1>5, <2>1 DEF IInv, HurtInv, Usable, Absent, Whole
  <2>4. WhoInv' /\ NewestInv' /\ PutsInv'
    BY <1>1, <1>3, <1>5, <2>1 DEF WhoInv, NewestInv, PutsInv, AllIdle, NoneSaving, Writers
  <2>5. CompleteInv' /\ HurtInv'
    BY <1>1, <1>3, <1>5, <2>3 DEF CompleteInv, HurtInv, AllIdle, Complete
  <2> QED
    BY <2>2, <2>4, <2>5 DEF IInv
<1>6. CASE file.state = "torn" /\ phase' = "failed" /\ UNCHANGED <<memory, hurt>>
  <2>1. ~Usable
    BY <1>6 DEF Usable, Absent
  <2>2. TypeOK'
    <3>1. DataOK'
      BY <1>1, <1>6 DEF IInv, TypeOK, DataOK
    <3>2. puts' \in 0..6
      BY <1>1, <1>6 DEF IInv, TypeOK
    <3> QED
      BY <3>1, <3>2 DEF TypeOK
  <2>3. hurt
    BY <1>1, <2>1 DEF IInv, HurtInv
  <2>4. WhoInv' /\ NewestInv' /\ PutsInv' /\ CompleteInv'
    BY <1>1, <1>3, <1>6 DEF WhoInv, NewestInv, PutsInv, CompleteInv, AllIdle, NoneSaving, Writers
  <2>5. HurtInv'
    BY <1>6, <2>3 DEF HurtInv
  <2> QED
    BY <2>2, <2>4, <2>5 DEF IInv
<1> QED
  BY <1>4, <1>5, <1>6 DEF Start

\* The process ends, wherever it is.
LEMMA EndKeepsIInv ==
  ASSUME IInv, End
  PROVE  IInv'
<1>1. /\ phase # "down" /\ phase' = "down"
      /\ hurt' = (hurt \/ phase = "first" \/ overlapped \/ \E x \in Writers : Saving(x))
      /\ pc' = Idle /\ buffer' = [x \in Writers |-> Nothing]
      /\ memory' = Nothing /\ overlapped' = FALSE /\ UNCHANGED <<file, puts>>
  BY DEF End
<1>2. TypeOK'
  <2>1. DataOK'
    BY <1>1, Contents DEF IInv, TypeOK, DataOK, Idle
  <2>2. puts' \in 0..6
    BY <1>1 DEF IInv, TypeOK
  <2> QED
    BY <2>1, <2>2 DEF TypeOK
<1>3. AllIdle'
  BY <1>1 DEF AllIdle, Idle
<1>4. HurtInv'
  BY <1>1 DEF IInv, TypeOK, DataOK, HurtInv, CompleteInv, NoneSaving, Usable
<1>5. WhoInv' /\ NewestInv' /\ PutsInv' /\ CompleteInv'
  BY <1>1, <1>3 DEF WhoInv, NewestInv, PutsInv, CompleteInv, AllIdle, Saving
<1> QED
  BY <1>2, <1>4, <1>5 DEF IInv

\* Every step keeps it.
LEMMA NextKeepsIInv == IInv /\ [Next]_vars => IInv'
<1> SUFFICES ASSUME IInv, [Next]_vars PROVE IInv'
  OBVIOUS
<1>1. CASE UNCHANGED vars
  BY <1>1 DEF vars, IInv, TypeOK, DataOK, WhoInv, NewestInv, PutsInv, CompleteInv, HurtInv, AllIdle,
              NoneSaving, Saving, Usable, Complete
<1> QED
  BY <1>1, PutKeepsIInv, FirstKeepsIInv, SaveKeepsIInv, StartKeepsIInv, EndKeepsIInv DEF Next

\* In every reachable state of the settings the invariant holds (config.cpp:13-49).
THEOREM InductiveInvariant == Spec => []IInv
  BY InitIInv, NextKeepsIInv, PTL DEF Spec

\* Every variable of the settings keeps its type, at any end of the process.
THEOREM TypeCorrect == Spec => []TypeOK
<1>1. IInv => TypeOK
  BY DEF IInv
<1> QED
  BY <1>1, InductiveInvariant, PTL

\* When every put has returned and no two saves overlapped, the file holds what
\* memory holds, whatever the order of the puts of any number of threads
\* (config.h:16-21, config.cpp:46-49).
THEOREM NothingUnsaved == Spec => []FileIsMemory
<1>1. "main" \in Writers
  BY DEF Writers
<1>2. IInv => FileIsMemory
  BY <1>1 DEF IInv, FileIsMemory, NewestInv
<1> QED
  BY <1>2, InductiveInvariant, PTL

\* A start fails only after an end in the first start, in a save, or after saves
\* that overlapped (config.cpp:20-33, 46-49).
THEOREM StartsUnlessHurt == Spec => []StartsAgain
<1>1. IInv => StartsAgain
  BY DEF IInv, StartsAgain, HurtInv
<1> QED
  BY <1>1, InductiveInvariant, PTL

\* A file the program cannot start with is never replaced by one it can start
\* with (config.cpp:20-24).
THEOREM StaysBroken == Spec => NeverRepaired
<1>1. IInv /\ [Next]_vars => [~Usable /\ phase \in {"down", "failed"} => ~Usable' /\ phase' \in {"down", "failed"}]_vars
  <2> SUFFICES ASSUME IInv, Next, ~Usable, phase \in {"down", "failed"}
               PROVE  ~Usable' /\ phase' \in {"down", "failed"}
    OBVIOUS
  <2>1. AllIdle /\ phase \notin {"first", "run"}
    BY DEF IInv, WhoInv
  <2>2. \A x \in Writers : ~Save(x)
    BY <2>1 DEF AllIdle, Save, Open, Dump, Close
  <2>3. Start \/ End
    BY <2>1, <2>2 DEF Next, FirstPut, FirstSave, FirstDone, PutPlaylist
  <2>4. UNCHANGED file
    BY <2>3 DEF Start, End
  <2>5. ~Usable'
    BY <2>4 DEF Usable, Complete
  <2>6. phase' \in {"down", "failed"}
    BY <2>3 DEF Start, End, Usable
  <2> QED
    BY <2>5, <2>6
<1> QED
  BY <1>1, InductiveInvariant, PTL DEF Spec, NeverRepaired

=============================================================================
