------------------------ MODULE PlayerThreadsProofs ------------------------
(***************************************************************************)
(* The threads of the program.  What module PlayerThreads promises, for    *)
(* any number of tracks and of threads that call next, previous and play,  *)
(* and what module Wsocket does, for any number of connections.            *)
(***************************************************************************)
EXTENDS PlayerThreads, TLAPS

Stopped == {"deref", "caught", "assign", "path", "uri", "start"}
Playing == {"null", "distance", "save"} \cup Stopped

\* Where a thread is tells what it does.
OpInv ==
  \A t \in Threads :
    /\ pc[t] \in {"step", "stepped", "last", "wrap"} => op[t] = "next"
    /\ pc[t] \in {"first", "toend", "back", "backed"} => op[t] = "previous"

\* An operation nothing overlapped so far is the only one there is.
LoneInv ==
  \A t, u \in Threads : t # u /\ Busy(t) /\ ~overlapped[t] => ~Busy(u)

\* As long as previous overlaps no other step of the cursor, whatever overlaps
\* each other is next,
CrossInv ==
  ~crossed =>
    \A t, u \in Threads :
      t # u /\ Busy(t) /\ Busy(u) /\ Moves(op[t]) /\ Moves(op[u]) => op[t] = "next"

\* the cursor stays where previous saw it,
BackInv ==
  ~crossed =>
    \A t \in Threads : pc[t] \in {"back", "backed"} => reg[t] = it_track /\ it_track # 0

\* and whoever moved it to end() is about to move it on.
EndInv ==
  ~crossed /\ it_track = End =>
    \E t \in Threads : (pc[t] = "last" /\ reg[t] = End) \/ pc[t] \in {"wrap", "back", "backed"}

\* Somebody is about to start a pipeline that was stopped.
StartInv == playbin = "null" => \E t \in Threads : pc[t] \in Stopped

\* What a step of the cursor knows if nothing overlapped it so far.
Agrees(t) ==
  /\ pc[t] = "last" => reg[t] = it_track
  /\ pc[t] \in {"back", "backed"} => reg[t] = it_track /\ it_track # 0
  /\ pc[t] \in Playing => it_track # End
  /\ pc[t] \in Stopped => playbin = "null"
  /\ pc[t] \in {"assign", "uri", "save"} => reg[t] = it_track
  /\ pc[t] \in {"path", "uri", "start", "distance", "save"} => current_track = it_track
  /\ pc[t] \in {"start", "distance", "save"} => uri = it_track
  /\ pc[t] \in {"distance", "save"} => heard \in {it_track, End}

AgreeInv == \A t \in Threads : Busy(t) /\ ~overlapped[t] /\ Moves(op[t]) => Agrees(t)

IInv ==
  /\ TypeOK /\ OpInv /\ LoneInv
  /\ CrossInv /\ BackInv /\ EndInv /\ StartInv /\ AgreeInv

-----------------------------------------------------------------------------
(* The list and the calls *)

\* ++ and -- stay on the circle; only the last track is before end(), and only the
\* first one behind it.
LEMMA Circle ==
  ASSUME NEW i \in Cursor
  PROVE  /\ After(i) \in Cursor /\ Before(i) \in Cursor
         /\ End \in Cursor /\ 0 \in Cursor /\ 0 # End
         /\ Before(i) = End => i = 0
BY PlayerThreadsAssumption DEF Cursor, After, Before, End

\* Before the first call the player plays the track it came back to.
LEMMA InitIInv == Init => IInv
<1> SUFFICES ASSUME Init PROVE IInv
  OBVIOUS
<1>1. it_track \in Cursor /\ 0 \in Cursor /\ it_track # End
  BY PlayerThreadsAssumption DEF Init, Cursor, End
<1>2. \A t \in Threads : ~Busy(t) /\ pc[t] = "idle"
  BY DEF Init, Busy
<1>3. TypeOK
  BY <1>1 DEF Init, TypeOK, Operations
<1>4. OpInv /\ LoneInv /\ CrossInv /\ BackInv /\ AgreeInv
  BY <1>2 DEF OpInv, LoneInv, CrossInv, BackInv, AgreeInv
<1>5. EndInv /\ StartInv
  BY <1>1 DEF Init, EndInv, StartInv
<1> QED
  BY <1>3, <1>4, <1>5 DEF IInv

\* A call of an operation.
LEMMA BeginKeepsIInv ==
  ASSUME IInv, NEW t \in Threads, NEW o \in Operations, pc[t] = "idle", Begin(t, o),
         UNCHANGED <<it_track, current_track, uri, playbin, reg, phase>>,
         heard' = heard, bus' \in {bus, "none"}, watch' \in BOOLEAN, saved' = saved
  PROVE  IInv'
<1> DEFINE p == CASE o = "next" -> "step" [] o = "previous" -> "first" [] o = "play" -> "null"
<1>1. p \in {"step", "first", "null"} /\ (o = "next" <=> p = "step") /\ (o = "previous" <=> p = "first")
  BY DEF Operations
<1>2. /\ pc' = [pc EXCEPT ![t] = p] /\ op' = [op EXCEPT ![t] = o]
      /\ overlapped' = [u \in Threads |->
           IF u = t THEN \E v \in Threads \ {t} : Busy(v) ELSE overlapped[u] \/ Busy(u)]
      /\ crossed' = (crossed \/ \E u \in Threads \ {t} :
           Busy(u) /\ Moves(o) /\ Moves(op[u]) /\ "previous" \in {o, op[u]})
  BY DEF Begin, Goto
<1> HIDE DEF p
<1>3. TypeOK /\ OpInv /\ LoneInv /\ CrossInv /\ BackInv /\ EndInv /\ StartInv /\ AgreeInv
  BY DEF IInv
<1>4. pc'[t] = p /\ op'[t] = o /\ \A u \in Threads \ {t} : pc'[u] = pc[u] /\ op'[u] = op[u]
  BY <1>2, <1>3 DEF TypeOK
<1>5. /\ \A u \in Threads \ {t} : Busy(u)' <=> Busy(u)
      /\ Busy(t)' /\ ~Busy(t)
  BY <1>1, <1>4 DEF Busy
<1>6. TypeOK'
  BY <1>1, <1>2, <1>3 DEF TypeOK
<1>7. OpInv'
  BY <1>1, <1>3, <1>4 DEF OpInv
<1>8. LoneInv'
  BY <1>2, <1>3, <1>5 DEF LoneInv
<1>9. CrossInv'
  <2> SUFFICES ASSUME ~crossed', NEW u \in Threads, NEW v \in Threads, u # v,
                      Busy(u)', Busy(v)', Moves(op'[u]), Moves(op'[v])
               PROVE  op'[u] = "next"
    BY DEF CrossInv, Moves
  <2>1. ~crossed
    BY <1>2
  <2>2. CASE u # t /\ v # t
    BY <1>3, <1>4, <1>5, <2>1, <2>2 DEF CrossInv
  <2>3. CASE u = t
    BY <1>2, <1>4, <1>5, <2>3 DEF Operations, Moves
  <2>4. CASE v = t
    <3>1. op[u] \in Operations /\ op'[u] = op[u] /\ Busy(u) /\ Moves(op[u]) /\ Moves(o)
      BY <1>3, <1>4, <1>5, <2>4 DEF TypeOK
    <3>2. op[u] # "previous"
      BY <1>2, <2>4, <3>1
    <3> QED
      BY <3>1, <3>2 DEF Operations, Moves
  <2> QED
    BY <2>2, <2>3, <2>4
<1>10. BackInv' /\ StartInv'
  BY <1>1, <1>2, <1>3, <1>4 DEF BackInv, StartInv, Stopped
<1>11. EndInv'
  BY <1>2, <1>3, <1>4 DEF EndInv
<1>12. AgreeInv'
  <2> SUFFICES ASSUME NEW u \in Threads, Busy(u)', ~overlapped'[u], Moves(op'[u])
               PROVE  Agrees(u)'
    BY DEF AgreeInv, Moves
  <2>1. u = t
    BY <1>2, <1>5
  <2>2. p # "null"
    BY <1>1, <1>4, <2>1 DEF Moves, Operations
  <2> QED
    BY <1>1, <1>4, <2>1, <2>2 DEF Agrees, Playing, Stopped
<1> QED
  BY <1>6, <1>7, <1>8, <1>9, <1>10, <1>11, <1>12 DEF IInv

-----------------------------------------------------------------------------
(* A step inside an operation *)

\* It moves the thread on to a place of the same operation, and nobody else.
Places(p) ==
  CASE p = "step" -> {"stepped"} [] p = "stepped" -> {"last"}
    [] p = "last" -> {"wrap", "null"} [] p = "wrap" -> {"null"}
    [] p = "first" -> {"toend", "back"} [] p = "toend" -> {"back"}
    [] p = "back" -> {"backed"} [] p = "backed" -> {"null"}
    [] OTHER -> Playing \cup {"idle"}

\* Who is where, whatever a step does to the rest.
LEMMA RunKeepsWho ==
  ASSUME IInv, NEW t \in Threads, NEW p, p \in Places(pc[t]), pc[t] # "idle",
         pc' = [pc EXCEPT ![t] = p], UNCHANGED <<op, overlapped, crossed>>
  PROVE  /\ pc' \in [Threads -> {"idle", "step", "stepped", "last", "wrap", "first", "toend", "back", "backed",
                         "null", "deref", "caught", "assign", "path", "uri", "start", "distance", "save"}]
         /\ pc'[t] = p /\ \A u \in Threads \ {t} : pc'[u] = pc[u]
         /\ OpInv' /\ LoneInv' /\ CrossInv'
         /\ \A u \in Threads : Busy(u)' => Busy(u)
<1>1. pc \in [Threads -> {"idle", "step", "stepped", "last", "wrap", "first", "toend", "back", "backed",
                         "null", "deref", "caught", "assign", "path", "uri", "start", "distance", "save"}]
  BY DEF IInv, TypeOK
<1>2. pc'[t] = p /\ \A u \in Threads \ {t} : pc'[u] = pc[u]
  BY <1>1
<1>3. \A u \in Threads : Busy(u)' => Busy(u)
  BY <1>2 DEF Busy
<1>4. pc[t] \in {"step", "stepped", "last", "wrap", "first", "toend", "back", "backed",
                 "null", "deref", "caught", "assign", "path", "uri", "start", "distance", "save"}
  BY <1>1
<1>5. /\ p \in {"idle", "step", "stepped", "last", "wrap", "first", "toend", "back", "backed",
                "null", "deref", "caught", "assign", "path", "uri", "start", "distance", "save"}
      /\ p \in {"step", "stepped", "last", "wrap"} => pc[t] \in {"step", "stepped", "last"}
      /\ p \in {"first", "toend", "back", "backed"} => pc[t] \in {"first", "toend", "back"}
  BY <1>4 DEF Places, Playing, Stopped
<1>6. OpInv'
  BY <1>2, <1>5 DEF IInv, OpInv
<1>7. LoneInv' /\ CrossInv'
  BY <1>3 DEF IInv, LoneInv, CrossInv
<1> QED
  BY <1>1, <1>2, <1>3, <1>5, <1>6, <1>7

\* An operation that nothing overlaps is the only one whose knowledge matters.
LEMMA OnlyOneKnows ==
  ASSUME IInv, NEW t \in Threads, Busy(t), UNCHANGED <<op, overlapped>>,
         \A u \in Threads : Busy(u)' => Busy(u),
         Moves(op[t]) /\ Agrees(t) /\ (\A u \in Threads \ {t} : ~Busy(u)) => Agrees(t)'
  PROVE  AgreeInv'
<1> SUFFICES ASSUME NEW u \in Threads, Busy(u), ~overlapped[u], Moves(op[u]) PROVE Agrees(u)'
  BY DEF AgreeInv, Moves
<1>1. u = t /\ \A v \in Threads \ {t} : ~Busy(v)
  BY DEF IInv, LoneInv
<1> QED
  BY <1>1 DEF IInv, AgreeInv

\* The steps of player::next.
LEMMA ForwardKeepsIInv ==
  ASSUME IInv, NEW t \in Threads, Forward(t)
  PROVE  IInv'
<1>1. TypeOK /\ OpInv /\ CrossInv /\ BackInv /\ EndInv /\ StartInv
  BY DEF IInv
<1>2. Busy(t) /\ pc[t] # "idle" /\ op[t] = "next" /\ pc[t] \in {"step", "stepped", "last", "wrap"}
  BY <1>1 DEF Forward, Step, Stepped, Last, WrapToBegin, At, Busy, OpInv
<1>3. reg[t] \in Cursor /\ it_track \in Cursor
  BY <1>1 DEF TypeOK
<1>4. \A u \in Threads : pc[u] \in {"back", "backed"} => crossed
  <2> SUFFICES ASSUME NEW u \in Threads, pc[u] \in {"back", "backed"}, ~crossed PROVE FALSE
    OBVIOUS
  <2>1. op[u] = "previous" /\ Busy(u) /\ u # t
    BY <1>1, <1>2 DEF OpInv, Busy
  <2> QED
    BY <1>1, <1>2, <2>1 DEF CrossInv, Moves
<1>5. /\ UNCHANGED <<current_track, pipeline, saved, watch, op, ghosts, phase>>
      /\ UNCHANGED <<overlapped, crossed, uri, playbin, heard, bus>>
  BY DEF Forward, Step, Stepped, Last, WrapToBegin, ghosts, pipeline
<1>6. PICK p \in Places(pc[t]) : pc' = [pc EXCEPT ![t] = p]
  BY DEF Forward, Step, Stepped, Last, WrapToBegin, At, Goto, Places
<1>7. /\ pc' \in [Threads -> {"idle", "step", "stepped", "last", "wrap", "first", "toend", "back", "backed",
                         "null", "deref", "caught", "assign", "path", "uri", "start", "distance", "save"}]
      /\ pc'[t] = p /\ \A u \in Threads \ {t} : pc'[u] = pc[u]
      /\ OpInv' /\ LoneInv' /\ CrossInv'
      /\ \A u \in Threads : Busy(u)' => Busy(u)
  BY <1>2, <1>5, <1>6, RunKeepsWho
<1>8. p \in {"stepped", "last", "wrap", "null"}
  BY <1>2, <1>6 DEF Places
<1>9. TypeOK'
  <2>1. it_track' \in Cursor /\ reg' \in [Threads -> Cursor]
    BY <1>1, <1>3, Circle DEF Forward, Step, Stepped, Last, WrapToBegin, Hold, TypeOK
  <2> QED
    BY <1>1, <1>5, <1>7, <2>1 DEF TypeOK
<1>10. BackInv'
  BY <1>4, <1>5, <1>7, <1>8 DEF BackInv
<1>11. StartInv'
  BY <1>1, <1>2, <1>5, <1>7 DEF StartInv, Stopped
<1>12. EndInv'
  <2> SUFFICES ASSUME ~crossed, it_track' = End
               PROVE  \E u \in Threads : (pc'[u] = "last" /\ reg'[u] = End) \/ pc'[u] \in {"wrap", "back", "backed"}
    BY <1>5 DEF EndInv
  <2>1. CASE Stepped(t)
    BY <1>1, <1>7, <2>1 DEF Stepped, Goto, Hold, TypeOK
  <2>2. CASE WrapToBegin(t)
    BY <2>2, <1>3, Circle DEF WrapToBegin
  <2>3. CASE Step(t)
    BY <1>1, <1>7, <2>3 DEF Step, At, Hold, TypeOK, EndInv
  <2>4. CASE Last(t)
    <3>1. UNCHANGED <<it_track, reg>> /\ pc[t] = "last"
      BY <2>4 DEF Last, At
    <3>2. reg[t] = End => pc'[t] = "wrap"
      BY <1>1, <2>4, <3>1 DEF Last, Goto, TypeOK
    <3> QED
      BY <1>1, <1>7, <3>1, <3>2 DEF EndInv
  <2> QED
    BY <2>1, <2>2, <2>3, <2>4 DEF Forward
<1>13. Agrees(t) /\ op[t] = "next" => Agrees(t)'
  <2>1. CASE Step(t)
    BY <1>7, <2>1 DEF Step, Agrees, At, Goto, Playing, Stopped, Places
  <2>2. CASE Stepped(t)
    BY <1>1, <1>7, <2>2 DEF Stepped, Agrees, At, Hold, Goto, Playing, Stopped, TypeOK
  <2>3. CASE Last(t)
    BY <1>1, <1>7, <2>3 DEF Last, Agrees, At, Goto, Playing, Stopped, TypeOK
  <2>4. CASE WrapToBegin(t)
    BY <1>1, <1>3, <1>7, <2>4, Circle DEF WrapToBegin, Agrees, At, Goto, Playing, Stopped, TypeOK
  <2> QED
    BY <2>1, <2>2, <2>3, <2>4 DEF Forward
<1>14. AgreeInv'
  BY <1>2, <1>5, <1>7, <1>13, OnlyOneKnows
<1> QED
  BY <1>7, <1>9, <1>10, <1>11, <1>12, <1>14 DEF IInv

\* The steps of player::previous.
LEMMA BackwardKeepsIInv ==
  ASSUME IInv, NEW t \in Threads, Backward(t)
  PROVE  IInv'
<1>1. TypeOK /\ OpInv /\ CrossInv /\ BackInv /\ EndInv /\ StartInv
  BY DEF IInv
<1>2. Busy(t) /\ pc[t] # "idle" /\ op[t] = "previous" /\ pc[t] \in {"first", "toend", "back", "backed"}
  BY <1>1 DEF Backward, First, ToEnd, StepBack, SteppedBack, At, Busy, OpInv
<1>3. reg[t] \in Cursor /\ it_track \in Cursor
  BY <1>1 DEF TypeOK
<1>4. \A u \in Threads \ {t} : pc[u] \in {"back", "backed"} => crossed
  <2> SUFFICES ASSUME NEW u \in Threads \ {t}, pc[u] \in {"back", "backed"}, ~crossed PROVE FALSE
    OBVIOUS
  <2>1. op[u] = "previous" /\ Busy(u)
    BY <1>1 DEF OpInv, Busy
  <2> QED
    BY <1>1, <1>2, <2>1 DEF CrossInv, Moves
<1>5. /\ UNCHANGED <<current_track, pipeline, saved, watch, op, ghosts, phase>>
      /\ UNCHANGED <<overlapped, crossed, uri, playbin, heard, bus>>
  BY DEF Backward, First, ToEnd, StepBack, SteppedBack, ghosts, pipeline
<1>6. PICK p \in Places(pc[t]) : pc' = [pc EXCEPT ![t] = p]
  BY DEF Backward, First, ToEnd, StepBack, SteppedBack, At, Goto, Places
<1>7. /\ pc' \in [Threads -> {"idle", "step", "stepped", "last", "wrap", "first", "toend", "back", "backed",
                         "null", "deref", "caught", "assign", "path", "uri", "start", "distance", "save"}]
      /\ pc'[t] = p /\ \A u \in Threads \ {t} : pc'[u] = pc[u]
      /\ OpInv' /\ LoneInv' /\ CrossInv'
      /\ \A u \in Threads : Busy(u)' => Busy(u)
  BY <1>2, <1>5, <1>6, RunKeepsWho
<1>8. p \in {"toend", "back", "backed", "null"}
  BY <1>2, <1>6 DEF Places
<1>9. TypeOK'
  <2>1. it_track' \in Cursor /\ reg' \in [Threads -> Cursor]
    BY <1>1, <1>3, Circle DEF Backward, First, ToEnd, StepBack, SteppedBack, Hold, TypeOK
  <2> QED
    BY <1>1, <1>5, <1>7, <2>1 DEF TypeOK
<1>10. ~crossed => (p \in {"back", "backed"} => reg'[t] = it_track' /\ it_track' # 0)
  <2> SUFFICES ASSUME ~crossed, p \in {"back", "backed"} PROVE reg'[t] = it_track' /\ it_track' # 0
    OBVIOUS
  <2>1. CASE First(t)
    BY <1>1, <1>7, <2>1 DEF First, At, Goto, Hold, TypeOK
  <2>2. CASE ToEnd(t)
    BY <1>1, <2>2, <1>3, Circle DEF ToEnd, Hold, TypeOK
  <2>3. CASE StepBack(t)
    BY <1>1, <2>3 DEF StepBack, At, Hold, TypeOK, BackInv
  <2>4. CASE SteppedBack(t)
    BY <1>1, <1>7, <2>4 DEF SteppedBack, Goto, TypeOK
  <2> QED
    BY <2>1, <2>2, <2>3, <2>4 DEF Backward
<1>11. BackInv'
  BY <1>4, <1>5, <1>7, <1>10 DEF BackInv
<1>12. StartInv'
  BY <1>1, <1>2, <1>5, <1>7 DEF StartInv, Stopped
<1>13. EndInv'
  <2> SUFFICES ASSUME ~crossed, it_track' = End
               PROVE  \E u \in Threads : (pc'[u] = "last" /\ reg'[u] = End) \/ pc'[u] \in {"wrap", "back", "backed"}
    BY <1>5 DEF EndInv
  <2>1. CASE First(t)
    <3>1. it_track # 0 => pc'[t] = "back"
      BY <1>1, <2>1 DEF First, Goto, TypeOK
    <3>2. it_track = End
      BY <2>1 DEF First
    <3> QED
      BY <1>3, <3>1, <3>2, Circle
  <2>2. CASE ToEnd(t) \/ StepBack(t)
    BY <1>1, <2>2 DEF ToEnd, StepBack, Goto, TypeOK
  <2>3. CASE SteppedBack(t)
    BY <1>1, <1>3, <2>3, Circle DEF SteppedBack, At, BackInv
  <2> QED
    BY <2>1, <2>2, <2>3 DEF Backward
<1>14. Agrees(t) => Agrees(t)'
  <2>1. CASE First(t)
    BY <1>1, <1>7, <2>1 DEF First, Agrees, At, Goto, Hold, Playing, Stopped, TypeOK
  <2>2. CASE ToEnd(t)
    BY <1>1, <1>7, <2>2, <1>3, Circle DEF ToEnd, Agrees, At, Hold, Goto, Playing, Stopped, TypeOK
  <2>3. CASE StepBack(t)
    BY <1>1, <1>7, <2>3 DEF StepBack, Agrees, At, Goto, Hold, Playing, Stopped, TypeOK
  <2>4. CASE SteppedBack(t)
    BY <1>1, <1>3, <1>7, <2>4, Circle DEF SteppedBack, Agrees, At, Goto, Playing, Stopped, TypeOK
  <2> QED
    BY <2>1, <2>2, <2>3, <2>4 DEF Backward
<1>15. AgreeInv'
  BY <1>2, <1>5, <1>7, <1>14, OnlyOneKnows
<1> QED
  BY <1>7, <1>9, <1>11, <1>12, <1>13, <1>15 DEF IInv

\* The steps of player::play.
LEMMA PlayKeepsIInv ==
  ASSUME IInv, NEW t \in Threads, Play(t)
  PROVE  IInv'
<1>1. TypeOK /\ OpInv /\ CrossInv /\ BackInv /\ EndInv /\ StartInv
  BY DEF IInv
<1>2. Busy(t) /\ pc[t] # "idle" /\ pc[t] \in Playing
  BY DEF Play, SetNull, Deref, Caught, Assign, Path, SetUri, SetPlaying, Distance, Save, At, Busy, Playing, Stopped
<1>3. it_track \in Cursor /\ reg[t] \in Cursor /\ current_track \in Cursor /\ End \in Cursor
  BY <1>1, Circle DEF TypeOK
<1>4. UNCHANGED <<it_track, op, ghosts>> /\ UNCHANGED <<overlapped, crossed>>
  BY DEF Play, SetNull, Deref, Caught, Assign, Path, SetUri, SetPlaying, Distance, Save, ghosts
<1>5. PICK p \in Playing \cup {"idle"} : pc' = [pc EXCEPT ![t] = p]
  <2>1. CASE phase' = "dead" /\ UNCHANGED pc
    BY <1>1, <1>2, <2>1 DEF TypeOK
  <2>2. CASE ~(phase' = "dead" /\ UNCHANGED pc)
    BY <2>2 DEF Play, SetNull, Deref, Caught, Assign, Path, SetUri, SetPlaying, Distance, Save, Goto, Playing, Stopped
  <2> QED
    BY <2>1, <2>2
<1>6. p \in Places(pc[t])
  BY <1>2 DEF Places, Playing, Stopped
<1>7. /\ pc' \in [Threads -> {"idle", "step", "stepped", "last", "wrap", "first", "toend", "back", "backed",
                         "null", "deref", "caught", "assign", "path", "uri", "start", "distance", "save"}]
      /\ pc'[t] = p /\ \A u \in Threads \ {t} : pc'[u] = pc[u]
      /\ OpInv' /\ LoneInv' /\ CrossInv'
      /\ \A u \in Threads : Busy(u)' => Busy(u)
  BY <1>2, <1>4, <1>5, <1>6, RunKeepsWho
<1>8. \A u \in Threads \ {t} : reg'[u] = reg[u]
  BY <1>1 DEF Play, SetNull, Deref, Caught, Assign, Path, SetUri, SetPlaying, Distance, Save, Hold, TypeOK
<1>9. TypeOK'
  <2>1. reg' \in [Threads -> Cursor] /\ phase' \in {"run", "dead"} /\ playbin' \in {"null", "playing"}
    BY <1>1, <1>3 DEF Play, SetNull, Deref, Caught, Assign, Path, SetUri, SetPlaying, Distance, Save, Hold, TypeOK,
                      Races, pipeline
  <2>2. /\ current_track' \in Cursor /\ uri' \in Cursor /\ heard' \in Cursor /\ saved' \in Cursor
        /\ bus' \in {"none", "eos", "error"} /\ watch' \in BOOLEAN
    BY <1>1, <1>3 DEF Play, SetNull, Deref, Caught, Assign, Path, SetUri, SetPlaying, Distance, Save, TypeOK, pipeline
  <2> QED
    BY <1>1, <1>4, <1>7, <2>1, <2>2 DEF TypeOK
<1>10. BackInv' /\ EndInv'
  BY <1>1, <1>2, <1>4, <1>5, <1>7, <1>8 DEF BackInv, EndInv, Playing, Stopped
<1>11. StartInv'
  <2>1. CASE p \in Stopped
    BY <1>7, <2>1 DEF StartInv
  <2>2. CASE p \notin Stopped
    <3>1. playbin' = "playing" \/ (UNCHANGED playbin /\ pc[t] \notin Stopped)
      BY <1>1, <1>7, <2>2
      DEF Play, SetNull, Deref, Caught, Assign, Path, SetUri, SetPlaying, Distance, Save, At, Goto, Stopped, TypeOK, pipeline
    <3> QED
      BY <1>1, <1>7, <3>1 DEF StartInv
  <2> QED
    BY <2>1, <2>2
<1>12. Agrees(t) /\ (\A u \in Threads \ {t} : ~Busy(u)) => Agrees(t)'
  <2> SUFFICES ASSUME Agrees(t), \A u \in Threads \ {t} : ~Busy(u) PROVE Agrees(t)'
    OBVIOUS
  <2>1. ~Races(t, {"assign"}) /\ it_track # End
    BY <1>2 DEF Races, Busy, Agrees
  <2>2. CASE SetNull(t)
    BY <1>1, <1>7, <2>1, <2>2 DEF SetNull, Agrees, At, Goto, Playing, Stopped, TypeOK
  <2>3. CASE Deref(t)
    BY <1>1, <1>7, <2>1, <2>3 DEF Deref, Agrees, At, Goto, Hold, Playing, Stopped, TypeOK, pipeline
  <2>10. CASE Caught(t)
    BY <1>1, <1>7, <2>1, <2>10 DEF Caught, Agrees, At, Goto, Playing, Stopped, TypeOK, pipeline
  <2>4. CASE Assign(t)
    BY <1>1, <1>7, <2>1, <2>4 DEF Assign, Agrees, At, Goto, Playing, Stopped, TypeOK, pipeline
  <2>5. CASE Path(t)
    BY <1>1, <1>7, <2>1, <2>5 DEF Path, Agrees, At, Goto, Hold, Playing, Stopped, TypeOK, pipeline
  <2>6. CASE SetUri(t)
    BY <1>1, <1>7, <2>1, <2>6 DEF SetUri, Agrees, At, Goto, Playing, Stopped, TypeOK
  <2>7. CASE SetPlaying(t)
    BY <1>1, <1>7, <2>1, <2>7 DEF SetPlaying, Agrees, At, Goto, Playing, Stopped, TypeOK
  <2>8. CASE Distance(t)
    BY <1>1, <1>7, <2>1, <2>8 DEF Distance, Agrees, At, Goto, Hold, Playing, Stopped, TypeOK, pipeline
  <2>9. CASE Save(t)
    BY <1>1, <1>7, <2>1, <2>9 DEF Save, Agrees, At, Goto, Playing, Stopped, TypeOK, pipeline
  <2> QED
    BY <2>2, <2>3, <2>4, <2>5, <2>6, <2>7, <2>8, <2>9, <2>10 DEF Play
<1>13. AgreeInv'
  BY <1>2, <1>4, <1>7, <1>12, OnlyOneKnows
<1> QED
  BY <1>7, <1>9, <1>10, <1>11, <1>13 DEF IInv

-----------------------------------------------------------------------------
\* A call by a user, or by on_bus_message at the end of a stream.
LEMMA CallKeepsIInv ==
  ASSUME IInv, OnEos \/ \E t \in Threads : Call(t)
  PROVE  IInv'
<1>1. CASE OnEos
  <2>1. "loop" \in Threads /\ "next" \in Operations
    BY DEF Threads, Operations
  <2>2. /\ pc["loop"] = "idle" /\ Begin("loop", "next") /\ heard' = heard /\ saved' = saved
        /\ UNCHANGED <<it_track, current_track, uri, playbin, reg, phase>>
        /\ bus' \in {bus, "none"} /\ watch' \in BOOLEAN
    BY <1>1 DEF OnEos, At, IInv, TypeOK
  <2> QED
    BY <2>1, <2>2, BeginKeepsIInv
<1>2. ASSUME NEW t \in Threads, Call(t) PROVE IInv'
  <2>1. PICK o \in Operations : Begin(t, o)
    BY <1>2 DEF Call
  <2>2. /\ pc[t] = "idle" /\ heard' = heard /\ saved' = saved
        /\ UNCHANGED <<it_track, current_track, uri, playbin, reg, phase>>
        /\ bus' \in {bus, "none"} /\ watch' \in BOOLEAN
    BY <1>2 DEF Call, At, pipeline, IInv, TypeOK
  <2> QED
    BY <2>1, <2>2, BeginKeepsIInv
<1> QED
  BY <1>1, <1>2

\* The pipeline's messages; an error is only taken note of.
LEMMA BusKeepsIInv ==
  ASSUME IInv, EndOfStream \/ Error \/ OnError \/ UNCHANGED vars
  PROVE  IInv'
<1>1. /\ UNCHANGED <<it_track, current_track, uri, playbin, saved, op, pc, reg, overlapped, crossed, phase>>
      /\ heard' \in {heard, End}
  BY DEF EndOfStream, Error, OnError, vars, pipeline, ghosts
<1>2. bus' \in {"none", "eos", "error"} /\ watch' \in BOOLEAN
  BY DEF EndOfStream, Error, OnError, vars, pipeline, IInv, TypeOK
<1>3. TypeOK'
  BY <1>1, <1>2, Circle DEF IInv, TypeOK, Cursor, End
<1>4. OpInv' /\ LoneInv' /\ CrossInv' /\ BackInv' /\ EndInv' /\ StartInv'
  BY <1>1 DEF IInv, OpInv, LoneInv, CrossInv, BackInv, EndInv, StartInv, Busy
<1>5. AgreeInv'
  BY <1>1 DEF IInv, AgreeInv, Agrees, Busy
<1> QED
  BY <1>3, <1>4, <1>5 DEF IInv

\* Every step keeps it.
LEMMA NextKeepsIInv == IInv /\ [Next]_vars => IInv'
  BY CallKeepsIInv, BusKeepsIInv, ForwardKeepsIInv, BackwardKeepsIInv, PlayKeepsIInv DEF Next, Run

\* In every reachable state of the player's operations the invariant holds
\* (player.cpp:218-261, 349-365).
THEOREM InductiveInvariant == Spec => []IInv
  BY InitIInv, NextKeepsIInv, PTL DEF Spec

\* However operations overlap, the cursor stays on the list's circle and every
\* variable keeps its type.
THEOREM TypeCorrect == Spec => []TypeOK
<1>1. IInv => TypeOK
  BY DEF IInv
<1> QED
  BY <1>1, InductiveInvariant, PTL

\* When all operations have returned, the cursor is on a track unless previous
\* overlapped another step of it: any number of overlapping calls of next leave it
\* on the list (player.cpp:221-233).
THEOREM CursorRestsInside == Spec => []RestsInside
<1>1. IInv => RestsInside
  BY DEF IInv, EndInv, RestsInside, AtRest, Busy
<1> QED
  BY <1>1, InductiveInvariant, PTL

\* When all operations have returned, the pipeline is playing (player.cpp:243-253).
THEOREM PipelineRestsPlaying == Spec => []RestsPlaying
<1>1. IInv => RestsPlaying
  <2> SUFFICES ASSUME IInv, AtRest PROVE playbin = "playing"
    BY DEF RestsPlaying
  <2>1. \A t \in Threads : pc[t] \notin Stopped
    BY DEF AtRest, Busy, Stopped
  <2> QED
    BY <2>1 DEF IInv, TypeOK, StartInv
<1> QED
  BY <1>1, InductiveInvariant, PTL

\* A call of next or previous that nothing overlaps plays the track at the cursor,
\* saves its position and leaves the rest in agreement, whatever races went before
\* it (player.cpp:218-261).
THEOREM LoneCallsAgree == Spec => LoneCallAgrees
<1> DEFINE Ends(t) == pc[t] = "save" /\ pc'[t] = "idle" /\ ~overlapped[t] /\ Moves(op[t])
           Agreed == /\ it_track' # End
                     /\ {current_track', uri', saved'} = {it_track'}
                     /\ heard' \in {it_track', End}
<1>1. IInv /\ [Next]_vars => [\A t \in Threads : Ends(t) => Agreed]_vars
  <2> SUFFICES ASSUME IInv, Next, NEW t \in Threads, Ends(t) PROVE Agreed
    OBVIOUS
  <2>1. Agrees(t) /\ Busy(t)
    BY DEF IInv, AgreeInv, Busy
  <2>2. it_track # End /\ current_track = it_track /\ uri = it_track /\ reg[t] = it_track
        /\ heard \in {it_track, End}
    BY <2>1 DEF Agrees, Playing
  <2>3. Save(t)
    <3>1. ASSUME NEW u \in Threads, Call(u) \/ Run(u) PROVE u = t
      <4>1. \A v \in Threads \ {u} : pc'[v] = pc[v]
        BY <3>1
        DEF Call, Begin, Run, Forward, Step, Stepped, Last, WrapToBegin, Backward, First, ToEnd, StepBack, SteppedBack,
            Play, SetNull, Deref, Caught, Assign, Path, SetUri, SetPlaying, Distance, Save, Goto, IInv, TypeOK
      <4> QED
        BY <4>1
    <3>2. ~(EndOfStream \/ Error \/ OnError)
      BY DEF EndOfStream, Error, OnError
    <3>3. ~OnEos
      <4>1. ASSUME OnEos PROVE FALSE
        <5>1. \A v \in Threads \ {"loop"} : pc'[v] = pc[v]
          BY <4>1 DEF OnEos, Begin, Goto, IInv, TypeOK
        <5>2. pc["loop"] = "idle"
          BY <4>1 DEF OnEos, At
        <5> QED
          BY <5>1, <5>2
      <4> QED
        BY <4>1
    <3>4. Run(t)
      BY <3>1, <3>2, <3>3 DEF Next, Call, At
    <3> QED
      BY <3>4
      DEF Run, Forward, Step, Stepped, Last, WrapToBegin, Backward, First, ToEnd, StepBack, SteppedBack,
          Play, SetNull, Deref, Caught, Assign, Path, SetUri, SetPlaying, Distance, At
  <2> QED
    BY <2>2, <2>3 DEF Save, pipeline
<1> QED
  BY <1>1, InductiveInvariant, PTL DEF Spec, LoneCallAgrees

\* Only operations that overlap crash, and play at a cursor left at end()
\* (player.cpp:244, 246).
THEOREM OnlyRacesKill == Spec => DiesOnlyInRaces
<1> DEFINE Guilty(t) == Busy(t) /\ (overlapped[t] \/ (op[t] = "play" /\ it_track = End))
<1>1. IInv /\ [Next]_vars => [phase' # phase => \E t \in Threads : Guilty(t)]_vars
  <2> SUFFICES ASSUME IInv, Next, phase' # phase PROVE \E t \in Threads : Guilty(t)
    OBVIOUS
  <2>1. PICK t \in Threads : Deref(t) \/ Assign(t) \/ Path(t)
    BY DEF Next, Call, Run, Forward, Step, Stepped, Last, WrapToBegin, Backward, First, ToEnd, StepBack, SteppedBack,
           Play, SetNull, Caught, SetUri, SetPlaying, Distance, Save, EndOfStream, Error, OnEos, OnError
  <2>2. CASE Deref(t)
    <3>1. pc[t] = "deref" /\ it_track = End /\ Busy(t) /\ op[t] \in Operations
      BY <2>2 DEF Deref, At, Busy, IInv, TypeOK
    <3>2. CASE op[t] = "play"
      BY <3>1, <3>2
    <3>3. CASE Moves(op[t])
      BY <3>1, <3>3 DEF IInv, AgreeInv, Agrees, Playing, Stopped
    <3> QED
      BY <3>1, <3>2, <3>3 DEF Moves
  <2>3. CASE Assign(t) \/ Path(t)
    <3>1. Busy(t) /\ Races(t, {"assign"})
      BY <2>3 DEF Assign, Path, At, Busy
    <3>2. PICK u \in Threads \ {t} : Busy(u)
      BY <3>1 DEF Races, Busy
    <3> QED
      BY <3>1, <3>2 DEF IInv, LoneInv
  <2> QED
    BY <2>1, <2>2, <2>3
<1> QED
  BY <1>1, InductiveInvariant, PTL DEF Spec, DiesOnlyInRaces

-----------------------------------------------------------------------------
(* The websocket's threads, which tell the clients what these calls did: what *)
(* module Wsocket promises, for any number of connections and changes of the  *)
(* player.                                                                    *)

CONSTANTS Clients, MaxVersion, HoistedLoad
VARIABLES ws_phase, taken, caught, version, signals, update, conn, ws_pc, built, answer, seen, told, raced

W == INSTANCE Wsocket WITH phase <- ws_phase, pc <- ws_pc

\* What module Wsocket assumes of its constants
Bounds ==
  /\ MaxVersion \in Nat /\ HoistedLoad \in BOOLEAN
  /\ Clients \cap {"player", "endpoint"} = {}

\* A connection whose thread has a message in its hands while the endpoint's thread
\* has an answer for it is racing; otherwise what is on its way to it is no older
\* than what it got last.
RaceInv ==
  \A c \in Clients :
    /\ ws_pc[c] = "send" /\ answer[c] # 0 => c \in raced
    /\ c \notin raced =>
         /\ ws_pc[c] = "send" => built[c] >= seen[c]
         /\ answer[c] # 0 => answer[c] >= seen[c]

WsInv == W!TypeOK /\ RaceInv

\* At the beginning nobody is connected.
LEMMA WsInitInv ==
  ASSUME Bounds, W!Init
  PROVE  WsInv
<1> USE DEF Bounds
<1>1. W!TypeOK
  <2>1. version = 1 /\ version \in 1..(1 + MaxVersion) /\ told \in 0..version /\ signals \in 0..2
    BY DEF W!Init
  <2>2. 0 \in 0..version
    BY <2>1
  <2> QED
    BY <2>1, <2>2 DEF W!Init, W!TypeOK
<1>2. RaceInv
  BY DEF W!Init, RaceInv
<1> QED
  BY <1>1, <1>2 DEF WsInv

\* The constructor, the player and its signal.
LEMMA WsPlayerKeepsInv ==
  ASSUME Bounds, WsInv,
         W!Port \/ W!Listen \/ W!Change \/ W!PlayerUpdate \/ W!PlayerCaught \/ W!Crash
  PROVE  WsInv'
<1> USE DEF Bounds, WsInv, W!TypeOK, RaceInv, W!server
<1>1. CASE W!Port
  BY <1>1 DEF W!Port
<1>2. CASE W!Listen
  BY <1>2 DEF W!Listen
<1>3. CASE W!Change
  BY <1>3 DEF W!Change
<1>4. CASE W!PlayerUpdate
  BY <1>4 DEF W!PlayerUpdate
<1>5. CASE W!PlayerCaught
  BY <1>5 DEF W!PlayerCaught, W!Catch, W!Others
<1>6. CASE W!Crash
  <2>1. built' \in [Clients -> 0..version'] /\ answer' \in [Clients -> 0..version']
    <3>1. version' = version /\ 0 \in 0..version
      BY <1>6 DEF W!Crash
    <3>2. [c \in Clients |-> 0] \in [Clients -> 0..version']
      BY <3>1
    <3>3. built' = [c \in Clients |-> 0] /\ answer' = [c \in Clients |-> 0]
      BY <1>6 DEF W!Crash
    <3> QED
      BY <3>2, <3>3
  <2>2. W!TypeOK'
    <3>1. /\ ws_phase' \in {"bind", "run", "dead"} /\ taken' \in BOOLEAN
          /\ caught' \subseteq Clients \cup W!Others
          /\ update' \in BOOLEAN /\ raced' \subseteq Clients
      BY <1>6 DEF W!Crash
    <3>5. signals' \in 0..2
      BY <1>6 DEF W!Crash
    <3>2. version' = version /\ seen' = seen /\ told' = told
      BY <1>6 DEF W!Crash
    <3>3. conn' \in [Clients -> {"new", "open", "closed"}]
      BY <1>6 DEF W!Crash
    <3>4. ws_pc' \in [Clients -> {"none", "test", "build", "send", "clear", "blind"}]
      BY <1>6 DEF W!Crash
    <3> QED
      BY <2>1, <3>1, <3>2, <3>3, <3>4, <3>5
  <2>3. RaceInv'
    BY <1>6 DEF W!Crash
  <2> QED
    BY <2>2, <2>3
<1> QED
  BY <1>1, <1>2, <1>3, <1>4, <1>5, <1>6

\* The endpoint's thread.
LEMMA WsEndpointKeepsInv ==
  ASSUME Bounds, WsInv, NEW c \in Clients,
         \/ W!OnOpen(c) \/ W!OnClose(c)
         \/ W!OnMessage(c) \/ W!OnMessageCaught(c) \/ W!OnMessageDies(c) \/ W!Answer(c)
  PROVE  WsInv'
<1> USE DEF Bounds, WsInv, W!TypeOK, RaceInv, W!server
<1>1. CASE W!OnOpen(c)
  BY <1>1 DEF W!OnOpen
<1>2. CASE W!OnClose(c)
  BY <1>2 DEF W!OnClose
<1>3. CASE W!OnMessage(c)
  BY <1>3 DEF W!OnMessage
<1>4. CASE W!Answer(c)
  BY <1>4 DEF W!Answer
<1>5. CASE W!OnMessageCaught(c)
  BY <1>5 DEF W!OnMessageCaught, W!Catch, W!Others
<1>6. CASE W!OnMessageDies(c)
  BY <1>6, WsPlayerKeepsInv DEF W!OnMessageDies
<1> QED
  BY <1>1, <1>2, <1>3, <1>4, <1>5, <1>6

\* The thread of a connection.
LEMMA WsHandlerKeepsInv ==
  ASSUME Bounds, WsInv, NEW c \in Clients, W!Handler(c) \/ W!TestHoisted(c) \/ W!BuildCaught(c)
  PROVE  WsInv'
<1> USE DEF Bounds, WsInv, W!TypeOK, RaceInv, W!server
<1>1. CASE W!Test(c)
  BY <1>1 DEF W!Test
<1>2. CASE W!TestHoisted(c)
  BY <1>2 DEF W!TestHoisted
<1>3. CASE W!Build(c)
  BY <1>3 DEF W!Build
<1>4. CASE W!Send(c)
  BY <1>4 DEF W!Send
<1>5. CASE W!Clear(c)
  BY <1>5 DEF W!Clear
<1>6. CASE W!BuildCaught(c)
  BY <1>6 DEF W!BuildCaught, W!Catch, W!Others
<1> QED
  BY <1>1, <1>2, <1>3, <1>4, <1>5, <1>6 DEF W!Handler

\* Every step keeps it.
LEMMA WsNextKeepsInv ==
  ASSUME Bounds, WsInv, [W!Next]_W!vars
  PROVE  WsInv'
<1>1. CASE UNCHANGED W!vars
  BY <1>1 DEF W!vars, W!server, WsInv, W!TypeOK, RaceInv
<1> QED
  BY <1>1, WsPlayerKeepsInv, WsEndpointKeepsInv, WsHandlerKeepsInv DEF W!Next, W!Endpoint

\* In every reachable state of the server the invariant holds (wsocket.cpp:16-127).
THEOREM WsInductiveInvariant ==
  ASSUME Bounds
  PROVE  W!Spec => []WsInv
<1>1. W!Init => WsInv
  BY WsInitInv
<1>2. WsInv /\ [W!Next]_W!vars => WsInv'
  BY WsNextKeepsInv
<1> QED
  BY <1>1, <1>2, PTL DEF W!Spec

\* Every variable of the server keeps its type, and no message is newer than the
\* player.
THEOREM WsTypeCorrect ==
  ASSUME Bounds
  PROVE  W!Spec => []W!TypeOK
<1>1. WsInv => W!TypeOK
  BY DEF WsInv
<1>2. W!Spec => []WsInv
  BY WsInductiveInvariant
<1> QED
  BY <1>1, <1>2, PTL

\* A client is shown an older state after a newer one only when the endpoint's
\* thread answered it while its own thread had a message for it
\* (wsocket.cpp:63, 123).
THEOREM OldStatesOnlyInRaces ==
  ASSUME Bounds
  PROVE  W!Spec => W!BackOnlyInRaces
<1>1. WsInv /\ [W!Next]_W!vars => [\A c \in Clients : seen'[c] < seen[c] => c \in raced]_W!vars
  <2> SUFFICES ASSUME WsInv, W!Next, NEW c \in Clients, seen'[c] < seen[c]
               PROVE  c \in raced
    OBVIOUS
  <2>1. seen[c] \in Nat /\ ~(seen[c] < seen[c])
    BY DEF Bounds, WsInv, W!TypeOK
  <2>2. ASSUME NEW d \in Clients, W!Answer(d) PROVE c \in raced
    BY <2>1, <2>2 DEF W!Answer, WsInv, W!TypeOK, RaceInv
  <2>3. ASSUME NEW d \in Clients, W!Send(d) PROVE c \in raced
    BY <2>1, <2>3 DEF W!Send, WsInv, W!TypeOK, RaceInv
  <2>4. ASSUME seen' = seen PROVE c \in raced
    BY <2>1, <2>4
  <2> QED
    BY <2>2, <2>3, <2>4
    DEF W!Next, W!Endpoint, W!Handler, W!Port, W!Listen, W!Change, W!PlayerUpdate, W!PlayerCaught, W!Catch, W!Crash,
        W!OnOpen, W!OnClose, W!OnMessage, W!OnMessageCaught, W!OnMessageDies,
        W!Test, W!TestHoisted, W!Build, W!BuildCaught, W!Clear
<1>2. W!Spec => []WsInv
  BY WsInductiveInvariant
<1> QED
  BY <1>1, <1>2, PTL DEF W!Spec, W!BackOnlyInRaces

=============================================================================
