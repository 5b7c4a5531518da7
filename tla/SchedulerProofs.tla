--------------------------- MODULE SchedulerProofs ---------------------------
(***************************************************************************)
(* Safety of the scheduler for any number of callers, cursors, notes and   *)
(* events, any phrases, and any sequence of calls; and, from Keys of lists *)
(* on, that it keeps every event in one place, once, and so implements     *)
(* Timeline.                                                               *)
(***************************************************************************)
EXTENDS Scheduler, EventListProofs

-----------------------------------------------------------------------------
(* Events *)

\* The fields of a VizSchedEvent and their ranges.
LEMMA EventFields ==
    ASSUME NEW e \in Events
    PROVE  /\ e.id \in EventIds /\ e.part \in Nat /\ e.cursorid \in SchedIds
           /\ e.click \in Nat /\ e.type \in {"MIDIMSG", "MIDIPHRASE"}
           /\ e.units \in Seq(Units) /\ e.loop \in Nat /\ e.fade \in 0 .. 100
           /\ e.started \in BOOLEAN
           /\ TimeOrdered(e.units)
           /\ e.type = "MIDIMSG" => Len(e.units) = 1
  BY DEF Events

\* Every event has a click, so that the lemmas on ordered lists apply.
LEMMA EventClicks == \A e \in Events : e.click \in Nat
  BY EventFields

\* A velocity that fades stays a velocity.
LEMMA FadedVelocityType ==
    ASSUME NEW vel \in 0 .. 127, NEW fade \in 0 .. 100
    PROVE  FadedVelocity(vel, fade) \in 0 .. 127
  <1>1. vel * fade \in Nat
    OBVIOUS
  <1>2. vel * fade <= 12700
    <2>1. vel * fade <= vel * 100
      OBVIOUS
    <2> QED BY <2>1, <1>1
  <1> DEFINE p == vel * fade
  <1>3. p \in 0 .. 12700
    BY <1>1, <1>2
  <1> HIDE DEF p
  <1> DEFINE n == p + 50
  <1>4. n \in 50 .. 12750
    BY <1>3
  <1> HIDE DEF n
  <1>5. /\ n \div 100 \in Int
        /\ 100 * (n \div 100) <= n
        /\ n < 100 * (n \div 100) + 100
    BY <1>4
  <1> DEFINE q == n \div 100
  <1>6. q \in Int /\ 100 * q <= n /\ n < 100 * q + 100
    BY <1>5
  <1> HIDE DEF q
  <1>7. q \in 0 .. 127
    <2>1. n \in Int /\ 50 <= n /\ n <= 12750
      BY <1>4
    <2>2. 0 <= q
      BY <1>6, <2>1
    <2>3. q <= 127
      BY <1>6, <2>1
    <2> QED BY <1>6, <2>2, <2>3
  <1> QED BY <1>7 DEF FadedVelocity, p, n, q

\* A looping note gets quieter each time just if its fade is below 90 %.  From 90 % on the
\* least velocity that goes on, MIN_VELOCITY, rounds to itself, and the loop has no end
\* (_handleLoopEvent).
THEOREM LoopsFadeBelowNinety ==
    ASSUME NEW fade \in 0 .. 100
    PROVE  fade < 90 <=> \A vel \in MIN_VELOCITY .. 127 : FadedVelocity(vel, fade) < vel
  <1>1. ASSUME fade < 90, NEW vel \in MIN_VELOCITY .. 127
        PROVE  FadedVelocity(vel, fade) < vel
    <2>1. vel \in Nat /\ fade \in Nat /\ 5 <= vel /\ fade <= 89
      BY <1>1 DEF MIN_VELOCITY
    <2>2. vel * fade <= vel * 89
      BY <2>1
    <2>3. vel * fade \in Nat /\ vel * fade + 50 < 100 * vel
      BY <2>1, <2>2
    <2>4. ASSUME NEW n \in Nat, n + 50 < 100 * vel
          PROVE  (n + 50) \div 100 < vel
      BY <2>1, <2>4
    <2> QED
      BY <2>3, <2>4 DEF FadedVelocity
  <1>2. ASSUME 90 <= fade
        PROVE  /\ MIN_VELOCITY \in MIN_VELOCITY .. 127
               /\ ~ (FadedVelocity(MIN_VELOCITY, fade) < MIN_VELOCITY)
    BY <1>2 DEF FadedVelocity, MIN_VELOCITY
  <1> QED
    BY <1>1, <1>2

\* A unit that _handleLoopEvent has faded is still a unit.
LEMMA FadedType ==
    ASSUME NEW u \in Units, NEW fade \in 0 .. 100
    PROVE  Faded(u, fade) \in Units /\ Faded(u, fade).click = u.click
  <1>1. u.vel \in 0 .. 127
    BY DEF Units
  <1>2. FadedVelocity(u.vel, fade) \in 0 .. 127
    BY <1>1, FadedVelocityType
  <1> QED BY <1>2 DEF Faded, Units

\* A phrase of one unit is ordered by click.
LEMMA OneUnit ==
    ASSUME NEW m \in Units
    PROVE  <<m>> \in Seq(Units) /\ Len(<<m>>) = 1 /\ TimeOrdered(<<m>>)
  BY DEF TimeOrdered

\* The constructor for a message makes an event.
LEMMA MsgEventType ==
    ASSUME NEW id \in EventIds, NEW m \in Units, NEW clk \in Nat,
           NEW cursorid \in SchedIds, NEW mp \in [loop : Nat, fade : 0 .. 100]
    PROVE  /\ MsgEvent(id, m, clk, cursorid, mp) \in Events
           /\ ~ MsgEvent(id, m, clk, cursorid, mp).started
  BY OneUnit DEF MsgEvent, Events

\* The constructor for a phrase makes an event.
LEMMA PhraseEventType ==
    ASSUME NEW id \in EventIds, NEW ph \in Seq(Units), TimeOrdered(ph),
           NEW clk \in Nat,
           NEW cursorid \in SchedIds, NEW mp \in [loop : Nat, fade : 0 .. 100]
    PROVE  /\ PhraseEvent(id, ph, clk, cursorid, mp) \in Events
           /\ ~ PhraseEvent(id, ph, clk, cursorid, mp).started
  BY DEF PhraseEvent, Events

\* What init sets for mp == NULL is in the ranges of loops.
LEMMA NoLoopingType == NoLooping \in [loop : Nat, fade : 0 .. 100]
  BY DEF NoLooping

\* What the callers make are events of which nothing was played yet.
LEMMA NewEvents ==
    /\ \A e \in NewMsgs : e \in Events /\ ~ e.started
    /\ \A e \in NewPhrases(CursorIds, Loopings) : e \in Events /\ ~ e.started
    /\ \A e \in NewPhrases({SCHEDID_ALL}, {NoLooping}) : e \in Events /\ ~ e.started
  <1>1. /\ FreeIds \subseteq EventIds /\ 0 .. MaxClick \subseteq Nat
        /\ CursorIds \subseteq SchedIds /\ {SCHEDID_ALL} \subseteq SchedIds
    BY DataAssumption DEF FreeIds, SchedIds
  <1>2. \A e \in NewMsgs : e \in Events /\ ~ e.started
    BY <1>1, MsgEventType, DataAssumption DEF NewMsgs
  <1>3. \A e \in NewPhrases(CursorIds, Loopings) : e \in Events /\ ~ e.started
    BY <1>1, PhraseEventType, DataAssumption DEF NewPhrases
  <1>4. \A e \in NewPhrases({SCHEDID_ALL}, {NoLooping}) : e \in Events /\ ~ e.started
    BY <1>1, PhraseEventType, DataAssumption, NoLoopingType DEF NewPhrases
  <1> QED BY <1>2, <1>3, <1>4

\* The events that DoEventAndDelete makes of the event at the head.
LEMMA LoopedMsgType ==
    ASSUME NEW e \in Events
    PROVE  [e EXCEPT !.click = @ + e.loop, !.started = TRUE] \in Events
  <1>1. e.click + e.loop \in Nat
    BY EventFields
  <1> DEFINE c == e.click + e.loop
  <1> HIDE DEF c
  <1>2. [e EXCEPT !.click = c, !.started = TRUE] \in Events
    BY <1>1 DEF Events, c
  <1> QED BY <1>2 DEF c

\* The event that a looped phrase leaves for its unit is an event.
LEMMA LoopedUnitType ==
    ASSUME NEW e \in Events, e.units # <<>>
    PROVE  /\ LoopedUnit(e) \in Events
           /\ LoopedUnit(e).units # <<>>
  <1>1. e.units[1] \in Units /\ e.click + e.loop \in Nat
    BY EventFields, EmptySeq
  <1>2. MsgEvent(e.id, e.units[1], e.click + e.loop, e.cursorid, NoLooping) \in Events
    BY <1>1, EventFields, MsgEventType, NoLoopingType
  <1>3. Len(e.units) \in Nat
    BY EventFields
  <1> DEFINE f == MsgEvent(e.id, e.units[1], e.click + e.loop, e.cursorid, NoLooping)
  <1>4. f.units = <<e.units[1]>>
    BY DEF MsgEvent
  <1> DEFINE n == Len(e.units)
  <1>5. f \in Events /\ n \in Nat
    BY <1>2, <1>3
  <1> HIDE DEF f, n
  <1>6. /\ [f EXCEPT !.part = n, !.started = TRUE] \in Events
        /\ [f EXCEPT !.part = n, !.started = TRUE].units = f.units
    BY <1>5 DEF Events
  <1>7. LoopedUnit(e) = [f EXCEPT !.part = n, !.started = TRUE]
    BY DEF LoopedUnit, f, n
  <1>8. f.units # <<>>
    BY <1>4
  <1> QED BY <1>6, <1>7, <1>8

\* An event whose first unit was faded is still an event.
LEMMA FadedEventType ==
    ASSUME NEW e \in Events, e.units # <<>>
    PROVE  [e EXCEPT !.units[1] = Faded(@, e.fade)] \in Events
  <1>1. /\ e.units \in Seq(Units) /\ Len(e.units) \in Nat \ {0}
        /\ e.units[1] \in Units
    BY EventFields, EmptySeq
  <1> DEFINE u == Faded(e.units[1], e.fade)
             us == [e.units EXCEPT ![1] = u]
  <1>2. u \in Units /\ u.click = e.units[1].click
    BY <1>1, EventFields, FadedType
  <1> HIDE DEF u
  <1>3. /\ us \in Seq(Units) /\ Len(us) = Len(e.units)
        /\ \A j \in 1 .. Len(e.units) : us[j] = IF j = 1 THEN u ELSE e.units[j]
    BY <1>1, <1>2, ExceptSeq
  <1> HIDE DEF us
  <1>4. TimeOrdered(us)
    <2>1. \A j \in 1 .. Len(us) : us[j].click = e.units[j].click
      BY <1>2, <1>3
    <2> QED BY <2>1, <1>1, <1>3, EventFields DEF TimeOrdered
  <1>5. [e EXCEPT !.units = us] \in Events
    BY <1>3, <1>4, EventFields DEF Events
  <1> QED BY <1>5 DEF us, u

\* What is left of a phrase is an event with a later click, or nothing: its
\* units are ordered by click.
LEMMA RestOfPhraseType ==
    ASSUME NEW e \in Events, e.type = "MIDIPHRASE", e.units # <<>>
    PROVE  RestOfPhrase(e) \in Seq(Events)
  <1>1. CASE Len(e.units) > 1
    <2>1. /\ e.units \in Seq(Units) /\ TimeOrdered(e.units)
          /\ e.units[1] \in Units /\ e.units[2] \in Units
          /\ DOMAIN e.units = 1 .. Len(e.units) /\ Len(e.units) \in Nat
      BY <1>1, EventFields
    <2>2. /\ e.units[1].click \in Nat /\ e.units[2].click \in Nat
          /\ e.units[1].click <= e.units[2].click
      BY <1>1, <2>1 DEF TimeOrdered, Units
    <2> DEFINE c == e.click + (e.units[2].click - e.units[1].click)
    <2>3. c \in Nat
      BY <2>2, EventFields
    <2>4. Tail(e.units) \in Seq(Units) /\ TimeOrdered(Tail(e.units))
      BY <2>1, TailProperties
    <2> HIDE DEF c
    <2>5. [e EXCEPT !.click = c, !.units = Tail(@), !.started = TRUE] \in Events
      BY <2>3, <2>4, EventFields DEF Events
    <2> QED BY <1>1, <2>5 DEF RestOfPhrase, c
  <1>2. CASE ~ (Len(e.units) > 1)
    BY <1>2 DEF RestOfPhrase
  <1> QED BY <1>1, <1>2

-----------------------------------------------------------------------------
(* Lists of events *)

\* InsertEvent on a list of events.
LEMMA InsertOne ==
    ASSUME NEW s \in Seq(Events), NEW e \in Events
    PROVE  /\ InsertEvent(s, e) \in Seq(Events)
           /\ ToSet(InsertEvent(s, e)) = ToSet(s) \cup {e}
           /\ TimeOrdered(s) => TimeOrdered(InsertEvent(s, e))
  BY EventClicks, InsertEventProperties, InsertEventSet, InsertEventOrdered

\* Requeueing the rest of a phrase keeps the queue a list of events, ordered.
LEMMA RequeueProperties ==
    ASSUME NEW q \in Seq(Events), NEW rest \in Seq(Events)
    PROVE  /\ Requeue(q, rest) \in Seq(Events)
           /\ ToSet(q) \subseteq ToSet(Requeue(q, rest))
           /\ TimeOrdered(q) => TimeOrdered(Requeue(q, rest))
  <1>1. CASE rest = <<>>
    BY <1>1 DEF Requeue
  <1>2. CASE rest # <<>>
    <2>1. rest[1] \in Events
      BY <1>2, EmptySeq
    <2> QED BY <1>2, <2>1, InsertOne DEF Requeue
  <1> QED BY <1>1, <1>2

\* DeleteAllBefore only takes events away, and keeps the order.
LEMMA DeleteAllBeforeProperties ==
    ASSUME NEW s \in Seq(Events), NEW cursorid, NEW clk
    PROVE  /\ DeleteAllBefore(s, cursorid, clk) \in Seq(Events)
           /\ ToSet(DeleteAllBefore(s, cursorid, clk)) \subseteq ToSet(s)
           /\ TimeOrdered(s) => TimeOrdered(DeleteAllBefore(s, cursorid, clk))
  BY WithoutOrdered DEF DeleteAllBefore

\* ScheduleClear only takes events away, and keeps the order.
LEMMA ClearedProperties ==
    ASSUME NEW s \in Seq(Events), NEW cursorid
    PROVE  /\ Cleared(cursorid, s) \in Seq(Events)
           /\ ToSet(Cleared(cursorid, s)) \subseteq ToSet(s)
           /\ TimeOrdered(s) => TimeOrdered(Cleared(cursorid, s))
  <1>1. /\ <<>> \in Seq(Events) /\ ToSet(<<>>) = {} /\ TimeOrdered(<<>>)
    BY DEF ToSet, TimeOrdered
  <1> QED BY <1>1, WithoutOrdered DEF Cleared, DeleteAllId

\* PopFirst only takes one event away, and keeps the order.
LEMMA TailOfEvents ==
    ASSUME NEW s \in Seq(Events), s # <<>>
    PROVE  /\ Tail(s) \in Seq(Events)
           /\ Head(s) \in Events
           /\ Head(s) \in ToSet(s)
           /\ ToSet(Tail(s)) \subseteq ToSet(s)
           /\ TimeOrdered(s) => TimeOrdered(Tail(s))
  BY TailProperties

-----------------------------------------------------------------------------
(* Types *)

\* What the callback holds, it holds while it plays.
HandsFull ==
    /\ pc[Callback] = "play" => playing # <<>>
    /\ pc[Callback] # "play" => hand = <<>> /\ playing = <<>>

TypeInv == TypeOK /\ HandsFull

\* The notes that sound after a message are notes.
LEMMA AfterType ==
    ASSUME NEW notes \in SUBSET Notes, NEW u \in Units
    PROVE  After(notes, u) \in SUBSET Notes
  BY DEF After, Units

\* One thread's moving on leaves the others where they are.
LEMMA PcUpdate ==
    ASSUME TypeOK, NEW t \in Threads, NEW label, GoTo(t, label),
           label \in CallbackLabels \cup CallerLabels
    PROVE  /\ pc' \in [Threads -> CallbackLabels \cup CallerLabels]
           /\ pc'[t] = label
           /\ \A u \in Threads : u # t => pc'[u] = pc[u]
  BY DEF GoTo, TypeOK

\* The constructor establishes the types.
LEMMA InitTypeInv == Init => TypeInv
  <1> SUFFICES ASSUME Init PROVE TypeInv
    OBVIOUS
  <1>1. Callback \in Threads /\ Callers \subseteq Threads
    BY DEF Threads
  <1> QED BY <1>1 DEF Init, TypeInv, TypeOK, HandsFull, CallbackLabels, CallerLabels

\* What DoMidiMsg and DoMidiPhrase do to the two lists and to the hands, as
\* far as the proofs need to know.
PlaysOne ==
    /\ scheduled' \in Seq(Events) /\ queue' \in Seq(Events)
    /\ ToSet(scheduled') \subseteq ToSet(scheduled)
    /\ TimeOrdered(scheduled) => TimeOrdered(scheduled')
    /\ TimeOrdered(queue) => TimeOrdered(queue')
    /\ hand' \in Seq(Events) /\ playing' \in Seq(Units)
    /\ \/ GoTo(Callback, "play") /\ playing' # <<>>
       \/ UNCHANGED <<hand, playing, pc>>

\* _handleLoopEvent takes events from "scheduled" and adds none to it.
LEMMA HandleLoopEventPlaysOne ==
    ASSUME TypeOK, scheduled # <<>>,
           NEW e2 \in Events, e2.units # <<>>, NEW rest \in Seq(Events),
           HandleLoopEvent(e2, rest)
    PROVE  PlaysOne
  <1>1. /\ queue \in Seq(Events) /\ scheduled \in Seq(Events)
        /\ hand \in Seq(Events) /\ playing \in Seq(Units)
    BY DEF TypeOK
  <1>2. /\ Tail(scheduled) \in Seq(Events)
        /\ ToSet(Tail(scheduled)) \subseteq ToSet(scheduled)
        /\ TimeOrdered(scheduled) => TimeOrdered(Tail(scheduled))
    BY <1>1, TailOfEvents
  <1>3. CASE LoopContinues(e2.units[1], e2.fade)
    <2> DEFINE f == [e2 EXCEPT !.units[1] = Faded(@, e2.fade)]
               u == Faded(e2.units[1], e2.fade)
    <2>1. f \in Events
      BY FadedEventType
    <2>2. u \in Units
      <3>1. e2.units[1] \in Units /\ e2.fade \in 0 .. 100
        BY EventFields, EmptySeq
      <3> QED BY <3>1, FadedType
    <2>3. /\ queue' = InsertEvent(queue, f)
          /\ scheduled' = Tail(scheduled)
          /\ StartPlaying(u, rest)
      BY <1>3 DEF HandleLoopEvent
    <2> HIDE DEF f, u
    <2>4. queue' \in Seq(Events) /\ (TimeOrdered(queue) => TimeOrdered(queue'))
      BY <1>1, <2>1, <2>3, InsertOne
    <2>5. /\ playing' = <<u>> /\ hand' = rest /\ GoTo(Callback, "play")
          /\ <<u>> \in Seq(Units) /\ <<u>> # <<>>
      BY <2>2, <2>3 DEF StartPlaying
    <2> QED BY <1>2, <2>3, <2>4, <2>5 DEF PlaysOne
  <1>4. CASE ~ LoopContinues(e2.units[1], e2.fade)
    <2>1. /\ scheduled' = Cleared(e2.cursorid, Tail(scheduled))
          /\ queue' = Requeue(queue, rest)
          /\ UNCHANGED <<playing, hand, pc>>
      BY <1>4 DEF HandleLoopEvent
    <2>2. /\ scheduled' \in Seq(Events)
          /\ ToSet(scheduled') \subseteq ToSet(Tail(scheduled))
          /\ TimeOrdered(Tail(scheduled)) => TimeOrdered(scheduled')
      BY <1>2, <2>1, ClearedProperties
    <2>3. queue' \in Seq(Events) /\ (TimeOrdered(queue) => TimeOrdered(queue'))
      BY <1>1, <2>1, RequeueProperties
    <2> QED BY <1>1, <1>2, <2>1, <2>2, <2>3 DEF PlaysOne
  <1> QED BY <1>3, <1>4

\* Playing an event that does not loop takes that event from "scheduled".
LEMMA StartPlayingPlaysOne ==
    ASSUME TypeOK, scheduled # <<>>,
           NEW e \in Events, e.units # <<>>, NEW rest \in Seq(Events),
           scheduled' = Tail(scheduled), queue' = queue,
           StartPlaying(e.units[1], rest)
    PROVE  PlaysOne
  <1>1. /\ queue \in Seq(Events) /\ scheduled \in Seq(Events)
    BY DEF TypeOK
  <1>2. /\ Tail(scheduled) \in Seq(Events)
        /\ ToSet(Tail(scheduled)) \subseteq ToSet(scheduled)
        /\ TimeOrdered(scheduled) => TimeOrdered(Tail(scheduled))
    BY <1>1, TailOfEvents
  <1> DEFINE u == e.units[1]
  <1>3. u \in Units
    BY EventFields, EmptySeq
  <1>4. playing' = <<u>> /\ hand' = rest /\ GoTo(Callback, "play")
    BY DEF StartPlaying
  <1> HIDE DEF u
  <1>5. <<u>> \in Seq(Units) /\ <<u>> # <<>>
    BY <1>3
  <1> QED BY <1>1, <1>2, <1>4, <1>5 DEF PlaysOne

\* DoEventAndDelete on a message does one event.
LEMMA DoMidiMsgPlaysOne ==
    ASSUME TypeOK, DoMidiMsg
    PROVE  PlaysOne
  <1>1. PICK e \in ToSet(scheduled) :
          /\ Due(e)
          /\ e.type = "MIDIMSG"
          /\ IF e.loop > 0
             THEN HandleLoopEvent([e EXCEPT !.click = @ + e.loop, !.started = TRUE], <<>>)
             ELSE /\ scheduled' = Tail(scheduled)
                  /\ UNCHANGED queue
                  /\ StartPlaying(e.units[1], <<>>)
    BY DEF DoMidiMsg
  <1>2. e \in Events /\ scheduled # <<>>
    BY <1>1, ToSetOfSeq DEF TypeOK, Due
  <1>3. e.units # <<>>
    <2>1. Len(e.units) = 1
      BY <1>1, <1>2, EventFields
    <2> QED BY <2>1, EmptySeq
  <1>4. <<>> \in Seq(Events)
    OBVIOUS
  <1>5. CASE e.loop > 0
    <2> DEFINE f == [e EXCEPT !.click = @ + e.loop, !.started = TRUE]
    <2>1. f \in Events
      BY <1>2, LoopedMsgType
    <2>2. f.units # <<>>
      BY <1>2, <1>3 DEF Events
    <2>3. HandleLoopEvent(f, <<>>)
      BY <1>1, <1>5
    <2> HIDE DEF f
    <2> QED BY <1>2, <1>4, <2>1, <2>2, <2>3, HandleLoopEventPlaysOne
  <1>6. CASE ~ (e.loop > 0)
    BY <1>1, <1>2, <1>3, <1>4, <1>6, StartPlayingPlaysOne
  <1> QED BY <1>5, <1>6

\* DoEventAndDelete on a phrase does one event.
LEMMA DoMidiPhrasePlaysOne ==
    ASSUME TypeOK, DoMidiPhrase
    PROVE  PlaysOne
  <1>1. PICK e \in ToSet(scheduled) :
          /\ Due(e)
          /\ e.type = "MIDIPHRASE"
          /\ \/ /\ e.units = <<>>
                /\ scheduled' = Tail(scheduled)
                /\ UNCHANGED <<queue, playing, hand, pc>>
             \/ /\ e.units # <<>> /\ e.loop > 0
                /\ e.units[1].kind # "control"
                /\ HandleLoopEvent(LoopedUnit(e), RestOfPhrase(e))
             \/ /\ e.units # <<>> /\ e.loop = 0
                /\ scheduled' = Tail(scheduled)
                /\ UNCHANGED queue
                /\ StartPlaying(e.units[1], RestOfPhrase(e))
    BY DEF DoMidiPhrase
  <1>2. e \in Events /\ scheduled # <<>>
    BY <1>1, ToSetOfSeq DEF TypeOK, Due
  <1>3. CASE /\ e.units = <<>>
             /\ scheduled' = Tail(scheduled)
             /\ UNCHANGED <<queue, playing, hand, pc>>
    BY <1>2, <1>3, TailOfEvents DEF PlaysOne, TypeOK
  <1>4. CASE /\ e.units # <<>> /\ e.loop > 0
             /\ e.units[1].kind # "control"
             /\ HandleLoopEvent(LoopedUnit(e), RestOfPhrase(e))
    <2>1. LoopedUnit(e) \in Events /\ LoopedUnit(e).units # <<>>
      BY <1>2, <1>4, LoopedUnitType
    <2>2. RestOfPhrase(e) \in Seq(Events)
      BY <1>1, <1>2, <1>4, RestOfPhraseType
    <2> QED BY <1>2, <1>4, <2>1, <2>2, HandleLoopEventPlaysOne
  <1>5. CASE /\ e.units # <<>> /\ e.loop = 0
             /\ scheduled' = Tail(scheduled)
             /\ UNCHANGED queue
             /\ StartPlaying(e.units[1], RestOfPhrase(e))
    <2>1. RestOfPhrase(e) \in Seq(Events)
      BY <1>1, <1>2, <1>5, RestOfPhraseType
    <2> QED BY <1>2, <1>5, <2>1, StartPlayingPlaysOne
  <1> QED BY <1>1, <1>3, <1>4, <1>5

\* One lemma for all the operations that put an event into the queue.
LEMMA QueueAddEventType ==
    ASSUME TypeInv, NEW t, NEW e \in Events, QueueAddEvent(t, e)
    PROVE  TypeInv'
  <1>1. queue' \in Seq(Events)
    BY InsertOne DEF QueueAddEvent, TypeInv, TypeOK
  <1> QED
    BY <1>1 DEF QueueAddEvent, TypeInv, TypeOK, HandsFull, locks, doing, midi

\* And for all the operations on "scheduled" that end by unlocking it.
LEMMA FinishScheduleType ==
    ASSUME TypeInv, NEW t \in Callers, NEW s \in Seq(Events), FinishSchedule(t, s)
    PROVE  TypeInv'
  <1>1. t \in Threads /\ t # Callback /\ Callback \in Threads /\ Callers \subseteq Threads
    BY ThreadsAssumption DEF Threads
  <1>2. /\ pc' \in [Threads -> CallbackLabels \cup CallerLabels]
        /\ pc'[t] = "idle"
        /\ \A u \in Threads : u # t => pc'[u] = pc[u]
    BY <1>1, PcUpdate DEF FinishSchedule, TypeInv, CallerLabels
  <1>3. pc'[Callback] = pc[Callback] /\ \A u \in Callers : pc'[u] \in CallerLabels
    BY <1>1, <1>2 DEF TypeInv, TypeOK, CallerLabels
  <1> QED
    BY <1>2, <1>3 DEF FinishSchedule, TypeInv, TypeOK, HandsFull, doing, midi

\* The arguments of the removal that t has begun, or has finished.
LEMMA RemovalUpdate ==
    ASSUME TypeInv, NEW t \in Threads,
           NEW r \in Seq([cursorid : CursorIds, click : Nat]),
           removal' = [removal EXCEPT ![t] = r]
    PROVE  removal' \in [Threads -> Seq([cursorid : CursorIds, click : Nat])]
  <1> DEFINE R == Seq([cursorid : CursorIds, click : Nat])
  <1>1. removal \in [Threads -> R] /\ r \in R
    BY DEF TypeInv, TypeOK
  <1> HIDE DEF R
  <1>2. removal' \in [Threads -> R]
    BY <1>1
  <1> QED BY <1>2 DEF R

\* Where a thread goes: the callback to labels of its own, a caller to its.
LEMMA ThreadGoesTo ==
    ASSUME TypeOK, NEW t \in Threads, NEW label, GoTo(t, label),
           label \in IF t = Callback THEN CallbackLabels ELSE CallerLabels
    PROVE  /\ pc' \in [Threads -> CallbackLabels \cup CallerLabels]
           /\ pc'[t] = label
           /\ \A u \in Threads : u # t => pc'[u] = pc[u]
           /\ pc'[Callback] \in CallbackLabels
           /\ \A u \in Callers : pc'[u] \in CallerLabels
  <1>1. Callback \in Threads /\ Callers \subseteq Threads /\ Callback \notin Callers
    BY ThreadsAssumption DEF Threads
  <1>2. /\ pc' \in [Threads -> CallbackLabels \cup CallerLabels]
        /\ pc'[t] = label
        /\ \A u \in Threads : u # t => pc'[u] = pc[u]
    BY PcUpdate
  <1>3. t # Callback => t \in Callers
    BY DEF Threads
  <1> QED BY <1>1, <1>2, <1>3 DEF TypeOK

\* The two halves of QueueRemoveBefore, on whatever thread.
RemovalBegins(t) ==
    /\ pc[t] = CallsFrom(t)
    /\ \E c \in CursorIds, clk \in 0 .. MaxClick : RemoveFromScheduled(t, c, clk)

LEMMA RemovalBeginsType ==
    ASSUME TypeInv, NEW t \in Threads, RemovalBegins(t)
    PROVE  TypeInv'
  <1>1. PICK c \in CursorIds, clk \in 0 .. MaxClick : RemoveFromScheduled(t, c, clk)
    BY DEF RemovalBegins
  <1>2. scheduled' \in Seq(Events)
    BY <1>1, DeleteAllBeforeProperties DEF RemoveFromScheduled, TypeInv, TypeOK
  <1> DEFINE r == [cursorid |-> c, click |-> clk]
  <1>3. r \in [cursorid : CursorIds, click : Nat]
    BY DataAssumption
  <1>4. removal' = [removal EXCEPT ![t] = <<r>>]
    BY <1>1 DEF RemoveFromScheduled
  <1> HIDE DEF r
  <1>5. removal' \in [Threads -> Seq([cursorid : CursorIds, click : Nat])]
    <2>1. <<r>> \in Seq([cursorid : CursorIds, click : Nat])
      BY <1>3
    <2> QED BY <1>4, <2>1, RemovalUpdate
  <1>6. /\ pc' \in [Threads -> CallbackLabels \cup CallerLabels]
        /\ pc'[t] = "removing"
        /\ \A u \in Threads : u # t => pc'[u] = pc[u]
        /\ pc'[Callback] \in CallbackLabels
        /\ \A u \in Callers : pc'[u] \in CallerLabels
    BY <1>1, ThreadGoesTo DEF RemoveFromScheduled, TypeInv, CallbackLabels, CallerLabels
  <1>7. (pc[Callback] # "play" /\ pc'[Callback] # "play") \/ pc'[Callback] = pc[Callback]
    BY <1>6 DEF RemovalBegins, CallsFrom, Threads
  <1> QED
    BY <1>1, <1>2, <1>5, <1>6, <1>7
       DEF RemoveFromScheduled, TypeInv, TypeOK, HandsFull, locks, doing, midi

LEMMA RemoveFromQueueType ==
    ASSUME TypeInv, NEW t \in Threads, RemoveFromQueue(t)
    PROVE  TypeInv'
  <1>1. queue' \in Seq(Events)
    BY DeleteAllBeforeProperties DEF RemoveFromQueue, TypeInv, TypeOK
  <1>2. removal' \in [Threads -> Seq([cursorid : CursorIds, click : Nat])]
    <2>1. <<>> \in Seq([cursorid : CursorIds, click : Nat])
      OBVIOUS
    <2>2. removal' = [removal EXCEPT ![t] = <<>>]
      BY DEF RemoveFromQueue
    <2> QED BY <2>1, <2>2, RemovalUpdate
  <1>3. /\ pc' \in [Threads -> CallbackLabels \cup CallerLabels]
        /\ pc'[t] = CallsFrom(t)
        /\ \A u \in Threads : u # t => pc'[u] = pc[u]
        /\ pc'[Callback] \in CallbackLabels
        /\ \A u \in Callers : pc'[u] \in CallerLabels
    BY ThreadGoesTo DEF RemoveFromQueue, CallsFrom, TypeInv, CallbackLabels, CallerLabels
  <1>4. (pc[Callback] # "play" /\ pc'[Callback] # "play") \/ pc'[Callback] = pc[Callback]
    BY <1>3 DEF RemoveFromQueue, CallsFrom, Threads
  <1> QED
    BY <1>1, <1>2, <1>3, <1>4
       DEF RemoveFromQueue, TypeInv, TypeOK, HandsFull, locks, doing, midi

\* A client of the callback queues a new event, begins a removal, or is given
\* what the callback then takes itself.
ClientAdds == \E e \in NewMsgs \cup NewPhrases(CursorIds, Loopings) : QueueAddEvent(Callback, e)

LEMMA ClientKinds ==
    ASSUME ClickClient \/ PollMidiInput
    PROVE  \/ ClientAdds
           \/ RemovalBegins(Callback) /\ "QueueRemoveBefore" \in CallerOps
           \/ \E m \in Msgs : TakeMidiInput(m)
  BY DEF ClickClient, PollMidiInput, ClientQueues, ClientAdds, RemovalBegins, CallsFrom

\* Every call keeps the types.
LEMMA CallerType ==
    ASSUME TypeInv, NEW t \in Callers, Caller(t)
    PROVE  TypeInv'
  <1>0. t \in Threads /\ t # Callback /\ Callback \in Threads /\ Callers \subseteq Threads
    BY ThreadsAssumption DEF Threads
  <1>a. scheduled \in Seq(Events) /\ queue \in Seq(Events)
    BY DEF TypeInv, TypeOK
  <1>b. ASSUME NEW label \in CallerLabels, GoTo(t, label)
        PROVE  /\ pc' \in [Threads -> CallbackLabels \cup CallerLabels]
               /\ pc'[Callback] = pc[Callback]
               /\ \A u \in Callers : pc'[u] \in CallerLabels
    <2>1. /\ pc' \in [Threads -> CallbackLabels \cup CallerLabels]
          /\ pc'[t] = label
          /\ \A u \in Threads : u # t => pc'[u] = pc[u]
      BY <1>0, <1>b, PcUpdate DEF TypeInv
    <2> QED BY <1>0, <2>1 DEF TypeInv, TypeOK
  <1>1. CASE QueueMidiMsg(t)
    BY <1>1, NewEvents, QueueAddEventType DEF QueueMidiMsg
  <1>2. CASE QueueMidiPhrase(t)
    BY <1>2, NewEvents, QueueAddEventType DEF QueueMidiPhrase
  <1>3. CASE QueueClear(t)
    <2>1. queue' \in Seq(Events)
      BY <1>3 DEF QueueClear
    <2> QED
      BY <1>3, <2>1 DEF QueueClear, TypeInv, TypeOK, HandsFull, locks, doing, midi
  <1>4. CASE QueueRemoveBefore(t)
    <2>1. RemovalBegins(t)
      BY <1>0, <1>4 DEF QueueRemoveBefore, MayCall, RemovalBegins, CallsFrom
    <2> QED BY <1>0, <2>1, RemovalBeginsType
  <1>5. CASE RemoveFromQueue(t)
    BY <1>0, <1>5, RemoveFromQueueType
  <1>6. CASE LockScheduled(t)
    <2>1. PICK label \in {"ScheduleMidiMsg", "ScheduleMidiPhrase", "ScheduleClear"} :
            GoTo(t, label)
      BY <1>6 DEF LockScheduled
    <2>2. /\ pc' \in [Threads -> CallbackLabels \cup CallerLabels]
          /\ pc'[Callback] = pc[Callback]
          /\ \A u \in Callers : pc'[u] \in CallerLabels
      BY <1>b, <2>1 DEF CallerLabels
    <2> QED
      BY <1>0, <1>6, <2>2
         DEF LockScheduled, TypeInv, TypeOK, HandsFull, lists, doing, midi
  <1>7. CASE ScheduleMidiMsg(t)
    <2>1. ASSUME NEW e \in NewMsgs, FinishSchedule(t, InsertEvent(scheduled, e))
          PROVE  TypeInv'
      BY <1>a, <2>1, NewEvents, InsertOne, FinishScheduleType
    <2>2. ASSUME FinishSchedule(t, scheduled) PROVE TypeInv'
      BY <1>a, <2>2, FinishScheduleType
    <2> QED BY <1>7, <2>1, <2>2 DEF ScheduleMidiMsg
  <1>8. CASE ScheduleMidiPhrase(t)
    <2>1. ASSUME NEW e \in NewPhrases({SCHEDID_ALL}, {NoLooping}),
                 FinishSchedule(t, InsertEvent(scheduled, e))
          PROVE  TypeInv'
      BY <1>a, <2>1, NewEvents, InsertOne, FinishScheduleType
    <2>2. ASSUME FinishSchedule(t, scheduled) PROVE TypeInv'
      BY <1>a, <2>2, FinishScheduleType
    <2> QED BY <1>8, <2>1, <2>2 DEF ScheduleMidiPhrase
  <1>9. ASSUME NEW c, ScheduleClear(t, c) PROVE TypeInv'
    BY <1>a, <1>9, ClearedProperties, FinishScheduleType DEF ScheduleClear
  <1>10. CASE ANO(t)
    BY <1>10 DEF ANO, TypeInv, TypeOK, HandsFull, lists, locks, doing
  <1>11. CASE ClearNotesDown(t)
    BY <1>11 DEF ClearNotesDown, TypeInv, TypeOK, HandsFull, lists, locks, doing
  <1>12. CASE SetClicksPerSecond(t)
    <2>1. currentclick' \in Nat
      BY <1>12, DataAssumption DEF SetClicksPerSecond
    <2> QED
      BY <1>12, <2>1
         DEF SetClicksPerSecond, TypeInv, TypeOK, HandsFull, lists, locks, doing, midi
  <1> QED
    BY <1>1, <1>2, <1>3, <1>4, <1>5, <1>6, <1>7, <1>8, <1>9, <1>10, <1>11, <1>12
       DEF Caller

\* Where the callback goes with one of its own steps.
LEMMA CallbackGoesTo ==
    ASSUME TypeOK, NEW label \in CallbackLabels, GoTo(Callback, label)
    PROVE  /\ pc' \in [Threads -> CallbackLabels \cup CallerLabels]
           /\ pc'[Callback] = label
           /\ \A t \in Callers : pc'[t] = pc[t]
           /\ \A t \in Callers : pc'[t] \in CallerLabels
  <1>1. Callback \in Threads /\ Callers \subseteq Threads /\ Callback \notin Callers
    BY ThreadsAssumption DEF Threads
  <1>2. /\ pc' \in [Threads -> CallbackLabels \cup CallerLabels]
        /\ pc'[Callback] = label
        /\ \A t \in Threads : t # Callback => pc'[t] = pc[t]
    BY <1>1, PcUpdate
  <1> QED BY <1>1, <1>2 DEF TypeOK

\* A step that plays an event keeps the types.
LEMMA PlaysOneType ==
    ASSUME TypeInv, pc[Callback] = "due", PlaysOne, nevents' = 1,
           UNCHANGED <<currentclick, locks, removal, midi>>
    PROVE  TypeInv'
  <1>0. nevents' \in 0 .. 1
    OBVIOUS
  <1>1. CASE GoTo(Callback, "play") /\ playing' # <<>>
    <2>1. /\ pc' \in [Threads -> CallbackLabels \cup CallerLabels]
          /\ pc'[Callback] = "play"
          /\ \A t \in Callers : pc'[t] \in CallerLabels
      BY <1>1, CallbackGoesTo DEF TypeInv, CallbackLabels
    <2> QED
      BY <1>0, <1>1, <2>1
         DEF PlaysOne, TypeInv, TypeOK, HandsFull, CallbackLabels, locks, midi
  <1>2. CASE UNCHANGED <<hand, playing, pc>>
    BY <1>0, <1>2 DEF PlaysOne, TypeInv, TypeOK, HandsFull, locks, midi
  <1> QED BY <1>1, <1>2 DEF PlaysOne

\* Every step of the callback keeps the types.
LEMMA CallbackStepType ==
    ASSUME TypeInv, CallbackStep
    PROVE  TypeInv'
  <1>0. Callback \in Threads
    BY DEF Threads
  <1>a. scheduled \in Seq(Events) /\ queue \in Seq(Events) /\ TypeOK
    BY DEF TypeInv, TypeOK
  <1>1. CASE AdvanceTime
    <2>1. currentclick' \in Nat
      BY <1>1, DataAssumption DEF AdvanceTime
    <2>2. GoTo(Callback, "click") /\ pc[Callback] = "idle"
      BY <1>1 DEF AdvanceTime
    <2> QED
      BY <1>1, <1>a, <2>1, <2>2, CallbackGoesTo
         DEF AdvanceTime, TypeInv, TypeOK, HandsFull, CallbackLabels,
             lists, locks, doing, midi
  <1>2. CASE SameClick
    <2>1. GoTo(Callback, "poll") /\ pc[Callback] = "idle"
      BY <1>2 DEF SameClick
    <2> QED
      BY <1>2, <1>a, <2>1, CallbackGoesTo
         DEF SameClick, TypeInv, TypeOK, HandsFull, CallbackLabels,
             lists, locks, doing, midi
  <1>3. CASE ClientAdds
    BY <1>3, NewEvents, QueueAddEventType DEF ClientAdds
  <1>4. CASE TryLockScheduled
    <2>1. PICK label \in {"due", "poll"} : GoTo(Callback, label)
      BY <1>4 DEF TryLockScheduled
    <2>2. sched_lock' \in Threads \cup {NoThread}
      BY <1>0, <1>4 DEF TryLockScheduled, TypeInv, TypeOK
    <2>3. nevents' \in 0 .. 1 /\ pc[Callback] = "click"
      BY <1>4 DEF TryLockScheduled
    <2> QED
      BY <1>4, <1>a, <2>1, <2>2, <2>3, CallbackGoesTo
         DEF TryLockScheduled, TypeInv, TypeOK, HandsFull, CallbackLabels, lists, midi
  <1>5. CASE DoMidiMsg
    <2>1. /\ pc[Callback] = "due" /\ nevents' = 1
          /\ UNCHANGED <<currentclick, locks, removal, midi>>
      BY <1>5 DEF DoMidiMsg, Due
    <2> QED BY <1>5, <1>a, <2>1, DoMidiMsgPlaysOne, PlaysOneType
  <1>6. CASE DoMidiPhrase
    <2>1. /\ pc[Callback] = "due" /\ nevents' = 1
          /\ UNCHANGED <<currentclick, locks, removal, midi>>
      BY <1>6 DEF DoMidiPhrase, Due
    <2> QED BY <1>6, <1>a, <2>1, DoMidiPhrasePlaysOne, PlaysOneType
  <1>7. CASE SendMidiMsg
    <2>1. playing[1] \in Units
      BY <1>7, EmptySeq DEF SendMidiMsg, TypeInv, TypeOK, HandsFull
    <2>2. sounding' \subseteq Notes /\ notesdown' \subseteq Notes
      BY <1>7, <2>1, AfterType DEF SendMidiMsg, TypeInv, TypeOK
    <2>3. queue' \in Seq(Events)
      BY <1>7, RequeueProperties DEF SendMidiMsg, TypeInv, TypeOK
    <2>4. GoTo(Callback, "due")
      BY <1>7 DEF SendMidiMsg
    <2>5. hand' = <<>> /\ hand' \in Seq(Events) /\ playing' = <<>> /\ playing' \in Seq(Units)
      BY <1>7 DEF SendMidiMsg
    <2> QED
      BY <1>7, <1>a, <2>2, <2>3, <2>4, <2>5, CallbackGoesTo
         DEF SendMidiMsg, TypeInv, TypeOK, HandsFull, CallbackLabels, locks
  <1>8. CASE LockQueue
    <2>1. GoTo(Callback, "move") /\ pc[Callback] = "due"
      BY <1>8 DEF LockQueue
    <2> QED
      BY <1>8, <1>a, <2>1, CallbackGoesTo
         DEF LockQueue, TypeInv, TypeOK, HandsFull, CallbackLabels, lists, doing, midi
  <1>9. CASE AddQueueToScheduled
    <2>1. scheduled' \in Seq(Events) /\ queue' \in Seq(Events)
      BY <1>9, <1>a, TailOfEvents, InsertOne DEF AddQueueToScheduled
    <2> QED
      BY <1>9, <2>1 DEF AddQueueToScheduled, TypeInv, TypeOK, HandsFull, locks, doing, midi
  <1>10. CASE UnlockScheduled
    <2>1. GoTo(Callback, "poll") /\ pc[Callback] = "move"
      BY <1>10 DEF UnlockScheduled
    <2>2. sounding' \subseteq Notes
      BY <1>10 DEF UnlockScheduled, TypeInv, TypeOK
    <2> QED
      BY <1>10, <1>a, <2>1, <2>2, CallbackGoesTo
         DEF UnlockScheduled, TypeInv, TypeOK, HandsFull, CallbackLabels, lists, doing
  <1>11. ASSUME NEW m \in Msgs, TakeMidiInput(m) PROVE TypeInv'
    <2>1. /\ notesdown' = After(notesdown, m)
          /\ \/ \E id \in FreeIds :
                   queue' = InsertEvent(queue,
                              MsgEvent(id, m, currentclick,
                                       CURSORID_FOR_MIDIMERGE, NoLooping))
             \/ UNCHANGED queue
      BY <1>11 DEF TakeMidiInput
    <2>2. notesdown' \subseteq Notes
      BY <2>1, AfterType, DataAssumption DEF TypeInv, TypeOK
    <2>3. queue' \in Seq(Events)
      <3>1. m \in Units /\ FreeIds \subseteq EventIds
            /\ CURSORID_FOR_MIDIMERGE \in SchedIds /\ currentclick \in Nat
        BY DataAssumption DEF FreeIds, SchedIds, TypeInv, TypeOK
      <3>2. \A id \in FreeIds :
              MsgEvent(id, m, currentclick, CURSORID_FOR_MIDIMERGE, NoLooping) \in Events
        BY <3>1, MsgEventType, NoLoopingType
      <3> QED BY <1>a, <2>1, <3>2, InsertOne
    <2> QED
      BY <1>11, <2>2, <2>3
         DEF TakeMidiInput, TypeInv, TypeOK, HandsFull, locks, doing
  <1>12. CASE PollDone
    <2>1. GoTo(Callback, "idle") /\ pc[Callback] = "poll"
      BY <1>12 DEF PollDone
    <2> QED
      BY <1>12, <1>a, <2>1, CallbackGoesTo
         DEF PollDone, TypeInv, TypeOK, HandsFull, CallbackLabels, lists, locks, doing, midi
  <1>13. CASE RemovalBegins(Callback) \/ RemoveFromQueue(Callback)
    BY <1>0, <1>13, RemovalBeginsType, RemoveFromQueueType
  <1> QED
    BY <1>1, <1>2, <1>3, <1>4, <1>5, <1>6, <1>7, <1>8, <1>9, <1>10, <1>11, <1>12, <1>13,
       ClientKinds
       DEF CallbackStep, WithinCallback

\* A step that changes nothing keeps the types.
LEMMA StutterType ==
    ASSUME TypeInv, UNCHANGED vars
    PROVE  TypeInv'
  BY DEF TypeInv, TypeOK, HandsFull, vars, lists, locks, doing, midi

\* Every step keeps the types.
LEMMA NextType ==
    ASSUME TypeInv, [Next]_vars
    PROVE  TypeInv'
  BY CallerType, CallbackStepType, StutterType DEF Next

\* The inductive invariant: the types, and what the callback holds at each label.
LEMMA SpecTypeInv == Spec => []TypeInv
  <1>1. Init => TypeInv
    BY InitTypeInv
  <1>2. TypeInv /\ [Next]_vars => TypeInv'
    BY NextType
  <1> QED BY <1>1, <1>2, PTL DEF Spec

\* The variables of the scheduler have their types, whatever is called when,
\* from whatever threads: fading and requeueing always yield events again.
THEOREM TypeCorrect == Spec => []TypeOK
  <1>1. TypeInv => TypeOK
    BY DEF TypeInv
  <1> QED BY <1>1, SpecTypeInv, PTL

-----------------------------------------------------------------------------
(* The order of the lists *)

\* Both halves of a removal keep them ordered.
LEMMA RemovingKeepsOrder ==
    ASSUME TypeInv, ListsTimeOrdered, NEW t,
           \/ \E c, clk : RemoveFromScheduled(t, c, clk)
           \/ RemoveFromQueue(t)
    PROVE  ListsTimeOrdered'
  <1>1. /\ scheduled \in Seq(Events) /\ queue \in Seq(Events)
        /\ TimeOrdered(scheduled) /\ TimeOrdered(queue)
    BY DEF TypeInv, TypeOK, ListsTimeOrdered
  <1> QED BY <1>1, DeleteAllBeforeProperties
             DEF RemoveFromScheduled, RemoveFromQueue, ListsTimeOrdered

\* Every call keeps both lists ordered by click.
LEMMA CallerKeepsOrder ==
    ASSUME TypeInv, ListsTimeOrdered, NEW t \in Callers, Caller(t)
    PROVE  ListsTimeOrdered'
  <1>0. /\ scheduled \in Seq(Events) /\ queue \in Seq(Events)
        /\ TimeOrdered(scheduled) /\ TimeOrdered(queue) /\ TimeOrdered(<<>>)
    BY DEF TypeInv, TypeOK, ListsTimeOrdered, TimeOrdered
  <1>a. ASSUME NEW e \in Events, QueueAddEvent(t, e) PROVE ListsTimeOrdered'
    BY <1>0, <1>a, InsertOne DEF QueueAddEvent, ListsTimeOrdered
  <1>b. ASSUME NEW s, TimeOrdered(s), FinishSchedule(t, s) PROVE ListsTimeOrdered'
    BY <1>0, <1>b DEF FinishSchedule, ListsTimeOrdered
  <1>1. CASE QueueMidiMsg(t)
    BY <1>1, <1>a, NewEvents DEF QueueMidiMsg
  <1>2. CASE QueueMidiPhrase(t)
    BY <1>2, <1>a, NewEvents DEF QueueMidiPhrase
  <1>3. CASE QueueClear(t)
    BY <1>0, <1>3 DEF QueueClear, ListsTimeOrdered
  <1>4. CASE QueueRemoveBefore(t) \/ RemoveFromQueue(t)
    BY <1>4, RemovingKeepsOrder DEF QueueRemoveBefore
  <1>6. CASE ScheduleMidiMsg(t)
    BY <1>0, <1>6, <1>b, NewEvents, InsertOne DEF ScheduleMidiMsg
  <1>7. CASE ScheduleMidiPhrase(t)
    BY <1>0, <1>7, <1>b, NewEvents, InsertOne DEF ScheduleMidiPhrase
  <1>8. ASSUME NEW c, ScheduleClear(t, c) PROVE ListsTimeOrdered'
    BY <1>0, <1>8, <1>b, ClearedProperties DEF ScheduleClear
  <1>9. CASE LockScheduled(t) \/ ANO(t) \/ ClearNotesDown(t) \/ SetClicksPerSecond(t)
    BY <1>9 DEF LockScheduled, ANO, ClearNotesDown, SetClicksPerSecond, lists,
                ListsTimeOrdered
  <1> QED
    BY <1>1, <1>2, <1>3, <1>4, <1>6, <1>7, <1>8, <1>9 DEF Caller

\* Every step of the callback keeps both lists ordered by click.
LEMMA CallbackKeepsOrder ==
    ASSUME TypeInv, ListsTimeOrdered, CallbackStep
    PROVE  ListsTimeOrdered'
  <1>0. /\ scheduled \in Seq(Events) /\ queue \in Seq(Events) /\ hand \in Seq(Events)
        /\ TimeOrdered(scheduled) /\ TimeOrdered(queue) /\ TypeOK
    BY DEF TypeInv, TypeOK, ListsTimeOrdered
  <1>1. CASE ClientAdds
    <2>1. PICK e \in Events : QueueAddEvent(Callback, e)
      BY <1>1, NewEvents DEF ClientAdds
    <2> QED BY <1>0, <2>1, InsertOne DEF QueueAddEvent, ListsTimeOrdered
  <1>2. CASE DoMidiMsg \/ DoMidiPhrase
    <2>1. PlaysOne
      BY <1>0, <1>2, DoMidiMsgPlaysOne, DoMidiPhrasePlaysOne
    <2> QED BY <1>0, <2>1 DEF PlaysOne, ListsTimeOrdered
  <1>3. CASE SendMidiMsg
    BY <1>0, <1>3, RequeueProperties DEF SendMidiMsg, ListsTimeOrdered
  <1>4. CASE AddQueueToScheduled
    BY <1>0, <1>4, TailOfEvents, InsertOne DEF AddQueueToScheduled, ListsTimeOrdered
  <1>5. ASSUME NEW m \in Msgs, TakeMidiInput(m) PROVE ListsTimeOrdered'
    <2>1. \/ \E e \in Events : queue' = InsertEvent(queue, e)
          \/ UNCHANGED queue
      <3>1. /\ Msgs \subseteq Units /\ FreeIds \subseteq EventIds
            /\ CURSORID_FOR_MIDIMERGE \in SchedIds /\ currentclick \in Nat
        BY DataAssumption DEF FreeIds, SchedIds, TypeInv, TypeOK
      <3>2. \A id \in FreeIds :
              MsgEvent(id, m, currentclick, CURSORID_FOR_MIDIMERGE, NoLooping) \in Events
        BY <3>1, MsgEventType, NoLoopingType
      <3> QED BY <1>5, <3>2 DEF TakeMidiInput
    <2> QED BY <1>0, <1>5, <2>1, InsertOne DEF TakeMidiInput, ListsTimeOrdered
  <1>6. CASE \/ AdvanceTime \/ SameClick \/ TryLockScheduled \/ LockQueue
             \/ UnlockScheduled \/ PollDone
    BY <1>6 DEF AdvanceTime, SameClick, TryLockScheduled, LockQueue,
                UnlockScheduled, PollDone, lists, ListsTimeOrdered
  <1>7. CASE RemovalBegins(Callback) \/ RemoveFromQueue(Callback)
    BY <1>7, RemovingKeepsOrder DEF RemovalBegins
  <1> QED
    BY <1>1, <1>2, <1>3, <1>4, <1>5, <1>6, <1>7, ClientKinds DEF CallbackStep, WithinCallback

\* Both lists stay ordered by click, whatever is inserted, requeued at a later
\* click or deleted, and however the calls interleave with the callback.
THEOREM TimeOrder == Spec => []ListsTimeOrdered
  <1>1. Init => ListsTimeOrdered
    BY DEF Init, ListsTimeOrdered, TimeOrdered
  <1>2. TypeInv /\ ListsTimeOrdered /\ [Next]_vars => ListsTimeOrdered'
    <2> SUFFICES ASSUME TypeInv, ListsTimeOrdered, [Next]_vars
                 PROVE  ListsTimeOrdered'
      OBVIOUS
    <2>1. CASE UNCHANGED vars
      BY <2>1 DEF vars, lists, ListsTimeOrdered
    <2> QED BY <2>1, CallerKeepsOrder, CallbackKeepsOrder DEF Next
  <1> QED BY <1>1, <1>2, SpecTypeInv, PTL DEF Spec

-----------------------------------------------------------------------------
(* The locks *)

\* Every call takes and gives back the locks as its labels say.
LEMMA CallerKeepsExclusion ==
    ASSUME TypeInv, Exclusion, NEW t \in Callers, Caller(t)
    PROVE  Exclusion'
  <1>0. /\ t \in Threads /\ t # Callback /\ Callback \in Threads
        /\ NoThread \notin Threads /\ Callers \subseteq Threads /\ Callback \notin Callers
        /\ TypeOK
    BY ThreadsAssumption DEF Threads, TypeInv
  <1>a. ASSUME NEW label \in CallerLabels, GoTo(t, label)
        PROVE  /\ pc'[t] = label
               /\ \A u \in Threads : u # t => pc'[u] = pc[u]
    BY <1>0, <1>a, PcUpdate
  <1>1. CASE UNCHANGED <<pc, locks>>
    BY <1>1 DEF Exclusion, locks
  <1>2. CASE QueueRemoveBefore(t)
    <2>1. GoTo(t, "removing") /\ UNCHANGED locks /\ pc[t] = "idle"
      BY <1>2 DEF QueueRemoveBefore, RemoveFromScheduled, MayCall
    <2> QED BY <1>0, <1>a, <2>1 DEF Exclusion, locks, CallerLabels
  <1>3. CASE RemoveFromQueue(t)
    <2>1. GoTo(t, "idle") /\ UNCHANGED locks /\ pc[t] = "removing"
      BY <1>0, <1>3 DEF RemoveFromQueue, CallsFrom
    <2> QED BY <1>0, <1>a, <2>1 DEF Exclusion, locks, CallerLabels
  <1>4. CASE LockScheduled(t)
    <2>1. PICK label \in {"ScheduleMidiMsg", "ScheduleMidiPhrase", "ScheduleClear"} :
            GoTo(t, label)
      BY <1>4 DEF LockScheduled
    <2>2. sched_lock = NoThread /\ sched_lock' = t /\ queue_lock' = queue_lock
      BY <1>4 DEF LockScheduled
    <2>3. /\ pc'[t] = label
          /\ \A u \in Threads : u # t => pc'[u] = pc[u]
      BY <1>a, <2>1 DEF CallerLabels
    <2> QED BY <1>0, <2>1, <2>2, <2>3 DEF Exclusion
  <1>5. ASSUME NEW s, FinishSchedule(t, s), pc[t] \notin {"idle", "removing"}
        PROVE  Exclusion'
    <2>1. /\ sched_lock = t /\ sched_lock' = NoThread /\ queue_lock' = queue_lock
          /\ GoTo(t, "idle")
      BY <1>0, <1>5 DEF FinishSchedule, Exclusion
    <2>2. /\ pc'[t] = "idle"
          /\ \A u \in Threads : u # t => pc'[u] = pc[u]
      BY <1>a, <2>1 DEF CallerLabels
    <2> QED BY <1>0, <2>1, <2>2 DEF Exclusion
  <1>6. CASE ScheduleMidiMsg(t)
    BY <1>6, <1>5 DEF ScheduleMidiMsg
  <1>7. CASE ScheduleMidiPhrase(t)
    BY <1>7, <1>5 DEF ScheduleMidiPhrase
  <1>8. ASSUME NEW c, ScheduleClear(t, c) PROVE Exclusion'
    BY <1>8, <1>5 DEF ScheduleClear
  <1>9. CASE \/ QueueMidiMsg(t) \/ QueueMidiPhrase(t) \/ QueueClear(t)
             \/ ANO(t) \/ ClearNotesDown(t) \/ SetClicksPerSecond(t)
    <2>1. UNCHANGED <<pc, locks>>
      BY <1>9 DEF QueueMidiMsg, QueueMidiPhrase, QueueAddEvent, QueueClear, ANO,
                  ClearNotesDown, SetClicksPerSecond
    <2> QED BY <1>1, <2>1
  <1> QED
    BY <1>2, <1>3, <1>4, <1>6, <1>7, <1>8, <1>9 DEF Caller

\* The callback takes and gives back the locks as its labels say.
LEMMA CallbackKeepsExclusion ==
    ASSUME TypeInv, Exclusion, CallbackStep
    PROVE  Exclusion'
  <1>0. /\ Callback \in Threads /\ NoThread \notin Threads
        /\ Callers \subseteq Threads /\ Callback \notin Callers /\ TypeOK
    BY ThreadsAssumption DEF Threads, TypeInv
  <1>a. ASSUME NEW label \in CallbackLabels, GoTo(Callback, label)
        PROVE  /\ pc'[Callback] = label
               /\ \A t \in Callers : pc'[t] = pc[t]
    BY <1>0, <1>a, CallbackGoesTo
  <1>1. CASE AdvanceTime
    <2>1. GoTo(Callback, "click") /\ UNCHANGED locks /\ pc[Callback] = "idle"
      BY <1>1 DEF AdvanceTime
    <2> QED BY <1>0, <1>a, <2>1 DEF Exclusion, locks, CallbackLabels
  <1>2. CASE SameClick
    <2>1. GoTo(Callback, "poll") /\ UNCHANGED locks /\ pc[Callback] = "idle"
      BY <1>2 DEF SameClick
    <2> QED BY <1>0, <1>a, <2>1 DEF Exclusion, locks, CallbackLabels
  <1>3. CASE TryLockScheduled
    <2>1. /\ pc[Callback] = "click" /\ queue_lock' = queue_lock
          /\ \/ sched_lock = NoThread /\ sched_lock' = Callback /\ GoTo(Callback, "due")
             \/ UNCHANGED sched_lock /\ GoTo(Callback, "poll")
      BY <1>3 DEF TryLockScheduled
    <2>2. CASE sched_lock = NoThread /\ sched_lock' = Callback /\ GoTo(Callback, "due")
      BY <1>0, <1>a, <2>1, <2>2 DEF Exclusion, CallbackLabels
    <2>3. CASE UNCHANGED sched_lock /\ GoTo(Callback, "poll")
      BY <1>0, <1>a, <2>1, <2>3 DEF Exclusion, CallbackLabels
    <2> QED BY <2>1, <2>2, <2>3
  <1>4. CASE DoMidiMsg \/ DoMidiPhrase
    <2>1. pc[Callback] = "due" /\ UNCHANGED locks
      BY <1>4 DEF DoMidiMsg, DoMidiPhrase, Due
    <2>2. GoTo(Callback, "play") \/ UNCHANGED pc
      BY <1>0, <1>4, DoMidiMsgPlaysOne, DoMidiPhrasePlaysOne DEF PlaysOne
    <2> QED BY <1>0, <1>a, <2>1, <2>2 DEF Exclusion, locks, CallbackLabels
  <1>5. CASE SendMidiMsg
    <2>1. GoTo(Callback, "due") /\ UNCHANGED locks /\ pc[Callback] = "play"
      BY <1>5 DEF SendMidiMsg
    <2> QED BY <1>0, <1>a, <2>1 DEF Exclusion, locks, CallbackLabels
  <1>6. CASE LockQueue
    <2>1. /\ GoTo(Callback, "move") /\ pc[Callback] = "due"
          /\ queue_lock' = Callback /\ sched_lock' = sched_lock
      BY <1>6 DEF LockQueue
    <2> QED BY <1>0, <1>a, <2>1 DEF Exclusion, CallbackLabels
  <1>7. CASE UnlockScheduled
    <2>1. /\ GoTo(Callback, "poll") /\ pc[Callback] = "move"
          /\ queue_lock' = NoThread /\ sched_lock' = NoThread
      BY <1>7 DEF UnlockScheduled
    <2> QED BY <1>0, <1>a, <2>1 DEF Exclusion, CallbackLabels
  <1>8. CASE PollDone
    <2>1. GoTo(Callback, "idle") /\ UNCHANGED locks /\ pc[Callback] = "poll"
      BY <1>8 DEF PollDone
    <2> QED BY <1>0, <1>a, <2>1 DEF Exclusion, locks, CallbackLabels
  <1>9. CASE ClientAdds \/ AddQueueToScheduled \/ \E m \in Msgs : TakeMidiInput(m)
    BY <1>9 DEF ClientAdds, QueueAddEvent, AddQueueToScheduled, TakeMidiInput,
                Exclusion, locks
  <1>10. CASE RemovalBegins(Callback)
    <2>1. GoTo(Callback, "removing") /\ UNCHANGED locks /\ pc[Callback] = "click"
      BY <1>10 DEF RemovalBegins, RemoveFromScheduled, CallsFrom
    <2> QED BY <1>0, <1>a, <2>1 DEF Exclusion, locks, CallbackLabels
  <1>11. CASE RemoveFromQueue(Callback)
    <2>1. GoTo(Callback, "click") /\ UNCHANGED locks /\ pc[Callback] = "removing"
      BY <1>11 DEF RemoveFromQueue, CallsFrom
    <2> QED BY <1>0, <1>a, <2>1 DEF Exclusion, locks, CallbackLabels
  <1> QED
    BY <1>1, <1>2, <1>3, <1>4, <1>5, <1>6, <1>7, <1>8, <1>9, <1>10, <1>11, ClientKinds
       DEF CallbackStep, WithinCallback

\* The callback's pass over the events and the Schedule operations exclude each
\* other, for any number of threads.
THEOREM MutualExclusion == Spec => []Exclusion
  <1>1. Init => Exclusion
    <2>1. Callback \in Threads /\ Callers \subseteq Threads /\ NoThread \notin Threads
      BY ThreadsAssumption DEF Threads
    <2> QED BY <2>1 DEF Init, Exclusion
  <1>2. TypeInv /\ Exclusion /\ [Next]_vars => Exclusion'
    <2> SUFFICES ASSUME TypeInv, Exclusion, [Next]_vars
                 PROVE  Exclusion'
      OBVIOUS
    <2>1. CASE UNCHANGED vars
      BY <2>1 DEF vars, locks, Exclusion
    <2> QED BY <2>1, CallerKeepsExclusion, CallbackKeepsExclusion DEF Next
  <1> QED BY <1>1, <1>2, SpecTypeInv, PTL DEF Spec

-----------------------------------------------------------------------------
(* What has begun to play *)

\* The invariant that carries the proof: an event that has begun to play is in
\* the queue only as long as the callback holds the lock of "scheduled".
NoneStartedInQueue ==
    sched_lock # Callback => \A e \in ToSet(queue) : ~ e.started

\* Nor does a removal, on whatever thread.
LEMMA RemovingStartsNothing ==
    ASSUME TypeInv, NoneStartedInQueue, NEW t,
           \/ \E c, clk : RemoveFromScheduled(t, c, clk)
           \/ RemoveFromQueue(t)
    PROVE  NoneStartedInQueue'
  <1>1. queue \in Seq(Events)
    BY DEF TypeInv, TypeOK
  <1>2. sched_lock' = sched_lock /\ ToSet(queue') \subseteq ToSet(queue)
    BY <1>1, DeleteAllBeforeProperties DEF RemoveFromScheduled, RemoveFromQueue, locks
  <1> QED BY <1>2 DEF NoneStartedInQueue

\* No call puts an event into the queue that has begun to play.
LEMMA CallerStartsNothing ==
    ASSUME TypeInv, Exclusion, NoneStartedInQueue, NEW t \in Callers, Caller(t)
    PROVE  NoneStartedInQueue'
  <1>0. /\ queue \in Seq(Events) /\ t # Callback /\ NoThread # Callback
        /\ ToSet(<<>>) = {}
    BY ThreadsAssumption DEF TypeInv, TypeOK, Threads, ToSet
  <1>a. ASSUME NEW e \in Events, ~ e.started, QueueAddEvent(t, e)
        PROVE  NoneStartedInQueue'
    <2>1. /\ sched_lock' = sched_lock
          /\ ToSet(queue') = ToSet(queue) \cup {e}
      BY <1>0, <1>a, InsertOne DEF QueueAddEvent, locks
    <2> QED BY <1>a, <2>1 DEF NoneStartedInQueue
  <1>b. ASSUME NEW s, FinishSchedule(t, s), pc[t] \notin {"idle", "removing"}
        PROVE  NoneStartedInQueue'
    <2>1. sched_lock = t /\ queue' = queue
      BY <1>b DEF FinishSchedule, Exclusion
    <2> QED BY <1>0, <2>1 DEF NoneStartedInQueue
  <1>1. CASE QueueMidiMsg(t)
    BY <1>1, <1>a, NewEvents DEF QueueMidiMsg
  <1>2. CASE QueueMidiPhrase(t)
    BY <1>2, <1>a, NewEvents DEF QueueMidiPhrase
  <1>3. CASE QueueClear(t)
    BY <1>0, <1>3 DEF QueueClear, NoneStartedInQueue, locks
  <1>4. CASE QueueRemoveBefore(t) \/ RemoveFromQueue(t)
    BY <1>4, RemovingStartsNothing DEF QueueRemoveBefore
  <1>5. CASE LockScheduled(t)
    BY <1>0, <1>5 DEF LockScheduled, NoneStartedInQueue, lists
  <1>6. CASE ScheduleMidiMsg(t)
    BY <1>6, <1>b DEF ScheduleMidiMsg
  <1>7. CASE ScheduleMidiPhrase(t)
    BY <1>7, <1>b DEF ScheduleMidiPhrase
  <1>8. ASSUME NEW c, ScheduleClear(t, c) PROVE NoneStartedInQueue'
    BY <1>8, <1>b DEF ScheduleClear
  <1>9. CASE ANO(t) \/ ClearNotesDown(t) \/ SetClicksPerSecond(t)
    BY <1>9 DEF ANO, ClearNotesDown, SetClicksPerSecond, NoneStartedInQueue, lists, locks
  <1> QED
    BY <1>1, <1>2, <1>3, <1>4, <1>5, <1>6, <1>7, <1>8, <1>9 DEF Caller

\* The callback moves what it has begun out of the queue before it unlocks.
LEMMA CallbackStartsNothing ==
    ASSUME TypeInv, Exclusion, NoneStartedInQueue, CallbackStep
    PROVE  NoneStartedInQueue'
  <1>0. /\ queue \in Seq(Events) /\ ToSet(<<>>) = {}
    BY DEF TypeInv, TypeOK, ToSet
  <1>a. ASSUME NEW e \in Events, ~ e.started, queue' = InsertEvent(queue, e),
               sched_lock' = sched_lock
        PROVE  NoneStartedInQueue'
    <2>1. ToSet(queue') = ToSet(queue) \cup {e}
      BY <1>0, <1>a, InsertOne
    <2> QED BY <1>a, <2>1 DEF NoneStartedInQueue
  <1>1. CASE ClientAdds
    <2>1. PICK e \in Events : ~ e.started /\ QueueAddEvent(Callback, e)
      BY <1>1, NewEvents DEF ClientAdds
    <2> QED BY <2>1, <1>a DEF QueueAddEvent, locks
  <1>2. ASSUME NEW m \in Msgs, TakeMidiInput(m) PROVE NoneStartedInQueue'
    <2>1. \/ \E e \in Events : ~ e.started /\ queue' = InsertEvent(queue, e)
          \/ UNCHANGED queue
      <3>1. /\ Msgs \subseteq Units /\ FreeIds \subseteq EventIds
            /\ CURSORID_FOR_MIDIMERGE \in SchedIds /\ currentclick \in Nat
        BY DataAssumption DEF FreeIds, SchedIds, TypeInv, TypeOK
      <3>2. \A id \in FreeIds :
              /\ MsgEvent(id, m, currentclick, CURSORID_FOR_MIDIMERGE, NoLooping) \in Events
              /\ ~ MsgEvent(id, m, currentclick, CURSORID_FOR_MIDIMERGE, NoLooping).started
        BY <3>1, MsgEventType, NoLoopingType
      <3> QED BY <1>2, <3>2 DEF TakeMidiInput
    <2>2. sched_lock' = sched_lock
      BY <1>2 DEF TakeMidiInput, locks
    <2> QED BY <1>a, <2>1, <2>2 DEF NoneStartedInQueue
  <1>3. CASE DoMidiMsg \/ DoMidiPhrase \/ SendMidiMsg \/ AddQueueToScheduled
    <2>1. pc[Callback] \in {"due", "play", "move"} /\ sched_lock' = sched_lock
      BY <1>3 DEF DoMidiMsg, DoMidiPhrase, SendMidiMsg, AddQueueToScheduled, Due, locks
    <2> QED BY <2>1 DEF Exclusion, NoneStartedInQueue
  <1>4. CASE UnlockScheduled
    BY <1>0, <1>4 DEF UnlockScheduled, NoneStartedInQueue, lists
  <1>5. CASE TryLockScheduled
    BY <1>5 DEF TryLockScheduled, NoneStartedInQueue, lists
  <1>6. CASE AdvanceTime \/ SameClick \/ LockQueue \/ PollDone
    BY <1>6 DEF AdvanceTime, SameClick, LockQueue, PollDone, NoneStartedInQueue,
                lists, locks
  <1>7. CASE RemovalBegins(Callback) \/ RemoveFromQueue(Callback)
    BY <1>7, RemovingStartsNothing DEF RemovalBegins
  <1> QED
    BY <1>1, <1>2, <1>3, <1>4, <1>5, <1>6, <1>7, ClientKinds DEF CallbackStep, WithinCallback

\* What has begun to play is in "scheduled", or the callback holds the lock: the
\* way of a loop or a phrase through the queue is hidden from every caller that
\* takes the lock.
THEOREM StartedStaysScheduled == Spec => []StartedIsScheduled
  <1>1. Init => NoneStartedInQueue
    BY DEF Init, NoneStartedInQueue, ToSet
  <1>2. TypeInv /\ Exclusion /\ NoneStartedInQueue /\ [Next]_vars
            => NoneStartedInQueue'
    <2> SUFFICES ASSUME TypeInv, Exclusion, NoneStartedInQueue, [Next]_vars
                 PROVE  NoneStartedInQueue'
      OBVIOUS
    <2>1. CASE UNCHANGED vars
      BY <2>1 DEF vars, lists, locks, NoneStartedInQueue
    <2> QED BY <2>1, CallerStartsNothing, CallbackStartsNothing DEF Next
  <1>3. TypeInv /\ Exclusion /\ NoneStartedInQueue => StartedIsScheduled
    BY DEF TypeInv, HandsFull, Exclusion, NoneStartedInQueue, StartedIsScheduled
  <1> QED BY <1>1, <1>2, <1>3, SpecTypeInv, MutualExclusion, PTL DEF Spec

\* ScheduleClear of everything leaves nothing of a loop or a phrase to come back.
THEOREM ClearIsFinal == Spec => ClearStopsPlayback
  <1> DEFINE A == \A t \in Callers :
                     ScheduleClear(t, SCHEDID_ALL) =>
                         /\ scheduled' = <<>>
                         /\ \A e \in ToSet(queue') : ~ e.started
  <1>1. Exclusion /\ StartedIsScheduled /\ [Next]_vars => [A]_vars
    <2> SUFFICES ASSUME Exclusion, StartedIsScheduled, NEW t \in Callers,
                        ScheduleClear(t, SCHEDID_ALL)
                 PROVE  /\ scheduled' = <<>>
                        /\ \A e \in ToSet(queue') : ~ e.started
      OBVIOUS
    <2>1. /\ pc[t] = "ScheduleClear" /\ queue' = queue
          /\ scheduled' = Cleared(SCHEDID_ALL, scheduled)
      BY DEF ScheduleClear, FinishSchedule
    <2>2. sched_lock # Callback
      BY <2>1, ThreadsAssumption DEF Exclusion
    <2> QED BY <2>1, <2>2 DEF StartedIsScheduled, Cleared
  <1>2. Spec => [][A]_vars
    BY <1>1, MutualExclusion, StartedStaysScheduled, PTL DEF Spec
  <1> QED BY <1>2 DEF ClearStopsPlayback

\* While the callback goes through the due events, "scheduled" only shrinks: a
\* loop that comes back at a click that is due already waits for the next pass.
THEOREM PassesAreFinite == Spec => NothingJoinsPass
  <1> DEFINE A == pc[Callback] \in {"due", "play"} =>
                 pc'[Callback] = "move" \/ ToSet(scheduled') \subseteq ToSet(scheduled)
  <1>1. TypeInv /\ Exclusion /\ [Next]_vars => [A]_vars
    <2> SUFFICES ASSUME TypeInv, Exclusion, Next, pc[Callback] \in {"due", "play"},
                        ~ UNCHANGED scheduled
                 PROVE  ToSet(scheduled') \subseteq ToSet(scheduled)
      BY DEF vars, lists
    <2>0. /\ scheduled \in Seq(Events) /\ TypeOK
          /\ sched_lock = Callback /\ Callback \notin Callers
      BY ThreadsAssumption DEF TypeInv, TypeOK, Exclusion
    <2>1. ASSUME NEW t \in Callers, Caller(t)
          PROVE  QueueRemoveBefore(t)
      <3>1. pc[t] \in {"idle", "removing"}
        BY <2>0 DEF Exclusion
      <3> QED
        BY <2>1, <3>1
           DEF Caller, QueueMidiMsg, QueueMidiPhrase, QueueAddEvent, QueueClear,
               RemoveFromQueue, LockScheduled, ScheduleMidiMsg, ScheduleMidiPhrase,
               ScheduleClear, ANO, ClearNotesDown, SetClicksPerSecond, lists
    <2>2. ASSUME NEW t \in Callers, QueueRemoveBefore(t)
          PROVE  ToSet(scheduled') \subseteq ToSet(scheduled)
      BY <2>0, <2>2, DeleteAllBeforeProperties DEF QueueRemoveBefore, RemoveFromScheduled
    <2>3. ASSUME CallbackStep
          PROVE  DoMidiMsg \/ DoMidiPhrase
      BY <2>3 DEF CallbackStep, WithinCallback, AdvanceTime, SameClick, ClickClient,
                  PollMidiInput, RemoveFromQueue, TryLockScheduled, SendMidiMsg,
                  LockQueue, AddQueueToScheduled, UnlockScheduled, PollDone, lists
    <2>4. ASSUME DoMidiMsg \/ DoMidiPhrase
          PROVE  ToSet(scheduled') \subseteq ToSet(scheduled)
      BY <2>0, <2>4, DoMidiMsgPlaysOne, DoMidiPhrasePlaysOne DEF PlaysOne
    <2> QED BY <2>1, <2>2, <2>3, <2>4 DEF Next
  <1>2. Spec => [][A]_vars
    BY <1>1, SpecTypeInv, MutualExclusion, PTL DEF Spec
  <1> QED BY <1>2 DEF NothingJoinsPass
-----------------------------------------------------------------------------
(* Keys of lists *)

\* The keys of a list are the keys of its events.
LEMMA KeysOfSet ==
    ASSUME NEW s \in Seq(Events)
    PROVE  Keys(s) = {Key(e) : e \in ToSet(s)}
  BY ToSetOfSeq DEF Keys

\* The empty list has no keys and no events.
LEMMA KeysOfEmpty ==
    /\ Keys(<<>>) = {} /\ ToSet(<<>>) = {} /\ NoRepeat(<<>>)
  BY DEF Keys, ToSet, NoRepeat

\* An event with a new key makes no repetition, wherever it is inserted.
LEMMA KeysOfInsert ==
    ASSUME NEW s \in Seq(Events), NEW e \in Events, NoRepeat(s), Key(e) \notin Keys(s)
    PROVE  /\ NoRepeat(InsertEvent(s, e))
           /\ Keys(InsertEvent(s, e)) = Keys(s) \cup {Key(e)}
  <1> DEFINE p == InsertPosition(s, e)
             t == InsertEvent(s, e)
  <1>1. p \in 1 .. Len(s) + 1
    BY EventFields, EventClicks, InsertPositionProperties
  <1>2. /\ t \in Seq(Events) /\ Len(t) = Len(s) + 1
        /\ \A i \in 1 .. Len(s) + 1 :
             t[i] = IF i < p THEN s[i] ELSE IF i = p THEN e ELSE s[i - 1]
    BY EventClicks, InsertEventProperties
  <1>3. DOMAIN s = 1 .. Len(s) /\ DOMAIN t = 1 .. Len(s) + 1 /\ Len(s) \in Nat
    BY <1>2
  <1>4. \A i \in 1 .. Len(s) : Key(s[i]) # Key(e)
    BY <1>3 DEF Keys
  <1>5. ToSet(t) = ToSet(s) \cup {e}
    BY EventClicks, InsertEventSet
  <1> HIDE DEF p, t
  <1> DEFINE from(i) == IF i < p THEN i ELSE i - 1
  <1>6. ASSUME NEW i \in 1 .. Len(s) + 1, i # p
        PROVE  from(i) \in 1 .. Len(s) /\ t[i] = s[from(i)]
    BY <1>1, <1>2, <1>3, <1>6
  <1>7. ASSUME NEW i \in 1 .. Len(s) + 1, NEW j \in 1 .. Len(s) + 1,
               i # p, j # p, from(i) = from(j)
        PROVE  i = j
    BY <1>1, <1>3, <1>7
  <1> HIDE DEF from
  <1>8. t[p] = e
    BY <1>1, <1>2
  <1>9. ASSUME NEW i \in 1 .. Len(s) + 1, NEW j \in 1 .. Len(s) + 1,
               Key(t[i]) = Key(t[j])
        PROVE  i = j
    <2>1. CASE i # p /\ j # p
      <3>1. Key(s[from(i)]) = Key(s[from(j)])
        BY <2>1, <1>6, <1>9
      <3>2. from(i) = from(j)
        BY <3>1, <2>1, <1>3, <1>6 DEF NoRepeat
      <3> QED BY <3>2, <2>1, <1>7
    <2>2. CASE i = p /\ j # p
      BY <2>2, <1>4, <1>6, <1>8, <1>9
    <2>3. CASE i # p /\ j = p
      BY <2>3, <1>4, <1>6, <1>8, <1>9
    <2> QED BY <2>1, <2>2, <2>3
  <1>10. NoRepeat(t)
    BY <1>3, <1>9 DEF NoRepeat
  <1>11. Keys(t) = {Key(x) : x \in ToSet(t)} /\ Keys(s) = {Key(x) : x \in ToSet(s)}
    BY <1>2, KeysOfSet
  <1>12. Keys(t) = Keys(s) \cup {Key(e)}
    BY <1>5, <1>11
  <1> QED BY <1>10, <1>12 DEF t

\* PopFirst takes the head's key away and leaves no event equal to the head.
LEMMA KeysOfTail ==
    ASSUME NEW s \in Seq(Events), s # <<>>, NoRepeat(s)
    PROVE  /\ NoRepeat(Tail(s))
           /\ Keys(Tail(s)) = Keys(s) \ {Key(Head(s))}
           /\ Key(Head(s)) \in Keys(s)
           /\ ToSet(Tail(s)) = ToSet(s) \ {Head(s)}
  <1> DEFINE t == Tail(s)
             h == Head(s)
  <1>1. /\ t \in Seq(Events) /\ h \in Events /\ h = s[1]
        /\ Len(t) = Len(s) - 1
        /\ Len(s) \in Nat \ {0}
        /\ \A i \in 1 .. Len(t) : t[i] = s[i + 1]
    BY HeadTailProperties, EmptySeq
  <1>2. ToSet(s) = {h} \cup ToSet(t)
    BY TailProperties
  <1> HIDE DEF t, h
  <1>3. DOMAIN s = 1 .. Len(s) /\ DOMAIN t = 1 .. Len(t)
    BY <1>1
  <1>4. ASSUME NEW i \in 1 .. Len(t) PROVE Key(t[i]) # Key(h)
    <2>1. t[i] = s[i + 1] /\ i + 1 \in 1 .. Len(s) /\ i + 1 # 1 /\ 1 \in 1 .. Len(s)
      BY <1>1
    <2> QED BY <2>1, <1>1, <1>3 DEF NoRepeat
  <1>5. NoRepeat(t)
    <2> SUFFICES ASSUME NEW i \in 1 .. Len(t), NEW j \in 1 .. Len(t),
                        Key(t[i]) = Key(t[j])
                 PROVE  i = j
      BY <1>3 DEF NoRepeat
    <2>1. /\ t[i] = s[i + 1] /\ i + 1 \in 1 .. Len(s)
          /\ t[j] = s[j + 1] /\ j + 1 \in 1 .. Len(s)
      BY <1>1
    <2>2. i + 1 = j + 1
      BY <2>1, <1>3 DEF NoRepeat
    <2> QED BY <2>2
  <1>6. ToSet(t) = {t[i] : i \in 1 .. Len(t)}
    BY <1>1, ToSetOfSeq
  <1>7. \A x \in ToSet(t) : Key(x) # Key(h)
    BY <1>4, <1>6
  <1>8. Keys(t) = {Key(x) : x \in ToSet(t)} /\ Keys(s) = {Key(x) : x \in ToSet(s)}
    BY <1>1, KeysOfSet
  <1>9. Keys(t) = Keys(s) \ {Key(h)} /\ Key(h) \in Keys(s)
    BY <1>2, <1>7, <1>8
  <1>10. ToSet(t) = ToSet(s) \ {h}
    BY <1>2, <1>7
  <1> QED BY <1>5, <1>9, <1>10 DEF t, h

\* Deleting makes no repetition and adds no key.
LEMMA KeysOfWithout ==
    ASSUME NEW s \in Seq(Events), NEW D, NoRepeat(s)
    PROVE  NoRepeat(Without(s, D)) /\ Keys(Without(s, D)) \subseteq Keys(s)
  <1> DEFINE t == Without(s, D)
  <1>1. t \in Seq(Events) /\ Picks(t, s, (1 .. Len(s)) \ D)
    BY WithoutProperties
  <1>2. ToSet(t) \subseteq ToSet(s)
    BY WithoutOrdered
  <1> HIDE DEF t
  <1>3. PICK f \in [1 .. Len(t) -> (1 .. Len(s)) \ D] :
          /\ \A q, r \in 1 .. Len(t) : q < r => f[q] < f[r]
          /\ \A r \in 1 .. Len(t) : t[r] = s[f[r]]
    BY <1>1 DEF Picks
  <1>4. /\ DOMAIN t = 1 .. Len(t) /\ Len(t) \in Nat
        /\ DOMAIN s = 1 .. Len(s) /\ Len(s) \in Nat
    BY <1>1
  <1>5. ASSUME NEW q \in 1 .. Len(t), NEW r \in 1 .. Len(t), Key(t[q]) = Key(t[r])
        PROVE  q = r
    <2>1. f[q] \in 1 .. Len(s) /\ f[r] \in 1 .. Len(s)
      BY <1>3
    <2>2. f[q] = f[r]
      BY <2>1, <1>3, <1>4, <1>5 DEF NoRepeat
    <2>3. ~ (q < r) /\ ~ (r < q)
      BY <2>1, <2>2, <1>3
    <2> QED BY <2>3
  <1>6. NoRepeat(t)
    BY <1>4, <1>5 DEF NoRepeat
  <1>7. Keys(t) = {Key(x) : x \in ToSet(t)} /\ Keys(s) = {Key(x) : x \in ToSet(s)}
    BY <1>1, KeysOfSet
  <1> QED BY <1>2, <1>6, <1>7 DEF t

\* ScheduleClear and QueueRemoveBefore, then, do neither.
LEMMA KeysOfDeleted ==
    ASSUME NEW s \in Seq(Events), NoRepeat(s), NEW cursorid, NEW clk
    PROVE  /\ NoRepeat(Cleared(cursorid, s)) /\ Keys(Cleared(cursorid, s)) \subseteq Keys(s)
           /\ NoRepeat(DeleteAllBefore(s, cursorid, clk))
           /\ Keys(DeleteAllBefore(s, cursorid, clk)) \subseteq Keys(s)
  BY KeysOfWithout, KeysOfEmpty DEF Cleared, DeleteAllId, DeleteAllBefore

-----------------------------------------------------------------------------
(* The invariant *)

\* The events still to be done: what Timeline calls pending.
Pending == ToSet(scheduled) \cup ToSet(queue) \cup ToSet(hand)

\* EachEventOnce, of any three lists.
OncePerPlace(s, q, h) ==
    /\ NoRepeat(s) /\ NoRepeat(q)
    /\ Keys(s) \cap Keys(q) = {}
    /\ Keys(h) \cap (Keys(s) \cup Keys(q)) = {}

\* A looping phrase sheds its units from its front: a part that was shed has
\* the length that the phrase had then, which is more than it has now.  So the
\* next part it sheds is a new one.
PartsShrink(P) ==
    /\ \A e \in P : e.type = "MIDIPHRASE" => e.part = 0
    /\ \A e, f \in P :
          e.id = f.id /\ e.part = 0 /\ f.part # 0 => Len(e.units) < f.part

OnceInv == EachEventOnce /\ Len(hand) <= 1 /\ PartsShrink(Pending)

\* No two of the pending events have the same key.
LEMMA KeysTellPending ==
    ASSUME TypeOK, EachEventOnce, Len(hand) <= 1
    PROVE  \A e, f \in Pending : Key(e) = Key(f) => e = f
  <1>1. /\ scheduled \in Seq(Events) /\ queue \in Seq(Events) /\ hand \in Seq(Events)
    BY DEF TypeOK
  <1>2. /\ Keys(scheduled) = {Key(x) : x \in ToSet(scheduled)}
        /\ Keys(queue) = {Key(x) : x \in ToSet(queue)}
        /\ Keys(hand) = {Key(x) : x \in ToSet(hand)}
    BY <1>1, KeysOfSet
  <1>3. ASSUME NEW s \in Seq(Events), NoRepeat(s), NEW e \in ToSet(s), NEW f \in ToSet(s),
               Key(e) = Key(f)
        PROVE  e = f
    BY <1>3, ToSetOfSeq DEF NoRepeat
  <1>4. NoRepeat(hand)
    <2>1. DOMAIN hand = 1 .. Len(hand) /\ Len(hand) \in Nat
      BY <1>1
    <2> QED BY <2>1 DEF NoRepeat
  <1> QED BY <1>1, <1>2, <1>3, <1>4 DEF Pending, EachEventOnce

-----------------------------------------------------------------------------
(* DoEventAndDelete, exactly *)

\* What is left of an event, to be requeued, after its first unit.
Rest(e) == IF e.type = "MIDIPHRASE" THEN RestOfPhrase(e) ELSE <<>>

\* g repeats the first unit of e.
IsRepetition(g, e) ==
    /\ g \in Events /\ g.id = e.id /\ g.started /\ g.type = "MIDIMSG"
    /\ g.part = IF e.type = "MIDIPHRASE" THEN Len(e.units) ELSE e.part
    /\ g.click = e.click + e.loop /\ Len(g.units) = 1
    /\ g.cursorid = e.cursorid
    /\ g.loop = IF e.type = "MIDIPHRASE" THEN 0 ELSE e.loop

\* r is e from its second unit on.
IsContinuation(r, e) ==
    /\ r \in Events /\ r.id = e.id /\ r.part = e.part /\ r.started /\ r.type = e.type
    /\ e.type = "MIDIPHRASE" /\ Len(e.units) > 1
    /\ r.units = Tail(e.units) /\ Len(r.units) = Len(e.units) - 1
    /\ r.click >= e.click /\ r.cursorid = e.cursorid /\ r.loop = e.loop

\* The head of "scheduled" is played for the last time, or as a phrase that does
\* not loop ...
PlaysHead(e) ==
    /\ e.loop = 0 \/ e.units = <<>>
    /\ scheduled' = Tail(scheduled) /\ queue' = queue /\ hand' = Rest(e)

\* ... or it loops, and goes on ...
RepeatsHead(e) ==
    /\ e.loop > 0 /\ e.units # <<>>
    /\ \E g : IsRepetition(g, e) /\ queue' = InsertEvent(queue, g)
    /\ scheduled' = Tail(scheduled) /\ hand' = Rest(e)

\* ... or it loops, and has become too quiet.
FadesHead(e) ==
    /\ e.loop > 0 /\ e.units # <<>> /\ e.units[1].kind = "on"
    /\ scheduled' = Cleared(e.cursorid, Tail(scheduled))
    /\ queue' = Requeue(queue, Rest(e)) /\ hand' = <<>>

DoesHead(e) ==
    /\ scheduled # <<>> /\ e = Head(scheduled) /\ e \in Events
    /\ e.click <= currentclick /\ hand = <<>>
    /\ UNCHANGED currentclick
    /\ PlaysHead(e) \/ RepeatsHead(e) \/ FadesHead(e)

\* The rest of an event is nothing, or its continuation.
LEMMA RestProperties ==
    ASSUME NEW e \in Events
    PROVE  \/ Rest(e) = <<>> /\ ~ (e.type = "MIDIPHRASE" /\ Len(e.units) > 1)
           \/ \E r \in Events : Rest(e) = <<r>> /\ IsContinuation(r, e)
  <1>1. CASE ~ (e.type = "MIDIPHRASE" /\ Len(e.units) > 1)
    BY <1>1 DEF Rest, RestOfPhrase
  <1>2. CASE e.type = "MIDIPHRASE" /\ Len(e.units) > 1
    <2> DEFINE c == e.click + (e.units[2].click - e.units[1].click)
               r == [e EXCEPT !.click = c, !.units = Tail(@), !.started = TRUE]
    <2>1. Rest(e) = <<r>>
      BY <1>2 DEF Rest, RestOfPhrase
    <2>2. e.units \in Seq(Units) /\ e.units # <<>>
      BY <1>2, EventFields, EmptySeq
    <2>3. RestOfPhrase(e) \in Seq(Events)
      BY <1>2, <2>2, RestOfPhraseType
    <2>4. r \in Events
      <3>1. <<r>> \in Seq(Events)
        BY <1>2, <2>1, <2>3 DEF Rest
      <3> HIDE DEF r
      <3> QED BY <3>1, ElementOfSeq, LenProperties
    <2>5. c >= e.click
      <3>1. /\ e.units[1] \in Units /\ e.units[2] \in Units
            /\ 1 \in DOMAIN e.units /\ 2 \in DOMAIN e.units
        BY <1>2, <2>2
      <3>2. e.units[1].click \in Nat /\ e.units[2].click \in Nat
        BY <3>1 DEF Units
      <3>3. e.units[1].click <= e.units[2].click
        BY <3>1, EventFields DEF TimeOrdered
      <3> QED BY <3>2, <3>3, EventFields
    <2> HIDE DEF c
    <2>6. /\ r.id = e.id /\ r.part = e.part /\ r.started /\ r.type = e.type
          /\ r.units = Tail(e.units) /\ r.click = c /\ r.cursorid = e.cursorid
          /\ r.loop = e.loop
      BY DEF Events
    <2>7. Len(Tail(e.units)) = Len(e.units) - 1
      BY <2>2, HeadTailProperties
    <2> QED BY <1>2, <2>1, <2>4, <2>5, <2>6, <2>7 DEF IsContinuation
  <1> QED BY <1>1, <1>2

\* _handleLoopEvent of e2, which is to repeat e.
LEMMA HandleLoopEventDoesHead ==
    ASSUME NEW e \in Events, e.loop > 0, e.units # <<>>,
           hand = <<>>,
           NEW e2, IsRepetition(e2, e), e2.units[1].kind = e.units[1].kind,
           HandleLoopEvent(e2, Rest(e))
    PROVE  RepeatsHead(e) \/ FadesHead(e)
  <1>1. CASE LoopContinues(e2.units[1], e2.fade)
    <2> DEFINE g == [e2 EXCEPT !.units[1] = Faded(@, e2.fade)]
    <2>1. /\ queue' = InsertEvent(queue, g)
          /\ scheduled' = Tail(scheduled)
          /\ hand' = Rest(e)
      BY <1>1 DEF HandleLoopEvent, StartPlaying
    <2>2. e2 \in Events /\ e2.units # <<>>
      BY EventFields, EmptySeq DEF IsRepetition
    <2>3. g \in Events
      BY <2>2, FadedEventType
    <2>4. /\ g.id = e2.id /\ g.started = e2.started /\ g.type = e2.type
          /\ g.part = e2.part /\ g.click = e2.click /\ g.cursorid = e2.cursorid
          /\ g.loop = e2.loop
      BY <2>2 DEF Events
    <2>5. Len(g.units) = 1
      BY <2>3, <2>4, EventFields DEF IsRepetition
    <2>6. IsRepetition(g, e)
      BY <2>3, <2>4, <2>5 DEF IsRepetition
    <2> QED BY <2>1, <2>6 DEF RepeatsHead
  <1>2. CASE ~ LoopContinues(e2.units[1], e2.fade)
    <2>1. /\ scheduled' = Cleared(e2.cursorid, Tail(scheduled))
          /\ queue' = Requeue(queue, Rest(e))
          /\ hand' = hand
      BY <1>2 DEF HandleLoopEvent
    <2>2. e2.units[1].kind = "on"
      BY <1>2 DEF LoopContinues
    <2> QED BY <2>1, <2>2 DEF FadesHead, IsRepetition
  <1> QED BY <1>1, <1>2

\* DoEventAndDelete on a message.
LEMMA DoMidiMsgDoesHead ==
    ASSUME TypeInv, DoMidiMsg
    PROVE  \E e \in ToSet(scheduled) : DoesHead(e)
  <1>1. PICK e \in ToSet(scheduled) :
          /\ Due(e)
          /\ e.type = "MIDIMSG"
          /\ IF e.loop > 0
             THEN HandleLoopEvent([e EXCEPT !.click = @ + e.loop, !.started = TRUE], <<>>)
             ELSE /\ scheduled' = Tail(scheduled)
                  /\ UNCHANGED queue
                  /\ StartPlaying(e.units[1], <<>>)
          /\ UNCHANGED currentclick
    BY DEF DoMidiMsg
  <1>2. /\ scheduled # <<>> /\ e = Head(scheduled) /\ e.click <= currentclick
        /\ e \in Events /\ hand = <<>>
    BY <1>1, ToSetOfSeq DEF TypeInv, TypeOK, HandsFull, Due
  <1>3. /\ e.units # <<>> /\ Len(e.units) = 1 /\ e.loop \in Nat /\ e.click \in Nat
        /\ Rest(e) = <<>>
    <2>1. Len(e.units) = 1 /\ e.loop \in Nat /\ e.click \in Nat
      BY <1>1, <1>2, EventFields
    <2>2. e.units # <<>>
      <3>1. Len(e.units) = 1
        BY <2>1
      <3> QED BY <3>1, EmptySeq
    <2>3. Rest(e) = <<>>
      BY <1>1 DEF Rest
    <2> QED BY <2>1, <2>2, <2>3
  <1>4. CASE e.loop > 0
    <2> DEFINE e2 == [e EXCEPT !.click = @ + e.loop, !.started = TRUE]
    <2>1. e2 \in Events
      BY <1>2, LoopedMsgType
    <2>2. IsRepetition(e2, e) /\ e2.units = e.units
      BY <1>1, <1>2, <1>3, <2>1 DEF IsRepetition, Events
    <2>3. HandleLoopEvent(e2, Rest(e))
      BY <1>1, <1>3, <1>4
    <2> HIDE DEF e2
    <2>4. RepeatsHead(e) \/ FadesHead(e)
      BY <1>2, <1>3, <1>4, <2>2, <2>3, HandleLoopEventDoesHead
    <2> QED BY <1>1, <1>2, <2>4 DEF DoesHead
  <1>5. CASE ~ (e.loop > 0)
    BY <1>1, <1>2, <1>3, <1>5 DEF DoesHead, PlaysHead, StartPlaying
  <1> QED BY <1>4, <1>5

\* DoEventAndDelete on a phrase.
LEMMA DoMidiPhraseDoesHead ==
    ASSUME TypeInv, DoMidiPhrase
    PROVE  \E e \in ToSet(scheduled) : DoesHead(e)
  <1>1. PICK e \in ToSet(scheduled) :
          /\ Due(e)
          /\ e.type = "MIDIPHRASE"
          /\ \/ /\ e.units = <<>>
                /\ scheduled' = Tail(scheduled)
                /\ UNCHANGED <<queue, playing, hand, pc>>
             \/ /\ e.units # <<>> /\ e.loop > 0
                /\ e.units[1].kind # "control"
                /\ HandleLoopEvent(LoopedUnit(e), RestOfPhrase(e))
             \/ /\ e.units # <<>> /\ e.loop = 0
                /\ scheduled' = Tail(scheduled)
                /\ UNCHANGED queue
                /\ StartPlaying(e.units[1], RestOfPhrase(e))
          /\ UNCHANGED currentclick
    BY DEF DoMidiPhrase
  <1>2. /\ scheduled # <<>> /\ e = Head(scheduled) /\ e.click <= currentclick
        /\ e \in Events /\ hand = <<>> /\ Rest(e) = RestOfPhrase(e)
    BY <1>1, ToSetOfSeq DEF TypeInv, TypeOK, HandsFull, Due, Rest
  <1>3. CASE /\ e.units = <<>>
             /\ scheduled' = Tail(scheduled)
             /\ UNCHANGED <<queue, playing, hand, pc>>
    <2>1. RestOfPhrase(e) = <<>>
      BY <1>3 DEF RestOfPhrase
    <2> QED BY <1>1, <1>2, <1>3, <2>1 DEF DoesHead, PlaysHead
  <1>4. CASE /\ e.units # <<>> /\ e.loop > 0
             /\ e.units[1].kind # "control"
             /\ HandleLoopEvent(LoopedUnit(e), RestOfPhrase(e))
    <2>1. LoopedUnit(e) \in Events
      BY <1>2, <1>4, LoopedUnitType
    <2> DEFINE m == MsgEvent(e.id, e.units[1], e.click + e.loop, e.cursorid, NoLooping)
    <2>2. /\ m.id = e.id /\ m.type = "MIDIMSG" /\ m.click = e.click + e.loop
          /\ m.units = <<e.units[1]>> /\ m.cursorid = e.cursorid /\ m.loop = 0
      BY DEF MsgEvent, NoLooping
    <2>3. /\ LoopedUnit(e).id = e.id /\ LoopedUnit(e).type = "MIDIMSG"
          /\ LoopedUnit(e).click = e.click + e.loop
          /\ LoopedUnit(e).units = <<e.units[1]>>
          /\ LoopedUnit(e).cursorid = e.cursorid /\ LoopedUnit(e).loop = 0
          /\ LoopedUnit(e).part = Len(e.units) /\ LoopedUnit(e).started
      BY <2>2 DEF LoopedUnit, MsgEvent
    <2>4. IsRepetition(LoopedUnit(e), e) /\ LoopedUnit(e).units[1].kind = e.units[1].kind
      BY <1>1, <2>1, <2>3, EventFields DEF IsRepetition
    <2>5. RepeatsHead(e) \/ FadesHead(e)
      BY <1>2, <1>4, <2>4, HandleLoopEventDoesHead
    <2> QED BY <1>1, <1>2, <2>5 DEF DoesHead
  <1>5. CASE /\ e.units # <<>> /\ e.loop = 0
             /\ scheduled' = Tail(scheduled)
             /\ UNCHANGED queue
             /\ StartPlaying(e.units[1], RestOfPhrase(e))
    BY <1>1, <1>2, <1>5 DEF DoesHead, PlaysHead, StartPlaying
  <1> QED BY <1>1, <1>3, <1>4, <1>5

-----------------------------------------------------------------------------
(* The kinds of steps *)

\* A thread is at a label of an operation only if that operation is offered.
CallsAreOffered ==
    \A t \in Threads :
        /\ pc[t] = "removing" => "QueueRemoveBefore" \in CallerOps
        /\ pc[t] = "ScheduleClear" => "ScheduleClear" \in CallerOps

ClearsAreOffered ==
    CallerOps \cap {"QueueClear", "ScheduleClear", "QueueRemoveBefore"} # {}

\* An event that nobody knows yet.
IsNew(e) ==
    /\ e \in Events /\ ~ e.started /\ e.id \in FreeIds /\ e.part = 0
    /\ e.loop > 0 => e.cursorid \in CursorIds

\* Somebody hands an event over,
Adds(e) ==
    /\ IsNew(e)
    /\ \/ queue' = InsertEvent(queue, e) /\ scheduled' = scheduled
       \/ scheduled' = InsertEvent(scheduled, e) /\ queue' = queue

AddsEvent == UNCHANGED <<currentclick, hand>> /\ \E e : Adds(e)

\* takes events away,
Removed(s, t) ==
    /\ ToSet(t) \subseteq ToSet(s)
    /\ NoRepeat(s) => NoRepeat(t) /\ Keys(t) \subseteq Keys(s)

RemovesEvents ==
    /\ ClearsAreOffered
    /\ UNCHANGED <<currentclick, hand>> /\ Turn' = Turn
    /\ Removed(scheduled, scheduled') /\ Removed(queue, queue')

\* moves an event from one place to another, or touches none.
MovesEvents ==
    /\ currentclick' \in Nat
    /\ \/ /\ queue # <<>>
          /\ scheduled' = InsertEvent(scheduled, Head(queue))
          /\ queue' = Tail(queue) /\ hand' = hand
       \/ queue' = Requeue(queue, hand) /\ hand' = <<>> /\ scheduled' = scheduled
       \/ UNCHANGED <<scheduled, queue, hand>>

\* What the constructors make is new.
LEMMA ConstructedIsNew ==
    ASSUME TypeOK
    PROVE  /\ \A e \in NewMsgs : IsNew(e)
           /\ \A e \in NewPhrases(CursorIds, Loopings) : IsNew(e)
           /\ \A e \in NewPhrases({SCHEDID_ALL}, {NoLooping}) : IsNew(e)
           /\ \A id \in FreeIds, m \in Msgs :
                IsNew(MsgEvent(id, m, currentclick, CURSORID_FOR_MIDIMERGE, NoLooping))
  <1>1. \A e \in NewMsgs : e.id \in FreeIds /\ e.part = 0 /\ e.cursorid \in CursorIds
    BY DEF NewMsgs, MsgEvent
  <1>2. \A e \in NewPhrases(CursorIds, Loopings) :
          e.id \in FreeIds /\ e.part = 0 /\ e.cursorid \in CursorIds
    BY DEF NewPhrases, PhraseEvent
  <1>3. \A e \in NewPhrases({SCHEDID_ALL}, {NoLooping}) :
          e.id \in FreeIds /\ e.part = 0 /\ ~ (e.loop > 0)
    BY DEF NewPhrases, PhraseEvent, NoLooping
  <1>4. ASSUME NEW id \in FreeIds, NEW m \in Msgs
        PROVE  IsNew(MsgEvent(id, m, currentclick, CURSORID_FOR_MIDIMERGE, NoLooping))
    <2> DEFINE e == MsgEvent(id, m, currentclick, CURSORID_FOR_MIDIMERGE, NoLooping)
    <2>1. /\ m \in Units /\ id \in EventIds
          /\ CURSORID_FOR_MIDIMERGE \in SchedIds /\ currentclick \in Nat
      BY DataAssumption DEF FreeIds, SchedIds, TypeOK
    <2>2. e \in Events /\ ~ e.started
      BY <2>1, MsgEventType, NoLoopingType
    <2>3. e.id = id /\ e.part = 0 /\ e.loop = 0
      BY DEF MsgEvent, NoLooping
    <2> HIDE DEF e
    <2>4. IsNew(e)
      BY <2>2, <2>3 DEF IsNew
    <2> QED BY <2>4 DEF e
  <1>5. \A e \in NewMsgs : IsNew(e)
    BY <1>1, NewEvents DEF IsNew
  <1>6. \A e \in NewPhrases(CursorIds, Loopings) : IsNew(e)
    BY <1>2, NewEvents DEF IsNew
  <1>7. \A e \in NewPhrases({SCHEDID_ALL}, {NoLooping}) : IsNew(e)
    BY <1>3, NewEvents DEF IsNew
  <1> QED BY <1>4, <1>5, <1>6, <1>7

\* Clearing and removing take events away.
LEMMA DeletingRemoves ==
    ASSUME NEW s \in Seq(Events), NEW cursorid, NEW clk
    PROVE  /\ Removed(s, s) /\ Removed(s, <<>>)
           /\ Removed(s, Cleared(cursorid, s))
           /\ Removed(s, DeleteAllBefore(s, cursorid, clk))
  BY KeysOfDeleted, KeysOfEmpty, ClearedProperties, DeleteAllBeforeProperties DEF Removed

\* Both halves of a removal take events away, on whatever thread.
LEMMA RemovingRemoves ==
    ASSUME TypeInv, CallsAreOffered, NEW t \in Threads,
           \/ RemovalBegins(t) /\ "QueueRemoveBefore" \in CallerOps
           \/ RemoveFromQueue(t)
    PROVE  RemovesEvents
  <1>0. scheduled \in Seq(Events) /\ queue \in Seq(Events) /\ TypeOK /\ Callback \in Threads
    BY DEF TypeInv, TypeOK, Threads
  <1>1. CASE RemovalBegins(t) /\ "QueueRemoveBefore" \in CallerOps
    <2>1. PICK c \in CursorIds, clk \in 0 .. MaxClick : RemoveFromScheduled(t, c, clk)
      BY <1>1 DEF RemovalBegins
    <2>2. /\ scheduled' = DeleteAllBefore(scheduled, c, clk)
          /\ UNCHANGED <<currentclick, queue, hand>> /\ GoTo(t, "removing")
      BY <2>1 DEF RemoveFromScheduled, doing
    <2>3. pc'[t] = "removing" /\ \A u \in Threads : u # t => pc'[u] = pc[u]
      BY <1>0, <2>2, PcUpdate DEF CallerLabels
    <2>4. Turn' = Turn
      BY <1>0, <1>1, <2>3 DEF Turn, RemovalBegins, CallsFrom
    <2> QED BY <1>0, <1>1, <2>2, <2>4, DeletingRemoves DEF RemovesEvents, ClearsAreOffered
  <1>2. CASE RemoveFromQueue(t)
    <2>1. /\ queue' = DeleteAllBefore(queue, removal[t][1].cursorid, removal[t][1].click)
          /\ UNCHANGED <<currentclick, scheduled, hand>> /\ GoTo(t, CallsFrom(t))
          /\ pc[t] = "removing"
      BY <1>2 DEF RemoveFromQueue, doing
    <2>2. ClearsAreOffered
      BY <2>1 DEF CallsAreOffered, ClearsAreOffered
    <2>3. pc'[t] = CallsFrom(t) /\ \A u \in Threads : u # t => pc'[u] = pc[u]
      BY <1>0, <2>1, PcUpdate DEF CallsFrom, CallerLabels, CallbackLabels
    <2>4. Turn' = Turn
      BY <1>0, <2>1, <2>3 DEF Turn, CallsFrom
    <2> QED BY <1>0, <2>1, <2>2, <2>4, DeletingRemoves DEF RemovesEvents
  <1> QED BY <1>1, <1>2

\* The kinds of a caller's steps.
LEMMA CallerStepKinds ==
    ASSUME TypeInv, CallsAreOffered, NEW t \in Callers, Caller(t)
    PROVE  AddsEvent \/ RemovesEvents \/ MovesEvents
  <1>0. /\ scheduled \in Seq(Events) /\ queue \in Seq(Events) /\ currentclick \in Nat
        /\ TypeOK
    BY DEF TypeInv, TypeOK
  <1>a. t \in Threads /\ t # Callback /\ Callback \in Threads
    BY ThreadsAssumption DEF Threads
  <1>b. ASSUME NEW label \in CallerLabels, GoTo(t, label)
        PROVE  pc'[Callback] = pc[Callback]
    BY <1>0, <1>a, <1>b, PcUpdate
  <1>c. ASSUME NEW e, IsNew(e), QueueAddEvent(t, e)
        PROVE  AddsEvent
    BY <1>c DEF QueueAddEvent, AddsEvent, Adds, doing
  <1>1. CASE QueueMidiMsg(t)
    BY <1>0, <1>1, <1>c, ConstructedIsNew DEF QueueMidiMsg
  <1>2. CASE QueueMidiPhrase(t)
    BY <1>0, <1>2, <1>c, ConstructedIsNew DEF QueueMidiPhrase
  <1>3. CASE QueueClear(t)
    <2>1. /\ queue' = <<>> /\ UNCHANGED <<currentclick, scheduled, pc, hand>>
          /\ ClearsAreOffered
      BY <1>3 DEF QueueClear, MayCall, doing, ClearsAreOffered
    <2> QED BY <1>0, <2>1, DeletingRemoves DEF RemovesEvents, Turn
  <1>4. CASE QueueRemoveBefore(t)
    <2>1. RemovalBegins(t) /\ "QueueRemoveBefore" \in CallerOps
      BY <1>a, <1>4 DEF QueueRemoveBefore, MayCall, RemovalBegins, CallsFrom
    <2> QED BY <1>a, <2>1, RemovingRemoves
  <1>5. CASE RemoveFromQueue(t)
    BY <1>a, <1>5, RemovingRemoves
  <1>6. CASE LockScheduled(t)
    BY <1>0, <1>6 DEF LockScheduled, MovesEvents, lists, doing
  <1>7. CASE ScheduleMidiMsg(t)
    <2>1. ASSUME NEW e \in NewMsgs, FinishSchedule(t, InsertEvent(scheduled, e))
          PROVE  AddsEvent
      BY <1>0, <2>1, ConstructedIsNew DEF FinishSchedule, AddsEvent, Adds, doing
    <2>2. ASSUME FinishSchedule(t, scheduled) PROVE MovesEvents
      BY <1>0, <2>2 DEF FinishSchedule, MovesEvents, doing
    <2> QED BY <1>7, <2>1, <2>2 DEF ScheduleMidiMsg
  <1>8. CASE ScheduleMidiPhrase(t)
    <2>1. ASSUME NEW e \in NewPhrases({SCHEDID_ALL}, {NoLooping}),
                 FinishSchedule(t, InsertEvent(scheduled, e))
          PROVE  AddsEvent
      BY <1>0, <2>1, ConstructedIsNew DEF FinishSchedule, AddsEvent, Adds, doing
    <2>2. ASSUME FinishSchedule(t, scheduled) PROVE MovesEvents
      BY <1>0, <2>2 DEF FinishSchedule, MovesEvents, doing
    <2> QED BY <1>8, <2>1, <2>2 DEF ScheduleMidiPhrase
  <1>9. ASSUME NEW c, ScheduleClear(t, c) PROVE RemovesEvents
    <2>1. /\ scheduled' = Cleared(c, scheduled)
          /\ UNCHANGED <<currentclick, queue, hand>> /\ GoTo(t, "idle")
      BY <1>9 DEF ScheduleClear, FinishSchedule, doing
    <2>2. ClearsAreOffered
      BY <1>a, <1>9 DEF ScheduleClear, CallsAreOffered, ClearsAreOffered
    <2>3. pc'[Callback] = pc[Callback]
      BY <1>b, <2>1 DEF CallerLabels
    <2> QED BY <1>0, <2>1, <2>2, <2>3, DeletingRemoves DEF RemovesEvents, Turn
  <1>10. CASE ANO(t) \/ ClearNotesDown(t)
    BY <1>0, <1>10 DEF ANO, ClearNotesDown, MovesEvents, lists, doing
  <1>11. CASE SetClicksPerSecond(t)
    BY <1>11, DataAssumption DEF SetClicksPerSecond, MovesEvents, lists, doing
  <1> QED
    BY <1>1, <1>2, <1>3, <1>4, <1>5, <1>6, <1>7, <1>8, <1>9, <1>10, <1>11 DEF Caller

\* The kinds of the callback's steps.
LEMMA CallbackStepKinds ==
    ASSUME TypeInv, CallsAreOffered, CallbackStep
    PROVE  \/ AddsEvent \/ RemovesEvents \/ MovesEvents
           \/ \E e \in ToSet(scheduled) : DoesHead(e)
  <1>0. currentclick \in Nat /\ TypeOK
    BY DEF TypeInv, TypeOK
  <1>1. CASE AdvanceTime
    BY <1>1, DataAssumption DEF AdvanceTime, MovesEvents, lists, doing
  <1>2. CASE SameClick \/ TryLockScheduled \/ LockQueue \/ UnlockScheduled \/ PollDone
    BY <1>0, <1>2 DEF SameClick, TryLockScheduled, LockQueue, UnlockScheduled, PollDone,
                      MovesEvents, lists, doing
  <1>3. CASE ClientAdds
    <2>1. PICK e : IsNew(e) /\ QueueAddEvent(Callback, e)
      BY <1>0, <1>3, ConstructedIsNew DEF ClientAdds
    <2> QED BY <2>1 DEF QueueAddEvent, AddsEvent, Adds, doing
  <1>4. CASE DoMidiMsg \/ DoMidiPhrase
    BY <1>4, DoMidiMsgDoesHead, DoMidiPhraseDoesHead
  <1>5. CASE SendMidiMsg
    BY <1>0, <1>5 DEF SendMidiMsg, MovesEvents
  <1>6. CASE AddQueueToScheduled
    BY <1>0, <1>6 DEF AddQueueToScheduled, MovesEvents, doing
  <1>7. ASSUME NEW m \in Msgs, TakeMidiInput(m) PROVE AddsEvent \/ MovesEvents
    <2>1. UNCHANGED <<currentclick, scheduled, hand>>
      BY <1>7 DEF TakeMidiInput, doing
    <2>2. \/ UNCHANGED queue
          \/ \E id \in FreeIds :
               queue' = InsertEvent(queue, MsgEvent(id, m, currentclick,
                                            CURSORID_FOR_MIDIMERGE, NoLooping))
      BY <1>7 DEF TakeMidiInput
    <2>3. CASE UNCHANGED queue
      BY <1>0, <2>1, <2>3 DEF MovesEvents
    <2>4. ASSUME NEW id \in FreeIds,
                 queue' = InsertEvent(queue, MsgEvent(id, m, currentclick,
                                              CURSORID_FOR_MIDIMERGE, NoLooping))
          PROVE  AddsEvent
      BY <1>0, <2>1, <2>4, ConstructedIsNew DEF AddsEvent, Adds
    <2> QED BY <2>2, <2>3, <2>4
  <1>8. CASE RemovalBegins(Callback) /\ "QueueRemoveBefore" \in CallerOps
    BY <1>8, RemovingRemoves DEF Threads
  <1>9. CASE RemoveFromQueue(Callback)
    BY <1>9, RemovingRemoves DEF Threads
  <1> QED
    BY <1>1, <1>2, <1>3, <1>4, <1>5, <1>6, <1>7, <1>8, <1>9, ClientKinds
       DEF CallbackStep, WithinCallback

\* Every step is of one of these kinds.
LEMMA StepKinds ==
    ASSUME TypeInv, CallsAreOffered, [Next]_vars
    PROVE  \/ AddsEvent \/ RemovesEvents \/ MovesEvents
           \/ \E e \in ToSet(scheduled) : DoesHead(e)
  <1>1. CASE UNCHANGED vars
    BY <1>1 DEF vars, lists, doing, MovesEvents, TypeInv, TypeOK
  <1> QED BY <1>1, CallerStepKinds, CallbackStepKinds DEF Next

\* Where the callback goes with its steps.
LEMMA CallbackGoes ==
    ASSUME TypeInv, CallbackStep
    PROVE  \/ UNCHANGED pc
           \/ \E label \in CallbackLabels \ {"removing"} : GoTo(Callback, label)
           \/ GoTo(Callback, "removing") /\ "QueueRemoveBefore" \in CallerOps
  <1>1. CASE DoMidiMsg \/ DoMidiPhrase
    <2>1. UNCHANGED pc \/ GoTo(Callback, "play")
      BY <1>1, DoMidiMsgPlaysOne, DoMidiPhrasePlaysOne DEF PlaysOne, TypeInv
    <2> QED BY <2>1 DEF CallbackLabels
  <1>2. CASE ClickClient \/ PollMidiInput
    BY <1>2, ClientKinds DEF ClientAdds, QueueAddEvent, RemovalBegins, RemoveFromScheduled,
                             TakeMidiInput
  <1>3. CASE ~ (\/ DoMidiMsg \/ DoMidiPhrase \/ ClickClient \/ PollMidiInput)
    BY <1>3 DEF CallbackStep, WithinCallback, AdvanceTime, SameClick, TryLockScheduled,
                SendMidiMsg, LockQueue, AddQueueToScheduled, UnlockScheduled, PollDone,
                RemoveFromQueue, CallsFrom, CallbackLabels
  <1> QED BY <1>1, <1>2, <1>3

\* Nobody begins an operation that is not offered.
LEMMA OfferedCalls == Spec => []CallsAreOffered
  <1>1. Init => CallsAreOffered
    BY DEF Init, CallsAreOffered, Threads
  <1>2. TypeInv /\ CallsAreOffered /\ [Next]_vars => CallsAreOffered'
    <2> SUFFICES ASSUME TypeInv, CallsAreOffered, [Next]_vars, NEW u \in Threads
                 PROVE  /\ pc'[u] = "removing" => "QueueRemoveBefore" \in CallerOps
                        /\ pc'[u] = "ScheduleClear" => "ScheduleClear" \in CallerOps
      BY DEF CallsAreOffered
    <2>0. TypeOK /\ Callers \subseteq Threads /\ Callback \in Threads /\ Callback \notin Callers
      BY ThreadsAssumption DEF TypeInv, Threads
    <2>1. CASE pc'[u] = pc[u]
      BY <2>1 DEF CallsAreOffered
    <2>2. ASSUME NEW t \in Callers, NEW label \in CallerLabels, GoTo(t, label)
          PROVE  pc'[u] = IF u = t THEN label ELSE pc[u]
      BY <2>0, <2>2, PcUpdate
    <2>3. CASE UNCHANGED vars
      BY <2>1, <2>3 DEF vars
    <2>4. CASE CallbackStep
      <3>1. ASSUME NEW label \in CallbackLabels, GoTo(Callback, label)
            PROVE  pc'[u] = IF u = Callback THEN label ELSE pc[u]
        BY <2>0, <3>1, PcUpdate
      <3>2. CASE UNCHANGED pc
        BY <2>1, <3>2
      <3>3. ASSUME NEW label \in CallbackLabels \ {"removing"}, GoTo(Callback, label)
            PROVE  \/ pc'[u] = pc[u]
                   \/ pc'[u] \notin {"removing", "ScheduleClear"}
        BY <3>1, <3>3 DEF CallbackLabels
      <3>4. CASE GoTo(Callback, "removing") /\ "QueueRemoveBefore" \in CallerOps
        <4>1. pc'[u] = pc[u] \/ pc'[u] = "removing"
          BY <3>1, <3>4 DEF CallbackLabels
        <4> QED BY <2>1, <3>4, <4>1
      <3> QED BY <2>1, <2>4, <3>2, <3>3, <3>4, CallbackGoes
    <2>5. ASSUME NEW t \in Callers, QueueRemoveBefore(t)
          PROVE  /\ "QueueRemoveBefore" \in CallerOps
                 /\ pc'[u] = IF u = t THEN "removing" ELSE pc[u]
      BY <2>2, <2>5 DEF QueueRemoveBefore, MayCall, RemoveFromScheduled, CallerLabels
    <2>6. ASSUME NEW t \in Callers, LockScheduled(t)
          PROVE  \E op \in {"ScheduleMidiMsg", "ScheduleMidiPhrase", "ScheduleClear"} :
                    op \in CallerOps /\ pc'[u] = IF u = t THEN op ELSE pc[u]
      BY <2>2, <2>6 DEF LockScheduled, MayCall, CallerLabels
    <2>7. ASSUME NEW t \in Callers, Caller(t), ~ QueueRemoveBefore(t), ~ LockScheduled(t)
          PROVE  pc'[u] = pc[u] \/ pc'[u] = "idle"
      <3>1. UNCHANGED pc \/ GoTo(t, "idle")
        BY <2>0, <2>7 DEF CallsFrom, Caller, QueueMidiMsg, QueueMidiPhrase,
              QueueAddEvent, QueueClear,
              RemoveFromQueue, ScheduleMidiMsg, ScheduleMidiPhrase, ScheduleClear,
              FinishSchedule, ANO, ClearNotesDown, SetClicksPerSecond
      <3> QED BY <2>2, <3>1 DEF CallerLabels
    <2> QED BY <2>1, <2>3, <2>4, <2>5, <2>6, <2>7 DEF Next, CallsAreOffered
  <1> QED BY <1>1, <1>2, SpecTypeInv, PTL DEF Spec

-----------------------------------------------------------------------------
(* Each event once *)

\* The lists and the hand, with the keys of their events.
LEMMA ListsAndKeys ==
    ASSUME TypeOK
    PROVE  /\ scheduled \in Seq(Events) /\ queue \in Seq(Events) /\ hand \in Seq(Events)
           /\ Pending \subseteq Events
           /\ Keys(scheduled) = {Key(x) : x \in ToSet(scheduled)}
           /\ Keys(queue) = {Key(x) : x \in ToSet(queue)}
           /\ Keys(hand) = {Key(x) : x \in ToSet(hand)}
  BY KeysOfSet, ToSetOfSeq DEF TypeOK, Pending

\* A new event is none of the pending ones, and has another id.
LEMMA NewIsFresh ==
    ASSUME TypeOK, NEW e, IsNew(e)
    PROVE  /\ \A f \in Pending : f.id # e.id
           /\ Key(e) \notin Keys(scheduled) \cup Keys(queue) \cup Keys(hand)
  <1>1. \A f \in Pending : f.id # e.id
    BY DEF IsNew, FreeIds, Pending
  <1>2. \A f \in Pending : Key(f) # Key(e)
    BY <1>1 DEF Key
  <1> QED BY <1>1, <1>2, ListsAndKeys DEF Pending

\* The parts that were shed stay in order when the pending events become fewer.
LEMMA PartsOfFewer ==
    ASSUME NEW P, PartsShrink(P), NEW Q, Q \subseteq P
    PROVE  PartsShrink(Q)
  BY DEF PartsShrink

\* A new event comes once, into one list.
LEMMA AddKeepsOnce ==
    ASSUME TypeOK, OnceInv, UNCHANGED hand, NEW e, Adds(e)
    PROVE  OnceInv' /\ Pending' = Pending \cup {e}
  <1>1. /\ IsNew(e)
        /\ \/ queue' = InsertEvent(queue, e) /\ scheduled' = scheduled
           \/ scheduled' = InsertEvent(scheduled, e) /\ queue' = queue
    BY DEF Adds
  <1>2. hand' = hand /\ e \in Events /\ e.part = 0
    BY <1>1 DEF IsNew
  <1>3. /\ \A f \in Pending : f.id # e.id
        /\ Key(e) \notin Keys(scheduled) \cup Keys(queue) \cup Keys(hand)
    BY <1>1, NewIsFresh
  <1>4. /\ NoRepeat(scheduled) /\ NoRepeat(queue)
        /\ scheduled \in Seq(Events) /\ queue \in Seq(Events)
    BY DEF OnceInv, EachEventOnce, TypeOK
  <1>5. EachEventOnce' /\ Pending' = Pending \cup {e}
    <2>1. CASE queue' = InsertEvent(queue, e) /\ scheduled' = scheduled
      <3>1. /\ NoRepeat(queue') /\ Keys(queue') = Keys(queue) \cup {Key(e)}
            /\ ToSet(queue') = ToSet(queue) \cup {e}
        BY <2>1, <1>2, <1>3, <1>4, KeysOfInsert, InsertOne
      <3> QED BY <3>1, <2>1, <1>2, <1>3 DEF OnceInv, EachEventOnce, Pending
    <2>2. CASE scheduled' = InsertEvent(scheduled, e) /\ queue' = queue
      <3>1. /\ NoRepeat(scheduled') /\ Keys(scheduled') = Keys(scheduled) \cup {Key(e)}
            /\ ToSet(scheduled') = ToSet(scheduled) \cup {e}
        BY <2>2, <1>2, <1>3, <1>4, KeysOfInsert, InsertOne
      <3> QED BY <3>1, <2>2, <1>2, <1>3 DEF OnceInv, EachEventOnce, Pending
    <2> QED BY <1>1, <2>1, <2>2
  <1>6. PartsShrink(Pending \cup {e})
    BY <1>2, <1>3 DEF OnceInv, PartsShrink
  <1> QED BY <1>2, <1>5, <1>6 DEF OnceInv

\* Deleting from the lists doubles nothing.
LEMMA RemoveKeepsOnce ==
    ASSUME OnceInv, RemovesEvents
    PROVE  OnceInv' /\ Pending' \subseteq Pending
  <1>1. /\ ToSet(scheduled') \subseteq ToSet(scheduled)
        /\ ToSet(queue') \subseteq ToSet(queue) /\ hand' = hand
        /\ NoRepeat(scheduled') /\ Keys(scheduled') \subseteq Keys(scheduled)
        /\ NoRepeat(queue') /\ Keys(queue') \subseteq Keys(queue)
    BY DEF RemovesEvents, Removed, OnceInv, EachEventOnce
  <1>2. Pending' \subseteq Pending
    BY <1>1 DEF Pending
  <1>3. EachEventOnce'
    BY <1>1 DEF OnceInv, EachEventOnce
  <1> QED BY <1>1, <1>2, <1>3, PartsOfFewer DEF OnceInv

\* What is in the hand is one event at most, so requeueing loses none.
LEMMA RequeueHand ==
    ASSUME TypeOK, OnceInv
    PROVE  /\ ToSet(Requeue(queue, hand)) = ToSet(queue) \cup ToSet(hand)
           /\ NoRepeat(Requeue(queue, hand))
           /\ Keys(Requeue(queue, hand)) = Keys(queue) \cup Keys(hand)
  <1>1. CASE hand = <<>>
    BY <1>1, KeysOfEmpty DEF Requeue, OnceInv, EachEventOnce
  <1>2. CASE hand # <<>>
    <2>a. hand \in Seq(Events) /\ queue \in Seq(Events)
      BY DEF TypeOK
    <2>b. Len(hand) = 1
      <3>1. Len(hand) \in Nat \ {0}
        BY <2>a, <1>2, EmptySeq
      <3>2. Len(hand) <= 1
        BY DEF OnceInv
      <3>3. \A n \in Nat \ {0} : n <= 1 => n = 1
        OBVIOUS
      <3> QED BY <3>1, <3>2, <3>3
    <2>1. /\ hand \in Seq(Events) /\ queue \in Seq(Events)
          /\ Len(hand) = 1 /\ hand[1] \in Events
      BY <2>a, <2>b
    <2>2. ToSet(hand) = {hand[1]}
      BY <2>1, ToSetOfSeq
    <2>3. Keys(hand) = {Key(hand[1])}
      BY <2>1, <2>2, KeysOfSet
    <2>4. Requeue(queue, hand) = InsertEvent(queue, hand[1])
      BY <1>2 DEF Requeue
    <2>5. NoRepeat(queue) /\ Key(hand[1]) \notin Keys(queue)
      BY <2>3 DEF OnceInv, EachEventOnce
    <2> QED BY <2>1, <2>2, <2>3, <2>4, <2>5, KeysOfInsert, InsertOne
  <1> QED BY <1>1, <1>2

\* Moving an event leaves the pending events as they are.
LEMMA MovingKeepsPending ==
    ASSUME TypeOK, OnceInv, MovesEvents
    PROVE  OnceInv' /\ Pending' = Pending
  <1>1. CASE /\ queue # <<>>
             /\ scheduled' = InsertEvent(scheduled, Head(queue))
             /\ queue' = Tail(queue) /\ hand' = hand
    <2> DEFINE e == Head(queue)
    <2>1. /\ scheduled \in Seq(Events) /\ queue \in Seq(Events)
          /\ NoRepeat(scheduled) /\ NoRepeat(queue)
      BY DEF TypeOK, OnceInv, EachEventOnce
    <2>2. /\ e \in Events /\ e \in ToSet(queue) /\ Key(e) \in Keys(queue)
          /\ NoRepeat(queue') /\ Keys(queue') = Keys(queue) \ {Key(e)}
          /\ ToSet(queue') = ToSet(queue) \ {e}
      BY <1>1, <2>1, KeysOfTail, TailOfEvents
    <2>3. Key(e) \notin Keys(scheduled)
      BY <2>2 DEF OnceInv, EachEventOnce
    <2>4. scheduled' = InsertEvent(scheduled, e) /\ hand' = hand
      BY <1>1
    <2> HIDE DEF e
    <2>5. /\ NoRepeat(scheduled') /\ Keys(scheduled') = Keys(scheduled) \cup {Key(e)}
          /\ ToSet(scheduled') = ToSet(scheduled) \cup {e}
      BY <2>1, <2>2, <2>3, <2>4, KeysOfInsert, InsertOne
    <2>6. Pending' = Pending
      BY <2>2, <2>4, <2>5 DEF Pending
    <2>7. EachEventOnce'
      BY <2>2, <2>4, <2>5 DEF OnceInv, EachEventOnce
    <2> QED BY <2>4, <2>6, <2>7 DEF OnceInv
  <1>2. CASE queue' = Requeue(queue, hand) /\ hand' = <<>> /\ scheduled' = scheduled
    <2>1. /\ ToSet(queue') = ToSet(queue) \cup ToSet(hand)
          /\ NoRepeat(queue') /\ Keys(queue') = Keys(queue) \cup Keys(hand)
      BY <1>2, RequeueHand
    <2>2. Pending' = Pending
      BY <1>2, <2>1, KeysOfEmpty DEF Pending
    <2>3. EachEventOnce'
      BY <1>2, <2>1, KeysOfEmpty DEF OnceInv, EachEventOnce
    <2>4. Len(hand') <= 1
      BY <1>2
    <2> QED BY <2>2, <2>3, <2>4 DEF OnceInv
  <1>3. CASE UNCHANGED <<scheduled, queue, hand>>
    BY <1>3 DEF OnceInv, EachEventOnce, Pending
  <1> QED BY <1>1, <1>2, <1>3 DEF MovesEvents

\* What the head of "scheduled" leaves when it is taken away.
LEMMA WithoutHead ==
    ASSUME TypeOK, OnceInv, NEW e, DoesHead(e)
    PROVE  /\ Tail(scheduled) \in Seq(Events)
           /\ OncePerPlace(Tail(scheduled), queue, <<>>)
           /\ Key(e) \notin Keys(Tail(scheduled)) \cup Keys(queue)
           /\ e \in Pending
           /\ ToSet(Tail(scheduled)) \cup ToSet(queue) = Pending \ {e}
  <1>1. /\ scheduled # <<>> /\ e = Head(scheduled) /\ hand = <<>>
        /\ scheduled \in Seq(Events) /\ queue \in Seq(Events) /\ NoRepeat(scheduled)
    BY DEF DoesHead, TypeOK, OnceInv, EachEventOnce
  <1>2. /\ Tail(scheduled) \in Seq(Events) /\ NoRepeat(Tail(scheduled))
        /\ Keys(Tail(scheduled)) = Keys(scheduled) \ {Key(e)}
        /\ Key(e) \in Keys(scheduled) /\ e \in ToSet(scheduled)
        /\ ToSet(Tail(scheduled)) = ToSet(scheduled) \ {e}
    BY <1>1, KeysOfTail, TailOfEvents
  <1>3. Key(e) \notin Keys(queue)
    BY <1>2 DEF OnceInv, EachEventOnce
  <1>4. e \notin ToSet(queue)
    BY <1>3, ListsAndKeys
  <1>5. OncePerPlace(Tail(scheduled), queue, <<>>)
    BY <1>2, KeysOfEmpty DEF OnceInv, EachEventOnce, OncePerPlace
  <1> QED BY <1>1, <1>2, <1>3, <1>4, <1>5, KeysOfEmpty DEF Pending

\* The repetition of a message has the message's key, that of a phrase a new one.
LEMMA RepetitionIsNew ==
    ASSUME TypeOK, OnceInv, NEW e \in Pending, NEW g, IsRepetition(g, e), e.units # <<>>
    PROVE  /\ \A f \in Pending : f # e => Key(f) # Key(g)
           /\ e.type = "MIDIPHRASE" => Key(g) # Key(e)
  <1>1. /\ e \in Events /\ Len(e.units) \in Nat \ {0}
    BY ListsAndKeys, EventFields, EmptySeq
  <1>2. CASE e.type = "MIDIPHRASE"
    <2>1. e.part = 0 /\ g.id = e.id /\ g.part = Len(e.units)
      BY <1>2 DEF OnceInv, PartsShrink, IsRepetition
    <2>2. \A f \in Pending : f.id = e.id /\ f.part # 0 => Len(e.units) < f.part
      BY <2>1 DEF OnceInv, PartsShrink
    <2>3. ASSUME NEW f \in Pending PROVE Key(f) # Key(g)
      <3>1. ~ (f.id = e.id /\ f.part = Len(e.units))
        BY <1>1, <2>2
      <3> QED BY <2>1, <3>1 DEF Key
    <2> QED BY <2>3
  <1>3. CASE e.type # "MIDIPHRASE"
    <2>1. Key(g) = Key(e)
      BY <1>3 DEF IsRepetition, Key
    <2>2. \A f \in Pending : Key(f) = Key(e) => f = e
      BY KeysTellPending DEF OnceInv
    <2> QED BY <1>3, <2>1, <2>2
  <1> QED BY <1>2, <1>3

\* The rest of an event has its key and, being in the hand, is one.
LEMMA RestIsOne ==
    ASSUME NEW e \in Events
    PROVE  /\ Rest(e) \in Seq(Events) /\ Len(Rest(e)) <= 1
           /\ Keys(Rest(e)) \subseteq {Key(e)}
           /\ \A r \in ToSet(Rest(e)) : IsContinuation(r, e) /\ Key(r) = Key(e)
  <1>1. CASE Rest(e) = <<>>
    BY <1>1, KeysOfEmpty
  <1>2. ASSUME NEW r \in Events, Rest(e) = <<r>>, IsContinuation(r, e)
        PROVE  /\ Rest(e) \in Seq(Events) /\ Len(Rest(e)) <= 1
               /\ Keys(Rest(e)) \subseteq {Key(e)}
               /\ \A x \in ToSet(Rest(e)) : IsContinuation(x, e) /\ Key(x) = Key(e)
    <2>1. <<r>> \in Seq(Events) /\ Len(<<r>>) = 1
      OBVIOUS
    <2>2. ToSet(<<r>>) = {r}
      BY DEF ToSet
    <2>3. Key(r) = Key(e)
      BY <1>2 DEF IsContinuation, Key
    <2>4. Keys(<<r>>) = {Key(r)}
      BY <2>1, <2>2, KeysOfSet
    <2> QED BY <1>2, <2>1, <2>2, <2>3, <2>4
  <1> QED BY <1>1, <1>2, RestProperties

\* A phrase that has lost its first unit is shorter than it was.
LEMMA ContinuationShrinks ==
    ASSUME NEW P, P \subseteq Events, PartsShrink(P), NEW e \in P,
           NEW R, \A r \in R : IsContinuation(r, e)
    PROVE  PartsShrink((P \ {e}) \cup R)
  <1> SUFFICES ASSUME NEW c \in (P \ {e}) \cup R, NEW d \in (P \ {e}) \cup R
               PROVE  /\ c.type = "MIDIPHRASE" => c.part = 0
                      /\ c.id = d.id /\ c.part = 0 /\ d.part # 0 => Len(c.units) < d.part
    BY DEF PartsShrink
  <1> DEFINE Old(x) == IF x \in R THEN e ELSE x
  <1>1. /\ Old(c) \in P /\ Old(c).id = c.id /\ Old(c).part = c.part
        /\ Old(c).type = c.type
        /\ Old(d) \in P /\ Old(d).id = d.id /\ Old(d).part = d.part
    BY DEF IsContinuation
  <1>2. Len(c.units) \in Nat /\ Len(Old(c).units) \in Nat /\ d.part \in Nat
        /\ Len(c.units) <= Len(Old(c).units)
    <2>1. e \in Events /\ c \in Events /\ d \in Events /\ Old(c) \in Events
      BY <1>1 DEF IsContinuation
    <2>2. \A x \in Events : Len(x.units) \in Nat /\ x.part \in Nat
      BY EventFields
    <2>3. c \in R => Len(c.units) = Len(e.units) - 1
      BY DEF IsContinuation
    <2>4. c \notin R => Old(c) = c
      OBVIOUS
    <2>5. c \in R => Old(c) = e
      OBVIOUS
    <2> HIDE DEF Old
    <2>6. Len(c.units) <= Len(Old(c).units)
      BY <2>1, <2>2, <2>3, <2>4, <2>5
    <2> QED BY <2>1, <2>2, <2>6
  <1> HIDE DEF Old
  <1>3. c.type = "MIDIPHRASE" => c.part = 0
    BY <1>1 DEF PartsShrink
  <1>4. ASSUME c.id = d.id, c.part = 0, d.part # 0 PROVE Len(c.units) < d.part
    <2>1. Len(Old(c).units) < d.part
      BY <1>1, <1>4 DEF PartsShrink
    <2> QED BY <2>1, <1>2
  <1> QED BY <1>3, <1>4

\* The part that a phrase sheds has the length that the phrase had.
LEMMA RepetitionShrinks ==
    ASSUME NEW P, P \subseteq Events, PartsShrink(P), NEW e \in P, e.units # <<>>,
           \A c \in P : Key(c) = Key(e) => c = e,
           NEW g, IsRepetition(g, e), \A r \in ToSet(Rest(e)) : IsContinuation(r, e)
    PROVE  PartsShrink((P \ {e}) \cup {g} \cup ToSet(Rest(e)))
  <1> DEFINE R == ToSet(Rest(e))
             Q == (P \ {e}) \cup R
  <1>1. PartsShrink(Q)
    BY ContinuationShrinks
  <1>2. /\ e \in Events /\ g \in Events /\ g.type = "MIDIMSG" /\ g.id = e.id
        /\ Len(e.units) \in Nat \ {0}
    BY EventFields, EmptySeq DEF IsRepetition
  <1>3. CASE e.type = "MIDIPHRASE"
    <2>1. g.part = Len(e.units) /\ e.part = 0 /\ g.part # 0
      BY <1>2, <1>3 DEF IsRepetition, PartsShrink
    <2>2. ASSUME NEW c \in Q, c.id = g.id, c.part = 0
          PROVE  Len(c.units) < g.part
      <3>1. CASE c \in R
        BY <1>2, <2>1, <3>1 DEF IsContinuation
      <3>2. CASE c \in P /\ c # e
        BY <1>2, <2>1, <2>2, <3>2 DEF Key
      <3> QED BY <3>1, <3>2
    <2> HIDE DEF Q
    <2>3. PartsShrink(Q \cup {g})
      BY <1>1, <1>2, <2>1, <2>2 DEF PartsShrink
    <2> QED BY <2>3 DEF Q
  <1>4. CASE e.type # "MIDIPHRASE"
    <2>1. g.part = e.part /\ Len(g.units) = 1 /\ Len(e.units) = 1
      BY <1>2, <1>4, EventFields DEF IsRepetition
    <2>2. R = {}
      BY <1>4, KeysOfEmpty DEF Rest
    <2>3. PartsShrink((P \ {e}) \cup {g})
      BY <1>2, <2>1 DEF PartsShrink
    <2> QED BY <2>2, <2>3
  <1> QED BY <1>3, <1>4

\* Playing an event for the last time, or a phrase that does not loop.
LEMMA PlaysHeadKeepsOnce ==
    ASSUME TypeOK, OnceInv, NEW e, DoesHead(e), PlaysHead(e)
    PROVE  OnceInv' /\ Pending' = (Pending \ {e}) \cup ToSet(Rest(e))
  <1>1. /\ OncePerPlace(Tail(scheduled), queue, <<>>)
        /\ Key(e) \notin Keys(Tail(scheduled)) \cup Keys(queue)
        /\ e \in Pending /\ e \in Events
        /\ ToSet(Tail(scheduled)) \cup ToSet(queue) = Pending \ {e}
    BY WithoutHead DEF DoesHead
  <1>2. /\ Rest(e) \in Seq(Events) /\ Len(Rest(e)) <= 1
        /\ Keys(Rest(e)) \subseteq {Key(e)}
        /\ \A r \in ToSet(Rest(e)) : IsContinuation(r, e)
    BY <1>1, RestIsOne
  <1>3. scheduled' = Tail(scheduled) /\ queue' = queue /\ hand' = Rest(e)
    BY DEF PlaysHead
  <1>4. Pending' = (Pending \ {e}) \cup ToSet(Rest(e))
    BY <1>1, <1>3 DEF Pending
  <1>5. EachEventOnce'
    BY <1>1, <1>2, <1>3 DEF EachEventOnce, OncePerPlace
  <1>6. PartsShrink(Pending')
    BY <1>1, <1>2, <1>4, ContinuationShrinks, ListsAndKeys DEF OnceInv
  <1> QED BY <1>2, <1>3, <1>4, <1>5, <1>6 DEF OnceInv

\* A loop that goes on.
LEMMA RepeatsHeadKeepsOnce ==
    ASSUME TypeOK, OnceInv, NEW e, DoesHead(e), NEW g, IsRepetition(g, e),
           queue' = InsertEvent(queue, g), RepeatsHead(e)
    PROVE  OnceInv' /\ Pending' = (Pending \ {e}) \cup {g} \cup ToSet(Rest(e))
  <1>1. /\ OncePerPlace(Tail(scheduled), queue, <<>>)
        /\ Key(e) \notin Keys(Tail(scheduled)) \cup Keys(queue)
        /\ e \in Pending /\ e \in Events /\ Tail(scheduled) \in Seq(Events)
        /\ ToSet(Tail(scheduled)) \cup ToSet(queue) = Pending \ {e}
    BY WithoutHead DEF DoesHead
  <1>2. /\ Rest(e) \in Seq(Events) /\ Len(Rest(e)) <= 1
        /\ Keys(Rest(e)) \subseteq {Key(e)}
        /\ \A r \in ToSet(Rest(e)) : IsContinuation(r, e)
    BY <1>1, RestIsOne
  <1>3. scheduled' = Tail(scheduled) /\ hand' = Rest(e) /\ e.units # <<>>
    BY DEF RepeatsHead
  <1>4. /\ \A f \in Pending : f # e => Key(f) # Key(g)
        /\ e.type = "MIDIPHRASE" => Key(g) # Key(e)
    BY <1>1, <1>3, RepetitionIsNew
  <1>5. Key(g) \notin Keys(Tail(scheduled)) \cup Keys(queue)
    <2>1. /\ Keys(Tail(scheduled)) = {Key(f) : f \in ToSet(Tail(scheduled))}
          /\ Keys(queue) = {Key(f) : f \in ToSet(queue)}
      BY <1>1, KeysOfSet, ListsAndKeys
    <2> QED BY <1>1, <1>4, <2>1
  <1>6. /\ NoRepeat(queue') /\ Keys(queue') = Keys(queue) \cup {Key(g)}
        /\ ToSet(queue') = ToSet(queue) \cup {g}
    BY <1>1, <1>5, ListsAndKeys, KeysOfInsert, InsertOne DEF OncePerPlace, IsRepetition
  <1>7. Key(g) \notin Keys(Rest(e))
    <2>1. CASE e.type = "MIDIPHRASE"
      BY <1>2, <1>4, <2>1
    <2>2. CASE e.type # "MIDIPHRASE"
      BY <2>2, KeysOfEmpty DEF Rest
    <2> QED BY <2>1, <2>2
  <1>8. Pending' = (Pending \ {e}) \cup {g} \cup ToSet(Rest(e))
    BY <1>1, <1>3, <1>6 DEF Pending
  <1>9. EachEventOnce'
    BY <1>1, <1>2, <1>3, <1>5, <1>6, <1>7 DEF EachEventOnce, OncePerPlace
  <1>10. PartsShrink(Pending')
    <2>1. \A c \in Pending : Key(c) = Key(e) => c = e
      BY <1>1, KeysTellPending DEF OnceInv
    <2> QED
      BY <1>1, <1>2, <1>3, <1>8, <2>1, RepetitionShrinks, ListsAndKeys DEF OnceInv
  <1> QED BY <1>2, <1>3, <1>8, <1>9, <1>10 DEF OnceInv

\* A loop that has faded out.
LEMMA FadesHeadKeepsOnce ==
    ASSUME TypeOK, OnceInv, NEW e, DoesHead(e), FadesHead(e)
    PROVE  /\ OnceInv'
           /\ ToSet(Rest(e)) \subseteq Pending'
           /\ Pending' \subseteq (Pending \ {e}) \cup ToSet(Rest(e))
           /\ e.cursorid # SCHEDID_ALL =>
                \A d \in Pending \ Pending' : d = e \/ d.cursorid = e.cursorid
  <1>1. /\ OncePerPlace(Tail(scheduled), queue, <<>>)
        /\ Key(e) \notin Keys(Tail(scheduled)) \cup Keys(queue)
        /\ e \in Pending /\ e \in Events /\ Tail(scheduled) \in Seq(Events)
        /\ ToSet(Tail(scheduled)) \cup ToSet(queue) = Pending \ {e}
    BY WithoutHead DEF DoesHead
  <1>2. /\ Rest(e) \in Seq(Events) /\ Len(Rest(e)) <= 1
        /\ Keys(Rest(e)) \subseteq {Key(e)}
        /\ \A r \in ToSet(Rest(e)) : IsContinuation(r, e)
    BY <1>1, RestIsOne
  <1>3. /\ scheduled' = Cleared(e.cursorid, Tail(scheduled))
        /\ queue' = Requeue(queue, Rest(e)) /\ hand' = <<>>
    BY DEF FadesHead
  <1>4. /\ NoRepeat(scheduled') /\ Keys(scheduled') \subseteq Keys(Tail(scheduled))
        /\ ToSet(scheduled') \subseteq ToSet(Tail(scheduled))
    BY <1>1, <1>3, KeysOfDeleted, ClearedProperties DEF OncePerPlace
  <1>5. /\ NoRepeat(queue') /\ Keys(queue') \subseteq Keys(queue) \cup {Key(e)}
        /\ ToSet(queue') = ToSet(queue) \cup ToSet(Rest(e))
    <2>1. CASE Rest(e) = <<>>
      BY <1>1, <1>3, <2>1, KeysOfEmpty DEF Requeue, OncePerPlace
    <2>2. ASSUME NEW r \in Events, Rest(e) = <<r>>, IsContinuation(r, e)
          PROVE  /\ NoRepeat(queue') /\ Keys(queue') \subseteq Keys(queue) \cup {Key(e)}
                 /\ ToSet(queue') = ToSet(queue) \cup ToSet(Rest(e))
      <3>1. ToSet(<<r>>) = {r} /\ <<r>> # <<>> /\ <<r>>[1] = r
        BY DEF ToSet
      <3>2. queue' = InsertEvent(queue, r)
        BY <1>3, <2>2, <3>1 DEF Requeue
      <3>3. Key(r) = Key(e)
        BY <2>2 DEF IsContinuation, Key
      <3>4. queue \in Seq(Events) /\ NoRepeat(queue) /\ Key(r) \notin Keys(queue)
        BY <1>1, <3>3, ListsAndKeys DEF OncePerPlace
      <3>5. NoRepeat(queue') /\ Keys(queue') = Keys(queue) \cup {Key(r)}
        BY <3>2, <3>4, KeysOfInsert
      <3>6. ToSet(queue') = ToSet(queue) \cup {r}
        BY <3>2, <3>4, InsertOne
      <3> QED BY <2>2, <3>1, <3>3, <3>5, <3>6
    <2> QED BY <1>1, <2>1, <2>2, RestProperties
  <1>6. /\ ToSet(Rest(e)) \subseteq Pending'
        /\ Pending' \subseteq (Pending \ {e}) \cup ToSet(Rest(e))
    BY <1>1, <1>3, <1>4, <1>5, KeysOfEmpty DEF Pending
  <1>7. EachEventOnce'
    BY <1>1, <1>3, <1>4, <1>5, KeysOfEmpty DEF EachEventOnce, OncePerPlace
  <1>8. PartsShrink(Pending')
    BY <1>1, <1>2, <1>6, ContinuationShrinks, PartsOfFewer, ListsAndKeys DEF OnceInv
  <1>9. ASSUME e.cursorid # SCHEDID_ALL, NEW d \in Pending, d \notin Pending', d # e
        PROVE  d.cursorid = e.cursorid
    <2>1. d \in ToSet(Tail(scheduled)) /\ d \notin ToSet(scheduled')
      BY <1>1, <1>5, <1>9 DEF Pending
    <2>2. /\ scheduled' = Without(Tail(scheduled),
                             {i \in DOMAIN Tail(scheduled) :
                                 Tail(scheduled)[i].cursorid = e.cursorid})
      BY <1>3, <1>9 DEF Cleared, DeleteAllId
    <2> DEFINE t == Tail(scheduled)
               D == {i \in DOMAIN t : t[i].cursorid = e.cursorid}
    <2>3. t \in Seq(Events)
      BY <1>1
    <2>4. d \in ToSet(t) /\ d \notin ToSet(Without(t, D))
      BY <2>1, <2>2
    <2> HIDE DEF t
    <2>5. PICK i \in 1 .. Len(t) : d = t[i]
      BY <2>3, <2>4, ToSetOfSeq
    <2>6. ToSet(Without(t, D)) = {t[k] : k \in (1 .. Len(t)) \ D}
      <3> HIDE DEF D
      <3> QED BY <2>3, WithoutOrdered
    <2>7. i \in D
      BY <2>4, <2>5, <2>6
    <2> QED BY <2>5, <2>7
  <1> QED BY <1>3, <1>6, <1>7, <1>8, <1>9 DEF OnceInv

\* OnceInv is inductive.
LEMMA StepKeepsOnce ==
    ASSUME TypeInv, CallsAreOffered, OnceInv, [Next]_vars
    PROVE  OnceInv'
  <1>0. TypeOK
    BY DEF TypeInv
  <1>1. ASSUME NEW e \in ToSet(scheduled), DoesHead(e) PROVE OnceInv'
    <2>1. CASE PlaysHead(e)
      BY <1>0, <1>1, <2>1, PlaysHeadKeepsOnce
    <2>2. CASE RepeatsHead(e)
      <3>1. PICK g : IsRepetition(g, e) /\ queue' = InsertEvent(queue, g)
        BY <2>2 DEF RepeatsHead
      <3> QED BY <1>0, <1>1, <2>2, <3>1, RepeatsHeadKeepsOnce
    <2>3. CASE FadesHead(e)
      BY <1>0, <1>1, <2>3, FadesHeadKeepsOnce
    <2> QED BY <1>1, <2>1, <2>2, <2>3 DEF DoesHead
  <1> QED
    BY <1>0, <1>1, StepKinds, AddKeepsOnce, RemoveKeepsOnce, MovingKeepsPending DEF AddsEvent

\* The initial state has no events.
LEMMA InitOnce == Init => OnceInv /\ Pending = {}
  <1> SUFFICES ASSUME Init PROVE OnceInv /\ Pending = {}
    OBVIOUS
  <1>1. scheduled = <<>> /\ queue = <<>> /\ hand = <<>>
    BY DEF Init
  <1>2. Pending = {} /\ EachEventOnce
    BY <1>1, KeysOfEmpty DEF Pending, EachEventOnce
  <1>3. Len(hand) <= 1
    BY <1>1
  <1> QED BY <1>2, <1>3 DEF OnceInv, PartsShrink

\* So every event is in one place, once, in every state.
LEMMA SpecOnceInv == Spec => []OnceInv
  <1> QED BY InitOnce, StepKeepsOnce, SpecTypeInv, OfferedCalls, PTL DEF Spec

\* Whatever the callers and the callback do, and whatever way an event takes
\* through the queue and the callback's hands, it is in one place, once: its
\* m_next and m_prev serve one list, and one thread at most deletes it.
THEOREM EventsAreInOnePlace == Spec => []EachEventOnce
  <1>1. OnceInv => EachEventOnce
    BY DEF OnceInv
  <1> QED BY <1>1, SpecOnceInv, PTL

-----------------------------------------------------------------------------
(* The cursors of loops *)

\* What loops was sent for a cursor.  Files are scheduled under SCHEDID_ALL,
\* without looping: a loop that fades out never clears the whole of "scheduled".
LoopsHaveCursor == \A e \in Pending : e.loop > 0 => e.cursorid \in CursorIds

\* The steps that perform an event.
LEMMA DoingKeepsLoops ==
    ASSUME TypeOK, OnceInv, LoopsHaveCursor, NEW e, DoesHead(e)
    PROVE  LoopsHaveCursor'
  <1>1. e \in Pending /\ e \in Events
    BY WithoutHead DEF DoesHead
  <1>2. \A r \in ToSet(Rest(e)) : IsContinuation(r, e)
    BY <1>1, RestIsOne
  <1>3. \A r \in ToSet(Rest(e)) : r.loop > 0 => r.cursorid \in CursorIds
    BY <1>1, <1>2 DEF IsContinuation, LoopsHaveCursor
  <1>4. CASE PlaysHead(e)
    BY <1>3, <1>4, PlaysHeadKeepsOnce DEF LoopsHaveCursor
  <1>5. CASE RepeatsHead(e)
    <2>1. PICK g : IsRepetition(g, e) /\ queue' = InsertEvent(queue, g)
      BY <1>5 DEF RepeatsHead
    <2>2. g.loop > 0 => g.cursorid \in CursorIds
      BY <1>1, <2>1 DEF IsRepetition, LoopsHaveCursor
    <2>3. Pending' = (Pending \ {e}) \cup {g} \cup ToSet(Rest(e))
      BY <1>5, <2>1, RepeatsHeadKeepsOnce
    <2> QED BY <1>3, <2>2, <2>3 DEF LoopsHaveCursor
  <1>6. CASE FadesHead(e)
    <2>1. Pending' \subseteq (Pending \ {e}) \cup ToSet(Rest(e))
      BY <1>6, FadesHeadKeepsOnce
    <2> QED BY <1>3, <2>1 DEF LoopsHaveCursor
  <1> QED BY <1>4, <1>5, <1>6 DEF DoesHead

\* No step makes a looping event that has no cursor.
LEMMA StepKeepsLoops ==
    ASSUME TypeInv, CallsAreOffered, OnceInv, LoopsHaveCursor, [Next]_vars
    PROVE  LoopsHaveCursor'
  <1>0. TypeOK
    BY DEF TypeInv
  <1>1. CASE AddsEvent
    <2>1. PICK e : Adds(e)
      BY <1>1 DEF AddsEvent
    <2>2. Pending' = Pending \cup {e}
      BY <1>0, <1>1, <2>1, AddKeepsOnce DEF AddsEvent
    <2> QED BY <2>1, <2>2 DEF Adds, IsNew, LoopsHaveCursor
  <1>2. CASE RemovesEvents
    BY <1>2, RemoveKeepsOnce DEF LoopsHaveCursor
  <1>3. CASE MovesEvents
    BY <1>0, <1>3, MovingKeepsPending DEF LoopsHaveCursor
  <1>4. ASSUME NEW e \in ToSet(scheduled), DoesHead(e) PROVE LoopsHaveCursor'
    BY <1>0, <1>4, DoingKeepsLoops
  <1> QED BY <1>1, <1>2, <1>3, <1>4, StepKinds

\* So every looping event has a cursor, in every state.
LEMMA SpecLoops == Spec => []LoopsHaveCursor
  <1>1. Init => LoopsHaveCursor
    BY InitOnce DEF LoopsHaveCursor
  <1> QED
    BY <1>1, StepKeepsLoops, SpecTypeInv, OfferedCalls, SpecOnceInv, PTL DEF Spec

-----------------------------------------------------------------------------
(* The timeline *)

\* The events that go and those that come are Timeline's.
LEMMA TimelineTerms ==
    /\ timeline!gone = Pending \ Pending'
    /\ timeline!new = Pending' \ Pending
  BY DEF timeline!gone, timeline!new, Pending

\* The continuation and the repetition of a pending event are new, and follow
\* it up.
LEMMA FollowUps ==
    ASSUME TypeOK, OnceInv, NEW e \in Pending, e \in Events
    PROVE  /\ \A r : IsContinuation(r, e) =>
                 /\ r \notin Pending
                 /\ timeline!FollowUp(e, r) /\ timeline!Continuation(e, r)
           /\ \A g : IsRepetition(g, e) /\ e.loop > 0 =>
                 timeline!FollowUp(e, g) /\ timeline!Repetition(e, g)
  <1>1. ASSUME NEW r, IsContinuation(r, e)
        PROVE  /\ r \notin Pending
               /\ timeline!FollowUp(e, r) /\ timeline!Continuation(e, r)
    <2>1. r # e
      <3>1. Len(e.units) \in Nat /\ Len(r.units) = Len(e.units) - 1
        BY <1>1, EventFields DEF IsContinuation
      <3>2. Len(r.units) # Len(e.units)
        BY <3>1
      <3> QED BY <3>2
    <2>2. r \notin Pending
      <3>1. Key(r) = Key(e)
        BY <1>1 DEF IsContinuation, Key
      <3> QED BY <2>1, <3>1, KeysTellPending DEF OnceInv
    <2>3. timeline!Continuation(e, r)
      BY <1>1 DEF IsContinuation, timeline!Continuation
    <2>4. timeline!FollowUp(e, r)
      BY <1>1, <2>3 DEF IsContinuation, timeline!FollowUp
    <2> QED BY <2>2, <2>3, <2>4
  <1>2. ASSUME NEW g, IsRepetition(g, e), e.loop > 0
        PROVE  timeline!FollowUp(e, g) /\ timeline!Repetition(e, g)
    <2>1. timeline!Repetition(e, g)
      BY <1>2 DEF IsRepetition, timeline!Repetition
    <2> QED BY <1>2, <2>1 DEF IsRepetition, timeline!FollowUp
  <1> QED BY <1>1, <1>2

\* If an event has a continuation, Rest is it.
LEMMA RestContinues ==
    ASSUME NEW e \in Events, timeline!HasContinuation(e)
    PROVE  \E r \in ToSet(Rest(e)) : IsContinuation(r, e)
  <1>1. PICK r \in Events : Rest(e) = <<r>> /\ IsContinuation(r, e)
    BY RestProperties DEF timeline!HasContinuation
  <1>2. ToSet(<<r>>) = {r}
    BY DEF ToSet
  <1> QED BY <1>1, <1>2

\* A step that adds an event is Timeline's Submit.
LEMMA AddingSubmits ==
    ASSUME TypeOK, OnceInv, AddsEvent
    PROVE  timeline!Submit
  <1>1. PICK e : Adds(e)
    BY DEF AddsEvent
  <1>2. /\ UNCHANGED <<currentclick, hand>> /\ IsNew(e)
    BY <1>1 DEF AddsEvent, Adds
  <1>3. Pending' = Pending \cup {e}
    BY <1>1, <1>2, AddKeepsOnce
  <1>4. \A f \in Pending : f.id # e.id
    BY <1>2, NewIsFresh
  <1>5. e \notin Pending
    BY <1>4
  <1>6. timeline!gone = {} /\ timeline!new = {e}
    BY <1>3, <1>5, TimelineTerms
  <1>7. \A f \in Pending : ~ timeline!Same(e, f)
    BY <1>4 DEF timeline!Same
  <1> QED BY <1>2, <1>6, <1>7 DEF timeline!Submit, IsNew, Pending

\* A step that only removes is its Clear.
LEMMA RemovingClears ==
    ASSUME OnceInv, RemovesEvents
    PROVE  timeline!Clear
  <1>1. Pending' \subseteq Pending
    BY RemoveKeepsOnce
  <1>2. timeline!new = {}
    BY <1>1, TimelineTerms
  <1>3. UNCHANGED <<currentclick, Turn>> /\ ClearsAreOffered
    BY DEF RemovesEvents
  <1> QED BY <1>2, <1>3 DEF timeline!Clear, ClearsAreOffered

\* A step that moves events, or the time, is its Advance.
LEMMA MovingAdvances ==
    ASSUME TypeOK, OnceInv, MovesEvents
    PROVE  timeline!Advance
  <1>1. Pending' = Pending
    BY MovingKeepsPending
  <1> QED BY <1>1 DEF timeline!Advance, MovesEvents, Pending

\* The head is played, and perhaps repeated: Timeline's Perform.
LEMMA PlayingPerforms ==
    ASSUME TypeOK, OnceInv, NEW e, DoesHead(e), PlaysHead(e) \/ RepeatsHead(e)
    PROVE  timeline!Perform
  <1>1. /\ e \in Pending /\ e \in Events /\ e.click <= currentclick
        /\ UNCHANGED currentclick
    BY WithoutHead DEF DoesHead
  <1>2. \A r \in ToSet(Rest(e)) :
            /\ IsContinuation(r, e) /\ r \notin Pending
            /\ timeline!FollowUp(e, r) /\ timeline!Continuation(e, r)
    BY <1>1, RestIsOne, FollowUps
  <1>3. timeline!HasContinuation(e) =>
            \E f \in ToSet(Rest(e)) : timeline!Continuation(e, f)
    BY <1>1, <1>2, RestContinues
  <1>4. CASE PlaysHead(e)
    <2>1. timeline!gone = {e} /\ timeline!new = ToSet(Rest(e))
      BY <1>1, <1>2, <1>4, PlaysHeadKeepsOnce, TimelineTerms
    <2>2. ~ (e.loop > 0 /\ e.units # <<>>)
      BY <1>1, <1>4, EventFields DEF PlaysHead
    <2> QED BY <1>1, <1>2, <1>3, <2>1, <2>2 DEF timeline!Perform
  <1>5. CASE RepeatsHead(e)
    <2>1. PICK g : IsRepetition(g, e) /\ queue' = InsertEvent(queue, g)
      BY <1>5 DEF RepeatsHead
    <2>2. e.loop > 0 /\ e.units # <<>>
      BY <1>5 DEF RepeatsHead
    <2>3. Pending' = (Pending \ {e}) \cup {g} \cup ToSet(Rest(e))
      BY <1>5, <2>1, RepeatsHeadKeepsOnce
    <2>4. \A f \in Pending : f # e => Key(f) # Key(g)
      BY <1>1, <2>1, <2>2, RepetitionIsNew
    <2>5. g # e
      <3>1. e.click \in Nat /\ e.loop \in Nat /\ g.click = e.click + e.loop
        BY <1>1, <2>1, EventFields DEF IsRepetition
      <3>2. g.click # e.click
        BY <2>2, <3>1
      <3> QED BY <3>2
    <2>6. g \notin Pending
      BY <2>4, <2>5
    <2>7. timeline!gone = {e} /\ timeline!new = ToSet(Rest(e)) \cup {g}
      BY <1>1, <1>2, <2>3, <2>5, <2>6, TimelineTerms
    <2>8. timeline!FollowUp(e, g) /\ timeline!Repetition(e, g)
      BY <1>1, <2>1, <2>2, FollowUps
    <2> QED BY <1>1, <1>2, <1>3, <2>7, <2>8 DEF timeline!Perform
  <1> QED BY <1>4, <1>5

\* A loop has faded out, and takes its cursor's events with it.
LEMMA FadingOut ==
    ASSUME TypeOK, OnceInv, LoopsHaveCursor, NEW e, DoesHead(e), FadesHead(e)
    PROVE  timeline!FadeOut
  <1>1. /\ e \in Pending /\ e \in Events /\ e.click <= currentclick
        /\ UNCHANGED currentclick
    BY WithoutHead DEF DoesHead
  <1>2. \A r \in ToSet(Rest(e)) :
            /\ IsContinuation(r, e) /\ r \notin Pending
            /\ timeline!FollowUp(e, r) /\ timeline!Continuation(e, r)
    BY <1>1, RestIsOne, FollowUps
  <1>3. timeline!HasContinuation(e) =>
            \E f \in ToSet(Rest(e)) : timeline!Continuation(e, f)
    BY <1>1, <1>2, RestContinues
  <1>4. e.loop > 0 /\ e.units # <<>> /\ e.units[1].kind = "on"
    BY DEF FadesHead
  <1>5. e.cursorid # SCHEDID_ALL
    BY <1>1, <1>4, DataAssumption DEF LoopsHaveCursor
  <1>6. /\ ToSet(Rest(e)) \subseteq Pending'
        /\ Pending' \subseteq (Pending \ {e}) \cup ToSet(Rest(e))
        /\ \A d \in Pending \ Pending' : d = e \/ d.cursorid = e.cursorid
    BY <1>5, FadesHeadKeepsOnce
  <1>7. /\ e \in timeline!gone /\ \A d \in timeline!gone : d.cursorid = e.cursorid
        /\ timeline!new = ToSet(Rest(e))
    BY <1>1, <1>2, <1>6, TimelineTerms
  <1> QED BY <1>1, <1>2, <1>3, <1>4, <1>7 DEF timeline!FadeOut

\* The scheduler implements the timeline.  An event goes away only because it is
\* due and is performed, and then all that follows it up is there at once; or
\* because somebody cleared it; or because a loop of its cursor has faded out.
\* On its way through the queue, the list and the callback's hands nothing is
\* lost, doubled or done early, whatever the callers do meanwhile.
THEOREM SchedulerImplementsTimeline == Spec => ImplementsTimeline
  <1>1. Init => timeline!Init
    <2> SUFFICES ASSUME Init PROVE timeline!Init
      OBVIOUS
    <2>1. currentclick = 0 /\ pc[Callback] = "idle"
      BY DEF Init, Threads
    <2>2. Pending = {}
      BY InitOnce
    <2> QED BY <2>1, <2>2 DEF timeline!Init, Pending, Turn
  <1>2. ASSUME TypeInv, CallsAreOffered, OnceInv, LoopsHaveCursor, [Next]_vars
        PROVE  timeline!Next
    <2>0. TypeOK
      BY <1>2 DEF TypeInv
    <2>1. AddsEvent => timeline!Submit
      BY <1>2, <2>0, AddingSubmits
    <2>2. RemovesEvents => timeline!Clear
      BY <1>2, RemovingClears
    <2>3. MovesEvents => timeline!Advance
      BY <1>2, <2>0, MovingAdvances
    <2>4. ASSUME NEW e \in ToSet(scheduled), DoesHead(e)
          PROVE  timeline!Perform \/ timeline!FadeOut
      BY <1>2, <2>0, <2>4, PlayingPerforms, FadingOut DEF DoesHead
    <2> QED BY <1>2, <2>1, <2>2, <2>3, <2>4, StepKinds DEF timeline!Next
  <1>3. TypeInv /\ CallsAreOffered /\ OnceInv /\ LoopsHaveCursor /\ [Next]_vars =>
            [timeline!Next]_<<currentclick, ToSet(scheduled) \cup ToSet(queue)
                                              \cup ToSet(hand), Turn>>
    BY <1>2
  <1> QED
    BY <1>1, <1>3, SpecTypeInv, OfferedCalls, SpecOnceInv, SpecLoops, PTL
       DEF Spec, ImplementsTimeline, timeline!Spec
=============================================================================
