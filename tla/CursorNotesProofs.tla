-------------------------- MODULE CursorNotesProofs --------------------------
(***************************************************************************)
(* No note is stuck, for any number of cursors, notes and events, when the *)
(* cursors have one quantum and MIDI input is not merged to the output.    *)
(*                                                                         *)
(* The argument: a note-on of a cursor that is on its way has its note-off *)
(* behind it, on whichever way that one goes, or the cursor still holds    *)
(* the note; and a note that sounds has a note-off on its way, or a cursor *)
(* holds it.                                                               *)
(***************************************************************************)
EXTENDS CursorNotes, EventListProofs

\* All the cursors have the same quantum.
SingleQuant == \A p, q \in Quants : p = q

-----------------------------------------------------------------------------
(* Note-ons and their note-offs *)

\* What the cursors send, and the events it is in.
NoteUnits == {m \in Units : m.kind = "off" \/ (m.kind = "on" /\ m.vel > 0)}

NoteEvents ==
    [id : EventIds, part : {0}, cursorid : CursorIds, click : Nat, type : {"MIDIMSG"},
     units : {<<m>> : m \in NoteUnits}, loop : {0}, fade : {0}, started : {FALSE}]

IsOn(e)  == e.units[1].kind = "on"
IsOff(e) == e.units[1].kind = "off"
NoteOf(e) == e.units[1].note

\* y is a note-off for the note-on x, and not earlier than x.
Ends(y, x) ==
    /\ IsOff(y) /\ y.cursorid = x.cursorid /\ NoteOf(y) = NoteOf(x)
    /\ x.click <= y.click

\* The cursor is going to send a note-off for what it has sent.
Holds(c, n) ==
    /\ cursor[c].state = "down" /\ cursor[c].pending_noteoff = n
    /\ ~ (setting.at # "idle" /\ setting.cursorid = c)

Held == {h \in CursorIds \X Notes : Holds(h[1], h[2])}

\* The note of x is in H, or a note-off in Y is to follow x.
Followed(x, Y, H) == <<x.cursorid, NoteOf(x)>> \in H \/ \E y \in Y : Ends(y, x)

\* Each note-on of the list s has its note-off behind it in s, or in Y, which
\* comes after s, or its cursor and note are in H.
OnsEnd(s, Y, H) ==
    \A i \in 1 .. Len(s) :
        IsOn(s[i]) =>
            \/ Followed(s[i], Y, H)
            \/ \E j \in 1 .. Len(s) : i < j /\ Ends(s[j], s[i])

-----------------------------------------------------------------------------
(* The invariant *)

\* The types, as far as the argument needs them.
NotesTypeOK ==
    /\ currentclick \in 0 .. MaxClick
    /\ scheduled \in Seq(NoteEvents) /\ queue \in Seq(NoteEvents)
    /\ pc \in [Threads -> CallbackLabels \cup CallerLabels]
    /\ hand = <<>>
    /\ playing \in {<<>>} \cup {<<m>> : m \in NoteUnits}
    /\ (pc[Callback] = "play") <=> (playing # <<>>)
    /\ sounding \subseteq Notes

\* A cursor and "setting" begin with any pitch, quantum and cursor id.
CursorRecords ==
    [state : {"new", "down", "up"}, pitch : Notes \cup {NewCursor.pitch},
     quant : Quants \cup {NewCursor.quant}, pending_noteoff : Notes \cup {NoNote},
     noteon_click : Nat]

SettingRecords ==
    [at : {"idle", "remove", "noteon"}, cursorid : CursorIds \cup {NotSetting.cursorid},
     nowquant : Nat]

\* A thread is between the steps of _setCursor for cursor c.
BeingSet(c) == setting.at # "idle" /\ setting.cursorid = c

\* While the callback holds the lock on the cursors it is in its click client.
InClient == cursors_lock = Callback => pc[Callback] \in {"click", "removing"}

CursorsOK ==
    /\ InClient
    /\ cursors_lock \in Setters \cup {NoThread}
    /\ cursor \in [CursorIds -> CursorRecords] /\ setting \in SettingRecords
    /\ (setting.at = "idle") <=> (cursors_lock = NoThread)
    /\ setting.at # "idle" => setting.cursorid \in CursorIds
    /\ \A c \in CursorIds :
          /\ cursor[c].state = "down" =>
                cursor[c].pitch \in Notes /\ cursor[c].quant \in Quants
          /\ BeingSet(c) => cursor[c].state = "down"
          /\ cursor[c].state = "down" =>
                cursor[c].pending_noteoff \in Notes \/ BeingSet(c)

\* The last note-on of a cursor is not later than the next quantum from now.
ClocksOK ==
    /\ \A c \in CursorIds, q \in Quants :
          cursor[c].noteon_click <= quantizeToNext(currentclick, q)
    /\ setting.at = "noteon" =>
          /\ cursor[setting.cursorid].noteon_click <= setting.nowquant
          /\ \A q \in Quants : setting.nowquant <= quantizeToNext(currentclick, q)

\* The note-ons of a cursor are not later than its last one.
OnsNotLater(s) ==
    \A x \in ToSet(s) : IsOn(x) => x.click <= cursor[x.cursorid].noteon_click

ListsOK ==
    /\ TimeOrdered(scheduled) /\ TimeOrdered(queue)
    /\ OnsNotLater(scheduled) /\ OnsNotLater(queue)

\* A note n that sounds or starts to sound is going to end: a note-off in Y is to be
\* sent, or a cursor holds it.
EndsIn(n, Y, H) ==
    (\E h \in H : h[2] = n) \/ \E y \in Y : IsOff(y) /\ NoteOf(y) = n

NotesEndInv ==
    /\ OnsEnd(queue, {}, Held)
    /\ OnsEnd(scheduled, ToSet(queue), Held)
    /\ \A m \in ToSet(playing) :
          m.kind = "on" => EndsIn(m.note, ToSet(scheduled) \cup ToSet(queue), Held)
    /\ \A n \in sounding :
          \/ EndsIn(n, ToSet(scheduled) \cup ToSet(queue), Held)
          \/ \E m \in ToSet(playing) : m.kind = "off" /\ m.note = n

NotesInv == NotesTypeOK /\ CursorsOK /\ ClocksOK /\ ListsOK /\ NotesEndInv
-----------------------------------------------------------------------------
(* Lemmas on the lists *)

\* The fields of the events of the cursors.
LEMMA NoteEventFields ==
    ASSUME NEW e \in NoteEvents
    PROVE  /\ e.cursorid \in CursorIds /\ e.click \in Nat /\ e.type = "MIDIMSG"
           /\ e.loop = 0 /\ e.units[1] \in NoteUnits /\ NoteOf(e) \in Notes
           /\ IsOn(e) => ~ IsOff(e)
           /\ e.units = <<e.units[1]>>
  BY DEF NoteEvents, NoteUnits, Units, NoteOf, IsOn, IsOff

\* They have a click, so that the lemmas on ordered lists apply.
LEMMA NoteEventClicks == \A e \in NoteEvents : e.click \in Nat
  BY NoteEventFields

\* When every note-on of s that was followed in Y and H is followed in Y2 and H2, the
\* note-ons end there too.
LEMMA OnsEndLater ==
    ASSUME NEW s \in Seq(NoteEvents), NEW Y, NEW H, NEW Y2, NEW H2,
           OnsEnd(s, Y, H),
           \A x \in ToSet(s) : IsOn(x) /\ Followed(x, Y, H) => Followed(x, Y2, H2)
    PROVE  OnsEnd(s, Y2, H2)
  <1>1. \A i \in 1 .. Len(s) : s[i] \in ToSet(s)
    BY ToSetOfSeq
  <1> QED BY <1>1 DEF OnsEnd

\* In a longer list whose new event e is followed, if it is a note-on, and may be the
\* note-off of others, the note-ons end.
LEMMA OnsEndInsert ==
    ASSUME NEW s \in Seq(NoteEvents), NEW e \in NoteEvents, TimeOrdered(s),
           NEW Y, NEW H, NEW Y2, NEW H2,
           OnsEnd(s, Y, H),
           IsOn(e) => Followed(e, Y2, H2),
           \A x \in ToSet(s) : IsOn(x) /\ Followed(x, Y, H) =>
                                   Followed(x, Y2, H2) \/ Ends(e, x)
    PROVE  OnsEnd(InsertEvent(s, e), Y2, H2)
  <1> DEFINE p == InsertPosition(s, e)
             t == InsertEvent(s, e)
  <1>1. /\ p \in 1 .. Len(s) + 1
        /\ p <= Len(s) => e.click < s[p].click
    BY InsertPositionProperties, NoteEventClicks, NoteEventFields
  <1>2. /\ Len(t) = Len(s) + 1
        /\ \A i \in 1 .. Len(s) + 1 :
             t[i] = IF i < p THEN s[i] ELSE IF i = p THEN e ELSE s[i - 1]
    BY InsertEventProperties, NoteEventClicks
  <1>3. /\ Len(s) \in Nat
        /\ \A i \in 1 .. Len(s) : s[i] \in NoteEvents /\ s[i] \in ToSet(s)
        /\ \A i, j \in 1 .. Len(s) : i < j => s[i].click <= s[j].click
    BY ToSetOfSeq DEF TimeOrdered
  <1> DEFINE at(i) == IF i < p THEN i ELSE i + 1
  <1>4. ASSUME NEW i \in 1 .. Len(s)
        PROVE  at(i) \in 1 .. Len(t) /\ t[at(i)] = s[i]
    <2> HIDE DEF p, t
    <2>1. CASE i < p
      BY <2>1, <1>1, <1>2, <1>3
    <2>2. CASE i >= p
      <3>1. i + 1 \in 1 .. Len(s) + 1 /\ ~ (i + 1 < p) /\ i + 1 # p /\ (i + 1) - 1 = i
        BY <2>2, <1>1, <1>3
      <3> QED BY <3>1, <2>2, <1>1, <1>2, <1>3
    <2> QED BY <2>1, <2>2, <1>1, <1>3
  <1>5. ASSUME NEW k \in 1 .. Len(t), k # p
        PROVE  \E i \in 1 .. Len(s) : k = at(i)
    <2> HIDE DEF t
    <2>1. CASE k < p
      <3>1. k \in 1 .. Len(s) /\ at(k) = k
        BY <2>1, <1>1, <1>2, <1>3
      <3> QED BY <3>1
    <2>2. CASE k > p
      <3>1. k - 1 \in 1 .. Len(s) /\ at(k - 1) = k
        BY <2>2, <1>1, <1>2, <1>3
      <3> QED BY <3>1
    <2> QED BY <2>1, <2>2, <1>5, <1>1, <1>2, <1>3
  <1>6. p \in 1 .. Len(t) /\ t[p] = e
    BY <1>1, <1>2, <1>3
  <1>7. ASSUME NEW i \in 1 .. Len(s), NEW j \in 1 .. Len(s), i < j
        PROVE  at(i) < at(j)
    BY <1>7, <1>1, <1>3
  <1>8. ASSUME NEW i \in 1 .. Len(s), s[i].click <= e.click
        PROVE  at(i) < p
    <2>1. s[i].click \in Nat /\ e.click \in Nat
      BY <1>3, NoteEventFields
    <2>2. ASSUME i >= p PROVE FALSE
      <3>1. p \in 1 .. Len(s) /\ e.click < s[p].click /\ s[p].click \in Nat
        BY <2>2, <1>1, <1>3, NoteEventFields
      <3>2. s[p].click <= s[i].click
        BY <2>2, <3>1, <1>3
      <3> QED BY <3>1, <3>2, <2>1, <1>8
    <2> QED BY <2>2, <1>1, <1>3
  <1> HIDE DEF p, t, at
  <1> SUFFICES ASSUME NEW k \in 1 .. Len(t), IsOn(t[k])
               PROVE  \/ Followed(t[k], Y2, H2)
                      \/ \E j \in 1 .. Len(t) : k < j /\ Ends(t[j], t[k])
    BY DEF OnsEnd, t
  <1>9. CASE k = p
    BY <1>9, <1>6
  <1>10. CASE k # p
    <2>1. PICK i \in 1 .. Len(s) : k = at(i)
      BY <1>10, <1>5
    <2>2. t[k] = s[i] /\ IsOn(s[i]) /\ s[i] \in ToSet(s)
      BY <2>1, <1>4, <1>3
    <2>3. CASE Followed(s[i], Y, H)
      <3>1. Followed(s[i], Y2, H2) \/ Ends(e, s[i])
        BY <2>2, <2>3
      <3>2. ASSUME Ends(e, s[i]) PROVE k < p
        <4>1. s[i].click <= e.click
          BY <3>2 DEF Ends
        <4> QED BY <4>1, <1>8, <2>1
      <3> QED BY <3>1, <3>2, <1>6, <2>2
    <2>4. CASE \E j \in 1 .. Len(s) : i < j /\ Ends(s[j], s[i])
      <3>1. PICK j \in 1 .. Len(s) : i < j /\ Ends(s[j], s[i])
        BY <2>4
      <3>2. at(j) \in 1 .. Len(t) /\ t[at(j)] = s[j] /\ k < at(j)
        BY <3>1, <1>4, <1>7, <2>1
      <3> QED BY <3>1, <3>2, <2>2
    <2> QED BY <2>2, <2>3, <2>4 DEF OnsEnd
  <1> QED BY <1>9, <1>10

\* DeleteAllBefore spares note-offs.
LEMMA OffsAreSpared ==
    ASSUME NEW s \in Seq(NoteEvents), NEW cursorid, NEW clk, NEW y \in ToSet(s), IsOff(y)
    PROVE  y \in ToSet(DeleteAllBefore(s, cursorid, clk))
  <1> DEFINE D == {i \in DOMAIN s : ToDeleteBefore(s[i], cursorid, clk)}
  <1>1. PICK i \in 1 .. Len(s) : y = s[i]
    BY ToSetOfSeq
  <1>2. y \in NoteEvents
    BY <1>1
  <1>3. i \notin D
    BY <1>1, <1>2, NoteEventFields DEF ToDeleteBefore, IsNoteOffMsg, IsOff
  <1>4. ToSet(Without(s, D)) = {s[k] : k \in (1 .. Len(s)) \ D}
    <2> HIDE DEF D
    <2> QED BY WithoutOrdered
  <1> QED BY <1>1, <1>3, <1>4 DEF DeleteAllBefore

\* It leaves the note-offs where they are, behind their note-ons.
LEMMA OnsEndDelete ==
    ASSUME NEW s \in Seq(NoteEvents), NEW cursorid, NEW clk, NEW Y, NEW H,
           OnsEnd(s, Y, H)
    PROVE  OnsEnd(DeleteAllBefore(s, cursorid, clk), Y, H)
  <1> DEFINE D == {i \in DOMAIN s : ToDeleteBefore(s[i], cursorid, clk)}
             t == Without(s, D)
  <1>1. t \in Seq(NoteEvents) /\ Picks(t, s, (1 .. Len(s)) \ D)
    <2> HIDE DEF D
    <2> QED BY WithoutProperties
  <1>2. PICK f \in [1 .. Len(t) -> (1 .. Len(s)) \ D] :
          /\ \A q, r \in 1 .. Len(t) : q < r => f[q] < f[r]
          /\ \A r \in 1 .. Len(t) : t[r] = s[f[r]]
          /\ \A i \in (1 .. Len(s)) \ D : \E r \in 1 .. Len(t) : f[r] = i
    <2> HIDE DEF D, t
    <2> QED BY <1>1 DEF Picks
  <1>3. ASSUME NEW j \in 1 .. Len(s), IsOff(s[j])
        PROVE  j \in (1 .. Len(s)) \ D
    <2>1. s[j] \in NoteEvents
      OBVIOUS
    <2> QED BY <1>3, <2>1, NoteEventFields DEF ToDeleteBefore, IsNoteOffMsg, IsOff
  <1> HIDE DEF D, t
  <1> SUFFICES ASSUME NEW r \in 1 .. Len(t), IsOn(t[r])
               PROVE  \/ Followed(t[r], Y, H)
                      \/ \E j \in 1 .. Len(t) : r < j /\ Ends(t[j], t[r])
    BY DEF OnsEnd, DeleteAllBefore, D, t
  <1>4. f[r] \in 1 .. Len(s) /\ t[r] = s[f[r]]
    BY <1>2
  <1>5. CASE Followed(s[f[r]], Y, H)
    BY <1>4, <1>5
  <1>6. CASE \E j \in 1 .. Len(s) : f[r] < j /\ Ends(s[j], s[f[r]])
    <2>1. PICK j \in 1 .. Len(s) : f[r] < j /\ Ends(s[j], s[f[r]])
      BY <1>6
    <2>2. PICK k \in 1 .. Len(t) : f[k] = j
      BY <2>1, <1>3, <1>2 DEF Ends
    <2>3. t[k] = s[j]
      BY <2>2, <1>2
    <2>4. r < k
      <3>1. r \in Int /\ k \in Int /\ f[r] \in Int
        BY <1>4
      <3>2. ASSUME k < r PROVE FALSE
        <4>1. f[k] < f[r]
          BY <3>2, <1>2
        <4> QED BY <4>1, <2>1, <2>2, <3>1
      <3>3. k # r
        BY <2>1, <2>2, <3>1
      <3> QED BY <3>1, <3>2, <3>3
    <2> QED BY <2>1, <2>3, <2>4, <1>4
  <1> QED BY <1>4, <1>5, <1>6 DEF OnsEnd

\* What the event at the head has behind it, is behind it when it is taken away; the
\* others keep what they have.
LEMMA OnsEndTail ==
    ASSUME NEW s \in Seq(NoteEvents), s # <<>>, NEW Y, NEW H, OnsEnd(s, Y, H)
    PROVE  /\ OnsEnd(Tail(s), Y, H)
           /\ IsOn(Head(s)) =>
                \/ Followed(Head(s), Y, H)
                \/ \E y \in ToSet(Tail(s)) : Ends(y, Head(s))
  <1> DEFINE t == Tail(s)
  <1>1. /\ t \in Seq(NoteEvents) /\ Head(s) = s[1]
        /\ Len(s) \in Nat \ {0} /\ Len(t) = Len(s) - 1
        /\ \A i \in 1 .. Len(t) : t[i] = s[i + 1]
    BY HeadTailProperties, EmptySeq
  <1>2. ToSet(t) = {t[i] : i \in 1 .. Len(t)}
    BY <1>1, ToSetOfSeq
  <1> HIDE DEF t
  <1>3. ASSUME NEW i \in 1 .. Len(t), IsOn(t[i])
        PROVE  \/ Followed(t[i], Y, H)
               \/ \E j \in 1 .. Len(t) : i < j /\ Ends(t[j], t[i])
    <2>1. i + 1 \in 1 .. Len(s) /\ t[i] = s[i + 1]
      BY <1>1
    <2>2. CASE Followed(s[i + 1], Y, H)
      BY <2>1, <2>2
    <2>3. CASE \E j \in 1 .. Len(s) : i + 1 < j /\ Ends(s[j], s[i + 1])
      <3>1. PICK j \in 1 .. Len(s) : i + 1 < j /\ Ends(s[j], s[i + 1])
        BY <2>3
      <3>2. j - 1 \in 1 .. Len(t) /\ i < j - 1 /\ (j - 1) + 1 = j
        BY <3>1, <1>1
      <3>3. t[j - 1] = s[j]
        BY <3>2, <1>1
      <3> QED BY <3>1, <3>2, <3>3, <2>1
    <2> QED BY <1>3, <2>1, <2>2, <2>3 DEF OnsEnd
  <1>4. ASSUME IsOn(Head(s))
        PROVE  Followed(Head(s), Y, H) \/ \E y \in ToSet(t) : Ends(y, Head(s))
    <2>1. 1 \in 1 .. Len(s)
      BY <1>1
    <2>2. CASE \E j \in 1 .. Len(s) : 1 < j /\ Ends(s[j], s[1])
      <3>1. PICK j \in 1 .. Len(s) : 1 < j /\ Ends(s[j], s[1])
        BY <2>2
      <3>2. j - 1 \in 1 .. Len(t) /\ (j - 1) + 1 = j
        BY <3>1, <1>1
      <3>3. t[j - 1] = s[j] /\ t[j - 1] \in ToSet(t)
        BY <3>2, <1>1, <1>2
      <3> QED BY <3>1, <3>3, <1>1
    <2> QED BY <1>4, <2>1, <2>2, <1>1 DEF OnsEnd
  <1> QED BY <1>3, <1>4 DEF OnsEnd, t
-----------------------------------------------------------------------------
(* Lemmas on the other operators *)

\* The next multiple of a quantum is not earlier at a later time.
LEMMA QuantizeLater ==
    ASSUME NEW a \in Nat, NEW b \in Nat, a <= b, NEW q \in Nat \ {0}
    PROVE  /\ quantizeToNext(a, q) \in Nat
           /\ quantizeToNext(a, q) <= quantizeToNext(b, q)
  <1> DEFINE x == a \div q
             y == b \div q
             r == a % q
             t == b % q
  <1>1. /\ x \in Int /\ r \in 0 .. q - 1 /\ a = q * x + r
        /\ y \in Int /\ t \in 0 .. q - 1 /\ b = q * y + t
    OBVIOUS
  <1> HIDE DEF x, y, r, t
  <1>2. x <= y
    <2> SUFFICES ASSUME x > y PROVE FALSE
      BY <1>1
    <2>1. x = y + 1 + (x - y - 1) /\ x - y - 1 \in Nat
      BY <1>1
    <2> DEFINE d == x - y - 1
    <2>2. x = y + 1 + d /\ d \in Nat
      BY <2>1
    <2> HIDE DEF d
    <2>3. q * x = q * y + q + q * d /\ q * d \in Nat /\ q * y \in Int
      BY <2>2, <1>1
    <2> QED BY <2>3, <1>1
  <1>3. q * x <= q * y
    <2> DEFINE d == y - x
    <2>1. y = x + d /\ d \in Nat
      BY <1>1, <1>2
    <2> HIDE DEF d
    <2>2. q * y = q * x + q * d /\ q * d \in Nat /\ q * x \in Int
      BY <2>1, <1>1
    <2> QED BY <2>2
  <1>4. quantizeToNext(a, q) = q * x + q /\ quantizeToNext(b, q) = q * y + q
    <2>1. quantizeToNext(a, q) = a - r + q /\ quantizeToNext(b, q) = b - t + q
      BY DEF quantizeToNext, r, t
    <2>2. q * x \in Int /\ q * y \in Int
      BY <1>1
    <2> QED BY <2>1, <2>2, <1>1
  <1>5. q * x \in Int /\ q * y \in Int
    BY <1>1
  <1>6. q * x + q >= 0
    BY <1>1, <1>5
  <1> QED BY <1>3, <1>4, <1>5, <1>6

\* The event that a cursor makes of a message.
LEMMA CursorMsgType ==
    ASSUME NEW id \in EventIds, NEW kind \in {"on", "off"}, NEW pitch \in Notes,
           NEW clk \in Nat, NEW c \in CursorIds
    PROVE  /\ CursorMsg(id, kind, pitch, clk, c) \in NoteEvents
           /\ CursorMsg(id, kind, pitch, clk, c).cursorid = c
           /\ CursorMsg(id, kind, pitch, clk, c).click = clk
           /\ NoteOf(CursorMsg(id, kind, pitch, clk, c)) = pitch
           /\ CursorMsg(id, kind, pitch, clk, c).units[1].kind = kind
  <1> DEFINE m == [click |-> 0, kind |-> kind, note |-> pitch,
                   vel |-> IF kind = "on" THEN Velocity ELSE 0]
  <1>1. m \in NoteUnits /\ m.kind = kind /\ m.note = pitch /\ m.kind # "control"
    BY NotesAssumption DEF NoteUnits, Units, Kinds
  <1>2. CursorMsg(id, kind, pitch, clk, c) = MsgEvent(id, m, clk, c, NoLooping)
    BY DEF CursorMsg
  <1> HIDE DEF m
  <1>3. CursorMsg(id, kind, pitch, clk, c) =
            [id |-> id, part |-> 0, cursorid |-> c, click |-> clk,
             type |-> "MIDIMSG", units |-> <<m>>, loop |-> 0, fade |-> 0,
             started |-> FALSE]
    BY <1>1, <1>2 DEF MsgEvent, NoLooping
  <1> QED BY <1>1, <1>3 DEF NoteEvents, NoteOf

\* Sending puts one such event into the queue.
Sends(e) ==
    /\ queue' = InsertEvent(queue, e)
    /\ UNCHANGED <<currentclick, scheduled, pc, hand, playing, sounding>>

\* _queueRegionMidiMsg sends an event with its arguments.
LEMMA QueueSends ==
    ASSUME NEW t, NEW kind \in {"on", "off"}, NEW pitch \in Notes, NEW clk \in Nat,
           NEW c \in CursorIds, QueueRegionMidiMsg(t, kind, pitch, clk, c)
    PROVE  \E e \in NoteEvents :
              /\ e.cursorid = c /\ e.click = clk /\ NoteOf(e) = pitch
              /\ e.units[1].kind = kind
              /\ Sends(e)
  <1>1. NewId \in EventIds /\ QueueAddEvent(t, CursorMsg(NewId, kind, pitch, clk, c))
    <2>1. NewId \in FreeIds
      BY DEF QueueRegionMidiMsg, NewId
    <2> QED BY <2>1 DEF QueueRegionMidiMsg, FreeIds
  <1> DEFINE e == CursorMsg(NewId, kind, pitch, clk, c)
  <1>2. Sends(e)
    BY <1>1 DEF QueueAddEvent, Sends, doing, midi
  <1> QED BY <1>1, <1>2, CursorMsgType
-----------------------------------------------------------------------------
(* What the steps do, as far as the invariant needs it *)

\* Steps that only let time go on, or cut notes.
Quiet ==
    /\ UNCHANGED <<scheduled, queue, hand, playing, cursorvars>>
    /\ sounding' \subseteq sounding
    /\ currentclick' \in 0 .. MaxClick /\ currentclick <= currentclick'
    /\ pc' \in [Threads -> CallbackLabels \cup CallerLabels]
    /\ pc'[Callback] = "play" <=> pc[Callback] = "play"
    /\ InClient'

\* The callback plays the event at the head.
Plays ==
    /\ scheduled # <<>> /\ playing = <<>>
    /\ scheduled' = Tail(scheduled)
    /\ playing' = Head(scheduled).units
    /\ pc' = [pc EXCEPT ![Callback] = "play"]
    /\ UNCHANGED <<currentclick, queue, hand, sounding, cursorvars>>
    /\ InClient'

\* What the callback does: no event loops, and no phrase and no input is queued.
LEMMA CallbackStepCases ==
    ASSUME NotesTypeOK, InClient, ~ MidiMerge, CallbackStep, ClientReturned,
           UNCHANGED cursorvars
    PROVE  Quiet \/ Plays \/ SendMidiMsg \/ AddQueueToScheduled \/ RemoveFromQueue(Callback)
  <1>0. /\ cursors_lock' = cursors_lock
        /\ pc[Callback] # "removing" => cursors_lock # Callback
    BY DEF InClient, ClientReturned, cursorvars
  <1>1. /\ currentclick \in 0 .. MaxClick /\ MaxClick \in Nat
        /\ pc \in [Threads -> CallbackLabels \cup CallerLabels]
        /\ Callback \in Threads
        /\ scheduled \in Seq(NoteEvents)
        /\ (pc[Callback] = "play") <=> (playing # <<>>)
    BY DataAssumption DEF NotesTypeOK, Threads
  <1>2. CASE AdvanceTime
    <2>1. currentclick' \in 0 .. MaxClick /\ currentclick <= currentclick'
      BY <1>1, <1>2 DEF AdvanceTime
    <2> QED BY <1>0, <1>1, <1>2, <2>1
            DEF AdvanceTime, Quiet, InClient, GoTo, CallbackLabels, lists, doing, midi
  <1>3. CASE SameClick \/ TryLockScheduled \/ LockQueue \/ UnlockScheduled \/ PollDone
    BY <1>0, <1>1, <1>3
       DEF SameClick, TryLockScheduled, LockQueue, UnlockScheduled, PollDone,
           Quiet, InClient, GoTo, CallbackLabels, lists, doing, midi
  <1>4. CASE PollMidiInput
    <2>1. PICK m \in Msgs : TakeMidiInput(m)
      BY <1>4, NotesAssumption DEF PollMidiInput, ClientQueues
    <2> QED BY <1>0, <1>1, <1>4, <2>1 DEF PollMidiInput, TakeMidiInput, Quiet, InClient, doing
  <1>5. CASE ClickClient
    BY <1>5, NotesAssumption DEF ClickClient, ClientQueues
  <1>6. CASE DoMidiMsg
    <2>1. PICK e \in ToSet(scheduled) : DoMidiMsg!(e)
      BY <1>6 DEF DoMidiMsg
    <2>2. e \in NoteEvents /\ scheduled # <<>> /\ e = Head(scheduled)
          /\ pc[Callback] = "due"
      BY <2>1, <1>1, ToSetOfSeq DEF Due
    <2>3. e.loop = 0 /\ e.units = <<e.units[1]>>
      BY <2>2, NoteEventFields
    <2>4. /\ scheduled' = Tail(scheduled) /\ UNCHANGED queue
          /\ playing' = <<e.units[1]>> /\ hand' = <<>>
          /\ pc' = [pc EXCEPT ![Callback] = "play"]
      BY <2>1, <2>3 DEF StartPlaying, GoTo
    <2> QED BY <2>1, <2>2, <2>3, <2>4, <1>0, <1>1 DEF Plays, InClient, NotesTypeOK, midi
  <1>7. CASE DoMidiPhrase
    <2>1. PICK e \in ToSet(scheduled) : e.type = "MIDIPHRASE"
      BY <1>7 DEF DoMidiPhrase
    <2>2. e \in NoteEvents
      BY <2>1, <1>1, ToSetOfSeq
    <2> QED BY <2>1, <2>2, NoteEventFields
  <1> QED BY <1>2, <1>3, <1>4, <1>5, <1>6, <1>7 DEF CallbackStep, WithinCallback

\* Nothing changes but what the invariant does not look at.
LEMMA StutterIsQuiet ==
    ASSUME NotesTypeOK, InClient, UNCHANGED allvars
    PROVE  Quiet
  BY DEF NotesTypeOK, InClient, Quiet, cursorvars, allvars, vars, lists, midi, doing

\* The steps of the threads.
LEMMA NotesNextCases ==
    ASSUME NotesTypeOK, CursorsOK, ~ MidiMerge, [NotesNext]_allvars
    PROVE  \/ Quiet
           \/ Plays
           \/ SendMidiMsg /\ UNCHANGED cursorvars
           \/ AddQueueToScheduled /\ UNCHANGED cursorvars
           \/ \E t \in Setters : RemoveFromQueue(t) /\ UNCHANGED cursorvars
           \/ RemoveQueued \/ QueueNoteon
           \/ \E t \in Setters, c \in CursorIds, pitch \in Notes, quant \in Quants :
                 CursorDown(t, c, pitch, quant) \/ CursorDrag(t, c, pitch, quant)
           \/ \E t \in Setters, c \in CursorIds, quant \in Quants : CursorMove(t, c, quant)
           \/ \E c \in CursorIds : CursorUp(c)
  <1>1. InClient /\ Net \in Setters
    BY DEF CursorsOK, Setters
  <1>2. CASE CallbackStep /\ ClientReturned /\ UNCHANGED cursorvars
    <2>1. Callback \in Setters
      BY DEF Setters
    <2> QED BY <1>1, <1>2, <2>1, CallbackStepCases DEF Plays
  <1> QED BY <1>1, <1>2, StutterIsQuiet DEF NotesNext

-----------------------------------------------------------------------------
(* The notes that cursors hold *)

\* Nobody lets a note go that is not sent to its end.
LEMMA HeldKept ==
    ASSUME CursorsOK,
           \/ UNCHANGED cursorvars
           \/ RemoveQueued \/ QueueNoteon
           \/ \E t \in Setters, c \in CursorIds, pitch \in Notes, quant \in Quants :
                 CursorDown(t, c, pitch, quant)
           \/ \E t \in Setters, c \in CursorIds, quant \in Quants : CursorMove(t, c, quant)
    PROVE  Held \subseteq Held'
  <1>0. /\ cursor \in [CursorIds -> CursorRecords] /\ setting \in SettingRecords
        /\ (setting.at = "idle") <=> (cursors_lock = NoThread)
    BY DEF CursorsOK
  <1>1. CASE UNCHANGED cursorvars
    BY <1>1 DEF cursorvars, Held, Holds
  <1>2. CASE RemoveQueued
    BY <1>2, <1>0 DEF RemoveQueued, Held, Holds, SettingRecords
  <1>3. CASE QueueNoteon
    <2> DEFINE c == setting.cursorid
    <2>1. /\ cursor' = [cursor EXCEPT ![c].pending_noteoff = cursor[c].pitch,
                                      ![c].noteon_click = setting.nowquant]
          /\ setting.at # "idle"
      BY <1>3 DEF QueueNoteon
    <2>2. setting'.at = "idle"
      BY <1>3 DEF QueueNoteon, NotSetting
    <2>3. ASSUME NEW d \in CursorIds, d # c PROVE cursor'[d] = cursor[d]
      BY <2>1, <2>3, <1>0
    <2> QED BY <2>1, <2>2, <2>3 DEF Held, Holds
  <1>4. ASSUME NEW t \in Setters, NEW c \in CursorIds,
               NEW pitch \in Notes, NEW quant \in Quants,
               CursorDown(t, c, pitch, quant)
        PROVE  Held \subseteq Held'
    <2>1. /\ setting.at = "idle" /\ cursor[c].state = "new"
          /\ \A d \in CursorIds : d # c => cursor'[d] = cursor[d]
          /\ setting'.cursorid = c
      BY <1>4, <1>0 DEF CursorDown, LockCursors, SettingRecords
    <2> QED BY <2>1 DEF Held, Holds
  <1>5. ASSUME NEW t \in Setters, NEW c \in CursorIds, NEW quant \in Quants,
               CursorMove(t, c, quant)
        PROVE  Held \subseteq Held'
    <2>1. /\ setting' = setting
          /\ \A d \in CursorIds : /\ cursor'[d].state = cursor[d].state
                                  /\ cursor'[d].pending_noteoff = cursor[d].pending_noteoff
      BY <1>5, <1>0 DEF CursorMove, CursorRecords
    <2> QED BY <2>1 DEF Held, Holds
  <1> QED BY <1>1, <1>2, <1>3, <1>4, <1>5

\* A drag to another pitch and a cursor that goes up let go the note of that cursor.
LEMMA HeldLetGo ==
    ASSUME CursorsOK, NEW c \in CursorIds,
           \/ \E t \in Setters, pitch \in Notes, quant \in Quants :
                 CursorDrag(t, c, pitch, quant)
           \/ CursorUp(c)
    PROVE  Held \subseteq Held' \cup {<<c, cursor[c].pending_noteoff>>}
  <1>0. /\ cursor \in [CursorIds -> CursorRecords] /\ setting \in SettingRecords
        /\ (setting.at = "idle") <=> (cursors_lock = NoThread)
    BY DEF CursorsOK
  <1>1. /\ setting.at = "idle"
        /\ setting'.at = "idle" \/ setting'.cursorid = c
        /\ \A d \in CursorIds : d # c => cursor'[d] = cursor[d]
    BY <1>0 DEF CursorDrag, LockCursors, CursorUp, SettingRecords
  <1>2. ASSUME NEW h \in Held PROVE h \in Held' \cup {<<c, cursor[c].pending_noteoff>>}
    <2>1. h \in CursorIds \X Notes /\ Holds(h[1], h[2]) /\ h = <<h[1], h[2]>>
      BY DEF Held
    <2>2. CASE h[1] = c
      BY <2>1, <2>2 DEF Holds
    <2>3. CASE h[1] # c
      BY <2>1, <2>3, <1>1 DEF Held, Holds
    <2> QED BY <2>2, <2>3
  <1> QED BY <1>2
-----------------------------------------------------------------------------
(* What is sent *)

\* A drag and a cursor that goes up send the note-off of the note that the cursor holds,
\* which is not earlier than its last note-on.
LEMMA SendsOff ==
    ASSUME NotesTypeOK, CursorsOK, ClocksOK, NEW c \in CursorIds,
           \/ \E t \in Setters, pitch \in Notes, quant \in Quants :
                 CursorDrag(t, c, pitch, quant)
           \/ CursorUp(c)
    PROVE  \E e \in NoteEvents :
              /\ e.cursorid = c /\ cursor[c].noteon_click <= e.click
              /\ NoteOf(e) = cursor[c].pending_noteoff
              /\ IsOff(e)
              /\ Sends(e)
  <1>1. /\ cursor[c] \in CursorRecords /\ cursor[c].noteon_click \in Nat
        /\ currentclick \in Nat
    BY DataAssumption DEF CursorsOK, CursorRecords, NotesTypeOK
  <1>2. setting.at = "idle" /\ cursor[c].state = "down"
    BY DEF CursorsOK, CursorDrag, LockCursors, CursorUp
  <1>3. cursor[c].pending_noteoff \in Notes /\ cursor[c].quant \in Quants
    BY <1>2 DEF CursorsOK, BeingSet
  <1>4. CASE \E t \in Setters, pitch \in Notes, quant \in Quants :
                CursorDrag(t, c, pitch, quant)
    <2> DEFINE clk == cursor[c].noteon_click + 1
    <2>1. \E t \in Setters : QueueRegionMidiMsg(t, "off", cursor[c].pending_noteoff, clk, c)
      BY <1>4 DEF CursorDrag
    <2>2. clk \in Nat /\ cursor[c].noteon_click <= clk
      BY <1>1
    <2> HIDE DEF clk
    <2> QED BY <2>1, <2>2, <1>3, QueueSends DEF IsOff
  <1>5. CASE CursorUp(c)
    <2> DEFINE clk == quantizeToNext(currentclick, cursor[c].quant)
    <2>1. QueueRegionMidiMsg(Callback, "off", cursor[c].pending_noteoff, clk, c)
      BY <1>5 DEF CursorUp
    <2>2. cursor[c].quant \in Nat \ {0}
      BY <1>3, NotesAssumption
    <2>3. clk \in Nat
      BY <1>1, <2>2, QuantizeLater
    <2>4. cursor[c].noteon_click <= clk
      BY <1>3 DEF ClocksOK
    <2> HIDE DEF clk
    <2> QED BY <2>1, <2>3, <2>4, <1>3, QueueSends DEF IsOff
  <1> QED BY <1>4, <1>5

\* The note-on of a cursor that was set.
LEMMA SendsOn ==
    ASSUME NotesTypeOK, CursorsOK, QueueNoteon
    PROVE  \E e \in NoteEvents :
              /\ e.cursorid = setting.cursorid /\ e.click = setting.nowquant
              /\ NoteOf(e) = cursor[setting.cursorid].pitch
              /\ IsOn(e)
              /\ Sends(e)
  <1> DEFINE c == setting.cursorid
  <1>1. setting.at = "noteon" /\ setting.nowquant \in Nat
    BY DEF QueueNoteon, CursorsOK, SettingRecords
  <1>2. c \in CursorIds /\ cursor[c].state = "down"
    BY <1>1 DEF CursorsOK, BeingSet
  <1>3. cursor[c].pitch \in Notes
    BY <1>2 DEF CursorsOK
  <1>4. QueueRegionMidiMsg(cursors_lock, "on", cursor[c].pitch, setting.nowquant, c)
    BY DEF QueueNoteon
  <1> HIDE DEF c
  <1>5. \E e \in NoteEvents :
           /\ e.cursorid = c /\ e.click = setting.nowquant
           /\ NoteOf(e) = cursor[c].pitch
           /\ e.units[1].kind = "on"
           /\ Sends(e)
    BY <1>1, <1>2, <1>3, <1>4, QueueSends
  <1> QED BY <1>5 DEF IsOn, c

\* The lists that DeleteAllBefore, InsertEvent and Tail make of lists of these events.
LEMMA NoteListTypes ==
    ASSUME NEW s \in Seq(NoteEvents)
    PROVE  /\ \A e \in NoteEvents : InsertEvent(s, e) \in Seq(NoteEvents)
           /\ \A cursorid, clk : DeleteAllBefore(s, cursorid, clk) \in Seq(NoteEvents)
           /\ s # <<>> => Tail(s) \in Seq(NoteEvents) /\ Head(s) \in NoteEvents
  <1>1. \A e \in NoteEvents : InsertEvent(s, e) \in Seq(NoteEvents)
    BY InsertEventProperties, NoteEventClicks
  <1>2. ASSUME NEW cursorid, NEW clk
        PROVE  DeleteAllBefore(s, cursorid, clk) \in Seq(NoteEvents)
    BY WithoutOrdered DEF DeleteAllBefore
  <1>3. s # <<>> => Tail(s) \in Seq(NoteEvents) /\ Head(s) \in NoteEvents
    BY TailProperties
  <1> QED BY <1>1, <1>2, <1>3

\* The same for their order.
LEMMA NoteListsOrdered ==
    ASSUME NEW s \in Seq(NoteEvents), TimeOrdered(s)
    PROVE  /\ \A e \in NoteEvents : TimeOrdered(InsertEvent(s, e))
           /\ \A cursorid, clk : TimeOrdered(DeleteAllBefore(s, cursorid, clk))
           /\ s # <<>> => TimeOrdered(Tail(s))
  <1>1. \A e \in NoteEvents : TimeOrdered(InsertEvent(s, e))
    BY InsertEventOrdered, NoteEventClicks
  <1>2. ASSUME NEW cursorid, NEW clk
        PROVE  TimeOrdered(DeleteAllBefore(s, cursorid, clk))
    BY WithoutOrdered DEF DeleteAllBefore
  <1>3. s # <<>> => TimeOrdered(Tail(s))
    BY TailProperties
  <1> QED BY <1>1, <1>2, <1>3

\* The same for the events in them.
LEMMA NoteListSets ==
    ASSUME NEW s \in Seq(NoteEvents)
    PROVE  /\ \A e \in NoteEvents : ToSet(InsertEvent(s, e)) = ToSet(s) \cup {e}
           /\ \A cursorid, clk : ToSet(DeleteAllBefore(s, cursorid, clk)) \subseteq ToSet(s)
           /\ s # <<>> => /\ ToSet(s) = {Head(s)} \cup ToSet(Tail(s))
                          /\ Head(s) \in ToSet(s)
           /\ ToSet(s) \subseteq NoteEvents
  <1>1. \A e \in NoteEvents : ToSet(InsertEvent(s, e)) = ToSet(s) \cup {e}
    BY InsertEventSet, NoteEventClicks
  <1>2. ASSUME NEW cursorid, NEW clk
        PROVE  ToSet(DeleteAllBefore(s, cursorid, clk)) \subseteq ToSet(s)
    BY WithoutOrdered DEF DeleteAllBefore
  <1>3. s # <<>> => /\ ToSet(s) = {Head(s)} \cup ToSet(Tail(s))
                    /\ Head(s) \in ToSet(s)
    BY TailProperties
  <1> QED BY <1>1, <1>2, <1>3, ToSetOfSeq

-----------------------------------------------------------------------------
(* Types and cursors *)

\* Every step keeps the types: what is queued are note-ons and note-offs of cursors.
LEMMA NotesTypeStep ==
    ASSUME NotesTypeOK, CursorsOK, ClocksOK, ~ MidiMerge, [NotesNext]_allvars
    PROVE  NotesTypeOK'
  <1>0. /\ scheduled \in Seq(NoteEvents) /\ queue \in Seq(NoteEvents)
        /\ Net \in Threads /\ Callback \in Threads /\ Net # Callback
        /\ pc \in [Threads -> CallbackLabels \cup CallerLabels]
    BY ThreadsAssumption, NotesAssumption DEF NotesTypeOK, Threads
  <1>1. CASE Quiet
    BY <1>1 DEF NotesTypeOK, Quiet
  <1>2. CASE Plays
    <2>1. Head(scheduled) \in NoteEvents /\ Tail(scheduled) \in Seq(NoteEvents)
      BY <1>0, <1>2, NoteListTypes DEF Plays
    <2>2. Head(scheduled).units \in {<<m>> : m \in NoteUnits}
      BY <2>1 DEF NoteEvents
    <2>3. pc' \in [Threads -> CallbackLabels \cup CallerLabels] /\ pc'[Callback] = "play"
      BY <1>0, <1>2 DEF Plays, CallbackLabels
    <2>4. PICK m \in NoteUnits : playing' = <<m>>
      BY <1>2, <2>2 DEF Plays
    <2>5. playing' # <<>>
      BY <2>4
    <2> QED BY <1>2, <2>1, <2>3, <2>4, <2>5 DEF NotesTypeOK, Plays
  <1>3. CASE SendMidiMsg /\ UNCHANGED cursorvars
    <2>1. PICK m \in NoteUnits : playing = <<m>>
      BY <1>3 DEF SendMidiMsg, NotesTypeOK
    <2>2. playing[1].note \in Notes
      BY <2>1 DEF NoteUnits, Units
    <2>3. sounding' \subseteq Notes
      BY <1>3, <2>2 DEF SendMidiMsg, After, NotesTypeOK
    <2>4. queue' = queue
      BY <1>3 DEF SendMidiMsg, Requeue, NotesTypeOK
    <2>5. pc' \in [Threads -> CallbackLabels \cup CallerLabels] /\ pc'[Callback] = "due"
      BY <1>0, <1>3 DEF SendMidiMsg, GoTo, CallbackLabels
    <2> QED BY <1>3, <2>3, <2>4, <2>5 DEF NotesTypeOK, SendMidiMsg
  <1>4. CASE AddQueueToScheduled
    <2>1. /\ queue # <<>>
          /\ scheduled' = InsertEvent(scheduled, Head(queue)) /\ queue' = Tail(queue)
      BY <1>4 DEF AddQueueToScheduled
    <2>2. scheduled' \in Seq(NoteEvents) /\ queue' \in Seq(NoteEvents)
      BY <2>1, <1>0, NoteListTypes
    <2> QED BY <1>4, <2>2 DEF NotesTypeOK, AddQueueToScheduled, doing, midi
  <1>5. CASE (\E t \in Setters : RemoveFromQueue(t)) \/ RemoveQueued
    <2>1. /\ UNCHANGED <<currentclick, hand, playing, sounding>>
          /\ \E t \in Setters, l \in {"idle", "click", "removing"} :
                /\ pc' = [pc EXCEPT ![t] = l]
                /\ t = Callback => pc[t] \in {"click", "removing"}
      <3>1. CASE RemoveQueued
        <4>1. cursors_lock \in Setters
          BY <3>1 DEF RemoveQueued, CursorsOK
        <4> QED BY <3>1, <4>1 DEF RemoveQueued, RemoveFromScheduled, CursorsOK, InClient,
                                  GoTo, doing, midi
      <3>2. ASSUME NEW t \in Setters, RemoveFromQueue(t)
            PROVE  <2>1
        BY <3>2 DEF RemoveFromQueue, GoTo, CallsFrom, doing, midi
      <3> QED BY <1>5, <3>1, <3>2
    <2>2. /\ pc' \in [Threads -> CallbackLabels \cup CallerLabels]
          /\ pc'[Callback] = "play" <=> pc[Callback] = "play"
      BY <2>1, <1>0 DEF CallerLabels, CallbackLabels, Setters
    <2>3. \/ scheduled' = scheduled /\ \E c, clk : queue' = DeleteAllBefore(queue, c, clk)
          \/ queue' = queue /\ \E c, clk : scheduled' = DeleteAllBefore(scheduled, c, clk)
      BY <1>5 DEF RemoveFromQueue, RemoveQueued, RemoveFromScheduled
    <2>4. scheduled' \in Seq(NoteEvents) /\ queue' \in Seq(NoteEvents)
      BY <2>3, <1>0, NoteListTypes
    <2> QED BY <2>1, <2>2, <2>4 DEF NotesTypeOK
  <1>6. ASSUME NEW e \in NoteEvents, Sends(e)
        PROVE  NotesTypeOK'
    <2>1. queue' \in Seq(NoteEvents)
      BY <1>0, <1>6, NoteListTypes DEF Sends
    <2> QED BY <1>6, <2>1 DEF NotesTypeOK, Sends
  <1>7. CASE QueueNoteon
    BY <1>6, <1>7, SendsOn
  <1>8. ASSUME NEW t \in Setters, NEW c \in CursorIds,
               NEW pitch \in Notes, NEW quant \in Quants,
               CursorDown(t, c, pitch, quant)
        PROVE  NotesTypeOK'
    BY <1>8 DEF CursorDown, NotesTypeOK, vars, lists, doing, midi
  <1>9. ASSUME NEW c \in CursorIds,
               \/ \E t \in Setters, pitch \in Notes, quant \in Quants :
                     CursorDrag(t, c, pitch, quant)
               \/ CursorUp(c)
        PROVE  NotesTypeOK'
    BY <1>6, <1>9, SendsOff
  <1>10. ASSUME NEW t \in Setters, NEW c \in CursorIds, NEW quant \in Quants,
               CursorMove(t, c, quant)
         PROVE  NotesTypeOK'
    BY <1>10 DEF CursorMove, NotesTypeOK, vars, lists, doing, midi
  <1> QED
    BY <1>1, <1>2, <1>3, <1>4, <1>5, <1>7, <1>8, <1>9, <1>10, NotesNextCases

\* Every step keeps the cursors' fields, and the one that is being set is down.
LEMMA CursorsStep ==
    ASSUME NotesTypeOK, CursorsOK, ~ MidiMerge, [NotesNext]_allvars
    PROVE  CursorsOK'
  <1>0. /\ cursor \in [CursorIds -> CursorRecords] /\ setting \in SettingRecords
        /\ (setting.at = "idle") <=> (cursors_lock = NoThread)
        /\ NoThread \notin Setters /\ Net \in Threads /\ Net # Callback
        /\ cursors_lock \in Setters \cup {NoThread} /\ InClient
        /\ pc \in [Threads -> CallbackLabels \cup CallerLabels] /\ Callback \in Threads
        /\ currentclick \in Nat
    BY ThreadsAssumption, DataAssumption, NotesAssumption
       DEF CursorsOK, Threads, Setters, NotesTypeOK
  <1>1. CASE UNCHANGED cursorvars /\ InClient'
    BY <1>1 DEF CursorsOK, BeingSet, cursorvars
  <1>2. CASE RemoveQueued
    <2>1. setting.cursorid \in CursorIds /\ setting.at # "idle"
      BY <1>2 DEF RemoveQueued, CursorsOK
    <2>2. cursor[setting.cursorid].quant \in Nat \ {0}
      BY <2>1, NotesAssumption DEF CursorsOK, BeingSet
    <2>3. quantizeToNext(currentclick, cursor[setting.cursorid].quant) \in Nat
      BY <1>0, <2>2, QuantizeLater
    <2>4. setting' \in SettingRecords /\ setting'.at = "noteon" /\ setting'.cursorid = setting.cursorid
      BY <1>0, <1>2, <2>3 DEF RemoveQueued, SettingRecords
    <2>5. InClient'
      BY <1>0, <1>2, <2>1 DEF RemoveQueued, RemoveFromScheduled, GoTo, InClient
    <2> QED BY <1>2, <2>1, <2>4, <2>5 DEF RemoveQueued, CursorsOK, BeingSet
  <1>3. CASE QueueNoteon
    <2> DEFINE c == setting.cursorid
    <2>1. c \in CursorIds /\ BeingSet(c) /\ cursor[c].state = "down"
      BY <1>3 DEF QueueNoteon, CursorsOK, BeingSet
    <2>2. cursor[c].pitch \in Notes /\ setting.nowquant \in Nat
      BY <2>1, <1>0 DEF CursorsOK, SettingRecords
    <2>3. cursor' = [cursor EXCEPT ![c].pending_noteoff = cursor[c].pitch,
                                   ![c].noteon_click = setting.nowquant]
      BY <1>3 DEF QueueNoteon
    <2>4. /\ cursor' \in [CursorIds -> CursorRecords]
          /\ \A d \in CursorIds : d # c => cursor'[d] = cursor[d]
          /\ cursor'[c].state = "down" /\ cursor'[c].pitch = cursor[c].pitch
          /\ cursor'[c].quant = cursor[c].quant
          /\ cursor'[c].pending_noteoff \in Notes
      BY <2>1, <2>2, <2>3, <1>0 DEF CursorRecords
    <2>5. setting' \in SettingRecords /\ setting'.at = "idle" /\ cursors_lock' = NoThread
      BY <1>3 DEF QueueNoteon, NotSetting, SettingRecords
    <2>6. \A d \in CursorIds : d # c => ~ BeingSet(d)
      BY DEF BeingSet
    <2>7. InClient'
      BY <1>0, <2>5 DEF InClient, Setters, Threads
    <2> HIDE DEF c
    <2> QED BY <2>1, <2>4, <2>5, <2>6, <2>7 DEF CursorsOK, BeingSet
  <1>4. ASSUME NEW t \in Setters, NEW c \in CursorIds,
               NEW pitch \in Notes, NEW quant \in Quants,
               CursorDown(t, c, pitch, quant) \/ CursorDrag(t, c, pitch, quant)
        PROVE  CursorsOK'
    <2>1. /\ \/ cursor' = [cursor EXCEPT ![c].state = "down", ![c].pitch = pitch,
                                         ![c].quant = quant]
             \/ /\ cursor[c].state = "down"
                /\ cursor' = [cursor EXCEPT ![c].pitch = pitch, ![c].quant = quant]
          /\ cursors_lock = NoThread /\ cursors_lock' = t
          /\ setting' = [setting EXCEPT !.at = "remove", !.cursorid = c]
          /\ pc[t] = CallsFrom(t) /\ pc' = pc
      BY <1>4 DEF CursorDown, CursorDrag, LockCursors, vars, QueueRegionMidiMsg, QueueAddEvent
    <2>2. /\ cursor' \in [CursorIds -> CursorRecords]
          /\ \A d \in CursorIds : d # c => cursor'[d] = cursor[d]
          /\ cursor'[c].state = "down" /\ cursor'[c].pitch = pitch
          /\ cursor'[c].quant = quant
      BY <2>1, <1>0 DEF CursorRecords
    <2>3. setting' \in SettingRecords /\ setting'.at = "remove" /\ setting'.cursorid = c
      BY <2>1, <1>0 DEF SettingRecords
    <2>4. InClient'
      BY <2>1 DEF InClient, CallsFrom
    <2> QED BY <1>0, <2>1, <2>2, <2>3, <2>4 DEF CursorsOK, BeingSet
  <1>5. ASSUME NEW t \in Setters, NEW c \in CursorIds, NEW quant \in Quants,
               CursorMove(t, c, quant)
        PROVE  CursorsOK'
    <2>1. /\ cursor' = [cursor EXCEPT ![c].quant = quant]
          /\ UNCHANGED <<cursors_lock, setting, pc>>
      BY <1>5 DEF CursorMove, vars
    <2>2. /\ cursor' \in [CursorIds -> CursorRecords]
          /\ \A d \in CursorIds :
                /\ cursor'[d].state = cursor[d].state
                /\ cursor'[d].pitch = cursor[d].pitch
                /\ cursor'[d].pending_noteoff = cursor[d].pending_noteoff
                /\ cursor'[d].quant \in {cursor[d].quant, quant}
      BY <2>1, <1>0 DEF CursorRecords
    <2> QED BY <2>1, <2>2 DEF CursorsOK, InClient, BeingSet
  <1>6. ASSUME NEW c \in CursorIds, CursorUp(c)
        PROVE  CursorsOK'
    <2>1. /\ cursor' = [cursor EXCEPT ![c].state = "up", ![c].pending_noteoff = NoNote]
          /\ UNCHANGED <<cursors_lock, setting, pc>> /\ setting.at = "idle"
      BY <1>6, <1>0 DEF CursorUp, QueueRegionMidiMsg, QueueAddEvent
    <2>2. /\ cursor' \in [CursorIds -> CursorRecords]
          /\ \A d \in CursorIds : d # c => cursor'[d] = cursor[d]
          /\ cursor'[c].state = "up"
      BY <2>1, <1>0 DEF CursorRecords
    <2> QED BY <2>1, <2>2 DEF CursorsOK, InClient, BeingSet
  <1>7. ASSUME UNCHANGED cursorvars,
               SendMidiMsg \/ AddQueueToScheduled \/ \E t \in Setters : RemoveFromQueue(t)
        PROVE  InClient'
    <2>1. CASE SendMidiMsg \/ AddQueueToScheduled
      BY <1>0, <1>7, <2>1 DEF SendMidiMsg, AddQueueToScheduled, InClient, cursorvars
    <2>2. ASSUME NEW t \in Setters, RemoveFromQueue(t)
          PROVE  InClient'
      BY <1>0, <1>7, <2>2 DEF RemoveFromQueue, GoTo, CallsFrom, Setters, InClient, cursorvars
    <2> QED BY <1>7, <2>1, <2>2
  <1> QED
    BY <1>0, <1>1, <1>2, <1>3, <1>4, <1>5, <1>6, <1>7, NotesNextCases DEF Quiet, Plays

-----------------------------------------------------------------------------
(* Clocks *)

\* While the cursor that is set waits for its note-on, or nothing is set, time may go on.
LEMMA TimeGoesOn ==
    ASSUME ClocksOK, currentclick \in Nat, currentclick' \in Nat,
           currentclick <= currentclick', UNCHANGED setting,
           CursorsOK, CursorsOK',
           \A c \in CursorIds : cursor'[c].noteon_click = cursor[c].noteon_click
    PROVE  ClocksOK'
  <1>1. \A q \in Quants : /\ quantizeToNext(currentclick, q) \in Nat
                          /\ quantizeToNext(currentclick', q) \in Nat
                          /\ quantizeToNext(currentclick, q) <= quantizeToNext(currentclick', q)
    BY QuantizeLater, NotesAssumption
  <1>2. \A c \in CursorIds : cursor[c].noteon_click \in Nat
    BY DEF CursorsOK, CursorRecords
  <1>3. setting.nowquant \in Nat /\ (setting.at # "idle" => setting.cursorid \in CursorIds)
    BY DEF CursorsOK, SettingRecords
  <1>4. ASSUME NEW c \in CursorIds, NEW q \in Quants
        PROVE  cursor'[c].noteon_click <= quantizeToNext(currentclick', q)
    <2>1. cursor[c].noteon_click <= quantizeToNext(currentclick, q)
      BY DEF ClocksOK
    <2> QED BY <1>1, <1>2, <2>1
  <1>5. ASSUME setting.at = "noteon"
        PROVE  /\ cursor'[setting.cursorid].noteon_click <= setting.nowquant
               /\ \A q \in Quants : setting.nowquant <= quantizeToNext(currentclick', q)
    <2>1. /\ cursor[setting.cursorid].noteon_click <= setting.nowquant
          /\ \A q \in Quants : setting.nowquant <= quantizeToNext(currentclick, q)
      BY <1>5 DEF ClocksOK
    <2>2. setting.cursorid \in CursorIds
      BY <1>3, <1>5
    <2>3. ASSUME NEW q \in Quants
          PROVE  setting.nowquant <= quantizeToNext(currentclick', q)
      <3>1. setting.nowquant <= quantizeToNext(currentclick, q)
        BY <2>1
      <3> QED BY <3>1, <1>1, <1>3
    <2> QED BY <2>1, <2>2, <2>3
  <1> QED BY <1>4, <1>5 DEF ClocksOK

\* Only a note-on changes noteon_click.
LEMMA NoteonClickKept ==
    ASSUME CursorsOK, NEW c \in CursorIds,
           \/ \E t \in Setters, pitch \in Notes, quant \in Quants :
                 CursorDown(t, c, pitch, quant) \/ CursorDrag(t, c, pitch, quant)
           \/ \E t \in Setters, quant \in Quants : CursorMove(t, c, quant)
           \/ CursorUp(c)
    PROVE  \A d \in CursorIds : cursor'[d].noteon_click = cursor[d].noteon_click
  <1>0. cursor \in [CursorIds -> CursorRecords]
    BY DEF CursorsOK
  <1> SUFFICES ASSUME NEW d \in CursorIds
               PROVE  cursor'[d].noteon_click = cursor[d].noteon_click
    OBVIOUS
  <1> DEFINE Same == cursor'[d].noteon_click = cursor[d].noteon_click
  <1>1. ASSUME NEW t \in Setters, NEW pitch \in Notes, NEW quant \in Quants,
               CursorDown(t, c, pitch, quant)
        PROVE  Same
    <2>1. cursor' = [cursor EXCEPT ![c].state = "down", ![c].pitch = pitch,
                                   ![c].quant = quant]
      BY <1>1 DEF CursorDown
    <2> QED BY <1>0, <2>1 DEF CursorRecords
  <1>2. ASSUME NEW t \in Setters, NEW pitch \in Notes, NEW quant \in Quants,
               CursorDrag(t, c, pitch, quant)
        PROVE  Same
    <2>1. cursor' = [cursor EXCEPT ![c].pitch = pitch, ![c].quant = quant]
      BY <1>2 DEF CursorDrag
    <2> QED BY <1>0, <2>1 DEF CursorRecords
  <1>3. ASSUME NEW t \in Setters, NEW quant \in Quants, CursorMove(t, c, quant)
        PROVE  Same
    <2>1. cursor' = [cursor EXCEPT ![c].quant = quant]
      BY <1>3 DEF CursorMove
    <2> QED BY <1>0, <2>1 DEF CursorRecords
  <1>4. ASSUME CursorUp(c)
        PROVE  Same
    <2>1. cursor' = [cursor EXCEPT ![c].state = "up", ![c].pending_noteoff = NoNote]
      BY <1>4 DEF CursorUp
    <2> QED BY <1>0, <2>1 DEF CursorRecords
  <1> QED BY <1>1, <1>2, <1>3, <1>4

\* With one quantum, every step keeps the last note-ons at or before the next quantum.
LEMMA ClocksStep ==
    ASSUME NotesTypeOK, CursorsOK, CursorsOK', ClocksOK, SingleQuant, ~ MidiMerge,
           [NotesNext]_allvars
    PROVE  ClocksOK'
  <1>0. /\ cursor \in [CursorIds -> CursorRecords] /\ setting \in SettingRecords
        /\ MaxClick \in Nat /\ currentclick \in Nat /\ currentclick <= currentclick
        /\ (setting.at = "idle") <=> (cursors_lock = NoThread)
    BY DataAssumption DEF CursorsOK, NotesTypeOK
  <1>1. CASE Quiet
    BY <1>1, <1>0, TimeGoesOn DEF Quiet, cursorvars
  <1>2. CASE /\ \/ Plays \/ SendMidiMsg \/ AddQueueToScheduled
                \/ \E t \in Setters : RemoveFromQueue(t)
             /\ UNCHANGED cursorvars
    <2>1. currentclick' = currentclick
      BY <1>2 DEF Plays, SendMidiMsg, AddQueueToScheduled, RemoveFromQueue
    <2> QED BY <1>2, <2>1, <1>0, TimeGoesOn DEF cursorvars
  <1>3. CASE RemoveQueued
    <2> DEFINE c == setting.cursorid
               k == quantizeToNext(currentclick, cursor[c].quant)
    <2>1. c \in CursorIds /\ cursor[c].quant \in Quants
      BY <1>3 DEF RemoveQueued, CursorsOK, BeingSet
    <2>2. \A q \in Quants : k = quantizeToNext(currentclick, q)
      BY <2>1 DEF SingleQuant
    <2>3. k \in Nat
      BY <2>1, <1>0, QuantizeLater, NotesAssumption
    <2>4. /\ setting' = [setting EXCEPT !.at = "noteon", !.nowquant = k]
          /\ UNCHANGED <<cursor, currentclick>>
      BY <1>3 DEF RemoveQueued, RemoveFromScheduled
    <2>5. setting'.cursorid = c /\ setting'.nowquant = k
      BY <2>4, <1>0 DEF SettingRecords
    <2> HIDE DEF c, k
    <2>6. \A q \in Quants : k <= quantizeToNext(currentclick, q)
      BY <2>2, <2>3
    <2>7. cursor[c].noteon_click <= k
      BY <2>1, <2>2 DEF ClocksOK
    <2> QED BY <2>4, <2>5, <2>6, <2>7 DEF ClocksOK
  <1>4. CASE QueueNoteon
    <2> DEFINE c == setting.cursorid
    <2>1. /\ cursor' = [cursor EXCEPT ![c].pending_noteoff = cursor[c].pitch,
                                      ![c].noteon_click = setting.nowquant]
          /\ setting.at = "noteon" /\ c \in CursorIds
      BY <1>4 DEF QueueNoteon, CursorsOK
    <2>2. setting'.at = "idle" /\ currentclick' = currentclick
      BY <1>4 DEF QueueNoteon, NotSetting, QueueRegionMidiMsg, QueueAddEvent
    <2>3. \A d \in CursorIds : cursor'[d].noteon_click \in {cursor[d].noteon_click, setting.nowquant}
      BY <2>1, <1>0 DEF CursorRecords
    <2> QED BY <2>1, <2>2, <2>3 DEF ClocksOK
  <1>5. ASSUME NEW c \in CursorIds,
               \/ \E t \in Setters, pitch \in Notes, quant \in Quants :
                     CursorDown(t, c, pitch, quant) \/ CursorDrag(t, c, pitch, quant)
               \/ \E t \in Setters, quant \in Quants : CursorMove(t, c, quant)
               \/ CursorUp(c)
        PROVE  ClocksOK'
    <2>1. setting.at = "idle" /\ setting'.at # "noteon"
      BY <1>5, <1>0 DEF CursorDown, CursorDrag, LockCursors, CursorMove, CursorUp,
                        SettingRecords
    <2>2. currentclick' = currentclick
      BY <1>5 DEF CursorDown, CursorDrag, CursorMove, CursorUp, vars,
                  QueueRegionMidiMsg, QueueAddEvent
    <2>3. \A d \in CursorIds : cursor'[d].noteon_click = cursor[d].noteon_click
      BY <1>5, NoteonClickKept
    <2> QED BY <2>1, <2>2, <2>3 DEF ClocksOK
  <1> QED
    BY <1>1, <1>2, <1>3, <1>4, <1>5, NotesNextCases DEF Plays

\* The last note-on of a cursor never gets earlier.
LEMMA NoteonClickGrows ==
    ASSUME NotesTypeOK, CursorsOK, ClocksOK, ~ MidiMerge, [NotesNext]_allvars
    PROVE  \A d \in CursorIds : cursor[d].noteon_click <= cursor'[d].noteon_click
  <1>0. /\ cursor \in [CursorIds -> CursorRecords]
        /\ \A d \in CursorIds : cursor[d].noteon_click \in Nat
    BY DEF CursorsOK, CursorRecords
  <1>1. CASE cursor' = cursor
    BY <1>0, <1>1
  <1>2. CASE QueueNoteon
    <2> DEFINE c == setting.cursorid
    <2>1. /\ cursor' = [cursor EXCEPT ![c].pending_noteoff = cursor[c].pitch,
                                      ![c].noteon_click = setting.nowquant]
          /\ setting.at = "noteon" /\ c \in CursorIds
      BY <1>2 DEF QueueNoteon, CursorsOK
    <2>2. cursor[c].noteon_click <= setting.nowquant
      BY <2>1 DEF ClocksOK
    <2>3. \A d \in CursorIds : d # c => cursor'[d] = cursor[d]
      BY <2>1, <1>0
    <2>4. cursor'[c].noteon_click = setting.nowquant
      BY <2>1, <1>0 DEF CursorRecords
    <2> QED BY <2>2, <2>3, <2>4, <1>0
  <1>3. ASSUME NEW c \in CursorIds,
               \/ \E t \in Setters, pitch \in Notes, quant \in Quants :
                     CursorDown(t, c, pitch, quant) \/ CursorDrag(t, c, pitch, quant)
               \/ \E t \in Setters, quant \in Quants : CursorMove(t, c, quant)
               \/ CursorUp(c)
        PROVE  \A d \in CursorIds : cursor[d].noteon_click <= cursor'[d].noteon_click
    <2>1. \A d \in CursorIds : cursor'[d].noteon_click = cursor[d].noteon_click
      BY <1>3, NoteonClickKept
    <2> QED BY <2>1, <1>0
  <1>4. cursor' = cursor \/ QueueNoteon \/ ~ (Quiet \/ Plays \/ UNCHANGED cursorvars \/ RemoveQueued)
    BY DEF Quiet, Plays, cursorvars, RemoveQueued
  <1> QED BY <1>1, <1>2, <1>3, <1>4, NotesNextCases

-----------------------------------------------------------------------------
(* Lists *)

\* Every step keeps the lists ordered, and their note-ons no later than the last one.
LEMMA ListsStep ==
    ASSUME NotesTypeOK, CursorsOK, ClocksOK, ListsOK, ~ MidiMerge, [NotesNext]_allvars
    PROVE  ListsOK'
  <1> DEFINE Fits(x) == IsOn(x) => x.click <= cursor'[x.cursorid].noteon_click
             All(s)  == \A x \in ToSet(s) : Fits(x)
  <1>0. /\ scheduled \in Seq(NoteEvents) /\ queue \in Seq(NoteEvents)
        /\ TimeOrdered(scheduled) /\ TimeOrdered(queue)
    BY DEF NotesTypeOK, ListsOK
  <1>1. ASSUME NEW s \in Seq(NoteEvents), OnsNotLater(s) PROVE All(s)
    <2> SUFFICES ASSUME NEW x \in ToSet(s), IsOn(x)
                 PROVE  x.click <= cursor'[x.cursorid].noteon_click
      OBVIOUS
    <2>1. x \in NoteEvents
      BY NoteListSets
    <2>2. x.click \in Nat /\ x.cursorid \in CursorIds
      BY <2>1, NoteEventFields
    <2>3. cursor[x.cursorid].noteon_click \in Nat
      BY <2>2 DEF CursorsOK, CursorRecords
    <2>4. x.click <= cursor[x.cursorid].noteon_click
      BY <1>1 DEF OnsNotLater
    <2>5. cursor[x.cursorid].noteon_click <= cursor'[x.cursorid].noteon_click
      BY <2>2, NoteonClickGrows
    <2>6. cursor'[x.cursorid].noteon_click \in Nat
      <3>1. CursorsOK'
        BY CursorsStep
      <3> QED BY <3>1, <2>2 DEF CursorsOK, CursorRecords
    <2> QED BY <2>2, <2>3, <2>4, <2>5, <2>6
  <1>2. All(scheduled) /\ All(queue)
    BY <1>0, <1>1 DEF ListsOK
  <1>3. ASSUME TimeOrdered(scheduled'), TimeOrdered(queue'), All(scheduled'), All(queue')
        PROVE  ListsOK'
    BY <1>3 DEF ListsOK, OnsNotLater
  <1> HIDE DEF Fits
  <1>4. CASE UNCHANGED <<scheduled, queue>>
    BY <1>0, <1>2, <1>3, <1>4
  <1>5. CASE Plays
    <2>1. /\ TimeOrdered(Tail(scheduled)) /\ ToSet(Tail(scheduled)) \subseteq ToSet(scheduled)
      BY <1>0, <1>5, NoteListsOrdered, NoteListSets DEF Plays
    <2>2. scheduled' = Tail(scheduled) /\ queue' = queue
      BY <1>5 DEF Plays
    <2> QED BY <1>0, <1>2, <1>3, <2>1, <2>2
  <1>6. CASE SendMidiMsg
    BY <1>4, <1>6 DEF SendMidiMsg, Requeue, NotesTypeOK
  <1>7. CASE AddQueueToScheduled
    <2>1. /\ queue # <<>>
          /\ scheduled' = InsertEvent(scheduled, Head(queue)) /\ queue' = Tail(queue)
      BY <1>7 DEF AddQueueToScheduled
    <2>2. Head(queue) \in NoteEvents
      BY <2>1, <1>0, NoteListTypes
    <2>3. TimeOrdered(scheduled') /\ TimeOrdered(queue')
      BY <2>1, <2>2, <1>0, NoteListsOrdered
    <2>4. /\ ToSet(scheduled') = ToSet(scheduled) \cup {Head(queue)}
          /\ ToSet(queue) = {Head(queue)} \cup ToSet(queue')
      BY <2>1, <2>2, <1>0, NoteListSets
    <2> QED BY <2>3, <2>4, <1>2, <1>3
  <1>8. CASE (\E t \in Setters : RemoveFromQueue(t)) \/ RemoveQueued
    <2>1. \/ scheduled' = scheduled /\ \E c, clk : queue' = DeleteAllBefore(queue, c, clk)
          \/ queue' = queue /\ \E c, clk : scheduled' = DeleteAllBefore(scheduled, c, clk)
      BY <1>8 DEF RemoveFromQueue, RemoveQueued, RemoveFromScheduled
    <2>2. TimeOrdered(scheduled') /\ TimeOrdered(queue')
      BY <2>1, <1>0, NoteListsOrdered
    <2>3. ToSet(scheduled') \subseteq ToSet(scheduled) /\ ToSet(queue') \subseteq ToSet(queue)
      BY <2>1, <1>0, NoteListSets
    <2> QED BY <2>2, <2>3, <1>2, <1>3
  <1>9. ASSUME NEW e \in NoteEvents, Sends(e), Fits(e)
        PROVE  ListsOK'
    <2>1. queue' = InsertEvent(queue, e) /\ scheduled' = scheduled
      BY <1>9 DEF Sends
    <2>2. TimeOrdered(queue') /\ ToSet(queue') = ToSet(queue) \cup {e}
      BY <2>1, <1>0, NoteListsOrdered, NoteListSets
    <2> QED BY <2>1, <2>2, <1>0, <1>2, <1>3, <1>9
  <1>10. CASE QueueNoteon
    <2>1. PICK e \in NoteEvents : /\ e.cursorid = setting.cursorid /\ e.click = setting.nowquant
                                  /\ Sends(e)
      BY <1>10, SendsOn
    <2>2. /\ cursor' = [cursor EXCEPT ![setting.cursorid].pending_noteoff = cursor[setting.cursorid].pitch,
                                      ![setting.cursorid].noteon_click = setting.nowquant]
          /\ setting.cursorid \in CursorIds /\ setting.nowquant \in Nat
      BY <1>10 DEF QueueNoteon, CursorsOK, SettingRecords
    <2>3. cursor'[setting.cursorid].noteon_click = setting.nowquant
      BY <2>2 DEF CursorsOK, CursorRecords
    <2>4. Fits(e)
      BY <2>1, <2>2, <2>3 DEF Fits
    <2> QED BY <2>1, <2>4, <1>9
  <1>11. ASSUME NEW c \in CursorIds,
                \/ \E t \in Setters, pitch \in Notes, quant \in Quants :
                      CursorDrag(t, c, pitch, quant)
                \/ CursorUp(c)
         PROVE  ListsOK'
    <2>1. PICK e \in NoteEvents : IsOff(e) /\ Sends(e)
      BY <1>11, SendsOff
    <2>2. Fits(e)
      BY <2>1, NoteEventFields DEF Fits
    <2> QED BY <2>1, <2>2, <1>9
  <1>12. ASSUME NEW t \in Setters, NEW c \in CursorIds,
               NEW pitch \in Notes, NEW quant \in Quants,
                CursorDown(t, c, pitch, quant)
         PROVE  UNCHANGED <<scheduled, queue>>
    BY <1>12 DEF CursorDown, vars, lists
  <1>13. ASSUME NEW t \in Setters, NEW c \in CursorIds, NEW quant \in Quants,
               CursorMove(t, c, quant)
         PROVE  UNCHANGED <<scheduled, queue>>
    BY <1>13 DEF CursorMove, vars, lists
  <1> QED
    BY <1>4, <1>5, <1>6, <1>7, <1>8, <1>10, <1>11, <1>12, <1>13, NotesNextCases DEF Quiet
-----------------------------------------------------------------------------
(* Note-offs *)

\* With more note-offs to come and more notes held, the notes still end.
LEMMA EndsInGrows ==
    ASSUME NEW Y, NEW H, NEW Y2, NEW H2, H \subseteq H2,
           \A y \in Y : IsOff(y) => y \in Y2
    PROVE  /\ \A x : Followed(x, Y, H) => Followed(x, Y2, H2)
           /\ \A n : EndsIn(n, Y, H) => EndsIn(n, Y2, H2)
  BY DEF Followed, Ends, EndsIn

\* As long as note-offs stay in the lists and notes are held on to, and no note starts.
LEMMA EndsKept ==
    ASSUME NotesEndInv, Held \subseteq Held',
           OnsEnd(queue', {}, Held), queue' \in Seq(NoteEvents),
           OnsEnd(scheduled', ToSet(queue), Held), scheduled' \in Seq(NoteEvents),
           \A y \in ToSet(queue) : IsOff(y) => y \in ToSet(queue'),
           \A y \in ToSet(scheduled) : IsOff(y) => y \in ToSet(scheduled'),
           playing' = playing, sounding' \subseteq sounding
    PROVE  NotesEndInv'
  <1>1. OnsEnd(queue', {}, Held')
    BY OnsEndLater, EndsInGrows
  <1>2. OnsEnd(scheduled', ToSet(queue'), Held')
    <2>1. \A x : Followed(x, ToSet(queue), Held) => Followed(x, ToSet(queue'), Held')
      BY EndsInGrows
    <2> QED BY <2>1, OnsEndLater
  <1>3. \A n : EndsIn(n, ToSet(scheduled) \cup ToSet(queue), Held) =>
                 EndsIn(n, ToSet(scheduled') \cup ToSet(queue'), Held')
    BY EndsInGrows
  <1> QED BY <1>1, <1>2, <1>3 DEF NotesEndInv

\* A cursor lets its note go and sends the note-off, behind its note-ons.
LEMMA EndsSent ==
    ASSUME NotesTypeOK, CursorsOK, ListsOK, NotesEndInv,
           NEW c \in CursorIds, NEW e \in NoteEvents,
           Held \subseteq Held' \cup {<<c, NoteOf(e)>>},
           e.cursorid = c, IsOff(e), cursor[c].noteon_click <= e.click, Sends(e)
    PROVE  NotesEndInv'
  <1>1. /\ queue \in Seq(NoteEvents) /\ scheduled \in Seq(NoteEvents)
        /\ TimeOrdered(queue)
        /\ queue' = InsertEvent(queue, e)
        /\ UNCHANGED <<scheduled, playing, sounding>>
    BY DEF NotesTypeOK, ListsOK, Sends
  <1>2. ToSet(queue') = ToSet(queue) \cup {e}
    BY <1>1, NoteListSets
  <1>3. ASSUME NEW x \in ToSet(queue) \cup ToSet(scheduled), IsOn(x),
               <<x.cursorid, NoteOf(x)>> \in Held
        PROVE  <<x.cursorid, NoteOf(x)>> \in Held' \/ Ends(e, x)
    <2>1. x.cursorid \in CursorIds /\ x.click \in Nat /\ e.click \in Nat
      BY <1>1, NoteListSets, NoteEventFields
    <2>2. x.click <= cursor[x.cursorid].noteon_click
      BY <1>3 DEF ListsOK, OnsNotLater
    <2>3. cursor[c].noteon_click \in Nat
      BY DEF CursorsOK, CursorRecords
    <2>4. CASE <<x.cursorid, NoteOf(x)>> = <<c, NoteOf(e)>>
      <3>1. x.cursorid = c /\ NoteOf(x) = NoteOf(e)
        BY <2>4
      <3>2. x.click <= e.click
        BY <3>1, <2>1, <2>2, <2>3
      <3> QED BY <3>1, <3>2 DEF Ends
    <2> QED BY <1>3, <2>4
  <1>4. OnsEnd(queue', {}, Held')
    <2>1. \A x \in ToSet(queue) :
             IsOn(x) /\ Followed(x, {}, Held) => Followed(x, {}, Held') \/ Ends(e, x)
      BY <1>3 DEF Followed
    <2>2. ~ IsOn(e)
      BY NoteEventFields
    <2>3. OnsEnd(queue, {}, Held)
      BY DEF NotesEndInv
    <2>4. OnsEnd(InsertEvent(queue, e), {}, Held')
      BY <1>1, <2>1, <2>2, <2>3, OnsEndInsert
    <2> QED BY <1>1, <2>4
  <1>5. OnsEnd(scheduled', ToSet(queue'), Held')
    <2>1. \A x \in ToSet(scheduled) :
             IsOn(x) /\ Followed(x, ToSet(queue), Held) => Followed(x, ToSet(queue'), Held')
      BY <1>2, <1>3 DEF Followed
    <2>2. OnsEnd(scheduled, ToSet(queue), Held)
      BY DEF NotesEndInv
    <2>3. OnsEnd(scheduled, ToSet(queue'), Held')
      BY <1>1, <2>1, <2>2, OnsEndLater
    <2> QED BY <1>1, <2>3
  <1>6. \A n : EndsIn(n, ToSet(scheduled) \cup ToSet(queue), Held) =>
                 EndsIn(n, ToSet(scheduled') \cup ToSet(queue'), Held')
    <2> SUFFICES ASSUME NEW n, EndsIn(n, ToSet(scheduled) \cup ToSet(queue), Held)
                 PROVE  EndsIn(n, ToSet(scheduled') \cup ToSet(queue'), Held')
      OBVIOUS
    <2>1. CASE \E h \in Held : h[2] = n
      BY <1>2, <2>1 DEF EndsIn
    <2>2. CASE \E y \in ToSet(scheduled) \cup ToSet(queue) : IsOff(y) /\ NoteOf(y) = n
      BY <1>1, <1>2, <2>2 DEF EndsIn
    <2> QED BY <2>1, <2>2 DEF EndsIn
  <1> QED BY <1>1, <1>4, <1>5, <1>6 DEF NotesEndInv

\* The note-on of a cursor is sent when the cursor holds its note.
LEMMA EndsOn ==
    ASSUME NotesTypeOK, CursorsOK, ListsOK, NotesEndInv, QueueNoteon
    PROVE  NotesEndInv'
  <1> DEFINE c == setting.cursorid
  <1>1. PICK e \in NoteEvents : /\ e.cursorid = c /\ NoteOf(e) = cursor[c].pitch
                                /\ Sends(e)
    BY SendsOn
  <1>2. /\ queue \in Seq(NoteEvents) /\ scheduled \in Seq(NoteEvents)
        /\ TimeOrdered(queue)
        /\ queue' = InsertEvent(queue, e)
        /\ UNCHANGED <<scheduled, playing, sounding>>
    BY <1>1 DEF NotesTypeOK, ListsOK, Sends
  <1>3. Held \subseteq Held'
    BY HeldKept
  <1>4. <<c, NoteOf(e)>> \in Held'
    <2>1. /\ cursor' = [cursor EXCEPT ![c].pending_noteoff = cursor[c].pitch,
                                      ![c].noteon_click = setting.nowquant]
          /\ c \in CursorIds /\ cursor[c].state = "down"
          /\ cursor \in [CursorIds -> CursorRecords]
      BY DEF QueueNoteon, CursorsOK, BeingSet
    <2>2. cursor'[c].state = "down" /\ cursor'[c].pending_noteoff = NoteOf(e)
      BY <2>1, <1>1 DEF CursorRecords
    <2>3. setting'.at = "idle"
      BY DEF QueueNoteon, NotSetting
    <2>4. NoteOf(e) \in Notes
      BY NoteEventFields
    <2> QED BY <2>1, <2>2, <2>3, <2>4 DEF Held, Holds
  <1>5. queue' \in Seq(NoteEvents) /\ ToSet(queue') = ToSet(queue) \cup {e}
    BY <1>2, NoteListTypes, NoteListSets
  <1>6. OnsEnd(queue', {}, Held')
    <2>1. \A x : Followed(x, {}, Held) => Followed(x, {}, Held')
      BY <1>3, EndsInGrows
    <2>2. Followed(e, {}, Held')
      BY <1>1, <1>4 DEF Followed
    <2>3. OnsEnd(queue, {}, Held)
      BY DEF NotesEndInv
    <2>4. OnsEnd(InsertEvent(queue, e), {}, Held')
      BY <1>2, <2>1, <2>2, <2>3, OnsEndInsert
    <2> QED BY <1>2, <2>4
  <1>7. OnsEnd(scheduled', ToSet(queue'), Held')
    <2>1. \A x : Followed(x, ToSet(queue), Held) => Followed(x, ToSet(queue'), Held')
      BY <1>3, <1>5, EndsInGrows
    <2>2. OnsEnd(scheduled, ToSet(queue), Held)
      BY DEF NotesEndInv
    <2>3. OnsEnd(scheduled, ToSet(queue'), Held')
      BY <1>2, <2>1, <2>2, OnsEndLater
    <2> QED BY <1>2, <2>3
  <1>8. \A n : EndsIn(n, ToSet(scheduled) \cup ToSet(queue), Held) =>
                 EndsIn(n, ToSet(scheduled') \cup ToSet(queue'), Held')
    BY <1>2, <1>3, <1>5, EndsInGrows
  <1> QED BY <1>2, <1>6, <1>7, <1>8 DEF NotesEndInv

\* The event at the head of the queue gets in front of its note-off, or behind its note-on.
LEMMA EndsMoved ==
    ASSUME NotesTypeOK, ListsOK, NotesEndInv, AddQueueToScheduled, UNCHANGED cursorvars
    PROVE  NotesEndInv'
  <1> DEFINE e == Head(queue)
  <1>1. /\ queue \in Seq(NoteEvents) /\ scheduled \in Seq(NoteEvents)
        /\ TimeOrdered(scheduled) /\ queue # <<>>
        /\ scheduled' = InsertEvent(scheduled, e) /\ queue' = Tail(queue)
        /\ UNCHANGED <<playing, sounding>>
    BY DEF NotesTypeOK, ListsOK, AddQueueToScheduled, doing, midi
  <1>2. /\ e \in NoteEvents /\ queue' \in Seq(NoteEvents)
        /\ ToSet(queue) = {e} \cup ToSet(queue')
    BY <1>1, NoteListTypes, NoteListSets
  <1>3. ToSet(scheduled') = ToSet(scheduled) \cup {e}
    BY <1>1, <1>2, NoteListSets
  <1>4. Held' = Held
    BY DEF Held, Holds, cursorvars
  <1>5. /\ OnsEnd(queue, {}, Held)
        /\ OnsEnd(scheduled, ToSet(queue), Held)
    BY DEF NotesEndInv
  <1>6. /\ OnsEnd(queue', {}, Held)
        /\ IsOn(e) => Followed(e, {}, Held) \/ \E y \in ToSet(queue') : Ends(y, e)
    BY <1>1, <1>5, OnsEndTail
  <1>7. OnsEnd(scheduled', ToSet(queue'), Held)
    <2>1. IsOn(e) => Followed(e, ToSet(queue'), Held)
      BY <1>6 DEF Followed
    <2>2. \A x : Followed(x, ToSet(queue), Held) =>
                   Followed(x, ToSet(queue'), Held) \/ Ends(e, x)
      BY <1>2 DEF Followed
    <2> HIDE DEF e
    <2>3. OnsEnd(InsertEvent(scheduled, e), ToSet(queue'), Held)
      BY <1>1, <1>2, <1>5, <2>1, <2>2, OnsEndInsert
    <2> QED BY <1>1, <2>3
  <1>8. ToSet(scheduled) \cup ToSet(queue) = ToSet(scheduled') \cup ToSet(queue')
    BY <1>2, <1>3
  <1> QED BY <1>1, <1>4, <1>6, <1>7, <1>8 DEF NotesEndInv

\* What is played has its note-off still to come; a note-off is played, and not lost.
LEMMA EndsPlayed ==
    ASSUME NotesTypeOK, NotesEndInv, Plays
    PROVE  NotesEndInv'
  <1> DEFINE e == Head(scheduled)
  <1>1. /\ queue \in Seq(NoteEvents) /\ scheduled \in Seq(NoteEvents) /\ scheduled # <<>>
        /\ scheduled' = Tail(scheduled) /\ queue' = queue /\ sounding' = sounding
        /\ playing = <<>> /\ playing' = e.units
    BY DEF NotesTypeOK, Plays
  <1>2. /\ e \in NoteEvents /\ scheduled' \in Seq(NoteEvents)
        /\ ToSet(scheduled) = {e} \cup ToSet(scheduled')
    BY <1>1, NoteListTypes, NoteListSets
  <1>3. Held' = Held
    BY DEF Plays, Held, Holds, cursorvars
  <1>4. /\ OnsEnd(scheduled', ToSet(queue), Held)
        /\ IsOn(e) => \/ Followed(e, ToSet(queue), Held)
                      \/ \E y \in ToSet(scheduled') : Ends(y, e)
    <2>1. OnsEnd(scheduled, ToSet(queue), Held)
      BY DEF NotesEndInv
    <2> QED BY <1>1, <2>1, OnsEndTail
  <1>5. ToSet(playing) = {} /\ ToSet(playing') = {e.units[1]}
    <2>1. e.units = <<e.units[1]>>
      BY <1>2, NoteEventFields
    <2> DEFINE u == e.units[1]
    <2>2. playing' = <<u>>
      BY <1>1, <2>1
    <2> HIDE DEF u
    <2>3. ToSet(playing') = {u}
      BY <2>2 DEF ToSet
    <2>4. ToSet(playing) = {}
      BY <1>1 DEF ToSet
    <2> QED BY <2>3, <2>4 DEF u
  <1>6. IsOn(e) => EndsIn(NoteOf(e), ToSet(scheduled') \cup ToSet(queue'), Held)
    <2> HIDE DEF e
    <2> SUFFICES ASSUME IsOn(e)
                 PROVE  EndsIn(NoteOf(e), ToSet(scheduled') \cup ToSet(queue'), Held)
      OBVIOUS
    <2>1. CASE <<e.cursorid, NoteOf(e)>> \in Held
      <3>1. <<e.cursorid, NoteOf(e)>>[2] = NoteOf(e)
        OBVIOUS
      <3> QED BY <2>1, <3>1 DEF EndsIn
    <2>2. CASE \E y \in ToSet(scheduled') \cup ToSet(queue) : Ends(y, e)
      BY <1>1, <2>2 DEF EndsIn, Ends
    <2> QED BY <1>4, <2>1, <2>2 DEF Followed
  <1>7. ASSUME NEW n \in sounding
        PROVE  \/ EndsIn(n, ToSet(scheduled') \cup ToSet(queue'), Held)
               \/ IsOff(e) /\ NoteOf(e) = n
    <2> HIDE DEF e
    <2>1. EndsIn(n, ToSet(scheduled) \cup ToSet(queue), Held)
      BY <1>5, <1>7 DEF NotesEndInv
    <2> QED BY <2>1, <1>1, <1>2 DEF EndsIn
  <1>8. OnsEnd(queue', {}, Held)
    BY <1>1 DEF NotesEndInv
  <1> HIDE DEF e
  <1> QED BY <1>1, <1>3, <1>4, <1>5, <1>6, <1>7, <1>8
          DEF NotesEndInv, IsOn, IsOff, NoteOf

\* A note that starts is going to end; a note-off ends a note.
LEMMA EndsHeard ==
    ASSUME NotesTypeOK, NotesEndInv, SendMidiMsg, UNCHANGED cursorvars
    PROVE  NotesEndInv'
  <1>1. PICK u \in NoteUnits : playing = <<u>>
    BY DEF NotesTypeOK, SendMidiMsg
  <1>2. /\ queue' = queue /\ scheduled' = scheduled /\ playing' = <<>>
        /\ sounding' = After(sounding, u)
    BY <1>1 DEF NotesTypeOK, SendMidiMsg, Requeue
  <1>3. ToSet(playing) = {u} /\ ToSet(playing') = {}
    BY <1>1, <1>2 DEF ToSet
  <1>4. Held' = Held
    BY DEF Held, Holds, cursorvars
  <1>5. ASSUME NEW n \in sounding'
        PROVE  EndsIn(n, ToSet(scheduled) \cup ToSet(queue), Held)
    <2>1. CASE u.kind = "on"
      <3>1. sounding' = sounding \cup {u.note}
        <4>1. IsNoteOn(u) /\ ~ IsNoteOff(u)
          BY <2>1 DEF NoteUnits, Units, IsNoteOn, IsNoteOff
        <4> QED BY <1>2, <4>1 DEF After
      <3>2. EndsIn(u.note, ToSet(scheduled) \cup ToSet(queue), Held)
        BY <1>3, <2>1 DEF NotesEndInv
      <3> QED BY <1>3, <1>5, <2>1, <3>1, <3>2 DEF NotesEndInv
    <2>2. CASE u.kind = "off"
      <3>1. sounding' = sounding \ {u.note}
        BY <1>2, <2>2 DEF After, IsNoteOn, IsNoteOff
      <3> QED BY <1>3, <1>5, <2>2, <3>1 DEF NotesEndInv
    <2> QED BY <2>1, <2>2 DEF NoteUnits
  <1> QED BY <1>2, <1>3, <1>4, <1>5 DEF NotesEndInv

\* Every step keeps a note-off to come for what is queued, played or sounds.
LEMMA NotesEndStep ==
    ASSUME NotesTypeOK, CursorsOK, ClocksOK, ListsOK, NotesEndInv, ~ MidiMerge,
           [NotesNext]_allvars
    PROVE  NotesEndInv'
  <1>0. /\ queue \in Seq(NoteEvents) /\ scheduled \in Seq(NoteEvents)
        /\ OnsEnd(queue, {}, Held) /\ OnsEnd(scheduled, ToSet(queue), Held)
    BY DEF NotesTypeOK, NotesEndInv
  <1>1. ASSUME UNCHANGED <<scheduled, queue, playing>>, sounding' \subseteq sounding,
               Held \subseteq Held'
        PROVE  NotesEndInv'
    BY <1>0, <1>1, EndsKept
  <1>2. CASE Quiet
    BY <1>1, <1>2, HeldKept DEF Quiet
  <1>3. ASSUME NEW t \in Setters, NEW c \in CursorIds,
               NEW pitch \in Notes, NEW quant \in Quants,
               CursorDown(t, c, pitch, quant)
        PROVE  NotesEndInv'
    <2>1. UNCHANGED <<scheduled, queue, playing, sounding>>
      BY <1>3 DEF CursorDown, vars, lists, doing, midi
    <2> QED BY <1>1, <1>3, <2>1, HeldKept
  <1>4. ASSUME NEW t \in Setters, NEW c \in CursorIds, NEW quant \in Quants,
               CursorMove(t, c, quant)
        PROVE  NotesEndInv'
    <2>1. UNCHANGED <<scheduled, queue, playing, sounding>>
      BY <1>4 DEF CursorMove, vars, lists, doing, midi
    <2> QED BY <1>1, <1>4, <2>1, HeldKept
  <1>5. CASE \/ RemoveQueued
             \/ \E t \in Setters : RemoveFromQueue(t) /\ UNCHANGED cursorvars
    <2>1. Held \subseteq Held'
      BY <1>5, HeldKept
    <2>2. /\ \/ scheduled' = scheduled /\ \E c, clk : queue' = DeleteAllBefore(queue, c, clk)
             \/ queue' = queue /\ \E c, clk : scheduled' = DeleteAllBefore(scheduled, c, clk)
          /\ UNCHANGED <<playing, sounding>>
      BY <1>5 DEF RemoveFromQueue, RemoveQueued, RemoveFromScheduled, doing, midi
    <2>3. queue' \in Seq(NoteEvents) /\ OnsEnd(queue', {}, Held)
      BY <2>2, <1>0, NoteListTypes, OnsEndDelete
    <2>4. scheduled' \in Seq(NoteEvents) /\ OnsEnd(scheduled', ToSet(queue), Held)
      BY <2>2, <1>0, NoteListTypes, OnsEndDelete
    <2>5. /\ \A y \in ToSet(queue) : IsOff(y) => y \in ToSet(queue')
          /\ \A y \in ToSet(scheduled) : IsOff(y) => y \in ToSet(scheduled')
      BY <2>2, <1>0, OffsAreSpared
    <2> QED BY <2>1, <2>2, <2>3, <2>4, <2>5, EndsKept
  <1>6. ASSUME NEW c \in CursorIds,
               \/ \E t \in Setters, pitch \in Notes, quant \in Quants :
                     CursorDrag(t, c, pitch, quant)
               \/ CursorUp(c)
        PROVE  NotesEndInv'
    <2>1. PICK e \in NoteEvents : /\ e.cursorid = c /\ cursor[c].noteon_click <= e.click
                                  /\ NoteOf(e) = cursor[c].pending_noteoff
                                  /\ IsOff(e)
                                  /\ Sends(e)
      BY <1>6, SendsOff
    <2>2. Held \subseteq Held' \cup {<<c, NoteOf(e)>>}
      BY <1>6, <2>1, HeldLetGo
    <2> QED BY <2>1, <2>2, EndsSent
  <1>7. CASE Plays
    BY <1>7, EndsPlayed
  <1>8. CASE SendMidiMsg /\ UNCHANGED cursorvars
    BY <1>8, EndsHeard
  <1>9. CASE AddQueueToScheduled /\ UNCHANGED cursorvars
    BY <1>9, EndsMoved
  <1>10. CASE QueueNoteon
    BY <1>10, EndsOn
  <1> QED
    BY <1>2, <1>3, <1>4, <1>5, <1>6, <1>7, <1>8, <1>9, <1>10, NotesNextCases

-----------------------------------------------------------------------------
(* The theorem *)

\* The invariant holds at the start,
LEMMA NotesInvInit == NotesInit => NotesInv
  <1> SUFFICES ASSUME NotesInit PROVE NotesInv
    OBVIOUS
  <1>1. /\ scheduled = <<>> /\ queue = <<>> /\ playing = <<>> /\ hand = <<>>
        /\ currentclick = 0 /\ sounding = {} /\ pc = [t \in Threads |-> "idle"]
        /\ cursor = [c \in CursorIds |-> NewCursor]
        /\ cursors_lock = NoThread /\ setting = NotSetting
    BY DEF NotesInit, Init
  <1>2. <<>> \in Seq(NoteEvents) /\ ToSet(<<>>) = {} /\ Len(<<>>) = 0 /\ TimeOrdered(<<>>)
    BY DEF ToSet, TimeOrdered
  <1>3. NotesTypeOK
    BY <1>1, <1>2, DataAssumption DEF NotesTypeOK, CallbackLabels, Threads
  <1>4. NewCursor \in CursorRecords /\ NewCursor.state = "new" /\ NewCursor.noteon_click = 0
    BY DEF NewCursor, CursorRecords
  <1>5. NotSetting \in SettingRecords /\ NotSetting.at = "idle"
    BY DEF NotSetting, SettingRecords
  <1>6. CursorsOK
    <2>1. cursors_lock # Callback
      BY <1>1, ThreadsAssumption DEF Threads
    <2> QED BY <1>1, <1>4, <1>5, <2>1 DEF CursorsOK, InClient, BeingSet
  <1>7. ClocksOK
    <2>1. \A q \in Quants : quantizeToNext(0, q) \in Nat
      BY QuantizeLater, NotesAssumption
    <2> QED BY <1>1, <1>4, <1>5, <2>1 DEF ClocksOK
  <1>8. ListsOK
    BY <1>1, <1>2 DEF ListsOK, OnsNotLater
  <1>9. NotesEndInv
    BY <1>1, <1>2 DEF NotesEndInv, OnsEnd
  <1> QED BY <1>3, <1>6, <1>7, <1>8, <1>9 DEF NotesInv

\* and every step keeps it.
LEMMA NotesInvStep ==
    ASSUME SingleQuant, ~ MidiMerge, NotesInv, [NotesNext]_allvars
    PROVE  NotesInv'
  <1> USE DEF NotesInv
  <1>1. NotesTypeOK'
    BY NotesTypeStep
  <1>2. CursorsOK'
    BY CursorsStep
  <1>3. ClocksOK'
    BY <1>2, ClocksStep
  <1>4. ListsOK'
    BY ListsStep
  <1>5. NotesEndInv'
    BY NotesEndStep
  <1> QED BY <1>1, <1>2, <1>3, <1>4, <1>5

\* With one quantum, and without merged input, there is silence when no cursor is down
\* and all that was queued is played, for any number of cursors, pitches and events, any
\* order of cursors, drags and ups, and any time at which the callback gets its lock.
\* That two quanta break this is what run notes_two_quants shows.
THEOREM NoNoteIsStuck ==
    ASSUME SingleQuant, ~ MidiMerge
    PROVE  NotesSpec => []NoStuckNote
  <1>1. NotesInv => NoStuckNote
    <2> SUFFICES ASSUME NotesInv, NothingPending,
                        \A c \in CursorIds : cursor[c].state # "down",
                        NEW n \in sounding
                 PROVE  FALSE
      BY DEF NoStuckNote
    <2>1. ToSet(scheduled) = {} /\ ToSet(queue) = {} /\ ToSet(playing) = {}
      BY DEF NothingPending, ToSet
    <2>2. Held = {}
      BY DEF Held, Holds
    <2> QED BY <2>1, <2>2 DEF NotesInv, NotesEndInv, EndsIn
  <1>2. NotesInv /\ [NotesNext]_allvars => NotesInv'
    BY NotesInvStep
  <1> QED BY <1>1, <1>2, NotesInvInit, PTL DEF NotesSpec
=============================================================================
