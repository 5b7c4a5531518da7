---------------------------- MODULE CursorsProofs ----------------------------
(***************************************************************************)
(* Theorems about Cursors: its types, the notes and the cursors a brush    *)
(* follows, and that it implements CursorLife, for any number of sessions, *)
(* brushes and cursors.                                                    *)
(***************************************************************************)
EXTENDS Cursors, EventListProofs

-----------------------------------------------------------------------------
(* The list of cursors *)

\* A new cursor is added at the end, and nothing else changes.
LEMMA AppendCursor ==
    ASSUME NEW S, NEW s \in Seq(S), IsInjective(s), NEW c \in S, c \notin ToSet(s)
    PROVE  /\ Append(s, c) \in Seq(S)
           /\ IsInjective(Append(s, c))
           /\ ToSet(Append(s, c)) = ToSet(s) \cup {c}
  <1> DEFINE t == Append(s, c)
  <1>1. /\ t \in Seq(S) /\ Len(t) = Len(s) + 1
        /\ \A i \in 1 .. Len(t) : t[i] = IF i = Len(t) THEN c ELSE s[i]
    BY AppendProperties
  <1>2. /\ Len(s) \in Nat
        /\ DOMAIN s = 1 .. Len(s) /\ DOMAIN t = 1 .. Len(t)
        /\ ToSet(s) = {s[i] : i \in 1 .. Len(s)}
        /\ ToSet(t) = {t[i] : i \in 1 .. Len(t)}
    BY <1>1, ToSetOfSeq
  <1> HIDE DEF t
  <1>3. ToSet(t) = ToSet(s) \cup {c}
    BY <1>1, <1>2
  <1>4. IsInjective(t)
    BY <1>1, <1>2 DEF IsInjective
  <1> QED BY <1>1, <1>3, <1>4 DEF t

\* Erasing a position takes that cursor away, and no other.
LEMMA EraseCursor ==
    ASSUME NEW S, NEW s \in Seq(S), IsInjective(s), NEW p \in 1 .. Len(s)
    PROVE  /\ RemoveAt(s, p) \in Seq(S)
           /\ IsInjective(RemoveAt(s, p))
           /\ ToSet(RemoveAt(s, p)) = ToSet(s) \ {s[p]}
  <1> DEFINE a == SubSeq(s, 1, p - 1)
             b == SubSeq(s, p + 1, Len(s))
             t == a \o b
  <1>1. /\ a \in Seq(S) /\ Len(a) = p - 1
        /\ \A i \in 1 .. p - 1 : a[i] = s[i]
    BY SubSeqProperties
  <1>2. /\ b \in Seq(S) /\ Len(b) = Len(s) - p
        /\ \A i \in 1 .. Len(s) - p : b[i] = s[p + i]
    BY SubSeqProperties
  <1> HIDE DEF a, b
  <1>3. /\ t \in Seq(S) /\ Len(t) = Len(s) - 1
        /\ \A i \in 1 .. Len(s) - 1 : t[i] = IF i < p THEN a[i] ELSE b[i - (p - 1)]
    BY <1>1, <1>2, ConcatProperties
  <1>4. /\ Len(s) \in Nat
        /\ DOMAIN s = 1 .. Len(s) /\ DOMAIN t = 1 .. Len(t)
        /\ ToSet(s) = {s[i] : i \in 1 .. Len(s)}
        /\ ToSet(t) = {t[i] : i \in 1 .. Len(t)}
    BY <1>3, ToSetOfSeq
  <1> HIDE DEF t
  <1>5. \A i \in 1 .. Len(s) - 1 : t[i] = IF i < p THEN s[i] ELSE s[i + 1]
    <2> SUFFICES ASSUME NEW i \in 1 .. Len(s) - 1
                 PROVE  t[i] = IF i < p THEN s[i] ELSE s[i + 1]
      OBVIOUS
    <2>1. CASE i < p
      BY <2>1, <1>1, <1>3, <1>4
    <2>2. CASE i >= p
      <3>1. i - (p - 1) \in 1 .. Len(s) - p /\ p + (i - (p - 1)) = i + 1
        BY <2>2, <1>4
      <3> QED BY <3>1, <2>2, <1>2, <1>3
    <2> QED BY <2>1, <2>2, <1>4
  <1>6. \A i, j \in 1 .. Len(s) : s[i] = s[j] => i = j
    BY <1>4 DEF IsInjective
  <1>7. IsInjective(t)
    BY <1>3, <1>4, <1>5, <1>6 DEF IsInjective
  <1>8. ASSUME NEW x \in ToSet(t) PROVE x \in ToSet(s) \ {s[p]}
    <2>1. PICK i \in 1 .. Len(s) - 1 : x = t[i]
      BY <1>3, <1>4
    <2>2. CASE i < p
      BY <2>1, <2>2, <1>4, <1>5, <1>6
    <2>3. CASE i >= p
      BY <2>1, <2>3, <1>4, <1>5, <1>6
    <2> QED BY <2>1, <2>2, <2>3, <1>4
  <1>9. ASSUME NEW x \in ToSet(s), x # s[p] PROVE x \in ToSet(t)
    <2>1. PICK i \in 1 .. Len(s) : x = s[i]
      BY <1>4
    <2>2. CASE i < p
      <3>1. i \in 1 .. Len(t) /\ t[i] = x
        BY <2>1, <2>2, <1>3, <1>4, <1>5
      <3> QED BY <3>1, <1>4
    <2>3. CASE i > p
      <3>1. i - 1 \in 1 .. Len(t) /\ t[i - 1] = x
        BY <2>1, <2>3, <1>3, <1>4, <1>5
      <3> QED BY <3>1, <1>4
    <2> QED BY <2>1, <2>2, <2>3, <1>9, <1>4
  <1>10. t = RemoveAt(s, p)
    BY DEF t, a, b, RemoveAt
  <1> QED BY <1>3, <1>7, <1>8, <1>9, <1>10

\* Of any brushes one is the last.
LEMMA LastOfBrushes ==
    ASSUME NEW A \in SUBSET Brushes, A # {}
    PROVE  LastOf(A) \in A
  <1> DEFINE T == {NumBrushes - b : b \in A}
  <1>0. NumBrushes \in Nat /\ \A b \in A : b \in Nat /\ b <= NumBrushes
    BY CursorsAssumption DEF CursorsAssumption, Brushes
  <1>1. T \in SUBSET Nat /\ T # {}
    BY <1>0
  <1>2. PICK x \in T : \A y \in T : x <= y
    <2> HIDE DEF T
    <2> QED BY <1>1, Least
  <1>3. PICK b \in A : x = NumBrushes - b
    BY <1>2
  <1>4. ASSUME NEW a \in A PROVE a <= b
    <2>1. x <= NumBrushes - a
      BY <1>2
    <2> QED BY <2>1, <1>0, <1>3
  <1> QED BY <1>4 DEF LastOf

-----------------------------------------------------------------------------
(* Types *)

\* What the types rest on: ids are given in order, a pending note-off belongs to a
\* note that was begun, and the network thread touches what it has found.
TypeInv ==
    /\ CursorsTypeOK
    /\ \A c \in Live : c < next_cursorid
    /\ \A c \in CursorIds : pending[c] # NoBrush => owed[pending[c]][c] >= 1
    /\ pc[Net] = "touch" => touching \in CursorIds

\* What the callbacks leave of a brush's state has its type.
BrushesOK ==
    /\ pending \in [CursorIds -> Brushes \cup {NoBrush}]
    /\ tracked \in [Brushes -> SUBSET CursorIds]
    /\ owed \in [Brushes -> [CursorIds -> Nat]]
    /\ \A c \in CursorIds : pending[c] # NoBrush => owed[pending[c]][c] >= 1

\* At first there are no cursors and no notes.
LEMMA InitTypeInv == CursorsInit => TypeInv
  <1> SUFFICES ASSUME CursorsInit PROVE TypeInv
    OBVIOUS
  <1>1. cursors \in Seq(CursorIds) /\ IsInjective(cursors) /\ Live = {}
    BY DEF CursorsInit, IsInjective, Live, ToSet
  <1>2. CursorsTypeOK
    BY <1>1, CursorsAssumption
       DEF CursorsInit, CursorsTypeOK, CursorsAssumption, CursorIds, NoCursor, AnySid
  <1> QED BY <1>1, <1>2 DEF CursorsInit, TypeInv

\* A cursor that comes down is a new one to every brush.
LEMMA ProcessDownType ==
    ASSUME BrushesOK, NEW c \in CursorIds, NEW s, ProcessDown(c, s)
    PROVE  BrushesOK'
  <1> DEFINE A == Players(s)
             B == Audience(s)
  <1>1. A \in SUBSET Brushes
    BY DEF Players, Audience
  <1>2. A # {} => LastOf(A) \in A
    BY <1>1, LastOfBrushes
  <1>3. NoBrush \notin Brushes
    BY CursorsAssumption DEF CursorsAssumption
  <1> HIDE DEF A, B
  <1>4. /\ tracked' = [b \in Brushes |-> IF b \in B THEN tracked[b] \cup {c} ELSE tracked[b]]
        /\ owed' = [b \in Brushes |-> IF b \in A THEN [owed[b] EXCEPT ![c] = @ + 1]
                                                ELSE owed[b]]
        /\ pending' = IF A = {} THEN pending ELSE [pending EXCEPT ![c] = LastOf(A)]
    BY DEF ProcessDown, TrackDown, A, B
  <1>5. tracked' \in [Brushes -> SUBSET CursorIds]
    BY <1>4 DEF BrushesOK
  <1>6. /\ owed' \in [Brushes -> [CursorIds -> Nat]]
        /\ \A b \in Brushes, d \in CursorIds : owed'[b][d] >= owed[b][d]
        /\ \A b \in A : owed'[b][c] >= 1
    BY <1>1, <1>4 DEF BrushesOK
  <1>7. pending' \in [CursorIds -> Brushes \cup {NoBrush}]
    BY <1>1, <1>2, <1>4 DEF BrushesOK
  <1>8. ASSUME NEW d \in CursorIds, pending'[d] # NoBrush
        PROVE  owed'[pending'[d]][d] >= 1
    <2>1. CASE A # {} /\ d = c
      <3>1. pending'[d] \in A
        BY <2>1, <1>2, <1>4 DEF BrushesOK
      <3> QED BY <3>1, <2>1, <1>6
    <2>2. CASE A = {} \/ d # c
      <3>1. pending'[d] = pending[d] /\ pending[d] \in Brushes
        BY <2>2, <1>4, <1>8 DEF BrushesOK
      <3>2. /\ owed[pending[d]][d] >= 1
            /\ owed[pending[d]][d] \in Nat /\ owed'[pending[d]][d] \in Nat
            /\ owed'[pending[d]][d] >= owed[pending[d]][d]
        BY <3>1, <1>6, <1>8 DEF BrushesOK
      <3> QED BY <3>1, <3>2
    <2> QED BY <2>1, <2>2
  <1> QED BY <1>5, <1>6, <1>7, <1>8 DEF BrushesOK

\* A drag ends one note and begins another, or does neither.
LEMMA ProcessDragType ==
    ASSUME BrushesOK, NEW c \in CursorIds, NEW moved \in SUBSET Brushes,
           ProcessDrag(c, moved)
    PROVE  BrushesOK'
  <1>1. CASE moved = {} \/ pending[c] = NoBrush
    BY <1>1 DEF ProcessDrag, BrushesOK, brushvars
  <1>2. CASE moved # {} /\ pending[c] # NoBrush
    <2> DEFINE p == pending[c]
               q == LastOf(moved)
    <2>1. q \in Brushes /\ p \in Brushes /\ NoBrush \notin Brushes
      BY <1>2, LastOfBrushes, CursorsAssumption DEF BrushesOK, CursorsAssumption
    <2>2. /\ pending' = [pending EXCEPT ![c] = q]
          /\ tracked' = tracked
          /\ owed' = [b \in Brushes |-> [owed[b] EXCEPT ![c] =
                        IF p = q THEN @ ELSE IF b = p THEN @ - 1
                        ELSE IF b = q THEN @ + 1 ELSE @]]
      BY <1>2 DEF ProcessDrag
    <2>3. owed[p][c] >= 1
      BY <1>2 DEF BrushesOK
    <2> HIDE DEF p, q
    <2>4. /\ \A b \in Brushes, d \in CursorIds : owed[b][d] \in Nat
          /\ \A b \in Brushes : DOMAIN owed[b] = CursorIds
      BY DEF BrushesOK
    <2>5. \A b \in Brushes : owed'[b] \in [CursorIds -> Nat]
      BY <2>1, <2>2, <2>3, <2>4 DEF BrushesOK
    <2>6. /\ \A b \in Brushes, d \in CursorIds : d # c => owed'[b][d] = owed[b][d]
          /\ owed'[q][c] >= 1
      BY <2>1, <2>2, <2>3, <2>4
    <2>7. owed' \in [Brushes -> [CursorIds -> Nat]]
      BY <2>2, <2>5
    <2>8. /\ pending' \in [CursorIds -> Brushes \cup {NoBrush}]
          /\ pending'[c] = q
          /\ \A d \in CursorIds : d # c => pending'[d] = pending[d]
      BY <2>1, <2>2 DEF BrushesOK
    <2>9. ASSUME NEW d \in CursorIds, pending'[d] # NoBrush
          PROVE  owed'[pending'[d]][d] >= 1
      BY <2>6, <2>8, <2>9 DEF BrushesOK
    <2> QED BY <2>2, <2>7, <2>8, <2>9 DEF BrushesOK
  <1> QED BY <1>1, <1>2

\* A cursor that goes up ends at most the one note that is pending.
LEMMA ProcessUpType ==
    ASSUME BrushesOK, NEW c \in CursorIds, ProcessUp(c)
    PROVE  BrushesOK'
  <1>1. tracked' \in [Brushes -> SUBSET CursorIds]
    BY DEF ProcessUp, TrackUp, BrushesOK
  <1>2. CASE UNCHANGED <<owed, pending>>
    BY <1>1, <1>2 DEF BrushesOK
  <1>3. CASE ~ UNCHANGED <<owed, pending>>
    <2>1. /\ pending[c] # NoBrush /\ pending[c] \in Brushes
          /\ owed' = [owed EXCEPT ![pending[c]][c] = @ - 1]
          /\ pending' = [pending EXCEPT ![c] = NoBrush]
          /\ owed[pending[c]][c] >= 1
      BY <1>3 DEF ProcessUp, TrackUp, BrushesOK
    <2>2. owed' \in [Brushes -> [CursorIds -> Nat]]
      BY <2>1 DEF BrushesOK
    <2>3. \A b \in Brushes, d \in CursorIds : d # c => owed'[b][d] = owed[b][d]
      BY <2>1 DEF BrushesOK
    <2>4. pending' \in [CursorIds -> Brushes \cup {NoBrush}]
      BY <2>1 DEF BrushesOK
    <2> QED BY <1>1, <2>1, <2>2, <2>3, <2>4 DEF BrushesOK
  <1> QED BY <1>2, <1>3

\* The fields that the locks, the messages and the host have.
ThreadsOK ==
    /\ cursors_lock \in {Net, Timer, NoThread}
    /\ pc \in [{Net, Timer} -> {"idle", "set", "touch", "outlines", "check"}]
    /\ msg \in [{Net, Timer} -> Sids]
    /\ touching \in CursorIds \cup {NoCursor}
    /\ pc[Net] = "touch" => touching \in CursorIds
    /\ outlines \subseteq Sids
    /\ place \in Nat \ {0}
    /\ input \in [Brushes -> BOOLEAN] /\ region \in [Brushes -> SUBSET Sids]
    /\ normal \in [Brushes -> BOOLEAN]
    /\ changes \in 0 .. MaxChanges

\* The list of cursors and their fields.
ServerOK ==
    /\ cursors \in Seq(CursorIds) /\ IsInjective(cursors)
    /\ next_cursorid \in 1 .. MaxCursor + 1
    /\ sid \in [CursorIds -> Sids]
    /\ source \in [CursorIds -> {"osc", "sharedmem"}]
    /\ age \in [CursorIds -> 0 .. Timeout + 1]
    /\ \A c \in Live : c < next_cursorid

\* The invariant in three parts: the list, the threads and the brushes.
LEMMA TypeInvParts == TypeInv <=> ServerOK /\ ThreadsOK /\ BrushesOK
  BY DEF TypeInv, CursorsTypeOK, ServerOK, ThreadsOK, BrushesOK

\* Cursors that are in the list are cursors.
LEMMA LiveType ==
    ASSUME ServerOK
    PROVE  Live \subseteq CursorIds
  BY ToSetOfSeq DEF ServerOK, Live

\* What a step is to cursors and brushes: a cursor comes, is dragged, goes up, or
\* nothing happens to them.
Quiet == UNCHANGED <<cursors, next_cursorid, sid, source, brushvars>>

\* Every step of the server, the brushes or the host is of one of these kinds.
LEMMA StepKinds ==
    ASSUME [CursorsNext]_cvars
    PROVE  \/ \E t \in {Net, Timer} : NewCursor(t) \/ DragCursor(t)
           \/ CursorUp
           \/ Quiet
  BY DEF CursorsNext, NetStep, TimerStep, Check, HostStep, SetCursor, OscSet, OscAlive,
         Touch, CheckSharedMem, ProcessOutline, TryLockCursors, CursorStays, CheckDone,
         NoMoreCursors, Elapse, SetEnableInput, SetSidrange, SetMidiParams, Quiet,
         cvars, servervars

\* A cursor that comes has an id that no cursor has or had.
LEMMA NewCursorServer ==
    ASSUME ServerOK, ThreadsOK, NEW t \in {Net, Timer}, NewCursor(t)
    PROVE  /\ ServerOK'
           /\ next_cursorid \in CursorIds \ Live
           /\ Live' = Live \cup {next_cursorid}
  <1> DEFINE c == next_cursorid
  <1>1. c \in CursorIds /\ c \notin Live
    BY DEF NewCursor, ServerOK, CursorIds
  <1>2. cursors' = Append(cursors, c)
    BY DEF NewCursor
  <1>3. cursors' \in Seq(CursorIds) /\ IsInjective(cursors') /\ Live' = Live \cup {c}
    BY <1>1, <1>2, AppendCursor DEF ServerOK, Live
  <1>4. next_cursorid' = c + 1 /\ c + 1 \in 1 .. MaxCursor + 1
    BY <1>1, CursorsAssumption DEF NewCursor, CursorIds, CursorsAssumption
  <1>5. sid' \in [CursorIds -> Sids] /\ source' \in [CursorIds -> {"osc", "sharedmem"}]
    BY <1>1 DEF NewCursor, ServerOK, ThreadsOK, SourceOf
  <1>6. age' \in [CursorIds -> 0 .. Timeout + 1]
    BY <1>1, CursorsAssumption DEF NewCursor, ServerOK, CursorsAssumption
  <1>7. \A d \in Live' : d < next_cursorid'
    <2>1. Live \subseteq Nat /\ \A d \in Live : d < c
      BY LiveType DEF ServerOK, CursorIds
    <2> QED BY <2>1, <1>1, <1>3, <1>4 DEF CursorIds
  <1> QED BY <1>1, <1>3, <1>4, <1>5, <1>6, <1>7 DEF ServerOK

\* A cursor that goes up was in the list and is not any more.
LEMMA CursorUpServer ==
    ASSUME ServerOK, ThreadsOK, CursorUp
    PROVE  /\ ServerOK'
           /\ cursors[place] \in CursorIds
           /\ cursors[place] \in Live
           /\ Live' = Live \ {cursors[place]}
           /\ ProcessUp(cursors[place])
  <1> DEFINE c == cursors[place]
  <1>1. place \in 1 .. Len(cursors)
    BY DEF CursorUp, ServerOK, ThreadsOK
  <1>2. c \in CursorIds /\ c \in Live
    BY <1>1, ToSetOfSeq DEF ServerOK, Live
  <1>3. cursors' = RemoveAt(cursors, place)
    BY DEF CursorUp
  <1>4. /\ cursors' \in Seq(CursorIds) /\ IsInjective(cursors')
        /\ Live' = Live \ {c}
    BY <1>1, <1>3, EraseCursor DEF ServerOK, Live
  <1>5. age' \in [CursorIds -> 0 .. Timeout + 1]
    BY <1>2, CursorsAssumption DEF CursorUp, ServerOK, CursorsAssumption
  <1> QED BY <1>2, <1>4, <1>5 DEF CursorUp, ServerOK

\* A drag touches a cursor of the list.
LEMMA DragCursorServer ==
    ASSUME ServerOK, ThreadsOK, BrushesOK, NEW t \in {Net, Timer}, DragCursor(t)
    PROVE  ServerOK' /\ BrushesOK'
  <1>1. PICK c \in Find(msg[t], SourceOf(t)), moved \in SUBSET Players(msg[t]) :
            ProcessDrag(c, moved) /\ age' = [age EXCEPT ![c] = 0]
    BY DEF DragCursor
  <1>2. c \in CursorIds /\ moved \in SUBSET Brushes
    BY <1>1, LiveType DEF Find, Players, Audience
  <1>3. BrushesOK'
    BY <1>1, <1>2, ProcessDragType
  <1>4. age' \in [CursorIds -> 0 .. Timeout + 1]
    BY <1>1, <1>2, CursorsAssumption DEF ServerOK, CursorsAssumption
  <1> QED BY <1>3, <1>4 DEF DragCursor, ServerOK, Live

\* There is a session id.
LEMMA AnySidType == AnySid \in Sids
  BY CursorsAssumption DEF CursorsAssumption, AnySid

\* The threads' fields keep their types in every step.
LEMMA ThreadsType ==
    ASSUME TypeInv, [CursorsNext]_cvars
    PROVE  ThreadsOK'
  <1>0. /\ ServerOK /\ ThreadsOK /\ Net # Timer
        /\ pc[Net] = "touch" => touching \in CursorIds
    BY TypeInvParts, CursorsAssumption DEF ThreadsOK, CursorsAssumption
  <1>1. ASSUME NEW s \in Sids, OscSet(s) \/ ProcessOutline(s)
        PROVE  ThreadsOK'
    BY <1>0, <1>1 DEF OscSet, ProcessOutline, LockCursors, ThreadsOK, hostvars
  <1>2. ASSUME NEW s \in Sids, OscAlive(s)
        PROVE  ThreadsOK'
    <2>1. touching' \in CursorIds
      BY <1>0, <1>2, LiveType DEF OscAlive, Find
    <2> QED BY <1>0, <1>2, <2>1 DEF OscAlive, ThreadsOK, hostvars
  <1>3. ASSUME NEW t \in {Net, Timer}, SetCursor(t)
        PROVE  ThreadsOK'
    <2>1. /\ cursors_lock' = NoThread
          /\ pc' = [pc EXCEPT ![t] = IF t = Net THEN "idle" ELSE "outlines"]
          /\ msg' = [msg EXCEPT ![t] = AnySid] /\ AnySid \in Sids
          /\ UNCHANGED <<touching, outlines, place, hostvars>>
      BY <1>3, AnySidType DEF SetCursor, NewCursor, DragCursor, NoMoreCursors, UnlockCursors
    <2> QED BY <2>1, <1>0 DEF ThreadsOK, hostvars
  <1>4. CASE Touch
    BY <1>0, <1>4 DEF Touch, ThreadsOK, hostvars
  <1>5. ASSUME NEW frame \in SUBSET Sids, CheckSharedMem(frame)
        PROVE  ThreadsOK'
    BY <1>0, <1>5 DEF CheckSharedMem, ThreadsOK, hostvars
  <1>6. CASE TryLockCursors
    BY <1>0, <1>6 DEF TryLockCursors, ThreadsOK, hostvars
  <1>7. CASE Check
    BY <1>0, <1>7 DEF Check, CursorUp, CursorStays, CheckDone, ThreadsOK, hostvars,
                      threadvars
  <1>8. CASE Elapse
    BY <1>0, <1>8 DEF Elapse, ThreadsOK, hostvars, threadvars
  <1>9. CASE HostStep
    <2>0. MaxChanges \in Nat
      BY CursorsAssumption DEF CursorsAssumption
    <2>1. ASSUME NEW b \in Brushes, SetEnableInput(b)
          PROVE  ThreadsOK'
      <3>1. input' \in [Brushes -> BOOLEAN]
        BY <2>1, <1>0, Zenon DEF SetEnableInput, ThreadsOK
      <3>2. changes' \in 0 .. MaxChanges
        BY <2>0, <2>1, <1>0 DEF SetEnableInput, ThreadsOK
      <3> QED BY <3>1, <3>2, <2>1, <1>0 DEF SetEnableInput, ThreadsOK, threadvars
    <2>2. ASSUME NEW b \in Brushes, NEW s \in Sids, SetSidrange(b, {s})
          PROVE  ThreadsOK'
      <3>1. region' \in [Brushes -> SUBSET Sids]
        BY <2>2, <1>0 DEF SetSidrange, ThreadsOK
      <3>2. changes' \in 0 .. MaxChanges
        BY <2>0, <2>2, <1>0 DEF SetSidrange, ThreadsOK
      <3> QED BY <3>1, <3>2, <2>2, <1>0 DEF SetSidrange, ThreadsOK, threadvars
    <2>3. ASSUME NEW b \in Brushes, SetMidiParams(b)
          PROVE  ThreadsOK'
      <3>1. normal' \in [Brushes -> BOOLEAN]
        BY <2>3, <1>0, Zenon DEF SetMidiParams, ThreadsOK
      <3>2. changes' \in 0 .. MaxChanges
        BY <2>0, <2>3, <1>0 DEF SetMidiParams, ThreadsOK
      <3> QED BY <3>1, <3>2, <2>3, <1>0 DEF SetMidiParams, ThreadsOK, threadvars
    <2> QED BY <1>9, <2>1, <2>2, <2>3 DEF HostStep
  <1>10. CASE UNCHANGED cvars
    BY <1>0, <1>10 DEF cvars, threadvars, hostvars, ThreadsOK
  <1> QED
    BY <1>1, <1>2, <1>3, <1>4, <1>5, <1>6, <1>7, <1>8, <1>9, <1>10
       DEF CursorsNext, NetStep, TimerStep

\* Steps that nothing comes or goes by keep the types of the list.
LEMMA QuietServer ==
    ASSUME ServerOK, ThreadsOK, [CursorsNext]_cvars, Quiet
    PROVE  ServerOK'
  <1>0. CursorIds \subseteq Nat /\ Timeout \in Nat /\ Live \subseteq CursorIds
    BY LiveType, CursorsAssumption DEF CursorIds, CursorsAssumption
  <1>1. CASE UNCHANGED age
    BY <1>1 DEF Quiet, ServerOK, Live
  <1>2. CASE Touch
    <2>1. age' \in [CursorIds -> 0 .. Timeout + 1]
      BY <1>0, <1>2 DEF Touch, ServerOK
    <2> QED BY <2>1 DEF Quiet, ServerOK, Live
  <1>3. CASE Elapse
    <2>1. age' = [c \in CursorIds |-> IF c \in Live /\ age[c] <= Timeout
                                      THEN age[c] + 1 ELSE age[c]]
      BY <1>3 DEF Elapse
    <2>2. ASSUME NEW c \in CursorIds
          PROVE  (IF c \in Live /\ age[c] <= Timeout THEN age[c] + 1 ELSE age[c])
                     \in 0 .. Timeout + 1
      BY <1>0 DEF ServerOK
    <2>3. age' \in [CursorIds -> 0 .. Timeout + 1]
      BY <2>1, <2>2
    <2> QED BY <2>3 DEF Quiet, ServerOK, Live
  <1>4. CASE \E t \in {Net, Timer} : NewCursor(t) \/ DragCursor(t)
    <2>1. ASSUME NEW t \in {Net, Timer}, NewCursor(t)
          PROVE  FALSE
      BY <2>1 DEF NewCursor, Quiet, ServerOK
    <2>2. ASSUME NEW t \in {Net, Timer}, DragCursor(t)
          PROVE  ServerOK'
      <3>1. PICK c \in Find(msg[t], SourceOf(t)) : age' = [age EXCEPT ![c] = 0]
        BY <2>2 DEF DragCursor
      <3>2. age \in [CursorIds -> 0 .. Timeout + 1] /\ 0 \in 0 .. Timeout + 1
        BY <1>0 DEF ServerOK
      <3>3. age' \in [CursorIds -> 0 .. Timeout + 1]
        BY <3>1, <3>2
      <3> QED BY <3>3 DEF Quiet, ServerOK, Live
    <2> QED BY <1>4, <2>1, <2>2
  <1>5. CASE CursorUp
    BY <1>5, CursorUpServer
  <1> QED
    BY <1>1, <1>2, <1>3, <1>4, <1>5
       DEF CursorsNext, NetStep, TimerStep, Check, HostStep, SetCursor, OscSet, OscAlive,
           CheckSharedMem, ProcessOutline, TryLockCursors, CursorStays, CheckDone,
           NoMoreCursors, SetEnableInput, SetSidrange, SetMidiParams, cvars, servervars

\* Every step keeps the types.
LEMMA NextTypeInv == TypeInv /\ [CursorsNext]_cvars => TypeInv'
  <1> SUFFICES ASSUME TypeInv, [CursorsNext]_cvars
               PROVE  TypeInv'
    OBVIOUS
  <1>0. ServerOK /\ ThreadsOK /\ BrushesOK /\ ThreadsOK'
    BY TypeInvParts, ThreadsType
  <1>1. ASSUME NEW t \in {Net, Timer}, NewCursor(t)
        PROVE  ServerOK' /\ BrushesOK'
    <2>1. ServerOK' /\ next_cursorid \in CursorIds
      BY <1>0, <1>1, NewCursorServer
    <2>2. ProcessDown(next_cursorid, msg[t])
      BY <1>1 DEF NewCursor
    <2>3. BrushesOK'
      BY <1>0, <2>1, <2>2, ProcessDownType
    <2> QED BY <2>1, <2>3
  <1>2. ASSUME NEW t \in {Net, Timer}, DragCursor(t)
        PROVE  ServerOK' /\ BrushesOK'
    BY <1>0, <1>2, DragCursorServer
  <1>3. ASSUME CursorUp
        PROVE  ServerOK' /\ BrushesOK'
    <2>1. ServerOK' /\ cursors[place] \in CursorIds /\ ProcessUp(cursors[place])
      BY <1>0, <1>3, CursorUpServer
    <2>2. BrushesOK'
      BY <1>0, <2>1, ProcessUpType
    <2> QED BY <2>1, <2>2
  <1>4. ASSUME Quiet
        PROVE  ServerOK' /\ BrushesOK'
    <2>1. ServerOK'
      BY <1>0, <1>4, QuietServer
    <2>2. BrushesOK'
      BY <1>0, <1>4 DEF Quiet, brushvars, BrushesOK
    <2> QED BY <2>1, <2>2
  <1>5. ServerOK' /\ BrushesOK'
    BY <1>1, <1>2, <1>3, <1>4, StepKinds
  <1> QED BY <1>0, <1>5 DEF TypeInv, CursorsTypeOK, ServerOK, ThreadsOK, BrushesOK

\* The types hold always.
LEMMA SpecTypeInv == CursorsSpec => []TypeInv
  BY InitTypeInv, NextTypeInv, PTL DEF CursorsSpec

\* The server and the brushes keep their types, whatever the host does: above all,
\* no brush ever ends a note that was not begun.
THEOREM CursorsTypeCorrect == CursorsSpec => []CursorsTypeOK
  <1>1. TypeInv => CursorsTypeOK
    BY DEF TypeInv
  <1> QED BY <1>1, SpecTypeInv, PTL

-----------------------------------------------------------------------------
(* What brushes follow *)

\* While the host leaves the brushes alone, each follows just the live cursors of
\* its region: every down and every up reaches the same brushes.
Following ==
    /\ changes = 0
    /\ input = [b \in Brushes |-> TRUE]
    /\ region = Regions
    /\ \A b \in Brushes : tracked[b] = {c \in Live : sid[c] \in Regions[b]}

\* Whom a callback reaches is decided by the regions alone.
LEMMA AudienceOf ==
    ASSUME Following, NEW s
    PROVE  Audience(s) = {b \in Brushes : s \in Regions[b]}
  BY DEF Following, Audience

\* Only the host changes what a brush lets through.
LEMMA HostUnchanged ==
    ASSUME TypeInv, HostWasQuiet', [CursorsNext]_cvars
    PROVE  HostWasQuiet /\ UNCHANGED hostvars
  <1>1. changes \in Nat
    BY CursorsAssumption DEF TypeInv, CursorsTypeOK, CursorsAssumption
  <1>2. ~ HostStep
    BY <1>1 DEF HostStep, SetEnableInput, SetSidrange, SetMidiParams, HostWasQuiet
  <1>3. UNCHANGED hostvars
    BY <1>2 DEF CursorsNext, NetStep, TimerStep, Check, SetCursor, OscSet, OscAlive, Touch,
                CheckSharedMem, ProcessOutline, TryLockCursors, CursorUp, CursorStays,
                CheckDone, NewCursor, DragCursor, NoMoreCursors, Elapse, cvars
  <1> QED BY <1>3 DEF hostvars, HostWasQuiet

\* At first there is nothing to follow.
LEMMA InitFollowing == CursorsInit => Following
  BY DEF CursorsInit, Following, Live, ToSet

\* A down reaches the brushes of a region, and the up the same ones.
LEMMA NextFollowing ==
    ASSUME TypeInv, HostWasQuiet => Following, [CursorsNext]_cvars, HostWasQuiet'
    PROVE  Following /\ Following'
  <1>0. /\ ServerOK /\ ThreadsOK /\ BrushesOK /\ Live \subseteq CursorIds
        /\ UNCHANGED hostvars /\ Following
    BY TypeInvParts, LiveType, HostUnchanged
  <1>1. SUFFICES \A b \in Brushes : tracked'[b] = {c \in Live' : sid'[c] \in Regions[b]}
    BY <1>0 DEF Following, hostvars
  <1>2. ASSUME NEW t \in {Net, Timer}, NewCursor(t)
        PROVE  \A b \in Brushes : tracked'[b] = {c \in Live' : sid'[c] \in Regions[b]}
    <2> DEFINE n == next_cursorid
               A == Audience(msg[t])
    <2>1. n \in CursorIds \ Live /\ Live' = Live \cup {n}
      BY <1>0, <1>2, NewCursorServer
    <2>2. sid' = [sid EXCEPT ![n] = msg[t]]
      BY <1>2 DEF NewCursor
    <2>3. tracked' = [b \in Brushes |-> IF b \in A THEN tracked[b] \cup {n} ELSE tracked[b]]
      BY <1>2 DEF NewCursor, ProcessDown, TrackDown
    <2>4. A = {b \in Brushes : msg[t] \in Regions[b]}
      BY <1>0, AudienceOf
    <2> HIDE DEF n, A
    <2>5. sid'[n] = msg[t] /\ \A c \in Live : sid'[c] = sid[c]
      BY <2>1, <2>2, <1>0 DEF ServerOK
    <2> SUFFICES ASSUME NEW b \in Brushes
                 PROVE  tracked'[b] = {c \in Live' : sid'[c] \in Regions[b]}
      OBVIOUS
    <2>6. tracked[b] = {c \in Live : sid[c] \in Regions[b]}
      BY <1>0 DEF Following
    <2>7. {c \in Live' : sid'[c] \in Regions[b]}
              = tracked[b] \cup {c \in {n} : msg[t] \in Regions[b]}
      BY <2>1, <2>5, <2>6
    <2> QED BY <2>3, <2>4, <2>7
  <1>3. ASSUME CursorUp
        PROVE  \A b \in Brushes : tracked'[b] = {c \in Live' : sid'[c] \in Regions[b]}
    <2> DEFINE u == cursors[place]
               A == Audience(sid[u])
    <2>1. u \in Live /\ Live' = Live \ {u} /\ ProcessUp(u) /\ sid' = sid
      BY <1>0, <1>3, CursorUpServer DEF CursorUp
    <2>2. tracked' = [b \in Brushes |-> IF b \in A THEN tracked[b] \ {u} ELSE tracked[b]]
      BY <2>1 DEF ProcessUp, TrackUp
    <2>3. A = {b \in Brushes : sid[u] \in Regions[b]}
      BY <1>0, AudienceOf
    <2> HIDE DEF u, A
    <2> QED BY <1>0, <2>1, <2>2, <2>3 DEF Following
  <1>4. ASSUME Quiet \/ \E t \in {Net, Timer} : DragCursor(t)
        PROVE  \A b \in Brushes : tracked'[b] = {c \in Live' : sid'[c] \in Regions[b]}
    <2>1. UNCHANGED <<cursors, sid, tracked>>
      BY <1>4 DEF Quiet, DragCursor, ProcessDrag, brushvars
    <2> QED BY <1>0, <2>1 DEF Following, Live
  <1> QED BY <1>2, <1>3, <1>4, StepKinds

\* Brushes follow just their cursors, until the host changes one.
LEMMA SpecFollowing == CursorsSpec => [](HostWasQuiet => Following)
  <1>1. TypeInv /\ (HostWasQuiet => Following) /\ [CursorsNext]_cvars
            => (HostWasQuiet => Following)'
    BY NextFollowing
  <1> QED BY <1>1, InitFollowing, SpecTypeInv, PTL DEF CursorsSpec

\* The cursors whose depth a brush averages exist: no brush keeps a pointer to a
\* cursor that was deleted, as long as the host leaves the brushes alone.
THEOREM FollowedExist == CursorsSpec => []TrackedAreLive
  <1>1. (HostWasQuiet => Following) => TrackedAreLive
    BY DEF Following, TrackedAreLive
  <1> QED BY <1>1, SpecFollowing, PTL

-----------------------------------------------------------------------------
(* Notes *)

\* Two note-ons of a cursor have no note-off.
TwoOwed(c) ==
    \/ \E b \in Brushes : owed[b][c] >= 2
    \/ \E a, b \in Brushes : a # b /\ owed[a][c] >= 1 /\ owed[b][c] >= 1

\* A cursor keeps the note-off of one brush that plays it, if one does.  If just one
\* does, this is all that is owed; otherwise there is a second note-on, and nobody is
\* left to end it when the cursor has gone up.
LiveOwed(c) ==
    /\ pending[c] \in Players(sid[c]) \/ (Players(sid[c]) = {} /\ pending[c] = NoBrush)
    /\ OnePlayer(sid[c]) =>
          \A b \in Brushes : owed[b][c] = IF pending[c] = b THEN 1 ELSE 0
    /\ ~ OnePlayer(sid[c]) => TwoOwed(c)

NotesOwed ==
    \A c \in CursorIds :
        IF c >= next_cursorid THEN NoneOwed(c) /\ pending[c] = NoBrush
        ELSE IF c \in Live THEN LiveOwed(c)
        ELSE NoneOwed(c) <=> OnePlayer(sid[c])

\* At first nobody owes a note-off.
LEMMA InitNotesOwed == CursorsInit => NotesOwed
  BY DEF CursorsInit, NotesOwed, NoneOwed, CursorIds

\* What is kept of a cursor that a step does not touch.
LEMMA OwedKept ==
    ASSUME NotesOwed, UNCHANGED hostvars, NEW c \in CursorIds,
           pending'[c] = pending[c], \A b \in Brushes : owed'[b][c] = owed[b][c],
           sid'[c] = sid[c], c \in Live' <=> c \in Live,
           c >= next_cursorid' <=> c >= next_cursorid
    PROVE  IF c >= next_cursorid' THEN NoneOwed(c)' /\ pending'[c] = NoBrush
           ELSE IF c \in Live' THEN LiveOwed(c)'
           ELSE NoneOwed(c)' <=> OnePlayer(sid[c])'
  <1>1. \A s : Players(s)' = Players(s)
    BY DEF Players, Audience, hostvars
  <1>2. NoneOwed(c)' <=> NoneOwed(c)
    BY DEF NoneOwed
  <1>3. TwoOwed(c)' <=> TwoOwed(c)
    BY DEF TwoOwed
  <1>4. LiveOwed(c)' <=> LiveOwed(c)
    BY <1>1, <1>3 DEF LiveOwed, OnePlayer
  <1> QED BY <1>1, <1>2, <1>4 DEF NotesOwed, OnePlayer

\* Each player of a new cursor begins a note, and the note-off of one is kept.
LEMMA DownNotesOwed ==
    ASSUME TypeInv, NotesOwed, UNCHANGED hostvars, NEW t \in {Net, Timer}, NewCursor(t)
    PROVE  NotesOwed'
  <1>n. PICK n : n = next_cursorid
    OBVIOUS
  <1>s. PICK s : s = msg[t]
    OBVIOUS
  <1> DEFINE P == Players(s)
  <1>0. ServerOK /\ ThreadsOK /\ BrushesOK /\ Live \subseteq CursorIds
    BY TypeInvParts, LiveType
  <1>1. n \in CursorIds \ Live /\ Live' = Live \cup {n} /\ next_cursorid' = n + 1
    BY <1>0, <1>n, NewCursorServer DEF NewCursor
  <1>2. /\ sid' = [sid EXCEPT ![n] = s]
        /\ owed' = [b \in Brushes |-> IF b \in P THEN [owed[b] EXCEPT ![n] = @ + 1]
                                                ELSE owed[b]]
        /\ pending' = IF P = {} THEN pending ELSE [pending EXCEPT ![n] = LastOf(P)]
    BY <1>n, <1>s DEF NewCursor, ProcessDown, TrackDown
  <1>3. P \in SUBSET Brushes /\ (P # {} => LastOf(P) \in P) /\ NoBrush \notin Brushes
    <2>1. P \in SUBSET Brushes
      BY DEF Players, Audience
    <2> QED BY <2>1, LastOfBrushes, CursorsAssumption DEF CursorsAssumption
  <1>4. Players(s)' = P
    BY DEF Players, Audience, hostvars
  <1>5. n \in Nat /\ CursorIds \subseteq Nat
    BY <1>1 DEF CursorIds
  <1>6. /\ pending[n] = NoBrush /\ \A b \in Brushes : owed[b][n] = 0
        /\ sid'[n] = s /\ \A c \in CursorIds : c # n => sid'[c] = sid[c]
    BY <1>0, <1>1, <1>2, <1>5, <1>n DEF NotesOwed, NoneOwed, ServerOK
  <1> HIDE DEF P
  <1>7. /\ \A b \in Brushes : owed'[b][n] = IF b \in P THEN 1 ELSE 0
        /\ pending'[n] = IF P = {} THEN NoBrush ELSE LastOf(P)
        /\ \A c \in CursorIds : c # n => /\ pending'[c] = pending[c]
                                         /\ \A b \in Brushes : owed'[b][c] = owed[b][c]
    BY <1>0, <1>1, <1>2, <1>3, <1>6 DEF BrushesOK
  <1>8. ~ (\A a, b \in P : a = b) => TwoOwed(n)'
    BY <1>3, <1>4, <1>7 DEF TwoOwed
  <1>9. (\A a, b \in P : a = b) =>
            \A b \in Brushes : owed'[b][n] = IF pending'[n] = b THEN 1 ELSE 0
    BY <1>3, <1>4, <1>7
  <1>10. LiveOwed(n)'
    BY <1>3, <1>4, <1>6, <1>7, <1>8, <1>9 DEF LiveOwed, OnePlayer
  <1>11. ASSUME NEW c \in CursorIds, c # n
         PROVE  IF c >= next_cursorid' THEN NoneOwed(c)' /\ pending'[c] = NoBrush
                ELSE IF c \in Live' THEN LiveOwed(c)'
                ELSE NoneOwed(c)' <=> OnePlayer(sid[c])'
    <2>1. /\ c \in Live' <=> c \in Live
          /\ c >= next_cursorid' <=> c >= next_cursorid
      BY <1>1, <1>5, <1>11, <1>n
    <2> QED BY <2>1, <1>6, <1>7, <1>11, OwedKept
  <1>12. ~ (n >= next_cursorid') /\ n \in Live'
    BY <1>1, <1>5
  <1> QED BY <1>10, <1>11, <1>12 DEF NotesOwed

\* A drag ends the note that is pending and begins one, of the same brush or another;
\* the number of those without a note-off stays.
LEMMA DragNotesOwed ==
    ASSUME TypeInv, NotesOwed, UNCHANGED hostvars, NEW t \in {Net, Timer}, DragCursor(t)
    PROVE  NotesOwed'
  <1>0. ServerOK /\ ThreadsOK /\ BrushesOK /\ Live \subseteq CursorIds
    BY TypeInvParts, LiveType
  <1>1. PICK c \in Find(msg[t], SourceOf(t)), moved \in SUBSET Players(msg[t]) :
            ProcessDrag(c, moved)
    BY DEF DragCursor
  <1>2. c \in CursorIds /\ c \in Live /\ sid[c] = msg[t] /\ c < next_cursorid
    BY <1>0, <1>1 DEF Find, ServerOK
  <1>3. UNCHANGED <<cursors, sid, next_cursorid>> /\ Live' = Live
    BY DEF DragCursor, Live
  <1>4. CASE moved = {} \/ pending[c] = NoBrush
    <2>1. UNCHANGED <<pending, owed>>
      BY <1>1, <1>4 DEF ProcessDrag, brushvars
    <2> QED BY <2>1, <1>3, OwedKept DEF NotesOwed
  <1>5. CASE moved # {} /\ pending[c] # NoBrush
    <2> DEFINE p == pending[c]
               q == LastOf(moved)
               P == Players(sid[c])
    <2>1. q \in P /\ P \subseteq Brushes
      <3>1. moved \in SUBSET Brushes /\ P \subseteq Brushes
        BY <1>1 DEF Players, Audience
      <3>2. q \in moved
        BY <3>1, <1>5, LastOfBrushes
      <3> QED BY <3>1, <3>2, <1>1, <1>2
    <2>2. LiveOwed(c) /\ p \in Brushes /\ owed[p][c] >= 1
      <3>1. c \in Nat /\ next_cursorid \in Nat
        BY <1>0, <1>2 DEF CursorIds, ServerOK
      <3>2. LiveOwed(c)
        BY <3>1, <1>2 DEF NotesOwed
      <3> QED BY <3>2, <1>0, <1>2, <1>5 DEF BrushesOK
    <2>3. p \in P /\ Players(sid[c])' = P
      BY <2>2, <1>5, <1>3 DEF LiveOwed, Players, Audience, hostvars
    <2>4. /\ pending' = [pending EXCEPT ![c] = q]
          /\ owed' = [b \in Brushes |-> [owed[b] EXCEPT ![c] =
                        IF p = q THEN @ ELSE IF b = p THEN @ - 1
                        ELSE IF b = q THEN @ + 1 ELSE @]]
      BY <1>1, <1>5 DEF ProcessDrag
    <2> HIDE DEF p, q, P
    <2>5. /\ \A b \in Brushes : owed[b][c] \in Nat
          /\ \A b \in Brushes : DOMAIN owed[b] = CursorIds
      BY <1>0, <1>2 DEF BrushesOK
    <2>6. /\ pending'[c] = q
          /\ \A b \in Brushes :
                owed'[b][c] = IF p = q THEN owed[b][c] ELSE IF b = p THEN owed[b][c] - 1
                              ELSE IF b = q THEN owed[b][c] + 1 ELSE owed[b][c]
          /\ \A d \in CursorIds : d # c => /\ pending'[d] = pending[d]
                                           /\ \A b \in Brushes : owed'[b][d] = owed[b][d]
      BY <1>0, <1>2, <2>4, <2>5 DEF BrushesOK
    <2>7. OnePlayer(sid[c]) => p = q
      BY <2>1, <2>3 DEF OnePlayer, P
    <2>8. TwoOwed(c) => TwoOwed(c)'
      <3>1. CASE p = q
        BY <3>1, <2>6 DEF TwoOwed
      <3>2. CASE p # q
        <4>1. p \in Brushes /\ q \in Brushes
          BY <2>1, <2>2
        <4>2. ASSUME NEW b \in Brushes, owed[b][c] >= 2
              PROVE  TwoOwed(c)'
          <5>1. CASE b = p
            <6>1. owed'[p][c] >= 1 /\ owed'[q][c] >= 1
              BY <3>2, <4>1, <4>2, <5>1, <2>5, <2>6
            <6> QED BY <6>1, <3>2, <4>1 DEF TwoOwed
          <5>2. CASE b # p
            <6>1. owed'[b][c] >= 2
              BY <3>2, <4>1, <4>2, <5>2, <2>5, <2>6
            <6> QED BY <6>1 DEF TwoOwed
          <5> QED BY <5>1, <5>2
        <4>3. ASSUME NEW a \in Brushes, NEW b \in Brushes, a # b, a # p,
                     owed[a][c] >= 1, owed[b][c] >= 1
              PROVE  TwoOwed(c)'
          <5>1. CASE a = q
            <6>1. owed'[a][c] >= 2
              BY <3>2, <4>1, <4>3, <5>1, <2>5, <2>6
            <6> QED BY <6>1 DEF TwoOwed
          <5>2. CASE a # q
            <6>1. owed'[a][c] >= 1 /\ owed'[q][c] >= 1
              BY <3>2, <4>1, <4>3, <5>2, <2>5, <2>6
            <6> QED BY <6>1, <5>2, <4>1 DEF TwoOwed
          <5> QED BY <5>1, <5>2
        <4> QED BY <4>2, <4>3 DEF TwoOwed
      <3> QED BY <3>1, <3>2
    <2>9. LiveOwed(c)'
      BY <1>3, <2>1, <2>2, <2>3, <2>6, <2>7, <2>8 DEF LiveOwed, OnePlayer, P
    <2>10. ASSUME NEW d \in CursorIds, d # c
           PROVE  IF d >= next_cursorid' THEN NoneOwed(d)' /\ pending'[d] = NoBrush
                  ELSE IF d \in Live' THEN LiveOwed(d)'
                  ELSE NoneOwed(d)' <=> OnePlayer(sid[d])'
      BY <1>3, <2>6, <2>10, OwedKept
    <2>11. c \in Live' /\ ~ (c >= next_cursorid')
      BY <1>0, <1>2, <1>3 DEF CursorIds, ServerOK
    <2> QED BY <2>9, <2>10, <2>11 DEF NotesOwed
  <1> QED BY <1>4, <1>5

\* A cursor that goes up ends one note: the last one, or one of two.
LEMMA UpNotesOwed ==
    ASSUME TypeInv, NotesOwed, UNCHANGED hostvars, CursorUp
    PROVE  NotesOwed'
  <1>u. PICK u : u = cursors[place]
    OBVIOUS
  <1> DEFINE P == Players(sid[u])
  <1>0. ServerOK /\ ThreadsOK /\ BrushesOK /\ Live \subseteq CursorIds
    BY TypeInvParts, LiveType
  <1>1. /\ u \in CursorIds /\ u \in Live /\ Live' = Live \ {u}
        /\ ProcessUp(u) /\ UNCHANGED <<sid, next_cursorid>>
    BY <1>0, <1>u, CursorUpServer DEF CursorUp
  <1>2. IF P = {} \/ pending[u] = NoBrush
        THEN UNCHANGED <<owed, pending>>
        ELSE /\ owed' = [owed EXCEPT ![pending[u]][u] = @ - 1]
             /\ pending' = [pending EXCEPT ![u] = NoBrush]
    BY <1>1 DEF ProcessUp, TrackUp
  <1>3. ~ (u >= next_cursorid) /\ LiveOwed(u)
    <2>1. u \in Nat /\ next_cursorid \in Nat /\ u < next_cursorid
      BY <1>0, <1>1 DEF CursorIds, ServerOK
    <2> QED BY <2>1, <1>1 DEF NotesOwed
  <1>4. NoBrush \notin Brushes /\ P \subseteq Brushes /\ Players(sid[u])' = P
    BY <1>1, CursorsAssumption DEF CursorsAssumption, Players, Audience, hostvars
  <1> HIDE DEF P
  <1>5. NoneOwed(u)' <=> OnePlayer(sid[u])'
    <2>1. CASE P = {}
      <3>1. OnePlayer(sid[u]) /\ OnePlayer(sid[u])' /\ pending[u] = NoBrush
        BY <2>1, <1>3, <1>4 DEF OnePlayer, LiveOwed, P
      <3>2. \A b \in Brushes : owed[b][u] = 0
        BY <3>1, <1>3, <1>4 DEF LiveOwed
      <3> QED BY <3>1, <3>2, <2>1, <1>2 DEF NoneOwed
    <2>2. CASE P # {}
      <3> DEFINE p == pending[u]
      <3>1. p \in P /\ p \in Brushes /\ p # NoBrush /\ owed[p][u] >= 1
        BY <2>2, <1>0, <1>1, <1>3, <1>4 DEF LiveOwed, BrushesOK, P
      <3>2. /\ \A b \in Brushes : owed[b][u] \in Nat
            /\ \A b \in Brushes : owed'[b][u] = IF b = p THEN owed[b][u] - 1 ELSE owed[b][u]
        BY <3>1, <2>2, <1>0, <1>1, <1>2 DEF BrushesOK
      <3> HIDE DEF p
      <3>3. OnePlayer(sid[u])' <=> OnePlayer(sid[u])
        BY <1>4 DEF OnePlayer, P
      <3>4. OnePlayer(sid[u]) => NoneOwed(u)'
        BY <3>2, <1>3 DEF LiveOwed, NoneOwed, p
      <3>5. TwoOwed(u) => ~ NoneOwed(u)'
        <4>1. ASSUME NEW b \in Brushes, owed[b][u] >= 2 \/ (owed[b][u] >= 1 /\ b # p)
              PROVE  owed'[b][u] # 0
          BY <3>2, <4>1
        <4> QED BY <4>1 DEF TwoOwed, NoneOwed
      <3> QED BY <3>3, <3>4, <3>5, <1>3 DEF LiveOwed
    <2> QED BY <2>1, <2>2
  <1>6. ASSUME NEW c \in CursorIds, c # u
        PROVE  IF c >= next_cursorid' THEN NoneOwed(c)' /\ pending'[c] = NoBrush
               ELSE IF c \in Live' THEN LiveOwed(c)'
               ELSE NoneOwed(c)' <=> OnePlayer(sid[c])'
    <2>1. pending'[c] = pending[c] /\ \A b \in Brushes : owed'[b][c] = owed[b][c]
      BY <1>0, <1>1, <1>2, <1>6 DEF BrushesOK
    <2> QED BY <2>1, <1>1, <1>6, OwedKept
  <1> QED BY <1>1, <1>3, <1>5, <1>6 DEF NotesOwed

\* "The note will stay on until you release the cursor", and not longer, unless the host
\* interferes: every note of a cursor that is gone was ended, if at most one brush played
\* its session, for any regions, and however often it was dragged.  If two or more did,
\* as plugins of one pipeline do, a note was left sounding.
THEOREM NotesAreReleased == CursorsSpec => []NotesReleased
  <1>1. TypeInv /\ (HostWasQuiet => NotesOwed) /\ [CursorsNext]_cvars
            => (HostWasQuiet => NotesOwed)'
    <2> SUFFICES ASSUME TypeInv, HostWasQuiet => NotesOwed, [CursorsNext]_cvars,
                        HostWasQuiet'
                 PROVE  NotesOwed'
      OBVIOUS
    <2>1. NotesOwed /\ UNCHANGED hostvars
      BY HostUnchanged
    <2>2. CASE Quiet
      <3>1. UNCHANGED <<cursors, next_cursorid, sid, pending, owed>> /\ Live' = Live
        BY <2>2 DEF Quiet, brushvars, Live
      <3> QED BY <3>1, <2>1, OwedKept DEF NotesOwed
    <2> QED BY <2>1, <2>2, DownNotesOwed, DragNotesOwed, UpNotesOwed, StepKinds
  <1>2. TypeInv /\ (HostWasQuiet => NotesOwed) => NotesReleased
    <2> SUFFICES ASSUME TypeInv, NotesOwed, NEW c \in (1 .. next_cursorid - 1) \ Live
                 PROVE  NoneOwed(c) <=> OnePlayer(sid[c])
      BY DEF NotesReleased
    <2>1. next_cursorid \in 1 .. MaxCursor + 1 /\ MaxCursor \in Nat
      BY CursorsAssumption DEF TypeInv, CursorsTypeOK, CursorsAssumption
    <2>2. c \in CursorIds /\ ~ (c >= next_cursorid)
      BY <2>1 DEF CursorIds
    <2> QED BY <2>2 DEF NotesOwed
  <1> QED BY <1>1, <1>2, InitNotesOwed, SpecTypeInv, PTL DEF CursorsSpec

-----------------------------------------------------------------------------
(* The server implements CursorLife *)

\* No session has two cursors.
UniqueSessions == \A c, d \in Live : Session(c) = Session(d) => c = d

\* A session that has a cursor gets no second one: search and push_back are under one
\* lock, and nobody else adds cursors or changes their sessions.
LEMMA NextUniqueSessions ==
    ASSUME TypeInv, UniqueSessions, [CursorsNext]_cvars
    PROVE  UniqueSessions'
  <1>0. ServerOK /\ ThreadsOK /\ Live \subseteq CursorIds
    BY TypeInvParts, LiveType
  <1>1. ASSUME NEW t \in {Net, Timer}, NewCursor(t)
        PROVE  UniqueSessions'
    <2> DEFINE n == next_cursorid
    <2>1. n \in CursorIds \ Live /\ Live' = Live \cup {n}
      BY <1>0, <1>1, NewCursorServer
    <2>2. /\ sid' = [sid EXCEPT ![n] = msg[t]]
          /\ source' = [source EXCEPT ![n] = SourceOf(t)]
          /\ Find(msg[t], SourceOf(t)) = {}
      BY <1>1 DEF NewCursor
    <2> HIDE DEF n
    <2>3. /\ sid'[n] = msg[t] /\ source'[n] = SourceOf(t)
          /\ \A c \in Live : sid'[c] = sid[c] /\ source'[c] = source[c]
      BY <1>0, <2>1, <2>2 DEF ServerOK
    <2>4. \A c \in Live : ~ (sid[c] = msg[t] /\ source[c] = SourceOf(t))
      BY <2>2 DEF Find
    <2> QED BY <2>1, <2>3, <2>4 DEF UniqueSessions, Session
  <1>2. CASE CursorUp
    <2>1. Live' \subseteq Live
      BY <1>0, <1>2, CursorUpServer
    <2> QED BY <2>1, <1>2 DEF CursorUp, UniqueSessions, Session
  <1>3. CASE Quiet \/ \E t \in {Net, Timer} : DragCursor(t)
    <2>1. UNCHANGED <<cursors, sid, source>>
      BY <1>3 DEF Quiet, DragCursor
    <2> QED BY <2>1 DEF UniqueSessions, Session, Live
  <1> QED BY <1>1, <1>2, <1>3, StepKinds

\* A session has at most one cursor, so that _getCursor finds the one, whatever the two
\* threads and the host do.
THEOREM OneCursorPerSession == CursorsSpec => []UniqueSessions
  <1>1. CursorsInit => UniqueSessions
    BY DEF CursorsInit, UniqueSessions, Live, ToSet
  <1>2. TypeInv /\ UniqueSessions /\ [CursorsNext]_cvars => UniqueSessions'
    BY NextUniqueSessions
  <1> QED BY <1>1, <1>2, SpecTypeInv, PTL DEF CursorsSpec

\* No cursor has begun.
LEMMA InitLife == CursorsInit => Life!LifeInit
  <1> SUFFICES ASSUME CursorsInit PROVE Life!LifeInit
    OBVIOUS
  <1>1. Live = {} /\ next_cursorid = 1 /\ tracked = [b \in Brushes |-> {}]
    BY DEF CursorsInit, Live, ToSet
  <1>2. [c \in Live |-> Session(c)] = [c \in {} |-> 0]
    BY <1>1
  <1> QED BY <1>1, <1>2 DEF Life!LifeInit

\* A new cursor is a Down of its session.
LEMMA NewCursorLife ==
    ASSUME TypeInv, Following, NEW t \in {Net, Timer}, NewCursor(t)
    PROVE  Life!LifeNext
  <1> DEFINE n     == next_cursorid
             s     == <<msg[t], SourceOf(t)>>
             A     == Audience(msg[t])
             owner == [c \in Live |-> Session(c)]
  <1>0. ServerOK /\ ThreadsOK /\ BrushesOK /\ Live \subseteq CursorIds
    BY TypeInvParts, LiveType
  <1>1. n \in CursorIds \ Live /\ Live' = Live \cup {n} /\ n \in Nat
    BY <1>0, NewCursorServer DEF CursorIds
  <1>2. /\ sid' = [sid EXCEPT ![n] = msg[t]]
        /\ source' = [source EXCEPT ![n] = SourceOf(t)]
        /\ next_cursorid' = n + 1
        /\ Find(msg[t], SourceOf(t)) = {}
        /\ tracked' = [b \in Brushes |-> IF b \in A THEN tracked[b] \cup {n} ELSE tracked[b]]
    BY DEF NewCursor, ProcessDown, TrackDown
  <1>3. s \in Sessions /\ A \in SUBSET Brushes
    BY <1>0 DEF ThreadsOK, Sessions, SourceOf, Audience
  <1>4. /\ sid'[n] = msg[t] /\ source'[n] = SourceOf(t)
        /\ \A c \in Live : sid'[c] = sid[c] /\ source'[c] = source[c]
    BY <1>0, <1>1, <1>2 DEF ServerOK
  <1>5. s \notin Life!Range(owner)
    BY <1>2 DEF Life!Range, Find, Session
  <1>6. owner' = [c \in DOMAIN owner \cup {(n - 1) + 1} |->
                      IF c = (n - 1) + 1 THEN s ELSE owner[c]]
    <2>1. (n - 1) + 1 = n /\ DOMAIN owner = Live
      BY <1>1
    <2>2. owner' = [c \in Live \cup {n} |-> IF c = n THEN s ELSE owner[c]]
      BY <1>1, <1>4 DEF Session
    <2> QED BY <2>1, <2>2
  <1>7. next_cursorid' - 1 = (n - 1) + 1
    BY <1>1, <1>2
  <1>8. tracked' = [b \in Brushes |-> IF b \in A THEN tracked[b] \cup {(n - 1) + 1}
                                                 ELSE tracked[b]]
    <2>1. (n - 1) + 1 = n
      BY <1>1
    <2> QED BY <2>1, <1>2
  <1>9. Life!Down(s, A)
    BY <1>5, <1>6, <1>7, <1>8 DEF Life!Down
  <1> QED BY <1>3, <1>9 DEF Life!LifeNext

\* A cursor that goes up, goes up for all that follow it: they are its audience.
LEMMA CursorUpLife ==
    ASSUME TypeInv, Following, CursorUp
    PROVE  Life!LifeNext
  <1> DEFINE u     == cursors[place]
             owner == [c \in Live |-> Session(c)]
  <1>0. ServerOK /\ ThreadsOK /\ BrushesOK
    BY TypeInvParts
  <1>1. u \in Live /\ Live' = Live \ {u} /\ ProcessUp(u)
    BY <1>0, CursorUpServer
  <1>2. UNCHANGED <<sid, source, next_cursorid>>
    BY DEF CursorUp
  <1>3. tracked' = [b \in Brushes |-> tracked[b] \ {u}]
    <2>1. tracked' = [b \in Brushes |-> IF b \in Audience(sid[u]) THEN tracked[b] \ {u}
                                                                 ELSE tracked[b]]
      BY <1>1 DEF ProcessUp, TrackUp
    <2>2. \A b \in Brushes : b \notin Audience(sid[u]) => u \notin tracked[b]
      BY AudienceOf DEF Following
    <2> QED BY <2>1, <2>2
  <1>4. owner' = Life!Restrict(owner, DOMAIN owner \ {u})
    BY <1>1, <1>2 DEF Life!Restrict, Session
  <1>5. Life!Up(u) /\ u \in DOMAIN owner
    BY <1>1, <1>2, <1>3, <1>4 DEF Life!Up
  <1> QED BY <1>5 DEF Life!LifeNext

\* Locks, list, timeout and callbacks implement cursors that begin once, one for a
\* session, and end at once for everybody, if the host leaves the brushes alone.
THEOREM CursorsImplementCursorLife == CursorsSpec => ImplementsCursorLife
  <1>1. TypeInv /\ (HostWasQuiet => Following) /\ [CursorsNext]_cvars
            => [HostWasQuiet' => [Life!LifeNext]_(Life!lifevars)]_cvars
    <2> SUFFICES ASSUME TypeInv, HostWasQuiet => Following, [CursorsNext]_cvars,
                        HostWasQuiet'
                 PROVE  Life!LifeNext \/ UNCHANGED Life!lifevars
      OBVIOUS
    <2>1. Following
      BY HostUnchanged
    <2>2. ASSUME Quiet \/ \E t \in {Net, Timer} : DragCursor(t)
          PROVE  UNCHANGED Life!lifevars
      <3>1. UNCHANGED <<cursors, next_cursorid, sid, source, tracked>>
        BY <2>2 DEF Quiet, DragCursor, ProcessDrag, brushvars
      <3> QED BY <3>1 DEF Life!lifevars, Live, Session
    <2> QED BY <2>1, <2>2, NewCursorLife, CursorUpLife, StepKinds
  <1> QED
    BY <1>1, InitLife, SpecTypeInv, SpecFollowing, PTL DEF CursorsSpec, ImplementsCursorLife
=============================================================================
