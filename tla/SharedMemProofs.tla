--------------------------- MODULE SharedMemProofs ---------------------------
(***************************************************************************)
(* Theorems about SharedMem: its types, that three buffers are enough, and *)
(* that a reader reads the newest whole frame, for any number of programs  *)
(* that read and of frames, though the tracker crashes and starts again.   *)
(***************************************************************************)
EXTENDS SharedMem, TLAPS

\* The mutex is held by the one reader that looks at the header or reads a frame.
MutexInv == \A r \in Readers : pc[r] # "out" <=> mutex = r

\* A buffer is in use for one purpose; only a buffer that is being constructed makes the
\* tracker busy.
BuffersInv ==
    /\ \A b \in Buffers :
          buff_inuse[b] <=> b \in {buff_being_constructed, buff_displayed_last_time,
                                   buff_to_display_next}
    /\ buff_being_constructed # BUFF_UNSET
          => buff_being_constructed \notin {buff_displayed_last_time, buff_to_display_next}
    /\ buff_to_display_next # BUFF_UNSET => buff_to_display_next # buff_displayed_last_time
    /\ tracker = "idle" => buff_being_constructed = BUFF_UNSET
    /\ tracker = "constructing" => buff_being_constructed # BUFF_UNSET /\ frames > 0

\* The buffer that the next reader will display.
Displayed ==
    IF buff_to_display_next # BUFF_UNSET THEN buff_to_display_next
    ELSE buff_displayed_last_time

\* It has the newest frame, and a whole one.
IsNewest(b) ==
    /\ b # BUFF_UNSET /\ content[b] # 0
    /\ \A d \in Buffers : content[d] <= content[b]

\* Once the tracker has published, there is such a buffer; no frame is newer than the last.
ContentInv ==
    /\ \A b \in Buffers : content[b] <= frames
    /\ version_ok /\ seqnum >= 0 => IsNewest(Displayed)

ShmInv ==
    /\ ShmTypeOK /\ MutexInv /\ BuffersInv /\ ContentInv /\ NewestWholeFrame

-----------------------------------------------------------------------------
(* Steps *)

\* The flags stay flags.
LEMMA ShmFlagsStep ==
    ASSUME ShmFlagsOK, [ShmNext]_vars
    PROVE  ShmFlagsOK'
  <1> USE Zenon DEF ShmFlagsOK
  <1>1. CASE UNCHANGED vars
    BY <1>1 DEF vars, header, segment, readers, buffs
  <1>2. CASE CreateSharedMem
    BY <1>2 DEF CreateSharedMem, header, segment, readers, buffs
  <1>3. CASE InitHeader
    BY <1>3 DEF InitHeader, header, segment, readers, buffs
  <1>4. CASE GrabUnusedBuffer
    BY <1>4 DEF GrabUnusedBuffer, header, segment, readers, buffs
  <1>5. CASE Publish
    BY <1>5 DEF Publish, header, segment, readers, buffs
  <1>6. CASE TrackerCloses \/ TrackerCrashes \/ TimePasses
    BY <1>6 DEF TrackerCloses, TrackerCrashes, TimePasses, header, segment, readers, buffs
  <1>7. ASSUME NEW r \in Readers, OpenOutlines(r) \/ LockOutlines(r)
        PROVE  ShmFlagsOK'
    BY <1>7 DEF OpenOutlines, LockOutlines, header, segment, readers, buffs
  <1>8. ASSUME NEW r \in Readers, WrongVersion(r) \/ TooOld(r)
        PROVE  ShmFlagsOK'
    BY <1>8 DEF WrongVersion, TooOld, Unlock, CloseOutlines, header, segment, readers, buffs
  <1>9. ASSUME NEW r \in Readers, NothingNew(r) \/ ProcessCursors(r)
        PROVE  ShmFlagsOK'
    BY <1>9 DEF NothingNew, ProcessCursors, Unlock, header, segment, readers, buffs
  <1>10. ASSUME NEW r \in Readers, TakeFrame(r)
        PROVE  ShmFlagsOK'
    BY <1>10 DEF TakeFrame, Rotate, header, segment, readers, buffs
  <1> QED BY <1>1, <1>2, <1>3, <1>4, <1>5, <1>6, <1>7, <1>8, <1>9, <1>10
         DEF ShmNext, CheckSharedMem

LEMMA ShmDataStep ==
    ASSUME ShmDataOK, BuffersInv, [ShmNext]_vars
    PROVE  ShmDataOK'
  <1> USE SharedMemAssumption DEF ShmDataOK, BufferOrUnset, Buffers, BUFF_UNSET
  <1>1. CASE UNCHANGED vars
    BY <1>1 DEF vars, header, segment, readers, buffs
  <1>2. CASE CreateSharedMem
    BY <1>2 DEF CreateSharedMem, header, segment, readers, buffs
  <1>3. CASE InitHeader
    BY <1>3 DEF InitHeader, header, segment, readers, buffs
  <1>4. CASE GrabUnusedBuffer
    BY <1>4 DEF GrabUnusedBuffer, header, segment, readers, buffs
  <1>5. CASE Publish
    BY <1>5 DEF Publish, BuffersInv, header, segment, readers, buffs
  <1>6. CASE TrackerCloses \/ TrackerCrashes \/ TimePasses
    BY <1>6 DEF TrackerCloses, TrackerCrashes, TimePasses, header, segment, readers, buffs
  <1>7. ASSUME NEW r \in Readers, OpenOutlines(r) \/ LockOutlines(r)
        PROVE  ShmDataOK'
    BY <1>7 DEF OpenOutlines, LockOutlines, header, segment, readers, buffs
  <1>8. ASSUME NEW r \in Readers, WrongVersion(r) \/ TooOld(r)
        PROVE  ShmDataOK'
    BY <1>8 DEF WrongVersion, TooOld, IsNew, NotInitialising, Unlock, CloseOutlines,
                header, segment, readers, buffs
  <1>9. ASSUME NEW r \in Readers, NothingNew(r) \/ ProcessCursors(r)
        PROVE  ShmDataOK'
    BY <1>9 DEF NothingNew, ProcessCursors, Unlock, header, segment, readers, buffs
  <1>10. ASSUME NEW r \in Readers, TakeFrame(r)
        PROVE  ShmDataOK'
    BY <1>10 DEF TakeFrame, Rotate, IsNew, NotInitialising, header, segment, readers, buffs
  <1> QED BY <1>1, <1>2, <1>3, <1>4, <1>5, <1>6, <1>7, <1>8, <1>9, <1>10
         DEF ShmNext, CheckSharedMem

LEMMA MutexStep ==
    ASSUME ShmDataOK, MutexInv, [ShmNext]_vars
    PROVE  MutexInv'
  <1> USE SharedMemAssumption DEF ShmDataOK, MutexInv
  <1>1. CASE UNCHANGED vars
    BY <1>1 DEF vars, header, segment, readers, buffs
  <1>2. CASE CreateSharedMem
    BY <1>2 DEF CreateSharedMem, header, segment, readers, buffs
  <1>3. CASE InitHeader
    BY <1>3 DEF InitHeader, header, segment, readers, buffs
  <1>4. CASE GrabUnusedBuffer
    BY <1>4 DEF GrabUnusedBuffer, header, segment, readers, buffs
  <1>5. CASE Publish
    BY <1>5 DEF Publish, header, segment, readers, buffs
  <1>6. CASE TrackerCloses \/ TrackerCrashes \/ TimePasses
    BY <1>6 DEF TrackerCloses, TrackerCrashes, TimePasses, header, segment, readers, buffs
  <1>7. ASSUME NEW r \in Readers, OpenOutlines(r) \/ LockOutlines(r)
        PROVE  MutexInv'
    BY <1>7 DEF OpenOutlines, LockOutlines, header, segment, readers, buffs
  <1>8. ASSUME NEW r \in Readers, WrongVersion(r) \/ TooOld(r)
        PROVE  MutexInv'
    BY <1>8 DEF WrongVersion, TooOld, Unlock, CloseOutlines, header, segment, readers, buffs
  <1>9. ASSUME NEW r \in Readers, NothingNew(r) \/ ProcessCursors(r)
        PROVE  MutexInv'
    BY <1>9 DEF NothingNew, ProcessCursors, Unlock, header, segment, readers, buffs
  <1>10. ASSUME NEW r \in Readers, TakeFrame(r)
        PROVE  MutexInv'
    BY <1>10 DEF TakeFrame, Rotate, header, segment, readers, buffs
  <1> QED BY <1>1, <1>2, <1>3, <1>4, <1>5, <1>6, <1>7, <1>8, <1>9, <1>10
         DEF ShmNext, CheckSharedMem

\* A buffer is freed when nothing needs it any more, and no sooner.
LEMMA BuffersStep ==
    ASSUME ShmTypeOK, BuffersInv, [ShmNext]_vars
    PROVE  BuffersInv'
  <1> USE SharedMemAssumption DEF ShmTypeOK, ShmFlagsOK, ShmDataOK, BuffersInv, BufferOrUnset,
          Buffers, BUFF_UNSET
  <1>1. CASE UNCHANGED vars
    BY <1>1 DEF vars, header, segment, readers, buffs
  <1>2. CASE CreateSharedMem
    BY <1>2 DEF CreateSharedMem, header, segment, readers, buffs
  <1>3. CASE InitHeader
    BY <1>3 DEF InitHeader, header, segment, readers, buffs
  <1>4. CASE GrabUnusedBuffer
    BY <1>4 DEF GrabUnusedBuffer, header, segment, readers, buffs
  <1>5. CASE Publish
    <2>1. /\ buff_being_constructed \in Buffers
          /\ buff_being_constructed \notin {buff_displayed_last_time, buff_to_display_next}
      BY <1>5 DEF Publish
    <2>2. \A b \in Buffers : buff_inuse'[b] <=> b # buff_to_display_next /\ buff_inuse[b]
      BY Zenon, <1>5 DEF Publish
    <2>3. /\ buff_to_display_next' = buff_being_constructed
          /\ buff_being_constructed' = -1 /\ tracker' = "idle"
          /\ buff_displayed_last_time' = buff_displayed_last_time
      BY <1>5 DEF Publish
    <2>4. \A b \in Buffers : buff_inuse'[b] <=> b \in {buff_being_constructed',
                                     buff_displayed_last_time', buff_to_display_next'}
      BY <2>1, <2>2, <2>3
    <2> QED BY <2>1, <2>3, <2>4
  <1>6. CASE TrackerCloses \/ TrackerCrashes \/ TimePasses
    BY <1>6 DEF TrackerCloses, TrackerCrashes, TimePasses, header, segment, readers, buffs
  <1>7. ASSUME NEW r \in Readers, OpenOutlines(r) \/ LockOutlines(r)
        PROVE  BuffersInv'
    BY <1>7 DEF OpenOutlines, LockOutlines, header, segment, readers, buffs
  <1>8. ASSUME NEW r \in Readers, WrongVersion(r) \/ TooOld(r)
        PROVE  BuffersInv'
    BY <1>8 DEF WrongVersion, TooOld, Unlock, CloseOutlines, header, segment, readers, buffs
  <1>9. ASSUME NEW r \in Readers, NothingNew(r) \/ ProcessCursors(r)
        PROVE  BuffersInv'
    BY <1>9 DEF NothingNew, ProcessCursors, Unlock, header, segment, readers, buffs
  <1>10. ASSUME NEW r \in Readers, TakeFrame(r)
        PROVE  BuffersInv'
    BY <1>10 DEF TakeFrame, Rotate, header, segment, readers, buffs
  <1> QED BY <1>1, <1>2, <1>3, <1>4, <1>5, <1>6, <1>7, <1>8, <1>9, <1>10
         DEF ShmNext, CheckSharedMem

\* The newest frame is published in a buffer that stays as it is until there is a newer one.
LEMMA ContentStep ==
    ASSUME ShmTypeOK, BuffersInv, ContentInv, [ShmNext]_vars
    PROVE  ContentInv'
  <1> USE SharedMemAssumption DEF ShmTypeOK, ShmDataOK, BuffersInv, ContentInv, BufferOrUnset,
          Buffers, BUFF_UNSET, Displayed, IsNewest
  <1>1. CASE UNCHANGED vars
    BY <1>1 DEF vars, header, segment, readers, buffs
  <1>2. CASE CreateSharedMem
    BY <1>2 DEF CreateSharedMem, header, segment, readers, buffs
  <1>3. CASE InitHeader
    BY <1>3 DEF InitHeader, header, segment, readers, buffs
  <1>4. CASE GrabUnusedBuffer
    BY <1>4 DEF GrabUnusedBuffer, header, segment, readers, buffs
  <1>5. CASE Publish
    BY <1>5 DEF Publish, header, segment, readers, buffs
  <1>6. CASE TrackerCloses \/ TrackerCrashes \/ TimePasses
    BY <1>6 DEF TrackerCloses, TrackerCrashes, TimePasses, header, segment, readers, buffs
  <1>7. ASSUME NEW r \in Readers, OpenOutlines(r) \/ LockOutlines(r)
        PROVE  ContentInv'
    BY <1>7 DEF OpenOutlines, LockOutlines, header, segment, readers, buffs
  <1>8. ASSUME NEW r \in Readers, WrongVersion(r) \/ TooOld(r)
        PROVE  ContentInv'
    BY <1>8 DEF WrongVersion, TooOld, Unlock, CloseOutlines, header, segment, readers, buffs
  <1>9. ASSUME NEW r \in Readers, NothingNew(r) \/ ProcessCursors(r)
        PROVE  ContentInv'
    BY <1>9 DEF NothingNew, ProcessCursors, Unlock, header, segment, readers, buffs
  <1>10. ASSUME NEW r \in Readers, TakeFrame(r)
        PROVE  ContentInv'
    BY <1>10 DEF TakeFrame, Rotate, header, segment, readers, buffs
  <1> QED BY <1>1, <1>2, <1>3, <1>4, <1>5, <1>6, <1>7, <1>8, <1>9, <1>10
         DEF ShmNext, CheckSharedMem

\* Nothing is written to the buffer that a reader reads, as the reader has the mutex.
LEMMA ReadStep ==
    ASSUME ShmDataOK, MutexInv, ContentInv, NewestWholeFrame, [ShmNext]_vars
    PROVE  NewestWholeFrame'
  <1> USE SharedMemAssumption DEF ShmDataOK, MutexInv, NewestWholeFrame, Buffers
  <1>1. CASE UNCHANGED vars
    BY <1>1 DEF vars, header, segment, readers, buffs
  <1>2. CASE CreateSharedMem
    BY <1>2 DEF CreateSharedMem, header, segment, readers, buffs
  <1>3. CASE InitHeader
    BY <1>3 DEF InitHeader, header, segment, readers, buffs
  <1>4. CASE GrabUnusedBuffer
    BY <1>4 DEF GrabUnusedBuffer, header, segment, readers, buffs
  <1>5. CASE Publish
    BY <1>5 DEF Publish, header, segment, readers, buffs
  <1>6. CASE TrackerCloses \/ TrackerCrashes \/ TimePasses
    BY <1>6 DEF TrackerCloses, TrackerCrashes, TimePasses, header, segment, readers, buffs
  <1>7. ASSUME NEW r \in Readers, OpenOutlines(r) \/ LockOutlines(r)
        PROVE  NewestWholeFrame'
    BY <1>7 DEF OpenOutlines, LockOutlines, header, segment, readers, buffs
  <1>8. ASSUME NEW r \in Readers, WrongVersion(r) \/ TooOld(r)
        PROVE  NewestWholeFrame'
    BY <1>8 DEF WrongVersion, TooOld, Unlock, CloseOutlines, header, segment, readers, buffs
  <1>9. ASSUME NEW r \in Readers, NothingNew(r) \/ ProcessCursors(r)
        PROVE  NewestWholeFrame'
    BY <1>9 DEF NothingNew, ProcessCursors, Unlock, header, segment, readers, buffs
  <1>10. ASSUME NEW r \in Readers, TakeFrame(r)
        PROVE  NewestWholeFrame'
    BY <1>10 DEF TakeFrame, Rotate, IsNew, NotInitialising, ContentInv, Displayed,
                 IsNewest, BUFF_UNSET, header, segment, readers, buffs
  <1> QED BY <1>1, <1>2, <1>3, <1>4, <1>5, <1>6, <1>7, <1>8, <1>9, <1>10
         DEF ShmNext, CheckSharedMem

LEMMA ShmInvInit == ShmInit => ShmInv
  <1> SUFFICES ASSUME ShmInit PROVE ShmInv
    OBVIOUS
  <1>1. ShmFlagsOK
    BY Zenon DEF ShmInit, ShmFlagsOK
  <1>2. ShmDataOK
    BY SharedMemAssumption DEF ShmInit, ShmDataOK, BufferOrUnset
  <1>3. MutexInv /\ NewestWholeFrame
    BY SharedMemAssumption DEF ShmInit, MutexInv, NewestWholeFrame
  <1>4. BuffersInv
    BY DEF ShmInit, BuffersInv, Buffers, BUFF_UNSET
  <1>5. ContentInv
    BY DEF ShmInit, ContentInv
  <1> QED BY <1>1, <1>2, <1>3, <1>4, <1>5 DEF ShmInv, ShmTypeOK

LEMMA ShmInvStep == ShmInv /\ [ShmNext]_vars => ShmInv'
  BY ShmFlagsStep, ShmDataStep, MutexStep, BuffersStep, ContentStep, ReadStep
     DEF ShmInv, ShmTypeOK

LEMMA SpecShmInv == ShmSpec => []ShmInv
  BY ShmInvInit, ShmInvStep, PTL DEF ShmSpec

-----------------------------------------------------------------------------
(* Theorems *)

\* Tracker and readers keep the types of the header and of their own variables.
THEOREM ShmTypeCorrect == ShmSpec => []ShmTypeOK
  <1>1. ShmInv => ShmTypeOK
    BY DEF ShmInv
  <1> QED BY <1>1, SpecShmInv, PTL

\* When the tracker wants a buffer, at most two are in use, by any number of readers.
THEOREM ThreeBuffersAreEnough == ShmSpec => []AlwaysAFreeBuffer
  <1>1. ShmInv => AlwaysAFreeBuffer
    BY DEF ShmInv, BuffersInv, AlwaysAFreeBuffer, Buffers, BUFF_UNSET
  <1> QED BY <1>1, SpecShmInv, PTL

\* Whoever makes cursors from a frame makes them from the newest one, and a whole one, in
\* spite of crashes and restarts of the tracker and of other readers.
THEOREM ReadersSeeTheNewestFrame == ShmSpec => []NewestWholeFrame
  <1>1. ShmInv => NewestWholeFrame
    BY DEF ShmInv
  <1> QED BY <1>1, SpecShmInv, PTL
=============================================================================
