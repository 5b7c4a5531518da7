----------------------------- MODULE NetworkProofs -----------------------------
(***************************************************************************)
(* Theorems about the network thread.  First of SocketServer, for any      *)
(* number of handles, any limit and messages in any number of pieces: the  *)
(* list keeps every socket once, connected is true of it, and messages     *)
(* stay whole.  Then of Streams, for any lengths, words and bytes:         *)
(* requests and OSC messages are read as they were sent, in whatever       *)
(* pieces they come.                                                       *)
(***************************************************************************)
EXTENDS SocketServer, Streams, SequenceTheorems, TLAPS

\* The event that is served is one of the list's, and of a peer once data was read.
EventInList ==
    /\ pc \in {"event", "check", "hello"} => wait_index \in 1 .. Len(list)
    /\ pc \in {"check", "hello"} => wait_index # 1

\* Nothing is known of a handle that is closed.
ClosedIsForgotten ==
    \A h \in Handles \ open :
        record[h] = {} /\ ~ gone[h] /\ ~ blocked[h] /\ expects[h] = 0 /\ ~ torn[h]

\* The inductive invariant.  Types alone are not inductive: that SendRest leaves
\* expects a natural number rests on WholeMessages, and this one on the others.
SocketsInv ==
    /\ SocketsTypeOK
    /\ EverySocketOnce
    /\ ConnectedIsTrue
    /\ WholeMessages
    /\ EventInList
    /\ ClosedIsForgotten

-----------------------------------------------------------------------------
(* The list *)

\* The fields of a connection.
LEMMA ConnectionFields ==
    ASSUME NEW c \in Connection
    PROVE  /\ c.sock \in Handles \cup {Listener}
           /\ c.closed \in BOOLEAN /\ c.shutdown \in BOOLEAN
           /\ c.rest \in 0 .. MaxPieces
  BY DEF Connection

\* Every connection behind the first has a handle, which is open.
LEMMA PeerOf ==
    ASSUME SocketsInv, NEW i \in 2 .. Len(list)
    PROVE  /\ list[i] \in Connection
           /\ list[i].sock \in Handles /\ list[i].sock \in open
           /\ list[i].rest \in 0 .. MaxPieces
  <1>1. /\ list \in Seq(Connection) /\ Len(list) \in Nat /\ i \in 1 .. Len(list)
        /\ 1 \in 1 .. Len(list)
    BY SocketsAssumption DEF SocketsInv, SocketsTypeOK, SocketsAssumption
  <1>2. list[i] \in Connection
    BY <1>1, ElementOfSeq
  <1>3. list[i].sock # list[1].sock /\ list[1].sock = Listener /\ list[i].sock \in open
    BY <1>1 DEF SocketsInv, EverySocketOnce
  <1> QED BY <1>2, <1>3, ConnectionFields

\* Filling the gap keeps all connections but the removed one.
LEMMA FillIsSeq ==
    ASSUME list \in Seq(Connection), NEW i \in 1 .. Len(list)
    PROVE  /\ Fill(i) \in Seq(Connection)
           /\ Len(Fill(i)) = Len(list) - 1
           /\ \A k \in 1 .. Len(list) - 1 :
                 Fill(i)[k] = IF k = i THEN list[Len(list)] ELSE list[k]
  <1> DEFINE n == Len(list) - 1
             f == [k \in 1 .. n |-> IF k = i THEN list[Len(list)] ELSE list[k]]
  <1>1. Len(list) \in Nat /\ n \in Nat /\ Len(list) \in 1 .. Len(list)
    BY LenProperties
  <1>2. \A k \in 1 .. Len(list) : list[k] \in Connection
    BY ElementOfSeq
  <1>3. f \in [1 .. n -> Connection]
    BY <1>1, <1>2
  <1>4. f \in Seq(Connection)
    <2> HIDE DEF f
    <2> QED BY <1>1, <1>3, SeqDef
  <1>5. Len(f) = n
    <2>1. DOMAIN f = 1 .. n
      OBVIOUS
    <2> HIDE DEF f
    <2> QED BY <1>1, <1>4, <2>1, LenProperties
  <1> QED BY <1>4, <1>5 DEF Fill

\* Putting a connection back with the same socket leaves the sockets as they were.
LEMMA SameSockets ==
    ASSUME SocketsInv, NEW i \in 2 .. Len(list), NEW e \in Connection,
           e.sock = list[i].sock, list' = [list EXCEPT ![i] = e],
           UNCHANGED <<connected, open>>
    PROVE  /\ list' \in Seq(Connection) /\ Len(list') = Len(list)
           /\ \A k \in 1 .. Len(list) : list'[k] = IF k = i THEN e ELSE list[k]
           /\ \A k \in 1 .. Len(list) : list'[k].sock = list[k].sock
           /\ EverySocketOnce' /\ ConnectedIsTrue'
  <1>1. /\ list \in Seq(Connection) /\ Len(list) \in Nat /\ i \in 1 .. Len(list)
        /\ 1 \in 1 .. Len(list)
    BY SocketsAssumption DEF SocketsInv, SocketsTypeOK, SocketsAssumption
  <1>2. /\ list' \in Seq(Connection) /\ Len(list') = Len(list)
        /\ \A k \in 1 .. Len(list) : list'[k] = IF k = i THEN e ELSE list[k]
    BY <1>1, ExceptSeq
  <1>3. \A k \in 1 .. Len(list) : list'[k].sock = list[k].sock
    BY <1>2
  <1>4. EverySocketOnce'
    BY <1>1, <1>2, <1>3 DEF SocketsInv, EverySocketOnce
  <1>5. ConnectedIsTrue'
    BY <1>2 DEF SocketsInv, ConnectedIsTrue
  <1> QED BY <1>2, <1>3, <1>4, <1>5

-----------------------------------------------------------------------------
(* Operators that several actions use *)

\* Remove keeps every other connection once, wherever it goes, and forgets this one.
LEMMA RemoveKeeps ==
    ASSUME SocketsInv, NEW i \in 2 .. Len(list), Remove(i),
           pc' = "loop", UNCHANGED <<wait_index, calling>>
    PROVE  SocketsInv'
  <1> DEFINE h == list[i].sock
             N == Len(list)
  <1>1. /\ list \in Seq(Connection) /\ N \in Nat /\ i \in 1 .. N /\ N \in 2 .. N
        /\ 1 \in 1 .. N /\ N <= MaxSockets /\ MaxSockets \in Nat
    BY SocketsAssumption DEF SocketsInv, SocketsTypeOK, SocketsAssumption
  <1>2. /\ list' \in Seq(Connection) /\ Len(list') = N - 1
        /\ \A k \in 1 .. N - 1 : list'[k] = IF k = i THEN list[N] ELSE list[k]
    BY <1>1, FillIsSeq DEF Remove
  <1>3. h \in Handles /\ h \in open /\ h # Listener
    BY PeerOf, SocketsAssumption DEF SocketsAssumption
  <1>4. /\ open' = open \ {h}
        /\ record' = [record EXCEPT ![h] = {}]
        /\ gone' = [gone EXCEPT ![h] = FALSE]
        /\ blocked' = [blocked EXCEPT ![h] = FALSE]
        /\ expects' = [expects EXCEPT ![h] = 0]
        /\ torn' = [torn EXCEPT ![h] = FALSE]
    BY DEF Remove, Close
  <1>5. \A k, l \in 1 .. N : list[k].sock = list[l].sock => k = l
    BY DEF SocketsInv, EverySocketOnce
  <1>6. SocketsTypeOK'
    <2>1. connected' \in BOOLEAN
      BY DEF Remove, SocketsInv, SocketsTypeOK
    <2>2. 0 \in 0 .. MaxPieces
      BY SocketsAssumption DEF SocketsAssumption
    <2> HIDE DEF h
    <2> QED BY <1>1, <1>2, <1>3, <1>4, <2>1, <2>2 DEF SocketsInv, SocketsTypeOK
  <1>7. EverySocketOnce'
    <2>1. ASSUME NEW k \in 1 .. N - 1, NEW l \in 1 .. N - 1, list'[k].sock = list'[l].sock
          PROVE  k = l
      <3> DEFINE from(j) == IF j = i THEN N ELSE j
      <3>1. \A j \in 1 .. N - 1 : from(j) \in 1 .. N /\ list'[j] = list[from(j)]
        BY <1>1, <1>2
      <3>2. from(k) = from(l)
        <4> HIDE DEF from, N
        <4> QED BY <1>5, <2>1, <3>1
      <3> QED BY <1>1, <3>2
    <2>2. list'[1].sock = Listener
      BY <1>1, <1>2 DEF SocketsInv, EverySocketOnce
    <2>3. ASSUME NEW k \in 1 .. N - 1 PROVE list'[k].sock \in open \ {h}
      BY <1>1, <1>2, <1>5 DEF SocketsInv, EverySocketOnce
    <2>4. ASSUME NEW o \in open \ {h} PROVE \E k \in 1 .. N - 1 : list'[k].sock = o
      <3>1. PICK k \in 1 .. N : list[k].sock = o
        BY DEF SocketsInv, EverySocketOnce
      <3>2. CASE k = N
        <4>1. i # N
          BY <3>1, <3>2
        <4> QED BY <4>1, <3>1, <3>2, <1>1, <1>2
      <3>3. CASE k # N
        BY <3>1, <3>3, <1>1, <1>2
      <3> QED BY <3>2, <3>3
    <2>5. open' = {list'[k].sock : k \in 1 .. N - 1}
      <3> HIDE DEF h, N
      <3> QED BY <2>3, <2>4, <1>4
    <2> HIDE DEF h, N
    <2> QED BY <2>1, <2>2, <2>5, <1>2 DEF EverySocketOnce
  <1>8. ConnectedIsTrue'
    <2>1. connected' <=> connected /\ N > 2
      BY DEF Remove
    <2>2. connected <=> N > 1
      BY DEF SocketsInv, ConnectedIsTrue
    <2> QED BY <2>1, <2>2, <1>1, <1>2 DEF ConnectedIsTrue
  <1>9. WholeMessages'
    <2> SUFFICES ASSUME NEW k \in 2 .. Len(list'), ~ gone'[list'[k].sock]
                 PROVE  ~ torn'[list'[k].sock] /\ list'[k].rest = expects'[list'[k].sock]
      BY DEF WholeMessages
    <2>1. PICK l \in 2 .. N : l # i /\ list'[k] = list[l]
      BY <1>1, <1>2
    <2>2. list[l].sock \in Handles /\ list[l].sock # h
      BY <2>1, <1>1, <1>5, PeerOf
    <2>3. ~ gone[list[l].sock] => ~ torn[list[l].sock] /\ list[l].rest = expects[list[l].sock]
      BY DEF SocketsInv, WholeMessages
    <2> HIDE DEF h
    <2> QED BY <2>1, <2>2, <2>3, <1>4 DEF SocketsInv, SocketsTypeOK
  <1>10. EventInList'
    BY DEF EventInList
  <1>11. ClosedIsForgotten'
    <2> HIDE DEF h
    <2> QED BY <1>3, <1>4 DEF SocketsInv, SocketsTypeOK, ClosedIsForgotten
  <1> QED BY <1>6, <1>7, <1>8, <1>9, <1>10, <1>11 DEF SocketsInv

\* SendTo buffers what is still to come, unless the peer is gone.
LEMMA SendToKeeps ==
    ASSUME SocketsInv, pc \in {"check", "hello"}, NEW n \in 1 .. MaxPieces,
           NEW after \in Connection, after.sock = list[wait_index].sock,
           after.rest = list[wait_index].rest,
           SendTo(wait_index, n, after), pc' \in {"loop", "hello"},
           UNCHANGED <<connected, wait_index, open, calling, record, gone>>
    PROVE  SocketsInv'
  <1> DEFINE i == wait_index
             h == list[i].sock
  <1>1. /\ i \in 2 .. Len(list) /\ i \in 1 .. Len(list) /\ Len(list) \in Nat
        /\ MaxPieces \in Nat
    BY SocketsAssumption DEF SocketsInv, EventInList, SocketsTypeOK, SocketsAssumption
  <1>2. h \in Handles /\ h \in open
    BY <1>1, PeerOf
  <1>3. \A k, l \in 1 .. Len(list) : list[k].sock = list[l].sock => k = l
    BY DEF SocketsInv, EverySocketOnce
  <1>4. /\ expects \in [Handles -> 0 .. MaxPieces] /\ torn \in [Handles -> BOOLEAN]
        /\ blocked \in [Handles -> BOOLEAN] /\ gone \in [Handles -> BOOLEAN]
    BY DEF SocketsInv, SocketsTypeOK
  <1>5. ~ gone[h] => ~ torn[h] /\ list[i].rest = expects[h]
    BY <1>1 DEF SocketsInv, WholeMessages
  <1>6. \E e \in Connection :
           /\ e.sock = h /\ list' = [list EXCEPT ![i] = e]
           /\ expects' \in [Handles -> 0 .. MaxPieces] /\ torn' \in [Handles -> BOOLEAN]
           /\ blocked' \in [Handles -> BOOLEAN]
           /\ ~ gone[h] => ~ torn'[h] /\ e.rest = expects'[h]
           /\ \A g \in Handles \ {h} : /\ expects'[g] = expects[g] /\ torn'[g] = torn[g]
                                       /\ blocked'[g] = blocked[g]
    <2>1. CASE CanSend(list[i])
      <3>1. PICK went \in 0 .. n : \E buffered \in {0, n - went} :
                /\ went < n /\ buffered = 0 => gone[h]
                /\ list' = [list EXCEPT ![i] = [after EXCEPT !.rest = buffered]]
                /\ IF gone[h] THEN UNCHANGED <<expects, torn>>
                   ELSE /\ expects' = [expects EXCEPT ![h] = n - went]
                        /\ torn' = [torn EXCEPT ![h] = @ \/ (went > 0 /\ expects[h] > 0)]
                /\ blocked' = [blocked EXCEPT ![h] = @ \/ buffered > 0]
        BY <2>1 DEF SendTo
      <3>2. PICK buffered \in {0, n - went} :
                /\ went < n /\ buffered = 0 => gone[h]
                /\ list' = [list EXCEPT ![i] = [after EXCEPT !.rest = buffered]]
                /\ IF gone[h] THEN UNCHANGED <<expects, torn>>
                   ELSE /\ expects' = [expects EXCEPT ![h] = n - went]
                        /\ torn' = [torn EXCEPT ![h] = @ \/ (went > 0 /\ expects[h] > 0)]
                /\ blocked' = [blocked EXCEPT ![h] = @ \/ buffered > 0]
        BY <3>1
      <3> DEFINE e == [after EXCEPT !.rest = buffered]
      <3>3. buffered \in 0 .. MaxPieces /\ n - went \in 0 .. MaxPieces
        BY <1>1
      <3>4. e \in Connection /\ e.sock = h /\ e.rest = buffered
        BY <3>3 DEF Connection
      <3>5. list[i].rest = 0
        BY <2>1 DEF CanSend
      <3>6. CASE gone[h]
        <4>1. expects' = expects /\ torn' = torn
          BY <3>2, <3>6
        <4> QED BY <4>1, <3>2, <3>4, <3>6, <1>2, <1>4
      <3>7. CASE ~ gone[h]
        <4>1. expects' = [expects EXCEPT ![h] = n - went]
              /\ torn' = [torn EXCEPT ![h] = @ \/ (went > 0 /\ expects[h] > 0)]
          BY <3>2, <3>7
        <4>2. expects[h] = 0 /\ ~ torn[h]
          BY <1>5, <3>5, <3>7
        <4>3. torn' = [torn EXCEPT ![h] = FALSE]
          <5> DEFINE mixed == went > 0 /\ expects[h] > 0
          <5>1. ~ mixed
            BY <4>2
          <5>2. torn' = [torn EXCEPT ![h] = @ \/ mixed]
            BY <4>1
          <5> HIDE DEF mixed, h
          <5>3. (torn[h] \/ mixed) = FALSE
            BY <5>1, <4>2
          <5> QED BY <5>2, <5>3, Zenon
        <4>4. buffered = n - went
          BY <3>2, <3>7
        <4>5. /\ e \in Connection /\ e.sock = h /\ list' = [list EXCEPT ![i] = e]
              /\ e.rest = n - went
          BY <4>4, <3>2, <3>4
        <4> HIDE DEF h, e
        <4>6. /\ expects' \in [Handles -> 0 .. MaxPieces] /\ expects'[h] = n - went
              /\ \A g \in Handles \ {h} : expects'[g] = expects[g]
          BY <4>1, <3>3, <1>2, <1>4
        <4>7. /\ torn' \in [Handles -> BOOLEAN] /\ torn'[h] = FALSE
              /\ \A g \in Handles \ {h} : torn'[g] = torn[g]
          BY <4>3, <1>2, <1>4
        <4>8. /\ blocked' \in [Handles -> BOOLEAN]
              /\ \A g \in Handles \ {h} : blocked'[g] = blocked[g]
          BY <3>2, <1>2, <1>4
        <4> QED BY <4>5, <4>6, <4>7, <4>8
      <3> QED BY <3>6, <3>7
    <2>2. CASE ~ CanSend(list[i])
      <3>1. list' = [list EXCEPT ![i] = after] /\ UNCHANGED <<expects, torn, blocked>>
        BY <2>2 DEF SendTo
      <3> QED BY <3>1, <1>2, <1>4, <1>5
    <2> QED BY <2>1, <2>2
  <1>7. PICK e \in Connection :
           /\ e.sock = h /\ list' = [list EXCEPT ![i] = e]
           /\ expects' \in [Handles -> 0 .. MaxPieces] /\ torn' \in [Handles -> BOOLEAN]
           /\ blocked' \in [Handles -> BOOLEAN]
           /\ ~ gone[h] => ~ torn'[h] /\ e.rest = expects'[h]
           /\ \A g \in Handles \ {h} : /\ expects'[g] = expects[g] /\ torn'[g] = torn[g]
                                       /\ blocked'[g] = blocked[g]
    BY <1>6
  <1>8. /\ list' \in Seq(Connection) /\ Len(list') = Len(list)
        /\ \A k \in 1 .. Len(list) : list'[k] = IF k = i THEN e ELSE list[k]
        /\ EverySocketOnce' /\ ConnectedIsTrue'
    BY <1>1, <1>7, SameSockets
  <1>9. SocketsTypeOK'
    BY <1>7, <1>8 DEF SocketsInv, SocketsTypeOK
  <1>10. WholeMessages'
    <2> SUFFICES ASSUME NEW k \in 2 .. Len(list), ~ gone[list'[k].sock]
                 PROVE  ~ torn'[list'[k].sock] /\ list'[k].rest = expects'[list'[k].sock]
      BY <1>8 DEF WholeMessages
    <2>1. CASE k = i
      BY <2>1, <1>1, <1>7, <1>8
    <2>2. CASE k # i
      <3>1. list'[k] = list[k] /\ list[k].sock \in Handles \ {h}
        BY <2>2, <1>1, <1>3, <1>8, PeerOf
      <3>2. ~ gone[list[k].sock] => ~ torn[list[k].sock] /\ list[k].rest = expects[list[k].sock]
        BY DEF SocketsInv, WholeMessages
      <3> QED BY <3>1, <3>2, <1>7
    <2> QED BY <2>1, <2>2
  <1>11. EventInList' /\ ClosedIsForgotten'
    BY <1>2, <1>7, <1>8 DEF SocketsInv, EventInList, ClosedIsForgotten
  <1> QED BY <1>8, <1>9, <1>10, <1>11 DEF SocketsInv

-----------------------------------------------------------------------------
(* The steps *)

\* At first only the listening socket is there.
LEMMA SocketsInvInit == SocketsInit => SocketsInv
  <1> SUFFICES ASSUME SocketsInit PROVE SocketsInv
    OBVIOUS
  <1>1. /\ MaxSockets \in Nat /\ 1 <= MaxSockets /\ 0 \in 0 .. MaxPieces
        /\ NewConnection(Listener) \in Connection
    BY SocketsAssumption DEF SocketsAssumption, NewConnection, Connection
  <1>2. list = <<NewConnection(Listener)>> /\ list[1].sock = Listener
    BY DEF SocketsInit, NewConnection
  <1> DEFINE c == NewConnection(Listener)
  <1> HIDE DEF c
  <1>3. list \in Seq(Connection) /\ Len(list) = 1
    BY <1>1, <1>2 DEF c
  <1>4. SocketsTypeOK
    <2>1. wait_index \in 0 .. MaxSockets /\ Len(list) \in 1 .. MaxSockets
      BY <1>1, <1>3 DEF SocketsInit
    <2>2. /\ expects \in [Handles -> 0 .. MaxPieces]
          /\ record \in [Handles -> SUBSET {"read", "write", "close"}]
          /\ gone \in [Handles -> BOOLEAN] /\ blocked \in [Handles -> BOOLEAN]
          /\ torn \in [Handles -> BOOLEAN]
      BY <1>1 DEF SocketsInit
    <2>3. /\ connected \in BOOLEAN /\ calling \in BOOLEAN /\ pc = "loop"
          /\ open \subseteq Handles \cup {Listener}
      BY DEF SocketsInit
    <2> QED BY <1>3, <2>1, <2>2, <2>3 DEF SocketsTypeOK
  <1>5. EverySocketOnce /\ ConnectedIsTrue /\ WholeMessages
    <2>1. EverySocketOnce
      <3>1. {list[i].sock : i \in 1 .. Len(list)} = {Listener}
        BY <1>2, <1>3
      <3>2. \A i, k \in 1 .. Len(list) : i = k
        BY <1>3
      <3> QED BY <3>1, <3>2, <1>2 DEF SocketsInit, EverySocketOnce
    <2>2. ConnectedIsTrue
      BY <1>3 DEF SocketsInit, ConnectedIsTrue
    <2>3. WholeMessages
      BY <1>3 DEF WholeMessages
    <2> QED BY <2>1, <2>2, <2>3
  <1>6. EventInList /\ ClosedIsForgotten
    BY DEF SocketsInit, EventInList, ClosedIsForgotten
  <1> QED BY <1>4, <1>5, <1>6 DEF SocketsInv

\* Accept adds a connection that nobody knows anything of at the end, if there is room.
LEMMA AcceptKeeps ==
    ASSUME SocketsInv, Accept
    PROVE  SocketsInv'
  <1> DEFINE N == Len(list)
  <1>1. /\ list \in Seq(Connection) /\ N \in Nat /\ 1 \in 1 .. N
        /\ MaxSockets \in Nat /\ 0 \in 0 .. MaxPieces
    BY SocketsAssumption DEF SocketsInv, SocketsTypeOK, SocketsAssumption
  <1>2. CASE AcceptCondition
    <2>1. PICK h \in Handles \ open :
             /\ open' = open \cup {h}
             /\ list' = Append(list, NewConnection(h))
             /\ record' = [record EXCEPT ![h] = {"write"}]
             /\ connected' = TRUE
      BY <1>2 DEF Accept
    <2> DEFINE c == NewConnection(h)
    <2>2. c \in Connection /\ c.sock = h /\ c.rest = 0
      BY <1>1 DEF NewConnection, Connection
    <2> HIDE DEF c
    <2>3. /\ list' \in Seq(Connection) /\ Len(list') = N + 1
          /\ \A k \in 1 .. N + 1 : list'[k] = IF k = N + 1 THEN c ELSE list[k]
      BY <2>1, <2>2, <1>1, AppendProperties DEF c
    <2>4. /\ calling' = FALSE /\ pc' = "loop"
          /\ UNCHANGED <<wait_index, gone, blocked, expects, torn>>
      BY DEF Accept
    <2>5. N < MaxSockets
      BY <1>2 DEF AcceptCondition
    <2>6. SocketsTypeOK'
      <3>1. record' \in [Handles -> SUBSET {"read", "write", "close"}]
        BY <2>1 DEF SocketsInv, SocketsTypeOK
      <3>2. Len(list') \in 1 .. MaxSockets
        BY <2>3, <2>5, <1>1
      <3>3. open' \subseteq Handles \cup {Listener} /\ connected' \in BOOLEAN
        BY <2>1 DEF SocketsInv, SocketsTypeOK
      <3>4. calling' \in BOOLEAN /\ pc' = "loop"
        BY <2>4
      <3> QED BY <2>3, <2>4, <3>1, <3>2, <3>3, <3>4 DEF SocketsInv, SocketsTypeOK
    <2>7. EverySocketOnce'
      <3>1. \A k \in 1 .. N : list[k].sock \in open
        BY DEF SocketsInv, EverySocketOnce
      <3>2. \A k, l \in 1 .. N + 1 : list'[k].sock = list'[l].sock => k = l
        BY <3>1, <2>2, <2>3, <1>1 DEF SocketsInv, EverySocketOnce
      <3>3. list'[1].sock = Listener
        BY <2>3, <1>1 DEF SocketsInv, EverySocketOnce
      <3>4. \A k \in 1 .. N + 1 : list'[k].sock \in open'
        BY <3>1, <2>1, <2>2, <2>3, <1>1
      <3>5. ASSUME NEW o \in open' PROVE \E k \in 1 .. N + 1 : list'[k].sock = o
        <4>1. CASE o = h
          BY <4>1, <2>2, <2>3, <1>1
        <4>2. CASE o # h
          <5>1. PICK k \in 1 .. N : list[k].sock = o
            BY <4>2, <2>1 DEF SocketsInv, EverySocketOnce
          <5> QED BY <5>1, <2>3, <1>1
        <4> QED BY <4>1, <4>2
      <3> QED BY <3>2, <3>3, <3>4, <3>5, <2>3 DEF EverySocketOnce
    <2>8. ConnectedIsTrue'
      BY <2>1, <2>3, <1>1 DEF ConnectedIsTrue
    <2>9. WholeMessages'
      <3> SUFFICES ASSUME NEW k \in 2 .. N + 1, ~ gone[list'[k].sock]
                   PROVE  ~ torn[list'[k].sock] /\ list'[k].rest = expects[list'[k].sock]
        BY <2>3, <2>4 DEF WholeMessages
      <3>1. CASE k = N + 1
        BY <3>1, <2>1, <2>2, <2>3, <1>1 DEF SocketsInv, ClosedIsForgotten
      <3>2. CASE k # N + 1
        BY <3>2, <2>3, <1>1 DEF SocketsInv, WholeMessages
      <3> QED BY <3>1, <3>2
    <2>10. EventInList' /\ ClosedIsForgotten'
      BY <2>1, <2>4 DEF SocketsInv, SocketsTypeOK, EventInList, ClosedIsForgotten
    <2> QED BY <2>6, <2>7, <2>8, <2>9, <2>10 DEF SocketsInv
  <1>3. CASE ~ AcceptCondition
    <2>1. /\ calling' = FALSE /\ pc' = "loop"
          /\ UNCHANGED <<list, connected, wait_index, open, record, gone, blocked, expects, torn>>
      BY <1>3 DEF Accept, listvars
    <2>2. SocketsTypeOK'
      BY <2>1 DEF SocketsInv, SocketsTypeOK
    <2>3. EverySocketOnce' /\ ConnectedIsTrue'
      BY <2>1 DEF SocketsInv, EverySocketOnce, ConnectedIsTrue
    <2>4. WholeMessages' /\ EventInList' /\ ClosedIsForgotten'
      BY <2>1 DEF SocketsInv, WholeMessages, EventInList, ClosedIsForgotten
    <2> QED BY <2>2, <2>3, <2>4 DEF SocketsInv
  <1> QED BY <1>2, <1>3

\* Serve sends a part of the rest, and the peer expects so much less.
LEMMA ServeKeeps ==
    ASSUME SocketsInv, Serve
    PROVE  SocketsInv'
  <1> DEFINE i == wait_index
             h == list[i].sock
             closed == list[i].closed \/ "close" \in Events(i)
  <1>1. /\ i \in 2 .. Len(list) /\ i \in 1 .. Len(list) /\ Len(list) \in Nat
        /\ MaxPieces \in Nat
    BY SocketsAssumption DEF Serve, SocketsInv, EventInList, SocketsTypeOK, SocketsAssumption
  <1>2. h \in Handles /\ h \in open /\ list[i] \in Connection
    BY <1>1, PeerOf
  <1>3. \A k, l \in 1 .. Len(list) : list[k].sock = list[l].sock => k = l
    BY DEF SocketsInv, EverySocketOnce
  <1>4. /\ expects \in [Handles -> 0 .. MaxPieces] /\ blocked \in [Handles -> BOOLEAN]
        /\ record \in [Handles -> SUBSET {"read", "write", "close"}]
    BY DEF SocketsInv, SocketsTypeOK
  <1>5. ~ gone[h] => ~ torn[h] /\ list[i].rest = expects[h]
    BY <1>1 DEF SocketsInv, WholeMessages
  <1>6. /\ record' = [record EXCEPT ![h] = {}] /\ pc' \in {"check", "loop"}
        /\ UNCHANGED <<connected, wait_index, open, calling, gone, torn>>
        /\ SendRest(i, closed)
    BY DEF Serve
  <1>7. closed \in BOOLEAN /\ list[i].rest \in 0 .. MaxPieces
    <2>1. list[i].closed \in BOOLEAN
      BY <1>2, ConnectionFields
    <2> QED BY <2>1, <1>2, ConnectionFields
  <1> HIDE DEF closed
  <1>8. \E e \in Connection :
           /\ e.sock = h /\ list' = [list EXCEPT ![i] = e]
           /\ expects' \in [Handles -> 0 .. MaxPieces] /\ blocked' \in [Handles -> BOOLEAN]
           /\ ~ gone[h] => e.rest = expects'[h]
           /\ \A g \in Handles \ {h} : expects'[g] = expects[g] /\ blocked'[g] = blocked[g]
    <2>1. CASE "write" \in Events(i) /\ list[i].rest > 0
      <3>1. PICK went \in 1 .. list[i].rest :
            /\ list' = [list EXCEPT ![i].rest = @ - went, ![i].closed = closed]
            /\ expects' = [expects EXCEPT ![h] = IF gone[h] THEN 0 ELSE @ - went]
            /\ blocked' = [blocked EXCEPT ![h] = @ \/ went < list[i].rest]
        BY <2>1, <1>6 DEF SendRest
      <3> DEFINE e == [list[i] EXCEPT !.rest = @ - went, !.closed = closed]
      <3>2. list[i].rest - went \in 0 .. MaxPieces
        BY <1>7, <1>1
      <3>3. e \in Connection /\ e.sock = h /\ e.rest = list[i].rest - went
        BY <3>2, <1>2, <1>7 DEF Connection
      <3>4. list' = [list EXCEPT ![i] = e]
        BY <3>1
      <3>5. blocked' \in [Handles -> BOOLEAN]
            /\ \A g \in Handles \ {h} : blocked'[g] = blocked[g]
        BY <3>1, <1>2, <1>4
      <3>6. CASE gone[h]
        <4>1. expects' = [expects EXCEPT ![h] = 0]
          BY <3>1, <3>6
        <4>2. 0 \in 0 .. MaxPieces
          BY <1>1
        <4> HIDE DEF e, h
        <4> QED BY <4>1, <4>2, <3>3, <3>4, <3>5, <3>6, <1>2, <1>4
      <3>7. CASE ~ gone[h]
        <4>1. expects' = [expects EXCEPT ![h] = list[i].rest - went]
          <5>1. (IF gone[h] THEN 0 ELSE expects[h] - went) = list[i].rest - went
            BY <3>7, <1>5
          <5> HIDE DEF h
          <5> QED BY <3>1, <5>1
        <4> HIDE DEF e, h
        <4> QED BY <4>1, <3>2, <3>3, <3>4, <3>5, <1>2, <1>4
      <3> QED BY <3>6, <3>7
    <2>2. CASE ~ ("write" \in Events(i) /\ list[i].rest > 0)
      <3>1. list' = [list EXCEPT ![i].closed = closed] /\ UNCHANGED <<expects, blocked>>
        BY <2>2, <1>6 DEF SendRest
      <3> DEFINE e == [list[i] EXCEPT !.closed = closed]
      <3>2. e \in Connection /\ e.sock = h /\ e.rest = list[i].rest
        BY <1>2, <1>7 DEF Connection
      <3>3. list' = [list EXCEPT ![i] = e]
        BY <3>1
      <3> HIDE DEF e, h
      <3> QED BY <3>1, <3>2, <3>3, <1>4, <1>5
    <2> QED BY <2>1, <2>2
  <1>9. PICK e \in Connection :
           /\ e.sock = h /\ list' = [list EXCEPT ![i] = e]
           /\ expects' \in [Handles -> 0 .. MaxPieces] /\ blocked' \in [Handles -> BOOLEAN]
           /\ ~ gone[h] => e.rest = expects'[h]
           /\ \A g \in Handles \ {h} : expects'[g] = expects[g] /\ blocked'[g] = blocked[g]
    BY <1>8
  <1>10. /\ list' \in Seq(Connection) /\ Len(list') = Len(list)
         /\ \A k \in 1 .. Len(list) : list'[k] = IF k = i THEN e ELSE list[k]
         /\ EverySocketOnce' /\ ConnectedIsTrue'
    BY <1>1, <1>6, <1>9, SameSockets
  <1> HIDE DEF h
  <1>11. SocketsTypeOK'
    BY <1>2, <1>4, <1>6, <1>9, <1>10 DEF SocketsInv, SocketsTypeOK
  <1>12. WholeMessages'
    <2> SUFFICES ASSUME NEW k \in 2 .. Len(list), ~ gone[list'[k].sock]
                 PROVE  ~ torn[list'[k].sock] /\ list'[k].rest = expects'[list'[k].sock]
      BY <1>6, <1>10 DEF WholeMessages
    <2>1. CASE k = i
      BY <2>1, <1>1, <1>5, <1>9, <1>10
    <2>2. CASE k # i
      <3>1. list'[k] = list[k] /\ list[k].sock \in Handles \ {h}
        BY <2>2, <1>1, <1>3, <1>10, PeerOf DEF h
      <3>2. ~ gone[list[k].sock] => ~ torn[list[k].sock] /\ list[k].rest = expects[list[k].sock]
        BY DEF SocketsInv, WholeMessages
      <3> QED BY <3>1, <3>2, <1>9
    <2> QED BY <2>1, <2>2
  <1>13. EventInList' /\ ClosedIsForgotten'
    BY <1>1, <1>2, <1>4, <1>6, <1>9, <1>10 DEF SocketsInv, EventInList, ClosedIsForgotten
  <1> QED BY <1>10, <1>11, <1>12, <1>13 DEF SocketsInv

\* The inductive step.
LEMMA SocketsInvStep == SocketsInv /\ [SocketsNext]_vars => SocketsInv'
  <1> SUFFICES ASSUME SocketsInv, [SocketsNext]_vars PROVE SocketsInv'
    OBVIOUS
  <1> USE DEF vars, listvars, peervars
  <1>1. CASE RemoveClosed
    <2>1. PICK i \in 2 .. Len(list) : Remove(i)
      BY <1>1 DEF RemoveClosed
    <2> QED BY <1>1, <2>1, RemoveKeeps DEF RemoveClosed
  <1>2. CASE Wait \/ WakeUp
    <2>1. UNCHANGED <<listvars, peervars>>
      BY <1>2 DEF Wait, WakeUp
    <2>2. /\ Len(list) \in 1 .. MaxSockets /\ MaxSockets \in Nat
          /\ wait_index \in 0 .. MaxSockets
      BY SocketsAssumption DEF SocketsInv, SocketsTypeOK, SocketsAssumption
    <2>3. \/ wait_index' \in 1 .. Len(list) /\ pc' = "event"
          \/ wait_index' \in {wait_index, Len(list)} /\ pc' \in {"wait", "loop"}
      BY <1>2 DEF Wait, WakeUp
    <2>4. wait_index' \in 0 .. MaxSockets /\ pc' \in {"wait", "loop", "event"}
      BY <2>2, <2>3
    <2>5. SocketsTypeOK'
      BY <2>1, <2>4 DEF SocketsInv, SocketsTypeOK
    <2>6. EverySocketOnce' /\ ConnectedIsTrue'
      BY <2>1 DEF SocketsInv, EverySocketOnce, ConnectedIsTrue
    <2>7. WholeMessages' /\ EventInList' /\ ClosedIsForgotten'
      BY <2>1, <2>3 DEF SocketsInv, WholeMessages, EventInList, ClosedIsForgotten
    <2> QED BY <2>5, <2>6, <2>7 DEF SocketsInv
  <1>3. CASE Accept
    BY <1>3, AcceptKeeps
  <1>4. CASE ServeFails
    <2>1. wait_index \in 2 .. Len(list)
      BY <1>4 DEF ServeFails, SocketsInv, EventInList, SocketsTypeOK
    <2> QED BY <1>4, <2>1, RemoveKeeps DEF ServeFails
  <1>5. CASE Serve
    BY <1>5, ServeKeeps
  <1>6. CASE Unfinished
    <2>1. UNCHANGED <<listvars, wait_index, peervars>> /\ pc' = "loop"
      BY <1>6 DEF Unfinished
    <2>2. SocketsTypeOK'
      BY <2>1 DEF SocketsInv, SocketsTypeOK
    <2>3. EverySocketOnce' /\ ConnectedIsTrue'
      BY <2>1 DEF SocketsInv, EverySocketOnce, ConnectedIsTrue
    <2>4. WholeMessages' /\ EventInList' /\ ClosedIsForgotten'
      BY <2>1 DEF SocketsInv, WholeMessages, EventInList, ClosedIsForgotten
    <2> QED BY <2>2, <2>3, <2>4 DEF SocketsInv
  <1>7. CASE Respond \/ Upgrade \/ Hello
    <2>1. pc \in {"check", "hello"} /\ pc' \in {"loop", "hello"}
          /\ UNCHANGED <<connected, wait_index, open, calling, record, gone>>
      BY <1>7 DEF Respond, Upgrade, Hello
    <2>2. wait_index \in 2 .. Len(list)
      BY <2>1 DEF SocketsInv, EventInList, SocketsTypeOK
    <2> DEFINE c == list[wait_index]
               down == [c EXCEPT !.shutdown = TRUE]
    <2>3. c \in Connection
      BY <2>2, PeerOf
    <2>4. down \in Connection /\ down.sock = c.sock /\ down.rest = c.rest
      BY <2>3 DEF Connection
    <2>5. PICK n \in 1 .. MaxPieces :
             SendTo(wait_index, n, down) \/ SendTo(wait_index, n, c)
      BY <1>7 DEF Respond, Upgrade, Hello
    <2> HIDE DEF down
    <2> QED BY <2>1, <2>3, <2>4, <2>5, SendToKeeps
  <1>8. CASE Call
    <2>1. calling' = TRUE
          /\ UNCHANGED <<listvars, wait_index, pc, open, record, gone, blocked, expects, torn>>
      BY <1>8 DEF Call
    <2>2. SocketsTypeOK'
      BY <2>1 DEF SocketsInv, SocketsTypeOK
    <2>3. EverySocketOnce' /\ ConnectedIsTrue'
      BY <2>1 DEF SocketsInv, EverySocketOnce, ConnectedIsTrue
    <2>4. WholeMessages' /\ EventInList' /\ ClosedIsForgotten'
      BY <2>1 DEF SocketsInv, WholeMessages, EventInList, ClosedIsForgotten
    <2> QED BY <2>2, <2>3, <2>4 DEF SocketsInv
  <1>9. ASSUME NEW h \in Handles, PeerWrites(h) \/ PeerReads(h)
        PROVE  SocketsInv'
    <2>1. /\ UNCHANGED <<list, connected, wait_index, pc, open, calling, gone, expects, torn>>
          /\ \E e \in {"read", "write"} : record' = [record EXCEPT ![h] = @ \cup {e}]
          /\ blocked' = blocked \/ blocked' = [blocked EXCEPT ![h] = FALSE]
      BY <1>9 DEF PeerWrites, PeerReads
    <2>2. h \in open
      BY <1>9 DEF PeerWrites, PeerReads, SocketsInv, ClosedIsForgotten
    <2>3. /\ record' \in [Handles -> SUBSET {"read", "write", "close"}]
          /\ blocked' \in [Handles -> BOOLEAN]
          /\ \A g \in Handles \ {h} : record'[g] = record[g] /\ blocked'[g] = blocked[g]
      <3>1. PICK e \in {"read", "write"} : record' = [record EXCEPT ![h] = @ \cup {e}]
        BY <2>1
      <3>2. /\ record' \in [Handles -> SUBSET {"read", "write", "close"}]
            /\ \A g \in Handles \ {h} : record'[g] = record[g]
        BY <3>1 DEF SocketsInv, SocketsTypeOK
      <3>3. /\ blocked' \in [Handles -> BOOLEAN]
            /\ \A g \in Handles \ {h} : blocked'[g] = blocked[g]
        BY <2>1 DEF SocketsInv, SocketsTypeOK
      <3> QED BY <3>2, <3>3
    <2>4. SocketsTypeOK'
      BY <2>1, <2>3 DEF SocketsInv, SocketsTypeOK
    <2>5. EverySocketOnce' /\ ConnectedIsTrue'
      BY <2>1 DEF SocketsInv, EverySocketOnce, ConnectedIsTrue
    <2>6. WholeMessages' /\ EventInList'
      BY <2>1 DEF SocketsInv, WholeMessages, EventInList
    <2>7. ClosedIsForgotten'
      BY <2>1, <2>2, <2>3 DEF SocketsInv, ClosedIsForgotten
    <2> QED BY <2>4, <2>5, <2>6, <2>7 DEF SocketsInv
  <1>10. ASSUME NEW h \in Handles, PeerGoes(h)
         PROVE  SocketsInv'
    <2>1. /\ UNCHANGED <<list, connected, wait_index, pc, open, calling, blocked>>
          /\ h \in open
          /\ gone' = [gone EXCEPT ![h] = TRUE]
          /\ expects' = [expects EXCEPT ![h] = 0]
          /\ torn' = [torn EXCEPT ![h] = FALSE]
          /\ record' = [record EXCEPT ![h] = @ \cup {"close"}]
      BY <1>10 DEF PeerGoes
    <2>2. 0 \in 0 .. MaxPieces
      BY SocketsAssumption DEF SocketsAssumption
    <2>3. /\ record' \in [Handles -> SUBSET {"read", "write", "close"}]
          /\ gone' \in [Handles -> BOOLEAN] /\ torn' \in [Handles -> BOOLEAN]
          /\ expects' \in [Handles -> 0 .. MaxPieces] /\ gone'[h]
          /\ \A g \in Handles \ {h} : /\ record'[g] = record[g] /\ gone'[g] = gone[g]
                                      /\ torn'[g] = torn[g] /\ expects'[g] = expects[g]
      BY <2>1, <2>2 DEF SocketsInv, SocketsTypeOK
    <2>4. SocketsTypeOK'
      BY <2>1, <2>3 DEF SocketsInv, SocketsTypeOK
    <2>5. EverySocketOnce' /\ ConnectedIsTrue'
      BY <2>1 DEF SocketsInv, EverySocketOnce, ConnectedIsTrue
    <2>6. WholeMessages'
      <3> SUFFICES ASSUME NEW i \in 2 .. Len(list), ~ gone'[list[i].sock]
                   PROVE  ~ torn'[list[i].sock] /\ list[i].rest = expects'[list[i].sock]
        BY <2>1 DEF WholeMessages
      <3>1. list[i].sock \in Handles \ {h}
        BY <2>3, PeerOf
      <3> QED BY <2>3, <3>1 DEF SocketsInv, WholeMessages
    <2>7. EventInList' /\ ClosedIsForgotten'
      BY <2>1, <2>3 DEF SocketsInv, EventInList, ClosedIsForgotten
    <2> QED BY <2>4, <2>5, <2>6, <2>7 DEF SocketsInv
  <1>11. CASE UNCHANGED vars
    <2>1. SocketsTypeOK'
      BY <1>11 DEF SocketsInv, SocketsTypeOK
    <2>2. EverySocketOnce' /\ ConnectedIsTrue'
      BY <1>11 DEF SocketsInv, EverySocketOnce, ConnectedIsTrue
    <2>3. WholeMessages' /\ EventInList' /\ ClosedIsForgotten'
      BY <1>11 DEF SocketsInv, WholeMessages, EventInList, ClosedIsForgotten
    <2> QED BY <2>1, <2>2, <2>3 DEF SocketsInv
  <1> QED
    BY <1>1, <1>2, <1>3, <1>4, <1>5, <1>6, <1>7, <1>8, <1>9, <1>10, <1>11
       DEF SocketsNext, ServerStep, Peers

\* The invariant of the list, of what was sent and of the thread.
LEMMA SocketsInvariant == SocketsSpec => []SocketsInv
  BY SocketsInvInit, SocketsInvStep, PTL DEF SocketsSpec

-----------------------------------------------------------------------------
(* Theorems *)

\* The list never outgrows its arrays, with whatever limit, and every field keeps its
\* type: cList::Add never returns 0 in the build that has AcceptCondition.
THEOREM SocketsTypeCorrect == SocketsSpec => []SocketsTypeOK
  <1>1. SocketsInv => SocketsTypeOK
    BY DEF SocketsInv
  <1> QED BY <1>1, SocketsInvariant, PTL

\* Every open socket is in the list once, so that none leaks and no handle is closed
\* twice, though Remove moves the last connection into the gap.
THEOREM SocketsAreListedOnce == SocketsSpec => []EverySocketOnce
  <1>1. SocketsInv => EverySocketOnce
    BY DEF SocketsInv
  <1> QED BY <1>1, SocketsInvariant, PTL

\* E_Connected, by which SendTo refuses, is set just while a peer is in the list.
THEOREM ConnectedWhilePeers == SocketsSpec => []ConnectedIsTrue
  <1>1. SocketsInv => ConnectedIsTrue
    BY DEF SocketsInv
  <1> QED BY <1>1, SocketsInvariant, PTL

\* No peer that stays gets a message within another, and what it still expects is in
\* the buffer of its connection, for messages in any number of pieces.
THEOREM MessagesAreWhole == SocketsSpec => []WholeMessages
  <1>1. SocketsInv => WholeMessages
    BY DEF SocketsInv
  <1> QED BY <1>1, SocketsInvariant, PTL

-----------------------------------------------------------------------------
(***************************************************************************)
(* Streams.  The invariant says where on the wire every line or message    *)
(* of the peer is, and which slice of the wire the thread's buffer holds:  *)
(* the one behind the last line or message it has made use of.  w, v are   *)
(* wires, e the ends of lines or messages, lo and hi the token before one  *)
(* and where it ends, t how much was read.                                 *)
(***************************************************************************)

\* The position at which the k-th line or message ends, and the next one begins.
Base(e, k) == IF k = 0 THEN 0 ELSE e[k]

\* v is w, or w and something behind it.
Extends(v, w) == Len(w) <= Len(v) /\ \A i \in 1 .. Len(w) : v[i] = w[i]

-----------------------------------------------------------------------------
(* Slices of the wire *)

\* What was read behind lo, up to t.
LEMMA SliceOf ==
    ASSUME NEW T, NEW w \in Seq(T), NEW lo \in Nat, NEW t \in Nat, lo <= t, t <= Len(w)
    PROVE  /\ SubSeq(w, lo + 1, t) \in Seq(T)
           /\ Len(SubSeq(w, lo + 1, t)) = t - lo
           /\ \A i \in 1 .. t - lo : SubSeq(w, lo + 1, t)[i] = w[lo + i]
  <1>1. \A i \in lo + 1 .. t : w[i] \in T
    BY ElementOfSeq, LenProperties
  <1>2. /\ SubSeq(w, lo + 1, t) \in Seq(T)
        /\ Len(SubSeq(w, lo + 1, t)) = IF lo + 1 <= t THEN t - (lo + 1) + 1 ELSE 0
        /\ \A i \in 1 .. t - (lo + 1) + 1 : SubSeq(w, lo + 1, t)[i] = w[(lo + 1) + i - 1]
    BY <1>1, SubSeqProperties
  <1>3. \A i \in 1 .. t - lo : (lo + 1) + i - 1 = lo + i /\ t - (lo + 1) + 1 = t - lo
    OBVIOUS
  <1> QED
    BY <1>2, <1>3

\* It is the same when more is sent, ...
LEMMA SliceExtended ==
    ASSUME NEW T, NEW w \in Seq(T), NEW v \in Seq(T), Extends(v, w),
           NEW lo \in Nat, NEW t \in Nat, lo <= t, t <= Len(w)
    PROVE  SubSeq(v, lo + 1, t) = SubSeq(w, lo + 1, t)
  <1>1. t <= Len(v) /\ Len(w) \in Nat /\ Len(v) \in Nat
    BY LenProperties DEF Extends
  <1>2. /\ SubSeq(v, lo + 1, t) \in Seq(T) /\ Len(SubSeq(v, lo + 1, t)) = t - lo
        /\ \A i \in 1 .. t - lo : SubSeq(v, lo + 1, t)[i] = v[lo + i]
    BY <1>1, SliceOf
  <1>3. /\ SubSeq(w, lo + 1, t) \in Seq(T) /\ Len(SubSeq(w, lo + 1, t)) = t - lo
        /\ \A i \in 1 .. t - lo : SubSeq(w, lo + 1, t)[i] = w[lo + i]
    BY <1>1, SliceOf
  <1>4. \A i \in 1 .. t - lo : v[lo + i] = w[lo + i]
    BY <1>1 DEF Extends
  <1> QED
    BY <1>2, <1>3, <1>4, SeqEqual

\* ... grows by what is read next, ...
LEMMA SliceAppended ==
    ASSUME NEW T, NEW w \in Seq(T), NEW lo \in Nat, NEW t \in Nat, NEW n \in Nat,
           lo <= t, t + n <= Len(w)
    PROVE  SubSeq(w, lo + 1, t) \o SubSeq(w, t + 1, t + n) = SubSeq(w, lo + 1, t + n)
  <1>1. Len(w) \in Nat
    BY LenProperties
  <1>2. lo + 1 \in 1 .. Len(w) + 1 /\ t \in (lo + 1) - 1 .. Len(w) /\ t + n \in t .. Len(w)
    BY <1>1
  <1> QED
    BY <1>2, ConcatAdjacentSubSeq

\* ... and loses what is taken off its left end.
LEMMA SliceDropped ==
    ASSUME NEW T, NEW w \in Seq(T), NEW lo \in Nat, NEW t \in Nat, NEW d \in Nat,
           lo + d <= t, t <= Len(w)
    PROVE  SubSeq(SubSeq(w, lo + 1, t), d + 1, t - lo) = SubSeq(w, lo + d + 1, t)
  <1> DEFINE s == SubSeq(w, lo + 1, t)
  <1>1. Len(w) \in Nat /\ lo <= t /\ lo + d \in Nat /\ t - lo \in Nat /\ d <= t - lo
    BY LenProperties
  <1>2. s \in Seq(T) /\ Len(s) = t - lo /\ \A i \in 1 .. t - lo : s[i] = w[lo + i]
    BY <1>1, SliceOf
  <1> HIDE DEF s
  <1>3. /\ SubSeq(s, d + 1, t - lo) \in Seq(T)
        /\ Len(SubSeq(s, d + 1, t - lo)) = (t - lo) - d
        /\ \A i \in 1 .. (t - lo) - d : SubSeq(s, d + 1, t - lo)[i] = s[d + i]
    BY <1>1, <1>2, SliceOf
  <1>4. /\ SubSeq(w, (lo + d) + 1, t) \in Seq(T)
        /\ Len(SubSeq(w, (lo + d) + 1, t)) = t - (lo + d)
        /\ \A i \in 1 .. t - (lo + d) : SubSeq(w, (lo + d) + 1, t)[i] = w[(lo + d) + i]
    BY <1>1, SliceOf
  <1>5. (t - lo) - d = t - (lo + d)
    BY <1>1
  <1>6. \A i \in 1 .. t - (lo + d) : s[d + i] = w[(lo + d) + i]
    BY <1>1, <1>2
  <1>7. SubSeq(s, d + 1, t - lo) = SubSeq(w, (lo + d) + 1, t)
    BY <1>3, <1>4, <1>5, <1>6, SeqEqual
  <1> QED
    BY <1>7 DEF s

\* Appends and concatenations extend a sequence.
LEMMA Appended ==
    ASSUME NEW T, NEW s \in Seq(T), NEW x \in T
    PROVE  /\ Append(s, x) \in Seq(T) /\ Len(Append(s, x)) = Len(s) + 1
           /\ Extends(Append(s, x), s) /\ Append(s, x)[Len(s) + 1] = x
  <1>1. Len(s) \in Nat
    BY LenProperties
  <1> QED
    BY <1>1 DEF Extends

LEMMA Concatenated ==
    ASSUME NEW T, NEW s \in Seq(T), NEW t \in Seq(T)
    PROVE  /\ s \o t \in Seq(T) /\ Len(s \o t) = Len(s) + Len(t)
           /\ Extends(s \o t, s)
           /\ \A i \in 1 .. Len(t) : (s \o t)[Len(s) + i] = t[i]
  <1>1. Len(s) \in Nat /\ Len(t) \in Nat
    BY LenProperties
  <1>2. /\ s \o t \in Seq(T) /\ Len(s \o t) = Len(s) + Len(t)
        /\ \A i \in 1 .. Len(s) + Len(t) :
              (s \o t)[i] = IF i <= Len(s) THEN s[i] ELSE t[i - Len(s)]
    BY ConcatProperties
  <1>3. \A i \in 1 .. Len(s) : i \in 1 .. Len(s) + Len(t) /\ i <= Len(s)
    BY <1>1
  <1>4. \A i \in 1 .. Len(t) : /\ Len(s) + i \in 1 .. Len(s) + Len(t)
                               /\ ~(Len(s) + i <= Len(s)) /\ (Len(s) + i) - Len(s) = i
    BY <1>1
  <1>5. \A i \in 1 .. Len(s) : (s \o t)[i] = s[i]
    BY <1>2, <1>3
  <1>6. \A i \in 1 .. Len(t) : (s \o t)[Len(s) + i] = t[i]
    BY <1>2, <1>4
  <1>7. Len(s) <= Len(s \o t)
    BY <1>1, <1>2
  <1> QED
    BY <1>2, <1>5, <1>6, <1>7 DEF Extends

\* First finds the smallest number of a set.
LEMMA FirstIs ==
    ASSUME NEW S \in SUBSET Nat, NEW x \in S, \A y \in S : x <= y
    PROVE  First(S) = x
  <1>1. \E i \in S : \A j \in S : i <= j
    OBVIOUS
  <1>2. First(S) \in S /\ \A j \in S : First(S) <= j
    BY <1>1 DEF First
  <1>3. First(S) <= x /\ x <= First(S) /\ First(S) \in Nat /\ x \in Nat
    BY <1>2
  <1> QED
    BY <1>3

-----------------------------------------------------------------------------
(* A message on the wire *)

\* Byte b is sent at position i, and what follows it at j.
ByteAt(w, i, j, b) ==
    \/ b = "END" /\ j = i + 2 /\ w[i] = "ESC" /\ w[i + 1] = "END"
    \/ b = "ESC" /\ j = i + 2 /\ w[i] = "ESC" /\ w[i + 1] = "ESC2"
    \/ b \notin {"END", "ESC"} /\ j = i + 1 /\ w[i] = b

\* The bytes of m are sent at the positions at[1], at[2] and so on.
Positions(w, lo, hi, m, at) ==
    /\ at[1] = lo + 2 /\ at[Len(m) + 1] = hi
    /\ \A j \in 1 .. Len(m) : ByteAt(w, at[j], at[j + 1], m[j])

\* A byte, and all of them, stay where they are while more is sent.
LEMMA ByteStays ==
    ASSUME NEW w, NEW v, NEW hi \in Nat, \A i \in 1 .. hi - 1 : v[i] = w[i],
           NEW i \in 1 .. hi, NEW j \in 1 .. hi, NEW b, ByteAt(w, i, j, b)
    PROVE  ByteAt(v, i, j, b)
  <1>1. CASE b = "END" /\ j = i + 2 /\ w[i] = "ESC" /\ w[i + 1] = "END"
    <2>1. i \in 1 .. hi - 1 /\ i + 1 \in 1 .. hi - 1
      BY <1>1
    <2> QED
      BY <1>1, <2>1 DEF ByteAt
  <1>2. CASE b = "ESC" /\ j = i + 2 /\ w[i] = "ESC" /\ w[i + 1] = "ESC2"
    <2>1. i \in 1 .. hi - 1 /\ i + 1 \in 1 .. hi - 1
      BY <1>2
    <2> QED
      BY <1>2, <2>1 DEF ByteAt
  <1>3. CASE b \notin {"END", "ESC"} /\ j = i + 1 /\ w[i] = b
    <2>1. i \in 1 .. hi - 1
      BY <1>3
    <2> QED
      BY <1>3, <2>1 DEF ByteAt
  <1> QED
    BY <1>1, <1>2, <1>3 DEF ByteAt

\* Between an END at lo + 1 and hi, every END is escaped, and hi is not.
Escaped(w, lo, hi) ==
    /\ w[lo + 1] = "END" /\ w[hi - 1] # "ESC"
    /\ \A i \in lo + 2 .. hi - 1 : w[i] = "END" => w[i - 1] = "ESC"

\* The message m is sent, up to hi, behind an END at lo + 1.
MessageAt(w, lo, hi, m) ==
    /\ hi \in lo + 2 .. Len(w) + 1
    /\ Escaped(w, lo, hi)
    /\ \E at \in [1 .. Len(m) + 1 -> lo + 2 .. hi] : Positions(w, lo, hi, m, at)

\* SlipBoundaries finds the message that comes first, ...
LEMMA BoundariesOf ==
    ASSUME NEW T, NEW w \in Seq(T), NEW lo \in Nat, NEW hi \in Nat, NEW t \in Nat,
           lo + 2 <= hi, hi <= t, t <= Len(w), Escaped(w, lo, hi), w[hi] = "END"
    PROVE  SlipBoundaries(SubSeq(w, lo + 1, t)) = <<1, hi - lo>>
  <1> DEFINE s     == SubSeq(w, lo + 1, t)
             marks == {i \in DOMAIN s : i = 1 /\ s[i] = "END"} \cup Unescaped(s)
             later == {i \in Unescaped(s) : i > 1}
  <1>1. s \in Seq(T) /\ Len(s) = t - lo /\ \A i \in 1 .. t - lo : s[i] = w[lo + i]
    BY SliceOf
  <1>2. DOMAIN s = 1 .. t - lo
    BY <1>1, LenProperties
  <1> HIDE DEF s
  <1>3. 1 \in 1 .. t - lo /\ hi - lo \in 2 .. t - lo /\ (hi - lo) - 1 \in 1 .. t - lo
    OBVIOUS
  <1>4. s[1] = "END" /\ s[hi - lo] = "END" /\ s[(hi - lo) - 1] # "ESC"
    <2>1. lo + (hi - lo) = hi /\ lo + ((hi - lo) - 1) = hi - 1
      OBVIOUS
    <2>2. /\ s[1] = w[lo + 1] /\ s[hi - lo] = w[lo + (hi - lo)]
          /\ s[(hi - lo) - 1] = w[lo + ((hi - lo) - 1)]
      BY <1>1, <1>3
    <2> QED
      BY <2>1, <2>2 DEF Escaped
  <1>5. Unescaped(s) = {i \in 2 .. t - lo : s[i] = "END" /\ s[i - 1] # "ESC"}
    BY <1>1 DEF Unescaped
  <1>6. marks \in SUBSET Nat /\ 1 \in marks /\ \A i \in marks : 1 <= i
    BY <1>2, <1>3, <1>4, <1>5
  <1>7. hi - lo \in later /\ later \in SUBSET Nat
    BY <1>3, <1>4, <1>5
  <1>8. ASSUME NEW i \in later
        PROVE  hi - lo <= i
    <2>1. i \in 2 .. t - lo /\ s[i] = "END" /\ s[i - 1] # "ESC"
      BY <1>5
    <2>2. lo + (i - 1) = (lo + i) - 1 /\ i - 1 \in 1 .. t - lo
      BY <2>1
    <2>3. s[i] = w[lo + i] /\ s[i - 1] = w[(lo + i) - 1]
      BY <1>1, <2>1, <2>2
    <2>4. lo + i \notin lo + 2 .. hi - 1
      BY <2>1, <2>3 DEF Escaped
    <2> QED
      BY <2>1, <2>4
  <1>9. First(marks) = 1 /\ First(later) = hi - lo
    BY <1>6, <1>7, <1>8, FirstIs
  <1>10. marks # {} /\ later # {}
    BY <1>6, <1>7
  <1>11. SlipBoundaries(s) = <<First(marks), First({i \in Unescaped(s) : i > First(marks)})>>
    BY <1>9, <1>10 DEF SlipBoundaries
  <1> QED
    BY <1>9, <1>11 DEF s

\* ... and nothing while that is not complete.
LEMMA NoBoundaries ==
    ASSUME NEW T, NEW w \in Seq(T), NEW lo \in Nat, NEW t \in Nat,
           lo <= t, t <= Len(w),
           \A i \in lo + 2 .. t : w[i] = "END" => w[i - 1] = "ESC"
    PROVE  SlipBoundaries(SubSeq(w, lo + 1, t)) = <<>>
  <1> DEFINE s == SubSeq(w, lo + 1, t)
  <1>1. s \in Seq(T) /\ Len(s) = t - lo /\ \A i \in 1 .. t - lo : s[i] = w[lo + i]
    BY SliceOf
  <1> HIDE DEF s
  <1>2. ASSUME NEW i \in Unescaped(s)
        PROVE  FALSE
    <2>1. i \in 2 .. t - lo /\ s[i] = "END" /\ s[i - 1] # "ESC"
      BY <1>1 DEF Unescaped
    <2>2. lo + (i - 1) = (lo + i) - 1 /\ i - 1 \in 1 .. t - lo /\ lo + i \in lo + 2 .. t
      BY <2>1
    <2>3. s[i] = w[lo + i] /\ s[i - 1] = w[(lo + i) - 1]
      BY <1>1, <2>1, <2>2
    <2> QED
      BY <2>1, <2>2, <2>3
  <1>3. Unescaped(s) = {}
    BY <1>2
  <1>4. SlipBoundaries(s) = <<>>
    BY <1>3 DEF SlipBoundaries
  <1> QED
    BY <1>4 DEF s

LEMMA PositionsStay ==
    ASSUME NEW w, NEW v, NEW lo \in Nat, NEW hi \in Nat,
           \A i \in 1 .. hi - 1 : v[i] = w[i], NEW m, Len(m) \in Nat,
           NEW at \in [1 .. Len(m) + 1 -> lo + 2 .. hi], Positions(w, lo, hi, m, at)
    PROVE  Positions(v, lo, hi, m, at)
  <1>1. ASSUME NEW j \in 1 .. Len(m)
        PROVE  ByteAt(v, at[j], at[j + 1], m[j])
    <2>1. j \in 1 .. Len(m) + 1 /\ j + 1 \in 1 .. Len(m) + 1
      OBVIOUS
    <2>2. at[j] \in lo + 2 .. hi /\ at[j + 1] \in lo + 2 .. hi
      BY <2>1
    <2>3. ByteAt(w, at[j], at[j + 1], m[j])
      BY DEF Positions
    <2>4. at[j] \in 1 .. hi /\ at[j + 1] \in 1 .. hi
      BY <2>2
    <2> QED
      BY <2>3, <2>4, ByteStays
  <1> QED
    BY <1>1 DEF Positions

\* What is sent later changes nothing.
LEMMA MessageStays ==
    ASSUME NEW T, NEW w \in Seq(T), NEW v \in Seq(T), Extends(v, w),
           NEW lo \in Nat, NEW hi \in Nat, NEW m, Len(m) \in Nat,
           MessageAt(w, lo, hi, m)
    PROVE  MessageAt(v, lo, hi, m)
  <1>1. Len(w) \in Nat /\ Len(v) \in Nat /\ Len(w) <= Len(v)
    BY LenProperties DEF Extends
  <1>2. hi \in lo + 2 .. Len(w) + 1
    BY DEF MessageAt
  <1>3. \A i \in 1 .. hi - 1 : v[i] = w[i]
    BY <1>1, <1>2 DEF Extends
  <1>4. Escaped(v, lo, hi)
    <2>1. Escaped(w, lo, hi)
      BY DEF MessageAt
    <2>2. lo + 1 \in 1 .. hi - 1 /\ hi - 1 \in 1 .. hi - 1
      BY <1>2
    <2>3. \A i \in lo + 2 .. hi - 1 : i \in 1 .. hi - 1 /\ i - 1 \in 1 .. hi - 1
      BY <1>2
    <2> QED
      BY <1>3, <2>1, <2>2, <2>3 DEF Escaped
  <1>5. PICK at \in [1 .. Len(m) + 1 -> lo + 2 .. hi] : Positions(w, lo, hi, m, at)
    BY DEF MessageAt
  <1>7. Positions(v, lo, hi, m, at)
    BY <1>3, <1>5, PositionsStay
  <1>8. hi \in lo + 2 .. Len(v) + 1
    BY <1>1, <1>2
  <1> QED
    BY <1>4, <1>5, <1>7, <1>8 DEF MessageAt

\* The END in front of a message begins it, without a byte so far.
LEMMA MessageBegins ==
    ASSUME NEW T, "END" \in T, NEW w \in Seq(T)
    PROVE  /\ Append(w, "END") \in Seq(T) /\ Len(Append(w, "END")) = Len(w) + 1
           /\ Extends(Append(w, "END"), w)
           /\ Append(w, "END")[Len(w) + 1] = "END"
           /\ MessageAt(Append(w, "END"), Len(w), Len(w) + 2, <<>>)
  <1> DEFINE v == Append(w, "END")
             at == [j \in 1 .. 1 |-> Len(w) + 2]
  <1>1. Len(w) \in Nat
    BY LenProperties
  <1>2. v \in Seq(T) /\ Len(v) = Len(w) + 1 /\ v[Len(w) + 1] = "END"
        /\ \A i \in 1 .. Len(w) : v[i] = w[i]
    OBVIOUS
  <1> HIDE DEF v
  <1>3. Escaped(v, Len(w), Len(w) + 2)
    BY <1>1, <1>2 DEF Escaped
  <1>4. Len(<<>>) = 0
    OBVIOUS
  <1>5. at \in [1 .. Len(<<>>) + 1 -> Len(w) + 2 .. Len(w) + 2] /\ at[1] = Len(w) + 2
    BY <1>1
  <1>6. Positions(v, Len(w), Len(w) + 2, <<>>, at)
    BY <1>4, <1>5 DEF Positions
  <1>7. MessageAt(v, Len(w), Len(w) + 2, <<>>)
    BY <1>1, <1>2, <1>3, <1>5, <1>6 DEF MessageAt
  <1> QED
    BY <1>1, <1>2, <1>7 DEF v, Extends

-----------------------------------------------------------------------------
\* What SlipByte makes of a byte never begins with END, nor ends with ESC.
LEMMA SlipByteProperties ==
    ASSUME NEW T, {"END", "ESC", "ESC2"} \subseteq T, NEW b \in T
    PROVE  /\ SlipByte(b) \in Seq(T) /\ Len(SlipByte(b)) \in 1 .. 2
           /\ SlipByte(b)[1] # "END" /\ SlipByte(b)[Len(SlipByte(b))] # "ESC"
           /\ Len(SlipByte(b)) = 2 => SlipByte(b)[1] = "ESC"
           /\ \/ /\ b = "END" /\ Len(SlipByte(b)) = 2
                 /\ SlipByte(b)[1] = "ESC" /\ SlipByte(b)[2] = "END"
              \/ /\ b = "ESC" /\ Len(SlipByte(b)) = 2
                 /\ SlipByte(b)[1] = "ESC" /\ SlipByte(b)[2] = "ESC2"
              \/ b \notin {"END", "ESC"} /\ Len(SlipByte(b)) = 1 /\ SlipByte(b)[1] = b
  <1>1. CASE b = "END"
    <2>1. SlipByte(b) = <<"ESC", "END">>
      BY <1>1 DEF SlipByte
    <2> QED
      BY <1>1, <2>1
  <1>2. CASE b = "ESC"
    <2>1. SlipByte(b) = <<"ESC", "ESC2">>
      BY <1>2 DEF SlipByte
    <2> QED
      BY <1>2, <2>1
  <1>3. CASE b \notin {"END", "ESC"}
    <2>1. SlipByte(b) = <<b>>
      BY <1>3 DEF SlipByte
    <2> QED
      BY <1>3, <2>1
  <1> QED
    BY <1>1, <1>2, <1>3

\* A byte more.
LEMMA MessageGrows ==
    ASSUME NEW T, {"END", "ESC", "ESC2"} \subseteq T, NEW w \in Seq(T), NEW b \in T,
           NEW lo \in Nat, NEW m \in Seq(T), MessageAt(w, lo, Len(w) + 1, m)
    PROVE  /\ w \o SlipByte(b) \in Seq(T) /\ Len(w) < Len(w \o SlipByte(b))
           /\ Extends(w \o SlipByte(b), w)
           /\ MessageAt(w \o SlipByte(b), lo, Len(w \o SlipByte(b)) + 1, Append(m, b))
  <1> DEFINE e == SlipByte(b)
             v == w \o e
             n == Len(w)
  <1>1. n \in Nat /\ e \in Seq(T) /\ Len(e) \in Nat /\ (Len(e) = 1 \/ Len(e) = 2)
    <2>1. e \in Seq(T) /\ Len(e) \in 1 .. 2
      BY SlipByteProperties
    <2> HIDE DEF e
    <2> QED
      BY <2>1, LenProperties
  <1>2. /\ v \in Seq(T) /\ Len(v) = n + Len(e)
        /\ \A i \in 1 .. n + Len(e) : v[i] = IF i <= n THEN w[i] ELSE e[i - n]
    BY <1>1, ConcatProperties
  <1>0. PICK d \in Nat, l \in Nat :
           d = Len(e) /\ l = Len(v) /\ l = n + d /\ (d = 1 \/ d = 2)
    <2> HIDE DEF e, v, n
    <2>1. Len(v) \in Nat
      BY <1>1, <1>2
    <2> QED
      BY <1>1, <1>2, <2>1
  <1>a. n \in Nat /\ l = n + d /\ (d = 1 \/ d = 2)
    BY <1>0, <1>1
  <1>3. /\ \A i \in 1 .. n : v[i] = w[i]
        /\ v[n + 1] = e[1]
        /\ Len(e) = 2 => v[n + 2] = e[2]
    <2> HIDE DEF e, v, n
    <2>1. \A i \in 1 .. n : v[i] = w[i]
      BY <1>1, <1>2
    <2>2. n + 1 \in 1 .. n + d /\ ~(n + 1 <= n) /\ (n + 1) - n = 1
      BY <1>0, <1>1
    <2>3. v[n + 1] = e[1]
      BY <1>0, <1>2, <2>2
    <2>4. ASSUME Len(e) = 2
          PROVE  v[n + 2] = e[2]
      <3>1. n + 2 \in 1 .. n + Len(e) /\ ~(n + 2 <= n) /\ (n + 2) - n = 2
        BY <1>1, <2>4
      <3> QED
        BY <1>2, <3>1
    <2> QED
      BY <2>1, <2>3, <2>4
  <1>4. /\ e[1] # "END" /\ e[Len(e)] # "ESC" /\ (Len(e) = 2 => e[1] = "ESC")
        /\ \/ b = "END" /\ Len(e) = 2 /\ e[1] = "ESC" /\ e[2] = "END"
           \/ b = "ESC" /\ Len(e) = 2 /\ e[1] = "ESC" /\ e[2] = "ESC2"
           \/ b \notin {"END", "ESC"} /\ Len(e) = 1 /\ e[1] = b
    BY SlipByteProperties
  <1> HIDE DEF e, v, n
  <1>5. lo + 2 <= n + 1 /\ Escaped(w, lo, n + 1)
    BY <1>1 DEF MessageAt, n
  <1>6. Escaped(v, lo, Len(v) + 1)
    <2>1. v[lo + 1] = "END"
      BY <1>1, <1>3, <1>5 DEF Escaped
    <2>2. v[(Len(v) + 1) - 1] # "ESC"
      <3>1. CASE Len(e) = 1
        <4>1. (Len(v) + 1) - 1 = n + 1
          BY <1>1, <1>2, <3>1
        <4> QED
          BY <1>3, <1>4, <3>1, <4>1
      <3>2. CASE Len(e) = 2
        <4>1. (Len(v) + 1) - 1 = n + 2
          BY <1>1, <1>2, <3>2
        <4> QED
          BY <1>3, <1>4, <3>2, <4>1
      <3> QED
        BY <1>1, <3>1, <3>2
    <2>3. ASSUME NEW i \in lo + 2 .. (Len(v) + 1) - 1, v[i] = "END"
          PROVE  v[i - 1] = "ESC"
      <3>1. CASE i <= n
        <4>1. i \in lo + 2 .. (n + 1) - 1 /\ i \in 1 .. n /\ i - 1 \in 1 .. n
          BY <1>1, <3>1
        <4>2. w[i] = "END"
          BY <1>3, <2>3, <4>1
        <4> QED
          BY <1>3, <1>5, <4>1, <4>2 DEF Escaped
      <3>2. CASE i = n + 1
        BY <1>3, <1>4, <2>3, <3>2
      <3>3. CASE i = n + 2 /\ Len(e) = 2
        <4>1. i - 1 = n + 1
          BY <1>1, <3>3
        <4> QED
          BY <1>3, <1>4, <3>3, <4>1
      <3>4. i <= n \/ i = n + 1 \/ (i = n + 2 /\ d = 2)
        <4>1. i \in lo + 2 .. (l + 1) - 1
          BY <1>0
        <4> QED
          BY <1>a, <4>1
      <3> QED
        BY <1>0, <3>1, <3>2, <3>3, <3>4
    <2> QED
      BY <2>1, <2>2, <2>3 DEF Escaped
  <1>7. ByteAt(v, n + 1, Len(v) + 1, b)
    <2>1. (n + 1) + 1 = n + 2 /\ (d = 2 => l + 1 = (n + 1) + 2) /\ (d = 1 => l + 1 = (n + 1) + 1)
      BY <1>a
    <2> QED
      BY <1>0, <1>3, <1>4, <2>1 DEF ByteAt
  <1>8. PICK at \in [1 .. Len(m) + 1 -> lo + 2 .. n + 1] : Positions(w, lo, n + 1, m, at)
    BY DEF MessageAt, n
  <1> DEFINE k   == Len(m)
             mm  == Append(m, b)
             aat == [j \in 1 .. k + 2 |-> IF j <= k + 1 THEN at[j] ELSE Len(v) + 1]
  <1>9. k \in Nat /\ Len(mm) = k + 1 /\ mm[k + 1] = b /\ \A j \in 1 .. k : mm[j] = m[j]
    BY LenProperties
  <1>10. \A j \in 1 .. k + 1 : at[j] \in lo + 2 .. n + 1
    BY <1>8
  <1>11. Len(v) \in Nat /\ n < Len(v)
    <2>1. l \in Nat /\ n < l
      BY <1>a
    <2> QED
      BY <1>0, <2>1
  <1>12. \A j \in 1 .. k + 2 : aat[j] \in lo + 2 .. Len(v) + 1
    BY <1>1, <1>5, <1>9, <1>10, <1>11
  <1>13. (k + 1) + 1 = k + 2
    BY <1>9
  <1>14. aat \in [1 .. Len(mm) + 1 -> lo + 2 .. Len(v) + 1]
    BY <1>9, <1>12, <1>13
  <1>15. (\A j \in 1 .. k + 1 : aat[j] = at[j]) /\ aat[k + 2] = Len(v) + 1
    BY <1>9
  <1>16. at[1] = lo + 2 /\ at[k + 1] = n + 1 /\ \A j \in 1 .. k : ByteAt(w, at[j], at[j + 1], m[j])
    BY <1>8 DEF Positions
  <1> HIDE DEF aat, mm, k
  <1>17. ASSUME NEW j \in 1 .. k + 1
         PROVE  ByteAt(v, aat[j], aat[j + 1], mm[j])
    <2>1. CASE j = k + 1
      <3>1. j + 1 = k + 2 /\ aat[j] = n + 1
        BY <1>9, <1>13, <1>15, <1>16, <2>1
      <3> QED
        BY <1>7, <1>9, <1>15, <2>1, <3>1
    <2>2. CASE j # k + 1
      <3>1. j \in 1 .. k /\ j + 1 \in 1 .. k + 1
        BY <1>9, <2>2
      <3>2. aat[j] = at[j] /\ aat[j + 1] = at[j + 1] /\ mm[j] = m[j]
        BY <1>9, <1>15, <3>1
      <3>3. at[j] \in 1 .. n + 1 /\ at[j + 1] \in 1 .. n + 1 /\ n + 1 \in Nat
        BY <1>1, <1>10, <3>1
      <3>4. \A i \in 1 .. (n + 1) - 1 : v[i] = w[i]
        BY <1>1, <1>3
      <3>5. ByteAt(w, at[j], at[j + 1], m[j])
        BY <1>16, <3>1
      <3>6. ByteAt(v, at[j], at[j + 1], m[j])
        BY <3>3, <3>4, <3>5, ByteStays
      <3> QED
        BY <3>2, <3>6
    <2> QED
      BY <2>1, <2>2
  <1>18. aat[1] = lo + 2 /\ aat[Len(mm) + 1] = Len(v) + 1
    BY <1>9, <1>13, <1>15, <1>16
  <1>19. Positions(v, lo, Len(v) + 1, mm, aat)
    BY <1>9, <1>17, <1>18 DEF Positions
  <1>20. Len(v) + 1 \in lo + 2 .. Len(v) + 1
    BY <1>1, <1>5, <1>11
  <1>21. MessageAt(v, lo, Len(v) + 1, mm)
    BY <1>6, <1>14, <1>19, <1>20 DEF MessageAt
  <1>22. Extends(v, w)
    BY <1>1, <1>3, <1>11 DEF Extends, n
  <1> QED
    BY <1>2, <1>11, <1>21, <1>22 DEF v, e, n, mm

\* Byte j of the message, in the buffer that begins behind lo.
LEMMA ByteInBuffer ==
    ASSUME NEW T, NEW w \in Seq(T), NEW lo \in Nat, NEW hi \in Nat, NEW t \in Nat,
           lo + 2 <= hi, hi <= t, t <= Len(w), NEW m, Len(m) \in Nat,
           NEW at \in [1 .. Len(m) + 1 -> lo + 2 .. hi], Positions(w, lo, hi, m, at),
           NEW j \in 1 .. Len(m)
    PROVE  /\ at[j] \in lo + 2 .. hi - 1 /\ at[j + 1] \in lo + 2 .. hi
           /\ ByteAt(SubSeq(w, lo + 1, t), at[j] - lo, at[j + 1] - lo, m[j])
  <1> DEFINE s == SubSeq(w, lo + 1, t)
  <1>1. \A i \in 1 .. t - lo : s[i] = w[lo + i]
    BY SliceOf
  <1> HIDE DEF s
  <1>2. at[j] \in lo + 2 .. hi /\ at[j + 1] \in lo + 2 .. hi
    OBVIOUS
  <1>3. ByteAt(w, at[j], at[j + 1], m[j])
    BY DEF Positions
  <1>4. PICK x \in lo + 2 .. hi, y \in lo + 2 .. hi : x = at[j] /\ y = at[j + 1]
    BY <1>2
  <1>5. ByteAt(w, x, y, m[j])
    BY <1>3, <1>4
  <1>6. x <= hi - 1
    BY <1>5 DEF ByteAt
  <1>7. lo + (x - lo) = x /\ lo + ((x - lo) + 1) = x + 1
    OBVIOUS
  <1>8. x - lo \in 1 .. t - lo
    BY <1>6
  <1>9. s[x - lo] = w[x]
    BY <1>1, <1>7, <1>8
  <1>10. y = x + 2 => s[(x - lo) + 1] = w[x + 1]
    <2>1. y = x + 2 => (x - lo) + 1 \in 1 .. t - lo
      OBVIOUS
    <2> QED
      BY <1>1, <1>7, <2>1
  <1>11. (y = x + 2 => y - lo = (x - lo) + 2) /\ (y = x + 1 => y - lo = (x - lo) + 1)
    OBVIOUS
  <1>12. ByteAt(s, x - lo, y - lo, m[j])
    BY <1>5, <1>9, <1>10, <1>11 DEF ByteAt
  <1> QED
    BY <1>2, <1>4, <1>6, <1>12 DEF s

-----------------------------------------------------------------------------
(* The ends of lines and messages *)

\* The ends rise, and the last is no further than n.
Rise(e, n) ==
    /\ \A j, k \in 0 .. Len(e) : j < k => Base(e, j) < Base(e, k)
    /\ Base(e, Len(e)) <= n

\* So positions that are in order are the ones of lines or messages that are in order, ...
LEMMA BaseProperties ==
    ASSUME NEW e \in Seq(Nat), NEW n \in Nat, Rise(e, n)
    PROVE  /\ \A k \in 0 .. Len(e) : Base(e, k) \in 0 .. n
           /\ \A k \in 1 .. Len(e) : Base(e, k) = e[k] /\ Base(e, k - 1) < e[k]
           /\ \A k \in 0 .. Len(e) - 1 : Base(e, k + 1) = e[k + 1] /\ Base(e, k) < e[k + 1]
           /\ \A j, k \in 0 .. Len(e) : j <= k => Base(e, j) <= Base(e, k)
           /\ Len(e) \in Nat
  <1>1. Len(e) \in Nat /\ \A k \in 1 .. Len(e) : e[k] \in Nat
    BY LenProperties, ElementOfSeq
  <1>2. \A k \in 0 .. Len(e) : Base(e, k) \in Nat
    BY <1>1 DEF Base
  <1>3. \A j, k \in 0 .. Len(e) : j < k => Base(e, j) < Base(e, k)
    BY DEF Rise
  <1>4. \A j, k \in 0 .. Len(e) : j <= k => Base(e, j) <= Base(e, k)
    <2>1. TAKE j, k \in 0 .. Len(e)
    <2>2. j < k => Base(e, j) < Base(e, k)
      BY <1>3
    <2>3. Base(e, j) \in Nat /\ Base(e, k) \in Nat
      BY <1>2
    <2>4. CASE j = k
      BY <2>3, <2>4
    <2>5. CASE j # k
      <3>1. j <= k => j < k
        BY <2>5
      <3> QED
        BY <2>2, <2>3, <3>1
    <2> QED
      BY <2>4, <2>5
  <1>5. \A k \in 0 .. Len(e) : Base(e, k) \in 0 .. n
    <2>1. TAKE k \in 0 .. Len(e)
    <2>2. Base(e, k) <= Base(e, Len(e)) /\ Base(e, Len(e)) <= n /\ Base(e, Len(e)) \in Nat
      BY <1>1, <1>2, <1>4 DEF Rise
    <2>3. Base(e, k) \in Nat
      BY <1>2
    <2> QED
      BY <2>2, <2>3
  <1>6. \A k \in 1 .. Len(e) : Base(e, k) = e[k]
    BY DEF Base
  <1>7. \A k \in 1 .. Len(e) : Base(e, k - 1) < Base(e, k)
    <2>1. \A k \in 1 .. Len(e) : k - 1 \in 0 .. Len(e) /\ k \in 0 .. Len(e) /\ k - 1 < k
      BY <1>1
    <2> QED
      BY <1>3, <2>1
  <1>8. \A k \in 0 .. Len(e) - 1 : k + 1 \in 1 .. Len(e) /\ (k + 1) - 1 = k
    BY <1>1
  <1>9. \A k \in 0 .. Len(e) - 1 : Base(e, k + 1) = e[k + 1] /\ Base(e, k) < e[k + 1]
    <2>1. TAKE k \in 0 .. Len(e) - 1
    <2>2. k + 1 \in 1 .. Len(e) /\ (k + 1) - 1 = k
      BY <1>8
    <2>3. Base(e, k + 1) = e[k + 1] /\ Base(e, (k + 1) - 1) < Base(e, k + 1)
      BY <1>6, <1>7, <2>2
    <2> QED
      BY <2>2, <2>3
  <1> QED
    BY <1>1, <1>4, <1>5, <1>6, <1>7, <1>9

\* ... and one more end is further than all of them.
LEMMA RiseAppended ==
    ASSUME NEW e \in Seq(Nat), NEW n \in Nat, NEW l \in Nat, Rise(e, n), n < l
    PROVE  /\ Rise(Append(e, l), l)
           /\ \A k \in 0 .. Len(e) : Base(Append(e, l), k) = Base(e, k)
           /\ Base(Append(e, l), Len(e) + 1) = l
  <1> DEFINE f == Append(e, l)
  <1>1. Len(e) \in Nat /\ Len(f) = Len(e) + 1 /\ f[Len(e) + 1] = l
        /\ \A k \in 1 .. Len(e) : f[k] = e[k]
    BY Appended, LenProperties DEF Extends
  <1> HIDE DEF f
  <1>2. \A k \in 0 .. Len(e) : Base(f, k) = Base(e, k)
    BY <1>1 DEF Base
  <1>3. Base(f, Len(e) + 1) = l
    BY <1>1 DEF Base
  <1>4. \A k \in 0 .. Len(e) : Base(e, k) \in 0 .. n
    BY BaseProperties
  <1>5. ASSUME NEW j \in 0 .. Len(f), NEW k \in 0 .. Len(f), j < k
        PROVE  Base(f, j) < Base(f, k)
    <2>1. j \in 0 .. Len(e)
      BY <1>1, <1>5
    <2>2. CASE k = Len(e) + 1
      <3>1. Base(f, j) \in 0 .. n
        BY <1>2, <1>4, <2>1
      <3> QED
        BY <1>3, <2>2, <3>1
    <2>3. CASE k # Len(e) + 1
      <3>1. k \in 0 .. Len(e)
        BY <1>1, <2>3
      <3> QED
        BY <1>2, <1>5, <2>1, <3>1 DEF Rise
    <2> QED
      BY <2>2, <2>3
  <1>6. Base(f, Len(f)) <= l
    BY <1>1, <1>3
  <1> QED
    BY <1>2, <1>3, <1>5, <1>6 DEF Rise, f

-----------------------------------------------------------------------------
(* A line on the wire *)

\* The line with this word is sent between lo and hi.
LineAt(w, lo, hi, word) ==
    /\ hi \in lo + 1 .. Len(w)
    /\ w[hi] = "nl" /\ \A i \in lo + 1 .. hi - 1 : w[i] # "nl"
    /\ word = "blank" => hi = lo + 1 \/ (hi = lo + 2 /\ w[lo + 1] = "cr")
    /\ word # "blank" => hi > lo + 1 /\ w[lo + 1] = word

\* No word is taken for the end of a line.
LEMMA WordsProperties ==
    ASSUME NEW word \in Words
    PROVE  word # "cr" /\ word # "nl"
  BY StreamsAssumption DEF Words

\* What is sent later changes nothing.
LEMMA LineStays ==
    ASSUME NEW T, NEW w \in Seq(T), NEW v \in Seq(T), Extends(v, w),
           NEW lo \in Nat, NEW hi \in Nat, NEW word, LineAt(w, lo, hi, word)
    PROVE  LineAt(v, lo, hi, word)
  <1>1. Len(w) \in Nat /\ Len(v) \in Nat /\ Len(w) <= Len(v)
    BY LenProperties DEF Extends
  <1>2. hi \in lo + 1 .. Len(w)
    BY DEF LineAt
  <1>3. \A i \in 1 .. hi : v[i] = w[i]
    BY <1>1, <1>2 DEF Extends
  <1>4. hi \in lo + 1 .. Len(v) /\ lo + 1 \in 1 .. hi /\ hi \in 1 .. hi
        /\ \A i \in lo + 1 .. hi - 1 : i \in 1 .. hi
    BY <1>1, <1>2
  <1> QED
    BY <1>3, <1>4 DEF LineAt

\* The two ends of a line.
LEMMA EndsOfLineProperties ==
    ASSUME NEW T, "cr" \in T, "nl" \in T, NEW eol \in EndsOfLine
    PROVE  /\ eol \in Seq(T)
           /\ \/ Len(eol) = 1 /\ eol[1] = "nl"
              \/ Len(eol) = 2 /\ eol[1] = "cr" /\ eol[2] = "nl"
  <1>1. CASE eol = <<"nl">>
    <2>1. <<"nl">> \in Seq(T)
      OBVIOUS
    <2>2. Len(eol) = 1 /\ eol[1] = "nl"
      BY <1>1
    <2> QED
      BY <1>1, <2>1, <2>2
  <1>2. CASE eol = <<"cr", "nl">>
    <2>1. <<"cr", "nl">> \in Seq(T)
      OBVIOUS
    <2>2. Len(eol) = 2 /\ eol[1] = "cr" /\ eol[2] = "nl"
      BY <1>2
    <2> QED
      BY <1>2, <2>1, <2>2
  <1> QED
    BY <1>1, <1>2 DEF EndsOfLine

\* A line that is sent is one on the wire.
LEMMA LineSent ==
    ASSUME NEW T, Words \cup {"cr", "nl"} \subseteq T, NEW w \in Seq(T),
           NEW word \in Words, NEW eol \in EndsOfLine
    PROVE  /\ w \o Line(word, eol) \in Seq(T)
           /\ Len(w) < Len(w \o Line(word, eol))
           /\ Extends(w \o Line(word, eol), w)
           /\ LineAt(w \o Line(word, eol), Len(w), Len(w \o Line(word, eol)), word)
  <1> DEFINE l == Line(word, eol)
             v == w \o l
  <1>1. word # "cr" /\ word # "nl"
    BY WordsProperties
  <1>2. /\ l \in Seq(T)
        /\ \/ word = "blank" /\ Len(l) = 1 /\ l[1] = "nl"
           \/ word = "blank" /\ Len(l) = 2 /\ l[1] = "cr" /\ l[2] = "nl"
           \/ word # "blank" /\ Len(l) = 2 /\ l[1] = word /\ l[2] = "nl"
           \/ word # "blank" /\ Len(l) = 3 /\ l[1] = word /\ l[2] = "cr" /\ l[3] = "nl"
    <2>0. word \in T /\ "cr" \in T /\ "nl" \in T
      OBVIOUS
    <2>1. /\ eol \in Seq(T)
          /\ \/ Len(eol) = 1 /\ eol[1] = "nl"
             \/ Len(eol) = 2 /\ eol[1] = "cr" /\ eol[2] = "nl"
      BY <2>0, EndsOfLineProperties
    <2>2. CASE word = "blank"
      <3>1. l = eol
        BY <2>2 DEF Line
      <3> QED
        BY <2>1, <2>2, <3>1
    <2>3. CASE word # "blank"
      <3>1. l = <<word>> \o eol
        BY <2>3 DEF Line
      <3>2. <<word>> \in Seq(T) /\ Len(<<word>>) = 1 /\ <<word>>[1] = word
        BY <2>0
      <3>3. /\ l \in Seq(T) /\ Len(l) = 1 + Len(eol) /\ l[1] = word
            /\ \A i \in 1 .. Len(eol) : l[1 + i] = eol[i]
        <4> DEFINE x == <<word>>
        <4>1. l = x \o eol /\ x \in Seq(T) /\ Len(x) = 1 /\ x[1] = word
          BY <3>1, <3>2
        <4> HIDE DEF x
        <4>2. /\ x \o eol \in Seq(T) /\ Len(x \o eol) = Len(x) + Len(eol)
              /\ Extends(x \o eol, x)
              /\ \A i \in 1 .. Len(eol) : (x \o eol)[Len(x) + i] = eol[i]
          <5>1. x \in Seq(T) /\ eol \in Seq(T)
            BY <2>1, <4>1
          <5> QED
            BY <5>1, Concatenated
        <4> QED
          BY <4>1, <4>2 DEF Extends
      <3>4. CASE Len(eol) = 1 /\ eol[1] = "nl"
        <4>1. l[1 + 1] = "nl" /\ Len(l) = 2 /\ 1 + 1 = 2
          BY <3>3, <3>4
        <4> QED
          BY <2>3, <3>3, <4>1
      <3>5. CASE Len(eol) = 2 /\ eol[1] = "cr" /\ eol[2] = "nl"
        <4>1. l[1 + 1] = "cr" /\ l[1 + 2] = "nl" /\ Len(l) = 3 /\ 1 + 1 = 2 /\ 1 + 2 = 3
          BY <3>3, <3>5
        <4> QED
          BY <2>3, <3>3, <4>1
      <3> QED
        BY <2>1, <3>4, <3>5
    <2> QED
      BY <2>2, <2>3
  <1> HIDE DEF l
  <1>3. /\ v \in Seq(T) /\ Len(v) = Len(w) + Len(l) /\ Extends(v, w)
        /\ \A i \in 1 .. Len(l) : v[Len(w) + i] = l[i]
    BY <1>2, Concatenated
  <1> HIDE DEF v
  <1>4. PICK n \in Nat, h \in Nat : n = Len(w) /\ h = Len(v)
    BY <1>3, LenProperties
  <1>5. LineAt(v, n, h, word) /\ n < h
    <2>1. CASE word = "blank" /\ Len(l) = 1 /\ l[1] = "nl"
      <3>1. h = n + 1 /\ v[n + 1] = "nl"
        BY <1>3, <1>4, <2>1
      <3> QED
        BY <1>4, <2>1, <3>1 DEF LineAt
    <2>2. CASE word = "blank" /\ Len(l) = 2 /\ l[1] = "cr" /\ l[2] = "nl"
      <3>1. h = n + 2 /\ v[n + 1] = "cr" /\ v[n + 2] = "nl"
        BY <1>3, <1>4, <2>2
      <3> QED
        BY <1>4, <2>2, <3>1 DEF LineAt
    <2>3. CASE word # "blank" /\ Len(l) = 2 /\ l[1] = word /\ l[2] = "nl"
      <3>1. h = n + 2 /\ v[n + 1] = word /\ v[n + 2] = "nl"
        BY <1>3, <1>4, <2>3
      <3> QED
        BY <1>1, <1>4, <2>3, <3>1 DEF LineAt
    <2>4. CASE word # "blank" /\ Len(l) = 3 /\ l[1] = word /\ l[2] = "cr" /\ l[3] = "nl"
      <3>1. h = n + 3 /\ v[n + 1] = word /\ v[n + 2] = "cr" /\ v[n + 3] = "nl"
        BY <1>3, <1>4, <2>4
      <3>2. \A i \in n + 1 .. h - 1 : i = n + 1 \/ i = n + 2
        BY <3>1
      <3> QED
        BY <1>1, <1>4, <2>4, <3>1, <3>2 DEF LineAt
    <2> QED
      BY <1>2, <2>1, <2>2, <2>3, <2>4
  <1> QED
    BY <1>3, <1>4, <1>5 DEF v, l

\* In the buffer that begins behind lo.
LEMMA LineInBuffer ==
    ASSUME NEW T, NEW w \in Seq(T), NEW lo \in Nat, NEW hi \in Nat, NEW t \in Nat,
           hi <= t, t <= Len(w), NEW word, word # "cr", word # "nl", LineAt(w, lo, hi, word)
    PROVE  LET s    == SubSeq(w, lo + 1, t)
               nls  == {i \in DOMAIN s : s[i] = "nl"}
               line == SubSeq(s, 1, First(nls))
           IN  /\ nls # {} /\ First(nls) = hi - lo
               /\ word = "blank" <=> line \in EndsOfLine
               /\ word # "blank" => line[1] = word
  <1> DEFINE s   == SubSeq(w, lo + 1, t)
             nls == {i \in DOMAIN s : s[i] = "nl"}
             line == SubSeq(s, 1, First(nls))
  <1>1. lo + 1 <= hi /\ Len(w) \in Nat
    BY LenProperties DEF LineAt
  <1>2. s \in Seq(T) /\ Len(s) = t - lo /\ \A i \in 1 .. t - lo : s[i] = w[lo + i]
    BY <1>1, SliceOf
  <1>3. DOMAIN s = 1 .. t - lo
    BY <1>2, LenProperties
  <1> HIDE DEF s
  <1>4. hi - lo \in 1 .. t - lo /\ lo + (hi - lo) = hi
    BY <1>1
  <1>5. hi - lo \in nls /\ nls \in SUBSET Nat
    BY <1>2, <1>3, <1>4 DEF LineAt
  <1>6. ASSUME NEW i \in nls
        PROVE  hi - lo <= i
    <2>1. i \in 1 .. t - lo /\ w[lo + i] = "nl"
      BY <1>2, <1>3
    <2>2. lo + i \notin lo + 1 .. hi - 1
      BY <2>1 DEF LineAt
    <2> QED
      BY <1>1, <2>1, <2>2
  <1>7. nls # {} /\ First(nls) = hi - lo
    BY <1>5, <1>6, FirstIs
  <1> HIDE DEF nls
  <1>8. line = SubSeq(s, 0 + 1, hi - lo)
    <2>1. 0 + 1 = 1
      OBVIOUS
    <2> QED
      BY <1>7, <2>1
  <1> HIDE DEF line
  <1>9. /\ line \in Seq(T) /\ Len(line) = hi - lo
        /\ \A i \in 1 .. hi - lo : line[i] = w[lo + i]
    <2>1. 0 <= hi - lo /\ hi - lo \in Nat /\ hi - lo <= Len(s)
      BY <1>2, <1>4
    <2>2. /\ line \in Seq(T) /\ Len(line) = (hi - lo) - 0
          /\ \A i \in 1 .. (hi - lo) - 0 : line[i] = s[0 + i]
      BY <1>2, <1>8, <2>1, SliceOf
    <2>3. (hi - lo) - 0 = hi - lo /\ \A i \in 1 .. hi - lo : 0 + i = i /\ i \in 1 .. t - lo
      BY <1>4
    <2> QED
      BY <1>2, <2>2, <2>3
  <1>10. line[1] = w[lo + 1]
    BY <1>4, <1>9
  <1>11. ASSUME word = "blank"
         PROVE  line \in EndsOfLine
    <2>1. CASE hi = lo + 1
      <3>1. Len(line) = 1 /\ line[1] = "nl"
        BY <1>9, <1>10, <2>1 DEF LineAt
      <3>2. line = <<"nl">>
        BY <1>9, <3>1
      <3> QED
        BY <3>2 DEF EndsOfLine
    <2>2. CASE hi = lo + 2 /\ w[lo + 1] = "cr"
      <3>1. hi - lo = 2 /\ lo + 2 = hi
        BY <2>2
      <3>2. Len(line) = 2 /\ line[1] = "cr" /\ line[2] = "nl"
        BY <1>9, <1>10, <2>2, <3>1 DEF LineAt
      <3>3. line = <<"cr", "nl">>
        BY <1>9, <3>2
      <3> QED
        BY <3>3 DEF EndsOfLine
    <2> QED
      BY <1>11, <2>1, <2>2 DEF LineAt
  <1>12. ASSUME word # "blank"
         PROVE  line[1] = word /\ line \notin EndsOfLine
    <2>1. line[1] = word
      BY <1>10, <1>12 DEF LineAt
    <2> QED
      BY <2>1 DEF EndsOfLine
  <1> QED
    BY <1>7, <1>11, <1>12 DEF nls, line, s

\* Without an end of a line, none is found.
LEMMA NoLine ==
    ASSUME NEW T, NEW w \in Seq(T), NEW lo \in Nat, NEW t \in Nat, lo <= t, t <= Len(w),
           \A i \in lo + 1 .. t : w[i] # "nl"
    PROVE  LET s == SubSeq(w, lo + 1, t) IN {i \in DOMAIN s : s[i] = "nl"} = {}
  <1> DEFINE s == SubSeq(w, lo + 1, t)
  <1>1. s \in Seq(T) /\ Len(s) = t - lo /\ \A i \in 1 .. t - lo : s[i] = w[lo + i]
    BY SliceOf
  <1>2. DOMAIN s = 1 .. t - lo
    BY <1>1, LenProperties
  <1> HIDE DEF s
  <1>3. \A i \in 1 .. t - lo : lo + i \in lo + 1 .. t
    OBVIOUS
  <1>4. {i \in DOMAIN s : s[i] = "nl"} = {}
    BY <1>1, <1>2, <1>3
  <1> QED
    BY <1>4 DEF s

-----------------------------------------------------------------------------
(* A request on the wire *)

\* All that can be on a wire.
Tokens == Words \cup Data \cup Bytes \cup {"cr", "nl", "END", "ESC", "ESC2"}

\* The lines of a header: its type is the first, only the last can be blank, and at most
\* one gives a length.
Legal(lines) ==
    /\ \A i \in 1 .. Len(lines) : i = 1 <=> lines[i] \in {"GET", "POST", "PUT"}
    /\ \A i \in 1 .. Len(lines) : lines[i] = "blank" => i = Len(lines)
    /\ \A i \in 1 .. Len(lines) : lines[i] = "upgrade" => lines[1] = "GET"
    /\ \A i \in 1 .. Len(lines) : lines[i] \in DOMAIN Lengths => lines[1] # "GET"
    /\ \A i, j \in 1 .. Len(lines) :
          lines[i] \in DOMAIN Lengths /\ lines[j] \in DOMAIN Lengths => i = j

\* The blank line was sent.
Finished(lines) == lines # <<>> /\ lines[Len(lines)] = "blank"

\* Lines and data are on the wire w, and the lines end at e.
RequestOnWire(w, e, lines, data) ==
    /\ Legal(lines)
    /\ \A k \in 1 .. Len(lines) : LineAt(w, Base(e, k - 1), e[k], lines[k])
    /\ Len(w) = Base(e, Len(e)) + Len(data)
    /\ \A i \in 1 .. Len(data) : w[Base(e, Len(e)) + i] = data[i]
    /\ data # <<>> => Finished(lines) /\ lines[1] # "GET"

\* MayFollow keeps a header legal.
LEMMA LegalStep ==
    ASSUME sent \in Seq(Words), Legal(sent), ~HeaderSent, NEW word \in Words, MayFollow(word)
    PROVE  Legal(Append(sent, word))
  <1> DEFINE n == Len(sent)
             s == Append(sent, word)
  <1>1. n \in Nat /\ Len(s) = n + 1 /\ s[n + 1] = word /\ \A i \in 1 .. n : s[i] = sent[i]
    BY Appended, LenProperties DEF Extends
  <1>2. sent = <<>> <=> n = 0
    BY EmptySeq, LenProperties
  <1>3. \A i \in 1 .. n : sent[i] # "blank"
    BY <1>1, <1>2 DEF Legal, HeaderSent
  <1> HIDE DEF s, n
  <1>4. \A i \in 1 .. Len(s) : i \in 1 .. n \/ i = n + 1
    BY <1>1
  <1>5. CASE sent = <<>>
    <2>1. n = 0 /\ word \in {"GET", "POST", "PUT"}
      BY <1>2, <1>5 DEF MayFollow
    <2>2. Len(s) = 1 /\ s[1] = word /\ \A i \in 1 .. Len(s) : i = 1
      BY <1>1, <2>1
    <2>3. word \notin DOMAIN Lengths
      BY <2>1, StreamsAssumption
    <2>4. Legal(s)
      BY <2>1, <2>2, <2>3 DEF Legal
    <2> QED
      BY <2>4 DEF s
  <1>6. CASE sent # <<>>
    <2>1. /\ 1 \in 1 .. n /\ s[1] = sent[1] /\ n + 1 # 1
          /\ \/ word \in {"host", "blank"}
             \/ word = "upgrade" /\ sent[1] = "GET"
             \/ /\ word \in DOMAIN Lengths /\ sent[1] # "GET"
                /\ \A i \in 1 .. n : sent[i] \notin DOMAIN Lengths
      <3>1. DOMAIN sent = 1 .. n
        BY LenProperties DEF n
      <3> QED
        BY <1>1, <1>2, <1>6, <3>1 DEF MayFollow
    <2>2. word \notin {"GET", "POST", "PUT"}
      BY <2>1, StreamsAssumption
    <2>3. \A i \in 1 .. Len(s) : i = 1 <=> s[i] \in {"GET", "POST", "PUT"}
      <3>1. \A i \in 1 .. n : i = 1 <=> s[i] \in {"GET", "POST", "PUT"}
        BY <1>1 DEF Legal, n
      <3> QED
        BY <1>1, <1>4, <2>1, <2>2, <3>1
    <2>4. \A i \in 1 .. Len(s) : s[i] = "blank" => i = Len(s)
      BY <1>1, <1>3, <1>4
    <2>5. word = "upgrade" => s[1] = "GET"
      BY <2>1, StreamsAssumption
    <2>6. word \in DOMAIN Lengths =>
             s[1] # "GET" /\ \A i \in 1 .. n : s[i] \notin DOMAIN Lengths
      BY <1>1, <2>1, StreamsAssumption
    <2>7. \A i \in 1 .. n : /\ s[i] = "upgrade" => s[1] = "GET"
                            /\ s[i] \in DOMAIN Lengths => s[1] # "GET"
      BY <1>1, <2>1 DEF Legal, n
    <2>8. \A i, j \in 1 .. n :
             s[i] \in DOMAIN Lengths /\ s[j] \in DOMAIN Lengths => i = j
      BY <1>1 DEF Legal, n
    <2>9. \A i \in 1 .. Len(s) : /\ s[i] = "upgrade" => s[1] = "GET"
                                 /\ s[i] \in DOMAIN Lengths => s[1] # "GET"
      BY <1>1, <1>4, <2>5, <2>6, <2>7
    <2>10. \A i, j \in 1 .. Len(s) :
             s[i] \in DOMAIN Lengths /\ s[j] \in DOMAIN Lengths => i = j
      BY <1>1, <1>4, <2>6, <2>8
    <2>11. Legal(s)
      BY <2>3, <2>4, <2>9, <2>10 DEF Legal
    <2> QED
      BY <2>11 DEF s
  <1> QED
    BY <1>5, <1>6

\* A line more.
LEMMA RequestGrows ==
    ASSUME NEW w \in Seq(Tokens), NEW e \in Seq(Nat), NEW lines \in Seq(Words),
           Len(e) = Len(lines), Rise(e, Len(w)), RequestOnWire(w, e, lines, <<>>),
           NEW word \in Words, NEW eol \in EndsOfLine, Legal(Append(lines, word))
    PROVE  LET v == w \o Line(word, eol)
           IN  RequestOnWire(v, Append(e, Len(v)), Append(lines, word), <<>>)
  <1> DEFINE v == w \o Line(word, eol)
             f == Append(e, Len(v))
             s == Append(lines, word)
  <1>1. Len(w) \in Nat /\ Words \cup {"cr", "nl"} \subseteq Tokens
    BY LenProperties DEF Tokens
  <1>2. v \in Seq(Tokens) /\ Len(w) < Len(v) /\ Extends(v, w)
        /\ LineAt(v, Len(w), Len(v), word)
    BY <1>1, LineSent
  <1> HIDE DEF v
  <1>3. Len(v) \in Nat
    BY <1>2, LenProperties
  <1>4. Len(e) \in Nat /\ \A k \in 0 .. Len(e) : Base(e, k) \in 0 .. Len(w)
    BY <1>1, BaseProperties
  <1>5. \A k \in 1 .. Len(e) : e[k] \in Nat
    BY ElementOfSeq
  <1>6. /\ Len(f) = Len(e) + 1 /\ f[Len(e) + 1] = Len(v)
        /\ \A k \in 1 .. Len(e) : f[k] = e[k]
    BY <1>3, Appended DEF Extends
  <1>7. /\ \A k \in 0 .. Len(e) : Base(f, k) = Base(e, k)
        /\ Base(f, Len(e) + 1) = Len(v)
    BY <1>1, <1>2, <1>3, RiseAppended
  <1>8. /\ Len(s) = Len(e) + 1 /\ s[Len(e) + 1] = word
        /\ \A k \in 1 .. Len(e) : s[k] = lines[k]
    BY Appended DEF Extends
  <1>9. Len(<<>>) = 0
    OBVIOUS
  <1>10. Len(w) = Base(e, Len(e))
    <2>1. Len(w) = Base(e, Len(e)) + 0
      BY <1>9 DEF RequestOnWire
    <2>2. Base(e, Len(e)) \in Nat
      BY <1>4
    <2> QED
      BY <2>1, <2>2
  <1> HIDE DEF f, s
  <1>11. ASSUME NEW k \in 1 .. Len(s)
         PROVE  LineAt(v, Base(f, k - 1), f[k], s[k])
    <2>1. CASE k = Len(e) + 1
      <3>1. k - 1 = Len(e) /\ Len(e) \in 0 .. Len(e)
        BY <1>4, <2>1
      <3>2. Base(f, k - 1) = Len(w) /\ f[k] = Len(v) /\ s[k] = word
        BY <1>6, <1>7, <1>8, <1>10, <2>1, <3>1
      <3> QED
        BY <1>2, <3>2
    <2>2. CASE k # Len(e) + 1
      <3>1. k \in 1 .. Len(e) /\ k - 1 \in 0 .. Len(e)
        BY <1>4, <1>8, <2>2
      <3>2. Base(f, k - 1) = Base(e, k - 1) /\ f[k] = e[k] /\ s[k] = lines[k]
        BY <1>6, <1>7, <1>8, <3>1
      <3>3. LineAt(w, Base(e, k - 1), e[k], lines[k])
        BY <3>1 DEF RequestOnWire
      <3>4. Base(e, k - 1) \in Nat /\ e[k] \in Nat
        BY <1>4, <1>5, <3>1
      <3>5. LineAt(v, Base(e, k - 1), e[k], lines[k])
        BY <1>2, <3>3, <3>4, LineStays
      <3> QED
        BY <3>2, <3>5
    <2> QED
      BY <2>1, <2>2
  <1>12. Len(v) = Base(f, Len(f)) + Len(<<>>)
    BY <1>3, <1>6, <1>7, <1>9
  <1>13. Legal(s)
    BY DEF s
  <1>14. RequestOnWire(v, f, s, <<>>)
    BY <1>9, <1>11, <1>12, <1>13 DEF RequestOnWire
  <1> QED
    BY <1>14 DEF v, f, s

\* Data more.
LEMMA DataGrows ==
    ASSUME NEW w \in Seq(Tokens), NEW e \in Seq(Nat), NEW lines \in Seq(Words),
           NEW data \in Seq(Tokens), NEW x \in Seq(Tokens),
           Len(e) = Len(lines), Rise(e, Len(w)), RequestOnWire(w, e, lines, data),
           Finished(lines), lines[1] # "GET"
    PROVE  RequestOnWire(w \o x, e, lines, data \o x)
  <1> DEFINE v == w \o x
             d == data \o x
             b == Base(e, Len(e))
  <1>1. Len(w) \in Nat /\ Len(x) \in Nat /\ Len(data) \in Nat
    BY LenProperties
  <1>2. /\ v \in Seq(Tokens) /\ Len(v) = Len(w) + Len(x) /\ Extends(v, w)
        /\ \A i \in 1 .. Len(x) : v[Len(w) + i] = x[i]
    BY Concatenated
  <1>3. /\ Len(d) = Len(data) + Len(x) /\ \A i \in 1 .. Len(data) : d[i] = data[i]
        /\ \A i \in 1 .. Len(x) : d[Len(data) + i] = x[i]
    BY Concatenated DEF Extends
  <1> HIDE DEF v, d
  <1>4. Len(e) \in Nat /\ \A k \in 0 .. Len(e) : Base(e, k) \in 0 .. Len(w)
    BY <1>1, BaseProperties
  <1>5. b \in Nat /\ Len(w) = b + Len(data)
    BY <1>4 DEF RequestOnWire
  <1> HIDE DEF b
  <1>6. ASSUME NEW k \in 1 .. Len(lines)
        PROVE  LineAt(v, Base(e, k - 1), e[k], lines[k])
    <2>1. k - 1 \in 0 .. Len(e) /\ e[k] \in Nat
      BY <1>4, ElementOfSeq
    <2>2. LineAt(w, Base(e, k - 1), e[k], lines[k]) /\ Base(e, k - 1) \in Nat
      BY <1>4, <2>1 DEF RequestOnWire
    <2> QED
      BY <1>2, <2>1, <2>2, LineStays
  <1>7. ASSUME NEW i \in 1 .. Len(d)
        PROVE  v[b + i] = d[i]
    <2>1. CASE i \in 1 .. Len(data)
      <3>1. w[b + i] = data[i]
        BY <2>1 DEF RequestOnWire, b
      <3>2. b + i \in 1 .. Len(w)
        BY <1>1, <1>5, <2>1
      <3> QED
        BY <1>2, <1>3, <2>1, <3>1, <3>2 DEF Extends
    <2>2. CASE i \notin 1 .. Len(data)
      <3>1. i - Len(data) \in 1 .. Len(x) /\ Len(data) + (i - Len(data)) = i
            /\ Len(w) + (i - Len(data)) = b + i
        BY <1>1, <1>3, <1>5, <2>2
      <3>2. v[Len(w) + (i - Len(data))] = x[i - Len(data)]
            /\ d[Len(data) + (i - Len(data))] = x[i - Len(data)]
        BY <1>2, <1>3, <3>1
      <3> QED
        BY <3>1, <3>2
    <2> QED
      BY <2>1, <2>2
  <1>8. Len(v) = b + Len(d)
    BY <1>1, <1>2, <1>3, <1>5
  <1>9. RequestOnWire(v, e, lines, d)
    BY <1>6, <1>7, <1>8 DEF RequestOnWire, b
  <1> QED
    BY <1>9 DEF v, d

-----------------------------------------------------------------------------
(* Messages on the wire *)

\* The messages are on the wire w, and end at e, and behind them the first bytes of one.
MessagesOnWire(w, e, messages, bytes) ==
    /\ \A k \in 1 .. Len(messages) :
          MessageAt(w, Base(e, k - 1), e[k], messages[k]) /\ w[e[k]] = "END"
    /\ \/ Len(w) = Base(e, Len(e)) /\ bytes = <<>>
       \/ MessageAt(w, Base(e, Len(e)), Len(w) + 1, bytes)

\* What is sent later changes none of them.
LEMMA SentMessagesStay ==
    ASSUME NEW w \in Seq(Tokens), NEW v \in Seq(Tokens), Extends(v, w), NEW e \in Seq(Nat),
           NEW messages \in Seq(Seq(Tokens)), NEW bytes, Len(e) = Len(messages),
           Rise(e, Len(w)), MessagesOnWire(w, e, messages, bytes), NEW k \in 1 .. Len(e)
    PROVE  MessageAt(v, Base(e, k - 1), e[k], messages[k]) /\ v[e[k]] = "END"
  <1>1. Len(w) \in Nat
    BY LenProperties
  <1>2. /\ \A i \in 0 .. Len(e) : Base(e, i) \in 0 .. Len(w)
        /\ Base(e, k) = e[k] /\ Base(e, k - 1) < e[k] /\ Len(e) \in Nat
    BY <1>1, BaseProperties
  <1>3. k - 1 \in 0 .. Len(e) /\ k \in 0 .. Len(e)
    BY <1>2
  <1>4. Base(e, k - 1) \in Nat /\ e[k] \in 1 .. Len(w) /\ e[k] \in Nat
    BY <1>2, <1>3
  <1>5. messages[k] \in Seq(Tokens)
    BY ElementOfSeq
  <1>6. Len(messages[k]) \in Nat
    BY <1>5, LenProperties
  <1>7. MessageAt(w, Base(e, k - 1), e[k], messages[k]) /\ w[e[k]] = "END"
    BY DEF MessagesOnWire
  <1>8. MessageAt(v, Base(e, k - 1), e[k], messages[k])
    BY <1>4, <1>6, <1>7, MessageStays
  <1> QED
    BY <1>4, <1>7, <1>8 DEF Extends

\* The END of the next one, ...
LEMMA MessagesBegin ==
    ASSUME NEW w \in Seq(Tokens), NEW e \in Seq(Nat), NEW messages \in Seq(Seq(Tokens)),
           Len(e) = Len(messages), Rise(e, Len(w)),
           MessagesOnWire(w, e, messages, <<>>), Len(w) = Base(e, Len(e))
    PROVE  MessagesOnWire(Append(w, "END"), e, messages, <<>>)
  <1> DEFINE v == Append(w, "END")
  <1>1. "END" \in Tokens
    BY DEF Tokens
  <1>2. v \in Seq(Tokens) /\ Len(v) = Len(w) + 1 /\ Extends(v, w)
        /\ MessageAt(v, Len(w), Len(w) + 2, <<>>)
    BY <1>1, MessageBegins
  <1> HIDE DEF v
  <1>3. Len(w) \in Nat
    BY LenProperties
  <1>4. Len(v) + 1 = Len(w) + 2
    BY <1>2, <1>3
  <1>5. MessageAt(v, Base(e, Len(e)), Len(v) + 1, <<>>)
    BY <1>2, <1>4
  <1>6. \A k \in 1 .. Len(messages) :
           MessageAt(v, Base(e, k - 1), e[k], messages[k]) /\ v[e[k]] = "END"
    BY <1>2, SentMessagesStay
  <1>7. MessagesOnWire(v, e, messages, <<>>)
    BY <1>5, <1>6 DEF MessagesOnWire
  <1> QED
    BY <1>7 DEF v

\* ... a byte of it, ...
LEMMA MessagesGrow ==
    ASSUME NEW w \in Seq(Tokens), NEW e \in Seq(Nat), NEW messages \in Seq(Seq(Tokens)),
           NEW bytes \in Seq(Tokens), NEW b \in Tokens,
           Len(e) = Len(messages), Rise(e, Len(w)),
           MessagesOnWire(w, e, messages, bytes), Len(w) > Base(e, Len(e))
    PROVE  MessagesOnWire(w \o SlipByte(b), e, messages, Append(bytes, b))
  <1> DEFINE v == w \o SlipByte(b)
             a == Append(bytes, b)
  <1>1. Len(w) \in Nat
    BY LenProperties
  <1>2. Base(e, Len(e)) \in Nat
    <2>1. Len(e) \in Nat /\ \A k \in 0 .. Len(e) : Base(e, k) \in 0 .. Len(w)
      BY <1>1, BaseProperties
    <2> QED
      BY <2>1
  <1>3. MessageAt(w, Base(e, Len(e)), Len(w) + 1, bytes)
    BY <1>1, <1>2 DEF MessagesOnWire
  <1>4. {"END", "ESC", "ESC2"} \subseteq Tokens
    BY DEF Tokens
  <1>5. /\ v \in Seq(Tokens) /\ Extends(v, w)
        /\ MessageAt(v, Base(e, Len(e)), Len(v) + 1, a)
    BY <1>2, <1>3, <1>4, MessageGrows
  <1> HIDE DEF v, a
  <1>6. \A k \in 1 .. Len(messages) :
           MessageAt(v, Base(e, k - 1), e[k], messages[k]) /\ v[e[k]] = "END"
    BY <1>5, SentMessagesStay
  <1>7. MessagesOnWire(v, e, messages, a)
    BY <1>5, <1>6 DEF MessagesOnWire
  <1> QED
    BY <1>7 DEF v, a

\* ... and the END of it.
LEMMA MessagesEnd ==
    ASSUME NEW w \in Seq(Tokens), NEW e \in Seq(Nat), NEW messages \in Seq(Seq(Tokens)),
           NEW bytes \in Seq(Tokens), bytes # <<>>,
           Len(e) = Len(messages), Rise(e, Len(w)), MessagesOnWire(w, e, messages, bytes)
    PROVE  LET v == Append(w, "END")
           IN  MessagesOnWire(v, Append(e, Len(v)), Append(messages, bytes), <<>>)
  <1> DEFINE v == Append(w, "END")
             f == Append(e, Len(v))
             s == Append(messages, bytes)
  <1>1. "END" \in Tokens
    BY DEF Tokens
  <1>2. v \in Seq(Tokens) /\ Len(v) = Len(w) + 1 /\ Extends(v, w) /\ v[Len(w) + 1] = "END"
    BY <1>1, Appended
  <1> HIDE DEF v
  <1>3. Len(w) \in Nat /\ Len(v) \in Nat /\ Len(bytes) \in Nat
    BY <1>2, LenProperties
  <1>4. /\ Len(e) \in Nat /\ \A k \in 0 .. Len(e) : Base(e, k) \in 0 .. Len(w)
    BY <1>3, BaseProperties
  <1>5. Base(e, Len(e)) \in Nat
    BY <1>4
  <1>6. /\ Len(f) = Len(e) + 1 /\ f[Len(e) + 1] = Len(v)
        /\ \A k \in 1 .. Len(e) : f[k] = e[k]
    BY <1>3, Appended DEF Extends
  <1>7. /\ \A k \in 0 .. Len(e) : Base(f, k) = Base(e, k)
        /\ Base(f, Len(e) + 1) = Len(v)
    BY <1>2, <1>3, RiseAppended
  <1>8. /\ Len(s) = Len(e) + 1 /\ s[Len(e) + 1] = bytes
        /\ \A k \in 1 .. Len(e) : s[k] = messages[k]
    BY Appended DEF Extends
  <1> HIDE DEF f, s
  <1>9. MessageAt(w, Base(e, Len(e)), Len(w) + 1, bytes)
    BY DEF MessagesOnWire
  <1>10. MessageAt(v, Base(e, Len(e)), Len(v), bytes) /\ v[Len(v)] = "END"
    <2>1. Len(w) + 1 \in Nat
      BY <1>3
    <2>2. MessageAt(v, Base(e, Len(e)), Len(w) + 1, bytes)
      BY <1>2, <1>3, <1>5, <1>9, <2>1, MessageStays
    <2> QED
      BY <1>2, <2>2
  <1>11. ASSUME NEW k \in 1 .. Len(s)
         PROVE  MessageAt(v, Base(f, k - 1), f[k], s[k]) /\ v[f[k]] = "END"
    <2>1. CASE k = Len(e) + 1
      <3>1. k - 1 = Len(e) /\ Len(e) \in 0 .. Len(e)
        BY <1>4, <2>1
      <3>2. Base(f, k - 1) = Base(e, Len(e)) /\ f[k] = Len(v) /\ s[k] = bytes
        BY <1>6, <1>7, <1>8, <2>1, <3>1
      <3> QED
        BY <1>10, <3>2
    <2>2. CASE k # Len(e) + 1
      <3>1. k \in 1 .. Len(e) /\ k - 1 \in 0 .. Len(e)
        <4>1. k \in 1 .. Len(e) + 1 /\ Len(e) \in Nat
          BY <1>4, <1>8
        <4> QED
          BY <2>2, <4>1
      <3>2. Base(f, k - 1) = Base(e, k - 1) /\ f[k] = e[k] /\ s[k] = messages[k]
        BY <1>6, <1>7, <1>8, <3>1
      <3>3. MessageAt(v, Base(e, k - 1), e[k], messages[k]) /\ v[e[k]] = "END"
        BY <1>2, <3>1, SentMessagesStay
      <3> QED
        BY <3>2, <3>3
    <2> QED
      BY <2>1, <2>2
  <1>12. Len(v) = Base(f, Len(f))
    BY <1>6, <1>7
  <1>13. MessagesOnWire(v, f, s, <<>>)
    BY <1>11, <1>12 DEF MessagesOnWire
  <1> QED
    BY <1>13 DEF v, f, s

-----------------------------------------------------------------------------
(* The peers *)

\* What a peer has sent, and where it is on the wire.
PeerTypes ==
    /\ http \in BOOLEAN
    /\ http => sent \in Seq(Words)
    /\ ~http => sent \in Seq(Seq(Tokens))
    /\ ends \in Seq(Nat) /\ Len(ends) = Len(sent)
    /\ part \in Seq(Tokens) /\ wire \in Seq(Tokens)

\* All of it is on the wire, line by line or message by message.
PeerInv ==
    /\ PeerTypes
    /\ Rise(ends, Len(wire))
    /\ http => RequestOnWire(wire, ends, sent, part)
    /\ ~http => MessagesOnWire(wire, ends, sent, part)

\* The model's name for the last end.
LEMMA LastEndIsBase ==
    ASSUME ends \in Seq(Nat)
    PROVE  LastEnd = Base(ends, Len(ends))
  <1>1. ends = <<>> <=> Len(ends) = 0
    BY EmptySeq, LenProperties
  <1> QED
    BY <1>1 DEF LastEnd, Base

\* A peer only appends: what is new ends behind all that was on the wire, and a header
\* that is finished stays as it is.
Appends ==
    /\ http' = http
    /\ Extends(wire', wire) /\ Extends(ends', ends) /\ Extends(sent', sent)
    /\ \A k \in 1 .. Len(ends') : k > Len(ends) => Len(wire) < ends'[k]
    /\ http /\ HeaderSent => sent' = sent /\ ends' = ends

\* A sequence extends itself, and ends stay in order when the wire grows.
LEMMA ExtendsItself ==
    ASSUME NEW T, NEW s \in Seq(T)
    PROVE  Extends(s, s)
  BY LenProperties DEF Extends

LEMMA RiseLater ==
    ASSUME NEW e \in Seq(Nat), NEW n \in Nat, NEW l \in Nat, Rise(e, n), n <= l
    PROVE  Rise(e, l)
  <1>1. Base(e, Len(e)) \in 0 .. n
    <2>1. Len(e) \in Nat /\ \A k \in 0 .. Len(e) : Base(e, k) \in 0 .. n
      BY BaseProperties
    <2> QED
      BY <2>1
  <1> QED
    BY <1>1 DEF Rise

\* Each of the peer's actions keeps the invariant, and only appends: a line, ...
LEMMA SendLineKeeps ==
    ASSUME PeerInv, SendLine
    PROVE  PeerInv' /\ Appends
  <1>1. /\ http /\ sent \in Seq(Words) /\ ends \in Seq(Nat) /\ Len(ends) = Len(sent)
        /\ part \in Seq(Tokens) /\ wire \in Seq(Tokens) /\ Rise(ends, Len(wire))
        /\ RequestOnWire(wire, ends, sent, part)
    BY DEF PeerInv, PeerTypes, SendLine
  <1>2. ~HeaderSent /\ http' = http /\ part' = part
    BY DEF SendLine
  <1>3. PICK word \in Words, eol \in EndsOfLine :
          /\ MayFollow(word)
          /\ sent' = Append(sent, word)
          /\ wire' = wire \o Line(word, eol)
    BY DEF SendLine
  <1>4. ends' = Append(ends, Len(wire'))
    BY DEF SendLine
  <1>5. part = <<>>
    BY <1>1, <1>2 DEF RequestOnWire, Finished, HeaderSent
  <1>6. Words \cup {"cr", "nl"} \subseteq Tokens
    BY DEF Tokens
  <1>7. wire' \in Seq(Tokens) /\ Len(wire) < Len(wire') /\ Extends(wire', wire)
    BY <1>1, <1>3, <1>6, LineSent
  <1>8. Len(wire) \in Nat /\ Len(wire') \in Nat /\ Len(ends) \in Nat
    BY <1>1, <1>7, LenProperties
  <1>9. /\ ends' \in Seq(Nat) /\ Len(ends') = Len(ends) + 1 /\ Extends(ends', ends)
        /\ ends'[Len(ends) + 1] = Len(wire')
    BY <1>1, <1>4, <1>8, Appended
  <1>10. sent' \in Seq(Words) /\ Len(sent') = Len(sent) + 1 /\ Extends(sent', sent)
    BY <1>1, <1>3, Appended
  <1>11. Rise(ends', Len(wire'))
    BY <1>1, <1>4, <1>7, <1>8, RiseAppended
  <1>12. Legal(Append(sent, word))
    <2>1. Legal(sent)
      BY <1>1 DEF RequestOnWire
    <2> QED
      BY <1>1, <1>2, <1>3, <2>1, LegalStep
  <1>13. RequestOnWire(wire', ends', sent', part')
    <2>1. RequestOnWire(wire, ends, sent, <<>>)
      BY <1>1, <1>5
    <2>2. LET v == wire \o Line(word, eol)
          IN  RequestOnWire(v, Append(ends, Len(v)), Append(sent, word), <<>>)
      BY <1>1, <1>12, <2>1, RequestGrows
    <2> QED
      BY <1>2, <1>3, <1>4, <1>5, <2>2
  <1>14. \A k \in 1 .. Len(ends') : k > Len(ends) => Len(wire) < ends'[k]
    <2>1. \A k \in 1 .. Len(ends) + 1 : k > Len(ends) => k = Len(ends) + 1
      BY <1>8
    <2> QED
      BY <1>7, <1>9, <2>1
  <1>15. PeerTypes'
    BY <1>1, <1>2, <1>7, <1>9, <1>10 DEF PeerTypes
  <1>16. PeerInv'
    BY <1>1, <1>2, <1>11, <1>13, <1>15 DEF PeerInv
  <1> QED
    BY <1>2, <1>7, <1>9, <1>10, <1>14, <1>16 DEF Appends

\* ... data, ...
LEMMA SendDataKeeps ==
    ASSUME PeerInv, SendData \/ SendMore
    PROVE  PeerInv' /\ Appends
  <1>1. /\ http /\ sent \in Seq(Words) /\ ends \in Seq(Nat) /\ Len(ends) = Len(sent)
        /\ part \in Seq(Tokens) /\ wire \in Seq(Tokens) /\ Rise(ends, Len(wire))
        /\ RequestOnWire(wire, ends, sent, part)
    BY DEF PeerInv, PeerTypes, SendData, SendMore
  <1>2. /\ http' = http /\ sent' = sent /\ ends' = ends /\ Finished(sent)
        /\ sent[1] # "GET"
    <2>1. http' = http /\ sent' = sent /\ ends' = ends /\ Finished(sent)
      BY DEF SendData, SendMore, HeaderSent, Finished
    <2>2. sent[1] = "GET" => Declared(sent) = 0
      <3>1. DOMAIN sent = 1 .. Len(sent)
        BY <1>1, LenProperties
      <3>2. sent[1] = "GET" => \A i \in DOMAIN sent : sent[i] \notin DOMAIN Lengths
        BY <1>1, <3>1 DEF RequestOnWire, Legal
      <3>3. sent[1] = "GET" => {i \in DOMAIN sent : sent[i] \in DOMAIN Lengths} = {}
        BY <3>2
      <3> QED
        BY <3>3 DEF Declared
    <2>3. SendData => Declared(sent) # 0
      <3>1. Len(part) \in Nat
        BY <1>1, LenProperties
      <3> QED
        BY <3>1 DEF SendData
    <2>4. SendMore => sent[1] = "POST"
      BY DEF SendMore
    <2> QED
      BY <2>1, <2>2, <2>3, <2>4
  <1>3. PICK x \in Seq(Tokens) : wire' = wire \o x /\ part' = part \o x
    <2>1. CASE SendData
      <3>1. PICK d \in Data : part' = Append(part, d) /\ wire' = Append(wire, d)
        BY <2>1 DEF SendData
      <3>2. d \in Tokens
        BY DEF Tokens
      <3>3. Append(part, d) = part \o <<d>> /\ Append(wire, d) = wire \o <<d>>
        BY <1>1, <3>2, AppendIsConcat
      <3>4. <<d>> \in Seq(Tokens)
        BY <3>2
      <3> QED
        BY <3>1, <3>3, <3>4
    <2>2. CASE SendMore
      <3>1. PICK eol \in EndsOfLine : part' = part \o eol /\ wire' = wire \o eol
        BY <2>2 DEF SendMore
      <3>2. "cr" \in Tokens /\ "nl" \in Tokens
        BY DEF Tokens
      <3>3. eol \in Seq(Tokens)
        BY <3>2, EndsOfLineProperties
      <3> QED
        BY <3>1, <3>3
    <2> QED
      BY <2>1, <2>2
  <1>4. wire' \in Seq(Tokens) /\ Len(wire') = Len(wire) + Len(x) /\ Extends(wire', wire)
    BY <1>1, <1>3, Concatenated
  <1>5. part' \in Seq(Tokens)
    BY <1>1, <1>3, Concatenated
  <1>6. Len(wire) \in Nat /\ Len(wire') \in Nat /\ Len(wire) <= Len(wire')
    <2>1. Len(wire) \in Nat /\ Len(x) \in Nat
      BY <1>1, LenProperties
    <2> QED
      BY <1>4, <2>1
  <1>7. Rise(ends', Len(wire'))
    BY <1>1, <1>2, <1>6, RiseLater
  <1>8. RequestOnWire(wire', ends', sent', part')
    BY <1>1, <1>2, <1>3, DataGrows
  <1>9. Extends(ends', ends) /\ Extends(sent', sent)
    BY <1>1, <1>2, ExtendsItself
  <1>10. PeerTypes'
    BY <1>1, <1>2, <1>4, <1>5 DEF PeerTypes
  <1>11. PeerInv'
    BY <1>1, <1>2, <1>7, <1>8, <1>10 DEF PeerInv
  <1>12. \A k \in 1 .. Len(ends') : k > Len(ends) => Len(wire) < ends'[k]
    <2>1. Len(ends) \in Nat /\ ends' = ends
      BY <1>1, <1>2, LenProperties
    <2> QED
      BY <2>1
  <1> QED
    BY <1>2, <1>4, <1>9, <1>11, <1>12 DEF Appends

\* ... a part of a message.
LEMMA SlipSendsKeep ==
    ASSUME PeerInv, SlipBegin \/ SlipSend \/ SlipEnd
    PROVE  PeerInv' /\ Appends
  <1>1. /\ ~http /\ http \in BOOLEAN /\ sent \in Seq(Seq(Tokens))
        /\ ends \in Seq(Nat) /\ Len(ends) = Len(sent)
        /\ part \in Seq(Tokens) /\ wire \in Seq(Tokens) /\ Rise(ends, Len(wire))
        /\ MessagesOnWire(wire, ends, sent, part)
    BY DEF PeerInv, PeerTypes, SlipBegin, SlipSend, SlipEnd
  <1>2. http' = http
    BY DEF SlipBegin, SlipSend, SlipEnd
  <1>3. LastEnd = Base(ends, Len(ends))
    BY <1>1, LastEndIsBase
  <1>4. Len(wire) \in Nat /\ Len(ends) \in Nat
    BY <1>1, LenProperties
  <1>5. "END" \in Tokens /\ {"END", "ESC", "ESC2"} \subseteq Tokens
    BY DEF Tokens
  <1>6. Len(wire) = LastEnd => part = <<>>
    <2>1. Base(ends, Len(ends)) \in Nat
      <3>1. \A k \in 0 .. Len(ends) : Base(ends, k) \in 0 .. Len(wire)
        BY <1>1, <1>4, BaseProperties
      <3> QED
        BY <1>4, <3>1
    <2>2. MessageAt(wire, Base(ends, Len(ends)), Len(wire) + 1, part) =>
             Len(wire) # Base(ends, Len(ends))
      BY <1>4, <2>1 DEF MessageAt
    <2> QED
      BY <1>1, <1>3, <2>2 DEF MessagesOnWire
  <1>7. ASSUME wire' \in Seq(Tokens), Extends(wire', wire), part' \in Seq(Tokens),
               sent' = sent, ends' = ends, MessagesOnWire(wire', ends, sent, part')
        PROVE  PeerInv' /\ Appends
    <2>1. Len(wire') \in Nat /\ Len(wire) <= Len(wire')
      BY <1>7, LenProperties DEF Extends
    <2>2. Rise(ends', Len(wire'))
      BY <1>1, <1>4, <1>7, <2>1, RiseLater
    <2>3. Extends(ends', ends) /\ Extends(sent', sent)
      BY <1>1, <1>7, ExtendsItself
    <2>4. PeerTypes'
      BY <1>1, <1>2, <1>7 DEF PeerTypes
    <2>5. MessagesOnWire(wire', ends', sent', part')
      BY <1>7
    <2>6. PeerInv'
      BY <1>1, <1>2, <2>2, <2>4, <2>5 DEF PeerInv
    <2>7. \A k \in 1 .. Len(ends') : k > Len(ends) => Len(wire) < ends'[k]
      BY <1>4, <1>7
    <2> QED
      BY <1>1, <1>2, <1>7, <2>3, <2>6, <2>7 DEF Appends
  <1>8. CASE SlipBegin
    <2>1. /\ wire' = Append(wire, "END") /\ Len(wire) = LastEnd
          /\ sent' = sent /\ ends' = ends /\ part' = part /\ part = <<>>
      BY <1>6, <1>8 DEF SlipBegin
    <2>2. wire' \in Seq(Tokens) /\ Extends(wire', wire)
      BY <1>1, <1>5, <2>1, Appended
    <2>3. MessagesOnWire(wire', ends, sent, part')
      BY <1>1, <1>3, <2>1, MessagesBegin
    <2> QED
      BY <1>1, <1>7, <2>1, <2>2, <2>3
  <1>9. CASE SlipSend
    <2>1. PICK b \in Bytes : part' = Append(part, b) /\ wire' = wire \o SlipByte(b)
      BY <1>9 DEF SlipSend
    <2>2. b \in Tokens /\ Len(wire) > Base(ends, Len(ends)) /\ sent' = sent /\ ends' = ends
      BY <1>3, <1>9 DEF SlipSend, Tokens
    <2>3. MessagesOnWire(wire', ends, sent, part')
      BY <1>1, <2>1, <2>2, MessagesGrow
    <2>4. part' \in Seq(Tokens)
      BY <1>1, <2>1, <2>2, Appended
    <2>5. wire' \in Seq(Tokens) /\ Extends(wire', wire)
      <3>1. SlipByte(b) \in Seq(Tokens)
        BY <1>5, <2>2, SlipByteProperties
      <3> QED
        BY <1>1, <2>1, <3>1, Concatenated
    <2> QED
      BY <1>7, <2>2, <2>3, <2>4, <2>5
  <1>10. CASE SlipEnd
    <2>1. /\ part # <<>> /\ wire' = Append(wire, "END")
          /\ sent' = Append(sent, part) /\ part' = <<>> /\ ends' = Append(ends, Len(wire'))
      BY <1>10 DEF SlipEnd
    <2>2. wire' \in Seq(Tokens) /\ Extends(wire', wire) /\ Len(wire') = Len(wire) + 1
      BY <1>1, <1>5, <2>1, Appended
    <2>3. Len(wire') \in Nat /\ Len(wire) < Len(wire')
      BY <1>4, <2>2
    <2>4. /\ ends' \in Seq(Nat) /\ Len(ends') = Len(ends) + 1 /\ Extends(ends', ends)
          /\ ends'[Len(ends) + 1] = Len(wire')
      BY <1>1, <2>1, <2>3, Appended
    <2>5. /\ sent' \in Seq(Seq(Tokens)) /\ Len(sent') = Len(sent) + 1 /\ Extends(sent', sent)
      BY <1>1, <2>1, Appended
    <2>6. Rise(ends', Len(wire'))
      BY <1>1, <1>4, <2>1, <2>3, RiseAppended
    <2>7. MessagesOnWire(wire', ends', sent', part')
      <3>1. LET v == Append(wire, "END")
            IN  MessagesOnWire(v, Append(ends, Len(v)), Append(sent, part), <<>>)
        BY <1>1, <2>1, MessagesEnd
      <3> QED
        BY <2>1, <3>1
    <2>8. \A k \in 1 .. Len(ends') : k > Len(ends) => Len(wire) < ends'[k]
      <3>1. \A k \in 1 .. Len(ends) + 1 : k > Len(ends) => k = Len(ends) + 1
        BY <1>4
      <3> QED
        BY <2>3, <2>4, <3>1
    <2>9. part' \in Seq(Tokens)
      BY <2>1
    <2>10. PeerTypes'
      BY <1>1, <1>2, <2>2, <2>4, <2>5, <2>9 DEF PeerTypes
    <2>11. PeerInv'
      BY <1>1, <1>2, <2>6, <2>7, <2>10 DEF PeerInv
    <2> QED
      BY <1>1, <1>2, <2>2, <2>4, <2>5, <2>8, <2>11 DEF Appends
  <1> QED
    BY <1>8, <1>9, <1>10

\* So all of them do.
LEMMA SendKeeps ==
    ASSUME PeerInv, Send
    PROVE  PeerInv' /\ Appends
  BY SendLineKeeps, SendDataKeeps, SlipSendsKeep DEF Send

-----------------------------------------------------------------------------
(* The thread, when it reads OSC *)

\* What is processed are the first messages, and the buffer holds what was read behind
\* them; when the thread waits, no message in it is complete.
MessagesTaken ==
    LET k == Len(served)
    IN  /\ k <= Len(sent) /\ \A i \in 1 .. k : served[i] = sent[i]
        /\ Base(ends, k) <= taken
        /\ pi_RecvMem = SubSeq(wire, Base(ends, k) + 1, taken)
        /\ step = "read" /\ k < Len(sent) => taken < ends[k + 1]

\* So many bytes of the next message are unescaped, and p is where the next one is.
Unescaping ==
    LET k == Len(served)
        n == Len(m_oscmsg)
    IN  step = "unescape" =>
          /\ k < Len(sent) /\ ends[k + 1] <= taken
          /\ pbegin = 1 /\ pend = ends[k + 1] - Base(ends, k)
          /\ n <= Len(sent[k + 1]) /\ \A j \in 1 .. n : m_oscmsg[j] = sent[k + 1][j]
          /\ \E at \in [1 .. Len(sent[k + 1]) + 1 -> Base(ends, k) + 2 .. ends[k + 1]] :
                /\ Positions(wire, Base(ends, k), ends[k + 1], sent[k + 1], at)
                /\ p = at[n + 1] - Base(ends, k)

\* The thread, and how it stands to what was sent.
SlipReader ==
    /\ step \in {"read", "slip", "unescape"}
    /\ served \in Seq(Seq(Tokens)) /\ m_oscmsg \in Seq(Tokens)
    /\ MessagesTaken
    /\ Unescaping

SlipInv == PeerInv /\ taken \in 0 .. Len(wire) /\ ~http /\ SlipReader

\* The message that comes next.
LEMMA NextMessage ==
    ASSUME SlipInv, Len(served) < Len(sent)
    PROVE  LET k  == Len(served)
               lo == Base(ends, k)
               hi == ends[k + 1]
           IN  /\ k \in Nat /\ k + 1 \in 1 .. Len(sent) /\ lo \in Nat /\ hi \in Nat
               /\ Base(ends, k + 1) = hi /\ lo + 2 <= hi /\ hi <= Len(wire)
               /\ MessageAt(wire, lo, hi, sent[k + 1]) /\ wire[hi] = "END"
               /\ sent[k + 1] \in Seq(Tokens) /\ Len(sent[k + 1]) \in Nat
  <1> DEFINE k  == Len(served)
             lo == Base(ends, k)
             hi == ends[k + 1]
  <1>1. /\ ends \in Seq(Nat) /\ Len(ends) = Len(sent) /\ wire \in Seq(Tokens)
        /\ sent \in Seq(Seq(Tokens)) /\ Rise(ends, Len(wire))
        /\ MessagesOnWire(wire, ends, sent, part) /\ served \in Seq(Seq(Tokens))
    BY DEF SlipInv, PeerInv, PeerTypes, SlipReader
  <1>2. Len(wire) \in Nat /\ k \in Nat /\ Len(sent) \in Nat /\ Len(ends) \in Nat
    BY <1>1, LenProperties
  <1> HIDE DEF k
  <1>3. k + 1 \in 1 .. Len(sent) /\ (k + 1) - 1 = k /\ k \in 0 .. Len(ends)
        /\ k + 1 \in 0 .. Len(ends)
    BY <1>1, <1>2 DEF k
  <1>4. /\ lo \in 0 .. Len(wire) /\ Base(ends, k + 1) \in 0 .. Len(wire)
        /\ Base(ends, k + 1) = hi
    BY <1>1, <1>2, <1>3, BaseProperties
  <1>5. MessageAt(wire, Base(ends, (k + 1) - 1), ends[k + 1], sent[k + 1]) /\ wire[hi] = "END"
    BY <1>1, <1>3 DEF MessagesOnWire
  <1>6. MessageAt(wire, lo, hi, sent[k + 1])
    BY <1>3, <1>5
  <1>7. sent[k + 1] \in Seq(Tokens)
    BY <1>1, <1>3, ElementOfSeq
  <1>8. Len(sent[k + 1]) \in Nat
    BY <1>7, LenProperties
  <1>9. lo + 2 <= hi
    BY <1>4, <1>6 DEF MessageAt
  <1> QED
    BY <1>2, <1>3, <1>4, <1>5, <1>6, <1>7, <1>8, <1>9 DEF k

\* Of the buffer.
LEMMA SlipBuffer ==
    ASSUME SlipInv
    PROVE  LET k  == Len(served)
               lo == Base(ends, k)
           IN  /\ k \in Nat /\ Len(sent) \in Nat /\ Len(ends) = Len(sent) /\ k <= Len(sent)
               /\ lo \in Nat /\ lo <= taken /\ taken \in Nat /\ taken <= Len(wire)
               /\ wire \in Seq(Tokens) /\ Len(wire) \in Nat
               /\ pi_RecvMem = SubSeq(wire, lo + 1, taken)
               /\ pi_RecvMem \in Seq(Tokens) /\ Len(pi_RecvMem) = taken - lo
               /\ \A i \in 1 .. taken - lo : pi_RecvMem[i] = wire[lo + i]
  <1> DEFINE k  == Len(served)
             lo == Base(ends, k)
  <1>1. /\ ends \in Seq(Nat) /\ Len(ends) = Len(sent) /\ wire \in Seq(Tokens)
        /\ Rise(ends, Len(wire)) /\ sent \in Seq(Seq(Tokens))
        /\ served \in Seq(Seq(Tokens)) /\ taken \in 0 .. Len(wire)
    BY DEF SlipInv, PeerInv, PeerTypes, SlipReader
  <1>2. Len(wire) \in Nat /\ k \in Nat /\ Len(sent) \in Nat /\ taken \in Nat /\ taken <= Len(wire)
    BY <1>1, LenProperties
  <1>3. k <= Len(sent) /\ lo <= taken /\ pi_RecvMem = SubSeq(wire, lo + 1, taken)
    BY DEF SlipInv, SlipReader, MessagesTaken
  <1>4. lo \in Nat
    <2>1. k \in 0 .. Len(ends)
      BY <1>1, <1>2, <1>3
    <2>2. lo \in 0 .. Len(wire)
      BY <1>1, <1>2, <2>1, BaseProperties
    <2> QED
      BY <1>2, <2>2
  <1> HIDE DEF k, lo
  <1>5. /\ SubSeq(wire, lo + 1, taken) \in Seq(Tokens)
        /\ Len(SubSeq(wire, lo + 1, taken)) = taken - lo
        /\ \A i \in 1 .. taken - lo : SubSeq(wire, lo + 1, taken)[i] = wire[lo + i]
    BY <1>1, <1>2, <1>3, <1>4, SliceOf
  <1> QED
    BY <1>1, <1>2, <1>3, <1>4, <1>5 DEF k, lo

\* What the peer sends is no concern of the thread until it is read.
LEMMA SlipSendKeeps ==
    ASSUME SlipInv, Send
    PROVE  SlipInv'
  <1> DEFINE k  == Len(served)
             lo == Base(ends, k)
  <1>1. PeerInv' /\ Appends
    BY SendKeeps DEF SlipInv
  <1>2. /\ taken' = taken /\ pi_RecvMem' = pi_RecvMem /\ served' = served /\ step' = step
        /\ pbegin' = pbegin /\ pend' = pend /\ p' = p /\ m_oscmsg' = m_oscmsg
    BY DEF Send, slipvars
  <1>3. /\ k \in Nat /\ Len(sent) \in Nat /\ Len(ends) = Len(sent) /\ k <= Len(sent)
        /\ lo \in Nat /\ lo <= taken /\ taken \in Nat /\ taken <= Len(wire)
        /\ wire \in Seq(Tokens) /\ Len(wire) \in Nat
        /\ pi_RecvMem = SubSeq(wire, lo + 1, taken)
    BY SlipBuffer
  <1>4. /\ wire' \in Seq(Tokens) /\ ends' \in Seq(Nat) /\ Len(ends') = Len(sent')
        /\ Extends(wire', wire) /\ Extends(ends', ends) /\ Extends(sent', sent)
        /\ http' = http /\ \A j \in 1 .. Len(ends') : j > Len(ends) => Len(wire) < ends'[j]
    BY <1>1 DEF PeerInv, PeerTypes, Appends
  <1>5. /\ Len(sent') \in Nat /\ Len(sent) <= Len(sent') /\ Len(wire') \in Nat
        /\ Len(wire) <= Len(wire')
    BY <1>4, LenProperties DEF Extends
  <1>6. Base(ends', k) = lo
    <2>1. k = 0 \/ k \in 1 .. Len(ends)
      BY <1>3
    <2> QED
      BY <1>4, <2>1 DEF Base, Extends
  <1>7. \A i \in 1 .. Len(sent) : sent'[i] = sent[i] /\ ends'[i] = ends[i]
    BY <1>3, <1>4 DEF Extends
  <1> HIDE DEF k, lo
  <1>8. MessagesTaken'
    <2>1. k <= Len(sent') /\ \A i \in 1 .. k : served[i] = sent'[i]
      <3>1. \A i \in 1 .. k : served[i] = sent[i] /\ i \in 1 .. Len(sent)
        BY <1>3 DEF SlipInv, SlipReader, MessagesTaken, k
      <3> QED
        BY <1>3, <1>5, <1>7, <3>1
    <2>2. pi_RecvMem = SubSeq(wire', lo + 1, taken)
      <3>1. /\ lo \in Nat /\ lo <= taken /\ taken \in Nat /\ taken <= Len(wire)
            /\ wire \in Seq(Tokens) /\ wire' \in Seq(Tokens) /\ Extends(wire', wire)
        BY <1>3, <1>4
      <3>2. SubSeq(wire', lo + 1, taken) = SubSeq(wire, lo + 1, taken)
        BY <3>1, SliceExtended
      <3> QED
        BY <1>3, <3>2
    <2>3. ASSUME step = "read", k < Len(sent')
          PROVE  taken < ends'[k + 1]
      <3>1. CASE k < Len(sent)
        <4>1. taken < ends[k + 1]
          BY <2>3, <3>1 DEF SlipInv, SlipReader, MessagesTaken, k
        <4>2. k + 1 \in 1 .. Len(sent)
          BY <1>3, <3>1
        <4> QED
          BY <1>7, <4>1, <4>2
      <3>2. CASE k = Len(sent)
        <4>1. k + 1 \in 1 .. Len(ends') /\ k + 1 > Len(ends)
          BY <1>3, <1>4, <1>5, <2>3, <3>2
        <4>2. Len(wire) < ends'[k + 1]
          BY <1>4, <4>1
        <4>3. ends'[k + 1] \in Nat
          BY <1>4, <4>1, ElementOfSeq
        <4> QED
          BY <1>3, <4>2, <4>3
      <3> QED
        BY <1>3, <3>1, <3>2
    <2> QED
      BY <1>2, <1>3, <1>6, <2>1, <2>2, <2>3 DEF MessagesTaken, k
  <1>9. Unescaping'
    <2>1. SUFFICES ASSUME step = "unescape"
                   PROVE  Unescaping'
      BY <1>2 DEF Unescaping
    <2> DEFINE hi == ends[k + 1]
               n  == Len(m_oscmsg)
    <2>2. /\ k < Len(sent) /\ hi <= taken
          /\ pbegin = 1 /\ pend = hi - lo
          /\ n <= Len(sent[k + 1]) /\ \A j \in 1 .. n : m_oscmsg[j] = sent[k + 1][j]
          /\ \E at \in [1 .. Len(sent[k + 1]) + 1 -> lo + 2 .. hi] :
                Positions(wire, lo, hi, sent[k + 1], at) /\ p = at[n + 1] - lo
      BY <2>1 DEF SlipInv, SlipReader, Unescaping, k, lo
    <2>3. /\ k + 1 \in 1 .. Len(sent) /\ hi \in Nat /\ hi <= Len(wire)
          /\ Len(sent[k + 1]) \in Nat
      BY <2>2, NextMessage DEF k
    <2>4. sent'[k + 1] = sent[k + 1] /\ ends'[k + 1] = hi
      BY <1>7, <2>3
    <2>5. \A i \in 1 .. hi - 1 : wire'[i] = wire[i]
      <3>1. hi \in Nat /\ hi <= Len(wire) /\ Len(wire) \in Nat
        BY <1>3, <2>3
      <3>2. \A i \in 1 .. Len(wire) : wire'[i] = wire[i]
        BY <1>4 DEF Extends
      <3> HIDE DEF hi
      <3>3. \A i \in 1 .. hi - 1 : i \in 1 .. Len(wire)
        BY <3>1
      <3> QED
        BY <3>2, <3>3
    <2> HIDE DEF hi, n
    <2>6. PICK at \in [1 .. Len(sent[k + 1]) + 1 -> lo + 2 .. hi] :
             Positions(wire, lo, hi, sent[k + 1], at) /\ p = at[n + 1] - lo
      BY <2>2
    <2>7. Positions(wire', lo, hi, sent[k + 1], at)
      BY <1>3, <2>3, <2>5, <2>6, PositionsStay
    <2>8. /\ k < Len(sent') /\ ends'[k + 1] <= taken
          /\ pbegin = 1 /\ pend = ends'[k + 1] - Base(ends', k)
          /\ n <= Len(sent'[k + 1]) /\ \A j \in 1 .. n : m_oscmsg[j] = sent'[k + 1][j]
      BY <1>3, <1>5, <1>6, <2>2, <2>4
    <2>9. \E aat \in [1 .. Len(sent'[k + 1]) + 1 -> Base(ends', k) + 2 .. ends'[k + 1]] :
             /\ Positions(wire', Base(ends', k), ends'[k + 1], sent'[k + 1], aat)
             /\ p = aat[n + 1] - Base(ends', k)
      BY <1>6, <2>4, <2>6, <2>7
    <2> QED
      BY <1>2, <2>8, <2>9 DEF Unescaping, k, n
  <1>10. SlipReader'
    BY <1>2, <1>8, <1>9 DEF SlipInv, SlipReader
  <1>11. taken' \in 0 .. Len(wire')
    BY <1>2, <1>3, <1>5
  <1> QED
    BY <1>1, <1>4, <1>10, <1>11 DEF SlipInv

\* What a step of the thread leaves alone.
LEMMA PeerUnchanged ==
    ASSUME PeerInv, UNCHANGED wirevars
    PROVE  PeerInv'
  BY DEF PeerInv, PeerTypes, wirevars

\* A read appends to the buffer.
LEMMA OscReadKeeps ==
    ASSUME SlipInv, OscRead
    PROVE  SlipInv'
  <1> DEFINE k  == Len(served)
             lo == Base(ends, k)
  <1>1. /\ http' = http /\ sent' = sent /\ ends' = ends /\ part' = part /\ wire' = wire
        /\ served' = served /\ step' = "slip" /\ m_oscmsg' = m_oscmsg
    BY DEF OscRead, wirevars, slipvars
  <1>2. PICK n \in 1 .. Len(wire) - taken :
          pi_RecvMem' = pi_RecvMem \o SubSeq(wire, taken + 1, taken + n) /\ taken' = taken + n
    BY DEF OscRead, Arrived
  <1>3. /\ k \in Nat /\ k <= Len(sent)
        /\ lo \in Nat /\ lo <= taken /\ taken \in Nat /\ taken <= Len(wire)
        /\ wire \in Seq(Tokens) /\ Len(wire) \in Nat
        /\ pi_RecvMem = SubSeq(wire, lo + 1, taken)
    BY SlipBuffer
  <1> HIDE DEF k, lo
  <1>4. n \in Nat /\ taken + n <= Len(wire) /\ lo <= taken + n /\ taken + n \in Nat
    BY <1>2, <1>3
  <1>5. pi_RecvMem' = SubSeq(wire, lo + 1, taken + n)
    <2>1. /\ lo \in Nat /\ lo <= taken /\ taken \in Nat /\ n \in Nat
          /\ taken + n <= Len(wire) /\ wire \in Seq(Tokens)
      BY <1>3, <1>4
    <2>2. SubSeq(wire, lo + 1, taken) \o SubSeq(wire, taken + 1, taken + n)
             = SubSeq(wire, lo + 1, taken + n)
      BY <2>1, SliceAppended
    <2> QED
      BY <1>2, <1>3, <2>2
  <1>6. MessagesTaken'
    <2>1. \A i \in 1 .. k : served[i] = sent[i]
      BY DEF SlipInv, SlipReader, MessagesTaken, k
    <2> QED
      BY <1>1, <1>2, <1>3, <1>4, <1>5, <2>1 DEF MessagesTaken, k, lo
  <1>7. Unescaping'
    BY <1>1 DEF Unescaping
  <1>8. SlipReader'
    BY <1>1, <1>6, <1>7 DEF SlipInv, SlipReader
  <1>9. PeerInv'
    BY PeerUnchanged DEF SlipInv, OscRead
  <1>10. taken' \in 0 .. Len(wire')
    BY <1>1, <1>2, <1>4
  <1> QED
    BY <1>1, <1>8, <1>9, <1>10 DEF SlipInv

\* A message is found when the whole of it is in the buffer, and else the thread waits.
LEMMA ProcessOneOscMessageKeeps ==
    ASSUME SlipInv, ProcessOneOscMessage
    PROVE  SlipInv'
  <1> DEFINE k  == Len(served)
             lo == Base(ends, k)
             hi == ends[k + 1]
  <1>1. /\ http' = http /\ sent' = sent /\ ends' = ends /\ part' = part /\ wire' = wire
        /\ served' = served /\ taken' = taken /\ pi_RecvMem' = pi_RecvMem /\ step = "slip"
    BY DEF ProcessOneOscMessage, wirevars
  <1>2. /\ k \in Nat /\ Len(sent) \in Nat /\ Len(ends) = Len(sent) /\ k <= Len(sent)
        /\ lo \in Nat /\ lo <= taken /\ taken \in Nat /\ taken <= Len(wire)
        /\ wire \in Seq(Tokens) /\ Len(wire) \in Nat
        /\ pi_RecvMem = SubSeq(wire, lo + 1, taken)
    BY SlipBuffer
  <1>3. PeerInv' /\ taken' \in 0 .. Len(wire') /\ ~http'
    <2>1. PeerInv'
      BY PeerUnchanged DEF SlipInv, ProcessOneOscMessage
    <2> QED
      BY <1>1, <2>1 DEF SlipInv
  <1>4. served \in Seq(Seq(Tokens)) /\ m_oscmsg \in Seq(Tokens)
        /\ \A i \in 1 .. k : served[i] = sent[i]
    BY DEF SlipInv, SlipReader, MessagesTaken
  <1>5. CASE k < Len(sent) /\ hi <= taken
    <2>1. /\ k + 1 \in 1 .. Len(sent) /\ hi \in Nat /\ lo + 2 <= hi /\ hi <= Len(wire)
          /\ MessageAt(wire, lo, hi, sent[k + 1]) /\ wire[hi] = "END"
          /\ Len(sent[k + 1]) \in Nat
      BY <1>5, NextMessage
    <2> HIDE DEF k, lo, hi
    <2>2. SlipBoundaries(pi_RecvMem) = <<1, hi - lo>>
      <3>1. Escaped(wire, lo, hi)
        BY <2>1 DEF MessageAt
      <3> QED
        BY <1>2, <1>5, <2>1, <3>1, BoundariesOf
    <2>3. /\ pbegin' = 1 /\ pend' = hi - lo /\ p' = 2 /\ m_oscmsg' = <<>>
          /\ step' = "unescape"
      <3>1. <<1, hi - lo>> # <<>> /\ <<1, hi - lo>>[1] = 1 /\ <<1, hi - lo>>[2] = hi - lo
        OBVIOUS
      <3> QED
        BY <2>2, <3>1 DEF ProcessOneOscMessage
    <2>4. PICK at \in [1 .. Len(sent[k + 1]) + 1 -> lo + 2 .. hi] :
             Positions(wire, lo, hi, sent[k + 1], at)
      BY <2>1 DEF MessageAt
    <2>5. 2 = at[0 + 1] - lo
      <3>1. at[1] = lo + 2 /\ (lo + 2) - lo = 2
        BY <1>2, <2>4 DEF Positions
      <3> QED
        BY <3>1
    <2>6. Len(m_oscmsg') = 0 /\ m_oscmsg' \in Seq(Tokens)
      BY <2>3
    <2>7. Unescaping'
      <3>1. /\ k < Len(sent') /\ ends'[k + 1] <= taken'
            /\ pbegin' = 1 /\ pend' = ends'[k + 1] - Base(ends', k)
            /\ 0 <= Len(sent'[k + 1]) /\ \A j \in 1 .. 0 : m_oscmsg'[j] = sent'[k + 1][j]
        BY <1>1, <1>5, <2>1, <2>3 DEF hi, lo
      <3>2. \E aat \in [1 .. Len(sent'[k + 1]) + 1 -> Base(ends', k) + 2 .. ends'[k + 1]] :
               /\ Positions(wire', Base(ends', k), ends'[k + 1], sent'[k + 1], aat)
               /\ p' = aat[0 + 1] - Base(ends', k)
        BY <1>1, <2>3, <2>4, <2>5 DEF hi, lo
      <3> QED
        BY <1>1, <2>6, <3>1, <3>2 DEF Unescaping, k
    <2>8. MessagesTaken'
      BY <1>1, <1>2, <1>4, <2>3 DEF MessagesTaken, k, lo
    <2>9. SlipReader'
      BY <1>1, <1>4, <2>3, <2>6, <2>7, <2>8 DEF SlipReader
    <2> QED
      BY <1>3, <2>9 DEF SlipInv
  <1>6. CASE ~(k < Len(sent) /\ hi <= taken)
    <2>1. k < Len(sent) => taken < hi
      <3>1. k < Len(sent) => hi \in Nat
        BY NextMessage
      <3> QED
        BY <1>2, <1>6, <3>1
    <2>2. \A i \in lo + 2 .. taken : wire[i] = "END" => wire[i - 1] = "ESC"
      <3>1. CASE k < Len(sent)
        <4>1. hi \in Nat /\ MessageAt(wire, lo, hi, sent[k + 1])
          BY <3>1, NextMessage
        <4>2. \A i \in lo + 2 .. taken : i \in lo + 2 .. hi - 1
          BY <1>2, <2>1, <3>1, <4>1
        <4> QED
          BY <4>1, <4>2 DEF MessageAt, Escaped
      <3>2. CASE k = Len(sent)
        <4>1. \/ Len(wire) = lo
              \/ MessageAt(wire, lo, Len(wire) + 1, part)
          BY <1>2, <3>2 DEF SlipInv, PeerInv, MessagesOnWire
        <4>2. CASE Len(wire) = lo
          BY <1>2, <4>2
        <4>3. CASE MessageAt(wire, lo, Len(wire) + 1, part)
          <5>1. \A i \in lo + 2 .. taken : i \in lo + 2 .. (Len(wire) + 1) - 1
            BY <1>2
          <5> QED
            BY <4>3, <5>1 DEF MessageAt, Escaped
        <4> QED
          BY <4>1, <4>2, <4>3
      <3> QED
        BY <1>2, <3>1, <3>2
    <2> HIDE DEF k, lo, hi
    <2>3. SlipBoundaries(pi_RecvMem) = <<>>
      BY <1>2, <2>2, NoBoundaries
    <2>4. step' = "read" /\ m_oscmsg' = m_oscmsg
      BY <2>3 DEF ProcessOneOscMessage, slipvars
    <2>5. Unescaping'
      BY <2>4 DEF Unescaping
    <2>6. MessagesTaken'
      BY <1>1, <1>2, <1>4, <2>1 DEF MessagesTaken, k, lo, hi
    <2>7. SlipReader'
      BY <1>1, <1>4, <2>4, <2>5, <2>6 DEF SlipReader
    <2> QED
      BY <1>3, <2>7 DEF SlipInv
  <1> QED
    BY <1>5, <1>6


\* Where the thread is in the message it unescapes.
LEMMA UnescapingAt ==
    ASSUME SlipInv, step = "unescape"
    PROVE  LET k  == Len(served)
               lo == Base(ends, k)
               hi == ends[k + 1]
               m  == sent[k + 1]
               n  == Len(m_oscmsg)
           IN  /\ k < Len(sent) /\ k + 1 \in 1 .. Len(sent) /\ hi \in Nat /\ hi <= taken
               /\ lo + 2 <= hi /\ m \in Seq(Tokens) /\ Len(m) \in Nat /\ n \in Nat
               /\ pbegin = 1 /\ pend = hi - lo
               /\ n <= Len(m) /\ \A j \in 1 .. n : m_oscmsg[j] = m[j]
               /\ m_oscmsg \in Seq(Tokens)
               /\ \E at \in [1 .. Len(m) + 1 -> lo + 2 .. hi] :
                     Positions(wire, lo, hi, m, at) /\ p = at[n + 1] - lo
  <1> DEFINE k  == Len(served)
             lo == Base(ends, k)
             hi == ends[k + 1]
             m  == sent[k + 1]
             n  == Len(m_oscmsg)
  <1>1. /\ k < Len(sent) /\ hi <= taken /\ pbegin = 1 /\ pend = hi - lo
        /\ n <= Len(m) /\ \A j \in 1 .. n : m_oscmsg[j] = m[j]
        /\ \E at \in [1 .. Len(m) + 1 -> lo + 2 .. hi] :
              Positions(wire, lo, hi, m, at) /\ p = at[n + 1] - lo
    BY DEF SlipInv, SlipReader, Unescaping
  <1>2. /\ k + 1 \in 1 .. Len(sent) /\ hi \in Nat /\ lo + 2 <= hi
        /\ m \in Seq(Tokens) /\ Len(m) \in Nat
    BY <1>1, NextMessage
  <1>3. m_oscmsg \in Seq(Tokens)
    BY DEF SlipInv, SlipReader
  <1>4. n \in Nat
    BY <1>3, LenProperties
  <1> HIDE DEF k, lo, hi, m, n
  <1> QED
    BY <1>1, <1>2, <1>3, <1>4 DEF k, lo, hi, m, n

\* The next byte of the message is unescaped to the one that was sent.
LEMMA UnescapeKeeps ==
    ASSUME SlipInv, Unescape
    PROVE  SlipInv'
  <1> DEFINE k  == Len(served)
             lo == Base(ends, k)
             hi == ends[k + 1]
             m  == sent[k + 1]
             n  == Len(m_oscmsg)
  <1>1. /\ http' = http /\ sent' = sent /\ ends' = ends /\ part' = part /\ wire' = wire
        /\ served' = served /\ taken' = taken /\ pi_RecvMem' = pi_RecvMem
        /\ step = "unescape" /\ step' = step /\ pbegin' = pbegin /\ pend' = pend /\ p < pend
    BY DEF Unescape, wirevars
  <1>2. /\ k \in Nat /\ lo \in Nat /\ lo <= taken /\ taken \in Nat /\ taken <= Len(wire)
        /\ wire \in Seq(Tokens) /\ Len(wire) \in Nat
        /\ pi_RecvMem = SubSeq(wire, lo + 1, taken)
    BY SlipBuffer
  <1>3. /\ k < Len(sent) /\ hi \in Nat /\ hi <= taken
        /\ lo + 2 <= hi /\ m \in Seq(Tokens) /\ Len(m) \in Nat /\ n \in Nat
        /\ pbegin = 1 /\ pend = hi - lo
        /\ n <= Len(m) /\ \A j \in 1 .. n : m_oscmsg[j] = m[j]
        /\ m_oscmsg \in Seq(Tokens)
        /\ \E at \in [1 .. Len(m) + 1 -> lo + 2 .. hi] :
              Positions(wire, lo, hi, m, at) /\ p = at[n + 1] - lo
    BY <1>1, UnescapingAt
  <1>4. /\ PeerInv' /\ taken' \in 0 .. Len(wire') /\ ~http' /\ served \in Seq(Seq(Tokens))
    <2>1. PeerInv'
      BY PeerUnchanged DEF SlipInv, Unescape
    <2> QED
      BY <1>1, <2>1 DEF SlipInv, SlipReader
  <1>5. MessagesTaken'
    BY <1>1 DEF SlipInv, SlipReader, MessagesTaken
  <1> HIDE DEF k, lo, hi, m, n
  <1>6. PICK at \in [1 .. Len(m) + 1 -> lo + 2 .. hi] :
           Positions(wire, lo, hi, m, at) /\ p = at[n + 1] - lo
    BY <1>3
  <1>7. n < Len(m)
    <2>1. at[Len(m) + 1] = hi
      BY <1>6 DEF Positions
    <2>2. n # Len(m)
      BY <1>1, <1>3, <1>6, <2>1
    <2> QED
      BY <1>3, <2>2
  <1>8. /\ n + 1 \in 1 .. Len(m) /\ (n + 1) + 1 = n + 2
    BY <1>3, <1>7
  <1> DEFINE b == m[n + 1]
  <1>9. /\ at[n + 1] \in lo + 2 .. hi - 1 /\ at[n + 2] \in lo + 2 .. hi
        /\ ByteAt(pi_RecvMem, at[n + 1] - lo, at[n + 2] - lo, b)
    <2>1. /\ lo \in Nat /\ hi \in Nat /\ taken \in Nat /\ lo + 2 <= hi /\ hi <= taken
          /\ taken <= Len(wire) /\ wire \in Seq(Tokens) /\ Len(m) \in Nat
          /\ Positions(wire, lo, hi, m, at)
      BY <1>2, <1>3, <1>6
    <2>2. /\ at[n + 1] \in lo + 2 .. hi - 1 /\ at[(n + 1) + 1] \in lo + 2 .. hi
          /\ ByteAt(SubSeq(wire, lo + 1, taken), at[n + 1] - lo, at[(n + 1) + 1] - lo, m[n + 1])
      BY <1>8, <2>1, ByteInBuffer
    <2> QED
      BY <1>2, <1>8, <2>2
  <1>10. b \in Tokens
    BY <1>3, <1>8, ElementOfSeq
  <1> HIDE DEF b
  <1>11. PICK q \in Nat : q = at[n + 2] - lo /\ q <= pend
    <2>1. lo \in Nat /\ hi \in Nat /\ pend = hi - lo /\ at[n + 2] \in lo + 2 .. hi
      BY <1>2, <1>3, <1>9
    <2> QED
      BY <2>1
  <1>12. ByteAt(pi_RecvMem, p, q, b) /\ p \in Nat /\ pend \in Nat
    <2>1. /\ lo \in Nat /\ hi \in Nat /\ lo + 2 <= hi /\ pend = hi - lo
          /\ p = at[n + 1] - lo /\ at[n + 1] \in lo + 2 .. hi - 1
      BY <1>2, <1>3, <1>6, <1>9
    <2>2. p \in Nat /\ pend \in Nat
      BY <2>1
    <2> QED
      BY <1>6, <1>9, <1>11, <2>2
  <1>13. m_oscmsg' = Append(m_oscmsg, b) /\ p' = q
    <2>1. CASE b = "END"
      <3>1. q = p + 2 /\ pi_RecvMem[p] = "ESC" /\ pi_RecvMem[p + 1] = "END"
        BY <1>12, <2>1 DEF ByteAt
      <3>2. Pair("END") /\ ~Pair("ESC2")
        BY <1>11, <1>12, <3>1 DEF Pair
      <3> QED
        BY <2>1, <3>1, <3>2 DEF Unescape
    <2>2. CASE b = "ESC"
      <3>1. q = p + 2 /\ pi_RecvMem[p] = "ESC" /\ pi_RecvMem[p + 1] = "ESC2"
        BY <1>12, <2>2 DEF ByteAt
      <3>2. Pair("ESC2") /\ ~Pair("END")
        BY <1>11, <1>12, <3>1 DEF Pair
      <3> QED
        BY <2>2, <3>1, <3>2 DEF Unescape
    <2>3. CASE b \notin {"END", "ESC"}
      <3>1. q = p + 1 /\ pi_RecvMem[p] = b
        BY <1>12, <2>3 DEF ByteAt
      <3>2. ~Pair("ESC2") /\ ~Pair("END")
        BY <2>3, <3>1 DEF Pair
      <3> QED
        BY <3>1, <3>2 DEF Unescape
    <2> QED
      BY <2>1, <2>2, <2>3
  <1>14. /\ m_oscmsg' \in Seq(Tokens) /\ Len(m_oscmsg') = n + 1
         /\ \A j \in 1 .. n : m_oscmsg'[j] = m_oscmsg[j]
         /\ m_oscmsg'[n + 1] = b
    BY <1>3, <1>10, <1>13, Appended DEF Extends, n
  <1>15. \A j \in 1 .. n + 1 : m_oscmsg'[j] = m[j]
    <2>1. \A j \in 1 .. n + 1 : j \in 1 .. n \/ j = n + 1
      BY <1>3
    <2> QED
      BY <1>3, <1>14, <2>1 DEF b
  <1>16. Unescaping'
    <2>1. /\ k < Len(sent') /\ ends'[k + 1] <= taken'
          /\ pbegin' = 1 /\ pend' = ends'[k + 1] - Base(ends', k)
          /\ n + 1 <= Len(sent'[k + 1])
          /\ \A j \in 1 .. n + 1 : m_oscmsg'[j] = sent'[k + 1][j]
      BY <1>1, <1>3, <1>7, <1>15 DEF hi, lo, m
    <2>2. p' = at[(n + 1) + 1] - lo
      BY <1>8, <1>11, <1>13
    <2>3. \E aat \in [1 .. Len(sent'[k + 1]) + 1 -> Base(ends', k) + 2 .. ends'[k + 1]] :
             /\ Positions(wire', Base(ends', k), ends'[k + 1], sent'[k + 1], aat)
             /\ p' = aat[(n + 1) + 1] - Base(ends', k)
      BY <1>1, <1>6, <2>2 DEF hi, lo, m
    <2> QED
      BY <1>1, <1>14, <2>1, <2>3 DEF Unescaping, k
  <1>17. SlipReader'
    BY <1>1, <1>4, <1>5, <1>14, <1>16 DEF SlipReader
  <1> QED
    BY <1>4, <1>17 DEF SlipInv

\* At its end all of its bytes are, and the buffer goes on behind it.
LEMMA ProcessReceivedPacketKeeps ==
    ASSUME SlipInv, ProcessReceivedPacket
    PROVE  SlipInv'
  <1> DEFINE k  == Len(served)
             lo == Base(ends, k)
             hi == ends[k + 1]
             m  == sent[k + 1]
             n  == Len(m_oscmsg)
  <1>1. /\ http' = http /\ sent' = sent /\ ends' = ends /\ part' = part /\ wire' = wire
        /\ taken' = taken /\ step = "unescape" /\ p = pend
        /\ served' = Append(served, m_oscmsg) /\ step' = "slip" /\ m_oscmsg' = <<>>
        /\ pi_RecvMem' = SubSeq(pi_RecvMem, ((pend - pbegin - 1) + 2) + 1, Len(pi_RecvMem))
    BY DEF ProcessReceivedPacket, wirevars, DeleteLeft
  <1>2. /\ k \in Nat /\ lo \in Nat /\ lo <= taken /\ taken \in Nat /\ taken <= Len(wire)
        /\ wire \in Seq(Tokens) /\ Len(wire) \in Nat
        /\ pi_RecvMem = SubSeq(wire, lo + 1, taken) /\ Len(pi_RecvMem) = taken - lo
    BY SlipBuffer
  <1>3. /\ k < Len(sent) /\ k + 1 \in 1 .. Len(sent) /\ hi \in Nat /\ hi <= taken
        /\ lo + 2 <= hi /\ m \in Seq(Tokens) /\ Len(m) \in Nat /\ n \in Nat
        /\ pbegin = 1 /\ pend = hi - lo
        /\ n <= Len(m) /\ \A j \in 1 .. n : m_oscmsg[j] = m[j]
        /\ m_oscmsg \in Seq(Tokens)
        /\ \E at \in [1 .. Len(m) + 1 -> lo + 2 .. hi] :
              Positions(wire, lo, hi, m, at) /\ p = at[n + 1] - lo
    BY <1>1, UnescapingAt
  <1>4. /\ PeerInv' /\ taken' \in 0 .. Len(wire') /\ ~http'
        /\ served \in Seq(Seq(Tokens)) /\ \A i \in 1 .. k : served[i] = sent[i]
    <2>1. PeerInv'
      BY PeerUnchanged DEF SlipInv, ProcessReceivedPacket
    <2> QED
      BY <1>1, <2>1 DEF SlipInv, SlipReader, MessagesTaken
  <1>5. Base(ends, k + 1) = hi
    BY <1>3, NextMessage
  <1> HIDE DEF k, lo, hi, m, n
  <1>6. PICK at \in [1 .. Len(m) + 1 -> lo + 2 .. hi] :
           Positions(wire, lo, hi, m, at) /\ p = at[n + 1] - lo
    BY <1>3
  <1>7. n = Len(m)
    <2>1. ASSUME n # Len(m)
          PROVE  FALSE
      <3>1. n + 1 \in 1 .. Len(m)
        BY <1>3, <2>1
      <3>2. /\ lo \in Nat /\ hi \in Nat /\ taken \in Nat /\ lo + 2 <= hi /\ hi <= taken
            /\ taken <= Len(wire) /\ wire \in Seq(Tokens) /\ Len(m) \in Nat
            /\ Positions(wire, lo, hi, m, at)
        BY <1>2, <1>3, <1>6
      <3>3. at[n + 1] \in lo + 2 .. hi - 1
        BY <3>1, <3>2, ByteInBuffer
      <3>4. /\ lo \in Nat /\ hi \in Nat /\ p = hi - lo /\ p = at[n + 1] - lo
            /\ at[n + 1] \in lo + 2 .. hi - 1
        BY <1>1, <1>2, <1>3, <1>6, <3>3
      <3> QED
        BY <3>4
    <2> QED
      BY <2>1
  <1>8. m_oscmsg = m
    BY <1>3, <1>7, SeqEqual DEF n
  <1>9. PICK d \in Nat : d = hi - lo /\ lo + d = hi
    BY <1>2, <1>3
  <1>10. pi_RecvMem' = SubSeq(wire, hi + 1, taken)
    <2>1. ((pend - pbegin - 1) + 2) + 1 = d + 1
      BY <1>3, <1>9
    <2>2. /\ lo \in Nat /\ d \in Nat /\ taken \in Nat /\ lo + d <= taken
          /\ taken <= Len(wire) /\ wire \in Seq(Tokens)
      BY <1>2, <1>3, <1>9
    <2>3. SubSeq(SubSeq(wire, lo + 1, taken), d + 1, taken - lo) = SubSeq(wire, lo + d + 1, taken)
      BY <2>2, SliceDropped
    <2> QED
      BY <1>1, <1>2, <1>9, <2>1, <2>3
  <1>11. /\ served' \in Seq(Seq(Tokens)) /\ Len(served') = k + 1
         /\ \A i \in 1 .. k : served'[i] = served[i]
         /\ served'[k + 1] = m
    BY <1>1, <1>3, <1>4, <1>8, Appended DEF Extends, k
  <1>12. MessagesTaken'
    <2>1. \A i \in 1 .. k + 1 : served'[i] = sent[i]
      <3>1. \A i \in 1 .. k + 1 : i \in 1 .. k \/ i = k + 1
        BY <1>2
      <3> QED
        BY <1>4, <1>11, <3>1 DEF m
    <2>2. k + 1 <= Len(sent)
      BY <1>3
    <2> QED
      BY <1>1, <1>3, <1>5, <1>10, <1>11, <2>1, <2>2 DEF MessagesTaken
  <1>13. Unescaping'
    BY <1>1 DEF Unescaping
  <1>14. m_oscmsg' \in Seq(Tokens)
    BY <1>1
  <1>15. SlipReader'
    BY <1>1, <1>11, <1>12, <1>13, <1>14 DEF SlipReader
  <1> QED
    BY <1>4, <1>15 DEF SlipInv

-----------------------------------------------------------------------------
(* The thread, when it reads HTTP *)

\* The types of a connection's fields.
Connections ==
    [buff_sofar : Seq(Tokens), collecting : BOOLEAN, data : Seq(Tokens),
     content_length : Nat, request_type : {"none", "GET", "POST"},
     websocket : BOOLEAN, done : BOOLEAN]

\* What the connection c knows is what the first k lines say.
Fields(c, lines, k) ==
    /\ c.request_type = IF k > 0 /\ lines[1] \in {"GET", "POST"} THEN lines[1] ELSE "none"
    /\ \A i \in 1 .. k : lines[i] \in DOMAIN Lengths => c.content_length = Lengths[lines[i]]
    /\ (\A i \in 1 .. k : lines[i] \notin DOMAIN Lengths) => c.content_length = 0
    /\ c.websocket = \E i \in 1 .. k : lines[i] = "upgrade"

\* One line at most says how long the data is.
LEMMA DeclaredIs ==
    ASSUME NEW lines \in Seq(Words), Legal(lines)
    PROVE  \/ /\ \A i \in 1 .. Len(lines) : lines[i] \notin DOMAIN Lengths
              /\ Declared(lines) = 0
           \/ \E x \in 1 .. Len(lines) :
                 /\ lines[x] \in DOMAIN Lengths
                 /\ Declared(lines) = Lengths[lines[x]] /\ Lengths[lines[x]] \in Nat
  <1> DEFINE l == {i \in DOMAIN lines : lines[i] \in DOMAIN Lengths}
  <1>1. DOMAIN lines = 1 .. Len(lines) /\ Len(lines) \in Nat
    BY LenProperties
  <1>2. CASE l = {}
    <2>1. \A i \in 1 .. Len(lines) : lines[i] \notin DOMAIN Lengths
      BY <1>1, <1>2
    <2> QED
      BY <1>2, <2>1 DEF Declared
  <1>3. CASE l # {}
    <2>1. PICK x \in l : TRUE
      BY <1>3
    <2>2. x \in Nat /\ x \in 1 .. Len(lines) /\ lines[x] \in DOMAIN Lengths
      BY <1>1, <2>1
    <2>3. \A y \in l : y = x
      BY <1>1, <2>2 DEF Legal
    <2>4. l \in SUBSET Nat /\ \A y \in l : x <= y
      BY <1>1, <2>2, <2>3
    <2> HIDE DEF l
    <2>5. First(l) = x
      BY <2>1, <2>4, FirstIs
    <2>6. Lengths[lines[x]] \in Nat
      BY <2>2, StreamsAssumption
    <2> QED
      BY <1>3, <2>2, <2>5, <2>6 DEF Declared, l
  <1> QED
    BY <1>2, <1>3

\* So the length is a number, and the one a connection knows when it has read all lines.
LEMMA DeclaredType ==
    ASSUME NEW lines \in Seq(Words), Legal(lines)
    PROVE  Declared(lines) \in Nat
  BY DeclaredIs

LEMMA FieldsDeclare ==
    ASSUME NEW lines \in Seq(Words), Legal(lines), NEW c, Fields(c, lines, Len(lines))
    PROVE  c.content_length = Declared(lines)
  BY DeclaredIs DEF Fields

\* A line more, and what CollectHttpHeader makes of it.
LEMMA FieldsNext ==
    ASSUME NEW lines \in Seq(Words), Legal(lines), NEW c \in Connections,
           NEW k \in Nat, k + 1 \in 1 .. Len(lines), Fields(c, lines, k), NEW line,
           lines[k + 1] = "blank" <=> line \in EndsOfLine,
           lines[k + 1] # "blank" => line[1] = lines[k + 1]
    PROVE  LET d == CollectHttpHeader(c, line)
           IN  /\ d \in Connections /\ Fields(d, lines, k + 1)
               /\ d.buff_sofar = c.buff_sofar
               /\ lines[k + 1] # "blank" =>
                     d.done = c.done /\ d.collecting = c.collecting /\ d.data = c.data
               /\ lines[k + 1] = "blank" =>
                     /\ d.done
                     /\ c.request_type = "POST" /\ c.content_length > 0 =>
                           d.collecting /\ d.data = <<>>
                     /\ ~(c.request_type = "POST" /\ c.content_length > 0) =>
                           d.collecting = c.collecting /\ d.data = c.data
                     /\ d.request_type = c.request_type /\ d.websocket = c.websocket
                     /\ d.content_length = c.content_length
  <1> DEFINE word == lines[k + 1]
             d    == CollectHttpHeader(c, line)
  <1>1. word \in Words
    BY ElementOfSeq
  <1>2. \A i \in 1 .. k + 1 : i \in 1 .. k \/ i = k + 1
    OBVIOUS
  <1>3. k + 1 \in 1 .. k + 1 /\ \A i \in 1 .. k : i \in 1 .. k + 1 /\ i # k + 1
    OBVIOUS
  <1>4. \A i \in 1 .. k + 1 : i \in 1 .. Len(lines)
    BY LenProperties
  <1>5. word \in {"GET", "POST", "PUT"} <=> k = 0
    <2>1. k + 1 = 1 <=> k = 0
      OBVIOUS
    <2> QED
      BY <2>1 DEF Legal
  <1>6. {"GET", "POST", "PUT", "host", "upgrade", "blank"} \cap DOMAIN Lengths = {}
    BY StreamsAssumption
  <1> HIDE DEF word, d
  <1>7. ASSUME word \notin DOMAIN Lengths, d.content_length = c.content_length
        PROVE  /\ \A i \in 1 .. k + 1 :
                     lines[i] \in DOMAIN Lengths => d.content_length = Lengths[lines[i]]
               /\ (\A i \in 1 .. k + 1 : lines[i] \notin DOMAIN Lengths) =>
                     d.content_length = 0
    BY <1>2, <1>3, <1>7 DEF Fields, word
  <1>8. ASSUME word # "upgrade", d.websocket = c.websocket
        PROVE  d.websocket = \E i \in 1 .. k + 1 : lines[i] = "upgrade"
    BY <1>2, <1>3, <1>8 DEF Fields, word
  <1>9. ASSUME k > 0, d.request_type = c.request_type
        PROVE  d.request_type = IF k + 1 > 0 /\ lines[1] \in {"GET", "POST"}
                                THEN lines[1] ELSE "none"
    BY <1>9 DEF Fields
  <1>10. CASE word = "blank"
    <2>1. k > 0 /\ word \notin DOMAIN Lengths /\ word # "upgrade"
      BY <1>5, <1>6, <1>10
    <2>2. /\ line \in EndsOfLine /\ line[1] \notin {"GET", "POST", "upgrade"}
          /\ line[1] \notin DOMAIN Lengths
      <3>1. line \in EndsOfLine
        BY <1>10 DEF word
      <3>2. line[1] \in {"cr", "nl"}
        BY <3>1 DEF EndsOfLine
      <3> QED
        BY <3>1, <3>2, StreamsAssumption
    <2>3. CASE c.request_type = "POST" /\ c.content_length > 0
      <3>1. d = [c EXCEPT !.done = TRUE, !.collecting = TRUE, !.data = <<>>]
        BY <2>2, <2>3 DEF CollectHttpHeader, d
      <3>2. /\ d \in Connections /\ d.buff_sofar = c.buff_sofar /\ d.done = TRUE
            /\ d.collecting = TRUE /\ d.data = <<>> /\ d.request_type = c.request_type
            /\ d.websocket = c.websocket /\ d.content_length = c.content_length
        <4>1. <<>> \in Seq(Tokens)
          OBVIOUS
        <4> QED
          BY <3>1, <4>1 DEF Connections
      <3>3. Fields(d, lines, k + 1)
        BY <1>7, <1>8, <1>9, <2>1, <3>2 DEF Fields
      <3> QED
        BY <1>10, <2>3, <3>2, <3>3 DEF d, word
    <2>4. CASE ~(c.request_type = "POST" /\ c.content_length > 0)
      <3>1. d = [c EXCEPT !.done = TRUE]
        BY <2>2, <2>4 DEF CollectHttpHeader, d
      <3>2. /\ d \in Connections /\ d.buff_sofar = c.buff_sofar /\ d.done = TRUE
            /\ d.collecting = c.collecting /\ d.data = c.data
            /\ d.request_type = c.request_type
            /\ d.websocket = c.websocket /\ d.content_length = c.content_length
        BY <3>1 DEF Connections
      <3>3. Fields(d, lines, k + 1)
        BY <1>7, <1>8, <1>9, <2>1, <3>2 DEF Fields
      <3> QED
        BY <1>10, <2>4, <3>2, <3>3 DEF d, word
    <2> QED
      BY <2>3, <2>4
  <1>11. CASE word # "blank"
    <2>1. line \notin EndsOfLine /\ line[1] = word
      BY <1>11 DEF word
    <2>2. SUFFICES /\ d \in Connections /\ Fields(d, lines, k + 1)
                   /\ d.buff_sofar = c.buff_sofar /\ d.done = c.done
                   /\ d.collecting = c.collecting /\ d.data = c.data
      BY <1>11 DEF d, word
    <2>3. CASE word \in {"GET", "POST"}
      <3>1. d = [c EXCEPT !.request_type = word]
        <4>1. word \notin DOMAIN Lengths /\ word # "upgrade"
          BY <1>6, <2>3
        <4> QED
          BY <2>1, <2>3, <4>1 DEF CollectHttpHeader, d
      <3>2. /\ d \in Connections /\ d.buff_sofar = c.buff_sofar /\ d.done = c.done
            /\ d.collecting = c.collecting /\ d.data = c.data /\ d.request_type = word
            /\ d.websocket = c.websocket /\ d.content_length = c.content_length
        BY <2>3, <3>1 DEF Connections
      <3>3. k = 0 /\ lines[1] = word /\ word \notin DOMAIN Lengths /\ word # "upgrade"
        BY <1>5, <1>6, <2>3 DEF word
      <3>4. Fields(d, lines, k + 1)
        BY <1>7, <1>8, <2>3, <3>2, <3>3 DEF Fields
      <3> QED
        BY <3>2, <3>4
    <2>4. CASE word \in DOMAIN Lengths
      <3>1. word \notin {"GET", "POST", "PUT", "upgrade"} /\ Lengths[word] \in Nat
        BY <1>6, <2>4, StreamsAssumption
      <3>2. d = [c EXCEPT !.content_length = Lengths[word]]
        BY <2>1, <2>4, <3>1 DEF CollectHttpHeader, d
      <3>3. /\ d \in Connections /\ d.buff_sofar = c.buff_sofar /\ d.done = c.done
            /\ d.collecting = c.collecting /\ d.data = c.data
            /\ d.request_type = c.request_type
            /\ d.websocket = c.websocket /\ d.content_length = Lengths[word]
        BY <3>1, <3>2 DEF Connections
      <3>4. \A i \in 1 .. k + 1 : lines[i] \in DOMAIN Lengths => i = k + 1
        BY <1>3, <1>4, <2>4 DEF Legal, word
      <3>5. k > 0
        BY <1>5, <3>1
      <3>6. /\ \A i \in 1 .. k + 1 :
                  lines[i] \in DOMAIN Lengths => d.content_length = Lengths[lines[i]]
            /\ ~(\A i \in 1 .. k + 1 : lines[i] \notin DOMAIN Lengths)
        BY <1>3, <2>4, <3>3, <3>4 DEF word
      <3>7. Fields(d, lines, k + 1)
        BY <1>8, <1>9, <3>1, <3>3, <3>5, <3>6 DEF Fields
      <3> QED
        BY <3>3, <3>7
    <2>5. CASE word = "upgrade"
      <3>1. word \notin DOMAIN Lengths /\ word \notin {"GET", "POST", "PUT"}
        BY <1>6, <2>5
      <3>2. d = [c EXCEPT !.websocket = TRUE]
        BY <2>1, <2>5, <3>1 DEF CollectHttpHeader, d
      <3>3. /\ d \in Connections /\ d.buff_sofar = c.buff_sofar /\ d.done = c.done
            /\ d.collecting = c.collecting /\ d.data = c.data
            /\ d.request_type = c.request_type
            /\ d.websocket = TRUE /\ d.content_length = c.content_length
        BY <3>2 DEF Connections
      <3>4. k > 0
        BY <1>5, <3>1
      <3>5. d.websocket = \E i \in 1 .. k + 1 : lines[i] = "upgrade"
        BY <1>3, <2>5, <3>3 DEF word
      <3>6. Fields(d, lines, k + 1)
        BY <1>7, <1>9, <3>1, <3>3, <3>4, <3>5 DEF Fields
      <3> QED
        BY <3>3, <3>6
    <2>6. CASE word \in {"PUT", "host"}
      <3>1. /\ word \notin DOMAIN Lengths /\ word \notin {"GET", "POST"}
            /\ word # "upgrade"
        BY <1>6, <2>6
      <3>2. d = c
        BY <2>1, <3>1 DEF CollectHttpHeader, d
      <3>3. d.request_type = IF k + 1 > 0 /\ lines[1] \in {"GET", "POST"}
                             THEN lines[1] ELSE "none"
        <4>1. CASE k > 0
          BY <1>9, <3>2, <4>1
        <4>2. CASE k = 0
          <5>1. lines[1] = word
            BY <4>2 DEF word
          <5> QED
            BY <3>1, <3>2, <4>2, <5>1 DEF Fields
        <4> QED
          BY <4>1, <4>2
      <3>4. Fields(d, lines, k + 1)
        BY <1>7, <1>8, <3>1, <3>2, <3>3 DEF Fields
      <3> QED
        BY <3>2, <3>4
    <2> QED
      BY <1>1, <1>11, <2>3, <2>4, <2>5, <2>6 DEF Words
  <1> QED
    BY <1>10, <1>11

\* The thread has made use of the first k lines, and the buffer holds what was read behind
\* them; when it waits, no line in it is complete.
LinesPulled(k) ==
    /\ Base(ends, k) <= taken
    /\ conn.buff_sofar = SubSeq(wire, Base(ends, k) + 1, taken)
    /\ Fields(conn, sent, k)
    /\ k > 0 => sent[k] # "blank"
    /\ step = "read" /\ k < Len(sent) => taken < ends[k + 1]

\* The header was not read to its end.
InHeader ==
    /\ served = <<>> /\ ~b_Shutdown /\ ~conn.collecting /\ ~conn.done
    /\ conn.data = <<>>
    /\ \E k \in 0 .. Len(sent) : LinesPulled(k)

\* The header of a POST is read, and less of its data than it says it has.
InData ==
    /\ served = <<>> /\ ~b_Shutdown /\ conn.collecting /\ step = "read"
    /\ HeaderSent /\ sent[1] = "POST" /\ Base(ends, Len(ends)) <= taken
    /\ Fields(conn, sent, Len(sent))
    /\ conn.buff_sofar = <<>> /\ conn.data = SubSeq(wire, Base(ends, Len(ends)) + 1, taken)
    /\ taken < Base(ends, Len(ends)) + Declared(sent)

\* What was answered is the request; its data can have something more behind them.
Answered ==
    /\ step = "read" /\ HeaderSent
    /\ Base(ends, Len(ends)) + (IF sent[1] = "POST" THEN Declared(sent) ELSE 0) <= taken
    /\ Len(served) = 1 /\ served[1].data \in Seq(Tokens)
    /\ served[1].type = IF sent[1] = "PUT" THEN "none" ELSE sent[1]
    /\ served[1].websocket = \E i \in 1 .. Len(sent) : sent[i] = "upgrade"
    /\ ~b_Shutdown => sent[1] = "GET"
    /\ sent[1] = "POST" /\ Declared(sent) > 0 =>
          \E t \in Base(ends, Len(ends)) + Declared(sent) .. taken :
             served[1].data = SubSeq(wire, Base(ends, Len(ends)) + 1, t)

\* The thread is in one of these phases.
HttpReader ==
    /\ conn \in Connections
    /\ step \in {"read", "line"}
    /\ InHeader \/ InData \/ Answered

HttpInv == PeerInv /\ taken \in 0 .. Len(wire) /\ http /\ HttpReader

\* What is known of a peer and of how much was read.
LEMMA HttpPeer ==
    ASSUME HttpInv
    PROVE  /\ sent \in Seq(Words) /\ ends \in Seq(Nat) /\ Len(ends) = Len(sent)
           /\ Len(sent) \in Nat /\ DOMAIN sent = 1 .. Len(sent)
           /\ part \in Seq(Tokens) /\ Len(part) \in Nat
           /\ wire \in Seq(Tokens) /\ Len(wire) \in Nat
           /\ taken \in Nat /\ taken <= Len(wire)
           /\ Rise(ends, Len(wire)) /\ RequestOnWire(wire, ends, sent, part) /\ Legal(sent)
           /\ \A k \in 0 .. Len(sent) : Base(ends, k) \in Nat /\ Base(ends, k) <= Len(wire)
           /\ \A k \in 0 .. Len(sent) : k < Len(sent) =>
                 /\ k + 1 \in 1 .. Len(sent) /\ ends[k + 1] \in Nat
                 /\ Base(ends, k + 1) = ends[k + 1] /\ Base(ends, k) < ends[k + 1]
                 /\ ends[k + 1] <= Base(ends, Len(ends))
                 /\ LineAt(wire, Base(ends, k), ends[k + 1], sent[k + 1])
           /\ conn \in Connections
  <1>1. /\ sent \in Seq(Words) /\ ends \in Seq(Nat) /\ Len(ends) = Len(sent)
        /\ part \in Seq(Tokens) /\ wire \in Seq(Tokens) /\ taken \in 0 .. Len(wire)
        /\ Rise(ends, Len(wire)) /\ RequestOnWire(wire, ends, sent, part)
        /\ conn \in Connections
    BY DEF HttpInv, PeerInv, PeerTypes, HttpReader
  <1>2. Len(sent) \in Nat /\ DOMAIN sent = 1 .. Len(sent)
    BY <1>1, LenProperties
  <1>3. Len(part) \in Nat
    BY <1>1, LenProperties
  <1>4. Len(wire) \in Nat
    BY <1>1, LenProperties
  <1>5. taken \in Nat /\ taken <= Len(wire)
    BY <1>1, <1>4
  <1>6. Legal(sent)
    BY <1>1 DEF RequestOnWire
  <1>7. /\ \A k \in 0 .. Len(ends) : Base(ends, k) \in 0 .. Len(wire)
        /\ \A k \in 0 .. Len(ends) - 1 :
              Base(ends, k + 1) = ends[k + 1] /\ Base(ends, k) < ends[k + 1]
        /\ \A j, k \in 0 .. Len(ends) : j <= k => Base(ends, j) <= Base(ends, k)
    BY <1>1, <1>4, BaseProperties
  <1>8. \A k \in 0 .. Len(sent) : Base(ends, k) \in Nat /\ Base(ends, k) <= Len(wire)
    BY <1>1, <1>4, <1>7
  <1>9. ASSUME NEW k \in 0 .. Len(sent), k < Len(sent)
        PROVE  /\ k + 1 \in 1 .. Len(sent) /\ ends[k + 1] \in Nat
               /\ Base(ends, k + 1) = ends[k + 1] /\ Base(ends, k) < ends[k + 1]
               /\ ends[k + 1] <= Base(ends, Len(ends))
               /\ LineAt(wire, Base(ends, k), ends[k + 1], sent[k + 1])
    <2>1. /\ k + 1 \in 1 .. Len(sent) /\ (k + 1) - 1 = k /\ k \in 0 .. Len(ends) - 1
          /\ k + 1 \in 0 .. Len(ends) /\ Len(ends) \in 0 .. Len(ends) /\ k + 1 <= Len(ends)
      BY <1>1, <1>2, <1>9
    <2>2. Base(ends, k + 1) = ends[k + 1] /\ Base(ends, k) < ends[k + 1]
      BY <1>7, <2>1
    <2>3. Base(ends, k + 1) <= Base(ends, Len(ends)) /\ Base(ends, k + 1) \in 0 .. Len(wire)
      BY <1>7, <2>1
    <2>4. LineAt(wire, Base(ends, (k + 1) - 1), ends[k + 1], sent[k + 1])
      BY <1>1, <2>1 DEF RequestOnWire
    <2> QED
      BY <1>4, <2>1, <2>2, <2>3, <2>4
  <1> QED
    BY <1>1, <1>2, <1>3, <1>4, <1>5, <1>6, <1>8, <1>9

\* What the peer sends is no concern of the thread until it is read.
LEMMA HttpSendKeeps ==
    ASSUME HttpInv, Send
    PROVE  HttpInv'
  <1>1. PeerInv' /\ Appends
    BY SendKeeps DEF HttpInv
  <1>2. /\ taken' = taken /\ conn' = conn /\ served' = served /\ step' = step
        /\ b_Shutdown' = b_Shutdown
    BY DEF Send
  <1>3. /\ Len(ends) = Len(sent) /\ Len(sent) \in Nat
        /\ wire \in Seq(Tokens) /\ Len(wire) \in Nat /\ taken \in Nat /\ taken <= Len(wire)
        /\ \A k \in 0 .. Len(sent) : Base(ends, k) \in Nat /\ Base(ends, k) <= Len(wire)
    BY HttpPeer
  <1>4. /\ http' = http /\ http /\ wire' \in Seq(Tokens) /\ Len(ends') = Len(sent')
        /\ ends' \in Seq(Nat)
        /\ Extends(wire', wire) /\ Extends(ends', ends) /\ Extends(sent', sent)
        /\ \A j \in 1 .. Len(ends') : j > Len(ends) => Len(wire) < ends'[j]
        /\ HeaderSent => sent' = sent /\ ends' = ends
    BY <1>1 DEF PeerInv, PeerTypes, Appends, HttpInv
  <1>5. /\ Len(sent') \in Nat /\ Len(sent) <= Len(sent') /\ Len(wire') \in Nat
        /\ Len(wire) <= Len(wire')
    <2>1. Len(wire') \in Nat
      BY <1>4, LenProperties
    <2>2. Len(ends') \in Nat
      BY <1>4, LenProperties
    <2> QED
      BY <1>4, <2>1, <2>2 DEF Extends
  <1>6. \A i \in 1 .. Len(sent) : sent'[i] = sent[i] /\ ends'[i] = ends[i]
    BY <1>3, <1>4 DEF Extends
  <1>7. ASSUME NEW lo \in Nat, NEW t \in Nat, lo <= t, t <= taken
        PROVE  SubSeq(wire', lo + 1, t) = SubSeq(wire, lo + 1, t)
    <2>1. /\ lo \in Nat /\ t \in Nat /\ lo <= t /\ t <= Len(wire)
          /\ wire \in Seq(Tokens) /\ wire' \in Seq(Tokens) /\ Extends(wire', wire)
      BY <1>3, <1>4, <1>7
    <2> QED
      BY <2>1, SliceExtended
  <1>8. ASSUME InHeader
        PROVE  InHeader'
    <2>1. PICK k \in 0 .. Len(sent) : LinesPulled(k)
      BY <1>8 DEF InHeader
    <2>2. /\ k \in Nat /\ k <= Len(sent) /\ k \in 0 .. Len(sent')
          /\ k > 0 => 1 \in 1 .. Len(sent)
          /\ \A i \in 1 .. k : i \in 1 .. Len(sent)
          /\ k > 0 => k \in 1 .. Len(sent)
      BY <1>3, <1>5
    <2>3. Base(ends', k) = Base(ends, k)
      BY <1>6, <2>2 DEF Base
    <2>4. Base(ends, k) \in Nat /\ Base(ends, k) <= taken
      BY <1>3, <2>1 DEF LinesPulled
    <2>5. conn.buff_sofar = SubSeq(wire', Base(ends, k) + 1, taken)
      <3>1. conn.buff_sofar = SubSeq(wire, Base(ends, k) + 1, taken)
        BY <2>1 DEF LinesPulled
      <3>2. taken \in Nat /\ taken <= taken
        BY <1>3
      <3>3. SubSeq(wire', Base(ends, k) + 1, taken) = SubSeq(wire, Base(ends, k) + 1, taken)
        BY <1>7, <2>4, <3>2
      <3> QED
        BY <3>1, <3>3
    <2>6. Fields(conn, sent', k)
      <3>1. Fields(conn, sent, k)
        BY <2>1 DEF LinesPulled
      <3>2. (k > 0 => sent'[1] = sent[1]) /\ \A i \in 1 .. k : sent'[i] = sent[i]
        BY <1>6, <2>2
      <3> QED
        BY <3>1, <3>2 DEF Fields
    <2>7. k > 0 => sent'[k] # "blank"
      BY <1>6, <2>1, <2>2 DEF LinesPulled
    <2>8. ASSUME step = "read", k < Len(sent')
          PROVE  taken < ends'[k + 1]
      <3>1. CASE k < Len(sent)
        <4>1. taken < ends[k + 1]
          BY <2>1, <2>8, <3>1 DEF LinesPulled
        <4>2. k + 1 \in 1 .. Len(sent)
          BY <1>3, <2>2, <3>1
        <4> QED
          BY <1>6, <4>1, <4>2
      <3>2. CASE k = Len(sent)
        <4>1. k + 1 \in 1 .. Len(ends') /\ k + 1 > Len(ends)
          BY <1>3, <1>4, <1>5, <2>8, <3>2
        <4>2. Len(wire) < ends'[k + 1]
          BY <1>4, <4>1
        <4>3. ends'[k + 1] \in Nat
          BY <1>4, <4>1, ElementOfSeq
        <4> QED
          BY <1>3, <4>2, <4>3
      <3> QED
        BY <1>3, <2>2, <3>1, <3>2
    <2>9. LinesPulled(k)'
      BY <1>2, <2>3, <2>4, <2>5, <2>6, <2>7, <2>8 DEF LinesPulled
    <2>10. InHeader'
      BY <1>2, <1>8, <2>2, <2>9 DEF InHeader
    <2> QED
      BY <2>10
  <1>9. ASSUME HeaderSent
        PROVE  sent' = sent /\ ends' = ends /\ HeaderSent' /\ Base(ends, Len(ends)) \in Nat
    <2>1. Len(ends) \in 0 .. Len(sent)
      BY <1>3
    <2> QED
      BY <1>3, <1>4, <1>9, <2>1 DEF HeaderSent
  <1>10. ASSUME InData
         PROVE  InData'
    <2>1. HeaderSent /\ Base(ends, Len(ends)) <= taken
      BY <1>10 DEF InData
    <2>2. SubSeq(wire', Base(ends, Len(ends)) + 1, taken)
             = SubSeq(wire, Base(ends, Len(ends)) + 1, taken)
      <3>1. taken \in Nat /\ taken <= taken /\ Base(ends, Len(ends)) \in Nat
        BY <1>3, <1>9, <2>1
      <3> QED
        BY <1>7, <2>1, <3>1
    <2>3. InData'
      BY <1>2, <1>9, <1>10, <2>1, <2>2 DEF InData
    <2> QED
      BY <2>3
  <1>11. ASSUME Answered
         PROVE  Answered'
    <2>1. HeaderSent
      BY <1>11 DEF Answered
    <2>2. sent' = sent /\ ends' = ends /\ HeaderSent' /\ Base(ends, Len(ends)) \in Nat
      BY <1>9, <2>1
    <2>3. ASSUME sent[1] = "POST", Declared(sent) > 0
          PROVE  \E t \in Base(ends, Len(ends)) + Declared(sent) .. taken :
                    served[1].data = SubSeq(wire', Base(ends, Len(ends)) + 1, t)
      <3>1. PICK t \in Base(ends, Len(ends)) + Declared(sent) .. taken :
                served[1].data = SubSeq(wire, Base(ends, Len(ends)) + 1, t)
        BY <1>11, <2>3 DEF Answered
      <3>2. Declared(sent) \in Nat
        BY HttpPeer, DeclaredType
      <3>3. t \in Nat /\ Base(ends, Len(ends)) <= t /\ t <= taken
        BY <1>3, <2>2, <3>1, <3>2
      <3>4. SubSeq(wire', Base(ends, Len(ends)) + 1, t)
               = SubSeq(wire, Base(ends, Len(ends)) + 1, t)
        BY <1>7, <2>2, <3>3
      <3> QED
        BY <3>1, <3>4
    <2>4. Answered'
      BY <1>2, <1>11, <2>2, <2>3 DEF Answered
    <2> QED
      BY <2>4
  <1>12. HttpReader'
    BY <1>2, <1>8, <1>10, <1>11 DEF HttpInv, HttpReader
  <1>13. taken' \in 0 .. Len(wire')
    BY <1>2, <1>3, <1>5
  <1> QED
    BY <1>1, <1>4, <1>12, <1>13 DEF HttpInv

\* A request that is complete is answered.
LEMMA CollectedDone ==
    ASSUME HttpInv, served = <<>>, NEW c \in Connections, Collected(c), c.done,
           UNCHANGED wirevars, taken' \in Nat, HeaderSent,
           Fields(c, sent, Len(sent)),
           Base(ends, Len(ends)) + (IF sent[1] = "POST" THEN Declared(sent) ELSE 0) <= taken',
           sent[1] = "POST" /\ Declared(sent) > 0 =>
              c.data = SubSeq(wire, Base(ends, Len(ends)) + 1, taken')
    PROVE  HttpReader'
  <1> DEFINE r == [type |-> c.request_type, data |-> c.data, websocket |-> c.websocket]
  <1>1. /\ sent \in Seq(Words) /\ Len(sent) \in Nat /\ Legal(sent)
        /\ DOMAIN sent = 1 .. Len(sent)
        /\ \A k \in 0 .. Len(sent) : Base(ends, k) \in Nat
        /\ Len(ends) = Len(sent)
    BY HttpPeer
  <1>2. /\ sent' = sent /\ ends' = ends /\ wire' = wire
        /\ conn' = c /\ served' = Append(served, r) /\ step' = "read"
        /\ b_Shutdown' = (TRUE /\ ~c.websocket)
    BY DEF wirevars, Collected
  <1>3. served' = <<r>>
    BY <1>2
  <1>4. Len(served') = 1 /\ served'[1] = r
    BY <1>3
  <1>5. Len(sent) > 0 /\ 1 \in 1 .. Len(sent)
    BY <1>1, EmptySeq DEF HeaderSent
  <1>6. sent[1] \in {"GET", "POST", "PUT"}
    BY <1>1, <1>5 DEF Legal
  <1>7. r.type = IF sent[1] = "PUT" THEN "none" ELSE sent[1]
    BY <1>5, <1>6 DEF Fields
  <1>8. r.websocket = \E i \in 1 .. Len(sent) : sent[i] = "upgrade"
    BY DEF Fields
  <1>9. r.data \in Seq(Tokens)
    BY DEF Connections
  <1>10. ~b_Shutdown' => sent[1] = "GET"
    <2>1. c.websocket => \E i \in 1 .. Len(sent) : sent[i] = "upgrade"
      BY DEF Fields
    <2>2. c.websocket => sent[1] = "GET"
      BY <1>1, <2>1 DEF Legal
    <2> QED
      BY <1>2, <2>2
  <1>11. ASSUME sent[1] = "POST", Declared(sent) > 0
         PROVE  \E t \in Base(ends, Len(ends)) + Declared(sent) .. taken' :
                   r.data = SubSeq(wire, Base(ends, Len(ends)) + 1, t)
    <2>1. Base(ends, Len(ends)) \in Nat /\ Declared(sent) \in Nat
      BY <1>1, DeclaredType
    <2>2. taken' \in Base(ends, Len(ends)) + Declared(sent) .. taken'
      BY <1>11, <2>1
    <2> QED
      BY <1>11, <2>2
  <1> HIDE DEF r
  <1>12. HeaderSent'
    BY <1>2 DEF HeaderSent
  <1>13. Answered'
    BY <1>2, <1>4, <1>7, <1>8, <1>9, <1>10, <1>11, <1>12 DEF Answered
  <1> QED
    BY <1>2, <1>13 DEF HttpReader

\* More data, and what CollectPostData makes of them.
LEMMA CollectsData ==
    ASSUME HttpInv, served = <<>>, NEW c \in Connections, NEW data \in Seq(Tokens),
           Collected(CollectPostData(c, data)), c.collecting,
           UNCHANGED wirevars, taken' \in Nat, taken' <= Len(wire), HeaderSent,
           sent[1] = "POST", Fields(c, sent, Len(sent)), Base(ends, Len(ends)) <= taken',
           c.data \o data = SubSeq(wire, Base(ends, Len(ends)) + 1, taken')
    PROVE  HttpReader'
  <1> DEFINE d == CollectPostData(c, data)
             lo == Base(ends, Len(ends))
  <1>1. /\ sent \in Seq(Words) /\ Legal(sent) /\ wire \in Seq(Tokens)
        /\ \A k \in 0 .. Len(sent) : Base(ends, k) \in Nat
        /\ Len(ends) = Len(sent) /\ Len(sent) \in Nat
    BY HttpPeer
  <1>2. lo \in Nat
    BY <1>1
  <1>3. Declared(sent) \in Nat /\ c.content_length = Declared(sent)
    BY <1>1, DeclaredType, FieldsDeclare
  <1> HIDE DEF lo
  <1>4. c.data \o data \in Seq(Tokens) /\ Len(c.data \o data) = taken' - lo
    <2>1. /\ SubSeq(wire, lo + 1, taken') \in Seq(Tokens)
          /\ Len(SubSeq(wire, lo + 1, taken')) = taken' - lo
      BY <1>1, <1>2, SliceOf DEF lo
    <2> QED
      BY <2>1 DEF lo
  <1> DEFINE all == c.data \o data
             f   == Len(all) >= c.content_length
  <1>5. d = [c EXCEPT !.buff_sofar = <<>>, !.data = all, !.done = f]
    BY DEF CollectPostData, Connections
  <1>6. <<>> \in Seq(Tokens)
    OBVIOUS
  <1>7. /\ d \in Connections /\ d.buff_sofar = <<>> /\ d.data = c.data \o data
        /\ d.done = f /\ d.collecting
        /\ d.request_type = c.request_type /\ d.websocket = c.websocket
        /\ d.content_length = c.content_length
    <2>1. all \in Seq(Tokens) /\ f \in BOOLEAN
      BY <1>4
    <2> HIDE DEF all, f, d
    <2>2. /\ d \in Connections /\ d.buff_sofar = <<>> /\ d.data = all
          /\ d.done = f /\ d.collecting = c.collecting
          /\ d.request_type = c.request_type /\ d.websocket = c.websocket
          /\ d.content_length = c.content_length
      BY <1>5, <1>6, <2>1 DEF Connections
    <2> QED
      BY <2>2 DEF all
  <1>8. f <=> lo + Declared(sent) <= taken'
    <2>1. Len(all) = taken' - lo
      BY <1>4
    <2> HIDE DEF all
    <2> QED
      BY <1>2, <1>3, <2>1
  <1> HIDE DEF d
  <1>9. Fields(d, sent, Len(sent))
    BY <1>7 DEF Fields
  <1>10. Collected(d)
    BY DEF d
  <1>11. CASE d.done
    <2>1. lo + Declared(sent) <= taken'
      BY <1>7, <1>11, <1>8
    <2>2. lo + (IF sent[1] = "POST" THEN Declared(sent) ELSE 0) <= taken'
      BY <2>1
    <2>3. d.data = SubSeq(wire, lo + 1, taken')
      BY <1>7 DEF lo
    <2> QED
      BY <1>7, <1>9, <1>10, <1>11, <2>2, <2>3, CollectedDone DEF lo
  <1>12. CASE ~d.done
    <2>1. /\ sent' = sent /\ ends' = ends /\ wire' = wire
          /\ conn' = d /\ served' = served /\ step' = "read"
          /\ b_Shutdown' = (FALSE /\ ~d.websocket)
      BY <1>10, <1>12 DEF wirevars, Collected
    <2>2. taken' < lo + Declared(sent)
      <3>1. ~(lo + Declared(sent) <= taken')
        BY <1>7, <1>12, <1>8
      <3> QED
        BY <1>2, <1>3, <3>1
    <2>3. HeaderSent'
      BY <2>1 DEF HeaderSent
    <2>4. InData'
      BY <1>7, <1>9, <2>1, <2>2, <2>3 DEF InData, lo
    <2> QED
      BY <1>7, <2>1, <2>4 DEF HttpReader
  <1> QED
    BY <1>11, <1>12

\* A read appends to the header, or to the data; after the answer there is none.
LEMMA HttpReadKeeps ==
    ASSUME HttpInv, HttpRead
    PROVE  HttpInv'
  <1> DEFINE lo == Base(ends, Len(ends))
  <1>1. /\ http' = http /\ sent' = sent /\ ends' = ends /\ part' = part /\ wire' = wire
        /\ step = "read" /\ ~b_Shutdown /\ UNCHANGED wirevars
    BY DEF HttpRead, wirevars
  <1>2. PICK n \in 1 .. Len(wire) - taken :
          /\ taken' = taken + n
          /\ IF conn.collecting
             THEN Collected(CollectPostData(conn, conn.buff_sofar \o Arrived(n)))
             ELSE /\ conn' = [conn EXCEPT !.buff_sofar = conn.buff_sofar \o Arrived(n),
                                          !.done = FALSE]
                  /\ step' = "line" /\ served' = served /\ b_Shutdown' = b_Shutdown
    BY DEF HttpRead
  <1>3. /\ wire \in Seq(Tokens) /\ Len(wire) \in Nat /\ taken \in Nat /\ taken <= Len(wire)
        /\ \A k \in 0 .. Len(sent) : Base(ends, k) \in Nat
        /\ Len(ends) = Len(sent) /\ Len(sent) \in Nat
        /\ conn \in Connections
    BY HttpPeer
  <1>4. /\ n \in Nat /\ n > 0 /\ taken + n \in Nat /\ taken + n <= Len(wire)
        /\ taken' \in Nat /\ taken' <= Len(wire) /\ taken' \in 0 .. Len(wire')
    BY <1>1, <1>2, <1>3
  <1>5. lo \in Nat
    BY <1>3
  <1>6. ASSUME NEW b \in Nat, b <= taken
        PROVE  SubSeq(wire, b + 1, taken) \o Arrived(n) = SubSeq(wire, b + 1, taken + n)
    <2>1. /\ b \in Nat /\ b <= taken /\ taken \in Nat /\ n \in Nat
          /\ taken + n <= Len(wire) /\ wire \in Seq(Tokens)
      BY <1>3, <1>4, <1>6
    <2> QED
      BY <2>1, SliceAppended DEF Arrived
  <1>7. PeerInv' /\ http'
    BY <1>1, PeerUnchanged DEF HttpInv
  <1>8. Arrived(n) \in Seq(Tokens)
    BY <1>3, <1>4, SliceOf DEF Arrived
  <1>9. ASSUME InHeader
        PROVE  HttpReader'
    <2>1. /\ served = <<>> /\ conn.collecting = FALSE /\ conn.done = FALSE /\ conn.data = <<>>
          /\ conn' = [conn EXCEPT !.buff_sofar = conn.buff_sofar \o Arrived(n),
                                  !.done = FALSE]
          /\ step' = "line" /\ served' = served /\ b_Shutdown' = b_Shutdown
      BY <1>2, <1>3, <1>9 DEF InHeader, Connections
    <2>2. PICK k \in 0 .. Len(sent) : LinesPulled(k)
      BY <1>9 DEF InHeader
    <2>3. Base(ends, k) \in Nat /\ Base(ends, k) <= taken /\ Base(ends, k) <= taken + n
      <3>1. Base(ends, k) \in Nat /\ Base(ends, k) <= taken
        BY <1>3, <2>2 DEF LinesPulled
      <3> QED
        BY <1>3, <1>4, <3>1
    <2>4. conn.buff_sofar \o Arrived(n) = SubSeq(wire, Base(ends, k) + 1, taken + n)
      BY <1>6, <2>2, <2>3 DEF LinesPulled
    <2>5. conn.buff_sofar \o Arrived(n) \in Seq(Tokens)
      BY <1>3, <1>8 DEF Connections
    <2>6. /\ conn' \in Connections /\ conn'.buff_sofar = conn.buff_sofar \o Arrived(n)
          /\ conn'.done = FALSE /\ conn'.collecting = FALSE /\ conn'.data = <<>>
          /\ conn'.request_type = conn.request_type /\ conn'.websocket = conn.websocket
          /\ conn'.content_length = conn.content_length
      <3> DEFINE x == conn.buff_sofar \o Arrived(n)
      <3> HIDE DEF x
      <3>1. conn' = [conn EXCEPT !.buff_sofar = x, !.done = FALSE] /\ x \in Seq(Tokens)
        BY <2>1, <2>5 DEF x
      <3>2. /\ conn' \in Connections /\ conn'.buff_sofar = x
            /\ conn'.done = FALSE /\ conn'.collecting = conn.collecting
            /\ conn'.data = conn.data
            /\ conn'.request_type = conn.request_type /\ conn'.websocket = conn.websocket
            /\ conn'.content_length = conn.content_length
        BY <1>3, <3>1 DEF Connections
      <3> QED
        BY <2>1, <3>2 DEF x
    <2>7. Fields(conn', sent, k)
      BY <2>2, <2>6 DEF LinesPulled, Fields
    <2>8. LinesPulled(k)'
      BY <1>1, <1>2, <2>1, <2>2, <2>3, <2>4, <2>6, <2>7 DEF LinesPulled
    <2>9. InHeader'
      BY <1>1, <2>1, <2>2, <2>6, <2>8 DEF InHeader
    <2> QED
      BY <2>1, <2>6, <2>9 DEF HttpReader
  <1>10. ASSUME InData
         PROVE  HttpReader'
    <2>1. /\ served = <<>> /\ conn.collecting /\ HeaderSent /\ sent[1] = "POST" /\ lo <= taken
          /\ Fields(conn, sent, Len(sent)) /\ conn.buff_sofar = <<>>
          /\ conn.data = SubSeq(wire, lo + 1, taken)
      BY <1>10 DEF InData
    <2>2. <<>> \o Arrived(n) = Arrived(n)
      BY <1>8
    <2>3. Collected(CollectPostData(conn, Arrived(n)))
      BY <1>2, <2>1, <2>2
    <2>4. conn.data \o Arrived(n) = SubSeq(wire, lo + 1, taken')
      BY <1>2, <1>5, <1>6, <2>1
    <2>5. lo <= taken'
      BY <1>2, <1>3, <1>4, <1>5, <2>1
    <2> QED
      BY <1>1, <1>3, <1>4, <1>8, <2>1, <2>3, <2>4, <2>5, CollectsData
  <1>11. ~Answered
    <2>1. SUFFICES ASSUME Answered PROVE FALSE
      OBVIOUS
    <2>2. sent[1] = "GET" /\ lo + (IF sent[1] = "POST" THEN Declared(sent) ELSE 0) <= taken
      BY <1>1, <2>1 DEF Answered
    <2>3. lo <= taken
      BY <1>3, <1>5, <2>2
    <2>4. part = <<>> /\ Len(wire) = lo + Len(part)
      <3>1. RequestOnWire(wire, ends, sent, part)
        BY HttpPeer
      <3> QED
        BY <2>2, <3>1 DEF RequestOnWire
    <2>5. Len(part) = 0
      BY <2>4
    <2> HIDE DEF lo
    <2> QED
      BY <1>3, <1>4, <1>5, <2>3, <2>4, <2>5
  <1>12. HttpReader'
    BY <1>9, <1>10, <1>11 DEF HttpInv, HttpReader
  <1> QED
    BY <1>4, <1>7, <1>12 DEF HttpInv

\* The next line is in the buffer exactly when the whole of it was read.
LEMMA NextLine ==
    ASSUME HttpInv, step = "line"
    PROVE  \E k \in 0 .. Len(sent) :
             LET buff == conn.buff_sofar
                 nls  == {i \in DOMAIN buff : buff[i] = "nl"}
                 line == SubSeq(buff, 1, First(nls))
                 rest == SubSeq(buff, First(nls) + 1, Len(buff))
             IN  /\ LinesPulled(k) /\ k \in Nat
                 /\ nls = {} => ~(k < Len(sent) /\ ends[k + 1] <= taken)
                 /\ nls # {} =>
                       /\ k < Len(sent) /\ k + 1 \in 1 .. Len(sent) /\ ends[k + 1] <= taken
                       /\ rest = SubSeq(wire, ends[k + 1] + 1, taken) /\ rest \in Seq(Tokens)
                       /\ sent[k + 1] = "blank" <=> line \in EndsOfLine
                       /\ sent[k + 1] # "blank" => line[1] = sent[k + 1]
  <1> DEFINE buff == conn.buff_sofar
             nls  == {i \in DOMAIN buff : buff[i] = "nl"}
             line == SubSeq(buff, 1, First(nls))
             rest == SubSeq(buff, First(nls) + 1, Len(buff))
  <1>1. InHeader
    BY DEF HttpInv, HttpReader, InData, Answered
  <1>2. PICK k \in 0 .. Len(sent) : LinesPulled(k)
    BY <1>1 DEF InHeader
  <1>3. /\ sent \in Seq(Words) /\ Len(sent) \in Nat /\ wire \in Seq(Tokens) /\ Len(wire) \in Nat
        /\ taken \in Nat /\ taken <= Len(wire) /\ Len(ends) = Len(sent)
        /\ \A j \in 0 .. Len(sent) : Base(ends, j) \in Nat /\ Base(ends, j) <= Len(wire)
        /\ \A j \in 0 .. Len(sent) : j < Len(sent) =>
                 /\ j + 1 \in 1 .. Len(sent) /\ ends[j + 1] \in Nat
                 /\ Base(ends, j) < ends[j + 1]
                 /\ LineAt(wire, Base(ends, j), ends[j + 1], sent[j + 1])
    BY HttpPeer
  <1>4. k \in Nat /\ k <= Len(sent)
    BY <1>3
  <1>5. PICK lo \in Nat : lo = Base(ends, k) /\ lo <= taken /\ lo <= Len(wire)
    BY <1>2, <1>3 DEF LinesPulled
  <1>6. buff = SubSeq(wire, lo + 1, taken)
    BY <1>2, <1>5 DEF LinesPulled
  <1>7. CASE k < Len(sent) /\ ends[k + 1] <= taken
    <2>1. PICK hi \in Nat : hi = ends[k + 1] /\ lo < hi /\ hi <= taken
      BY <1>3, <1>5, <1>7
    <2>2. k + 1 \in 1 .. Len(sent) /\ LineAt(wire, lo, hi, sent[k + 1])
      BY <1>3, <1>5, <1>7, <2>1
    <2>3. sent[k + 1] \in Words
      BY <1>3, <2>2, ElementOfSeq
    <2>4. sent[k + 1] # "cr" /\ sent[k + 1] # "nl"
      BY <2>3, WordsProperties
    <2>5. /\ nls # {} /\ First(nls) = hi - lo
          /\ sent[k + 1] = "blank" <=> line \in EndsOfLine
          /\ sent[k + 1] # "blank" => line[1] = sent[k + 1]
      <3>1. /\ lo \in Nat /\ hi \in Nat /\ taken \in Nat /\ hi <= taken /\ taken <= Len(wire)
            /\ wire \in Seq(Tokens)
        BY <1>3, <2>1
      <3> DEFINE word == sent[k + 1]
      <3>2. word # "cr" /\ word # "nl" /\ LineAt(wire, lo, hi, word)
        BY <2>2, <2>4
      <3> HIDE DEF word
      <3>3. LET s    == SubSeq(wire, lo + 1, taken)
                nl   == {i \in DOMAIN s : s[i] = "nl"}
                l    == SubSeq(s, 1, First(nl))
            IN  /\ nl # {} /\ First(nl) = hi - lo
                /\ word = "blank" <=> l \in EndsOfLine
                /\ word # "blank" => l[1] = word
        BY <3>1, <3>2, LineInBuffer
      <3> QED
        BY <1>6, <3>3 DEF word
    <2>6. rest = SubSeq(wire, hi + 1, taken) /\ rest \in Seq(Tokens)
      <3>1. PICK d \in Nat : d = hi - lo /\ lo + d = hi
        BY <2>1
      <3>2. /\ lo \in Nat /\ d \in Nat /\ taken \in Nat /\ lo + d <= taken
            /\ taken <= Len(wire) /\ wire \in Seq(Tokens) /\ hi \in Nat /\ hi <= taken
            /\ lo <= taken
        BY <1>3, <1>5, <2>1, <3>1
      <3>3. SubSeq(SubSeq(wire, lo + 1, taken), d + 1, taken - lo)
               = SubSeq(wire, lo + d + 1, taken)
        BY <3>2, SliceDropped
      <3>4. Len(SubSeq(wire, lo + 1, taken)) = taken - lo
        BY <3>2, SliceOf
      <3>5. SubSeq(wire, hi + 1, taken) \in Seq(Tokens)
        BY <3>2, SliceOf
      <3> QED
        BY <1>6, <2>5, <3>1, <3>3, <3>4, <3>5
    <2> QED
      BY <1>2, <1>4, <1>7, <2>1, <2>2, <2>5, <2>6
  <1>8. CASE ~(k < Len(sent) /\ ends[k + 1] <= taken)
    <2>1. \A i \in lo + 1 .. taken : wire[i] # "nl"
      <3>1. CASE k < Len(sent)
        <4>1. PICK hi \in Nat : hi = ends[k + 1] /\ taken < hi
          BY <1>3, <1>4, <1>8, <3>1
        <4>2. LineAt(wire, lo, hi, sent[k + 1])
          BY <1>3, <1>5, <3>1, <4>1
        <4>3. \A i \in lo + 1 .. taken : i \in lo + 1 .. hi - 1
          BY <1>3, <1>5, <4>1
        <4> QED
          BY <4>2, <4>3 DEF LineAt
      <3>2. CASE k = Len(sent)
        <4>1. ~Finished(sent)
          <5>1. k > 0 => sent[k] # "blank"
            BY <1>2 DEF LinesPulled
          <5>2. k = 0 => sent = <<>>
            BY <1>3, <3>2, EmptySeq
          <5> QED
            BY <1>4, <3>2, <5>1, <5>2 DEF Finished
        <4>2. part = <<>> /\ Len(wire) = Base(ends, Len(ends)) + Len(part)
          <5>1. RequestOnWire(wire, ends, sent, part)
            BY HttpPeer
          <5> QED
            BY <4>1, <5>1 DEF RequestOnWire
        <4>3. Len(part) = 0 /\ Len(wire) = lo
          BY <1>3, <1>5, <3>2, <4>2
        <4> QED
          BY <1>3, <1>5, <4>3
      <3> QED
        BY <1>3, <1>4, <3>1, <3>2
    <2>2. nls = {}
      <3>1. /\ lo \in Nat /\ taken \in Nat /\ lo <= taken /\ taken <= Len(wire)
            /\ wire \in Seq(Tokens)
        BY <1>3, <1>5
      <3>2. LET s == SubSeq(wire, lo + 1, taken) IN {i \in DOMAIN s : s[i] = "nl"} = {}
        BY <2>1, <3>1, NoLine
      <3> QED
        BY <1>6, <3>2
    <2> QED
      BY <1>2, <1>4, <1>8, <2>2
  <1> QED
    BY <1>7, <1>8

\* A line is taken off and understood, and the blank one ends the header.
LEMMA PullLineKeeps ==
    ASSUME HttpInv, PullLine
    PROVE  HttpInv'
  <1> DEFINE buff == conn.buff_sofar
             nls  == {i \in DOMAIN buff : buff[i] = "nl"}
             line == SubSeq(buff, 1, First(nls))
             rest == SubSeq(buff, First(nls) + 1, Len(buff))
             b    == [conn EXCEPT !.buff_sofar = rest]
             c    == CollectHttpHeader(b, line)
  <1>1. /\ http' = http /\ sent' = sent /\ ends' = ends /\ part' = part /\ wire' = wire
        /\ taken' = taken /\ step = "line" /\ UNCHANGED wirevars
    BY DEF PullLine, wirevars
  <1>2. \/ nls = {} /\ Collected(conn)
        \/ nls # {} /\ ~c.done /\ conn' = c /\ UNCHANGED <<step, served, b_Shutdown>>
        \/ nls # {} /\ c.done /\ ~c.collecting /\ Collected(c)
        \/ nls # {} /\ c.done /\ c.collecting /\ Collected(CollectPostData(c, rest))
    BY DEF PullLine
  <1>3. PICK k \in 0 .. Len(sent) :
          /\ LinesPulled(k) /\ k \in Nat
          /\ nls = {} => ~(k < Len(sent) /\ ends[k + 1] <= taken)
          /\ nls # {} =>
                /\ k < Len(sent) /\ k + 1 \in 1 .. Len(sent) /\ ends[k + 1] <= taken
                /\ rest = SubSeq(wire, ends[k + 1] + 1, taken) /\ rest \in Seq(Tokens)
                /\ sent[k + 1] = "blank" <=> line \in EndsOfLine
                /\ sent[k + 1] # "blank" => line[1] = sent[k + 1]
    BY <1>1, NextLine
  <1>4. /\ sent \in Seq(Words) /\ Legal(sent) /\ Len(sent) \in Nat
        /\ taken \in Nat /\ taken <= Len(wire) /\ Len(ends) = Len(sent)
        /\ \A j \in 0 .. Len(sent) : Base(ends, j) \in Nat
        /\ \A j \in 0 .. Len(sent) : j < Len(sent) =>
                 ends[j + 1] \in Nat /\ Base(ends, j + 1) = ends[j + 1]
        /\ conn \in Connections
    BY HttpPeer
  <1>5. /\ served = <<>> /\ b_Shutdown = FALSE /\ conn.collecting = FALSE
        /\ conn.done = FALSE /\ conn.data = <<>>
    <2>1. InHeader
      BY <1>1 DEF HttpInv, HttpReader, InData, Answered
    <2>2. b_Shutdown = FALSE \/ b_Shutdown
      BY <2>1 DEF InHeader
    <2> QED
      BY <1>4, <2>1 DEF InHeader, Connections
  <1>6. PeerInv' /\ http' /\ taken' \in 0 .. Len(wire')
    BY <1>1, PeerUnchanged DEF HttpInv
  <1> HIDE DEF rest, line, nls, buff
  <1>7. CASE nls = {}
    <2>1. Collected(conn)
      BY <1>2, <1>7
    <2>2. /\ conn' = conn /\ served' = served /\ step' = "read"
          /\ b_Shutdown' = FALSE
      BY <1>5, <2>1 DEF Collected
    <2>3. k < Len(sent) => taken < ends[k + 1]
      BY <1>3, <1>4, <1>7
    <2>4. LinesPulled(k)'
      BY <1>1, <1>3, <2>2, <2>3 DEF LinesPulled
    <2>5. InHeader'
      BY <1>1, <1>5, <2>2, <2>4 DEF InHeader
    <2>6. HttpReader'
      BY <1>4, <2>2, <2>5 DEF HttpReader
    <2> QED
      BY <1>6, <2>6 DEF HttpInv
  <1>8. CASE nls # {}
    <2> DEFINE word == sent[k + 1]
               hi   == ends[k + 1]
    <2>1. /\ k \in Nat /\ k < Len(sent) /\ k + 1 \in 1 .. Len(sent) /\ hi <= taken
          /\ rest = SubSeq(wire, hi + 1, taken) /\ rest \in Seq(Tokens)
          /\ word = "blank" <=> line \in EndsOfLine
          /\ word # "blank" => line[1] = word
          /\ hi \in Nat /\ Base(ends, k + 1) = hi
      BY <1>3, <1>4, <1>8
    <2>2. /\ b \in Connections /\ b.buff_sofar = rest /\ b.done = FALSE
          /\ b.collecting = FALSE /\ b.data = <<>>
          /\ b.request_type = conn.request_type /\ b.websocket = conn.websocket
          /\ b.content_length = conn.content_length
      <3>1. /\ b \in Connections /\ b.buff_sofar = rest /\ b.done = conn.done
            /\ b.collecting = conn.collecting /\ b.data = conn.data
            /\ b.request_type = conn.request_type /\ b.websocket = conn.websocket
            /\ b.content_length = conn.content_length
        BY <1>4, <2>1 DEF Connections
      <3> QED
        BY <1>5, <3>1
    <2> HIDE DEF b
    <2>3. Fields(b, sent, k)
      BY <1>3, <2>2 DEF LinesPulled, Fields
    <2>4. /\ c \in Connections /\ Fields(c, sent, k + 1)
          /\ c.buff_sofar = b.buff_sofar
          /\ word # "blank" =>
                c.done = b.done /\ c.collecting = b.collecting /\ c.data = b.data
          /\ word = "blank" =>
                /\ c.done
                /\ b.request_type = "POST" /\ b.content_length > 0 =>
                      c.collecting /\ c.data = <<>>
                /\ ~(b.request_type = "POST" /\ b.content_length > 0) =>
                      c.collecting = b.collecting /\ c.data = b.data
                /\ c.request_type = b.request_type /\ c.websocket = b.websocket
                /\ c.content_length = b.content_length
      <3>1. /\ sent \in Seq(Words) /\ Legal(sent) /\ b \in Connections
            /\ k \in Nat /\ k + 1 \in 1 .. Len(sent) /\ Fields(b, sent, k)
            /\ sent[k + 1] = "blank" <=> line \in EndsOfLine
            /\ sent[k + 1] # "blank" => line[1] = sent[k + 1]
        BY <1>4, <2>1, <2>2, <2>3
      <3> QED
        BY <3>1, FieldsNext
    <2> HIDE DEF c, word, hi
    <2>5. CASE word # "blank"
      <3>1. /\ c.done = FALSE /\ c.collecting = FALSE /\ c.data = <<>> /\ c.buff_sofar = rest
        BY <2>2, <2>4, <2>5
      <3>2. conn' = c /\ step' = step /\ served' = served /\ b_Shutdown' = b_Shutdown
        BY <1>2, <1>8, <3>1
      <3>3. LinesPulled(k + 1)'
        <4>1. k + 1 > 0 => sent[k + 1] # "blank"
          BY <2>5 DEF word
        <4> QED
          BY <1>1, <2>1, <2>4, <3>1, <3>2, <4>1 DEF LinesPulled
      <3>4. k + 1 \in 0 .. Len(sent)
        BY <2>1
      <3>5. InHeader'
        BY <1>1, <1>5, <3>1, <3>2, <3>3, <3>4 DEF InHeader
      <3>6. HttpReader'
        BY <1>1, <2>4, <3>2, <3>5 DEF HttpReader
      <3> QED
        BY <1>6, <3>6 DEF HttpInv
    <2>6. CASE word = "blank"
      <3>1. k + 1 = Len(sent)
        BY <1>4, <2>1, <2>6 DEF Legal, word
      <3>2. HeaderSent /\ Base(ends, Len(ends)) = hi /\ Len(sent) > 0
        <4>1. sent # <<>>
          BY <1>4, <2>1
        <4> QED
          BY <1>4, <2>1, <2>6, <3>1, <4>1 DEF HeaderSent, word
      <3>3. Fields(c, sent, Len(sent))
        BY <2>4, <3>1
      <3>4. sent[1] = "POST" <=> c.request_type = "POST"
        BY <3>2, <3>3 DEF Fields
      <3>5. c.content_length = Declared(sent)
        BY <1>4, <3>3, FieldsDeclare
      <3>6. Declared(sent) \in Nat
        BY <1>4, DeclaredType
      <3>7. c.done
        BY <2>4, <2>6
      <3>8. CASE b.request_type = "POST" /\ b.content_length > 0
        <4>1. c.collecting /\ c.data = <<>> /\ c.request_type = "POST"
          BY <2>4, <2>6, <3>8
        <4>2. Collected(CollectPostData(c, rest))
          BY <1>2, <1>8, <3>7, <4>1
        <4>3. c.data \o rest = SubSeq(wire, Base(ends, Len(ends)) + 1, taken')
          <5>1. <<>> \o rest = rest
            BY <2>1
          <5> QED
            BY <1>1, <2>1, <3>2, <4>1, <5>1
        <4>4. /\ taken' \in Nat /\ taken' <= Len(wire) /\ Base(ends, Len(ends)) <= taken'
              /\ sent[1] = "POST"
          BY <1>1, <1>4, <2>1, <3>2, <3>4, <4>1
        <4>5. HttpReader'
          BY <1>1, <1>5, <2>1, <2>4, <3>2, <3>3, <4>1, <4>2, <4>3, <4>4, CollectsData
        <4> QED
          BY <1>6, <4>5 DEF HttpInv
      <3>9. CASE ~(b.request_type = "POST" /\ b.content_length > 0)
        <4>1. c.collecting = FALSE
          BY <2>2, <2>4, <2>6, <3>9
        <4>2. Collected(c)
          BY <1>2, <1>8, <3>7, <4>1
        <4>3. ~(sent[1] = "POST" /\ Declared(sent) > 0)
          BY <2>4, <2>6, <3>4, <3>5, <3>9
        <4>4. Base(ends, Len(ends)) + (IF sent[1] = "POST" THEN Declared(sent) ELSE 0) <= taken'
          <5>1. (IF sent[1] = "POST" THEN Declared(sent) ELSE 0) = 0
            BY <3>6, <4>3
          <5> QED
            BY <1>1, <2>1, <3>2, <5>1
        <4>5. taken' \in Nat
          BY <1>1, <1>4
        <4>6. HttpReader'
          BY <1>1, <1>5, <2>4, <3>2, <3>3, <3>7, <4>2, <4>3, <4>4, <4>5, CollectedDone
        <4> QED
          BY <1>6, <4>6 DEF HttpInv
      <3> QED
        BY <3>8, <3>9
    <2> QED
      BY <2>5, <2>6
  <1> QED
    BY <1>7, <1>8

-----------------------------------------------------------------------------
(* The invariant *)

\* The inductive invariant.
StreamsInv ==
    /\ PeerInv /\ taken \in 0 .. Len(wire)
    /\ http => HttpReader
    /\ ~http => SlipReader

\* A peer that has sent nothing, and a connection that Add has cleared.
NewPeer ==
    /\ sent = <<>> /\ ends = <<>> /\ part = <<>> /\ wire = <<>>
    /\ taken = 0 /\ served = <<>>
    /\ conn = AddedConnection /\ pi_RecvMem = <<>> /\ b_Shutdown = FALSE
    /\ step = "read" /\ http \in BOOLEAN /\ (~http => m_oscmsg \in Seq(Tokens))

\* The invariant holds of them, at first and whenever another peer comes.
LEMMA NewPeerInv == NewPeer => StreamsInv
  <1> SUFFICES ASSUME NewPeer
               PROVE  StreamsInv
    OBVIOUS
  <1>1. /\ sent = <<>> /\ ends = <<>> /\ part = <<>> /\ wire = <<>>
        /\ taken = 0 /\ served = <<>> /\ pi_RecvMem = <<>> /\ step = "read"
        /\ conn = AddedConnection /\ b_Shutdown = FALSE
    BY DEF NewPeer
  <1>2. Len(<<>>) = 0 /\ Base(<<>>, 0) = 0 /\ Len(wire) = 0 /\ Len(ends) = 0
        /\ Len(sent) = 0 /\ Len(part) = 0 /\ Len(served) = 0 /\ Base(ends, 0) = 0
    BY <1>1 DEF Base
  <1>3. PeerTypes
    BY <1>1 DEF PeerTypes, NewPeer
  <1>4. Rise(ends, Len(wire))
    <2>1. \A j, k \in 0 .. 0 : ~(j < k)
      OBVIOUS
    <2> QED
      BY <1>2, <2>1 DEF Rise
  <1>5. Legal(sent)
    BY <1>2 DEF Legal
  <1>6. RequestOnWire(wire, ends, sent, part)
    BY <1>1, <1>2, <1>5 DEF RequestOnWire
  <1>7. MessagesOnWire(wire, ends, sent, part)
    BY <1>1, <1>2 DEF MessagesOnWire
  <1>8. PeerInv
    BY <1>3, <1>4, <1>6, <1>7 DEF PeerInv
  <1>9. SubSeq(wire, Base(ends, 0) + 1, taken) = <<>>
    <2>1. wire \in Seq(Tokens) /\ 0 <= Len(wire)
      BY <1>1, <1>2
    <2>2. SubSeq(wire, 0 + 1, 0) \in Seq(Tokens) /\ Len(SubSeq(wire, 0 + 1, 0)) = 0 - 0
      BY <2>1, SliceOf
    <2>3. SubSeq(wire, 0 + 1, 0) = <<>>
      BY <2>2, EmptySeq
    <2> QED
      BY <1>1, <1>2, <2>3
  <1>10. MessagesTaken
    BY <1>1, <1>2, <1>9 DEF MessagesTaken
  <1>11. Unescaping
    BY <1>1 DEF Unescaping
  <1>12. ~http => SlipReader
    BY <1>1, <1>10, <1>11 DEF SlipReader, NewPeer
  <1>13. /\ conn \in Connections /\ conn.buff_sofar = <<>> /\ ~conn.collecting /\ ~conn.done
         /\ conn.data = <<>> /\ conn.content_length = 0 /\ conn.request_type = "none"
         /\ conn.websocket = FALSE
    BY <1>1 DEF AddedConnection, Connections
  <1>14. Fields(conn, sent, 0)
    <2>1. ~(\E i \in 1 .. 0 : sent[i] = "upgrade")
      OBVIOUS
    <2>2. \A i \in 1 .. 0 : sent[i] \notin DOMAIN Lengths
      OBVIOUS
    <2>3. conn.websocket = \E i \in 1 .. 0 : sent[i] = "upgrade"
      BY <1>13, <2>1
    <2> QED
      BY <1>13, <2>2, <2>3 DEF Fields
  <1>15. LinesPulled(0)
    BY <1>1, <1>2, <1>9, <1>13, <1>14 DEF LinesPulled
  <1>16. InHeader
    BY <1>1, <1>2, <1>13, <1>15 DEF InHeader
  <1>17. HttpReader
    BY <1>1, <1>13, <1>16 DEF HttpReader
  <1>18. taken \in 0 .. Len(wire)
    BY <1>1, <1>2
  <1> QED
    BY <1>8, <1>12, <1>17, <1>18 DEF StreamsInv

LEMMA NextPeerKeeps == StreamsInv /\ NextPeer => StreamsInv'
  <1>1. StreamsInv /\ NextPeer => NewPeer'
    BY DEF StreamsInv, PeerInv, PeerTypes, SlipReader, NextPeer, NewPeer, slipvars
  <1> QED
    BY <1>1, NewPeerInv, PTL

\* It holds initially, ...
LEMMA StreamsInvInit == StreamsInit => StreamsInv
  <1>1. StreamsInit => NewPeer
    BY DEF StreamsInit, NewPeer
  <1> QED
    BY <1>1, NewPeerInv

\* The thread has a step for each protocol, and the other ones are not enabled.
LEMMA HttpStep ==
    ASSUME StreamsInv, http, StreamsNext, ~NextPeer
    PROVE  StreamsInv'
  <1>1. HttpInv
    BY DEF StreamsInv, HttpInv
  <1>2. step \in {"read", "line"}
    BY <1>1 DEF HttpInv, HttpReader
  <1>3. HttpInv'
    <2>1. CASE Send
      BY <1>1, <2>1, HttpSendKeeps
    <2>2. CASE HttpRead
      BY <1>1, <2>2, HttpReadKeeps
    <2>3. CASE PullLine
      BY <1>1, <2>3, PullLineKeeps
    <2>4. ~OscRead /\ ~ProcessOneOscMessage /\ ~Unescape /\ ~ProcessReceivedPacket
      BY <1>2 DEF OscRead, ProcessOneOscMessage, Unescape, ProcessReceivedPacket
    <2> QED
      BY <2>1, <2>2, <2>3, <2>4 DEF StreamsNext
  <1> QED
    BY <1>3 DEF HttpInv, StreamsInv

LEMMA SlipStep ==
    ASSUME StreamsInv, ~http, StreamsNext, ~NextPeer
    PROVE  StreamsInv'
  <1>1. SlipInv
    BY DEF StreamsInv, SlipInv
  <1>2. step \in {"read", "slip", "unescape"}
    BY <1>1 DEF SlipInv, SlipReader
  <1>3. SlipInv'
    <2>1. CASE Send
      BY <1>1, <2>1, SlipSendKeeps
    <2>2. CASE OscRead
      BY <1>1, <2>2, OscReadKeeps
    <2>3. CASE ProcessOneOscMessage
      BY <1>1, <2>3, ProcessOneOscMessageKeeps
    <2>4. CASE Unescape
      BY <1>1, <2>4, UnescapeKeeps
    <2>5. CASE ProcessReceivedPacket
      BY <1>1, <2>5, ProcessReceivedPacketKeeps
    <2>6. ~HttpRead /\ ~PullLine
      BY <1>2 DEF HttpRead, PullLine
    <2> QED
      BY <2>1, <2>2, <2>3, <2>4, <2>5, <2>6 DEF StreamsNext
  <1> QED
    BY <1>3 DEF SlipInv, StreamsInv

\* ... and every step keeps it.
LEMMA StreamsInvStep == StreamsInv /\ [StreamsNext]_streamvars => StreamsInv'
  <1> SUFFICES ASSUME StreamsInv, [StreamsNext]_streamvars
               PROVE  StreamsInv'
    OBVIOUS
  <1>1. CASE NextPeer
    BY <1>1, NextPeerKeeps
  <1>2. CASE StreamsNext /\ ~NextPeer
    BY <1>2, HttpStep, SlipStep
  <1>3. CASE UNCHANGED streamvars
    BY <1>3 DEF streamvars, wirevars, slipvars, StreamsInv, PeerInv, PeerTypes, HttpReader,
       InHeader, InData, Answered, LinesPulled, HeaderSent, SlipReader, MessagesTaken, Unescaping
  <1> QED
    BY <1>1, <1>2, <1>3 DEF StreamsNext

LEMMA StreamsInvariant == StreamsSpec => []StreamsInv
  BY StreamsInvInit, StreamsInvStep, PTL DEF StreamsSpec

-----------------------------------------------------------------------------
(* The theorems *)

\* Of OSC: the messages processed are the first ones, and all whose last byte was read.
LEMMA InvMessagesWhole == StreamsInv => MessagesWhole
  <1> SUFFICES ASSUME StreamsInv, ~http
               PROVE  /\ Seqs!IsPrefix(served, sent)
                      /\ \A k \in DOMAIN sent :
                            /\ k <= Len(served) => ends[k] <= taken
                            /\ step = "read" /\ ends[k] <= taken => k <= Len(served)
    BY DEF MessagesWhole
  <1> DEFINE n == Len(served)
  <1>1. SlipInv
    BY DEF StreamsInv, SlipInv
  <1>2. /\ n \in Nat /\ Len(sent) \in Nat /\ Len(ends) = Len(sent) /\ n <= Len(sent)
        /\ Base(ends, n) \in Nat /\ Base(ends, n) <= taken /\ taken \in Nat
        /\ Len(wire) \in Nat
    BY <1>1, SlipBuffer
  <1>3. /\ sent \in Seq(Seq(Tokens)) /\ served \in Seq(Seq(Tokens)) /\ ends \in Seq(Nat)
        /\ Rise(ends, Len(wire))
        /\ \A i \in 1 .. n : served[i] = sent[i]
        /\ step = "read" /\ n < Len(sent) => taken < ends[n + 1]
    BY <1>1 DEF SlipInv, PeerInv, PeerTypes, SlipReader, MessagesTaken
  <1>4. DOMAIN sent = 1 .. Len(sent)
    BY <1>3, LenProperties
  <1>5. /\ \A k \in 1 .. Len(ends) : Base(ends, k) = ends[k]
        /\ \A j, k \in 0 .. Len(ends) : j <= k => Base(ends, j) <= Base(ends, k)
        /\ \A k \in 0 .. Len(ends) : Base(ends, k) \in 0 .. Len(wire)
    BY <1>2, <1>3, BaseProperties
  <1> HIDE DEF n
  <1>6. ASSUME NEW k \in 1 .. Len(sent), k <= n
        PROVE  ends[k] <= taken
    <2>1. k \in 1 .. Len(ends) /\ k \in 0 .. Len(ends) /\ n \in 0 .. Len(ends)
      BY <1>2
    <2>2. /\ Base(ends, k) = ends[k] /\ Base(ends, k) <= Base(ends, n)
          /\ Base(ends, k) \in 0 .. Len(wire)
      BY <1>5, <1>6, <2>1
    <2> QED
      BY <1>2, <2>2
  <1>7. ASSUME NEW k \in 1 .. Len(sent), step = "read", ends[k] <= taken, ~(k <= n)
        PROVE  FALSE
    <2>1. /\ k \in 1 .. Len(ends) /\ k \in 0 .. Len(ends) /\ n + 1 \in 0 .. Len(ends)
          /\ n + 1 \in 1 .. Len(ends) /\ n + 1 <= k /\ n < Len(sent)
      BY <1>2, <1>7
    <2>2. /\ Base(ends, k) = ends[k] /\ Base(ends, n + 1) <= Base(ends, k)
          /\ Base(ends, n + 1) = ends[n + 1] /\ Base(ends, k) \in 0 .. Len(wire)
          /\ Base(ends, n + 1) \in 0 .. Len(wire)
      BY <1>5, <2>1
    <2>3. taken < ends[n + 1]
      BY <1>3, <1>7, <2>1
    <2> QED
      BY <1>2, <1>7, <2>2, <2>3
  <1>8. Seqs!IsPrefix(served, sent)
    <2>1. /\ SubSeq(served, 0 + 1, n) \in Seq(Seq(Tokens)) /\ Len(SubSeq(served, 0 + 1, n)) = n - 0
          /\ \A i \in 1 .. n - 0 : SubSeq(served, 0 + 1, n)[i] = served[0 + i]
      BY <1>2, <1>3, SliceOf DEF n
    <2>2. /\ SubSeq(sent, 0 + 1, n) \in Seq(Seq(Tokens)) /\ Len(SubSeq(sent, 0 + 1, n)) = n - 0
          /\ \A i \in 1 .. n - 0 : SubSeq(sent, 0 + 1, n)[i] = sent[0 + i]
      BY <1>2, <1>3, SliceOf
    <2>3. n - 0 = n /\ 0 + 1 = 1 /\ \A i \in 1 .. n : 0 + i = i
      BY <1>2
    <2>4. SubSeq(served, 1, n) = SubSeq(sent, 1, n)
      BY <1>3, <2>1, <2>2, <2>3, SeqEqual
    <2> QED
      BY <1>2, <2>4 DEF Seqs!IsPrefix, n
  <1> QED
    BY <1>4, <1>6, <1>7, <1>8 DEF n

\* Every OSC message is processed once, in order and with its bytes, in whatever pieces
\* the stream comes, for messages of any number, length and bytes (ProcessBytes,
\* SlipBoundaries, ProcessOneOscMessage).
THEOREM StreamsMessagesWhole == StreamsSpec => []MessagesWhole
  BY StreamsInvariant, InvMessagesWhole, PTL

\* Of HTTP: in the header and in the data the request is not complete, and what was
\* answered is the request.
LEMMA InvRequestsWhole == StreamsInv => RequestsWhole
  <1> SUFFICES ASSUME StreamsInv, http
               PROVE  /\ step = "read" /\ Complete => served # <<>>
                      /\ served # <<>> =>
                            /\ Complete /\ Len(served) = 1
                            /\ served[1].type = IF sent[1] = "PUT" THEN "none" ELSE sent[1]
                            /\ served[1].websocket = \E i \in DOMAIN sent : sent[i] = "upgrade"
                            /\ sent[1] = "POST" =>
                                  Seqs!IsPrefix(SubSeq(part, 1, Declared(sent)), served[1].data)
    BY DEF RequestsWhole
  <1> DEFINE lo == Base(ends, Len(ends))
             D  == Declared(sent)
  <1>1. HttpInv
    BY DEF StreamsInv, HttpInv
  <1>2. /\ sent \in Seq(Words) /\ ends \in Seq(Nat) /\ Len(ends) = Len(sent)
        /\ Len(sent) \in Nat /\ DOMAIN sent = 1 .. Len(sent)
        /\ part \in Seq(Tokens) /\ Len(part) \in Nat
        /\ wire \in Seq(Tokens) /\ Len(wire) \in Nat
        /\ taken \in Nat /\ taken <= Len(wire)
        /\ RequestOnWire(wire, ends, sent, part) /\ Legal(sent)
        /\ \A k \in 0 .. Len(sent) : Base(ends, k) \in Nat
        /\ \A k \in 0 .. Len(sent) : k < Len(sent) =>
              ends[k + 1] \in Nat /\ ends[k + 1] <= Base(ends, Len(ends))
    BY <1>1, HttpPeer
  <1>3. lo \in Nat /\ D \in Nat /\ LastEnd = lo
    BY <1>2, DeclaredType, LastEndIsBase
  <1>4. Complete <=> /\ HeaderSent
                     /\ lo + (IF sent[1] = "POST" THEN D ELSE 0) <= taken
    <2>1. (IF sent[1] = "POST" THEN D ELSE 0) \in Nat
      BY <1>3
    <2> DEFINE x == IF sent[1] = "POST" THEN D ELSE 0
    <2>2. Complete <=> HeaderSent /\ taken >= lo + x
      BY <1>3 DEF Complete
    <2> HIDE DEF x, lo
    <2>3. taken >= lo + x <=> lo + x <= taken
      BY <1>2, <1>3, <2>1 DEF x
    <2> QED
      BY <2>2, <2>3 DEF x
  <1>5. (Complete => lo <= taken) /\ (Complete /\ sent[1] = "POST" => lo + D <= taken)
    <2> HIDE DEF lo, D
    <2> QED
      BY <1>2, <1>3, <1>4
  <1>6. CASE InHeader
    <2>1. served = <<>>
      BY <1>6 DEF InHeader
    <2>2. ASSUME step = "read", Complete
          PROVE  FALSE
      <3>1. PICK k \in 0 .. Len(sent) : LinesPulled(k)
        BY <1>6 DEF InHeader
      <3>2. HeaderSent /\ lo <= taken
        BY <1>4, <1>5, <2>2
      <3>3. CASE k < Len(sent)
        <4>1. taken < ends[k + 1]
          BY <2>2, <3>1, <3>3 DEF LinesPulled
        <4>2. ends[k + 1] \in Nat /\ ends[k + 1] <= lo
          BY <1>2, <3>3
        <4> HIDE DEF lo
        <4> QED
          BY <1>2, <1>3, <3>2, <4>1, <4>2
      <3>4. CASE k = Len(sent)
        <4>1. k > 0
          BY <1>2, <3>2, <3>4, EmptySeq DEF HeaderSent
        <4> QED
          BY <3>1, <3>2, <3>4, <4>1 DEF LinesPulled, HeaderSent
      <3> QED
        BY <1>2, <3>3, <3>4
    <2> QED
      BY <2>1, <2>2
  <1>7. CASE InData
    <2>1. served = <<>> /\ sent[1] = "POST" /\ taken < lo + D
      BY <1>7 DEF InData
    <2>2. ~Complete
      <3> HIDE DEF lo, D
      <3> QED
        BY <1>2, <1>3, <1>5, <2>1
    <2> QED
      BY <2>1, <2>2
  <1>8. CASE Answered
    <2>1. Complete /\ Len(served) = 1 /\ served # <<>>
      <3>1. Len(served) = 1
        BY <1>8 DEF Answered
      <3>2. served # <<>>
        BY <3>1
      <3>3. HeaderSent /\ lo + (IF sent[1] = "POST" THEN D ELSE 0) <= taken
        BY <1>8 DEF Answered
      <3> HIDE DEF lo, D
      <3> QED
        BY <1>4, <3>1, <3>2, <3>3
    <2>2. /\ served[1].type = IF sent[1] = "PUT" THEN "none" ELSE sent[1]
          /\ served[1].websocket = \E i \in DOMAIN sent : sent[i] = "upgrade"
          /\ served[1].data \in Seq(Tokens)
      BY <1>2, <1>8 DEF Answered
    <2>3. ASSUME sent[1] = "POST"
          PROVE  Seqs!IsPrefix(SubSeq(part, 1, D), served[1].data)
      <3> DEFINE data == served[1].data
                 s    == SubSeq(part, 1, D)
      <3>1. /\ Len(wire) = lo + Len(part)
            /\ \A i \in 1 .. Len(part) : wire[lo + i] = part[i]
        BY <1>2 DEF RequestOnWire
      <3>2. lo + D <= taken
        BY <1>5, <2>1, <2>3
      <3> HIDE DEF lo, D
      <3>3. D <= Len(part)
        BY <1>2, <1>3, <3>1, <3>2
      <3>4. /\ s \in Seq(Tokens) /\ Len(s) = D /\ \A i \in 1 .. D : s[i] = part[i]
        <4>1. /\ SubSeq(part, 0 + 1, D) \in Seq(Tokens) /\ Len(SubSeq(part, 0 + 1, D)) = D - 0
              /\ \A i \in 1 .. D - 0 : SubSeq(part, 0 + 1, D)[i] = part[0 + i]
          BY <1>2, <1>3, <3>3, SliceOf
        <4>2. D - 0 = D /\ 0 + 1 = 1 /\ \A i \in 1 .. D : 0 + i = i
          BY <1>3
        <4> QED
          BY <4>1, <4>2
      <3>5. data \in Seq(Tokens) /\ Len(data) \in Nat
        BY <2>2, LenProperties
      <3>6. D <= Len(data) /\ \A i \in 1 .. D : data[i] = s[i]
        <4>1. CASE D = 0
          BY <3>5, <4>1
        <4>2. CASE D > 0
          <5>1. PICK t \in lo + D .. taken : data = SubSeq(wire, lo + 1, t)
            BY <1>8, <2>3, <4>2 DEF Answered, lo, D
          <5>2. t \in Nat /\ lo <= t /\ t <= Len(wire) /\ D <= t - lo
            BY <1>2, <1>3, <5>1
          <5>3. /\ Len(SubSeq(wire, lo + 1, t)) = t - lo
                /\ \A i \in 1 .. t - lo : SubSeq(wire, lo + 1, t)[i] = wire[lo + i]
            BY <1>2, <1>3, <5>2, SliceOf
          <5>4. \A i \in 1 .. D : i \in 1 .. t - lo /\ i \in 1 .. Len(part)
            BY <1>2, <1>3, <3>3, <5>2
          <5> HIDE DEF s, data
          <5> QED
            BY <3>1, <3>4, <5>1, <5>2, <5>3, <5>4
        <4> QED
          BY <1>3, <4>1, <4>2
      <3> HIDE DEF s, data
      <3>7. SubSeq(s, 1, D) = SubSeq(data, 1, D)
        <4>1. /\ SubSeq(s, 0 + 1, D) \in Seq(Tokens) /\ Len(SubSeq(s, 0 + 1, D)) = D - 0
              /\ \A i \in 1 .. D - 0 : SubSeq(s, 0 + 1, D)[i] = s[0 + i]
          BY <1>3, <3>4, SliceOf
        <4>2. /\ SubSeq(data, 0 + 1, D) \in Seq(Tokens) /\ Len(SubSeq(data, 0 + 1, D)) = D - 0
              /\ \A i \in 1 .. D - 0 : SubSeq(data, 0 + 1, D)[i] = data[0 + i]
          BY <1>3, <3>5, <3>6, SliceOf
        <4>3. D - 0 = D /\ 0 + 1 = 1 /\ \A i \in 1 .. D : 0 + i = i
          BY <1>3
        <4> QED
          BY <3>6, <4>1, <4>2, <4>3, SeqEqual
      <3>8. Seqs!IsPrefix(s, data)
        BY <3>4, <3>6, <3>7 DEF Seqs!IsPrefix
      <3> QED
        BY <3>8 DEF s, data, D
    <2> QED
      BY <2>1, <2>2, <2>3
  <1> QED
    BY <1>1, <1>6, <1>7, <1>8 DEF HttpInv, HttpReader

\* A request is answered once, when it is complete and no sooner, and as it was sent, in
\* whatever pieces it comes, for headers and data of any length (VizHttpServer::Check,
\* CollectHttpRequest).
THEOREM StreamsRequestsWhole == StreamsSpec => []RequestsWhole
  BY StreamsInvariant, InvRequestsWhole, PTL
=============================================================================
