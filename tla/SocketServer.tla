---------------------------- MODULE SocketServer ----------------------------
(***************************************************************************)
(* VizSocket as VizHttpServer uses it, on the network thread: a list of    *)
(* sockets with a limit, of which the first listens; a wait for the next   *)
(* socket that has an event, in turn; messages that are sent in pieces,    *)
(* with a buffer for what the system would not take; and the peers, which  *)
(* call, write, read, or go away at any time.  Left out: system calls that *)
(* fail for lack of resources, and h_ExitTimer (event 0), which is set by  *)
(* SendTo: when its turn comes, the next search begins behind it, at 1.    *)
(***************************************************************************)
EXTENDS Naturals, Sequences

CONSTANTS
    Handles,        \* socket handles; a closed one may be given again
    Listener,       \* the handle of the listening socket
    MaxSockets,     \* WSA_MAXIMUM_WAIT_EVENTS - 1
    MaxPieces       \* bound: a message goes out in at most so many pieces

ASSUME SocketsAssumption ==
    /\ Listener \notin Handles
    /\ MaxSockets \in Nat \ {0}
    /\ MaxPieces \in Nat \ {0}

VARIABLES
    list,           \* mk_Data[0 .. mu32_Count - 1], the listening socket first
    connected,      \* E_Connected in me_State
    wait_index,     \* mu32_WaitIndex, into mh_Events: 0 is the timer, i is list[i]
    pc,             \* where the network thread is
    open,           \* sockets the program has and must close
    calling,        \* a peer is calling: FD_ACCEPT is recorded
    record,         \* the network events recorded for a socket
    gone,           \* the peer has closed its side
    blocked,        \* the system takes no more, and has not yet said FD_WRITE
    expects,        \* pieces of the last message that are still to come to the peer
    torn            \* the peer got pieces of two messages mixed

listvars  == <<list, connected>>
peervars  == <<open, calling, record, gone, blocked, expects, torn>>
vars      == <<listvars, wait_index, pc, peervars>>

Connection == [sock : Handles \cup {Listener}, closed : BOOLEAN, shutdown : BOOLEAN,
               rest : 0 .. MaxPieces]     \* pieces in s8_SendBuf

NewConnection(h) == [sock |-> h, closed |-> FALSE, shutdown |-> FALSE, rest |-> 0]

SocketsInit ==
    /\ list = <<NewConnection(Listener)>> /\ connected = FALSE
    /\ wait_index = 0
    /\ pc = "loop"
    /\ open = {Listener} /\ calling = FALSE
    /\ record = [h \in Handles |-> {}]
    /\ gone = [h \in Handles |-> FALSE]
    /\ blocked = [h \in Handles |-> FALSE]
    /\ expects = [h \in Handles |-> 0]
    /\ torn = [h \in Handles |-> FALSE]

-----------------------------------------------------------------------------
(* cList *)

\* The last one closes the gap.
Fill(i) == [k \in 1 .. Len(list) - 1 |-> IF k = i THEN list[Len(list)] ELSE list[k]]

\* closesocket: the program has the handle no more, and the system forgets the peer.
Close(h) ==
    /\ open' = open \ {h}
    /\ record' = [record EXCEPT ![h] = {}]
    /\ gone' = [gone EXCEPT ![h] = FALSE]
    /\ blocked' = [blocked EXCEPT ![h] = FALSE]
    /\ expects' = [expects EXCEPT ![h] = 0]
    /\ torn' = [torn EXCEPT ![h] = FALSE]

\* Mutant of Remove: the last one is dropped.
Remove_LastDropped(i) ==
    /\ Close(list[i].sock)
    /\ list' = [k \in 1 .. Len(list) - 1 |-> list[k]]
    /\ connected' = (connected /\ Len(list) > 2)

\* Mutant of Remove: the state is forgotten.
Remove_StillConnected(i) ==
    /\ Close(list[i].sock)
    /\ list' = Fill(i)
    /\ UNCHANGED connected

\* The last one moves into the gap, and the state is set again.
Remove(i) ==
    /\ Close(list[i].sock)
    /\ list' = Fill(i)
    /\ connected' = (connected /\ Len(list) > 2)

-----------------------------------------------------------------------------
(* ProcessEvents: up to the wait *)

\* RemoveClosed, from the end.
RemoveClosed ==
    /\ pc = "loop"
    /\ \E i \in 2 .. Len(list) :
          /\ list[i].closed /\ \A k \in i + 1 .. Len(list) : ~ list[k].closed
          /\ Remove(i)
    /\ UNCHANGED <<wait_index, pc, calling>>

Signaled(i) ==
    \/ i = 1 /\ calling
    \/ i \in 2 .. Len(list) /\ record[list[i].sock] # {}

\* Mutant of Turn: the search begins at the first event each time.
Turn_AtFirst(i) == i

\* Where event i comes in the search, which begins after wait_index and goes around.
Turn(i) == IF i > wait_index THEN i ELSE i + Len(list) + 1

\* WSAWaitForMultipleEventsEx takes the next event in turn (here in one step) ...
Wait ==
    /\ pc = "loop" /\ \A i \in 2 .. Len(list) : ~ list[i].closed
    /\ LET signaled == {i \in 1 .. Len(list) : Signaled(i)}
       IN  IF signaled # {}
           THEN \E i \in signaled : /\ \A k \in signaled : Turn(i) <= Turn(k)
                                    /\ wait_index' = i /\ pc' = "event"
           ELSE pc' = "wait" /\ wait_index' = IF wait_index > Len(list) THEN Len(list)
                                                                      ELSE wait_index
    /\ UNCHANGED <<listvars, peervars>>

\* ... and if there is none, waits for any, and takes the first, or until the timeout.
WakeUp ==
    /\ pc = "wait"
    /\ LET signaled == {i \in 1 .. Len(list) : Signaled(i)}
       IN  IF signaled # {}
           THEN \E i \in signaled : /\ \A k \in signaled : i <= k
                                    /\ wait_index' = i /\ pc' = "event"
           ELSE pc' = "loop" /\ UNCHANGED wait_index
    /\ UNCHANGED <<listvars, peervars>>

-----------------------------------------------------------------------------
(* SendTo *)

\* Mutant of CanSend: a rest that waits does not matter.
CanSend_WhilePending(c) == connected /\ ~ c.shutdown /\ ~ c.closed

\* It returns at once if nobody is connected, the socket was shut down or closed, or the
\* rest of another message still waits (WSA_IO_PENDING).
CanSend(c) == connected /\ ~ c.shutdown /\ ~ c.closed /\ c.rest = 0

\* The result is connection i; "after" is what else becomes of it.  A message of n
\* pieces: all are sent, or some and the rest is buffered (WSAEWOULDBLOCK), or some and
\* the rest is lost (an error, as the peer is gone).
SendTo(i, n, after) ==
    LET h == list[i].sock
    IN  IF CanSend(list[i])
        THEN \E sent \in 0 .. n : \E buffered \in {0, n - sent} :
                /\ sent < n /\ buffered = 0 => gone[h]
                /\ list' = [list EXCEPT ![i] = [after EXCEPT !.rest = buffered]]
                /\ IF gone[h] THEN UNCHANGED <<expects, torn>>
                   ELSE /\ expects' = [expects EXCEPT ![h] = n - sent]
                        /\ torn' = [torn EXCEPT ![h] = @ \/ (sent > 0 /\ expects[h] > 0)]
                /\ blocked' = [blocked EXCEPT ![h] = @ \/ buffered > 0]
        ELSE /\ list' = [list EXCEPT ![i] = after]
             /\ UNCHANGED <<expects, torn, blocked>>

-----------------------------------------------------------------------------
(* ProcessEvents: an event *)

\* Mutant of AcceptCondition: one too many.
AcceptCondition_OneMore == Len(list) <= MaxSockets

\* Of the 32-bit build; the other one has none.
AcceptCondition == Len(list) < MaxSockets

\* FD_ACCEPT: cList::Add at the end, or WSAECONNREFUSED.  A new socket can be written to.
Accept ==
    /\ pc = "event" /\ wait_index = 1
    /\ calling' = FALSE /\ pc' = "loop"
    /\ IF AcceptCondition
       THEN \E h \in Handles \ open :
               /\ open' = open \cup {h}
               /\ list' = Append(list, NewConnection(h))
               /\ record' = [record EXCEPT ![h] = {"write"}]
               /\ connected' = TRUE
       ELSE UNCHANGED <<open, listvars, record>>
    /\ UNCHANGED <<wait_index, gone, blocked, expects, torn>>

\* After a shutdown, all events but FD_CLOSE are dropped.
Events(i) == IF list[i].shutdown THEN record[list[i].sock] \cap {"close"}
                                 ELSE record[list[i].sock]

\* FD_READ or FD_WRITE ends in an error: the peer has reset the connection.  (It does so
\* between two events, and not between WSARecv and WSASend of one.)
ServeFails ==
    /\ pc = "event" /\ wait_index > 1
    /\ gone[list[wait_index].sock]
    /\ \/ "read" \in Events(wait_index)
       \/ Events(wait_index) \cap {"read", "write"} = {"write"} /\ list[wait_index].rest > 0
    /\ Remove(wait_index)
    /\ pc' = "loop"
    /\ UNCHANGED <<wait_index, calling>>

\* Mutant of SendRest: FD_WRITE does nothing.
SendRest_Not(i, closed) ==
    /\ list' = [list EXCEPT ![i].closed = closed]
    /\ UNCHANGED <<expects, blocked>>

\* FD_WRITE: there is room again, for a piece at least.
SendRest(i, closed) ==
    IF "write" \in Events(i) /\ list[i].rest > 0
    THEN \E sent \in 1 .. list[i].rest :
            /\ list' = [list EXCEPT ![i].rest = @ - sent, ![i].closed = closed]
            /\ expects' = [expects EXCEPT ![list[i].sock] = IF gone[list[i].sock] THEN 0
                                                           ELSE @ - sent]
            /\ blocked' = [blocked EXCEPT ![list[i].sock] = @ \/ sent < list[i].rest]
    ELSE /\ list' = [list EXCEPT ![i].closed = closed]
         /\ UNCHANGED <<expects, blocked>>

\* FD_READ, FD_WRITE and FD_CLOSE of a peer, all that were recorded.
Serve ==
    /\ pc = "event" /\ wait_index > 1
    /\ LET i == wait_index
       IN  /\ record' = [record EXCEPT ![list[i].sock] = {}]
           /\ SendRest(i, list[i].closed \/ "close" \in Events(i))
           /\ pc' = IF "read" \in Events(i) THEN "check" ELSE "loop"
    /\ UNCHANGED <<connected, wait_index, open, calling, gone, torn>>

-----------------------------------------------------------------------------
(* VizHttpServer::Check, when data was read *)

\* CollectHttpRequest needs more.
Unfinished ==
    /\ pc = "check"
    /\ pc' = "loop"
    /\ UNCHANGED <<listvars, wait_index, peervars>>

\* RespondToGetOrPost, and DisconnectClient at once.
Respond ==
    /\ pc = "check"
    /\ \E n \in 1 .. MaxPieces :
          SendTo(wait_index, n, [list[wait_index] EXCEPT !.shutdown = TRUE])
    /\ pc' = "loop"
    /\ UNCHANGED <<connected, wait_index, open, calling, record, gone>>

\* InitializeWebSocket sends its response ...
Upgrade ==
    /\ pc = "check"
    /\ \E n \in 1 .. MaxPieces : SendTo(wait_index, n, list[wait_index])
    /\ pc' = "hello"
    /\ UNCHANGED <<connected, wait_index, open, calling, record, gone>>

\* ... and, by WebSocketMessage, a first frame.
Hello ==
    /\ pc = "hello"
    /\ \E n \in 1 .. MaxPieces : SendTo(wait_index, n, list[wait_index])
    /\ pc' = "loop"
    /\ UNCHANGED <<connected, wait_index, open, calling, record, gone>>

-----------------------------------------------------------------------------
(* The peers *)

Call ==
    /\ ~ calling /\ calling' = TRUE
    /\ UNCHANGED <<listvars, wait_index, pc, open, record, gone, blocked, expects, torn>>

PeerWrites(h) ==
    /\ h \in open /\ ~ gone[h] /\ "read" \notin record[h]
    /\ record' = [record EXCEPT ![h] = @ \cup {"read"}]
    /\ UNCHANGED <<listvars, wait_index, pc, open, calling, gone, blocked, expects, torn>>

PeerReads(h) ==
    /\ blocked[h]
    /\ blocked' = [blocked EXCEPT ![h] = FALSE]
    /\ record' = [record EXCEPT ![h] = @ \cup {"write"}]
    /\ UNCHANGED <<listvars, wait_index, pc, open, calling, gone, expects, torn>>

PeerGoes(h) ==
    /\ h \in open /\ ~ gone[h]
    /\ gone' = [gone EXCEPT ![h] = TRUE]
    /\ expects' = [expects EXCEPT ![h] = 0] /\ torn' = [torn EXCEPT ![h] = FALSE]
    /\ record' = [record EXCEPT ![h] = @ \cup {"close"}]
    /\ UNCHANGED <<listvars, wait_index, pc, open, calling, blocked>>

Peers == Call \/ \E h \in Handles : PeerWrites(h) \/ PeerReads(h) \/ PeerGoes(h)

ServerStep ==
    \/ RemoveClosed \/ Wait \/ WakeUp
    \/ Accept \/ ServeFails \/ Serve
    \/ Unfinished \/ Respond \/ Upgrade \/ Hello

SocketsNext == ServerStep \/ Peers

\* The network thread calls Check again and again; no peer has to do anything.
SocketsSpec == SocketsInit /\ [][SocketsNext]_vars /\ WF_vars(ServerStep)

-----------------------------------------------------------------------------
(* Properties *)

\* The types of the fields; the list does not outgrow its arrays.
SocketsTypeOK ==
    /\ list \in Seq(Connection) /\ Len(list) \in 1 .. MaxSockets
    /\ connected \in BOOLEAN /\ calling \in BOOLEAN
    /\ wait_index \in 0 .. MaxSockets
    /\ pc \in {"loop", "wait", "event", "check", "hello"}
    /\ open \subseteq Handles \cup {Listener}
    /\ record \in [Handles -> SUBSET {"read", "write", "close"}]
    /\ gone \in [Handles -> BOOLEAN] /\ blocked \in [Handles -> BOOLEAN]
    /\ expects \in [Handles -> 0 .. MaxPieces] /\ torn \in [Handles -> BOOLEAN]

\* cList keeps every open socket exactly once, "the following sockets Index=1,2,3...
\* may be connected to one client" each, and the listening one stays in front, though
\* removals move connections about.
EverySocketOnce ==
    /\ open = {list[i].sock : i \in 1 .. Len(list)}
    /\ \A i, k \in 1 .. Len(list) : list[i].sock = list[k].sock => i = k
    /\ list[1].sock = Listener

\* me_State, by which SendTo refuses, says that somebody is connected, just when
\* somebody is.
ConnectedIsTrue == connected <=> Len(list) > 1

\* A peer that stays gets whole messages one after the other: what was not sent is in
\* its connection's buffer, and nothing comes between.
WholeMessages ==
    \A i \in 2 .. Len(list) :
        LET h == list[i].sock
        IN  ~ gone[h] => ~ torn[h] /\ list[i].rest = expects[h]

\* A connection whose peer is gone is removed, whatever the other peers do: "every
\* client on a server has the same priority in being served".
GoneIsRemoved == \A h \in Handles : gone[h] ~> ~ gone[h]

\* "The remaining data is copied into a buffer and will be sent when FD_WRITE becomes
\* signaled", if the peer goes on reading, and unless the connection was shut down.
Waits(h) == \E i \in 2 .. Len(list) :
                list[i].sock = h /\ list[i].rest > 0 /\ ~ list[i].shutdown /\ ~ gone[h]

RestIsSent ==
    \A h \in Handles : []<>(~ blocked[h]) => (Waits(h) ~> ~ Waits(h))
=============================================================================
