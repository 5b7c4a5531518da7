------------------------------- MODULE Streams -------------------------------
(***************************************************************************)
(* The two protocols VizBench reads from byte streams on the network       *)
(* thread: requests over HTTP (VizHttpServer), and OSC messages in SLIP    *)
(* over TCP (VizOscTcpInput).  TCP keeps the bytes in order, but gives     *)
(* them in any pieces, while the peer goes on sending; a peer may go in    *)
(* the middle, and the next one gets its place in the list of sockets.  A  *)
(* stream is a sequence of tokens: bytes for SLIP, words and ends of lines *)
(* for HTTP.  The loops over what has arrived take one step for each line, *)
(* message or byte.  Left out: streams that break their protocol, and what *)
(* a web socket's client sends later.                                      *)
(*                                                                         *)
(* The reader of OSC is in the source but not in the program as it stands: *)
(* VizOscManager's constructor sets m_tcp to NULL, and the construction of *)
(* a VizOscTcpInput is commented out there (VizOscManager.cpp:17-18), so   *)
(* that OSC comes over UDP only.                                           *)
(***************************************************************************)
EXTENDS Naturals, Sequences

Seqs == INSTANCE SequencesExt

CONSTANTS
    Lengths,        \* the number a content-length header has, for each such header
    Data,           \* tokens of the data of a request
    Bytes,          \* bytes of OSC messages: "END", "ESC", "ESC2" and others
    MaxLines,       \* bounds: lines of a header,
    MaxMessages,    \*         OSC messages over one connection,
    MaxBytes        \*         bytes of one

ASSUME StreamsAssumption ==
    /\ Lengths \in [DOMAIN Lengths -> Nat]
    /\ DOMAIN Lengths \cap {"GET", "POST", "PUT", "host", "upgrade", "blank", "cr", "nl"} = {}
    /\ MaxLines \in Nat /\ MaxMessages \in Nat /\ MaxBytes \in Nat

VARIABLES
    http,           \* the peer has called the HTTP port, and not the one for OSC
    sent,           \* the lines or the messages it has sent
    ends,           \* where on the wire each of them ends
    part,           \* what it has sent behind them: data, or bytes of the next message
    wire,           \* all it has sent, as tokens
    taken,          \* so many of them were read
    conn,           \* the fields of its VizSocketConnection that HTTP has
    pi_RecvMem,     \* bytes OSC has not made use of yet
    b_Shutdown,     \* DisconnectClient was called
    served,         \* what the server answered or processed, oldest first
    step,           \* where the network thread is: at its wait, or in one of the loops
    pbegin, pend,   \* the message in pi_RecvMem,
    p,              \* where in it the thread is,
    m_oscmsg        \* and what it has made of it

wirevars   == <<http, sent, ends, part, wire>>
slipvars   == <<pbegin, pend, p, m_oscmsg>>
streamvars == <<wirevars, taken, conn, pi_RecvMem, b_Shutdown, served, step, slipvars>>

First(S) == CHOOSE i \in S : \A j \in S : i <= j

-----------------------------------------------------------------------------
(* A peer that calls the HTTP port *)

Words == {"GET", "POST", "PUT", "host", "upgrade", "blank"} \cup DOMAIN Lengths

HeaderSent == sent # <<>> /\ sent[Len(sent)] = "blank"

\* The length the lines say the data has.
Declared(lines) ==
    LET l == {i \in DOMAIN lines : lines[i] \in DOMAIN Lengths}
    IN  IF l = {} THEN 0 ELSE Lengths[lines[First(l)]]

\* What a request has: a line with its type, headers, and a blank line.
MayFollow(word) ==
    IF sent = <<>> THEN word \in {"GET", "POST", "PUT"}
    ELSE \/ word \in {"host", "blank"}
         \/ word = "upgrade" /\ sent[1] = "GET"
         \/ /\ word \in DOMAIN Lengths /\ sent[1] # "GET"
            /\ \A i \in DOMAIN sent : sent[i] \notin DOMAIN Lengths

EndsOfLine == {<<"nl">>, <<"cr", "nl">>}

Line(word, eol) == IF word = "blank" THEN eol ELSE <<word>> \o eol

SendLine ==
    /\ http /\ ~HeaderSent /\ Len(sent) < MaxLines
    /\ \E word \in Words, eol \in EndsOfLine :
          /\ MayFollow(word)
          /\ sent' = Append(sent, word)
          /\ wire' = wire \o Line(word, eol)
    /\ ends' = Append(ends, Len(wire'))
    /\ UNCHANGED <<http, part>>

SendData ==
    /\ http /\ HeaderSent /\ Len(part) < Declared(sent)
    /\ \E d \in Data : part' = Append(part, d) /\ wire' = Append(wire, d)
    /\ UNCHANGED <<http, sent, ends>>

\* An end of line behind the data of a POST, that belongs to nothing (some clients send it).
SendMore ==
    /\ http /\ HeaderSent /\ sent[1] = "POST" /\ Len(part) = Declared(sent) /\ part # <<>>
    /\ \E eol \in EndsOfLine : part' = part \o eol /\ wire' = wire \o eol
    /\ UNCHANGED <<http, sent, ends>>

-----------------------------------------------------------------------------
(* A peer that sends OSC: SendToSLIPServer *)

LastEnd == IF ends = <<>> THEN 0 ELSE ends[Len(ends)]

SlipByte(b) ==
    CASE b = "END" -> <<"ESC", "END">>
      [] b = "ESC" -> <<"ESC", "ESC2">>
      [] OTHER -> <<b>>

SlipBegin ==
    /\ ~http /\ Len(wire) = LastEnd /\ Len(sent) < MaxMessages
    /\ wire' = Append(wire, "END")
    /\ UNCHANGED <<http, sent, ends, part>>

SlipSend ==
    /\ ~http /\ Len(wire) > LastEnd /\ Len(part) < MaxBytes
    /\ \E b \in Bytes : part' = Append(part, b) /\ wire' = wire \o SlipByte(b)
    /\ UNCHANGED <<http, sent, ends>>

SlipEnd ==
    /\ ~http /\ part # <<>>
    /\ wire' = Append(wire, "END")
    /\ sent' = Append(sent, part) /\ part' = <<>>
    /\ ends' = Append(ends, Len(wire'))
    /\ UNCHANGED http

Send ==
    /\ SendLine \/ SendData \/ SendMore \/ SlipBegin \/ SlipSend \/ SlipEnd
    /\ UNCHANGED <<taken, conn, pi_RecvMem, b_Shutdown, served, step, slipvars>>

-----------------------------------------------------------------------------
(* HTTP: a connection's methods; "done" is what CollectHttpRequest returns *)

AddedConnection ==
    [buff_sofar |-> <<>>, collecting |-> FALSE, data |-> <<>>, content_length |-> 0,
     request_type |-> "none", websocket |-> FALSE, done |-> FALSE]

\* Mutant of CollectPostData: the data is what came last.
CollectPostData_Last(c, data) ==
    [c EXCEPT !.buff_sofar = <<>>, !.data = data,
              !.done = (Len(c.data \o data) >= c.content_length)]

\* The buffer is emptied behind it.
CollectPostData(c, data) ==
    [c EXCEPT !.buff_sofar = <<>>, !.data = @ \o data,
              !.done = (Len(c.data \o data) >= c.content_length)]

CollectHttpHeader(c, line) ==
    CASE line \in EndsOfLine ->
            IF c.request_type = "POST" /\ c.content_length > 0
            THEN [c EXCEPT !.done = TRUE, !.collecting = TRUE, !.data = <<>>]
            ELSE [c EXCEPT !.done = TRUE]
      [] line[1] \in {"GET", "POST"} -> [c EXCEPT !.request_type = line[1]]
      [] line[1] \in DOMAIN Lengths -> [c EXCEPT !.content_length = Lengths[line[1]]]
      [] line[1] = "upgrade" -> [c EXCEPT !.websocket = TRUE]
      [] OTHER -> c

\* CollectHttpRequest returns, and Check answers what is complete.
Collected(c) ==
    /\ conn' = c
    /\ served' = IF c.done
                 THEN Append(served, [type |-> c.request_type, data |-> c.data,
                                      websocket |-> c.websocket])
                 ELSE served
    /\ b_Shutdown' = (c.done /\ ~c.websocket)
    /\ step' = "read"

\* FD_READ: the next n tokens.
Arrived(n) == SubSeq(wire, taken + 1, taken + n)

HttpRead ==
    /\ step = "read" /\ http /\ ~b_Shutdown
    /\ \E n \in 1 .. Len(wire) - taken :
          LET sofar == conn.buff_sofar \o Arrived(n)
          IN  /\ taken' = taken + n
              /\ IF conn.collecting
                 THEN Collected(CollectPostData(conn, sofar))
                 ELSE /\ conn' = [conn EXCEPT !.buff_sofar = sofar, !.done = FALSE]
                      /\ step' = "line"
                      /\ UNCHANGED <<served, b_Shutdown>>
    /\ UNCHANGED <<wirevars, pi_RecvMem, slipvars>>

\* The loop of CollectHttpRequest that pulls lines off.
PullLine ==
    /\ step = "line"
    /\ LET buff == conn.buff_sofar
           nls  == {i \in DOMAIN buff : buff[i] = "nl"}
           line == SubSeq(buff, 1, First(nls))
           rest == SubSeq(buff, First(nls) + 1, Len(buff))
           c    == CollectHttpHeader([conn EXCEPT !.buff_sofar = rest], line)
       IN  \/ nls = {} /\ Collected(conn)
           \/ nls # {} /\ ~c.done /\ conn' = c /\ UNCHANGED <<step, served, b_Shutdown>>
           \/ nls # {} /\ c.done /\ ~c.collecting /\ Collected(c)
           \/ nls # {} /\ c.done /\ c.collecting /\ Collected(CollectPostData(c, rest))
    /\ UNCHANGED <<wirevars, taken, pi_RecvMem, slipvars>>

-----------------------------------------------------------------------------
(* OSC in SLIP, which nothing constructs (VizOscManager.cpp:17-18) *)

\* Mutant of Unescaped: the byte before is not looked at.
Unescaped_Any(s) == {i \in 2 .. Len(s) : s[i] = "END"}

\* The unescaped ENDs of s, the first byte of s not counted.
Unescaped(s) == {i \in 2 .. Len(s) : s[i] = "END" /\ s[i - 1] # "ESC"}

\* Where the first message of s begins and ends, or <<>>.
SlipBoundaries(s) ==
    LET marks == {i \in DOMAIN s : i = 1 /\ s[i] = "END"} \cup Unescaped(s)
        later == {i \in Unescaped(s) : i > First(marks)}
    IN  IF marks = {} \/ later = {} THEN <<>> ELSE <<First(marks), First(later)>>

OscRead ==
    /\ step = "read" /\ ~http
    /\ \E n \in 1 .. Len(wire) - taken :
          /\ pi_RecvMem' = pi_RecvMem \o Arrived(n)
          /\ taken' = taken + n
    /\ step' = "slip"
    /\ UNCHANGED <<wirevars, conn, b_Shutdown, served, slipvars>>

\* The loop of ProcessBytes: a message that is complete ...
ProcessOneOscMessage ==
    /\ step = "slip"
    /\ LET at == SlipBoundaries(pi_RecvMem)
       IN  IF at = <<>> THEN step' = "read" /\ UNCHANGED slipvars
           ELSE /\ pbegin' = at[1] /\ pend' = at[2] /\ p' = at[1] + 1 /\ m_oscmsg' = <<>>
                /\ step' = "unescape"
    /\ UNCHANGED <<wirevars, taken, conn, pi_RecvMem, b_Shutdown, served>>

\* A pair that stands for one byte.
Pair(b) == p + 1 < pend /\ pi_RecvMem[p] = "ESC" /\ pi_RecvMem[p + 1] = b

\* ... is unescaped ...
Unescape ==
    /\ step = "unescape" /\ p < pend
    /\ \/ Pair("ESC2") /\ m_oscmsg' = Append(m_oscmsg, "ESC") /\ p' = p + 2
       \/ Pair("END") /\ m_oscmsg' = Append(m_oscmsg, "END") /\ p' = p + 2
       \/ /\ ~Pair("ESC2") /\ ~Pair("END")
          /\ m_oscmsg' = Append(m_oscmsg, pi_RecvMem[p]) /\ p' = p + 1
    /\ UNCHANGED <<wirevars, taken, conn, pi_RecvMem, b_Shutdown, served, step, pbegin, pend>>

DeleteLeft(s, count) == SubSeq(s, count + 1, Len(s))

\* ... and processed.
ProcessReceivedPacket ==
    /\ step = "unescape" /\ p = pend
    /\ LET oscsize == pend - pbegin - 1
       IN  pi_RecvMem' = DeleteLeft(pi_RecvMem, oscsize + 2)
    /\ served' = Append(served, m_oscmsg)
    /\ m_oscmsg' = <<>> /\ pbegin' = 0 /\ pend' = 0 /\ p' = 0
    /\ step' = "slip"
    /\ UNCHANGED <<wirevars, taken, conn, b_Shutdown>>

-----------------------------------------------------------------------------
(* The connections *)

\* The peer has gone, whatever it has sent, its socket was removed, and another peer is
\* accepted in its place: Add clears the place.
NextPeer ==
    /\ step = "read"
    /\ sent' = <<>> /\ ends' = <<>> /\ part' = <<>> /\ wire' = <<>>
    /\ taken' = 0 /\ served' = <<>>
    /\ conn' = AddedConnection /\ pi_RecvMem' = <<>> /\ b_Shutdown' = FALSE
    /\ UNCHANGED <<http, step, slipvars>>

StreamsInit ==
    /\ http \in BOOLEAN
    /\ sent = <<>> /\ ends = <<>> /\ part = <<>> /\ wire = <<>>
    /\ taken = 0 /\ served = <<>>
    /\ conn = AddedConnection /\ pi_RecvMem = <<>> /\ b_Shutdown = FALSE
    /\ step = "read"
    /\ m_oscmsg = <<>> /\ pbegin = 0 /\ pend = 0 /\ p = 0

StreamsNext ==
    \/ Send
    \/ HttpRead \/ PullLine
    \/ OscRead \/ ProcessOneOscMessage \/ Unescape \/ ProcessReceivedPacket
    \/ NextPeer

StreamsSpec == StreamsInit /\ [][StreamsNext]_streamvars

-----------------------------------------------------------------------------
(* Properties *)

\* The request is there: a PUT and a GET are complete with their header.
Complete ==
    HeaderSent /\ taken >= LastEnd + (IF sent[1] = "POST" THEN Declared(sent) ELSE 0)

\* A request is answered once, when it is complete and no sooner, and as the peer sent it,
\* in whatever pieces it comes, whatever the peer before has left unfinished, and whatever
\* follows it (VizHttpServer::Check, CollectHttpRequest, DisconnectClient, cList::Add).
RequestsWhole ==
    http =>
        /\ step = "read" /\ Complete => served # <<>>
        /\ served # <<>> =>
              /\ Complete /\ Len(served) = 1
              /\ served[1].type = IF sent[1] = "PUT" THEN "none" ELSE sent[1]
              /\ served[1].websocket = \E i \in DOMAIN sent : sent[i] = "upgrade"
              /\ sent[1] = "POST" =>
                    Seqs!IsPrefix(SubSeq(part, 1, Declared(sent)), served[1].data)

\* Every OSC message is processed, once, in its order, with the bytes it was made of, and
\* when the thread waits again every one whose last byte was read, in whatever pieces the
\* stream comes, whatever bytes the messages have (ProcessBytes, SlipBoundaries,
\* ProcessOneOscMessage, SendToSLIPServer).  It is about a reader that is written but
\* never constructed: what it would do if VizOscManager made one.
MessagesWhole ==
    ~http =>
        /\ Seqs!IsPrefix(served, sent)
        /\ \A k \in DOMAIN sent :
              /\ k <= Len(served) => ends[k] <= taken
              /\ step = "read" /\ ends[k] <= taken => k <= Len(served)
=============================================================================
