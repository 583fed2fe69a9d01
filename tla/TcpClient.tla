------------------------------- MODULE TcpClient -------------------------------
(***************************************************************************)
(* TcpClient (src/src/network/socketclient.cpp) talking to a server that   *)
(* writes newline-terminated JSON lines.  The byte stream towards the      *)
(* client is a sequence of items: the body of line k (the number k), the   *)
(* newline NL, and EOF once the server has closed.  The server may stop    *)
(* between a line's body and its newline, for a while or for good, or      *)
(* close there; TCP may hand the bytes to the client's socket in any       *)
(* pieces.                                                                 *)
(* inflight is what is still in the network, rbuf what socket_.available() *)
(* counts.  One host thread uses the client; Receive blocks it while the   *)
(* network and the server keep moving.                                     *)
(***************************************************************************)
EXTENDS Integers, Sequences, SequencesExt

CONSTANTS
  MaxLines,  \* bound on the lines the server writes
  MaxSends   \* bound on the client's Send calls

NL == 0
EOF == -1

VARIABLES
  open,       \* socket_.is_open()
  listening,  \* the server accepts connections
  conn,       \* the server holds a live connection to the client
  inflight,   \* items written by the server, not yet in the client's socket
  rbuf,       \* items in the client's socket receive buffer
  recv,       \* "idle" or "reading": the host thread is inside read_until
  local,      \* Receive's local streambuf
  sent,       \* lines written by the server so far (ids 1..sent)
  midline,    \* the server has written line sent + 1's body, not its newline
  got,        \* history: the line ids Receive returned, in order
  discarded,  \* history: line ids the client dropped on purpose
  requests    \* Send calls that wrote their message

serverVars == <<listening, conn, sent, midline>>
vars == <<open, listening, conn, inflight, rbuf, recv, local, sent, midline,
          got, discarded, requests>>

Items == {NL, EOF} \cup 1..MaxLines

\* Line ids among some items.
Bodies(s) == ToSet(s) \ {NL, EOF}

\* The bytes before EOF: what socket_.available() counts and recv returns.
Data(s) == SelectSeq(s, LAMBDA x : x # EOF)

\* read_some hands over any nonempty prefix of the available bytes.
Prefixes1(s) == {SubSeq(s, 1, k) : k \in 1..Len(Data(s))}

Drop(s, p) == SubSeq(s, Len(p) + 1, Len(s))

-----------------------------------------------------------------------------
\* TcpClient(host, port) (lines 5-9): a socket that is not open.
Init ==
  /\ open = FALSE
  /\ listening \in BOOLEAN
  /\ conn = FALSE
  /\ inflight = <<>>
  /\ rbuf = <<>>
  /\ recv = "idle"
  /\ local = <<>>
  /\ sent = 0
  /\ midline = FALSE
  /\ got = <<>>
  /\ discarded = {}
  /\ requests = 0

\* Mutant of Connect: the new connection starts with the old receive buffer.
ConnectKeepBuffer ==
  /\ recv = "idle"
  /\ inflight' = <<>>
  /\ discarded' = discarded \cup Bodies(inflight)
  /\ \/ listening /\ open' = TRUE /\ conn' = TRUE
     \/ ~listening /\ open' = FALSE /\ conn' = FALSE
  /\ midline' = FALSE
  /\ UNCHANGED <<listening, rbuf, recv, local, sent, got, requests>>

\* Connect (lines 13-29): boost::asio::connect closes socket_ before each
\* attempt, so what the old connection had not delivered is gone; the
\* attempt succeeds when the server listens, else false is returned and the
\* socket stays closed.
Connect ==
  /\ recv = "idle"
  /\ inflight' = <<>>
  /\ rbuf' = <<>>
  /\ discarded' = discarded \cup Bodies(inflight \o rbuf)
  /\ \/ listening /\ open' = TRUE /\ conn' = TRUE
     \/ ~listening /\ open' = FALSE /\ conn' = FALSE
  /\ midline' = FALSE
  /\ UNCHANGED <<listening, recv, local, sent, got, requests>>

\* Send (lines 31-45): write data.dump() (no newline).  A closed socket
\* throws and false is returned; writing to a connection the server closed
\* may still succeed into the kernel buffer, or fail.
Send ==
  /\ recv = "idle"
  /\ requests < MaxSends
  /\ \/ open /\ requests' = requests + 1
     \/ ~open /\ UNCHANGED requests
     \/ open /\ ~conn /\ UNCHANGED requests
  /\ UNCHANGED <<open, listening, conn, inflight, rbuf, recv, local, sent, midline,
                 got, discarded>>

\* Mutant of RecvBegin: the bytes are read without being consumed.
RecvBeginPeek ==
  /\ recv = "idle"
  /\ Len(Data(rbuf)) > 0
  /\ \E p \in Prefixes1(rbuf) : local' = p
  /\ recv' = "reading"
  /\ UNCHANGED <<open, listening, conn, inflight, rbuf, sent, midline, got, discarded,
                 requests>>

\* Receive (lines 47-63, 73-77): with nothing available (or a closed
\* socket, whose available() fails) it returns false at once; otherwise
\* read_until starts filling a streambuf local to this call.
RecvBegin ==
  /\ recv = "idle"
  /\ \/ /\ Len(Data(rbuf)) = 0
        /\ UNCHANGED <<rbuf, recv, local>>
     \/ /\ Len(Data(rbuf)) > 0
        /\ \E p \in Prefixes1(rbuf) : local' = p /\ rbuf' = Drop(rbuf, p)
        /\ recv' = "reading"
  /\ UNCHANGED <<open, listening, conn, inflight, sent, midline, got, discarded,
                 requests>>

\* read_until (line 63) has no newline yet: it reads again, blocking until
\* bytes arrive (SO_RCVTIMEO set at line 53 does not bound it).
RecvMore ==
  /\ recv = "reading"
  /\ ~Contains(local, NL)
  /\ Len(Data(rbuf)) > 0
  /\ \E p \in Prefixes1(rbuf) : local' = local \o p /\ rbuf' = Drop(rbuf, p)
  /\ UNCHANGED <<open, listening, conn, inflight, recv, sent, midline, got, discarded,
                 requests>>

\* Lines 65-72: getline takes the first line; json::parse of an empty line
\* throws and false is returned.  The streambuf, with everything read past
\* the newline, is destroyed with the call.
RecvFinish ==
  /\ recv = "reading"
  /\ Contains(local, NL)
  /\ LET line == SubSeq(local, 1, SelectInSeq(local, LAMBDA x : x = NL))
     IN got' = IF Len(line) > 1 THEN Append(got, line[1]) ELSE got
  /\ recv' = "idle"
  /\ local' = <<>>
  /\ UNCHANGED <<open, listening, conn, inflight, rbuf, sent, midline, discarded,
                 requests>>

\* Mutant of RecvEof: end of stream is taken for "no data yet" and the
\* read is retried.
RecvEofRetry ==
  /\ recv = "reading"
  /\ ~Contains(local, NL)
  /\ rbuf = <<EOF>>
  /\ UNCHANGED vars

\* Lines 78-83: the server closed before a newline: read_until throws
\* error::eof, caught, and false is returned.
RecvEof ==
  /\ recv = "reading"
  /\ ~Contains(local, NL)
  /\ rbuf = <<EOF>>
  /\ recv' = "idle"
  /\ local' = <<>>
  /\ UNCHANGED <<open, listening, conn, inflight, rbuf, sent, midline, got, discarded,
                 requests>>

\* Disconnect (lines 86-95): shutdown and close an open socket.
Disconnect ==
  /\ recv = "idle"
  /\ \/ /\ open
        /\ open' = FALSE
        /\ conn' = FALSE
        /\ inflight' = <<>>
        /\ rbuf' = <<>>
        /\ discarded' = discarded \cup Bodies(inflight \o rbuf)
        /\ midline' = FALSE
     \/ /\ ~open
        /\ UNCHANGED <<open, conn, inflight, rbuf, discarded, midline>>
  /\ UNCHANGED <<listening, recv, local, sent, got, requests>>

\* ClearSocket (lines 129-139): receive and throw away what is available.
ClearSocket ==
  /\ open /\ recv = "idle"
  /\ Len(Data(rbuf)) > 0
  /\ discarded' = discarded \cup Bodies(Data(rbuf))
  /\ rbuf' = Drop(rbuf, Data(rbuf))
  /\ UNCHANGED <<open, listening, conn, inflight, recv, local, sent, midline, got,
                 requests>>

\* CheckServerExistence (lines 97-116): connect a temporary socket and close
\* it; socket_ and its buffers are not touched.  boost::asio::connect
\* without an error_code throws when nobody listens, so the call either
\* returns true or throws; the false branch is never reached.
CheckServerExistence ==
  /\ recv = "idle"
  /\ UNCHANGED vars

\* The server writes the body of its next line.
ServerWrite ==
  /\ conn
  /\ ~midline
  /\ sent < MaxLines
  /\ inflight' = Append(inflight, sent + 1)
  /\ midline' = TRUE
  /\ UNCHANGED <<open, listening, conn, rbuf, recv, local, sent, got,
                 discarded, requests>>

\* The server ends the line with its newline; the line is then written.
ServerEndLine ==
  /\ conn
  /\ midline
  /\ inflight' = Append(inflight, NL)
  /\ sent' = sent + 1
  /\ midline' = FALSE
  /\ UNCHANGED <<open, listening, conn, rbuf, recv, local, got, discarded,
                 requests>>

\* The server closes the connection, or dies: EOF follows what it wrote,
\* possibly the body of a line without its newline.
ServerClose ==
  /\ conn
  /\ inflight' = Append(inflight, EOF)
  /\ conn' = FALSE
  /\ midline' = FALSE
  /\ UNCHANGED <<open, listening, rbuf, recv, local, sent, got, discarded,
                 requests>>

\* TCP delivers a nonempty prefix of what is in flight, in order.
Arrive ==
  /\ open
  /\ inflight # <<>>
  /\ \E k \in 1..Len(inflight) :
       /\ rbuf' = rbuf \o SubSeq(inflight, 1, k)
       /\ inflight' = SubSeq(inflight, k + 1, Len(inflight))
  /\ UNCHANGED <<open, listening, conn, recv, local, sent, midline, got, discarded,
                 requests>>

Client == Connect \/ Send \/ RecvBegin \/ RecvMore \/ RecvFinish \/ RecvEof
          \/ Disconnect \/ ClearSocket \/ CheckServerExistence

Next == Client \/ ServerWrite \/ ServerEndLine \/ ServerClose \/ Arrive

\* TCP eventually delivers what is in flight, and the blocked host thread
\* runs when read_until can make progress.  The server gets no fairness:
\* it may stop at any point, in the middle of a line included.
Fairness ==
  /\ WF_vars(Arrive)
  /\ WF_vars(RecvMore) /\ WF_vars(RecvFinish) /\ WF_vars(RecvEof)

Spec == Init /\ [][Next]_vars /\ Fairness

-----------------------------------------------------------------------------
\* Besides the types: EOF can only be the last item the client has yet to
\* read, so the receive buffer never mixes two connections.
TypeOK ==
  /\ open \in BOOLEAN /\ listening \in BOOLEAN /\ conn \in BOOLEAN
  /\ inflight \in Seq(Items) /\ rbuf \in Seq(Items) /\ local \in Seq(Items)
  /\ recv \in {"idle", "reading"}
  /\ sent \in 0..MaxLines
  /\ got \in Seq(1..MaxLines)
  /\ discarded \subseteq 1..MaxLines
  /\ requests \in 0..MaxSends
  /\ LET s == rbuf \o inflight
     IN \A i \in DOMAIN s : s[i] = EOF => i = Len(s)

\* Receive returns each server line at most once, in the order the server
\* wrote them, and never a line that was not written: the streambuf local
\* to each call (line 56) and the consumption of what read_until read.
ReceivedInOrder ==
  /\ IsSorted(got, <)
  /\ ToSet(got) \subseteq 1..sent

\* A Receive blocked in read_until after the server closed the connection
\* returns, whatever the server had written before: the rest of a line is
\* still read, or EOF makes read_until throw error::eof, which Receive
\* catches and turns into false (lines 63, 78-83).  A server that stalls
\* mid-line without closing leaves Receive blocked (line 59); the property
\* makes no claim about that case.
ReceiveReturnsOnClose == (recv = "reading" /\ ~conn) ~> recv = "idle"

\* Every line the server wrote is returned by Receive, dropped on purpose
\* by ClearSocket, Disconnect or a reconnect, or still on its way: Receive
\* loses nothing it read past the first newline (lines 56-69).
NoLineLost ==
  \A id \in 1..sent :
    id \in ToSet(got) \cup discarded \cup Bodies(inflight \o rbuf \o local)

=============================================================================
