---------------------------- MODULE ChatSession ----------------------------
(***************************************************************************)
(* A chat client (project3/client.cpp) at the other end of one of the      *)
(* chat server's connections.  Its main thread turns lines into frames and *)
(* sends them, its listener thread ends it when the server drops it.  The  *)
(* server, and every other peer, is ChatSockets.                           *)
(***************************************************************************)
EXTENDS ChatSockets, Framing

VARIABLES
  client,   \* "idle" before connect(), "waiting" for the server's accept(),
            \* "connected", or "ended"
  conn      \* the server's descriptor of this connection, while it is open

clientvars  == <<client, conn>>
sessionvars == <<vars, clientvars>>

ClientInit == client = "idle" /\ conn = NoFd

\* What fgets() leaves in the cleared buffer: a line, a last line without its
\* newline, or nothing, when the input has ended and it was not tested.
Input == {<<Word("STORED"), NL>>, <<Word("QUERYSERVERS"), NL>>,
          <<Word("STORED")>>, <<>>}

\* The string without its last byte, if that was part of a word.
WithoutLastByte(s) ==
  IF Last(s) \in OneByte THEN Front(s) ELSE Append(Front(s), Word("cut"))

\* One byte fewer than was typed goes between STX and ETX.  For an empty
\* buffer both are put in the same place.
ClientFrame(s) ==
  IF s = <<>> THEN <<ETX>> ELSE <<STX>> \o WithoutLastByte(s) \o <<ETX>>

\* The command the server finds in the bytes.
CommandOf(b) ==
  IF ~ ValidMessage(b) THEN "FRAGMENT"
  ELSE IF WhileGood(Contents(b), Comma) = << <<Word("QUERYSERVERS")>> >>
       THEN "QUERYSERVERS/1" ELSE "UNKNOWN"

-----------------------------------------------------------------------------
(* The client's main thread. *)

ClientConnects ==
  /\ client = "idle" /\ client' = "waiting"
  /\ PeerConnect(ClientListen)
  /\ UNCHANGED conn

\* One iteration of its loop.  At the end of the input this never stops.
SendLine ==
  /\ client = "connected" /\ conn # NoFd
  /\ \E s \in Input : PeerSend(conn, CommandOf(ClientFrame(s)))
  /\ UNCHANGED clientvars

\* The server has closed the connection, or is no more.
Down    == status \in {"crashed", "finished"}
Dropped == \/ client = "connected" /\ (conn = NoFd \/ Down)
           \/ client = "waiting" /\ Down

\* send() then fails and ends the loop, or raises SIGPIPE.  The listener is
\* still joinable when main returns, so the process ends either way.
SendFails ==
  /\ client = "connected" /\ Dropped
  /\ client' = "ended" /\ conn' = NoFd
  /\ UNCHANGED vars

\* The user ends the program, and the kernel closes its connection.
Interrupt ==
  /\ client = "connected" /\ conn # NoFd
  /\ client' = "ended"
  /\ PeerClose(conn)
  /\ UNCHANGED conn

\* Faulty: the listener thread returns where it should call exit().
ListenServerReturning ==
  /\ Dropped
  /\ client' = "deaf"
  /\ UNCHANGED <<vars, conn>>

\* The listener thread: read() returns 0, and exit() ends both threads.
\* Reading what the server sends is among OtherPeers.
ListenServer ==
  /\ Dropped
  /\ client' = "ended" /\ conn' = NoFd
  /\ UNCHANGED vars

-----------------------------------------------------------------------------
(* The server and the other peers. *)

\* What the server's step makes of the connection: accept() gives it its
\* descriptor, and close() takes it away.
ServerSteps ==
  /\ Main
  /\ IF client = "waiting" /\ pc = "acceptClient" /\ Accepted # {}
     THEN client' = "connected" /\ conn' \in Accepted
     ELSE /\ UNCHANGED client
          /\ conn' = IF conn \in Fd /\ sock'[conn] = "free" THEN NoFd ELSE conn

OtherPeers ==
  /\ \/ \E l \in Listen : PeerConnect(l)
     \/ \E f \in Fd : PeerReads(f)
     \/ \E f \in Fd \ {conn} : PeerClose(f) \/ \E c \in Frames : PeerSend(f, c)
  /\ UNCHANGED clientvars

ServerEnds == (Killed \/ Ended) /\ UNCHANGED clientvars

SessionInit == Init /\ ClientInit

SessionNext ==
  \/ ClientConnects \/ SendLine \/ SendFails \/ Interrupt \/ ListenServer
  \/ ServerSteps \/ OtherPeers \/ ServerEnds

\* The server's main thread is scheduled, which gets it out of no send() that
\* blocks.  Nothing obliges the client, its user, or the other peers.
SessionSpec == SessionInit /\ [][SessionNext]_sessionvars /\ WF_sessionvars(ServerSteps)

-----------------------------------------------------------------------------
\* The types, and what conn stands for: an accepted connection.
SessionTypeOK ==
  /\ client \in {"idle", "waiting", "connected", "ended"}
  /\ conn \in {f \in Fd : sock[f] = "in"} \cup {NoFd}

\* As long as the server has not closed the client's connection it serves it,
\* as a client: no erasure by number, no command of a server and no reuse of a
\* descriptor takes it out of the table of clients or of what select() watches.
ClientIsServed == conn # NoFd => conn \in clients /\ conn \in openSockets
=============================================================================
