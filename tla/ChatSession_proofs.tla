------------------------- MODULE ChatSession_proofs -------------------------
(***************************************************************************)
(* The chat client at the other end of one connection, for every set of    *)
(* descriptors and whatever the other peers send.                          *)
(*                                                                         *)
(* The server's side of a step is one of its event loop (StepIsLoopStep),  *)
(* so the invariant of the loop holds here.  ClientIsServed is not         *)
(* inductive: that the connection stays in the table of clients needs      *)
(* GoneIsClosed of that invariant, and that select() watches it needs the  *)
(* types of the session and MonitorsConnections.                           *)
(***************************************************************************)
EXTENDS ChatSession, ChatSockets_proofs

ConnIsListed == conn # NoFd => conn \in clients

SessionInv == IInv /\ SessionTypeOK /\ ConnIsListed

-----------------------------------------------------------------------------
\* Whatever line the user types, the server finds one of its commands in it.
LEMMA LinesAreCommands == \A b : CommandOf(b) \in Cmd
  BY DEF CommandOf, Cmd

\* A step of the session is one of the loop and of peers that send anything.
LEMMA StepIsLoopStep == [SessionNext]_sessionvars => [AnyNext]_vars
<1>. SUFFICES ASSUME [SessionNext]_sessionvars PROVE AnyNext \/ UNCHANGED vars
  OBVIOUS
<1>1. CASE ClientConnects
  BY <1>1 DEF ClientConnects, AnyNext, AnyPeers, Listen
<1>2. CASE SendLine \/ Interrupt
  <2>1. SessionTypeOK => conn \in Fd
    BY <1>2 DEF SendLine, Interrupt, SessionTypeOK
  <2>2. \A c : PeerSend(conn, c) => conn \in Fd
    BY DEF PeerSend, Connected
  <2>3. PeerClose(conn) => conn \in Fd
    BY DEF PeerClose, Connected
  <2>. QED BY <1>2, <2>2, <2>3, LinesAreCommands
       DEF SendLine, Interrupt, AnyNext, AnyPeers
<1>3. CASE SendFails \/ ListenServer \/ UNCHANGED sessionvars
  BY <1>3 DEF SendFails, ListenServer, sessionvars
<1>4. CASE ServerSteps \/ ServerEnds
  BY <1>4 DEF ServerSteps, ServerEnds, AnyNext
<1>5. CASE OtherPeers
  BY <1>5, FramesAssumption DEF OtherPeers, AnyNext, AnyPeers
<1>. QED BY <1>1, <1>2, <1>3, <1>4, <1>5 DEF SessionNext

-----------------------------------------------------------------------------
(* What a step of the server makes of one accepted connection. *)

\* An accepted connection stays one until it is closed, and stays in the
\* table of clients when it is in it.
LEMMA AcceptedStays ==
  ASSUME IInv, Main, NEW f \in Fd, sock[f] = "in"
  PROVE  /\ sock'[f] \in {"in", "free"}
         /\ sock'[f] = "in" /\ f \in clients => f \in clients'
<1>. USE DEF fdsets, tables, kernel
<1>1. /\ sock \in [Fd -> SockState] /\ TypeOK /\ f \notin gone
      /\ servers \in SUBSET Fd /\ clients \in SUBSET Fd
  BY DEF IInv, TypeInv, TypeOK, GoneIsClosed
<1>2. CASE Select \/ BeginPass \/ EndServers \/ EndClients \/ EndRound
  BY <1>2 DEF Select, BeginPass, EndServers, EndClients, EndRound
<1>3. CASE AcceptServer \/ AcceptClient
  <2>1. /\ status = "running" /\ \E l \in Listen : Accept(l)
        /\ clients \subseteq clients'
    BY <1>3 DEF AcceptServer, AcceptClient, At, Alive, Listen
  <2>. QED BY <1>1, <2>1, AcceptEffect DEF IInv
<1>4. ASSUME NEW g \in Fd, Serve(g)
      PROVE  /\ sock'[f] \in {"in", "free"}
             /\ sock'[f] = "in" /\ f \in clients => f \in clients'
  <2>1. ASSUME NEW S, LoopTail(S, clients) PROVE f \in clients => f \in clients'
    BY <1>1, <2>1 DEF LoopTail
  <2>2. ASSUME NEW h \in Fd, Close(h) PROVE sock'[f] \in {"in", "free"}
    BY <1>1, <2>2 DEF Close
  <2>3. CASE Skip(g) \/ Disconnect(g)
    BY <1>4, <2>1, <2>2, <2>3 DEF Skip, Disconnect
  <2>4. ASSUME NEW b, Ignore(g, b) \/ Crash(g, b) \/ Leave(g, b) \/ Answer(g, b)
        PROVE  /\ sock'[f] \in {"in", "free"}
               /\ sock'[f] = "in" /\ f \in clients => f \in clients'
    BY <2>1, <2>2, <2>4 DEF Ignore, Crash, Leave, Answer
  <2>5. ASSUME NEW b, ServerList(g, b)
        PROVE  /\ sock'[f] \in {"in", "free"}
               /\ sock'[f] = "in" /\ f \in clients => f \in clients'
    BY <2>1, <2>5 DEF ServerList, Opened
  <2>6. ASSUME NEW b, Connect(g, b)
        PROVE  /\ sock'[f] \in {"in", "free"}
               /\ sock'[f] = "in" /\ f \in clients => f \in clients'
    BY <1>1, <2>1, <2>6 DEF Connect, EstablishConnection, Lowest
  <2>. QED BY <1>4, <2>3, <2>4, <2>5, <2>6 DEF Serve
<1>. QED BY <1>2, <1>3, <1>4 DEF Main

\* accept() gives the waiting client an accepted connection of its own.
LEMMA AcceptedIsIn ==
  ASSUME IInv, AcceptClient, NEW f \in Accepted
  PROVE  f \in Fd /\ sock'[f] = "in" /\ f \in clients'
<1>1. /\ status = "running" /\ Accept(ClientListen) /\ ClientListen \in Listen
      /\ clients' = clients \cup Accepted
  BY DEF AcceptClient, At, Alive, Listen
<1>2. sock \in [Fd -> SockState]
  BY DEF IInv, TypeInv, TypeOK
<1>. QED BY <1>1, <1>2, AcceptEffect DEF IInv, Accepted

-----------------------------------------------------------------------------
\* The server's steps keep what the client's descriptor stands for.
LEMMA ServerStepsKeep ==
  ASSUME SessionInv, ServerSteps
  PROVE  SessionTypeOK' /\ ConnIsListed'
<1>. USE DEF SessionInv, SessionTypeOK, ConnIsListed
<1>1. CASE client = "waiting" /\ pc = "acceptClient" /\ Accepted # {}
  <2>1. AcceptClient
    BY <1>1 DEF ServerSteps, Main, Select, AcceptServer, BeginPass, EndServers, EndClients,
                EndRound, Serve, Skip, Disconnect, Ignore, Crash, Leave, ServerList, Connect,
                Answer, Recv, InLoop, At
  <2>2. client' = "connected" /\ conn' \in Accepted
    BY <1>1 DEF ServerSteps
  <2>. QED BY <2>1, <2>2, AcceptedIsIn
<1>2. CASE ~ (client = "waiting" /\ pc = "acceptClient" /\ Accepted # {})
  <2>1. /\ Main /\ client' = client
        /\ conn' = IF conn \in Fd /\ sock'[conn] = "free" THEN NoFd ELSE conn
    BY <1>2 DEF ServerSteps
  <2>. QED BY <2>1, AcceptedStays
<1>. QED BY <1>1, <1>2

\* At the start there is no connection.
LEMMA SessionInitInv == SessionInit => SessionInv
  BY InvInit DEF SessionInit, ClientInit, SessionInv, SessionTypeOK, ConnIsListed

\* Every step keeps the invariant of the session.
LEMMA SessionStepInv == SessionInv /\ [SessionNext]_sessionvars => SessionInv'
<1>. SUFFICES ASSUME SessionInv, [SessionNext]_sessionvars PROVE SessionInv'
  OBVIOUS
<1>. USE DEF SessionInv, SessionTypeOK, ConnIsListed
<1>1. IInv'
  BY StepIsLoopStep, InvStep
<1>2. CASE ServerSteps
  BY <1>1, <1>2, ServerStepsKeep
<1>3. CASE ClientConnects \/ SendLine \/ Interrupt \/ OtherPeers
  BY <1>1, <1>3
  DEF ClientConnects, SendLine, Interrupt, OtherPeers, clientvars, PeerConnect, PeerSend,
      PeerClose, PeerReads, tables
<1>4. CASE SendFails \/ ListenServer
  BY <1>1, <1>4 DEF SendFails, ListenServer
<1>5. CASE ServerEnds \/ UNCHANGED sessionvars
  BY <1>1, <1>5
  DEF ServerEnds, Killed, Ended, sessionvars, clientvars, vars, kernel, tables
<1>. QED BY <1>2, <1>3, <1>4, <1>5 DEF SessionNext

\* The invariant of the session always holds.
LEMMA SessionInvariant == SessionSpec => []SessionInv
  BY SessionInitInv, SessionStepInv, PTL DEF SessionSpec

\* The client is in one of its states, and the number it is known by in the
\* server is that of an accepted connection until it is closed.
THEOREM SessionTypeCorrect == SessionSpec => []SessionTypeOK
  BY SessionInvariant, PTL DEF SessionInv

\* The server serves the client for as long as its connection is open.
THEOREM SessionClientServed == SessionSpec => []ClientIsServed
<1>1. SessionInv => ClientIsServed
  BY DEF SessionInv, SessionTypeOK, ConnIsListed, ClientIsServed, IInv, MonitorsConnections,
         Connected
<1>. QED BY <1>1, SessionInvariant, PTL

\* The server's loop is safe whatever its chat client types, and with it every
\* other peer: descriptors, tables and buffer keep their invariants.
THEOREM SessionLoopSafe ==
  SessionSpec => [](/\ TypeOK /\ MonitorsConnections /\ SelectCoversAll
                    /\ SelectNeverFails /\ AcceptedIsListed /\ BufferFromThisRound)
  BY SessionInvariant, PTL DEF SessionInv, IInv, TypeInv
=============================================================================
