------------------------------ MODULE SysServer ------------------------------
(***************************************************************************)
(* The remote command server (project1/server.cpp): the select() loop, the *)
(* set of clients, and the execution of their requests.  openSockets is    *)
(* used without FD_ZERO, so it starts with whatever was on the stack.      *)
(*                                                                         *)
(* A peer stands for one connection at a time.  Requests are those of      *)
(* project1/client.cpp: 64 bytes each, however short the line.             *)
(***************************************************************************)
EXTENDS Integers, FiniteSets, FiniteSetsExt

CONSTANTS
  Fd,          \* descriptors available for connections
  ListenSock,  \* the listening descriptor
  Std,         \* descriptors open from the start: the standard streams
  Stray,       \* bits that are set in the fd_set nobody cleared
  Peer,        \* the other ends
  Requests     \* the requests peers send in this instance

NoFd   == -1
Nobody == "free"
Zero   == "ZERO"

\* A SYS command; one with a line of output that is longer than exec's buffer;
\* and all that is not a SYS command, an empty request included.
Request == {"SYS", "SYS_LONG", "OTHER"}

ASSUME SysFdAssumption ==
  /\ Fd \subseteq Nat /\ Std \subseteq Nat /\ ListenSock \in Nat
  /\ IsFiniteSet(Fd) /\ IsFiniteSet(Std)
  /\ \A s \in Std : s < ListenSock
  /\ \A f \in Fd : ListenSock < f
  /\ Stray \subseteq Std \cup Fd

ASSUME SysPeerAssumption == Nobody \notin Peer /\ Requests \subseteq Request

VARIABLES
  status,    \* "running", or how the process ended
  sock,      \* kernel: whose connection a descriptor is
  backlog,   \* kernel: peers waiting to be accepted
  inbox,     \* kernel: the first unread request of each peer
  eof,       \* kernel: peers that have closed their end
  answers,   \* kernel: how many answers a peer has not read to the end
  sending,   \* kernel: the connection main waits for in send(), or NoFd
  openSockets, maxfds, clients,
  readSockets, n, buffer,
  clientSocketsToClear,
  pc, cursor,
  asked      \* history: peers that have sent something on their connection

network == <<backlog, inbox, eof, answers, sending, asked>>
kernel  == <<sock, network>>
watched == <<openSockets, maxfds>>
round   == <<readSockets, n>>
walk    == <<pc, cursor, clientSocketsToClear>>
sysvars == <<status, kernel, watched, clients, round, buffer, walk>>

Zeroed == [cmd |-> Zero, src |-> NoFd]
Linked == {f \in Fd : sock[f] # Nobody}
Known  == backlog \cup {sock[f] : f \in Linked}

SysInit ==
  /\ status = "running"
  /\ sock = [f \in Fd |-> Nobody] /\ backlog = {} /\ eof = {}
  /\ inbox = [p \in Peer |-> "NONE"]
  /\ answers = [p \in Peer |-> 0] /\ sending = NoFd /\ asked = {}
  /\ openSockets = Stray \cup {ListenSock} /\ maxfds = ListenSock
  /\ clients = {}
  /\ readSockets = {} /\ n = 0 /\ buffer = Zeroed
  /\ pc = "select" /\ cursor = NoFd /\ clientSocketsToClear = {}

-----------------------------------------------------------------------------
(* The peers.  A connection carries requests before it is accepted, too. *)

Alive == status = "running"

PeerConnects(p) ==
  /\ Alive /\ p \notin Known
  /\ backlog' = backlog \cup {p}
  /\ UNCHANGED <<status, sock, inbox, eof, answers, sending, asked,
                 watched, clients, round, buffer, walk>>

\* One recv() takes all that is unread, sixteen requests and more, and the
\* command ends at the first NUL: what follows the first request is lost.
PeerSends(p, r) ==
  /\ Alive /\ p \in Known \ eof
  /\ inbox' = [inbox EXCEPT ![p] = IF @ = "NONE" THEN r ELSE @]
  /\ asked' = asked \cup {p}
  /\ UNCHANGED <<status, sock, backlog, eof, answers, sending,
                 watched, clients, round, buffer, walk>>

\* One recv() of a peer: answers, or a part of a long one.  The last bytes of an
\* answer main is still sending are not there yet; once there is room for them
\* send() returns.
PeerReads(p) ==
  /\ Alive /\ answers[p] > 0
  /\ \E k \in 0..answers[p] : answers' = [answers EXCEPT ![p] = @ - k]
  /\ IF sending # NoFd /\ sock[sending] = p
     THEN answers'[p] > 0 /\ sending' \in {sending, NoFd}
     ELSE UNCHANGED sending
  /\ UNCHANGED <<status, sock, backlog, inbox, eof, asked, watched, clients, round, buffer, walk>>

PeerCloses(p) ==
  /\ Alive /\ p \in Known \ eof
  /\ eof' = eof \cup {p}
  /\ UNCHANGED <<status, sock, backlog, inbox, answers, sending, asked,
                 watched, clients, round, buffer, walk>>

-----------------------------------------------------------------------------
(* select(), accept() and the passes. *)

At(p) == Alive /\ sending = NoFd /\ pc = p

\* A descriptor in the set that is not open.
BadDescriptor == \E f \in openSockets \cap Fd : f <= maxfds /\ sock[f] = Nobody

Pending(f) == f \in Linked /\ (inbox[sock[f]] # "NONE" \/ sock[f] \in eof)

\* What select() may report, of the descriptors up to maxfds.  Nothing is
\* known of the standard streams but that they may be readable.
Reports(R) ==
  /\ R # {} /\ R \subseteq openSockets
  /\ \A f \in openSockets \ Std : f \in R <=>
       f <= maxfds /\ (IF f = ListenSock THEN backlog # {} ELSE Pending(f))

\* Its third set, of exceptional conditions, adds to n when a peer sends urgent
\* data, which none here does.
Select ==
  /\ At("select")
  /\ IF BadDescriptor
     THEN status' = "finished" /\ UNCHANGED <<round, pc>>
     ELSE /\ \E R \in SUBSET openSockets :
               Reports(R) /\ readSockets' = R /\ n' = Cardinality(R)
          /\ pc' = "accept"
          /\ UNCHANGED status
  /\ UNCHANGED <<kernel, watched, clients, buffer, cursor, clientSocketsToClear>>

\* Faulty: maxfds is not raised.
AcceptWithoutMaxfds ==
  /\ At("accept")
  /\ pc' = "pass"
  /\ IF ListenSock \notin readSockets
     THEN UNCHANGED <<status, sock, backlog, watched, clients, n>>
     ELSE IF Linked = Fd
     THEN status' = "exhausted" /\ UNCHANGED <<sock, backlog, watched, clients, n>>
     ELSE \E p \in backlog : \E f \in Fd \ Linked :
            /\ \A g \in Fd \ Linked : f <= g
            /\ sock' = [sock EXCEPT ![f] = p]
            /\ backlog' = backlog \ {p}
            /\ openSockets' = openSockets \cup {f}
            /\ clients' = clients \cup {f}
            /\ n' = n - 1
            /\ UNCHANGED <<status, maxfds>>
  /\ UNCHANGED <<inbox, eof, answers, sending, asked, readSockets, buffer, cursor,
                 clientSocketsToClear>>

\* The lowest free descriptor.  With none left the model stops: the code
\* goes on with FD_SET(-1).
Accept ==
  /\ At("accept")
  /\ pc' = "pass"
  /\ IF ListenSock \notin readSockets
     THEN UNCHANGED <<status, sock, backlog, watched, clients, n>>
     ELSE IF Linked = Fd
     THEN status' = "exhausted" /\ UNCHANGED <<sock, backlog, watched, clients, n>>
     ELSE \E p \in backlog : \E f \in Fd \ Linked :
            /\ \A g \in Fd \ Linked : f <= g
            /\ sock' = [sock EXCEPT ![f] = p]
            /\ backlog' = backlog \ {p}
            /\ openSockets' = openSockets \cup {f}
            /\ maxfds' = Max({maxfds, f})
            /\ clients' = clients \cup {f}
            /\ n' = n - 1
            /\ UNCHANGED status
  /\ UNCHANGED <<inbox, eof, answers, sending, asked, readSockets, buffer, cursor,
                 clientSocketsToClear>>

\* The first of the clients S, where a walk over them starts or goes on.
First(S) == IF S = {} THEN {NoFd} ELSE {g \in S : \A h \in S : g <= h}

BeginPass ==
  /\ At("pass") /\ n > 0
  /\ n' = n - 1
  /\ pc' = "clients" /\ cursor' \in First(clients)
  /\ UNCHANGED <<status, kernel, watched, clients, readSockets, buffer, clientSocketsToClear>>

\* Faulty: the buffer is not cleared for the next round.
EndRoundKeepingBuffer ==
  /\ At("pass") /\ n <= 0
  /\ pc' = "select"
  /\ readSockets' = {}
  /\ UNCHANGED <<status, kernel, watched, clients, n, buffer, cursor, clientSocketsToClear>>

EndRound ==
  /\ At("pass") /\ n <= 0
  /\ pc' = "select"
  /\ readSockets' = {} /\ buffer' = Zeroed
  /\ UNCHANGED <<status, kernel, watched, clients, n, cursor, clientSocketsToClear>>

\* Faulty: the closed clients are forgotten and not erased.
EndPassKeeping ==
  /\ At("clients") /\ cursor = NoFd
  /\ clientSocketsToClear' = {}
  /\ pc' = "pass"
  /\ UNCHANGED <<status, kernel, watched, clients, round, buffer, cursor>>

EndPass ==
  /\ At("clients") /\ cursor = NoFd
  /\ clients' = clients \ clientSocketsToClear
  /\ clientSocketsToClear' = {}
  /\ pc' = "pass"
  /\ UNCHANGED <<status, kernel, watched, round, buffer, cursor>>

-----------------------------------------------------------------------------
(* One client in the loop of a pass. *)

\* Faulty: the loop is broken off behind the first client.
VisitOne(f) ==
  /\ At("clients") /\ f = cursor /\ f \in Fd
  /\ cursor' = NoFd
  /\ UNCHANGED <<pc, clients, round>>

Visit(f) ==
  /\ At("clients") /\ f = cursor /\ f \in Fd
  /\ cursor' \in First({g \in clients : g > f})
  /\ UNCHANGED <<pc, clients, round>>

Skip(f) ==
  /\ Visit(f) /\ f \notin readSockets
  /\ UNCHANGED <<status, kernel, watched, buffer, clientSocketsToClear>>

\* Faulty: the number of descriptors instead of the highest one.
NewMaxfdsAsCount(f) ==
  IF maxfds # f THEN maxfds
  ELSE IF clients = {} THEN ListenSock ELSE Max({Max(clients), ListenSock}) + 1

\* maxfds as closeClient leaves it.  f is still among the clients.
NewMaxfds(f) ==
  IF maxfds # f THEN maxfds
  ELSE IF clients = {} THEN ListenSock ELSE Max({Max(clients), ListenSock})

\* Faulty: without FD_CLR.
CloseWithoutFdClr(f) ==
  LET p == sock[f]
  IN  /\ sock' = [sock EXCEPT ![f] = Nobody]
      /\ inbox' = [inbox EXCEPT ![p] = "NONE"]
      /\ answers' = [answers EXCEPT ![p] = 0]
      /\ eof' = eof \ {p} /\ asked' = asked \ {p}
      /\ maxfds' = NewMaxfds(f)
      /\ UNCHANGED <<backlog, sending, openSockets>>

CloseClient(f) ==
  LET p == sock[f]
  IN  /\ sock' = [sock EXCEPT ![f] = Nobody]
      /\ inbox' = [inbox EXCEPT ![p] = "NONE"]
      /\ answers' = [answers EXCEPT ![p] = 0]
      /\ eof' = eof \ {p} /\ asked' = asked \ {p}
      /\ maxfds' = NewMaxfds(f)
      /\ openSockets' = openSockets \ {f}
      /\ UNCHANGED <<backlog, sending>>

\* recv() returns 0.
Disconnect(f) ==
  /\ Visit(f) /\ f \in readSockets
  /\ sock[f] \in eof /\ inbox[sock[f]] = "NONE"
  /\ CloseClient(f)
  /\ clientSocketsToClear' = clientSocketsToClear \cup {f}
  /\ UNCHANGED <<status, buffer>>

\* recv() leaves a request in the buffer, or returns -1 and leaves it as it is.
Received(f) ==
  IF inbox[sock[f]] = "NONE" THEN buffer ELSE [cmd |-> inbox[sock[f]], src |-> f]

\* exec() reads up to 20000 characters of a line into 128: whatever lies behind
\* them on the stack is gone.  send() to a peer that is away may raise SIGPIPE.
Outcome(f) ==
  IF Received(f).cmd = "SYS_LONG" \/ sock[f] \in eof THEN {"running", "crashed"}
                                                     ELSE {"running"}

\* Two faulty forms of Serve: without FD_ISSET, and dropping an empty answer.
ServeAnyone(f) ==
  /\ Visit(f)
  /\ ~ (sock[f] \in eof /\ inbox[sock[f]] = "NONE")
  /\ buffer' = Received(f)
  /\ inbox' = [inbox EXCEPT ![sock[f]] = "NONE"]
  /\ answers' = [answers EXCEPT ![sock[f]] = @ + 1]
  /\ status' \in Outcome(f) /\ sending' \in {NoFd, f}
  /\ UNCHANGED <<sock, backlog, eof, asked, watched, clientSocketsToClear>>

ServeSilently(f) ==
  /\ Visit(f) /\ f \in readSockets
  /\ ~ (sock[f] \in eof /\ inbox[sock[f]] = "NONE")
  /\ buffer' = Received(f)
  /\ inbox' = [inbox EXCEPT ![sock[f]] = "NONE"]
  /\ answers' = [answers EXCEPT ![sock[f]] = IF Received(f).cmd # "OTHER" THEN @ ELSE @ + 1]
  /\ status' \in Outcome(f) /\ sending' \in {NoFd, f}
  /\ UNCHANGED <<sock, backlog, eof, asked, watched, clientSocketsToClear>>

\* clientCommand: whatever is in the buffer is answered.  The sockets block, and
\* main waits in send() when the peer does not read.
Serve(f) ==
  /\ Visit(f) /\ f \in readSockets
  /\ ~ (sock[f] \in eof /\ inbox[sock[f]] = "NONE")
  /\ buffer' = Received(f)
  /\ inbox' = [inbox EXCEPT ![sock[f]] = "NONE"]
  /\ answers' = [answers EXCEPT ![sock[f]] = @ + 1]
  /\ status' \in Outcome(f) /\ sending' \in {NoFd, f}
  /\ UNCHANGED <<sock, backlog, eof, asked, watched, clientSocketsToClear>>

\* The peer main is sending to is no more: send() fails, or raises SIGPIPE.
SendFails(f) ==
  /\ Alive /\ sending = f /\ sock[f] \in eof
  /\ sending' = NoFd
  /\ status' \in {"running", "crashed"}
  /\ UNCHANGED <<sock, backlog, inbox, eof, answers, asked, watched, clients, round, buffer, walk>>

-----------------------------------------------------------------------------
\* ctrl+c: the handler closes the listening socket and exits.
Interrupt ==
  /\ Alive
  /\ status' = "interrupted"
  /\ UNCHANGED <<kernel, watched, clients, round, buffer, walk>>

Server ==
  \/ Select \/ Accept \/ BeginPass \/ EndRound \/ EndPass
  \/ \E f \in Fd : Skip(f) \/ Disconnect(f) \/ Serve(f) \/ SendFails(f)

Peers ==
  \E p \in Peer :
    \/ PeerConnects(p) \/ PeerReads(p) \/ PeerCloses(p)
    \/ \E r \in Requests : PeerSends(p, r)

Ended == ~ Alive /\ UNCHANGED sysvars

SysNext == Server \/ Peers \/ Interrupt \/ Ended

SysSpec == SysInit /\ [][SysNext]_sysvars

-----------------------------------------------------------------------------
SysTypeOK ==
  /\ status \in {"running", "finished", "crashed", "exhausted", "interrupted"}
  /\ sock \in [Fd -> Peer \cup {Nobody}]
  /\ backlog \subseteq Peer /\ eof \subseteq Peer /\ asked \subseteq Peer
  /\ inbox \in [Peer -> Request \cup {"NONE"}]
  /\ answers \in [Peer -> Nat] /\ sending \in Fd \cup {NoFd}
  /\ openSockets \subseteq Fd \cup Std \cup {ListenSock}
  /\ maxfds \in Fd \cup {ListenSock}
  /\ clients \subseteq Fd /\ clientSocketsToClear \subseteq Fd
  /\ readSockets \subseteq Fd \cup Std \cup {ListenSock} /\ n \in Int
  /\ buffer \in [cmd : Request \cup {Zero}, src : Fd \cup {NoFd}]
  /\ pc \in {"select", "accept", "pass", "clients"}
  /\ cursor \in Fd \cup {NoFd}

\* What select() really looks at, the set up to maxfds, is the listening
\* socket, the connections, and the standard streams the stack had bits for.
\* Bits it had for descriptors not yet in use never come into range first.
WatchesConnections ==
  {f \in openSockets : f <= maxfds} = {ListenSock} \cup Linked \cup (Stray \cap Std)

\* A closed client is in the set of clients only until the end of its pass:
\* between passes the clients are the connections.
ClientsAreConnected == pc # "clients" => clients = Linked

\* The uncleared set never makes select() fail.
SelectNeverFails == status # "finished"

\* Every ready client is answered once per ready descriptor, but a connection
\* that never asked is never answered, also not one that got a number and a
\* place among the clients in the middle of it.
OnlyAskersAreAnswered == \A p \in Peer : answers[p] > 0 => p \in asked

\* A request that is answered again, for others, was received in this round.
RequestOfThisRound == buffer.cmd # Zero => buffer.src \in readSockets
=============================================================================
