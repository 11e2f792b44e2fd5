------------------------ MODULE ChatSockets_proofs ------------------------
(***************************************************************************)
(* The safety invariants of ChatSockets, for every set of descriptors and  *)
(* every set of commands.                                                  *)
(*                                                                         *)
(* None of them is inductive.  MonitorsConnections and SelectCoversAll     *)
(* need that closeClient never lowers maxfds, which holds because no       *)
(* client is above maxfds (ClientsCovered).  AcceptedIsListed needs that   *)
(* accept() runs only while disconnectedClients is empty (GoneIsEmpty), so *)
(* that a number in it is never that of an accepted connection             *)
(* (GoneIsClosed).  BufferFromThisRound needs the memset (BufferIsClear).  *)
(***************************************************************************)
EXTENDS ChatSockets, FiniteSetTheorems, TLAPS

ClientsCovered == \A c \in clients : c <= maxfds

GoneIsClosed == \A f \in gone : sock[f] # "in"

GoneIsEmpty == pc \in {"select", "acceptServer", "acceptClient"} => gone = {}

BufferIsClear == pc = "select" => buffer.cmd = "ZERO"

\* The inductive invariant, in the two parts it is proved in.
TypeInv == TypeOK /\ ClientsCovered

IInv ==
  /\ TypeInv
  /\ MonitorsConnections
  /\ SelectCoversAll
  /\ SelectNeverFails
  /\ GoneIsClosed /\ GoneIsEmpty /\ AcceptedIsListed
  /\ BufferIsClear /\ BufferFromThisRound

-----------------------------------------------------------------------------
(* Operators. *)

\* Descriptors are numbers, and -1 is none of them.
LEMMA DescriptorsAreNat == Fd \cup Listen \subseteq Nat /\ NoFd \notin Fd \cup Listen
  BY FdAssumption DEF Listen, NoFd

\* The larger of two numbers.
LEMMA MaxOfTwo ==
  ASSUME NEW a \in Nat, NEW b \in Nat
  PROVE  Max({a, b}) \in {a, b} /\ a <= Max({a, b}) /\ b <= Max({a, b})
<1>1. \E x \in {a, b} : \A y \in {a, b} : x >= y
  <2>1. CASE a >= b
    BY <2>1
  <2>2. CASE ~ (a >= b)
    BY <2>2
  <2>. QED BY <2>1, <2>2
<1>2. Max({a, b}) \in {a, b} /\ \A y \in {a, b} : Max({a, b}) >= y
  BY <1>1 DEF Max
<1>. QED BY <1>2

\* Adding numbers that are not above a does not change the maximum a.
LEMMA MaxDominated ==
  ASSUME NEW a \in Nat, NEW S \in SUBSET Nat, \A s \in S : s <= a
  PROVE  Max({a} \cup S) = a
<1>1. \A y \in {a} \cup S : a >= y
  OBVIOUS
<1>2. \A x \in {a} \cup S : (\A y \in {a} \cup S : x >= y) => x = a
  OBVIOUS
<1>3. Max({a} \cup S) \in {a} \cup S /\ \A y \in {a} \cup S : Max({a} \cup S) >= y
  BY <1>1 DEF Max
<1>. QED BY <1>2, <1>3

\* Iterators stay on keys of the table they walk.
LEMMA IteratorRange ==
  ASSUME NEW S \in SUBSET Fd
  PROVE  /\ First(S) \subseteq S \cup {NoFd}
         /\ \A f : After(S, f) \subseteq S \cup {NoFd}
  BY DEF First, After

\* What is in a buffer or an inbox is always a command.
LEMMA BytesAreCommands ==
  /\ \A c \in Cmd : Spoilt(c) \subseteq Cmd
  /\ \A x \in Cmd \cup {"NONE"}, c \in Cmd : Coalesce(x, c) \subseteq Cmd
  /\ \A old \in Cmd \cup {"ZERO"}, c \in Cmd : Overlay(old, c) \subseteq Cmd
<1>1. \A c \in Cmd : Spoilt(c) \subseteq Cmd
  BY DEF Spoilt, Cmd
<1>2. \A x \in Cmd \cup {"NONE"}, c \in Cmd : Coalesce(x, c) \subseteq Cmd
  BY <1>1 DEF Coalesce, Cmd
<1>3. \A old \in Cmd \cup {"ZERO"}, c \in Cmd : Overlay(old, c) \subseteq Cmd
  BY <1>1 DEF Overlay, Cmd
<1>. QED BY <1>1, <1>2, <1>3

-----------------------------------------------------------------------------
(* What the parts shared by several actions do. *)

\* The end of an iteration only removes disconnected clients from the tables
\* the handler left, and it leaves the descriptors of the round alone.
LEMMA LoopTailEffect ==
  ASSUME NEW S \in SUBSET Fd, NEW C \in SUBSET Fd, LoopTail(S, C)
  PROVE  /\ servers' \subseteq S /\ clients' \subseteq C
         /\ \A f \in S \cup C : f \notin gone => f \in servers' \cup clients'
         /\ cursor' \in Fd \cup {NoFd}
         /\ UNCHANGED <<pc, gone, readSockets, n, backlog>>
<1> DEFINE walked == (IF pc = "servers" THEN S ELSE C) \ gone
<1>1. walked \in SUBSET Fd
  OBVIOUS
<1>2. cursor' \in walked \cup {NoFd} \/ cursor' \in After(walked, cursor)
  BY DEF LoopTail
<1>3. cursor' \in Fd \cup {NoFd}
  <2>. HIDE DEF walked
  <2>. QED BY <1>1, <1>2, IteratorRange
<1>. QED BY <1>3 DEF LoopTail, round

\* closeClient() never changes maxfds: no client is above it.
LEMMA CloseEffect ==
  ASSUME TypeInv, NEW f \in Fd, Close(f)
  PROVE  /\ maxfds' = maxfds
         /\ sock' = [sock EXCEPT ![f] = "free"] /\ sock' \in [Fd -> SockState]
         /\ eof' \subseteq Fd
         /\ openSockets' = openSockets \ {f}
<1>1. maxfds \in Nat /\ clients \in SUBSET Nat
  BY DescriptorsAreNat DEF TypeInv, TypeOK
<1>2. Max({maxfds} \cup clients) = maxfds
  BY <1>1, MaxDominated DEF TypeInv, ClientsCovered
<1>. QED BY <1>2 DEF Close, TypeInv, TypeOK, SockState

\* After recv() the buffer holds what it held, or a command from f.
LEMMA RecvEffect ==
  ASSUME TypeOK, NEW f \in Fd, NEW b, Recv(f, b)
  PROVE  /\ status = "running" /\ pc \in {"servers", "clients"} /\ f \in readSockets
         /\ b \in [cmd : Cmd \cup {"ZERO"}, src : Fd \cup {NoFd}]
         /\ buffer' = b /\ (b = buffer \/ b.src = f)
         /\ inbox' \in [Fd -> Cmd \cup {"NONE"}]
<1>1. CASE inbox[f] = "NONE"
  BY <1>1 DEF Recv, Received, InLoop, At, Alive, TypeOK
<1>2. CASE inbox[f] # "NONE"
  <2>1. inbox[f] \in Cmd /\ buffer.cmd \in Cmd \cup {"ZERO"}
    BY <1>2 DEF TypeOK
  <2>2. PICK c \in Overlay(buffer.cmd, inbox[f]) : b = [cmd |-> c, src |-> f]
    BY <1>2 DEF Recv, Received
  <2>3. c \in Cmd
    BY <2>1, <2>2, BytesAreCommands
  <2>. QED BY <2>2, <2>3 DEF Recv, InLoop, At, Alive, TypeOK
<1>. QED BY <1>1, <1>2

\* The record of the command a step has executed keeps its type.
LEMMA ExecuteEffect ==
  ASSUME TypeOK, NEW f \in Fd,
         NEW b \in [cmd : Cmd \cup {"ZERO"}, src : Fd \cup {NoFd}],
         pc \in {"servers", "clients"}, Execute(f, b)
  PROVE  ran' \in [by : {"none", "servers", "clients"}, cmd : Cmd \cup {"ZERO"},
                   fd : Fd \cup {NoFd}, src : Fd \cup {NoFd}]
  BY DEF Execute

\* accept() takes the lowest free descriptor into the watched set.
LEMMA AcceptEffect ==
  ASSUME TypeInv, status = "running", NEW l \in Listen, Accept(l)
  PROVE  /\ status' \in {"running", "exhausted"}
         /\ UNCHANGED <<eof, inbox, sending>>
         /\ backlog' \subseteq Listen /\ n' \in Int
         /\ \/ UNCHANGED <<sock, openSockets, maxfds>>
            \/ \E f \in Fd : /\ sock[f] = "free"
                             /\ sock' = [sock EXCEPT ![f] = "in"]
                             /\ openSockets' = openSockets \cup {f}
                             /\ maxfds' \in Fd \cup Listen
                             /\ maxfds <= maxfds' /\ f <= maxfds'
<1>1. CASE l \notin readSockets
  BY <1>1 DEF Accept, kernel, fdsets, TypeInv, TypeOK
<1>2. CASE l \in readSockets /\ TableFull
  BY <1>2 DEF Accept, kernel, fdsets, TypeInv, TypeOK
<1>3. CASE l \in readSockets /\ ~ TableFull
  <2>1. PICK f \in Fd : /\ Lowest(f)
                        /\ sock' = [sock EXCEPT ![f] = "in"]
                        /\ backlog' = backlog \ {l}
                        /\ openSockets' = openSockets \cup {f}
                        /\ maxfds' = Max({maxfds, f})
                        /\ n' = n - 1
                        /\ UNCHANGED <<status, eof, inbox, sending>>
    BY <1>3 DEF Accept
  <2>2. maxfds \in Nat /\ f \in Nat
    BY DescriptorsAreNat DEF TypeInv, TypeOK
  <2>3. Max({maxfds, f}) \in {maxfds, f} /\ maxfds <= Max({maxfds, f})
                                         /\ f <= Max({maxfds, f})
    BY <2>2, MaxOfTwo
  <2>4. maxfds' \in Fd \cup Listen /\ maxfds <= maxfds' /\ f <= maxfds'
    BY <2>1, <2>3 DEF TypeInv, TypeOK
  <2>5. /\ status' = "running" /\ n' \in Int /\ backlog' \subseteq Listen
        /\ sock[f] = "free"
    BY <2>1 DEF Lowest, TypeInv, TypeOK
  <2>. QED BY <2>1, <2>4, <2>5
<1>. QED BY <1>1, <1>2, <1>3
-----------------------------------------------------------------------------
(* Type correctness. *)

\* main's setup gives every variable its type.
LEMMA TypeInit == Init => TypeInv
<1>. SUFFICES ASSUME Init PROVE TypeInv
  OBVIOUS
<1>. QED BY DescriptorsAreNat
     DEF Init, TypeInv, TypeOK, ClientsCovered, Listen, Zeroed, Idle, SockState, NoFd

\* Peers that send any command, and not only those of an instance.
AnyPeers ==
  \/ \E l \in Listen : PeerConnect(l)
  \/ \E f \in Fd : PeerClose(f) \/ PeerReads(f) \/ \E c \in Cmd : PeerSend(f, c)

AnyNext == Main \/ AnyPeers \/ Killed \/ Ended

\* The peers of an instance are among them.
LEMMA NextIsAnyNext == [Next]_vars => [AnyNext]_vars
  BY FramesAssumption DEF Next, AnyNext, Peers, AnyPeers

\* What peers do keeps the types.
LEMMA PeersType == TypeInv /\ AnyPeers => TypeInv'
<1>. SUFFICES ASSUME TypeInv, AnyPeers PROVE TypeInv'
  OBVIOUS
<1>1. ASSUME NEW l \in Listen, PeerConnect(l) PROVE TypeInv'
  BY <1>1 DEF PeerConnect, tables, fdsets, round, locals, TypeInv, TypeOK, ClientsCovered
<1>2. ASSUME NEW f \in Fd, PeerClose(f) PROVE TypeInv'
  BY <1>2 DEF PeerClose, tables, fdsets, round, locals, TypeInv, TypeOK, ClientsCovered
<1>3. ASSUME NEW f \in Fd, NEW c \in Cmd, PeerSend(f, c) PROVE TypeInv'
  <2>1. PICK x \in Coalesce(inbox[f], c) : inbox' = [inbox EXCEPT ![f] = x]
    BY <1>3 DEF PeerSend
  <2>2. inbox[f] \in Cmd \cup {"NONE"} /\ c \in Cmd
    BY DEF TypeInv, TypeOK
  <2>3. x \in Cmd
    BY <2>1, <2>2, BytesAreCommands
  <2>4. inbox' \in [Fd -> Cmd \cup {"NONE"}]
    BY <2>1, <2>3 DEF TypeInv, TypeOK
  <2>. QED BY <1>3, <2>4
       DEF PeerSend, tables, fdsets, round, locals, TypeInv, TypeOK, ClientsCovered
<1>4. ASSUME NEW f \in Fd, PeerReads(f) PROVE TypeInv'
  BY <1>4 DEF PeerReads, tables, fdsets, round, locals, TypeInv, TypeOK, ClientsCovered
<1>. QED BY <1>1, <1>2, <1>3, <1>4 DEF AnyPeers

\* The steps of main outside the bodies of the two loops.
LEMMA RoundType ==
  ASSUME TypeInv,
         \/ Select \/ AcceptServer \/ AcceptClient
         \/ BeginPass \/ EndServers \/ EndClients \/ EndRound
  PROVE  TypeInv'
<1>. USE DEF kernel, tables, fdsets, round
<1>0. Idle \in [by : {"none", "servers", "clients"}, cmd : Cmd \cup {"ZERO"},
                fd : Fd \cup {NoFd}, src : Fd \cup {NoFd}]
  BY DEF Idle
<1>1. CASE Select
  <2>1. Readable \subseteq openSockets
    BY DEF Readable
  <2>2. Cardinality(Readable) \in Int
    <3>1. IsFiniteSet(Listen)
      <4>1. Listen = ({} \cup {ServerListen}) \cup {ClientListen}
        BY DEF Listen
      <4>2. IsFiniteSet({} \cup {ServerListen})
        BY FS_EmptySet, FS_AddElement
      <4>. QED BY <4>1, <4>2, FS_AddElement
    <3>2. IsFiniteSet(Fd \cup Listen)
      BY <3>1, FdAssumption, FS_Union
    <3>3. Readable \in SUBSET (Fd \cup Listen)
      BY <2>1 DEF TypeInv, TypeOK
    <3>. QED BY <3>2, <3>3, FS_Subset, FS_CardinalityType
  <2>. QED BY <1>0, <1>1, <2>1, <2>2 DEF Select, At, Alive, TypeInv, TypeOK, ClientsCovered
<1>2. CASE AcceptServer
  <2>1. status = "running" /\ Accept(ServerListen) /\ ServerListen \in Listen
    BY <1>2 DEF AcceptServer, At, Alive, Listen
  <2>2. servers' \subseteq Fd
    BY <1>2, <2>1, AcceptEffect DEF AcceptServer, Accepted, TypeInv, TypeOK
  <2>. QED BY <1>0, <1>2, <2>1, <2>2, AcceptEffect, DescriptorsAreNat
       DEF AcceptServer, TypeInv, TypeOK, ClientsCovered, SockState
<1>3. CASE AcceptClient
  <2>1. status = "running" /\ Accept(ClientListen) /\ ClientListen \in Listen
    BY <1>3 DEF AcceptClient, At, Alive, Listen
  <2>2. clients' \subseteq Fd /\ \A c \in clients' : c <= maxfds'
    BY <1>3, <2>1, AcceptEffect, DescriptorsAreNat
    DEF AcceptClient, Accepted, TypeInv, TypeOK, ClientsCovered
  <2>. QED BY <1>0, <1>3, <2>1, <2>2, AcceptEffect
       DEF AcceptClient, TypeInv, TypeOK, ClientsCovered, SockState
<1>4. CASE BeginPass
  <2>1. cursor' \in Fd \cup {NoFd}
    BY <1>4, IteratorRange DEF BeginPass, TypeInv, TypeOK
  <2>. QED BY <1>0, <1>4, <2>1 DEF BeginPass, TypeInv, TypeOK, ClientsCovered
<1>5. CASE EndServers
  <2>1. cursor' \in Fd \cup {NoFd}
    BY <1>5, IteratorRange DEF EndServers, TypeInv, TypeOK
  <2>. QED BY <1>0, <1>5, <2>1 DEF EndServers, TypeInv, TypeOK, ClientsCovered
<1>6. CASE EndClients
  BY <1>0, <1>6 DEF EndClients, TypeInv, TypeOK, ClientsCovered
<1>7. CASE EndRound
  BY <1>0, <1>7 DEF EndRound, Zeroed, TypeInv, TypeOK, ClientsCovered
<1>. QED BY <1>1, <1>2, <1>3, <1>4, <1>5, <1>6, <1>7
\* One iteration of a loop, for every branch it can take.
LEMMA ServeType ==
  ASSUME TypeInv, NEW f \in Fd, Serve(f)
  PROVE  TypeInv'
<1>. USE DEF fdsets, tables, round
<1>. DEFINE RanType == [by : {"none", "servers", "clients"}, cmd : Cmd \cup {"ZERO"},
                        fd : Fd \cup {NoFd}, src : Fd \cup {NoFd}]
<1>0. Idle \in RanType
  BY DEF Idle
<1>1. TypeOK /\ servers \in SUBSET Fd /\ clients \in SUBSET Fd
  BY DEF TypeInv, TypeOK
<1>2. CASE Skip(f)
  <2>1. LoopTail(servers, clients)
    BY <1>2 DEF Skip
  <2>. QED BY <1>0, <1>1, <1>2, <2>1, LoopTailEffect
       DEF Skip, TypeInv, TypeOK, ClientsCovered
<1>3. CASE Disconnect(f)
  <2>1. cursor' \in Fd \cup {NoFd}
    BY <1>1, <1>3, IteratorRange DEF Disconnect
  <2>2. Close(f)
    BY <1>3 DEF Disconnect
  <2>. QED BY <1>0, <1>3, <2>1, <2>2, CloseEffect
       DEF Disconnect, TypeInv, TypeOK, ClientsCovered
<1>4. ASSUME NEW b \in Received(f), Recv(f, b),
             \/ Ignore(f, b) \/ Crash(f, b) \/ Leave(f, b)
             \/ ServerList(f, b) \/ Connect(f, b) \/ Answer(f, b)
      PROVE  TypeInv'
  <2>1. /\ b \in [cmd : Cmd \cup {"ZERO"}, src : Fd \cup {NoFd}]
        /\ pc \in {"servers", "clients"}
        /\ buffer' = b /\ inbox' \in [Fd -> Cmd \cup {"NONE"}]
    BY <1>1, <1>4, RecvEffect
  <2>2. Execute(f, b) => ran' \in RanType
    BY <1>1, <2>1, ExecuteEffect
  <2>3. Reply(f) => status' \in {"running", "crashed"} /\ sending' \in Fd \cup {NoFd}
    BY DEF Reply
  <2>4. CASE Ignore(f, b)
    <3>1. LoopTail(servers, clients) /\ status' \in {"running", "crashed"}
      BY <2>4 DEF Ignore
    <3>. QED BY <1>0, <1>1, <2>1, <2>4, <3>1, LoopTailEffect
         DEF Ignore, TypeInv, TypeOK, ClientsCovered
  <2>5. CASE Crash(f, b)
    BY <2>1, <2>2, <2>5 DEF Crash, TypeInv, TypeOK, ClientsCovered
  <2>6. CASE Leave(f, b)
    <3>1. LoopTail(servers, clients) /\ Close(f) /\ Reply(f) /\ Execute(f, b)
      BY <2>6 DEF Leave
    <3>. QED BY <1>1, <2>1, <2>2, <2>3, <3>1, LoopTailEffect, CloseEffect
         DEF TypeInv, TypeOK, ClientsCovered
  <2>7. CASE ServerList(f, b)
    <3>1. CASE TableFull
      BY <2>1, <2>2, <2>7, <3>1 DEF ServerList, TypeInv, TypeOK, ClientsCovered
    <3>2. CASE ~ TableFull
      <4>1. PICK new \in SUBSET {g \in Fd : sock[g] = "free"} :
              /\ sock' = [g \in Fd |-> IF g \in new THEN "raw" ELSE sock[g]]
              /\ \E listed \in {{}, First(new)} : LoopTail(servers \cup listed, clients)
              /\ new # {} /\ Reply(f)
        BY <2>7, <3>2 DEF ServerList, Opened
      <4>. PICK listed \in {{}, First(new)} : LoopTail(servers \cup listed, clients)
        BY <4>1
      <4>2. First(new) \subseteq Fd
        BY <4>1 DEF First
      <4>3. servers \cup listed \in SUBSET Fd
        BY <1>1, <4>2
      <4>4. sock' \in [Fd -> SockState]
        BY <1>1, <4>1 DEF TypeOK, SockState
      <4>5. UNCHANGED <<eof, openSockets, maxfds>> /\ Execute(f, b)
        BY <2>7 DEF ServerList
      <4>. QED BY <1>1, <2>1, <2>2, <2>3, <4>1, <4>3, <4>4, <4>5, LoopTailEffect
           DEF TypeInv, TypeOK, ClientsCovered
    <3>. QED BY <3>1, <3>2
  <2>8. CASE Connect(f, b)
    <3>0. eof' = eof /\ Reply(f) /\ Execute(f, b)
      BY <2>8 DEF Connect
    <3>1. ASSUME NEW g \in Fd, Lowest(g),
                 sock' = [sock EXCEPT ![g] = "out"],
                 openSockets' = openSockets \cup {g},
                 maxfds' = Max({maxfds, g}),
                 LoopTail(servers \cup {g}, clients)
          PROVE  TypeInv'
      <4>1. maxfds \in Nat /\ g \in Nat
        BY DescriptorsAreNat DEF TypeInv, TypeOK
      <4>2. maxfds' \in Fd \cup Listen /\ maxfds <= maxfds'
        BY <1>1, <3>1, <4>1, MaxOfTwo DEF TypeOK
      <4>3. clients' \subseteq clients
        BY <1>1, <3>1, LoopTailEffect
      <4>4. ClientsCovered'
        BY <1>1, <4>1, <4>2, <4>3, DescriptorsAreNat DEF TypeInv, ClientsCovered
      <4>5. sock' \in [Fd -> SockState] /\ openSockets' \subseteq Fd \cup Listen
        BY <1>1, <3>1 DEF TypeOK, SockState
      <4>6. servers \cup {g} \in SUBSET Fd
        BY <1>1
      <4>7. /\ servers' \subseteq Fd /\ clients' \subseteq Fd
            /\ cursor' \in Fd \cup {NoFd}
            /\ UNCHANGED <<pc, gone, readSockets, n, backlog>>
        BY <1>1, <3>1, <4>6, LoopTailEffect
      <4>. QED BY <2>1, <2>2, <2>3, <3>0, <4>2, <4>4, <4>5, <4>7 DEF TypeInv, TypeOK
    <3>2. ASSUME NEW g \in Fd, sock' = [sock EXCEPT ![g] = "raw"],
                 UNCHANGED fdsets, LoopTail(servers, clients)
          PROVE  TypeInv'
      BY <1>1, <2>1, <2>2, <2>3, <3>0, <3>2, LoopTailEffect
      DEF TypeInv, TypeOK, ClientsCovered, SockState
    <3>3. ASSUME UNCHANGED <<sock, fdsets>>, LoopTail(servers, clients)
          PROVE  TypeInv'
      BY <1>1, <2>1, <2>2, <2>3, <3>0, <3>3, LoopTailEffect
      DEF TypeInv, TypeOK, ClientsCovered
    <3>. QED BY <2>8, <3>1, <3>2, <3>3 DEF Connect, EstablishConnection
  <2>9. CASE Answer(f, b)
    <3>1. /\ LoopTail(servers, clients) /\ Reply(f) /\ Execute(f, b)
          /\ UNCHANGED <<sock, eof, fdsets>>
      BY <2>9 DEF Answer
    <3>. QED BY <1>1, <2>1, <2>2, <2>3, <3>1, LoopTailEffect
         DEF TypeInv, TypeOK, ClientsCovered
  <2>. QED BY <1>4, <2>4, <2>5, <2>6, <2>7, <2>8, <2>9
<1>5. \A b : (Ignore(f, b) \/ Crash(f, b) \/ Leave(f, b) \/ ServerList(f, b)
              \/ Connect(f, b) \/ Answer(f, b)) => Recv(f, b)
  BY DEF Ignore, Crash, Leave, ServerList, Connect, Answer
<1>. QED BY <1>2, <1>3, <1>4, <1>5 DEF Serve

\* Every step keeps the types.
LEMMA TypeStep == TypeInv /\ [AnyNext]_vars => TypeInv'
<1>. SUFFICES ASSUME TypeInv, [AnyNext]_vars PROVE TypeInv'
  OBVIOUS
<1>1. CASE Main
  BY <1>1, RoundType, ServeType DEF Main
<1>2. CASE AnyPeers
  BY <1>2, PeersType
<1>3. CASE Killed
  BY <1>3 DEF Killed, kernel, tables, fdsets, round, locals, TypeInv, TypeOK, ClientsCovered
<1>4. CASE UNCHANGED vars
  BY <1>4 DEF vars, kernel, tables, fdsets, round, locals, TypeInv, TypeOK, ClientsCovered
<1>. QED BY <1>1, <1>2, <1>3, <1>4 DEF AnyNext, Ended

\* Every variable keeps its type: in particular maxfds is always a descriptor
\* and the iterators never leave the tables.
THEOREM TypeCorrect == Spec => []TypeOK
<1>1. Spec => []TypeInv
  BY TypeInit, TypeStep, NextIsAnyNext, PTL DEF Spec
<1>. QED BY <1>1, PTL DEF TypeInv
-----------------------------------------------------------------------------
(* The safety invariants. *)

\* Connections never have the number of a listening socket.
LEMMA ListenIsApart == Fd \cap Listen = {}
  BY FdAssumption DEF Listen

\* The inductive invariant holds after main's setup.
LEMMA InvInit == Init => IInv
<1>. SUFFICES ASSUME Init PROVE IInv
  OBVIOUS
<1>1. TypeInv
  BY TypeInit
<1>2. MonitorsConnections /\ SelectCoversAll
  BY FdAssumption DEF Init, MonitorsConnections, SelectCoversAll, Connected, Listen
<1>. QED BY <1>1, <1>2
     DEF Init, IInv, SelectNeverFails, GoneIsClosed, GoneIsEmpty, AcceptedIsListed,
         BufferIsClear, BufferFromThisRound, Zeroed

\* What peers do keeps the inductive invariant.
LEMMA PeersInv == IInv /\ TypeInv' /\ AnyPeers => IInv'
<1>. SUFFICES ASSUME IInv, TypeInv', AnyPeers PROVE IInv'
  OBVIOUS
<1>1. /\ UNCHANGED <<sock, tables, fdsets, round, locals>>
      /\ status' \in {status, "crashed"}
  BY DEF AnyPeers, PeerConnect, PeerClose, PeerSend, PeerReads, Alive
<1>. QED BY <1>1
     DEF tables, fdsets, round, locals, IInv, MonitorsConnections, Connected,
         SelectCoversAll, SelectNeverFails, GoneIsClosed, GoneIsEmpty,
         AcceptedIsListed, BufferIsClear, BufferFromThisRound

\* accept() adds one watched descriptor, above which maxfds is raised, and its
\* table entry.
LEMMA AcceptInv ==
  ASSUME IInv, TypeInv', AcceptServer \/ AcceptClient
  PROVE  IInv'
<1>1. /\ status = "running" /\ pc \in {"acceptServer", "acceptClient"}
      /\ \E l \in Listen : Accept(l)
      /\ pc' \in {"acceptClient", "pass"}
      /\ Accepted \cup servers \cup clients \subseteq servers' \cup clients'
      /\ UNCHANGED <<readSockets, gone, buffer>>
  BY DEF AcceptServer, AcceptClient, At, Alive, Listen
<1>2. gone = {}
  BY <1>1 DEF IInv, GoneIsEmpty
<1>3. CASE UNCHANGED <<sock, openSockets, maxfds>>
  BY <1>1, <1>2, <1>3, AcceptEffect
  DEF IInv, MonitorsConnections, Connected, SelectCoversAll, SelectNeverFails,
      GoneIsClosed, GoneIsEmpty, AcceptedIsListed, BufferIsClear, BufferFromThisRound
<1>4. ASSUME NEW f \in Fd, sock[f] = "free", sock' = [sock EXCEPT ![f] = "in"],
             openSockets' = openSockets \cup {f}, maxfds' \in Fd \cup Listen,
             maxfds <= maxfds', f <= maxfds'
      PROVE  IInv'
  <2>1. sock \in [Fd -> SockState] /\ openSockets \subseteq Fd \cup Listen
        /\ maxfds \in Fd \cup Listen
    BY DEF IInv, TypeInv, TypeOK
  <2>2. f \notin openSockets
    BY <1>4, ListenIsApart DEF IInv, MonitorsConnections, Connected
  <2>3. MonitorsConnections'
    <3>1. Connected' = Connected \cup {f}
      BY <1>4, <2>1 DEF Connected
    <3>. QED BY <1>4, <3>1 DEF IInv, MonitorsConnections
  <2>4. SelectCoversAll'
    BY <1>4, <2>1, DescriptorsAreNat DEF IInv, SelectCoversAll
  <2>5. AcceptedIsListed'
    <3>1. f \in servers' \cup clients'
      BY <1>1, <1>4, <2>2 DEF Accepted
    <3>. QED BY <1>1, <1>4, <2>1, <3>1, ListenIsApart DEF IInv, AcceptedIsListed
  <2>6. status' \in {"running", "exhausted"}
    BY <1>1, AcceptEffect DEF IInv
  <2>. QED BY <1>1, <1>2, <2>3, <2>4, <2>5, <2>6
       DEF IInv, SelectNeverFails, GoneIsClosed, GoneIsEmpty, BufferIsClear,
           BufferFromThisRound
<1>. QED BY <1>1, <1>3, <1>4, AcceptEffect DEF IInv

\* The other steps of main outside the bodies of the loops.
LEMMA RoundInv ==
  ASSUME IInv, TypeInv', Select \/ BeginPass \/ EndServers \/ EndClients \/ EndRound
  PROVE  IInv'
<1>. USE DEF kernel, tables, fdsets, IInv
<1>1. UNCHANGED <<sock, openSockets, maxfds, servers, clients>>
  BY DEF Select, BeginPass, EndServers, EndClients, EndRound
<1>2. /\ MonitorsConnections' /\ SelectCoversAll' /\ AcceptedIsListed'
  BY <1>1 DEF MonitorsConnections, Connected, SelectCoversAll, AcceptedIsListed
<1>3. CASE Select
  <2>1. ~ BadDescriptor
    BY DEF BadDescriptor, MonitorsConnections, Connected
  <2>. QED BY <1>1, <1>2, <1>3, <2>1
       DEF Select, At, Alive, SelectNeverFails, GoneIsClosed, GoneIsEmpty, BufferIsClear,
           BufferFromThisRound
<1>4. CASE BeginPass \/ EndServers \/ EndClients
  BY <1>1, <1>2, <1>4
  DEF BeginPass, EndServers, EndClients, At, Alive, round, SelectNeverFails, GoneIsClosed,
      GoneIsEmpty, BufferIsClear, BufferFromThisRound
<1>5. CASE EndRound
  BY <1>1, <1>2, <1>5
  DEF EndRound, At, Alive, Zeroed, SelectNeverFails, GoneIsClosed, GoneIsEmpty, BufferIsClear,
      BufferFromThisRound
<1>. QED BY <1>3, <1>4, <1>5
\* An iteration that accepts nothing and reaches the end of its body keeps
\* everything but the descriptor sets, whatever entries its handler adds.
LEMMA IterationInv ==
  ASSUME IInv, TypeInv', pc \in {"servers", "clients"},
         NEW S \in SUBSET Fd, NEW C \in SUBSET Fd, LoopTail(S, C),
         servers \cup clients \subseteq S \cup C,
         \A x \in Fd : sock'[x] = "in" => sock[x] = "in",
         status' # "finished",
         buffer' = buffer \/ buffer'.src \in readSockets
  PROVE  /\ SelectNeverFails' /\ GoneIsClosed' /\ GoneIsEmpty' /\ AcceptedIsListed'
         /\ BufferIsClear' /\ BufferFromThisRound'
<1>1. UNCHANGED <<pc, gone, readSockets>>
  BY LoopTailEffect
<1>2. gone \subseteq Fd
  BY DEF IInv, TypeInv, TypeOK
<1>3. GoneIsClosed'
  BY <1>1, <1>2 DEF IInv, GoneIsClosed
<1>4. AcceptedIsListed'
  <2>. SUFFICES ASSUME NEW x \in openSockets' \ Listen, sock'[x] = "in"
                PROVE  x \in servers' \cup clients'
    BY DEF AcceptedIsListed
  <2>1. x \in Fd /\ sock[x] = "in"
    BY DEF TypeInv, TypeOK
  <2>2. x \in openSockets \ Listen
    BY <2>1, ListenIsApart DEF IInv, MonitorsConnections, Connected
  <2>3. x \in S \cup C /\ x \notin gone
    BY <2>1, <2>2 DEF IInv, AcceptedIsListed, GoneIsClosed
  <2>. QED BY <2>3, LoopTailEffect
<1>5. BufferFromThisRound'
  BY <1>1 DEF IInv, BufferFromThisRound
<1>. QED BY <1>1, <1>3, <1>4, <1>5 DEF SelectNeverFails, GoneIsEmpty, BufferIsClear

\* closeClient() takes a descriptor out of the watched set with its connection.
LEMMA CloseInv ==
  ASSUME IInv, TypeInv', NEW f \in Fd, Close(f)
  PROVE  /\ MonitorsConnections' /\ SelectCoversAll'
         /\ \A x \in Fd : sock'[x] = "in" => sock[x] = "in" /\ x # f
<1>1. sock \in [Fd -> SockState]
  BY DEF IInv, TypeInv, TypeOK
<1>2. Connected' = Connected \ {f}
  BY <1>1, CloseEffect DEF IInv, Connected
<1>3. MonitorsConnections'
  BY <1>2, CloseEffect, ListenIsApart DEF IInv, MonitorsConnections
<1>4. SelectCoversAll'
  BY CloseEffect DEF IInv, SelectCoversAll
<1>. QED BY <1>1, <1>3, <1>4, CloseEffect DEF IInv

\* One iteration over a table keeps the inductive invariant.
LEMMA ServeInv ==
  ASSUME IInv, TypeInv', NEW f \in Fd, Serve(f)
  PROVE  IInv'
<1>. USE DEF fdsets
<1>1. /\ TypeOK /\ servers \in SUBSET Fd /\ clients \in SUBSET Fd
      /\ sock \in [Fd -> SockState]
  BY DEF IInv, TypeInv, TypeOK
<1>2. UNCHANGED <<sock, fdsets>> => MonitorsConnections' /\ SelectCoversAll'
  BY DEF IInv, MonitorsConnections, Connected, SelectCoversAll
<1>3. CASE Skip(f)
  <2>1. /\ pc \in {"servers", "clients"} /\ LoopTail(servers, clients)
        /\ UNCHANGED <<status, sock, fdsets, buffer>>
    BY <1>3 DEF Skip, InLoop
  <2>2. status' # "finished"
    BY <2>1 DEF IInv, SelectNeverFails
  <2>. QED BY <1>1, <1>2, <2>1, <2>2, IterationInv DEF IInv
<1>4. CASE Disconnect(f)
  <2>1. /\ status = "running" /\ status' = status /\ pc' \in {"clients", "pass"}
        /\ Close(f) /\ gone' = gone \cup {f} /\ UNCHANGED <<tables, round, buffer>>
    BY <1>4 DEF Disconnect, InLoop, At, Alive
  <2>2. GoneIsClosed'
    BY <1>1, <2>1, CloseInv DEF IInv, TypeOK, GoneIsClosed
  <2>3. AcceptedIsListed'
    <3>1. openSockets' = openSockets \ {f}
      BY <2>1, CloseEffect DEF IInv
    <3>2. openSockets \ Listen \subseteq Fd
      BY <1>1 DEF TypeOK
    <3>. QED BY <2>1, <3>1, <3>2, CloseInv DEF IInv, AcceptedIsListed, tables
  <2>. QED BY <2>1, <2>2, <2>3, CloseInv
       DEF IInv, SelectNeverFails, GoneIsEmpty, BufferIsClear, BufferFromThisRound, round
<1>5. ASSUME NEW b \in Received(f), Recv(f, b),
             \/ Ignore(f, b) \/ Crash(f, b) \/ Leave(f, b)
             \/ ServerList(f, b) \/ Connect(f, b) \/ Answer(f, b)
      PROVE  IInv'
  <2>1. /\ pc \in {"servers", "clients"}
        /\ buffer' = buffer \/ buffer'.src \in readSockets
    BY <1>1, <1>5, RecvEffect
  <2>2. Reply(f) => status' # "finished"
    BY DEF Reply
  <2>3. CASE Ignore(f, b)
    <3>1. /\ LoopTail(servers, clients) /\ status' # "finished"
          /\ UNCHANGED <<sock, fdsets>>
      BY <2>3 DEF Ignore
    <3>. QED BY <1>1, <1>2, <2>1, <3>1, IterationInv DEF IInv
  <2>4. CASE Crash(f, b)
    <3>1. /\ status' = "crashed"
          /\ UNCHANGED <<sock, tables, fdsets, round, pc, gone>>
      BY <2>4 DEF Crash
    <3>. QED BY <1>2, <2>1, <3>1
         DEF tables, round, IInv, SelectNeverFails, GoneIsClosed, GoneIsEmpty,
             AcceptedIsListed, BufferIsClear, BufferFromThisRound
  <2>5. CASE Leave(f, b)
    <3>1. LoopTail(servers, clients) /\ Close(f) /\ status' # "finished"
      BY <2>2, <2>5 DEF Leave
    <3>. QED BY <1>1, <2>1, <3>1, CloseInv, IterationInv DEF IInv
  <2>6. CASE ServerList(f, b)
    <3>1. CASE TableFull
      BY <1>2, <2>1, <2>6, <3>1
      DEF ServerList, tables, round, IInv, SelectNeverFails, GoneIsClosed, GoneIsEmpty,
          AcceptedIsListed, BufferIsClear, BufferFromThisRound
    <3>2. CASE ~ TableFull
      <4>1. PICK new \in SUBSET {g \in Fd : sock[g] = "free"} :
              /\ sock' = [g \in Fd |-> IF g \in new THEN "raw" ELSE sock[g]]
              /\ \E listed \in {{}, First(new)} : LoopTail(servers \cup listed, clients)
              /\ new # {} /\ Reply(f)
        BY <2>6, <3>2 DEF ServerList, Opened
      <4>. PICK listed \in {{}, First(new)} : LoopTail(servers \cup listed, clients)
        BY <4>1
      <4>2. First(new) \subseteq Fd
        BY <4>1 DEF First
      <4>3. servers \cup listed \in SUBSET Fd
        BY <1>1, <4>2
      <4>4. Connected' = Connected /\ \A x \in Fd : sock'[x] = "in" => sock[x] = "in"
        BY <1>1, <4>1 DEF Connected
      <4>5. UNCHANGED fdsets
        BY <2>6 DEF ServerList
      <4>6. MonitorsConnections' /\ SelectCoversAll'
        BY <4>4, <4>5 DEF IInv, MonitorsConnections, SelectCoversAll
      <4>. QED BY <1>1, <2>1, <2>2, <4>1, <4>3, <4>4, <4>6, IterationInv DEF IInv
    <3>. QED BY <3>1, <3>2
  <2>7. CASE Connect(f, b)
    <3>0. status' # "finished"
      BY <2>2, <2>7 DEF Connect
    <3>1. ASSUME NEW g \in Fd, Lowest(g),
                 sock' = [sock EXCEPT ![g] = "out"],
                 openSockets' = openSockets \cup {g},
                 maxfds' = Max({maxfds, g}),
                 LoopTail(servers \cup {g}, clients)
          PROVE  IInv'
      <4>1. maxfds \in Nat /\ g \in Nat
        BY <1>1, DescriptorsAreNat DEF TypeOK
      <4>2. maxfds <= maxfds' /\ g <= maxfds'
        BY <3>1, <4>1, MaxOfTwo
      <4>3. /\ Connected' = Connected \cup {g}
            /\ \A x \in Fd : sock'[x] = "in" => sock[x] = "in"
        BY <1>1, <3>1 DEF Connected
      <4>4. MonitorsConnections'
        BY <3>1, <4>3 DEF IInv, MonitorsConnections
      <4>5. SelectCoversAll'
        <5>1. openSockets \subseteq Nat /\ maxfds' \in Nat
          BY <1>1, DescriptorsAreNat DEF TypeInv, TypeOK
        <5>. QED BY <3>1, <4>1, <4>2, <5>1 DEF IInv, SelectCoversAll
      <4>6. servers \cup {g} \in SUBSET Fd
        BY <1>1
      <4>. QED BY <1>1, <2>1, <3>0, <3>1, <4>3, <4>4, <4>5, <4>6, IterationInv DEF IInv
    <3>2. ASSUME NEW g \in Fd, Lowest(g), sock' = [sock EXCEPT ![g] = "raw"],
                 UNCHANGED fdsets, LoopTail(servers, clients)
          PROVE  IInv'
      <4>1. Connected' = Connected /\ \A x \in Fd : sock'[x] = "in" => sock[x] = "in"
        BY <1>1, <3>2 DEF Connected, Lowest
      <4>2. MonitorsConnections' /\ SelectCoversAll'
        BY <3>2, <4>1 DEF IInv, MonitorsConnections, SelectCoversAll
      <4>. QED BY <1>1, <2>1, <3>0, <3>2, <4>1, <4>2, IterationInv DEF IInv
    <3>3. ASSUME UNCHANGED <<sock, fdsets>>, LoopTail(servers, clients)
          PROVE  IInv'
      BY <1>1, <1>2, <2>1, <3>0, <3>3, IterationInv DEF IInv
    <3>. QED BY <2>7, <3>1, <3>2, <3>3 DEF Connect, EstablishConnection
  <2>8. CASE Answer(f, b)
    <3>1. /\ LoopTail(servers, clients) /\ status' # "finished"
          /\ UNCHANGED <<sock, fdsets>>
      BY <2>2, <2>8 DEF Answer
    <3>. QED BY <1>1, <1>2, <2>1, <3>1, IterationInv DEF IInv
  <2>. QED BY <1>5, <2>3, <2>4, <2>5, <2>6, <2>7, <2>8
<1>6. \A b : (Ignore(f, b) \/ Crash(f, b) \/ Leave(f, b) \/ ServerList(f, b)
              \/ Connect(f, b) \/ Answer(f, b)) => Recv(f, b)
  BY DEF Ignore, Crash, Leave, ServerList, Connect, Answer
<1>. QED BY <1>3, <1>4, <1>5, <1>6 DEF Serve

\* Every step keeps the inductive invariant.
LEMMA InvStep == IInv /\ [AnyNext]_vars => IInv'
<1>. SUFFICES ASSUME IInv, [AnyNext]_vars PROVE IInv'
  OBVIOUS
<1>1. TypeInv'
  BY TypeStep DEF IInv
<1>2. CASE Main
  BY <1>1, <1>2, AcceptInv, RoundInv, ServeInv DEF Main
<1>3. CASE AnyPeers
  BY <1>1, <1>3, PeersInv
<1>4. CASE Killed \/ UNCHANGED vars
  BY <1>1, <1>4
  DEF Killed, vars, kernel, tables, fdsets, round, locals, IInv, MonitorsConnections,
      Connected, SelectCoversAll, SelectNeverFails, GoneIsClosed, GoneIsEmpty,
      AcceptedIsListed, BufferIsClear, BufferFromThisRound
<1>. QED BY <1>2, <1>3, <1>4 DEF AnyNext, Ended

\* The inductive invariant always holds.
LEMMA Invariance == Spec => []IInv
  BY InvInit, InvStep, NextIsAnyNext, PTL DEF Spec

\* select() watches the listening sockets and exactly the live connections.
THEOREM ConnectionsMonitored == Spec => []MonitorsConnections
  BY Invariance, PTL DEF IInv

\* maxfds, which select() is called with, is never below a watched descriptor.
THEOREM MaxfdsCovers == Spec => []SelectCoversAll
  BY Invariance, PTL DEF IInv

\* The server never leaves its loop by an error of select().
THEOREM ServerNeverFinishes == Spec => []SelectNeverFails
  BY Invariance, PTL DEF IInv

\* An accepted connection is in a table for as long as it lives, whatever
\* numbers the kernel hands out again.
THEOREM AcceptedStaysListed == Spec => []AcceptedIsListed
  BY Invariance, PTL DEF IInv

\* Bytes in the receive buffer come from a descriptor of the current round.
THEOREM BufferIsOfThisRound == Spec => []BufferFromThisRound
  BY Invariance, PTL DEF IInv
=============================================================================
