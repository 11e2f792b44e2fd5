-------------------------- MODULE SysService_proofs -------------------------
(***************************************************************************)
(* The remote command server keeps its promises among its own clients, and *)
(* a client that waits is owed an answer, for every number of clients and  *)
(* of lines.                                                               *)
(*                                                                         *)
(* Lock step is not inductive by itself: closeClient discards the requests *)
(* and answers of a connection, so that none is one of a waiting client    *)
(* needs that only clients that quit have closed their end (GoneIsOff).    *)
(***************************************************************************)
EXTENDS SysService, FiniteSetTheorems, TLAPS

-----------------------------------------------------------------------------
(***************************************************************************)
(* The safety invariants of SysServer, for every set of descriptors, every *)
(* content of the uncleared fd_set and every set of peers.                 *)
(*                                                                         *)
(* None of them is inductive.  WatchesConnections needs that maxfds is     *)
(* never lowered, which holds because a closed client stays in the set of  *)
(* clients until its pass ends and no client is above maxfds.              *)
(* ClientsAreConnected needs that the closed clients are behind the cursor *)
(* (ClosedAreBehind), so that none is served or closed again.              *)
(* OnlyAskersAreAnswered needs that a connection select() reported has     *)
(* asked or has gone (ReportedAreDue), and that no two descriptors are one *)
(* peer's (OnePeerEach).                                                   *)
(***************************************************************************)

ClientsCovered == \A c \in clients : c <= maxfds

ClosedAreBehind ==
  /\ clients = Linked \cup clientSocketsToClear
  /\ clientSocketsToClear \cap Linked = {}
  /\ pc # "clients" => clientSocketsToClear = {}
  /\ pc = "clients" /\ cursor # NoFd =>
       cursor \in clients /\ \A t \in clientSocketsToClear : t < cursor

OnePeerEach ==
  /\ \A f, g \in Linked : sock[f] = sock[g] => f = g
  /\ \A f \in Linked : sock[f] \notin backlog
  /\ eof \subseteq Known

UnreadIsAsked == \A p \in Peer : inbox[p] # "NONE" => p \in asked

ReportedAreDue ==
  /\ \A f \in readSockets \cap Linked : sock[f] \in asked \cup eof
  /\ pc = "accept" => readSockets \cap Fd \subseteq Linked

BufferIsClear == pc = "select" => buffer.cmd = Zero

\* The inductive invariant.
SysIInv ==
  /\ SysTypeOK /\ ClientsCovered /\ ClosedAreBehind
  /\ WatchesConnections /\ SelectNeverFails
  /\ OnePeerEach /\ UnreadIsAsked /\ ReportedAreDue /\ OnlyAskersAreAnswered
  /\ BufferIsClear /\ RequestOfThisRound

-----------------------------------------------------------------------------
(* Operators. *)

\* Descriptors are numbers, and -1 is none of them.
LEMMA SysDescriptors ==
  /\ Fd \subseteq Nat /\ Std \subseteq Nat /\ ListenSock \in Nat
  /\ NoFd \notin Fd \cup Std \cup {ListenSock}
  /\ ListenSock \notin Fd \cup Std /\ Fd \cap Std = {}
  BY SysFdAssumption DEF NoFd

\* std::max() of two numbers.
LEMMA MaxOfTwo ==
  ASSUME NEW a \in Nat, NEW b \in Nat
  PROVE  Max({a, b}) \in {a, b} /\ a <= Max({a, b}) /\ b <= Max({a, b})
<1>1. \E x \in {a, b} : \A y \in {a, b} : x >= y
  <2>1. CASE a >= b
    BY <2>1
  <2>2. CASE ~ (a >= b)
    BY <2>2
  <2>. QED BY <2>1, <2>2
<1>2. Max({a, b}) \in {a, b} /\ \A y \in {a, b} : Max({a, b}) >= y
  BY <1>1 DEF Max
<1>. QED BY <1>2

\* The largest element of a finite set of numbers.
LEMMA MaxIsMember ==
  ASSUME NEW S \in SUBSET Nat, NEW a \in S, \A s \in S : s <= a
  PROVE  Max(S) = a
<1>1. \A y \in S : a >= y
  OBVIOUS
<1>2. Max(S) \in S /\ \A y \in S : Max(S) >= y
  BY <1>1 DEF Max
<1>3. \A x \in S : (\A y \in S : x >= y) => x = a
  OBVIOUS
<1>. QED BY <1>2, <1>3

\* A walk starts and goes on at clients.
LEMMA FirstRange ==
  ASSUME NEW S \in SUBSET Fd, NEW c \in First(S)
  PROVE  c \in Fd \cup {NoFd} /\ (c # NoFd => c \in S)
  BY DEF First

\* closeClient never lowers maxfds: the client it closes is still among them.
LEMMA MaxfdsStays ==
  ASSUME SysTypeOK, ClientsCovered, NEW f \in clients
  PROVE  NewMaxfds(f) = maxfds
<1>1. CASE maxfds # f
  BY <1>1 DEF NewMaxfds
<1>2. CASE maxfds = f
  <2>1. clients \in SUBSET Nat /\ f \in Fd /\ \A c \in clients : c <= f
    BY <1>2, SysDescriptors DEF SysTypeOK, ClientsCovered
  <2>2. Max(clients) = f
    BY <2>1, MaxIsMember
  <2>3. f \in Nat /\ ListenSock \in Nat /\ ListenSock < f
    BY <2>1, SysFdAssumption
  <2>4. Max({f, ListenSock}) = f
    BY <2>3, MaxOfTwo
  <2>. QED BY <1>2, <2>2, <2>4 DEF NewMaxfds
<1>. QED BY <1>1, <1>2

-----------------------------------------------------------------------------
(* One lemma for each action, or group of actions alike. *)

\* What peers do keeps the inductive invariant.
LEMMA PeersKeep == ASSUME SysIInv, Peers PROVE SysIInv'
<1>. USE DEF SysIInv, SysTypeOK, ClientsCovered, ClosedAreBehind, WatchesConnections,
             SelectNeverFails, OnePeerEach, UnreadIsAsked, ReportedAreDue,
             OnlyAskersAreAnswered, BufferIsClear, RequestOfThisRound,
             Linked, Known, watched, round, walk
<1>1. ASSUME NEW p \in Peer, PeerConnects(p) PROVE SysIInv'
  BY <1>1 DEF PeerConnects
<1>2. ASSUME NEW p \in Peer, PeerReads(p) PROVE SysIInv'
  <2>1. PICK k \in 0..answers[p] : answers' = [answers EXCEPT ![p] = @ - k]
    BY <1>2 DEF PeerReads
  <2>2. answers' \in [Peer -> Nat] /\ \A q \in Peer : answers'[q] <= answers[q]
    BY <2>1
  <2>3. sending' \in Fd \cup {NoFd}
    BY <1>2 DEF PeerReads
  <2>. QED BY <1>2, <2>2, <2>3 DEF PeerReads
<1>3. ASSUME NEW p \in Peer, PeerCloses(p) PROVE SysIInv'
  BY <1>3 DEF PeerCloses
<1>4. ASSUME NEW p \in Peer, NEW r \in Requests, PeerSends(p, r) PROVE SysIInv'
  <2>1. r \in Request
    BY SysPeerAssumption
  <2>. QED BY <1>4, <2>1 DEF PeerSends
<1>. QED BY <1>1, <1>2, <1>3, <1>4 DEF Peers

\* select() keeps the inductive invariant, and does not fail.
LEMMA SelectKeeps == ASSUME SysIInv, Select PROVE SysIInv'
<1>1. ~ BadDescriptor
  BY SysDescriptors DEF SysIInv, WatchesConnections, BadDescriptor, Linked
<1>2. PICK R \in SUBSET openSockets : Reports(R) /\ readSockets' = R /\ n' = Cardinality(R)
  BY <1>1 DEF Select
<1>3. IsFiniteSet(R)
  <2>1. openSockets \subseteq (Fd \cup Std) \cup {ListenSock}
    BY DEF SysIInv, SysTypeOK
  <2>2. IsFiniteSet((Fd \cup Std) \cup {ListenSock})
    BY SysFdAssumption, FS_Union, FS_Singleton
  <2>. QED BY <2>1, <2>2, FS_Subset
<1>4. n' \in Int
  BY <1>2, <1>3, FS_CardinalityType
<1>5. \A f \in R \cap Fd : Pending(f)
  BY <1>2, SysDescriptors DEF Reports
<1>6. R \cap Fd \subseteq Linked /\ \A f \in R \cap Linked : sock[f] \in asked \cup eof
  <2>1. \A f \in Linked : f \in Fd /\ sock[f] \in Peer
    BY DEF SysIInv, SysTypeOK, Linked
  <2>. QED BY <1>5, <2>1 DEF Pending, SysIInv, UnreadIsAsked
<1>. QED BY <1>1, <1>2, <1>4, <1>6
     DEF Select, At, SysIInv, SysTypeOK, ClientsCovered, ClosedAreBehind,
         WatchesConnections, SelectNeverFails, OnePeerEach, UnreadIsAsked,
         ReportedAreDue, OnlyAskersAreAnswered, BufferIsClear, RequestOfThisRound,
         Linked, Known, kernel, network, watched

\* accept() keeps the inductive invariant.
LEMMA AcceptKeeps == ASSUME SysIInv, Accept PROVE SysIInv'
<1>. USE DEF SysIInv, SysTypeOK, ClientsCovered, ClosedAreBehind, WatchesConnections,
             SelectNeverFails, OnePeerEach, UnreadIsAsked, ReportedAreDue,
             OnlyAskersAreAnswered, BufferIsClear, RequestOfThisRound,
             Linked, Known, watched, At, Alive
<1>1. CASE ListenSock \notin readSockets
  BY <1>1 DEF Accept
<1>2. CASE ListenSock \in readSockets /\ Linked = Fd
  BY <1>2 DEF Accept
<1>3. CASE ListenSock \in readSockets /\ Linked # Fd
  <2>1. PICK p \in backlog, f \in Fd \ Linked :
          /\ \A g \in Fd \ Linked : f <= g
          /\ sock' = [sock EXCEPT ![f] = p]
          /\ backlog' = backlog \ {p}
          /\ openSockets' = openSockets \cup {f}
          /\ maxfds' = Max({maxfds, f})
          /\ clients' = clients \cup {f}
          /\ n' = n - 1 /\ status' = status
    BY <1>3 DEF Accept
  <2>2. /\ pc = "accept" /\ pc' = "pass"
        /\ UNCHANGED <<inbox, eof, answers, asked, readSockets, buffer, cursor,
                       clientSocketsToClear>>
    BY DEF Accept
  <2>. sending' = sending
    BY DEF Accept
  <2>3. p \in Peer /\ p # Nobody /\ f \in Nat /\ maxfds \in Nat
    BY <2>1, SysDescriptors, SysPeerAssumption
  <2>4. /\ maxfds' \in {maxfds, f} /\ maxfds <= maxfds' /\ f <= maxfds'
    BY <2>1, <2>3, MaxOfTwo
  <2>5. Linked' = Linked \cup {f}
    BY <2>1, <2>3
  <2>6. Known' = Known
    <3>1. Known \subseteq Known'
      BY <2>1, <2>5
    <3>2. Known' \subseteq Known
      BY <2>1, <2>5
    <3>. QED BY <3>1, <3>2
  <2>7. SysTypeOK'
    BY <2>1, <2>2, <2>3, <2>4
  <2>8. ClientsCovered' /\ ClosedAreBehind'
    <3>1. ClientsCovered'
      BY <2>1, <2>3, <2>4, SysDescriptors
    <3>2. ClosedAreBehind'
      BY <2>1, <2>2, <2>5
    <3>. QED BY <3>1, <3>2
  <2>9. WatchesConnections'
    <3>1. openSockets \subseteq Nat
      BY SysDescriptors
    <3>2. \A g \in openSockets : g <= maxfds => g <= maxfds'
      BY <3>1, <2>3, <2>4
    <3>3. \A g \in openSockets' : g <= maxfds' /\ g # f => g <= maxfds
      <4>. SUFFICES ASSUME NEW g \in openSockets', g <= maxfds', g # f, ~ (g <= maxfds)
                    PROVE FALSE
        OBVIOUS
      <4>1. g \in openSockets /\ g \in Nat /\ maxfds' = f /\ g < f
        BY <2>1, <2>3, <2>4, <3>1
      <4>2. g \in Fd
        BY <4>1, SysFdAssumption
      <4>3. g \notin Linked
        BY <4>1
      <4>4. f <= g
        BY <4>2, <4>3, <2>1
      <4>. QED BY <4>1, <4>4, <2>3
    <3>. QED BY <3>2, <3>3, <2>1, <2>4, <2>5, SysDescriptors
  <2>10. OnePeerEach'
    BY <2>1, <2>2, <2>3, <2>5, <2>6
  <2>11. UnreadIsAsked' /\ ReportedAreDue' /\ OnlyAskersAreAnswered'
    BY <2>1, <2>2, <2>3, <2>5
  <2>12. SelectNeverFails' /\ BufferIsClear' /\ RequestOfThisRound'
    BY <2>1, <2>2
  <2>. QED BY <2>7, <2>8, <2>9, <2>10, <2>11, <2>12
<1>. QED BY <1>1, <1>2, <1>3

\* Beginning and ending passes and rounds keeps the inductive invariant.
LEMMA PassKeeps == ASSUME SysIInv, BeginPass \/ EndRound \/ EndPass PROVE SysIInv'
<1>. USE DEF SysIInv, SysTypeOK, ClientsCovered, ClosedAreBehind, WatchesConnections,
             SelectNeverFails, OnePeerEach, UnreadIsAsked, ReportedAreDue,
             OnlyAskersAreAnswered, BufferIsClear, RequestOfThisRound,
             Linked, Known, kernel, network, watched, At, Alive
<1>1. CASE BeginPass
  <2>1. cursor' \in Fd \cup {NoFd} /\ (cursor' # NoFd => cursor' \in clients)
    BY <1>1, FirstRange DEF BeginPass
  <2>. QED BY <1>1, <2>1 DEF BeginPass
<1>2. CASE EndRound
  BY <1>2 DEF EndRound, Zeroed
<1>3. CASE EndPass
  BY <1>3 DEF EndPass, round
<1>. QED BY <1>1, <1>2, <1>3

\* The cursor is on a connection, and moves past it.
LEMMA VisitEffect ==
  ASSUME SysIInv, NEW f \in Fd, Visit(f)
  PROVE  /\ f \in Linked /\ f \in clients /\ sock[f] \in Peer
         /\ pc = "clients" /\ pc' = "clients" /\ status = "running"
         /\ UNCHANGED <<clients, round>>
         /\ cursor' \in Fd \cup {NoFd}
         /\ cursor' # NoFd =>
              cursor' \in clients /\ \A t \in clientSocketsToClear \cup {f} : t < cursor'
<1>1. /\ pc = "clients" /\ cursor = f /\ f # NoFd /\ pc' = pc /\ status = "running"
      /\ UNCHANGED <<clients, round>>
  BY SysDescriptors DEF Visit, At, Alive
<1>2. f \in clients /\ \A t \in clientSocketsToClear : t < f
  BY <1>1 DEF SysIInv, ClosedAreBehind
<1>3. f \in Linked /\ sock[f] \in Peer
  <2>1. f \notin clientSocketsToClear
    BY <1>2, SysDescriptors
  <2>. QED BY <1>2, <2>1 DEF SysIInv, SysTypeOK, ClosedAreBehind, Linked
<1>4. clients \subseteq Nat /\ clients \subseteq Fd /\ clientSocketsToClear \subseteq Nat
  BY SysDescriptors DEF SysIInv, SysTypeOK
<1>5. cursor' \in First({g \in clients : g > f})
  BY DEF Visit
<1>6. cursor' \in Fd \cup {NoFd} /\ (cursor' # NoFd => cursor' \in {g \in clients : g > f})
  BY <1>4, <1>5, FirstRange
<1>7. ASSUME cursor' # NoFd PROVE \A t \in clientSocketsToClear \cup {f} : t < cursor'
  <2>1. cursor' \in Nat /\ f \in Nat /\ f < cursor'
    BY <1>4, <1>6, <1>7, <1>2
  <2>. QED BY <1>2, <1>4, <2>1
<1>. QED BY <1>1, <1>2, <1>3, <1>6, <1>7

\* Passing over a client that is not ready keeps the inductive invariant.
LEMMA SkipKeeps == ASSUME SysIInv, NEW f \in Fd, Skip(f) PROVE SysIInv'
<1>1. Visit(f) /\ UNCHANGED <<status, kernel, watched, buffer, clientSocketsToClear>>
  BY DEF Skip
<1>. QED BY <1>1, VisitEffect
     DEF SysIInv, SysTypeOK, ClientsCovered, ClosedAreBehind, WatchesConnections,
         SelectNeverFails, OnePeerEach, UnreadIsAsked, ReportedAreDue,
         OnlyAskersAreAnswered, BufferIsClear, RequestOfThisRound, Linked, Known,
         kernel, network, watched, round

\* Answering a client keeps the inductive invariant.
LEMMA ServeKeeps == ASSUME SysIInv, NEW f \in Fd, Serve(f) PROVE SysIInv'
<1>1. Visit(f) /\ f \in readSockets
  BY DEF Serve
<1>2. /\ sock[f] \in asked
      /\ inbox[sock[f]] = "NONE" \/ inbox[sock[f]] \in Request
  <2>1. f \in Linked /\ sock[f] \in Peer
    BY <1>1, VisitEffect
  <2>2. sock[f] \in asked \cup eof
    BY <1>1, <2>1 DEF SysIInv, ReportedAreDue
  <2>3. ~ (sock[f] \in eof /\ inbox[sock[f]] = "NONE")
    BY DEF Serve
  <2>. QED BY <2>1, <2>2, <2>3 DEF SysIInv, UnreadIsAsked, SysTypeOK
<1>3. /\ buffer' \in [cmd : Request \cup {Zero}, src : Fd \cup {NoFd}]
      /\ buffer'.src \in readSockets \/ buffer' = buffer
  BY <1>1, <1>2 DEF Serve, Received, SysIInv, SysTypeOK
<1>4. /\ inbox' = [inbox EXCEPT ![sock[f]] = "NONE"]
      /\ answers' = [answers EXCEPT ![sock[f]] = @ + 1]
      /\ status' \in {"running", "crashed"} /\ sending' \in Fd \cup {NoFd}
      /\ UNCHANGED <<sock, backlog, eof, asked, watched, clientSocketsToClear>>
  BY DEF Serve, Outcome
<1>. QED BY <1>1, <1>2, <1>3, <1>4, VisitEffect
     DEF SysIInv, SysTypeOK, ClientsCovered, ClosedAreBehind, WatchesConnections,
         SelectNeverFails, OnePeerEach, UnreadIsAsked, ReportedAreDue,
         OnlyAskersAreAnswered, BufferIsClear, RequestOfThisRound, Linked, Known,
         watched, round

\* A send() that fails keeps the inductive invariant.
LEMMA SendFailsKeeps == ASSUME SysIInv, NEW f \in Fd, SendFails(f) PROVE SysIInv'
<1>1. /\ sending' = NoFd /\ status' \in {"running", "crashed"}
      /\ UNCHANGED <<sock, backlog, inbox, eof, answers, asked, watched, clients, round,
                     buffer, walk>>
  BY DEF SendFails
<1>. QED BY <1>1
     DEF SysIInv, SysTypeOK, ClientsCovered, ClosedAreBehind, WatchesConnections,
         SelectNeverFails, OnePeerEach, UnreadIsAsked, ReportedAreDue,
         OnlyAskersAreAnswered, BufferIsClear, RequestOfThisRound, Linked, Known,
         watched, round, walk

\* Closing a client keeps the inductive invariant.
LEMMA DisconnectKeeps == ASSUME SysIInv, NEW f \in Fd, Disconnect(f) PROVE SysIInv'
<1>. DEFINE p == sock[f]
<1>1. /\ Visit(f) /\ clientSocketsToClear' = clientSocketsToClear \cup {f}
      /\ UNCHANGED <<status, buffer>>
  BY DEF Disconnect
<1>2. /\ sock' = [sock EXCEPT ![f] = Nobody]
      /\ inbox' = [inbox EXCEPT ![p] = "NONE"]
      /\ answers' = [answers EXCEPT ![p] = 0]
      /\ eof' = eof \ {p} /\ asked' = asked \ {p}
      /\ maxfds' = NewMaxfds(f)
      /\ openSockets' = openSockets \ {f}
      /\ backlog' = backlog /\ sending' = sending
  BY DEF Disconnect, CloseClient
<1>3. /\ f \in Linked /\ f \in clients /\ p \in Peer
      /\ pc = "clients" /\ pc' = "clients" /\ status = "running"
      /\ UNCHANGED <<clients, readSockets, n>>
      /\ cursor' \in Fd \cup {NoFd}
      /\ cursor' # NoFd =>
           cursor' \in clients /\ \A t \in clientSocketsToClear' : t < cursor'
  BY <1>1, VisitEffect DEF round
<1>4. maxfds' = maxfds
  BY <1>2, <1>3, MaxfdsStays DEF SysIInv
<1>5. Linked' = Linked \ {f}
  BY <1>2, <1>3 DEF Linked, SysIInv, SysTypeOK
<1>6. SysTypeOK'
  BY <1>1, <1>2, <1>3, <1>4 DEF SysIInv, SysTypeOK
<1>7. ClientsCovered' /\ ClosedAreBehind'
  BY <1>1, <1>3, <1>4, <1>5 DEF SysIInv, ClientsCovered, ClosedAreBehind
<1>8. WatchesConnections'
  BY <1>2, <1>4, <1>5, SysDescriptors DEF SysIInv, WatchesConnections
<1>9. OnePeerEach'
  <2>1. \A g \in Linked' : g \in Fd /\ g # f /\ g \in Linked /\ sock'[g] = sock[g]
    BY <1>2, <1>3, <1>5 DEF Linked, SysIInv, SysTypeOK
  <2>2. eof' \subseteq Known'
    BY <1>2, <1>3, <1>5, <2>1 DEF SysIInv, OnePeerEach, Known
  <2>. QED BY <1>2, <2>1, <2>2 DEF SysIInv, OnePeerEach
<1>10. UnreadIsAsked' /\ OnlyAskersAreAnswered'
  BY <1>2, <1>3 DEF SysIInv, SysTypeOK, UnreadIsAsked, OnlyAskersAreAnswered
<1>11. ReportedAreDue'
  <2>1. \A g \in Linked' : g \in Linked /\ sock'[g] = sock[g] /\ sock[g] # p
    BY <1>2, <1>3, <1>5 DEF Linked, SysIInv, SysTypeOK, OnePeerEach
  <2>. QED BY <1>2, <1>3, <2>1 DEF SysIInv, ReportedAreDue
<1>12. SelectNeverFails' /\ BufferIsClear' /\ RequestOfThisRound'
  BY <1>1, <1>3 DEF SysIInv, SelectNeverFails, BufferIsClear, RequestOfThisRound
<1>. QED BY <1>6, <1>7, <1>8, <1>9, <1>10, <1>11, <1>12 DEF SysIInv

-----------------------------------------------------------------------------
(* The specification. *)

\* The inductive invariant holds after main's setup.
LEMMA SysInitInv == SysInit => SysIInv
<1>. SUFFICES ASSUME SysInit PROVE SysIInv
  OBVIOUS
<1>1. Linked = {}
  BY DEF SysInit, Linked
<1>2. SysTypeOK
  <2>1. buffer \in [cmd : Request \cup {Zero}, src : Fd \cup {NoFd}]
    BY DEF SysInit, Zeroed
  <2>. QED BY <2>1, SysFdAssumption DEF SysInit, SysTypeOK
<1>3. WatchesConnections
  <2>1. openSockets = Stray \cup {ListenSock} /\ maxfds = ListenSock
    BY DEF SysInit
  <2>2. \A f \in Stray : f <= ListenSock <=> f \in Std
    BY SysFdAssumption
  <2>3. ListenSock <= ListenSock
    BY SysDescriptors
  <2>. QED BY <1>1, <2>1, <2>2, <2>3 DEF WatchesConnections
<1>. QED BY <1>1, <1>2, <1>3
     DEF SysInit, SysIInv, ClientsCovered, ClosedAreBehind, SelectNeverFails,
         OnePeerEach, UnreadIsAsked, ReportedAreDue, OnlyAskersAreAnswered,
         BufferIsClear, RequestOfThisRound, Zeroed

\* Every step keeps the inductive invariant.
LEMMA SysStepInv == SysIInv /\ [SysNext]_sysvars => SysIInv'
<1>. SUFFICES ASSUME SysIInv, [SysNext]_sysvars PROVE SysIInv'
  OBVIOUS
<1>1. CASE Server
  BY <1>1, SelectKeeps, AcceptKeeps, PassKeeps, SkipKeeps, ServeKeeps, DisconnectKeeps,
     SendFailsKeeps DEF Server
<1>2. CASE Peers
  BY <1>2, PeersKeep
<1>3. CASE Interrupt \/ Ended \/ UNCHANGED sysvars
  BY <1>3
     DEF Interrupt, Ended, sysvars, kernel, network, watched, round, walk,
         SysIInv, SysTypeOK, ClientsCovered, ClosedAreBehind, WatchesConnections,
         SelectNeverFails, OnePeerEach, UnreadIsAsked, ReportedAreDue,
         OnlyAskersAreAnswered, BufferIsClear, RequestOfThisRound, Linked, Known
<1>. QED BY <1>1, <1>2, <1>3 DEF SysNext

\* The inductive invariant of the command server always holds.
THEOREM SysInvariant == SysSpec => []SysIInv
  BY SysInitInv, SysStepInv, PTL DEF SysSpec

\* The state of the command server stays well formed.
THEOREM SysTypeCorrect == SysSpec => []SysTypeOK
<1>1. SysIInv => SysTypeOK
  BY DEF SysIInv
<1>. QED BY <1>1, SysInvariant, PTL

\* Whatever bits the uncleared fd_set had above the listening socket: they are
\* never looked at before their descriptor is a connection.
THEOREM SysWatchesConnections == SysSpec => []WatchesConnections
<1>1. SysIInv => WatchesConnections
  BY DEF SysIInv
<1>. QED BY <1>1, SysInvariant, PTL

\* Between passes, the set of clients is the set of connections.
THEOREM SysClientsConnected == SysSpec => []ClientsAreConnected
<1>1. SysIInv => ClientsAreConnected
  BY DEF SysIInv, ClosedAreBehind, ClientsAreConnected
<1>. QED BY <1>1, SysInvariant, PTL

\* select() does not fail, so the loop is never left.
THEOREM SysSelectSucceeds == SysSpec => []SelectNeverFails
<1>1. SysIInv => SelectNeverFails
  BY DEF SysIInv
<1>. QED BY <1>1, SysInvariant, PTL

\* No answer goes to a connection that never asked.
THEOREM SysAnswersAskers == SysSpec => []OnlyAskersAreAnswered
<1>1. SysIInv => OnlyAskersAreAnswered
  BY DEF SysIInv
<1>. QED BY <1>1, SysInvariant, PTL

\* A request in the buffer came in this round.
THEOREM SysRequestFresh == SysSpec => []RequestOfThisRound
<1>1. SysIInv => RequestOfThisRound
  BY DEF SysIInv
<1>. QED BY <1>1, SysInvariant, PTL

-----------------------------------------------------------------------------
(* The service. *)

GoneIsOff == \A p \in Peer : p \in eof => phase[p] = "off"

Inv == SvcTypeOK /\ SysIInv /\ (Alive => GoneIsOff) /\ WaitingIsOwed

-----------------------------------------------------------------------------
\* A step of server and clients is a step of the server and its peers.
LEMMA StepIsSysStep == [SvcNext]_svcvars => [SysNext]_sysvars
<1>. SUFFICES ASSUME [SvcNext]_svcvars PROVE SysNext \/ UNCHANGED sysvars
  OBVIOUS
<1>1. CASE ServerSide
  BY <1>1 DEF ServerSide, SysNext
<1>2. ASSUME NEW p \in Peer, Client(p) PROVE SysNext \/ UNCHANGED sysvars
  BY <1>2 DEF Client, ClientStarts, ClientAsks, ClientReads, ClientQuits,
              ClientLosesServer, SysNext, Peers
<1>3. CASE SvcEnded \/ UNCHANGED svcvars
  BY <1>3 DEF SvcEnded, svcvars
<1>. QED BY <1>1, <1>2, <1>3 DEF SvcNext

\* A behaviour of the server with its own clients is one of SysServer.
LEMMA ServiceRunsServer == SvcSpec => SysSpec
<1>1. SvcInit => SysInit
  BY DEF SvcInit
<1>. QED BY <1>1, StepIsSysStep, PTL DEF SvcSpec, SysSpec

-----------------------------------------------------------------------------
\* Serving the clients never takes an unread request without an answer for it.
LEMMA ServerOwes ==
  ASSUME Inv, SysIInv', ServerSide
  PROVE  Inv'
<1>. USE DEF Inv, SvcTypeOK, GoneIsOff, WaitingIsOwed, ServerSide, Alive
<1>1. CASE Select \/ BeginPass \/ EndRound \/ EndPass \/ Interrupt
  BY <1>1 DEF Select, BeginPass, EndRound, EndPass, Interrupt, kernel, network, SysIInv,
              At
<1>2. CASE Accept
  BY <1>2 DEF Accept, SysIInv, At
<1>3. ASSUME NEW f \in Fd, Skip(f) PROVE Inv'
  BY <1>3 DEF Skip, kernel, network, SysIInv
<1>4. ASSUME NEW f \in Fd, Disconnect(f) PROVE Inv'
  <2>1. /\ inbox' = [inbox EXCEPT ![sock[f]] = "NONE"]
        /\ answers' = [answers EXCEPT ![sock[f]] = 0]
        /\ eof' \subseteq eof /\ sock[f] \in eof /\ status' = status
    BY <1>4 DEF Disconnect, CloseClient
  <2>2. \A p \in Peer : p # sock[f] => inbox'[p] = inbox[p] /\ answers'[p] = answers[p]
    BY <2>1 DEF SysIInv, SysTypeOK
  <2>. QED BY <2>1, <2>2 DEF SysIInv
<1>5. ASSUME NEW f \in Fd, Serve(f) PROVE Inv'
  <2>1. /\ inbox' = [inbox EXCEPT ![sock[f]] = "NONE"]
        /\ answers' = [answers EXCEPT ![sock[f]] = @ + 1]
        /\ eof' = eof /\ status = "running"
    BY <1>5 DEF Serve, Visit, At
  <2>2. \A p \in Peer : IF p = sock[f] THEN answers'[p] > 0
                        ELSE inbox'[p] = inbox[p] /\ answers'[p] = answers[p]
    BY <2>1 DEF SysIInv, SysTypeOK
  <2>. QED BY <2>1, <2>2 DEF SysIInv
<1>6. ASSUME NEW f \in Fd, SendFails(f) PROVE Inv'
  BY <1>6 DEF SendFails, SysIInv
<1>. QED BY <1>1, <1>2, <1>3, <1>4, <1>5, <1>6 DEF Server

\* What a client does leaves it, and the others, owed when they wait.
LEMMA ClientOwes ==
  ASSUME Inv, SysIInv', NEW p \in Peer, Client(p)
  PROVE  Inv'
<1>. USE DEF Inv, SvcTypeOK, GoneIsOff, WaitingIsOwed, Alive
<1>1. CASE ClientStarts(p)
  <2>1. p \notin eof
    BY <1>1 DEF ClientStarts, PeerConnects, SysIInv, OnePeerEach
  <2>2. 0 \in 0..MaxLines
    BY MaxLinesAssumption
  <2>. QED BY <1>1, <2>1, <2>2 DEF ClientStarts, PeerConnects, SysIInv
<1>2. ASSUME NEW r \in Requests, ClientAsks(p, r) PROVE Inv'
  <2>1. /\ inbox' = [inbox EXCEPT ![p] = IF @ = "NONE" THEN r ELSE @]
        /\ p \notin eof /\ UNCHANGED <<status, eof, answers>>
        /\ phase' = [phase EXCEPT ![p] = "waiting"]
        /\ typed' = [typed EXCEPT ![p] = @ + 1] /\ typed[p] < MaxLines
    BY <1>2 DEF ClientAsks, PeerSends
  <2>2. r # "NONE"
    BY SysPeerAssumption DEF Request
  <2>3. typed'[p] \in 0..MaxLines
    BY <2>1, MaxLinesAssumption
  <2>4. inbox'[p] # "NONE" /\ \A q \in Peer : q # p => inbox'[q] = inbox[q]
    BY <2>1, <2>2 DEF SysIInv, SysTypeOK
  <2>5. \A q \in Peer : q # p => phase'[q] = phase[q] /\ typed'[q] = typed[q]
    BY <2>1
  <2>6. phase' \in [Peer -> {"off", "typing", "waiting"}] /\ typed' \in [Peer -> 0..MaxLines]
    BY <2>1, <2>3
  <2>. QED BY <2>1, <2>4, <2>5, <2>6 DEF SysIInv
<1>3. CASE ClientReads(p)
  <2>1. /\ UNCHANGED <<status, inbox, eof, typed>>
        /\ phase' = [phase EXCEPT ![p] = "typing"] /\ phase[p] = "waiting"
        /\ \A q \in Peer : q # p => answers'[q] = answers[q]
    BY <1>3 DEF ClientReads, PeerReads, SysIInv, SysTypeOK
  <2>. QED BY <2>1 DEF SysIInv, PeerReads
<1>4. CASE ClientQuits(p)
  BY <1>4 DEF ClientQuits, PeerCloses, SysIInv
<1>5. CASE ClientLosesServer(p)
  BY <1>5 DEF ClientLosesServer, sysvars, kernel, network, SysIInv
<1>. QED BY <1>1, <1>2, <1>3, <1>4, <1>5 DEF Client

\* The invariant of the service holds at the start.
LEMMA SvcInitInv == SvcInit => Inv
  BY SysInitInv, MaxLinesAssumption
     DEF SvcInit, Inv, SvcTypeOK, SysIInv, SysInit, GoneIsOff, WaitingIsOwed

\* Every step keeps the invariant of the service.
LEMMA SvcStepInv == Inv /\ [SvcNext]_svcvars => Inv'
<1>. SUFFICES ASSUME Inv, [SvcNext]_svcvars PROVE Inv'
  OBVIOUS
<1>1. SysIInv'
  BY StepIsSysStep, SysStepInv DEF Inv
<1>2. CASE ServerSide
  BY <1>1, <1>2, ServerOwes
<1>3. ASSUME NEW p \in Peer, Client(p) PROVE Inv'
  BY <1>1, <1>3, ClientOwes
<1>4. CASE SvcEnded \/ UNCHANGED svcvars
  BY <1>1, <1>4
     DEF SvcEnded, svcvars, sysvars, kernel, network, Inv, SvcTypeOK, SysIInv, GoneIsOff,
         WaitingIsOwed, Alive
<1>. QED BY <1>2, <1>3, <1>4 DEF SvcNext

\* The invariant of the service always holds.
LEMMA SvcInvariant == SvcSpec => []Inv
  BY SvcInitInv, SvcStepInv, PTL DEF SvcSpec

\* The state of the server and its clients stays well formed.
THEOREM SvcTypeCorrect == SvcSpec => []SvcTypeOK
  BY SvcInvariant, PTL DEF Inv

\* A client that waits has its answer, or a request the server will find.
THEOREM WaitingOwed == SvcSpec => []WaitingIsOwed
  BY SvcInvariant, PTL DEF Inv

\* Among its own clients the server keeps all it promises any peers: it watches
\* the live connections and never fails, and between passes its clients are the
\* connections; a request is of this round, and only who asked is answered.
THEOREM ServiceKeepsPromises ==
  SvcSpec => [](/\ WatchesConnections /\ SelectNeverFails /\ ClientsAreConnected
                /\ OnlyAskersAreAnswered /\ RequestOfThisRound)
  BY ServiceRunsServer, SysWatchesConnections, SysSelectSucceeds, SysClientsConnected,
     SysAnswersAskers, SysRequestFresh, PTL
=============================================================================
