----------------------------- MODULE ChatSockets -----------------------------
(***************************************************************************)
(* The event loop of the chat server (project3/server.cpp): the select()   *)
(* loop of main, the two connection tables `servers` and `clients`, the    *)
(* descriptor sets, and the effect every command has on descriptors.       *)
(*                                                                         *)
(* A descriptor is a natural number, as in the code: the kernel hands out  *)
(* the lowest free one, so a number that was closed comes back.  The two   *)
(* listening sockets are descriptors too.  The content of a message is     *)
(* reduced to the command it carries; what the commands do to the message  *)
(* store is the subject of MessageStore.                                   *)
(***************************************************************************)
EXTENDS Integers, FiniteSets, FiniteSetsExt

CONSTANTS
  Fd,            \* descriptors available for connections
  ServerListen,  \* descriptor listening for other servers
  ClientListen,  \* descriptor listening for chat clients, opened second
  Frames,        \* the commands peers send in this instance
  MaxList,       \* most entries in the list of one SERVERS message
  HasLocalIp     \* does get_local_ip find an interface named en0 or wlp1s0?

NoFd   == 0
Listen == {ServerListen, ClientListen}

(***************************************************************************)
(* Commands, with the number of comma-separated tokens where the code      *)
(* tests it.  KEEPALIVE+ announces at least one message.  MALFORMED is a   *)
(* SERVERS list that is not made of triples, or a KEEPALIVE without a      *)
(* number.  FRAGMENT is a piece of a frame, which valid_message rejects.   *)
(* UNKNOWN is every frame no branch matches, KEEPALIVE,0 and STATUSREQ     *)
(* included: their handlers change no descriptor.                          *)
(***************************************************************************)
Cmd == {"LEAVE", "KEEPALIVE+", "SERVERS", "FETCH_MSGS/3", "SEND_MSG/5",
        "QUERYSERVERS/2", "QUERYSERVERS/1", "CONNECT/3", "SEND_MSG/3",
        "FETCH_MSG/2", "MALFORMED", "FRAGMENT", "UNKNOWN"}

ASSUME FdAssumption ==
  /\ Fd \subseteq Nat /\ IsFiniteSet(Fd)
  /\ ServerListen \in Nat /\ ClientListen \in Nat
  /\ NoFd < ServerListen /\ ServerListen < ClientListen
  /\ \A f \in Fd : ClientListen < f

ASSUME FramesAssumption ==
  Frames \subseteq Cmd /\ MaxList \in Nat /\ HasLocalIp \in BOOLEAN

VARIABLES
  status,       \* "running", or how the process ended
  sock,         \* kernel: what each descriptor is
  eof,          \* kernel: connections whose peer has closed its end
  inbox,        \* kernel: the unread bytes of each connection, as one frame
  backlog,      \* kernel: listening sockets with a connection to accept
  sending,      \* kernel: the connection main waits for in send(), or NoFd
  openSockets, maxfds, readSockets, n,   \* locals of main
  servers, clients,                      \* keys of the two connection tables
  pc,           \* where the main thread is
  cursor,       \* the iterator of the loop over a table
  gone,         \* disconnectedClients
  buffer,       \* the receive buffer, and whose bytes it holds
  ran           \* the command the last step of the main thread executed

kernel == <<sock, eof, inbox, backlog, sending>>
tables == <<servers, clients>>
fdsets == <<openSockets, maxfds>>
round  == <<readSockets, n>>
locals == <<pc, cursor, gone, buffer, ran>>
vars   == <<status, kernel, tables, fdsets, round, locals>>

SockState == {"free", "in", "out", "raw"}
  \* in: accepted; out: connected by us; raw: socket() without a connection
Zeroed    == [cmd |-> "ZERO", src |-> NoFd]
Idle      == [by |-> "none", cmd |-> "ZERO", fd |-> NoFd, src |-> NoFd]

Connected == {f \in Fd : sock[f] \in {"in", "out"}}
Lowest(f) == f \in Fd /\ sock[f] = "free" /\ \A g \in Fd : g < f => sock[g] # "free"
TableFull == \A f \in Fd : sock[f] # "free"

\* Where an iterator over the keys S starts, or goes on from a point.
First(S)    == IF S = {} THEN {NoFd} ELSE {g \in S : \A h \in S : g <= h}
After(S, f) == First({g \in S : g > f})

Init ==
  /\ status = "running"
  /\ sock = [f \in Fd |-> "free"] /\ eof = {}
  /\ inbox = [f \in Fd |-> "NONE"] /\ backlog = {} /\ sending = NoFd
  /\ openSockets = Listen /\ maxfds = ClientListen
  /\ servers = {} /\ clients = {}
  /\ readSockets = {} /\ n = 0
  /\ pc = "select" /\ cursor = NoFd /\ gone = {}
  /\ buffer = Zeroed /\ ran = Idle

-----------------------------------------------------------------------------
(***************************************************************************)
(* Bytes.  The parser looks at the whole buffer as one message, whatever   *)
(* follows the first ETX.  A frame with foreign bytes behind it keeps its  *)
(* command when only an unused or free-text token is spoilt, and matches   *)
(* nothing when the spoilt token is the command itself, the port of a      *)
(* CONNECT or a counted token.  stoi ignores what follows the digits.  A   *)
(* list takes three tokens with a number behind it, as LEAVE has them and  *)
(* the question of sendUpdates, for one entry more.                        *)
(***************************************************************************)
Spoilt(c) ==
  CASE c = "KEEPALIVE+"                        -> {c}
    [] c = "SERVERS"                           -> {c, "MALFORMED"}
    [] c \in {"CONNECT/3", "QUERYSERVERS/1"}   -> {"UNKNOWN"}
    [] OTHER                                   -> {c, "UNKNOWN"}

\* A frame arrives behind unread bytes x: one recv() will return both.
Coalesce(x, c) ==
  IF x = "NONE" THEN {c}
  ELSE IF x = "FRAGMENT" THEN {c, "UNKNOWN", "FRAGMENT"}
  ELSE Spoilt(x) \cup ({c} \cap {"FRAGMENT"})

\* recv() writes c over a buffer that still holds old and is not cleared:
\* when c is the shorter one the tail of old stays behind it.
Overlay(old, c) ==
  IF old = "ZERO" THEN {c}
  ELSE {c} \cup Spoilt(c) \cup ({old} \cap {"FRAGMENT"})
           \cup (IF c = "FRAGMENT" THEN {old} ELSE {})

-----------------------------------------------------------------------------
(* The peers, at any time while the process lives. *)

Alive == status = "running"

PeerConnect(l) ==
  /\ Alive /\ l \notin backlog
  /\ backlog' = backlog \cup {l}
  /\ UNCHANGED <<status, sock, eof, inbox, sending, tables, fdsets, round, locals>>

PeerSend(f, c) ==
  /\ Alive /\ f \in Connected \ eof
  /\ \E x \in Coalesce(inbox[f], c) : inbox' = [inbox EXCEPT ![f] = x]
  /\ UNCHANGED <<status, sock, eof, backlog, sending, tables, fdsets, round, locals>>

PeerClose(f) ==
  /\ Alive /\ f \in Connected \ eof
  /\ eof' = eof \cup {f}
  /\ UNCHANGED <<status, sock, inbox, backlog, sending, tables, fdsets, round, locals>>

\* The send() main waits in returns when f's peer makes room by reading, or is
\* no more.  Nothing obliges a peer to do either.
PeerReads(f) ==
  /\ Alive /\ sending = f
  /\ sending' = NoFd
  /\ status' \in IF f \in eof THEN {"running", "crashed"} ELSE {"running"}
  /\ UNCHANGED <<sock, eof, inbox, backlog, tables, fdsets, round, locals>>

-----------------------------------------------------------------------------
(* select(), accept() and the passes of one round. *)

At(p) == Alive /\ sending = NoFd /\ pc = p

Readable ==
  {f \in openSockets :
     /\ f <= maxfds
     /\ IF f \in Listen THEN f \in backlog ELSE inbox[f] # "NONE" \/ f \in eof}

BadDescriptor == \E f \in openSockets \ Listen : f <= maxfds /\ sock[f] = "free"

\* select() fails on a closed descriptor, and the server then ends its loop.
\* Its third set, of exceptional conditions, adds to n when a peer sends urgent
\* data, which none here does.
Select ==
  /\ At("select")
  /\ IF BadDescriptor
     THEN status' = "finished" /\ UNCHANGED <<round, pc>>
     ELSE /\ Readable # {}
          /\ readSockets' = Readable
          /\ n' = Cardinality(Readable)
          /\ pc' = "acceptServer"
          /\ UNCHANGED status
  /\ ran' = Idle
  /\ UNCHANGED <<kernel, tables, fdsets, cursor, gone, buffer>>

\* Two faulty forms of Accept, by what they make of maxfds: one too high (the
\* first argument of select()), and not raised.
AcceptSetting(l, newMax(_)) ==
  IF l \notin readSockets
  THEN UNCHANGED <<status, kernel, fdsets, n>>
  ELSE IF TableFull
  THEN status' = "exhausted" /\ UNCHANGED <<kernel, fdsets, n>>
  ELSE \E f \in Fd :
         /\ Lowest(f)
         /\ sock' = [sock EXCEPT ![f] = "in"]
         /\ backlog' = backlog \ {l}
         /\ openSockets' = openSockets \cup {f}
         /\ maxfds' = newMax(f)
         /\ n' = n - 1
         /\ UNCHANGED <<status, eof, inbox, sending>>

AcceptOneTooHigh(l)    == AcceptSetting(l, LAMBDA f : Max({maxfds, f + 1}))
AcceptWithoutMaxfds(l) == AcceptSetting(l, LAMBDA f : maxfds)

\* accept() on l when select() reported it, with the bookkeeping behind it.
\* With no descriptor left the model stops: the code goes on with FD_SET(-1).
Accept(l) ==
  IF l \notin readSockets
  THEN UNCHANGED <<status, kernel, fdsets, n>>
  ELSE IF TableFull
  THEN status' = "exhausted" /\ UNCHANGED <<kernel, fdsets, n>>
  ELSE \E f \in Fd :
         /\ Lowest(f)
         /\ sock' = [sock EXCEPT ![f] = "in"]
         /\ backlog' = backlog \ {l}
         /\ openSockets' = openSockets \cup {f}
         /\ maxfds' = Max({maxfds, f})
         /\ n' = n - 1
         /\ UNCHANGED <<status, eof, inbox, sending>>

\* The descriptor an accept just returned, as the set of its additions.
Accepted == openSockets' \ openSockets

AcceptServer ==
  /\ At("acceptServer")
  /\ Accept(ServerListen)
  /\ servers' = servers \cup Accepted
  /\ pc' = "acceptClient"
  /\ ran' = Idle
  /\ UNCHANGED <<clients, readSockets, cursor, gone, buffer>>

AcceptClient ==
  /\ At("acceptClient")
  /\ Accept(ClientListen)
  /\ clients' = clients \cup Accepted
  /\ pc' = "pass"
  /\ ran' = Idle
  /\ UNCHANGED <<servers, readSockets, cursor, gone, buffer>>

\* Faulty: the loop condition is n > 0 and nothing decrements n.
BeginPassForever ==
  /\ At("pass") /\ n > 0
  /\ pc' = "servers"
  /\ cursor' \in First(servers)
  /\ ran' = Idle
  /\ UNCHANGED <<status, kernel, tables, fdsets, readSockets, n, gone, buffer>>

\* while (n-- > 0): every pass goes over both tables from the start.
BeginPass ==
  /\ At("pass") /\ n > 0
  /\ n' = n - 1
  /\ pc' = "servers"
  /\ cursor' \in First(servers)
  /\ ran' = Idle
  /\ UNCHANGED <<status, kernel, tables, fdsets, readSockets, gone, buffer>>

\* Two faulty forms of EndRound: a disconnectedClients that outlives the
\* round, and no memset of the buffer.
EndRoundKeepingGone ==
  /\ At("pass") /\ n <= 0
  /\ pc' = "select"
  /\ readSockets' = {} /\ buffer' = Zeroed
  /\ ran' = Idle
  /\ UNCHANGED <<status, kernel, tables, fdsets, n, cursor, gone>>

EndRoundKeepingBuffer ==
  /\ At("pass") /\ n <= 0
  /\ pc' = "select"
  /\ readSockets' = {} /\ gone' = {}
  /\ ran' = Idle
  /\ UNCHANGED <<status, kernel, tables, fdsets, n, cursor, buffer>>

\* The locals of the round die, and the loop starts over with a clear buffer.
EndRound ==
  /\ At("pass") /\ n <= 0
  /\ pc' = "select"
  /\ readSockets' = {} /\ gone' = {} /\ buffer' = Zeroed
  /\ ran' = Idle
  /\ UNCHANGED <<status, kernel, tables, fdsets, n, cursor>>

EndServers ==
  /\ At("servers") /\ cursor = NoFd
  /\ pc' = "clients"
  /\ cursor' \in First(clients)
  /\ ran' = Idle
  /\ UNCHANGED <<status, kernel, tables, fdsets, round, gone, buffer>>

EndClients ==
  /\ At("clients") /\ cursor = NoFd
  /\ pc' = "pass"
  /\ ran' = Idle
  /\ UNCHANGED <<status, kernel, tables, fdsets, round, cursor, gone, buffer>>

-----------------------------------------------------------------------------
(***************************************************************************)
(* One iteration of the loop over a table: the readiness test, recv(), the *)
(* command, the erasure of disconnected clients, and the iterator's step.  *)
(***************************************************************************)
InLoop(f) == At(pc) /\ pc \in {"servers", "clients"} /\ cursor = f /\ f \in Fd

\* The end of an iteration, with S and C the tables the handler left.  Only
\* the table being walked is pruned.  Erasing the element the iterator stands
\* on leaves it dangling: the walk may then resume anywhere or end.
LoopTail(S, C) ==
  LET walked == (IF pc = "servers" THEN S ELSE C) \ gone
  IN  /\ servers' = IF pc = "servers" THEN walked ELSE S
      /\ clients' = IF pc = "clients" THEN walked ELSE C
      /\ cursor' \in IF cursor \in gone THEN walked \cup {NoFd}
                                        ELSE After(walked, cursor)
      /\ UNCHANGED <<pc, gone, round, backlog>>

\* Two faulty forms of Close: without FD_CLR, and with the next lower maxfds
\* looked for among the clients only.
CloseWithoutFdClr(f) ==
  /\ sock' = [sock EXCEPT ![f] = "free"]
  /\ eof' = eof \ {f}
  /\ maxfds' = IF maxfds = f THEN Max({maxfds} \cup clients) ELSE maxfds
  /\ UNCHANGED openSockets

CloseLoweringMaxfds(f) ==
  /\ sock' = [sock EXCEPT ![f] = "free"]
  /\ eof' = eof \ {f}
  /\ openSockets' = openSockets \ {f}
  /\ maxfds' = IF maxfds = f THEN Max(Listen \cup (clients \ {f})) ELSE maxfds

\* close(), FD_CLR, and maxfds.  The table entry is not touched.
Close(f) ==
  /\ sock' = [sock EXCEPT ![f] = "free"]
  /\ eof' = eof \ {f}
  /\ openSockets' = openSockets \ {f}
  /\ maxfds' = IF maxfds = f THEN Max({maxfds} \cup clients) ELSE maxfds

\* A client that is not ready is passed over.
Skip(f) ==
  /\ InLoop(f) /\ f \notin readSockets
  /\ LoopTail(servers, clients)
  /\ ran' = Idle
  /\ UNCHANGED <<status, sock, eof, inbox, sending, fdsets, buffer>>

\* recv() returns 0: remember the client, close it, and break out of the loop.
EndOfStream(f) == f \in eof /\ inbox[f] = "NONE"

Disconnect(f) ==
  /\ InLoop(f) /\ f \in readSockets /\ EndOfStream(f)
  /\ Close(f)
  /\ gone' = gone \cup {f}
  /\ pc' = IF pc = "servers" THEN "clients" ELSE "pass"
  /\ cursor' \in IF pc = "servers" THEN First(clients) ELSE {NoFd}
  /\ ran' = Idle
  /\ UNCHANGED <<status, inbox, backlog, sending, tables, round, buffer>>

\* What the buffer may hold after recv().  When there is nothing to read, or
\* f is closed by now, recv() returns -1 and the buffer is what it was.
Received(f) ==
  IF inbox[f] = "NONE" THEN {buffer}
  ELSE {[cmd |-> c, src |-> f] : c \in Overlay(buffer.cmd, inbox[f])}

\* The part every served client has in common: f is ready, recv() left b.
Recv(f, b) ==
  /\ InLoop(f) /\ f \in readSockets /\ ~ EndOfStream(f)
  /\ b \in Received(f)
  /\ buffer' = b
  /\ inbox' = [inbox EXCEPT ![f] = "NONE"]

Valid(b) == b.cmd \notin {"ZERO", "FRAGMENT"}

Execute(f, b) ==
  /\ Valid(b)
  /\ ran' = [by |-> pc, cmd |-> b.cmd, fd |-> f, src |-> b.src]

\* send() to f, once or twice, at the end of the command.  A socket that never
\* had a connection raises SIGPIPE, one whose peer is away may; a closed one
\* fails with EBADF, which nobody looks at.  A dangling iterator may also crash.
\* The sockets block: when its peer does not read, main stays in send() before
\* it goes on with the next entry.
Reply(f) ==
  /\ status' \in IF sock'[f] = "raw" THEN {"crashed"}
                 ELSE IF f \in eof' \/ f \in gone THEN {"running", "crashed"}
                 ELSE {"running"}
  /\ sending' \in {NoFd} \cup {g \in {f} : sock'[g] \in {"in", "out"}}

\* Nothing valid in the buffer: the iteration ends without a command.
Ignore(f, b) ==
  /\ Recv(f, b) /\ ~ Valid(b)
  /\ status' \in IF f \in gone THEN {"running", "crashed"} ELSE {"running"}
  /\ LoopTail(servers, clients)
  /\ ran' = Idle
  /\ UNCHANGED <<sock, eof, sending, fdsets>>

-----------------------------------------------------------------------------
(* serverCommand and clientCommand, by what they do to descriptors. *)

\* Without one of its interfaces get_local_ip returns 0 as a std::string.
LocalIpThrows == ~ HasLocalIp

\* Commands whose handler follows a null pointer, reads past the end of a
\* vector or lets an exception escape.  connections never has an entry to
\* find: its only writer is operator[], whose result is followed at once.
FatalFromServer(f, c) ==
  \/ c \in {"FETCH_MSGS/3", "SEND_MSG/5", "MALFORMED"}
  \/ c = "KEEPALIVE+" /\ f \notin clients
  \/ c = "QUERYSERVERS/2" /\ LocalIpThrows

\* pop_back() on the empty list of servers; and gethostbyname() may not know,
\* and answer with a null pointer, what getaddrinfo() did (see Connect).
FatalFromClient(c) ==
  \/ c = "QUERYSERVERS/1" /\ servers = {}
  \/ c = "CONNECT/3"

Fatal(f, c) == IF pc = "servers" THEN FatalFromServer(f, c) ELSE FatalFromClient(c)

Crash(f, b) ==
  /\ Recv(f, b) /\ Execute(f, b)
  /\ Fatal(f, b.cmd)
  /\ status' = "crashed"
  /\ UNCHANGED <<sock, eof, backlog, sending, tables, fdsets, round, pc, cursor, gone>>

\* LEAVE from a server: closeClient, and nothing else.
Leave(f, b) ==
  /\ Recv(f, b) /\ Execute(f, b)
  /\ pc = "servers" /\ b.cmd = "LEAVE"
  /\ Close(f)
  /\ Reply(f)
  /\ LoopTail(servers, clients)

\* open_socket() once per entry of a list: the lowest free descriptors.
Opened(new) ==
  /\ new # {} /\ Cardinality(new) <= MaxList
  /\ \A g \in new, h \in Fd \ new : sock[h] = "free" => g < h
  /\ sock' = [g \in Fd |-> IF g \in new THEN "raw" ELSE sock[g]]

\* SERVERS: a new socket for every entry of the list.  The first entry goes
\* to the table under its socket when its group is another one and not stored.
ServerList(f, b) ==
  /\ Recv(f, b) /\ Execute(f, b)
  /\ pc = "servers" /\ b.cmd = "SERVERS"
  /\ UNCHANGED <<eof, fdsets>>
  /\ IF TableFull
     THEN /\ status' = "exhausted"
          /\ UNCHANGED <<sock, backlog, sending, tables, round, pc, cursor, gone>>
     ELSE \E new \in SUBSET {g \in Fd : sock[g] = "free"} :
            /\ Opened(new)
            /\ \E listed \in {{}, First(new)} : LoopTail(servers \cup listed, clients)
            /\ Reply(f)

\* establish_connection, called by a client's command, and the end of its
\* iteration.
EstablishConnection ==
  \/ \E g \in Fd :                        \* connected
       /\ Lowest(g)
       /\ sock' = [sock EXCEPT ![g] = "out"]
       /\ openSockets' = openSockets \cup {g}
       /\ maxfds' = Max({maxfds, g})
       /\ LoopTail(servers \cup {g}, clients)
  \/ \E g \in Fd :                        \* refused: the socket is leaked
       /\ Lowest(g)
       /\ sock' = [sock EXCEPT ![g] = "raw"]
       /\ UNCHANGED fdsets
       /\ LoopTail(servers, clients)
  \/ /\ UNCHANGED <<sock, fdsets>>        \* no such host, or no descriptor
     /\ LoopTail(servers, clients)

\* CONNECT from a chat client, when it does not crash.
Connect(f, b) ==
  /\ Recv(f, b) /\ Execute(f, b)
  /\ pc = "clients" /\ b.cmd = "CONNECT/3"
  /\ EstablishConnection
  /\ UNCHANGED eof
  /\ Reply(f)

\* Every other command only answers.
Answer(f, b) ==
  /\ Recv(f, b) /\ Execute(f, b)
  /\ ~ Fatal(f, b.cmd)
  /\ ~ (pc = "servers" /\ b.cmd \in {"LEAVE", "SERVERS"})
  /\ ~ (pc = "clients" /\ b.cmd = "CONNECT/3")
  /\ UNCHANGED <<sock, eof, fdsets>>
  /\ Reply(f)
  /\ LoopTail(servers, clients)

-----------------------------------------------------------------------------
Serve(f) ==
  \/ Skip(f)
  \/ Disconnect(f)
  \/ \E b \in Received(f) :
       \/ Ignore(f, b) \/ Crash(f, b) \/ Leave(f, b)
       \/ ServerList(f, b) \/ Connect(f, b) \/ Answer(f, b)

\* A background thread takes the process down (SIGPIPE; see ChatServer).
Killed ==
  /\ Alive
  /\ status' = "crashed"
  /\ UNCHANGED <<kernel, tables, fdsets, round, locals>>

Main ==
  \/ Select \/ AcceptServer \/ AcceptClient
  \/ BeginPass \/ EndServers \/ EndClients \/ EndRound
  \/ \E f \in Fd : Serve(f)

Peers ==
  \/ \E l \in Listen : PeerConnect(l)
  \/ \E f \in Fd : PeerClose(f) \/ PeerReads(f) \/ \E c \in Frames : PeerSend(f, c)

\* The process has ended; nothing happens any more.
Ended == ~ Alive /\ UNCHANGED vars

Next == Main \/ Peers \/ Killed \/ Ended

Spec == Init /\ [][Next]_vars

-----------------------------------------------------------------------------
TypeOK ==
  /\ status \in {"running", "finished", "crashed", "exhausted"}
  /\ sock \in [Fd -> SockState]
  /\ eof \subseteq Fd
  /\ inbox \in [Fd -> Cmd \cup {"NONE"}]
  /\ backlog \subseteq Listen /\ sending \in Fd \cup {NoFd}
  /\ openSockets \subseteq Fd \cup Listen /\ maxfds \in Fd \cup Listen
  /\ servers \subseteq Fd /\ clients \subseteq Fd
  /\ readSockets \subseteq Fd \cup Listen /\ n \in Int
  /\ pc \in {"select", "acceptServer", "acceptClient", "pass", "servers", "clients"}
  /\ cursor \in Fd \cup {NoFd}
  /\ gone \subseteq Fd
  /\ buffer \in [cmd : Cmd \cup {"ZERO"}, src : Fd \cup {NoFd}]
  /\ ran \in [by : {"none", "servers", "clients"}, cmd : Cmd \cup {"ZERO"},
              fd : Fd \cup {NoFd}, src : Fd \cup {NoFd}]

\* The descriptor sets.  select() watches the listening sockets and exactly the
\* live connections: none is forgotten, and none is watched after its close()
\* even though closeClient leaves its table entry behind.
MonitorsConnections == openSockets = Listen \cup Connected

\* maxfds is never below a watched descriptor, whichever table its owner is in
\* (closeClient recomputes it over `clients` alone).
SelectCoversAll == \A f \in openSockets : f <= maxfds

\* Reuse of numbers.  An accepted connection is in a table as long as it lives:
\* the erasures of a round, which go by number, never hit a newer connection
\* that accept() gave the number to.  Connections opened by CONNECT can be hit.
AcceptedIsListed ==
  \A f \in openSockets \ Listen : sock[f] = "in" => f \in servers \cup clients

\* The buffer is cleared once per round, so whatever a recv() that returned
\* nothing leaves in it came from a descriptor of this round's select().
BufferFromThisRound == buffer.cmd # "ZERO" => buffer.src \in readSockets

\* select() is never handed a closed descriptor, so the branch that ends the
\* server's loop on an error of select() is never taken.
SelectNeverFails == status # "finished"

\* What the loop needs of its peers: no send() of main blocks for ever.  One
\* peer that asks and never reads its answers is enough to break it.
PeersRead == []<>(sending = NoFd)

\* The select loop always comes back to select(), however commands change the
\* tables under the iterators and however often a pass is broken off, unless
\* main is left waiting in a send().
RoundEnds ==
  PeersRead => ((pc # "select") ~> (pc = "select" \/ status # "running"))

\* A listed connection with bytes or an end-of-file to read is read, however
\* often others make the loops break, unless main is left waiting in a send()
\* to whomever.  Claimed for instances without CONNECT.
HasInput(f) == f \in Connected /\ (inbox[f] # "NONE" \/ f \in eof)

ReadyIsRead ==
  PeersRead =>
    \A f \in Fd : (HasInput(f) /\ f \in servers \cup clients)
                    ~> (~ HasInput(f) \/ status # "running")

-----------------------------------------------------------------------------
(* What the comments of the code say, and the code does not do. *)

\* server.cpp:1016: "We don't check for -1 (nothing received) because select()
\* only triggers if there is something on the socket for us."  So a command
\* that is executed for a socket should be one that socket sent.
CommandRunsForItsSender == ran.cmd # "ZERO" => ran.src = ran.fd
=============================================================================
