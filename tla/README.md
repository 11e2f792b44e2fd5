# Verification of the ComputerNetworking programs

TLA+ models, TLC runs and TLAPS proofs for the three course projects in `src/`.
The core is the chat server of `src/project3/server.cpp`, which has most of the
state and all of the concurrency of the repository: its event loop, commands,
message store, threads, framing and lists of servers are modelled, and its
client with it.  So are the remote command server of `src/project1` with its
clients, and the scanner, checksum forging and phases of the puzzle solver of
`src/project2`.

Paths below are relative to the repository; line numbers of the chat server are
given as `server.cpp:N`.

## 1. Inventory

### Chat server (`src/project3/server.cpp`)

One process with three threads.

| part | state | operations |
|---|---|---|
| event loop (`main`, 885-1060) | `openSockets`, `readSockets`, `maxfds`, `n`, the receive buffer, `disconnectedClients` | `select()`, two `accept()`s, passes over both tables, `recv()`, erasure of disconnected clients |
| connection tables | `servers`, `clients`: maps from a descriptor to a `Client` | inserted by accept, `establish_connection` and SERVERS; erased by the loop only |
| `closeClient` (411) | - | `close()`, `maxfds`, `FD_CLR` |
| `open_socket` (180), `establish_connection` (232) | - | a new socket, possibly connected |
| `serverCommand` (576) | all of the above, `connections`, `stored_servers`, `stored_names` | QUERYSERVERS, SERVERS, LEAVE, KEEPALIVE, FETCH_MSGS, SEND_MSG, STATUSREQ, STATUSRESP |
| `clientCommand` (442) | all of the above | QUERYSERVERS, FETCH_MSG, SEND_MSG, CONNECT, STORED |
| message store | `messages`: map from a group's name to a vector | FETCH_MSG, SEND_MSG, the keep-alive count; read by STATUSREQ and STATUSRESP |
| `sendKeepAlive` (827) | an iterator over `servers` | every minute: KEEPALIVE with a message count to every entry |
| `sendUpdates` (849) | an iterator over `servers` | once, after 7:30 minutes: QUERYSERVERS to every entry |
| framing | - | `valid_message`, `construct_message`, `server_vector`, `split_commas`, the tokenisers |
| stored servers | `stored_servers`, `stored_names` | written by SERVERS, read by STORED |

The loop and the commands call each other synchronously; the two threads share
`servers` and `messages` with `main` without a lock.  Peers act through the
kernel: connections, bytes, ends of file.

What is hard: descriptors are numbers the kernel reuses, erasures go by number,
and a pass is broken off at the first disconnect; every round makes as many
passes as there are ready sockets, over a buffer that is cleared once per round;
commands change the tables while they are walked; a `close()` without its
`FD_CLR` would end the server; every socket blocks, so `send()` waits for its peer; undefined behaviour (null pointers, dangling
iterators, `pop_back()` on an empty string) is within reach of ordinary traffic.

What makes it correct: the descriptor set is exactly the live connections;
`maxfds` covers it; `select()` never fails; an accepted connection stays in a
table as long as it lives; the buffer holds nothing of an earlier round; rounds
end and input is eventually read, as long as no peer holds `main` up in a blocking
`send()`; the store loses or changes nothing that was
seen; the threads disturb none of this and reach the servers they walk.

### Chat client (`src/project3/client.cpp`)

A connected socket, an input buffer and a frame buffer; the main thread reads a
line, frames it and sends it, a listener thread prints what comes and exits on
end of file.  `fgets()` is not tested, so at the end of the input a frame
without content is sent without end (an empty line buffer puts ETX in place of
STX).  A line without its newline, the last one of a file, loses its last byte.
Correct when the server goes on serving it while it is connected, and when one
that floods the server does not keep it from serving others.

### Interface lister (`src/project3/ip.cpp`)

Prints the addresses of the host once.  No state.

### Remote command server and client (`src/project1/`)

`server.cpp`: the ancestor of the chat server's loop with one listening socket, a
set of clients and a SYS command that runs a shell.  The same multi-pass loop
executes what is left in the buffer for every ready client, without a validity
test; `openSockets` is used without `FD_ZERO` (267); `closeClient` computes the
new `maxfds` while the closing descriptor is still in the set.  Correct when it
watches exactly its clients, answers only who has asked, and leaves no one who
asked without an answer, as long as the output of a command finds room in the
sockets: otherwise it waits in `send()` for that client.
`client.cpp`: sends a line and waits for an answer, in lock step; the test of its
loop reads the input buffer before it is written and after it is cleared, so
`q` never ends it.  Correct when request and answer stay in step.

### Puzzle solver (`src/project2/`)

`scanner.cpp`: one UDP socket, up to six probes of a port with 70 ms each, a
global list of four ports filled by the first letter of a reply.  Late replies
are taken in the window of a later port.  Correct when a port in the list is one
that sent that letter.
`utils.cpp`: the evil-bit and checksum parts resend until an answer comes;
`csum` and the forged address must make a 16-bit one's complement sum come out
at a given value, at the borders of its wrap-around too; `part3` parses the
oracle's answer even when it never came.
`puzzlesolver.cpp`: the phases in order, over the scanner's socket, whose
receive timeout and unread replies they inherit.

### Build files, binaries

No logic.

## 2. Modules

| module | models | state |
|---|---|---|
| `ChatSockets` | the chat server's event loop, `closeClient`, `open_socket`, `establish_connection`, all commands by their effect on descriptors, tables and the process | see below |
| `MessageStore` | `messages` and its three operations | `messages`, and two histories: `sent`, `looked` |
| `Mailboxes` | abstract specification of the store: write-once boxes, sealed by the first look | `box`, `looked` |
| `ChatServer` | the whole process: `ChatSockets` and `MessageStore` composed, with the two threads | both, and where each thread is |
| `Framing` | frames, tokenisers and the text of lists of servers, of `server.cpp` and `client.cpp` | none: operators on sequences of symbols |
| `ServerLists` | SERVERS, QUERYSERVERS and STORED on the entries of the three containers | `servers`, `stored_servers`, `stored_names`, the descriptors in use, those closed in the round, the rest of the list being read |
| `ChatSession` | the chat client at the other end of one of `ChatSockets`' connections | that of `ChatSockets`, where the client is, and its descriptor in the server |
| `SysServer` | the remote command server | the kernel's side, and the locals of `main` under their names |
| `SysService` | `SysServer` with its own clients as peers | also where each client is |
| `PortScanner` | the port scan and the network below it | the port, the list of ports, replies on their way and in the socket |
| `Checksum` | `csum` and the forged address | none: operators on 16-bit words |
| `PuzzleSolver` | `PortScanner` and `Checksum` composed with the other phases | also the answers due, the checksum, the oracle's list |
| `*_proofs` | theorems and proofs about the module they are named after; `PuzzleSolver_proofs` also about `Checksum`, `SysService_proofs` also about `SysServer` | - |

`ChatServer` extends `ChatSockets` and takes `MessageStore` as `Store ==
INSTANCE MessageStore`; `MessageStore` is shown to implement `Mailboxes` through
a refinement mapping (`Abstract`).  `SysService` extends `SysServer`, and its
clients are built from the actions of its peers.

### ChatSockets and the code

The kernel's side is five variables: `sock` (what each descriptor is: free,
accepted, connected by us, or a socket without connection), `eof`, `inbox`,
`backlog`, and `sending`, the connection `main` waits for in `send()`.  Locals of
`main` keep their names: `openSockets`, `maxfds`, `readSockets`, `n`;
`disconnectedClients` is `gone`, the receive buffer is
`buffer` with the sender of its bytes, and `cursor` is the iterator of the
range-for the loop is in.  `servers` and `clients` are the key sets of the maps.
`ran` is the command the last step executed; it is there for the properties, and
for `ChatServer`, and never read by an action.  `status` says whether the process lives.

| action | code |
|---|---|
| `Select` | 936-948, the error branch included |
| `AcceptServer`, `AcceptClient` | 952-993 |
| `BeginPass`, `EndRound` | the test of `while (n-- > 0)` (998) and what follows it, up to the `memset` of the next iteration |
| `EndServers`, `EndClients` | the ends of the two loops |
| `Skip`, `Disconnect`, `Ignore` | one iteration for a socket that is not ready, at its end of file, or without a valid message |
| `Crash`, `Leave`, `ServerList`, `Connect`, `Answer` | one iteration with a command, from the readiness test to the erasures behind it |
| `PeerConnect`, `PeerSend`, `PeerReads`, `PeerClose` | the other ends |
| `Killed` | a signal or exception in one of the two threads |

One iteration of a loop over a table is one step: nothing else in the process
writes what it reads, and what peers do in the meantime commutes with it up to
the moment of its `recv()`, which is where the step is.  The `send()`s (571, 822 and
those of single commands) are at the end of the iteration: when one blocks, the
effects of the command are complete, and `main` waits (`sending`) before its next
step until `PeerReads`.  Only the erasures at the end of the iteration then come
earlier than in the code, and what they remove is of no effect while `main` waits.

Abstractions:

- A message is the command it carries (`Cmd`), with the number of tokens where
  the code tests it.  Commands without effect on descriptors, tables or the
  process are `UNKNOWN`.
- The unread bytes of a connection are one frame, for the parser takes the whole
  buffer as one message: `Coalesce` says what a frame behind unread bytes makes
  of them, `Overlay` what a short `recv()` makes of what is left in the buffer,
  `Spoilt` what foreign bytes do to a command.
- Undefined behaviour is a choice.  An erased element under the iterator lets
  the walk go on anywhere, end, or crash.  Null pointers, reads past the end of a
  vector, an uncaught exception and `pop_back()` on an empty string end the
  process (`Fatal`).  `send()` on a socket without a connection raises SIGPIPE;
  on one whose peer is away it may.  `gethostbyname()` (252) may not know a name
  that `getaddrinfo()` has resolved, and its null pointer is followed: a CONNECT
  may crash.
- A list of servers with a frame behind it is still a list, or a read past the
  end: QUERYSERVERS of `sendUpdates` and LEAVE have the three tokens of an entry.
- At the descriptor limit the model stops (`exhausted`): the code would use -1
  as a descriptor.  For CONNECT the limit is one of the failures the code tests.
- `backlog` counts at most one pending connection per listening socket;
  `accept()` takes one per round, so more would only be taken in later rounds.
- The set of exceptional conditions (937, 942) only adds to `n` when a peer sends
  urgent data (`MSG_OOB`), which none here does.
- `EINTR`, resets as distinct from closes, `FD_SETSIZE` and the 1025 bytes of
  the buffer are not modelled.

### MessageStore and ChatServer and the code

`operator[]` of `std::map` creates the key it does not find (`Touch`), and
`insert` does nothing when the key is there (`SendMsg`); everything else about the
store follows from these two.  In `ChatServer` a step of `main` that executes
FETCH_MSG or SEND_MSG performs the store's operation in the same step, with any
group and text.  `sendKeepAlive` and `sendUpdates` take one entry per
step; their `send()`s, of a few bytes to a peer that is connected, are taken to find
room, those of `main` are not; a failing `send()` (the descriptor is closed) breaks the walk; a walk beside
`main`'s insertions and erasures is a data race and may end the process (`Race`).
A key that `sendKeepAlive` counts for is the name of an entry.  Only a SERVERS list
names one, and its socket is never connected; but LEAVE can close that socket and
a client can be given its number while the entry is still there.  `NameOf` takes
every name that leaves possible.

### ChatSession and the code

The client's part of a step of the server is read off the server's own variables:
`accept()` in `AcceptClient` gives the waiting client its descriptor, and `close()`
takes it away.  `SendLine` is one iteration of the client's loop (125-153): what
`fgets()` may leave in the cleared buffer (`Input`) is copied byte by byte into the
frame (`ClientFrame`), and `CommandOf` is what the server finds in it, with the
server's own test and tokeniser.  A buffer that stays empty, at the end of the
input, becomes a lone ETX: a fragment, sent again and again.  `ListenServer` is the
other thread: `read()` returns 0 and `exit()` ends both; what it reads before makes
room for the server's answers, like the reading of any other peer (`OtherPeers`).  Whether the main thread
notices first (`SendFails`) makes no difference, since the process ends either way.

### Framing, ServerLists and the code

A string is a sequence of symbols: single bytes the code compares with (STX, ETX,
comma, semicolon), and words of two or more bytes that it only copies or compares
whole.  `server_vector` drops a piece that is one byte long, so the difference
matters.  `while (ss.good()) getline()` yields an empty last piece and
`while (getline())` does not (`WhileGood`, `WhileGetline`).

`Receive` is the call of `serverCommand` for a frame, or for two that came
together, and `ReadEntry` one iteration of its loop over the fields (618-644): a
socket is opened for every entry, kept or not; the first entry goes to `servers`
and is not remembered in `stored_names`, the others go to `stored_servers`.
`ReadEntryFails` is the read past the end of the vector, or `stoi()` throwing: the
end of the process.  Reading a list is not interrupted in the code; here it is a
step per entry, and no other action is enabled until it is done.  Peers send
the lists this program itself would make, of groups with and without a port, in
any order, with repetitions, and with the empty entries that accepted
connections leave in such lists; the question of `sendUpdates` (858), with its
three tokens; the KEEPALIVE and the STATUSRESP of this program; the empty frame
that answers every other command; and LEAVE.

A question or a LEAVE glued behind a list is read as one more entry: three fields,
the last one a number.  Behind a list of one entry it is even in step, and is kept
(`Mistaken`), under a name that starts with the two bytes between the frames.  The
other frames glued behind a list end the process.

Passes matter here in one way only: a command may be executed for a server whose
number was closed earlier in the round.  `stale` are the numbers closed in this
round, `gone` those of them that hung up and that `Erase` takes out of the table
(1025-1028); `NextRound` forgets both.  A LEAVE executed for a stale number closes
whatever has it now, the socket of a stored server included.  The number then comes
back as a key and overwrites an entry whose name stays in `stored_names`: that
group is passed over as stored and never shown again.  The same happens at the limit
of descriptors, with -1 as the key.  So no property says that the names passed over
are the names STORED shows.  Chat clients hold no descriptors in this module.

### SysServer, SysService and the code

`SysServer` has the shape of `ChatSockets`: `Select` (281-291), `Accept`
(294-307), `BeginPass`, `Skip`/`Disconnect`/`Serve` for one client (313-331),
`EndPass` with the erasures (333-340), `EndRound` up to the `memset` of the next
round.  `openSockets` starts with the bits of `Stray`, whatever they are.  A
request is what `clientCommand` tells apart: a SYS command, one with a line of
output longer than the buffer `exec` reads into, anything else.  One `recv()` takes
all the unread requests of a connection and executes the first: the clients send
64 bytes however short the line is, and the command ends at the first NUL.  When
`recv()` returns -1 in a later pass, what is in the buffer is answered again.
`sending` is the connection `main` waits for in the blocking `send()` of line 160;
`SendFails` is its return when that client is gone.

`SysService` puts `client.cpp` at the other ends: `ClientAsks` (57-61),
`ClientReads` (63-65; 4096 bytes, which may be a part of a long answer), and
`ClientQuits` for its being killed or a `q` that happened to be in the uninitialised input buffer.

### PortScanner, Checksum, PuzzleSolver and the code

`flight` and `queue` are replies on their way and in the socket.  A datagram may be
lost either way, delivered late, or twice; a full socket drops it.  `Hear`
takes whatever comes first; `htons(recvaddr.sin_port)` is the sender's port, or
garbage if `recv_sock_len`, which is not initialised, happens to be too small
(`Entries`; `garbled` remembers that this happened).  What a reply says is told
apart by its kind only: a greeting, the message with the checksum, the
oracle's list, the answer of an opened door.

The evil-bit and checksum loops have sockets of their own; `due` stands for an
answer on its way to the one in use.  `EvilTimeout` and `ForgeTimeout` may fire
with an answer on its way.  The request for the checksum, the question to the
oracle and the knocks go out over the scan's socket and take its late replies for
their answers (`AskHear`, `OracleHear`, `AfterKnock`).  Setting up a socket
succeeds; where the code exits when it does not (`utils.cpp:148-160`, 216-233),
nothing has been sent in that phase.

`Fold` is `csum` before its complement; the pseudo header and UDP header
are ten words, which `WordSum` bounds.  `ForgedAddress` is 319-327, with the
32-bit wrap of a negative difference.

## 3. Runs

In the runs of the chat server `Fd` is the set of descriptors connections can have;
the listening sockets are 3 and 4.  Two descriptors make every interaction of two
connections happen: reuse of a number, a stale entry in front of a live one, a
break before the other, two ready sockets and so two passes.  `Frames` is what
peers send in a run.  No variable is unbounded: `n` never exceeds the ready
sockets, and the table of descriptors bounds all the rest.

| run | instance | shows |
|---|---|---|
| `sockets_commands` | 2 descriptors; LEAVE, CONNECT, SERVERS | the six invariants of `ChatSockets`, with commands that close, open and exhaust descriptors or kill the process |
| `sockets_live` | 2 descriptors; the client of `ChatSession`, another peer that sends unknown commands | a connected client stays listed and watched; as long as peers read their answers, every round ends and every listed connection with input is read, also beside a client that floods |
| `server_store` | 1 descriptor; FETCH_MSG, SEND_MSG, KEEPALIVE with messages; a named and the unnamed group; no interface found | types of the whole process, its store and threads |
| `server_threads` | 2 descriptors, no frames, both threads | while all servers are healthy, KEEPALIVE goes on reaching each, and the one walk of `sendUpdates` reaches each that was there when it began |
| `store` | 3 groups, 2 texts | types, looks agree, the store implements `Mailboxes` |
| `server_lists` | 2 descriptors, 2 connections; 2 groups, one without a port; lists of up to 3 entries, or of 2 behind another frame | what is stored, what is kept, and what of it reads back |
| `sys_service` | 2 descriptors, 2 clients with 2 lines each, of commands with a long line of output; stray bits for a standard stream and for the second descriptor | descriptors, clients, who is answered, and lock step |
| `puzzle` | 4 ports with three of the four puzzles and one that answers something else; 2 tries, a socket that holds one datagram, 2 doors; the largest sum but one, checksums 0 and 65535 | the scan's list, the forged checksum, success, and that the program ends |

The named bounds are `MaxList` in `ChatSockets` (entries of a list, each a socket)
and in `ServerLists` (entries behind the first), `MaxGlue` (the same behind another
frame, which is at most a list of one entry then), `MaxPeers` (connections), `MaxLines` (what a user types), `MaxQueue`
(datagrams in a socket), `Tries` (six in the code) and `Doors`.  The theorems
hold for all their values.

In `sockets_commands` the frames are those that change descriptors; a command
that kills the process at once is in `server_store`, and all of them are in the
theorems, which hold for every set of frames.  Two descriptors in `server_lists` let an entry find
room or not, depending on the connections, so both sides of the limit occur, and
a number is a connection, closed, a stored server's and a connection again; two
groups, one with a port and one without, beside unnamed entries repeat, reorder
and glue entries in every way.  A third descriptor or group exceeds what TLC can
exhaust in the time of a run; the theorems hold for all.  In `sys_service` a long
SYS command is the request with the most outcomes: the answer, a blocked `send()`
and the end of the process; the others have some of these.  In `sys_service` a stray bit lies on a descriptor that a connection
gets later, and one on a descriptor that never is one.  In `puzzle` the
puzzle ports are neighbours and a port that answers something else is behind them,
so a reply can be late by one window or by more, up to the phases after the scan; a
socket that holds one datagram overflows; the sum and the two checksums are at
both sides of the borrow.  `ForgeryVerifies` (section 4) covers all others.

Properties of these runs:

- `MonitorsConnections`: `openSockets` is the listening sockets and exactly the
  live connections.  The stale table entries `closeClient` leaves behind make this
  more than a formality: a stale entry may be executed for again.
- `SelectCoversAll`: `maxfds` is never below a watched descriptor.
- `SelectNeverFails`: no `EBADF`, so the server does not end its loop.
- `AcceptedIsListed`: an erasure by number never removes the entry of a live
  accepted connection.
- `BufferFromThisRound`: what is left in the buffer is of this round.
- `ClientIsServed`: a client whose connection the server has not closed is among
  its clients and watched by `select()`, whatever numbers were erased or reused.
- `RoundEnds`, `ReadyIsRead`: rounds end, and what is there to read is read, on
  the premise `PeersRead`; see the fairness below.
- `LooksAgree`, `ImplementsMailboxes`: what one look at a group finds, all find.
- `KeepAliveWhileHealthy`, `UpdatesReachAll`: a walk over the table reaches its
  servers although `main` puts entries in front of and behind the iterator.
  Healthy means that every listed server is connected; an erasure under a walk is
  undefined behaviour (`Race`).
- `StoredOnce`: STORED shows no group twice, also after LEAVE and reuse have
  overwritten entries.
- `KeptAsListed`: a server that survives a list keeps nothing but entries some
  peer listed and, behind the first of a list, whole commands of three tokens
  taken for an entry.  Unnamed entries and all other glued frames shift the
  fields, and each such shift ends the process instead of mixing entries up.
- `OwnListReadsBack`: this server's own list comes apart as it was put together,
  if every entry has a name; otherwise its reader ends at one of them.
- `WatchesConnections`: up to `maxfds` the descriptor set nobody cleared is the
  listening socket, the connections, and stray bits of the standard streams only.
- `ClientsAreConnected`: between passes the clients are the connections.
- `OnlyAskersAreAnswered`, `RequestOfThisRound`: the repeated execution of a
  request reaches only connections that asked for something, and is of this round.
- `WaitingIsOwed`, `WaitingEnds`: a client that waits has an answer coming,
  although requests are lost when they come together and answered more than once;
  it comes if no `send()` of the server blocks for ever (`AnswersAreTaken`).
- `PortsAreRight`: no late reply makes one port pass for another.
- `ForgedIsAccepted`: the forged datagram has the checksum that was asked for.
- `SuccessIsEarned`: every mix-up of messages ends the program before it
  reports success, and doors are knocked at in the oracle's order only.
- `EndsWhenFound`: a scan that found its ports is brought to an end.

`ReadyIsRead` is claimed for instances without CONNECT: connections that are
opened and hang up at once can break every pass before a higher descriptor's turn.

Four runs end in a violation, each of a sentence of the code:

| run | sentence | what happens |
|---|---|---|
| `stale_buffer` | `server.cpp:1016`: no check for -1, "because select() only triggers if there is something on the socket for us" | a later pass finds nothing to read and executes the command in the buffer for another socket |
| `keepalive_interval` | `server.cpp:826`: KEEPALIVE on a 1 minute interval | a closed descriptor left in the table breaks the walk before it reaches a connected server |
| `store_cached` | `server.cpp:535`: "wait until someone fetches the message" | after a fetch of an empty group the next message is dropped |
| `foreign_reply` | `puzzlesolver.cpp:66`: the message is parsed "to extract the checksum hex" | a late or repeated greeting of the scan is parsed instead |

Other disagreements were met while modelling and have no run, each being plain
from the code: `closeClient` does not remove the entry from the list (comment at
`server.cpp:403`), and after LEAVE nothing is tidied up (649), since a closed
descriptor never comes out of `select()` again, which `keepalive_interval` shows
the effect of; `maxfds` never goes down although 406 says it is recomputed
(harmless); 548 reports QUERYSERVERS as sent, but 547 sent it to the chat client
that asked; the program's own QUERYSERVERS has three tokens (351, 858), so no
instance of it answers it (595 asks for two); 379 says the last line is not
appended, but an empty last piece is, and pieces of one byte are not;
`sendUpdates` runs once although 848 calls it periodic; the scanner's comment says
ten tries (`scanner.cpp:41`), the code makes six.

### Fairness

The runs assume that threads which can run are scheduled.  Two premises in the
properties themselves are of another kind, for neither the programs nor their
users provide them:

- `PeersRead` (of `RoundEnds` and `ReadyIsRead`): again and again `main` is not
  waiting in a `send()`.  The sockets block, and one peer that asks and never
  reads its answers keeps `main` in the `send()` of 571 or 822, inside a round, for
  ever; nobody else is served.  Without the premise TLC shows exactly that.
- `AnswersAreTaken` (of `WaitingEnds`): the same for line 160 of the remote command
  server.  An honest client suffices to break it: it reads 4096 bytes of a long
  output and then waits for its user, and until that user types another line the
  server is in `send()` and the other clients wait.

Fairness itself:

- `SessionSpec` is weak fairness of the server's `main`; the client, its user and
  other peers may stop.
- `FairServerSpec` is weak fairness of each of the three threads; the lengths of
  the sleeps are left open, so a thread that sleeps wakes up eventually, which
  `sleep_for` guarantees.  Peers, `Killed` and `Race` have none.  No frames are
  sent in that run, so `main` answers nobody; the `send()`s of the threads are
  taken to return.
- `FairSvcSpec` is weak fairness of the server and of a client's `recv()`; it gets
  the server out of no `send()` that blocks.  It assumes that the commands a server
  executes end: `exec` waits for them.
- `FairSpec` of `PuzzleSolver` is weak fairness of the program and strong fairness
  of the network where the program resends: a datagram sent for ever is answered
  once, and an answer waited for again and again arrives once in time.  Neither
  is assumed of the scan, the oracle's answer or the knocks, which the code does
  not repeat until they succeed.

The processes stop in several ways (`status`); an explicit step for a stopped
process keeps deadlock checking on, so a live process that could do nothing would
be reported.

## 4. Proofs

The theorems hold for every value of the constants the assumptions allow: finite
sets of descriptors above the listening sockets (`FdAssumption`,
`SysFdAssumption`; a listening socket is opened before any connection and gets a
lower number), every set of commands, groups, texts and peers, any stray bits
below or among the descriptors, any positive number of tries and doors, any
pairwise different puzzle ports.

`ChatSockets_proofs` proves an inductive invariant `IInv` and from it
`TypeCorrect`, `ConnectionsMonitored`, `MaxfdsCovers`, `ServerNeverFinishes`,
`AcceptedStaysListed` and `BufferIsOfThisRound`.  The properties are not
inductive by themselves:

- A `Close` takes its descriptor out of `openSockets` whatever it was, and a
  stale entry can be served, so `MonitorsConnections` needs no more than itself
  and types; but `SelectNeverFails` needs it.
- `SelectCoversAll` needs `ClientsCovered`: every client's number, stale or not,
  is at most `maxfds`, since `closeClient` takes the maximum over them.
- `AcceptedIsListed` needs `GoneIsClosed`: a number in `disconnectedClients` is
  not an accepted connection.  Numbers come back by `accept()` only in the two
  steps before the passes, where `GoneIsEmpty` holds; connections made by
  CONNECT in the same round can take such a number, and are excluded.
- `BufferFromThisRound` needs `BufferIsClear`: whenever `main` is about to call
  `select()` the buffer is clear, so a new `readSockets` makes nothing in it stale.

Each is a conjunct of `IInv`; the step proof has one case per action, and lets
peers send whatever they like (`AnyNext`), so that the modules that put
particular peers at the other ends can use it.

`ChatSession_proofs` shows that every step of the session is such a step
(`StepIsLoopStep`).  The loop's safety carries over (`SessionLoopSafe`);
`SessionTypeCorrect` and `SessionClientServed` need an induction of their own,
with `GoneIsClosed` for the erasures and `MonitorsConnections` for the watching.

`MessageStore_proofs` proves `StoreTypeCorrect`, `LooksAlwaysAgree` (with the
conjunct that whatever was seen for a group is what its key holds now) and the
refinement `StoreImplementsMailboxes`, by the initial state, one case per
operation, and the stutter.

`ChatServer_proofs` carries the five safety properties of the loop over to the
whole server (`ServerKeepsLoopSafe`).  Its lemmas `ServerRunsLoop` and
`ServerRunsStore` say that a behaviour of the whole is one of the loop and one of
the store; they record how the module is put together (a thread changes nothing of
`main`'s but may kill the process, and the store is used through its operations)
and are not results of their own.  `ServerTypeCorrect` is put together from the
types of the parts: the event loop's, the store's by the theorem about the store
(`StoreProofs == INSTANCE MessageStore_proofs`); only the iterators of the two
threads need an induction of their own.

`SysService_proofs` proves the invariant `SysIInv` and the properties of
`SysServer`.  `WatchesConnections` rests on two facts: a stray bit above `maxfds`
is not looked at before its descriptor is a connection, for `accept()` gives
the lowest free number; and `closeClient` never lowers `maxfds`, for the client it
closes is still in the set it takes the maximum of (`ClientsCovered`, `MaxfdsStays`).  `OnlyAskersAreAnswered` needs that a
descriptor in `readSockets` that is not yet visited had input or an end of file
(`ReportedAreDue`), and that each peer has one connection.

Its second part carries the properties of the server over to the service
(`ServiceKeepsPromises`; `ServiceRunsServer` holds because the clients are built
from the peers' actions), and proves `WaitingOwed` on top of them.

`PuzzleSolver_proofs` proves `ForgeryVerifies` for every sum of ten words and every
checksum.  The arithmetic is done once for an arbitrary base above 30
(`DivMod`, `OneBase`), so that no prover meets the number 65536.
`PuzzleForgedAccepted` uses it; the invariant of the solver relates
the scan's list to what was heard, and the list of doors to what the checksum was
parsed from: past the forging, it was the right message.

`ServerLists_proofs` proves `ListsStoredOnce`.  The strengthening is that what
`stored_servers` shows is remembered in `stored_names` (`ShownIsStored`); the
converse does not hold (section 2), and is not needed: an entry that is
overwritten leaves its name behind.

`Framing_proofs` proves `ListReadsBack`: a list of any length that this program
puts together is taken apart into the fields of its entries, in order, by another
instance, with one of the three missing for an entry without a name.  The
tokenisers are recursive functions over the bytes of a string and lists are
flattened sequences, so the argument is an induction.  The library's induction
theorems take an operator and cannot be used; in their place the module proves
induction for sets of numbers (`NumberInduction`, from the least member of a set),
and that a recursion up to a number has exactly one solution (`Recursion`,
`RecursionUnique`).  From there on only the equations of the recursions are
used: the pieces of two strings with a separator between them (`PiecesJoin`), one
entry in front of a list (`BodyHead`, `ReadHead`, `RestEntry`).

On top of it `ServerLists_proofs` proves `ListsTypeCorrect`, `ListsKeptAsListed`
and `ListsOwnReadBack`.  `KeptAsListed` speaks of the time between two messages
only, and is not inductive: the invariant `FieldsInv` says what may be left of a
list in the middle of it.  The tables are clean, and that is in step (`InStep`), or
one complete entry and then out of step or a command (`GoesOut`), as it is in front
of a glued frame, or such a command that is about to be taken for an entry
(`IsMistaken`), which is never the first; or it is out of step (`OutOfStep`): with
one field too many in front every third field is an address, so entries are read
across their borders until fields are missing, and the process ends.  That
the tail of an unnamed entry never has a number in the third place
(`AfterUnnamed`) is why such an entry ends the process at once.  `MessageRead`
shows that whatever `recv()` returns starts in one of the first two; the lemmas
`GluedWords` to `GluedRest` go through what can be glued to what.  What a
peer's list holds is any sequence of entries here, of any length.

Only model-checked: the liveness properties, which depend on fairness (`RoundEnds`,
`ReadyIsRead`, `WaitingEnds`, `EndsWhenFound`, `KeepAliveWhileHealthy`,
`UpdatesReachAll`).  The violations are TLC's.

## 5. What is not modelled

- `ip.cpp` and the build files: no state, no logic.
- What happens after undefined behaviour: the models stop, or take every outcome
  short of arbitrary memory.  Beyond the descriptor limit the loops go on with -1
  as a descriptor; `ServerLists` models that where it is defined (-1 as a key of a
  map).  Descriptors of FD_SETSIZE and more are not modelled.
- A list of servers longer than the receive buffer, and the tail of a longer
  message behind a shorter list: the loop's buffer is in `ChatSockets`, where
  a message is its command, and the text of lists in `ServerLists`, which
  takes it from a clear buffer.
- Two chat servers exchanging frames.  Every frame of a server is answered and
  STATUSRESP with STATUSRESP (797), so one question starts an exchange that never
  stops; but what it changes in either server is nothing the modules describe.
- `ip_sum` in `utils.cpp` adds up words of a buffer past the end of the datagram;
  the kernel writes that header field again.  The headers of raw datagrams are
  left out but for the sum of their words.
- The 20000 characters `exec` reads into 128: a possible end of the process.
