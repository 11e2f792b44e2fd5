---------------------------- MODULE ServerLists ----------------------------
(***************************************************************************)
(* The lists of servers a chat server (project3/server.cpp) keeps, and the *)
(* SERVERS messages they come from: the entries of the table `servers`,    *)
(* stored_servers and stored_names, and the sockets opened for them.       *)
(* Peers send lists made the way this program makes its own.               *)
(*                                                                         *)
(* Passes are in ChatSockets.  What matters of them here is that a command *)
(* may be executed again for a server whose number was closed earlier in   *)
(* the round.  A list is read in the same way whoever it is executed for,  *)
(* so one that a later pass finds in the buffer does what a peer does that *)
(* sends it twice.  One recv() may return two frames; it returns no part   *)
(* of one, and the buffer it fills is clear (what a longer message of the  *)
(* same round leaves behind it is in ChatSockets: such a tail can be kept  *)
(* as an entry).  That the answer to an unconnected socket ends the        *)
(* process is there, too; chat clients hold no descriptors here.           *)
(***************************************************************************)
EXTENDS Framing

CONSTANTS
  Fd,        \* descriptors for connections and for the sockets of entries
  Group,     \* groups that peers list
  Silent,    \* those of them without a port
  Own,       \* this server's group
  MaxPeers,  \* connections at a time
  MaxList,   \* entries of a list behind its first
  MaxGlue    \* the same, when the list comes glued to a frame before it,
             \* which then is at most a list of one entry

ASSUME ListsAssumption ==
  /\ Fd \subseteq Nat /\ IsFiniteSet(Fd)
  /\ Silent \subseteq Group /\ Own \notin Group
  /\ MaxPeers \in Nat /\ MaxList \in Nat /\ MaxGlue \in Nat

VARIABLES
  status,           \* "running" or "crashed"
  servers,          \* the table: descriptor to entry
  stored_servers,   \* as servers, for all entries of lists but the first
  stored_names,     \* a vector that is only appended to and searched
  opened,           \* descriptors in use
  conns,            \* those of them that are connections to peers
  stale,            \* closed in this round, and still in readSockets
  gone,             \* disconnectedClients: those of them that hung up
  todo,             \* group_IP_portnr_list from index i on
  first             \* i == 0

tables   == <<servers, stored_servers, stored_names>>
kernel   == <<opened, conns>>
reading  == <<todo, first>>
passes   == <<stale, gone>>
listvars == <<status, tables, kernel, passes, reading>>

NoFd == -1

ListsInit ==
  /\ status = "running"
  /\ servers = <<>> /\ stored_servers = <<>> /\ stored_names = {}
  /\ opened = {} /\ conns = {} /\ stale = {} /\ gone = {}
  /\ todo = <<>> /\ first = FALSE

Put(t, f, e) == [g \in DOMAIN t \cup {f} |-> IF g = f THEN e ELSE t[g]]
Drop(t, S)   == [g \in DOMAIN t \ S |-> t[g]]

\* The loop is between two messages.
Idle == status = "running" /\ todo = <<>>

\* What the next socket() may return: the lowest free number, or -1.
Free    == Fd \ opened
NextFds == IF Free = {} THEN {NoFd} ELSE {f \in Free : \A g \in Free : f <= g}

-----------------------------------------------------------------------------
(* The peers. *)

\* A list starts with the entry of its sender.  A peer may be an instance of
\* this program; its table may have unnamed entries, as this one's does.
Listed == {IF g \in Silent THEN Portless(g) ELSE Entry(g) : g \in Group}

PeerLists(max) ==
  {ListMessage(e, es) : e \in Listed \cup {Entry(Own)},
                        es \in BoundedSeq(Listed \cup {Unnamed}, max)}

\* What else peers send.  Three commands of this program: the question of
\* sendUpdates, whose second token is a group and an address, the announcement
\* of no messages (one of messages ends the process when it is executed: see
\* ChatSockets), and the answer to a STATUSREQ, in which the name of an
\* accepted server is empty.  LEAVE, which this program never sends, has two
\* tokens behind the one it looks at.
Question   == <<Word("QUERYSERVERS"), Comma, Name(Own), Ip(Own), Comma, Port(Own)>>
KeepAlive  == <<Word("KEEPALIVE"), Comma, Word("0")>>
StatusResp == <<Word("STATUSRESP"), Comma, Name(Own), Comma, Comma>>
LeaveText  == <<Word("LEAVE"), Comma, Ip(Own), Comma, Port(Own)>>

\* The empty frame answers every other command.
Others == {<<>>, Question, KeepAlive, StatusResp, LeaveText}

Frames(max) == {ConstructMessage(m) : m \in PeerLists(max) \cup Others}

\* accept(), or a client's CONNECT: the entry has no name.
AcceptPeer ==
  /\ Idle /\ Free # {} /\ Cardinality(conns) < MaxPeers
  /\ \E f \in NextFds :
       /\ opened' = opened \cup {f} /\ conns' = conns \cup {f}
       /\ servers' = Put(servers, f, Unnamed)
  /\ UNCHANGED <<status, stored_servers, stored_names, passes, reading>>

\* Faulty: the loop goes on reading from a peer that is gone.
PeerLeavesUnnoticed(f) ==
  /\ Idle /\ f \in conns
  /\ opened' = opened \ {f}
  /\ stale' = stale \cup {f} /\ gone' = gone \cup {f}
  /\ UNCHANGED <<status, tables, conns, reading>>

\* A peer hangs up: closeClient.
PeerLeaves(f) ==
  /\ Idle /\ f \in conns
  /\ opened' = opened \ {f} /\ conns' = conns \ {f}
  /\ stale' = stale \cup {f} /\ gone' = gone \cup {f}
  /\ UNCHANGED <<status, tables, reading>>

\* The erasures at the end of an iteration, by number.  After the last pass of
\* a round there are none.
Erase ==
  /\ Idle /\ gone # {}
  /\ servers' = Drop(servers, gone)
  /\ UNCHANGED <<status, stored_servers, stored_names, kernel, passes, reading>>

\* The end of a round.
NextRound ==
  /\ Idle /\ stale # {}
  /\ stale' = {} /\ gone' = {}
  /\ UNCHANGED <<status, tables, kernel, reading>>

-----------------------------------------------------------------------------
(* serverCommand *)

IsList(m) == WhileGood(Contents(m), Comma)[1] = <<Word("SERVERS")>>

IsLeave(m) == WhileGood(Contents(m), Comma)[1] = <<Word("LEAVE")>>

\* A message is executed for server f.  LEAVE closes the number, whatever it is
\* by now; nothing else but a list matters here.
ServerCommand(f, m) ==
  LET leaves == ValidMessage(m) /\ IsLeave(m)
  IN  /\ opened' = IF leaves THEN opened \ {f} ELSE opened
      /\ conns' = IF leaves THEN conns \ {f} ELSE conns
      /\ stale' = IF leaves THEN stale \cup {f} ELSE stale
      /\ IF ValidMessage(m) /\ IsList(m)
         THEN todo' = ListFields(Contents(m)) /\ first' = TRUE
         ELSE UNCHANGED reading

\* What recv() may return: a frame, or two that arrived together and are taken
\* for one message.
Messages == Frames(MaxList) \cup {m \o m2 : m \in Frames(0), m2 \in Frames(MaxGlue)}

\* The servers a message is executed for: those select() has reported in this
\* round (or will, in the next).  The walk erases those that hung up in an
\* earlier pass behind its first iteration.
Ready(f) ==
  /\ f \in DOMAIN servers /\ f \in conns \cup stale
  /\ f \in gone => \A g \in DOMAIN servers : f <= g

Receive(f, m) ==
  /\ Idle /\ Ready(f)
  /\ ServerCommand(f, m)
  /\ UNCHANGED <<status, tables, gone>>

\* An entry with a port, of another group, that is not stored yet.
New(e) ==
  /\ e.port # <<>> => e.port[1] # NoPort
  /\ e.name # <<Name(Own)>> /\ e.name \notin stored_names

\* Two faulty forms of ReadEntry: the name is not remembered, and atoi() is
\* called where stoi() throws.
ReadEntryWith(Remembers, Numeric(_)) ==
  /\ status = "running" /\ Len(todo) >= 3 /\ Numeric(todo[3])
  /\ \E sock \in NextFds :
       LET e == [name |-> todo[1], ip |-> todo[2], port |-> todo[3]]
       IN  /\ opened' = opened \cup ({sock} \ {NoFd})
           /\ servers' = IF New(e) /\ first THEN Put(servers, sock, e) ELSE servers
           /\ stored_servers' = IF New(e) /\ ~ first THEN Put(stored_servers, sock, e)
                                                     ELSE stored_servers
           /\ stored_names' = IF Remembers /\ New(e) /\ ~ first
                              THEN stored_names \cup {e.name} ELSE stored_names
  /\ todo' = SubSeq(todo, 4, Len(todo)) /\ first' = FALSE
  /\ UNCHANGED <<status, conns, passes>>

ReadEntryForgetting == ReadEntryWith(FALSE, IsNumber)
ReadEntryAtoi       == ReadEntryWith(TRUE, LAMBDA s : TRUE)

\* One iteration over the list: a socket for every entry, whether it is kept
\* or not.  The first entry goes to servers and is not remembered, the others
\* go to stored_servers.
ReadEntry ==
  /\ status = "running" /\ Len(todo) >= 3 /\ IsNumber(todo[3])
  /\ \E sock \in NextFds :
       LET e      == [name |-> todo[1], ip |-> todo[2], port |-> todo[3]]
           listed == New(e) /\ first
           stored == New(e) /\ ~ first
       IN  /\ opened' = opened \cup ({sock} \ {NoFd})
           /\ servers' = IF listed THEN Put(servers, sock, e) ELSE servers
           /\ stored_servers' = IF stored THEN Put(stored_servers, sock, e) ELSE stored_servers
           /\ stored_names' = IF stored THEN stored_names \cup {e.name} ELSE stored_names
  /\ todo' = SubSeq(todo, 4, Len(todo)) /\ first' = FALSE
  /\ UNCHANGED <<status, conns, passes>>

\* Fields are missing (a read past the end of the vector), or the third is no
\* number and stoi() throws.  The process ends.
Refused(fs) == fs # <<>> /\ (Len(fs) >= 3 => ~ IsNumber(fs[3]))

ReadEntryFails ==
  /\ status = "running" /\ Refused(todo)
  /\ status' = "crashed"
  /\ todo' = <<>> /\ first' = FALSE
  /\ UNCHANGED <<tables, kernel, passes>>

-----------------------------------------------------------------------------
(* clientCommand, as far as it reads the lists. *)

\* The entries of a table in the order of the map.
Rank(f, S) == Cardinality({g \in S : g <= f})

InOrder(t) ==
  [i \in 1..Cardinality(DOMAIN t) |-> t[CHOOSE f \in DOMAIN t : Rank(f, DOMAIN t) = i]]

\* The answers to QUERYSERVERS of a server and to STORED of a client.
ServersAnswer == ListMessage(Entry(Own), InOrder(servers))
StoredAnswer  == FlattenSeq([i \in 1..Len(InOrder(stored_servers)) |->
                               EntryText(InOrder(stored_servers)[i])])

\* QUERYSERVERS of a client, with no server to name: pop_back() on nothing.
QueryNobody(m) == WhileGood(m, Comma) = << <<Word("QUERYSERVERS")>> >> /\ DOMAIN servers = {}

\* What clients send: that, or something else.
ClientMessages == {<<Word("QUERYSERVERS")>>, <<Word("STORED")>>}

ClientCommand(m) ==
  /\ Idle
  /\ status' = IF QueryNobody(m) THEN "crashed" ELSE status
  /\ UNCHANGED <<tables, kernel, passes, reading>>

Server ==
  \/ \E f \in Fd, m \in Messages : Receive(f, m)
  \/ Erase \/ NextRound
  \/ ReadEntry \/ ReadEntryFails

ListPeers == AcceptPeer \/ \E f \in Fd : PeerLeaves(f)

\* The process has ended; nothing happens any more.
Dead == status = "crashed" /\ UNCHANGED listvars

ListsNext ==
  \/ Server \/ ListPeers
  \/ \E m \in ClientMessages : ClientCommand(m)
  \/ Dead

ListsSpec == ListsInit /\ [][ListsNext]_listvars

-----------------------------------------------------------------------------
Text  == Seq(Symbol(Group \cup {Own}))
Entries == [name : Text, ip : Text, port : Text]

ListsTypeOK ==
  /\ status \in {"running", "crashed"}
  /\ DOMAIN servers \subseteq Fd \cup {NoFd}
  /\ DOMAIN stored_servers \subseteq Fd \cup {NoFd}
  /\ \A f \in DOMAIN servers : servers[f] \in Entries
  /\ \A f \in DOMAIN stored_servers : stored_servers[f] \in Entries
  /\ stored_names \subseteq Text
  /\ opened \subseteq Fd /\ conns \subseteq opened
  /\ stale \subseteq Fd /\ gone \subseteq stale
  /\ todo \in Seq(Text)
  /\ first \in BOOLEAN

\* STORED never shows a group twice, however often lists repeat it, name it in
\* two places, or are executed again in a later pass.
StoredOnce ==
  \A f, g \in DOMAIN stored_servers :
    stored_servers[f].name = stored_servers[g].name => f = g

\* A command of three tokens, the last one a number, that arrives glued behind
\* a list of one entry is taken for another entry: for a server named like the
\* command.
Mistaken ==
  {[name |-> <<ETX, STX, Word("QUERYSERVERS")>>,
      ip |-> <<Name(Own), Ip(Own)>>, port |-> <<Port(Own)>>],
   [name |-> <<ETX, STX, Word("LEAVE")>>, ip |-> <<Ip(Own)>>, port |-> <<Port(Own)>>]}

\* The fields of an entry stay together.  Whatever unnamed entries lists hold,
\* and whatever arrives glued to a list, a server that has survived it keeps
\* only entries some peer listed and, behind the first of a list, commands as
\* a whole: a list that got out of step ends the process (a third field that
\* is no number, or fields missing at the end).
KeptAsListed ==
  Idle =>
    /\ \A f \in DOMAIN servers : servers[f] \in Listed \cup {Unnamed}
    /\ \A f \in DOMAIN stored_servers : stored_servers[f] \in Listed \cup Mistaken

\* This server's own answer to QUERYSERVERS, read by another instance: when
\* every entry has a name all fields come out in their places, otherwise the
\* reader gives up at some entry.
AllFields(es) == FlattenSeq([i \in 1..Len(es) |-> Fields(es[i])])

OwnListReadsBack ==
  Idle =>
    LET es == InOrder(servers)
        fs == ListFields(ServersAnswer)
    IN  IF \A i \in 1..Len(es) : es[i] # Unnamed
        THEN fs = AllFields(<<Entry(Own)>> \o es)
        ELSE \E i \in 0..Len(fs) : Refused(SubSeq(fs, 3 * i + 1, Len(fs)))
=============================================================================
