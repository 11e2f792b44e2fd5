----------------------------- MODULE ChatServer -----------------------------
(***************************************************************************)
(* The whole chat server (project3/server.cpp): the event loop of          *)
(* ChatSockets, the message store it and the keep-alive thread work on,    *)
(* and the two threads main starts, sendKeepAlive and sendUpdates, which   *)
(* walk the table of servers with no lock against main.                    *)
(***************************************************************************)
EXTENDS ChatSockets

CONSTANTS
  Group, Text,  \* as in MessageStore
  Unnamed       \* the empty name of a server that never was in a SERVERS list

ASSUME GroupAssumption == Unnamed \in Group

VARIABLES
  messages, sent, looked,  \* the store
  keepAlive, keepAliveAt,  \* sendKeepAlive: where it is, its iterator
  updates, updatesAt       \* sendUpdates: where it is, its iterator

store   == <<messages, sent, looked>>
threads == <<keepAlive, keepAliveAt, updates, updatesAt>>
allvars == <<vars, store, threads>>

Store == INSTANCE MessageStore

ServerInit ==
  /\ Init
  /\ Store!StoreInit
  /\ keepAlive = "asleep" /\ keepAliveAt = NoFd
  /\ updates = "asleep" /\ updatesAt = NoFd

-----------------------------------------------------------------------------
(* main, with what its command does to the store, and its peers. *)

Fetches == ran'.by = "clients" /\ ran'.cmd = "FETCH_MSG/2"
Sends   == ran'.by = "clients" /\ ran'.cmd = "SEND_MSG/3"

MainThread ==
  /\ Main
  /\ \/ Fetches /\ \E g \in Group : Store!FetchMsg(g)
     \/ Sends /\ \E g \in Group, t \in Text : Store!SendMsg(g, t)
     \/ ~ Fetches /\ ~ Sends /\ UNCHANGED store
  /\ UNCHANGED threads

Outside == Peers /\ UNCHANGED <<store, threads>>

-----------------------------------------------------------------------------
(***************************************************************************)
(* The walks of the two threads.  send() to an entry of the table fails    *)
(* when main has closed its descriptor, and the walk is then broken off;   *)
(* it kills the process on a socket without a connection, and may do so    *)
(* when the peer is away.  An entry main has erased under the iterator     *)
(* leaves it dangling: the walk may go on anywhere.                        *)
(***************************************************************************)
\* What main owns, as a step of another thread leaves it.
MainUntouched == UNCHANGED <<kernel, tables, fdsets, round, locals>>

SendOk(f)   == sock[f] \in {"in", "out"}
SendDies(f) == sock[f] = "raw" \/ f \in eof
WalkOn(f)   == IF f \in servers THEN After(servers, f) ELSE servers \cup {NoFd}

\* A minute has passed.
KeepAliveWakes ==
  /\ Alive /\ keepAlive = "asleep"
  /\ keepAlive' = "walking" /\ keepAliveAt' \in First(servers)
  /\ MainUntouched
  /\ UNCHANGED <<status, store, updates, updatesAt>>

\* The names an entry can have.  Only SERVERS gives one, to a raw socket; such
\* an entry can outlive its socket, and the number can come back for a client.
NameOf(f) ==
  IF sock[f] = "out" \/ (sock[f] = "in" /\ f \notin clients) THEN {Unnamed} ELSE Group

KeepAliveCounts(f) ==
  /\ Alive /\ keepAlive = "walking" /\ keepAliveAt = f
  /\ \E g \in NameOf(f) : Store!Count(g)
  /\ MainUntouched

\* Faulty: one KEEPALIVE per minute, to the first server.
KeepAliveSendsOnce(f) ==
  /\ KeepAliveCounts(f) /\ SendOk(f)
  /\ keepAliveAt' = NoFd
  /\ UNCHANGED <<status, keepAlive, updates, updatesAt>>

\* KEEPALIVE goes out, and the iterator moves on.
KeepAliveSends(f) ==
  /\ KeepAliveCounts(f) /\ SendOk(f)
  /\ keepAliveAt' \in WalkOn(f)
  /\ UNCHANGED <<status, keepAlive, updates, updatesAt>>

\* Faulty: return instead of break.
KeepAliveReturns(f) ==
  /\ KeepAliveCounts(f) /\ sock[f] = "free"
  /\ keepAlive' = "done" /\ keepAliveAt' = NoFd
  /\ UNCHANGED <<status, updates, updatesAt>>

\* perror, and break.
KeepAliveBreaks(f) ==
  /\ KeepAliveCounts(f) /\ sock[f] = "free"
  /\ keepAlive' = "asleep" /\ keepAliveAt' = NoFd
  /\ UNCHANGED <<status, updates, updatesAt>>

\* SIGPIPE, or the name of an entry that is no longer there.
KeepAliveDies(f) ==
  /\ KeepAliveCounts(f) /\ (SendDies(f) \/ f \notin servers)
  /\ status' = "crashed"
  /\ UNCHANGED threads

KeepAliveEnds ==
  /\ Alive /\ keepAlive = "walking" /\ keepAliveAt = NoFd
  /\ keepAlive' = "asleep"
  /\ MainUntouched
  /\ UNCHANGED <<status, store, keepAliveAt, updates, updatesAt>>

KeepAlive ==
  \/ KeepAliveWakes \/ KeepAliveEnds
  \/ \E f \in Fd : KeepAliveSends(f) \/ KeepAliveBreaks(f) \/ KeepAliveDies(f)

\* Seven and a half minutes have passed.
UpdatesWakes ==
  /\ Alive /\ updates = "asleep"
  /\ updates' = "walking" /\ updatesAt' \in First(servers)
  /\ MainUntouched
  /\ UNCHANGED <<status, store, keepAlive, keepAliveAt>>

UpdatesAtEntry(f) ==
  /\ Alive /\ updates = "walking" /\ updatesAt = f
  /\ MainUntouched
  /\ UNCHANGED <<store, keepAlive, keepAliveAt>>

\* Faulty: the walk is broken off where send() did not fail.
UpdatesSendsOnce(f) ==
  /\ UpdatesAtEntry(f) /\ SendOk(f) /\ ~ LocalIpThrows
  /\ updatesAt' = NoFd
  /\ UNCHANGED <<status, updates>>

\* QUERYSERVERS goes out, with the address of this host.
UpdatesSends(f) ==
  /\ UpdatesAtEntry(f) /\ SendOk(f) /\ ~ LocalIpThrows
  /\ updatesAt' \in WalkOn(f)
  /\ UNCHANGED <<status, updates>>

\* perror, break, and the function returns.
UpdatesBreaks(f) ==
  /\ UpdatesAtEntry(f) /\ sock[f] = "free" /\ ~ LocalIpThrows
  /\ updates' = "done" /\ updatesAt' = NoFd
  /\ UNCHANGED status

UpdatesDies(f) ==
  /\ UpdatesAtEntry(f) /\ (SendDies(f) \/ f \notin servers \/ LocalIpThrows)
  /\ status' = "crashed"
  /\ UNCHANGED <<updates, updatesAt>>

UpdatesEnds ==
  /\ Alive /\ updates = "walking" /\ updatesAt = NoFd
  /\ updates' = "done"
  /\ MainUntouched
  /\ UNCHANGED <<status, store, keepAlive, keepAliveAt, updatesAt>>

Updates ==
  \/ UpdatesWakes \/ UpdatesEnds
  \/ \E f \in Fd : UpdatesSends(f) \/ UpdatesBreaks(f) \/ UpdatesDies(f)

\* A walk beside main's insertions and erasures is a data race on the tree.
Race ==
  /\ Alive /\ (keepAlive = "walking" \/ updates = "walking")
  /\ pc \in {"acceptServer", "servers", "clients"}
  /\ status' = "crashed"
  /\ MainUntouched
  /\ UNCHANGED <<store, threads>>

-----------------------------------------------------------------------------
Stopped == ~ Alive /\ UNCHANGED allvars

ServerNext ==
  \/ MainThread \/ KeepAlive \/ Updates
  \/ Outside \/ Race \/ Stopped

ServerSpec == ServerInit /\ [][ServerNext]_allvars

\* Every thread runs; how long the sleeps take is left open.  A send() of main
\* may block (ChatSockets); those of the threads, of a few bytes to a peer that
\* is connected, are taken to find room.
FairServerSpec ==
  ServerSpec /\ WF_allvars(MainThread) /\ WF_allvars(KeepAlive) /\ WF_allvars(Updates)

-----------------------------------------------------------------------------
ServerTypeOK ==
  /\ TypeOK
  /\ Store!StoreTypeOK
  /\ keepAlive \in {"asleep", "walking"} /\ keepAliveAt \in Fd \cup {NoFd}
  /\ updates \in {"asleep", "walking", "done"} /\ updatesAt \in Fd \cup {NoFd}

\* A server whose connection stays up gets KEEPALIVE again and again, provided
\* every server in the table is connected and stays so.
Healthy == servers \subseteq Connected \ eof

KeepAliveWhileHealthy ==
  \A f \in Fd : <>[](f \in servers /\ Healthy /\ Alive)
                  => []<><<KeepAliveSends(f)>>_allvars

\* The one walk of sendUpdates asks every server that was in the table when it
\* began, under the same proviso, whatever connects and is accepted beside it.
UpdatesReachAll ==
  \A f \in Fd :
    [](updates = "asleep" /\ [](f \in servers /\ Healthy /\ Alive)
         => <>(updates = "walking" /\ updatesAt = f))

-----------------------------------------------------------------------------
\* server.cpp:826, of sendKeepAlive: "Sends on KEEPALIVE on 1 minute interval".
KeepAliveOnInterval ==
  \A f \in Fd : <>[](f \in servers /\ f \in Connected \ eof /\ Alive)
                  => []<><<KeepAliveSends(f)>>_allvars
=============================================================================
