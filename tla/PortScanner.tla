---------------------------- MODULE PortScanner -----------------------------
(***************************************************************************)
(* The UDP port scanner (project2/scanner.cpp) and the network under it.   *)
(*                                                                         *)
(* Datagrams to the puzzle server and its replies may be lost, delayed,    *)
(* overtaken and delivered twice.  All replies come to the one socket, and *)
(* each probe takes whatever comes first for its answer.                   *)
(***************************************************************************)
EXTENDS Integers, Sequences, FiniteSets

CONSTANTS
  From, To,                    \* the ports that are scanned
  Tries,                       \* probes of a port that does not answer
  SPort, IPort, MPort, TPort,  \* the puzzle ports of the server
  OtherPorts,                  \* ports where something else answers
  MaxQueue                     \* most datagrams the socket holds

NoPort  == 0
Garbage == -1   \* a port number that was never written

Kind == {"S", "I", "M", "T"}
Puzzle == [S |-> SPort, I |-> IPort, M |-> MPort, T |-> TPort]

ASSUME ScanAssumption ==
  /\ From \in Nat \ {0} /\ To \in Nat /\ From <= To
  /\ Tries \in Nat \ {0} /\ MaxQueue \in Nat
  /\ \A k \in Kind : Puzzle[k] \in Nat \ {0}
  /\ \A k, l \in Kind : Puzzle[k] = Puzzle[l] => k = l
  /\ \A k \in Kind : Puzzle[k] \notin OtherPorts

\* A reply: the puzzle port it comes from, and what it says.  The first letter
\* of a greeting tells the puzzle.
Texts == {"greeting", "checksum", "list", "open"}
Reply == [kind : Kind \cup {"other"}, text : Texts]

VARIABLES
  pc,       \* where the program is
  port,     \* the port that is probed
  tries,    \* how often
  ports,    \* sorted_port_list
  flight,   \* replies that are on their way
  queue,    \* replies in the socket
  heard,    \* history: the puzzle ports a reply of which was read in the scan
  garbled   \* history: a reply was read without its sender

net      == <<flight, queue>>
scanning == <<port, tries>>
scanvars == <<pc, scanning, ports, net, heard, garbled>>

ScanInit ==
  /\ pc = "probe" /\ port = From /\ tries = 0
  /\ ports = [k \in Kind |-> NoPort]
  /\ flight = {} /\ queue = <<>>
  /\ heard = {} /\ garbled = FALSE

-----------------------------------------------------------------------------
(* The network and the server at the other end. *)

\* A reply arrives, and may do so again.  A full socket loses it.
Deliver(r) ==
  /\ r \in flight
  /\ flight' \in {flight, flight \ {r}}
  /\ queue' = IF Len(queue) < MaxQueue THEN Append(queue, r) ELSE queue

Lose(r) == r \in flight /\ flight' = flight \ {r} /\ UNCHANGED queue

Network ==
  /\ \E r \in flight : Deliver(r) \/ Lose(r)
  /\ UNCHANGED <<pc, scanning, ports, heard, garbled>>

\* sendto(): the datagram is lost, or answered by one of the replies.
SendTo(replies) ==
  /\ flight' \in {flight} \cup {flight \cup {r} : r \in replies}
  /\ UNCHANGED queue

Greetings(p) ==
  {[kind |-> k, text |-> "greeting"] :
     k \in {k \in Kind : Puzzle[k] = p} \cup (IF p \in OtherPorts THEN {"other"} ELSE {})}

Receive(r) == queue # <<>> /\ r = Head(queue) /\ queue' = Tail(queue) /\ UNCHANGED flight

\* SO_RCVTIMEO has passed.
TimesOut == queue = <<>> /\ UNCHANGED net

-----------------------------------------------------------------------------
(* send_to_server and the loop over the ports. *)

Probe ==
  /\ pc = "probe" /\ pc' = "listen"
  /\ SendTo(Greetings(port))
  /\ UNCHANGED <<scanning, ports, heard, garbled>>

\* Faulty: one port too many.
NextPortTooFar ==
  /\ port' = port + 1 /\ tries' = 0
  /\ pc' = IF port > To THEN "evil" ELSE "probe"

NextPort ==
  /\ port' = port + 1 /\ tries' = 0
  /\ pc' = IF port = To THEN "evil" ELSE "probe"

\* Faulty: the port that was probed and not the one that answered.
EntriesAsProbed(k) == {port}

\* What htons(recvaddr.sin_port) may be.  recv_sock_len is not initialised: if
\* it happens to be too small, the sender's port is not written, and recvaddr
\* is not initialised either.
Entries(k) == {Puzzle[k], NoPort, Garbage}

\* A reply, to this probe or an earlier one.
Hear(r) ==
  /\ pc = "listen" /\ Receive(r)
  /\ IF r.kind \in Kind
     THEN \E e \in Entries(r.kind) :
            /\ ports' = [ports EXCEPT ![r.kind] = e]
            /\ garbled' = (garbled \/ e \in {NoPort, Garbage})
            /\ heard' = heard \cup {r.kind}
     ELSE UNCHANGED <<ports, heard, garbled>>
  /\ NextPort

NoAnswer ==
  /\ pc = "listen" /\ TimesOut
  /\ IF tries + 1 < Tries
     THEN tries' = tries + 1 /\ pc' = "probe" /\ UNCHANGED port
     ELSE NextPort
  /\ UNCHANGED <<ports, heard, garbled>>

Scan == Probe \/ NoAnswer \/ \E r \in Reply : Hear(r)

-----------------------------------------------------------------------------
ScanTypeOK ==
  /\ port \in From..(To + 1) /\ tries \in 0..(Tries - 1)
  /\ ports \in [Kind -> Int]
  /\ flight \subseteq Reply /\ queue \in Seq(Reply) /\ Len(queue) <= MaxQueue
  /\ heard \subseteq Kind /\ garbled \in BOOLEAN

\* Replies that come late are read in the windows of other ports, and shift
\* those of later ports, but no port is ever taken for another one: unless
\* senders were not written, the list has the port of every puzzle a reply of
\* which was read, and nothing else.
PortsAreRight ==
  ~ garbled => ports = [k \in Kind |-> IF k \in heard THEN Puzzle[k] ELSE NoPort]
=============================================================================
