----------------------------- MODULE SysService -----------------------------
(***************************************************************************)
(* The remote command server with its own clients (project1/client.cpp) at *)
(* the other ends.  A client asks, waits for whatever recv() returns,      *)
(* prints it and asks again.                                               *)
(***************************************************************************)
EXTENDS SysServer

CONSTANT MaxLines  \* most lines the user of one client types
ASSUME MaxLinesAssumption == MaxLines \in Nat

VARIABLES
  phase,  \* where each client is: "off", "typing", "waiting"
  typed   \* the lines its user has typed

svcvars == <<sysvars, phase, typed>>

SvcInit ==
  /\ SysInit
  /\ phase = [p \in Peer |-> "off"] /\ typed = [p \in Peer |-> 0]

\* socket() and connect().
ClientStarts(p) ==
  /\ phase[p] = "off" /\ PeerConnects(p)
  /\ phase' = [phase EXCEPT ![p] = "typing"]
  /\ typed' = [typed EXCEPT ![p] = 0]

\* getline() and send().  A line of 63 characters, or the end of the input,
\* makes getline() fail from then on: the lines are empty, but are sent.
ClientAsks(p, r) ==
  /\ phase[p] = "typing" /\ typed[p] < MaxLines
  /\ PeerSends(p, r)
  /\ phase' = [phase EXCEPT ![p] = "waiting"]
  /\ typed' = [typed EXCEPT ![p] = @ + 1]

\* recv(): one answer, or several that came together, or what there is of a
\* longer one, whose rest is taken for the answer to the next line.
ClientReads(p) ==
  /\ phase[p] = "waiting" /\ PeerReads(p)
  /\ phase' = [phase EXCEPT ![p] = "typing"]
  /\ UNCHANGED typed

\* The client is killed, or found a q in u_input before anything was typed.  A
\* q that is typed is sent and cleared before it is looked at.
ClientQuits(p) ==
  /\ phase[p] # "off" /\ PeerCloses(p)
  /\ phase' = [phase EXCEPT ![p] = "off"]
  /\ UNCHANGED typed

\* recv() returns 0 when the server is gone; a later send() raises SIGPIPE.
ClientLosesServer(p) ==
  /\ ~ Alive /\ phase[p] # "off"
  /\ phase' = [phase EXCEPT ![p] = IF @ = "waiting" THEN "typing" ELSE "off"]
  /\ UNCHANGED <<sysvars, typed>>

Client(p) ==
  \/ ClientStarts(p) \/ ClientReads(p) \/ ClientQuits(p) \/ ClientLosesServer(p)
  \/ \E r \in Requests : ClientAsks(p, r)

ServerSide == (Server \/ Interrupt) /\ UNCHANGED <<phase, typed>>

SvcEnded == ~ Alive /\ (\A p \in Peer : phase[p] = "off") /\ UNCHANGED svcvars

SvcNext == ServerSide \/ (\E p \in Peer : Client(p)) \/ SvcEnded

SvcSpec == SvcInit /\ [][SvcNext]_svcvars

\* The server is scheduled, which gets it out of no send() that blocks, and a
\* client in recv() wakes up when there is something to read.  What users do is
\* left open: a client whose user does not type does not read.
FairSvcSpec ==
  /\ SvcSpec
  /\ WF_svcvars(Server /\ UNCHANGED <<phase, typed>>)
  /\ \A p \in Peer : WF_svcvars(ClientReads(p))

-----------------------------------------------------------------------------
SvcTypeOK ==
  /\ SysTypeOK
  /\ phase \in [Peer -> {"off", "typing", "waiting"}]
  /\ typed \in [Peer -> 0..MaxLines]

\* Lock step.  The server may lose a request that came together with another
\* one and may answer one several times, yet a client that waits is owed: its
\* answer is there, or a request of it is still unread.
WaitingIsOwed ==
  \A p \in Peer : phase[p] = "waiting" /\ Alive => answers[p] > 0 \/ inbox[p] # "NONE"

\* So a client never waits for ever, unless the process ends, or the server is
\* left in a send() to a client that does not read on: with an answer too long
\* for the sockets to hold, it waits for the user of that client to type.
AnswersAreTaken == []<>(sending = NoFd)

WaitingEnds ==
  AnswersAreTaken =>
    \A p \in Peer : phase[p] = "waiting" ~> (phase[p] # "waiting" \/ ~ Alive)
=============================================================================
