---------------------------- MODULE PuzzleSolver ----------------------------
(***************************************************************************)
(* The puzzle solver (project2/puzzlesolver.cpp and utils.cpp): the scan,  *)
(* the evil bit, the checksum and the port knocking, one after the other.  *)
(* The scan, the request for the checksum and the knocking share a socket; *)
(* the two loops that resend until they are answered have one of their own. *)
(***************************************************************************)
EXTENDS PortScanner, Checksum, SequencesExt

CONSTANTS
  AskedPort,  \* where the checksum is asked for: 4097, whatever was scanned
  Doors,      \* how many ports the oracle's list has
  Sums,       \* header sums, and
  Checks      \* checksums the server may ask for

ASSUME PuzzleAssumption ==
  /\ AskedPort \in Nat /\ Doors \in Nat \ {0}
  /\ Sums # {} /\ Sums \subseteq WordSum
  /\ Checks # {} /\ Checks \subseteq Word

VARIABLES
  status,   \* "running", or how the program ended
  due,      \* an answer is on its way to the socket of the present loop
  parsed,   \* what the message was that the checksum was taken from
  sum, check,
  list,     \* formatted_port
  knocked   \* the doors that were knocked at

forging == <<parsed, sum, check>>
oracle  == <<list, knocked>>
vars    == <<scanvars, status, due, forging, oracle>>

\* The ports of the oracle's list, by their place on it.
OracleList == [i \in 1..Doors |-> i]

\* What atoi() makes of a message that is empty or no list of ports.
NoList == <<NoPort>>

Init ==
  /\ ScanInit
  /\ status = "running" /\ due = FALSE
  /\ parsed = "none" /\ sum = 0 /\ check = 0
  /\ list = <<>> /\ knocked = <<>>

At(p) == status = "running" /\ pc = p

ScanDone == UNCHANGED <<scanning, ports, heard, garbled>>

-----------------------------------------------------------------------------
(* Evil bit.  The loop resends until it has an answer.  A port the scan did *)
(* not find is used like any other, and nobody answers there.  Setting up  *)
(* the sockets of a phase succeeds; where the code exits when it does not, *)
(* nothing has been sent yet.                                              *)

EvilSend ==
  /\ At("evil") /\ pc' = "evil_wait"
  /\ due' \in {due, due \/ ports["T"] = TPort}
  /\ ScanDone /\ UNCHANGED <<net, status, forging, oracle>>

EvilHear ==
  /\ At("evil_wait") /\ due
  /\ pc' = "ask" /\ due' = FALSE
  /\ ScanDone /\ UNCHANGED <<net, status, forging, oracle>>

\* Faulty: it waits again and does not resend.
EvilTimeoutWaiting ==
  /\ At("evil_wait") /\ UNCHANGED vars

\* After 30 ms, also with an answer on its way.
EvilTimeout ==
  /\ At("evil_wait") /\ pc' = "evil"
  /\ ScanDone /\ UNCHANGED <<net, status, due, forging, oracle>>

-----------------------------------------------------------------------------
(* Checksum: the request, on the shared socket, and the forged datagram. *)

AskSend ==
  /\ At("ask") /\ pc' = "ask_wait"
  /\ SendTo(IF AskedPort = SPort THEN {[kind |-> "S", text |-> "checksum"]}
                                 ELSE Greetings(AskedPort))
  /\ ScanDone /\ UNCHANGED <<status, due, forging, oracle>>

\* Whatever arrives is parsed.  From a message of another kind substr() or
\* stoul() fail, or make up a checksum.
AskHear(r) ==
  /\ At("ask_wait") /\ Receive(r)
  /\ parsed' = r.text
  /\ sum' \in Sums /\ check' \in Checks
  /\ pc' = "forge"
  /\ IF r.text = "checksum" THEN UNCHANGED status ELSE status' \in {"running", "crashed"}
  /\ ScanDone /\ UNCHANGED <<due, oracle>>

AskTimeout ==
  /\ At("ask_wait") /\ TimesOut /\ pc' = "ask"
  /\ ScanDone /\ UNCHANGED <<status, due, forging, oracle>>

\* The server answers the datagram, with the phrase or with a complaint.
ForgeSend ==
  /\ At("forge") /\ pc' = "forge_wait"
  /\ due' \in {due, due \/ ports["S"] = SPort}
  /\ ScanDone /\ UNCHANGED <<net, status, forging, oracle>>

Accepted == parsed = "checksum" /\ Verifies(sum, check)

\* A complaint has no quoted phrase: substr() throws.
ForgeHear ==
  /\ At("forge_wait") /\ due
  /\ due' = FALSE /\ pc' = "oracle"
  /\ status' = IF Accepted THEN status ELSE "crashed"
  /\ ScanDone /\ UNCHANGED <<net, forging, oracle>>

ForgeTimeout ==
  /\ At("forge_wait") /\ pc' = "forge"
  /\ ScanDone /\ UNCHANGED <<net, status, due, forging, oracle>>

-----------------------------------------------------------------------------
(* Port knocking (part3), on the shared socket.  Nothing is sent twice. *)

\* sendto() to the port the scan did not find fails, and nobody looks.
OracleSend ==
  /\ At("oracle")
  /\ IF ports["I"] = NoPort
     THEN pc' = "knock" /\ list' = NoList /\ UNCHANGED net
     ELSE /\ pc' = "oracle_wait" /\ UNCHANGED list
          /\ SendTo(IF ports["I"] = IPort THEN {[kind |-> "I", text |-> "list"]} ELSE {})
  /\ ScanDone /\ UNCHANGED <<status, due, forging, knocked>>

\* Any other text is longer than temp_port, which may do any harm short of
\* looking like a list.
OracleHear(r) ==
  /\ At("oracle_wait") /\ Receive(r)
  /\ pc' = "knock"
  /\ IF r.text = "list"
     THEN list' = OracleList /\ UNCHANGED status
     ELSE list' = NoList /\ status' \in {"running", "crashed"}
  /\ ScanDone /\ UNCHANGED <<due, forging, knocked>>

OracleTimeout ==
  /\ At("oracle_wait") /\ TimesOut
  /\ pc' = "knock" /\ list' = NoList
  /\ ScanDone /\ UNCHANGED <<status, due, forging, knocked>>

Opening == [kind |-> "other", text |-> "open"]

Left == Len(list) - Len(knocked)

\* Faulty: a knock that could not be sent is passed over.
KnockOnRegardless ==
  /\ At("knock") /\ Left > 0
  /\ LET door == list[Len(knocked) + 1]
     IN  /\ SendTo(IF door = NoPort THEN {} ELSE {Opening})
         /\ knocked' = Append(knocked, door) /\ pc' = "knock_wait" /\ UNCHANGED status
  /\ ScanDone /\ UNCHANGED <<due, forging, list>>

\* The program exits when sendto() fails, which it does for port 0.
Knock ==
  /\ At("knock") /\ Left > 0
  /\ LET door == list[Len(knocked) + 1]
     IN  IF door = NoPort
         THEN status' = "gave_up" /\ UNCHANGED <<pc, knocked, net>>
         ELSE /\ SendTo({Opening})
              /\ knocked' = Append(knocked, door) /\ pc' = "knock_wait" /\ UNCHANGED status
  /\ ScanDone /\ UNCHANGED <<due, forging, list>>

\* What comes within 70 ms is printed, for this knock or an earlier one.
AfterKnock ==
  /\ At("knock_wait") /\ ((\E r \in Reply : Receive(r)) \/ TimesOut)
  /\ pc' = "knock"
  /\ ScanDone /\ UNCHANGED <<status, due, forging, oracle>>

Finish ==
  /\ At("knock") /\ Left = 0
  /\ status' = "done"
  /\ UNCHANGED <<scanvars, due, forging, oracle>>

-----------------------------------------------------------------------------
Solver ==
  \/ Scan /\ UNCHANGED <<status, due, forging, oracle>>
  \/ EvilSend \/ EvilHear \/ EvilTimeout
  \/ AskSend \/ AskTimeout \/ ForgeSend \/ ForgeHear \/ ForgeTimeout
  \/ OracleSend \/ OracleTimeout \/ Knock \/ AfterKnock \/ Finish
  \/ \E r \in Reply : AskHear(r) \/ OracleHear(r)

Arrive == status = "running" /\ Network /\ UNCHANGED <<status, due, forging, oracle>>

Over == status # "running" /\ UNCHANGED vars

Next == Solver \/ Arrive \/ Over

Spec == Init /\ [][Next]_vars

\* The program is scheduled.  The network may lose and delay as it likes, but
\* not for ever: of datagrams sent again and again one is answered, and of
\* answers waited for again and again one arrives in time.
FairSpec ==
  /\ Spec
  /\ WF_vars(Solver)
  /\ SF_vars(EvilSend /\ due') /\ SF_vars(EvilHear)
  /\ SF_vars(AskSend /\ flight' # flight)
  /\ SF_vars(Arrive /\ queue' # queue)
  /\ SF_vars(ForgeSend /\ due') /\ SF_vars(ForgeHear)

-----------------------------------------------------------------------------
TypeOK ==
  /\ ScanTypeOK
  /\ pc \in {"probe", "listen", "evil", "evil_wait", "ask", "ask_wait", "forge",
             "forge_wait", "oracle", "oracle_wait", "knock", "knock_wait"}
  /\ status \in {"running", "crashed", "gave_up", "done"}
  /\ due \in BOOLEAN
  /\ parsed \in Texts \cup {"none"} /\ sum \in Nat /\ check \in Word
  /\ list \in {<<>>, NoList, OracleList}
  /\ knocked \in Seq(Nat)

\* Every mix-up ends the program before it does harm: only doors of the
\* oracle's list are knocked at, in its order and once each, and the program
\* reports success only after all of them, with a phrase that was won with the
\* checksum the server asked for.
SuccessIsEarned ==
  /\ IsPrefix(knocked, OracleList)
  /\ status = "done" => knocked = OracleList /\ parsed = "checksum"

\* The datagram with the forged address carries the checksum that was asked
\* for and verifies, whatever the header sums up to.
ForgedIsAccepted == pc \in {"forge", "forge_wait"} => Verifies(sum, check)

\* If the scan found the two ports and 4097 is the one to ask, the program comes
\* to an end.  Without them it resends for ever.
EndsWhenFound ==
  AskedPort = SPort =>
  <>(\/ status # "running"
     \/ pc = "evil" /\ (ports["T"] # TPort \/ ports["S"] # SPort))

\* "Parse the message to extract the checksum hex and the source ip address":
\* the message that is parsed is the one with the checksum.
ParsedIsChecksum == parsed \in {"none", "checksum"}
=============================================================================
