------------------------ MODULE PuzzleSolver_proofs -------------------------
(***************************************************************************)
(* The safety of the puzzle solver over any network that loses, delays,    *)
(* reorders and duplicates replies, for every range of ports and number of *)
(* tries.                                                                  *)
(*                                                                         *)
(* SuccessIsEarned is not inductive: success needs that a program that got *)
(* as far as the oracle took its checksum from the right message           *)
(* (PhraseIsWon), because the server complained otherwise, and that a list *)
(* the oracle did not send is never finished (KnocksFollowList).           *)
(*                                                                         *)
(* The forged address is right for every header and every checksum: a sum  *)
(* and what it folds to differ by a multiple of Base - 1, the forged words *)
(* make the whole a positive multiple of Base - 1, and a small positive    *)
(* multiple folds to all ones.  Of Base the proofs use only BaseIsLarge.   *)
(***************************************************************************)
EXTENDS PuzzleSolver, TLAPS

-----------------------------------------------------------------------------
(* The checksum. *)

\* All the proofs need of 2^16.
LEMMA BaseIsLarge == Base \in Nat /\ Base > 30
  BY SMT DEF Base

\* Division, for the small quotients that occur.
LEMMA DivMod ==
  ASSUME NEW B \in Nat, B > 30, NEW s \in Nat
  PROVE  /\ s = (s \div B) * B + (s % B)
         /\ s % B \in 0..(B - 1) /\ s \div B \in Nat
  BY SMT

\* A sum of at most twenty words carries at most twenty.
LEMMA QuotientBounded ==
  ASSUME NEW B \in Nat, B > 30, NEW s \in 0..(20 * B)
  PROVE  s \div B \in 0..20
  BY SMT

\* A word is its own remainder.
LEMMA BelowBase ==
  ASSUME NEW B \in Nat, B > 30, NEW s \in 0..(B - 1)
  PROVE  s \div B = 0 /\ s % B = s /\ (s - B) % B = s
  BY SMT

\* A sum between one and two words carries one.
LEMMA OneBase ==
  ASSUME NEW B \in Nat, B > 30, NEW s \in B..(2 * B - 1)
  PROVE  s \div B = 1 /\ s % B = s - B
  BY SMT

\* Folding q carries into a rest r.
LEMMA FoldCarries ==
  ASSUME NEW s \in 0..(20 * Base), NEW q \in 0..20, NEW r \in 0..(Base - 1),
         q = s \div Base, r = s % Base
  PROVE  Fold(s) = IF q + r < Base THEN q + r ELSE q + r + 1 - Base
<1>1. Fold(s) = ((q + r) + ((q + r) \div Base)) % Base
  BY DEF Fold
<1>2. CASE q + r < Base
  <2>1. q + r \in 0..(Base - 1)
    BY <1>2, BaseIsLarge
  <2>2. (q + r) \div Base = 0 /\ (q + r) % Base = q + r
    BY <2>1, BaseIsLarge, BelowBase
  <2>. QED BY <1>1, <1>2, <2>2, <2>1, BaseIsLarge
<1>3. CASE ~ (q + r < Base)
  <2>1. q + r \in Base..(2 * Base - 1) /\ q + r + 1 \in Base..(2 * Base - 1)
    BY <1>3, BaseIsLarge
  <2>2. (q + r) \div Base = 1
    BY <2>1, BaseIsLarge, OneBase
  <2>3. (q + r + 1) % Base = q + r + 1 - Base
    <3>. DEFINE x == q + r + 1
    <3>1. x \in Base..(2 * Base - 1)
      BY <2>1
    <3>. HIDE DEF x
    <3>2. x % Base = x - Base
      BY <3>1, BaseIsLarge, OneBase
    <3>3. x = q + r + 1
      BY DEF x
    <3>. QED BY <3>1, <3>2, <3>3, BaseIsLarge
  <2>. QED BY <1>1, <1>3, <2>2, <2>3
<1>. QED BY <1>2, <1>3

\* Folding keeps the residue modulo Base - 1, which is what makes it a sum.
LEMMA FoldCongruent ==
  ASSUME NEW s \in 0..(20 * Base)
  PROVE  /\ Fold(s) \in Word
         /\ \E k \in Nat : s = Fold(s) + k * (Base - 1)
<1>1. s \in Nat
  BY BaseIsLarge
<1>2. PICK q \in 0..20, r \in 0..(Base - 1) :
        q = s \div Base /\ r = s % Base /\ s = q * Base + r
  BY <1>1, BaseIsLarge, DivMod, QuotientBounded
<1>3. Fold(s) = IF q + r < Base THEN q + r ELSE q + r + 1 - Base
  BY <1>2, FoldCarries
<1>4. Fold(s) \in 0..(Base - 1)
  BY <1>3, BaseIsLarge
<1>5. CASE q + r < Base
  <2>1. q * Base + r = (q + r) + q * (Base - 1)
    BY BaseIsLarge
  <2>. QED BY <1>2, <1>3, <1>4, <1>5, <2>1 DEF Word
<1>6. CASE ~ (q + r < Base)
  <2>1. q * Base + r = (q + r + 1 - Base) + (q + 1) * (Base - 1)
    BY BaseIsLarge
  <2>. QED BY <1>2, <1>3, <1>4, <1>6, <2>1 DEF Word
<1>. QED BY <1>5, <1>6

\* A positive multiple of Base - 1 folds to all ones.
LEMMA FoldOfMultiple ==
  ASSUME NEW m \in 1..20
  PROVE  Fold(m * (Base - 1)) = Base - 1
<1>. DEFINE s == m * (Base - 1)
<1>1. s = (m - 1) * Base + (Base - m) /\ s \in 0..(20 * Base) /\ s \in Nat
  BY BaseIsLarge
<1>2. /\ s \div Base \in 0..20 /\ s % Base \in 0..(Base - 1)
      /\ s = (s \div Base) * Base + (s % Base)
  BY <1>1, BaseIsLarge, DivMod, QuotientBounded
<1>3. s \div Base = m - 1 /\ s % Base = Base - m
  <2>. DEFINE q == s \div Base
              r == s % Base
  <2>1. q \in 0..20 /\ r \in 0..(Base - 1) /\ q * Base + r = (m - 1) * Base + (Base - m)
    BY <1>1, <1>2
  <2>. HIDE DEF q, r, s
  <2>2. (q - (m - 1)) * Base = (Base - m) - r
    BY <2>1, BaseIsLarge
  <2>3. q - (m - 1) < 1
    <3>. SUFFICES ASSUME q - (m - 1) >= 1 PROVE FALSE
      BY <2>1
    <3>1. (q - (m - 1)) * Base >= Base
      BY <2>1, BaseIsLarge
    <3>. QED BY <2>1, <2>2, <3>1, BaseIsLarge
  <2>4. q - (m - 1) > -1
    <3>. SUFFICES ASSUME q - (m - 1) <= -1 PROVE FALSE
      BY <2>1
    <3>1. (q - (m - 1)) * Base <= - Base
      BY <2>1, BaseIsLarge
    <3>. QED BY <2>1, <2>2, <3>1, BaseIsLarge
  <2>5. q = m - 1
    BY <2>1, <2>3, <2>4
  <2>6. r = Base - m
    BY <2>1, <2>5, BaseIsLarge
  <2>. QED BY <2>5, <2>6 DEF q, r
<1>. QED BY <1>1, <1>2, <1>3, FoldCarries, BaseIsLarge

\* Whatever the header and the checksum asked for, zero included: the datagram
\* checksum_part() sends carries that checksum and verifies.
THEOREM ForgeryVerifies == \A w \in WordSum, c \in Word : Verifies(w, c)
<1>. SUFFICES ASSUME NEW w \in WordSum, NEW c \in Word PROVE Verifies(w, c)
  OBVIOUS
<1>. DEFINE a == Fold(w)
            t == Complement(c)
<1>1. w \in 0..(20 * Base) /\ w \in Nat /\ w <= 10 * (Base - 1) /\ c \in 0..(Base - 1)
  BY BaseIsLarge DEF WordSum, Word
<1>2. PICK k \in Nat : a \in 0..(Base - 1) /\ w = a + k * (Base - 1)
  BY <1>1, FoldCongruent DEF Word
<1>3. t \in 0..(Base - 1) /\ c = Base - 1 - t
  BY <1>1, BaseIsLarge DEF Complement
<1>. HIDE DEF a, t
<1>4. k \in 0..10
  <2>. SUFFICES ASSUME k >= 11 PROVE FALSE
    BY <1>2
  <2>1. k * (Base - 1) >= 11 * (Base - 1)
    BY <1>2, BaseIsLarge
  <2>. QED BY <1>1, <1>2, <2>1, BaseIsLarge
<1>5. CASE t >= a
  <2>1. ForgedAddress(w, c) = <<0, t - a>>
    BY <1>5 DEF ForgedAddress, a, t
  <2>2. w + 0 + (t - a) + c = (k + 1) * (Base - 1)
    BY <1>1, <1>2, <1>3, BaseIsLarge
  <2>. QED BY <1>4, <2>1, <2>2, FoldOfMultiple DEF Verifies
<1>6. CASE ~ (t >= a)
  <2>1. ForgedAddress(w, c) = <<Base - 1, (t - a - 1) % Base>>
    BY <1>6 DEF ForgedAddress, a, t
  <2>2. (t - a - 1) % Base = t - a - 1 + Base
    <3>1. t - a - 1 + Base \in 0..(Base - 1) /\ (t - a - 1 + Base) - Base = t - a - 1
      BY <1>2, <1>3, <1>6, BaseIsLarge
    <3>. QED BY <3>1, BelowBase, BaseIsLarge
  <2>3. w + (Base - 1) + ((t - a - 1) % Base) + c = (k + 3) * (Base - 1)
    BY <1>1, <1>2, <1>3, <2>2, BaseIsLarge
  <2>. QED BY <1>4, <2>1, <2>3, FoldOfMultiple DEF Verifies
<1>. QED BY <1>5, <1>6

-----------------------------------------------------------------------------
(* The inductive invariant. *)

Scanning == pc \in {"probe", "listen"}
Knocking == pc \in {"knock", "knock_wait"}

ScanInRange == Scanning => port <= To

ChecksumIsAsked ==
  pc \in {"forge", "forge_wait"} => sum \in WordSum /\ check \in Word

PhraseIsWon ==
  (Knocking \/ pc \in {"oracle", "oracle_wait"}) /\ status # "crashed" => parsed = "checksum"

KnocksFollowList ==
  /\ IF Knocking THEN list # <<>> ELSE list = <<>>
  /\ list # OracleList => knocked = <<>>
  /\ Len(knocked) <= Doors /\ \A i \in 1..Len(knocked) : knocked[i] = i
  /\ status = "done" => Knocking /\ Len(list) = Len(knocked)

\* All of it.
IInv ==
  /\ TypeOK /\ ScanInRange /\ PortsAreRight
  /\ ChecksumIsAsked /\ PhraseIsWon /\ KnocksFollowList

-----------------------------------------------------------------------------
(* Lists and queues. *)

\* What the knocking needs of the two lists of ports.
LEMMA ListFacts ==
  /\ OracleList \in Seq(Nat) /\ Len(OracleList) = Doors
  /\ \A i \in 1..Doors : OracleList[i] = i
  /\ NoList # <<>> /\ Len(NoList) = 1 /\ NoList[1] = NoPort
  /\ OracleList # <<>> /\ NoList # OracleList
<1>1. Doors \in Nat /\ Doors >= 1
  BY PuzzleAssumption
<1>2. OracleList \in Seq(Nat) /\ Len(OracleList) = Doors
  BY <1>1 DEF OracleList
<1>3. \A i \in 1..Doors : OracleList[i] = i
  BY DEF OracleList
<1>4. NoList # <<>> /\ Len(NoList) = 1 /\ NoList[1] = NoPort
  BY DEF NoList
<1>5. OracleList[1] = 1 /\ NoPort # 1
  BY <1>1, <1>3 DEF NoPort
<1>. QED BY <1>1, <1>2, <1>3, <1>4, <1>5

\* sendto() puts nothing but replies on their way.
LEMMA SendKeeps ==
  ASSUME TypeOK, NEW replies \in SUBSET Reply, SendTo(replies)
  PROVE  flight' \subseteq Reply /\ queue' = queue
  BY DEF SendTo, TypeOK, ScanTypeOK

\* recvfrom() leaves replies in the socket.
LEMMA ReceiveKeeps ==
  ASSUME TypeOK, NEW r, Receive(r)
  PROVE  /\ r \in Reply /\ flight' \subseteq Reply
         /\ queue' \in Seq(Reply) /\ Len(queue') <= MaxQueue
  BY ScanAssumption DEF Receive, TypeOK, ScanTypeOK

\* What answers a probe is a reply.
LEMMA GreetingsAreReplies == \A p : Greetings(p) \subseteq Reply
  BY DEF Greetings, Reply, Texts

-----------------------------------------------------------------------------
(* One lemma for each phase. *)

\* The scan keeps the inductive invariant.
LEMMA ScanKeeps ==
  ASSUME IInv, Scan, UNCHANGED <<status, due, forging, oracle>>
  PROVE  IInv'
<1>. USE DEF IInv, ScanInRange, ChecksumIsAsked, PhraseIsWon, KnocksFollowList, Scanning,
             Knocking, PortsAreRight, forging, oracle
<1>1. ASSUME NextPort, Scanning
      PROVE  /\ port' \in From..(To + 1) /\ tries' \in 0..(Tries - 1)
             /\ pc' \in {"evil", "probe"} /\ (pc' = "probe" => port' <= To)
  BY <1>1, ScanAssumption DEF NextPort, TypeOK, ScanTypeOK
<1>2. CASE Probe
  <2>1. flight' \subseteq Reply /\ queue' = queue
    BY <1>2, GreetingsAreReplies, SendKeeps DEF Probe
  <2>. QED BY <1>2, <2>1 DEF Probe, scanning, TypeOK, ScanTypeOK
<1>3. CASE NoAnswer
  <2>1. pc = "listen" /\ UNCHANGED <<net, ports, heard, garbled>>
    BY <1>3 DEF NoAnswer, TimesOut
  <2>2. /\ port' \in From..(To + 1) /\ tries' \in 0..(Tries - 1)
        /\ pc' \in {"evil", "probe"} /\ (pc' = "probe" => port' <= To)
    <3>1. CASE tries + 1 < Tries
      BY <1>3, <2>1, <3>1, ScanAssumption DEF NoAnswer, TypeOK, ScanTypeOK
    <3>2. CASE ~ (tries + 1 < Tries)
      BY <1>1, <1>3, <2>1, <3>2 DEF NoAnswer
    <3>. QED BY <3>1, <3>2
  <2>. QED BY <2>1, <2>2 DEF net, TypeOK, ScanTypeOK
<1>4. ASSUME NEW r \in Reply, Hear(r) PROVE IInv'
  <2>1. /\ pc = "listen" /\ NextPort
        /\ flight' \subseteq Reply /\ queue' \in Seq(Reply) /\ Len(queue') <= MaxQueue
    BY <1>4, ReceiveKeeps DEF Hear
  <2>2. /\ ports' \in [Kind -> Int] /\ heard' \subseteq Kind /\ garbled' \in BOOLEAN
        /\ PortsAreRight'
    <3>1. CASE r.kind \in Kind
      <4>1. PICK e \in Entries(r.kind) :
              /\ ports' = [ports EXCEPT ![r.kind] = e]
              /\ garbled' = (garbled \/ e \in {NoPort, Garbage})
              /\ heard' = heard \cup {r.kind}
        BY <1>4, <3>1 DEF Hear
      <4>2. e \in Int /\ (e \in {NoPort, Garbage} \/ e = Puzzle[r.kind])
        BY <3>1, ScanAssumption DEF Entries, NoPort, Garbage
      <4>. QED BY <3>1, <4>1, <4>2 DEF TypeOK, ScanTypeOK
    <3>2. CASE r.kind \notin Kind
      BY <1>4, <3>2 DEF Hear, TypeOK, ScanTypeOK
    <3>. QED BY <3>1, <3>2
  <2>. QED BY <1>1, <2>1, <2>2 DEF TypeOK, ScanTypeOK
<1>. QED BY <1>2, <1>3, <1>4 DEF Scan

\* The evil-bit loop keeps the inductive invariant.
LEMMA EvilKeeps == ASSUME IInv, EvilSend \/ EvilHear \/ EvilTimeout PROVE IInv'
  BY DEF EvilSend, EvilHear, EvilTimeout, At, ScanDone, scanning, net, forging, oracle,
         IInv, TypeOK, ScanTypeOK, ScanInRange, ChecksumIsAsked, PhraseIsWon,
         KnocksFollowList, Scanning, Knocking, PortsAreRight

\* Asking for a checksum and forging it keep the inductive invariant.
LEMMA ChecksumKeeps ==
  ASSUME IInv, \/ AskSend \/ AskTimeout \/ ForgeSend \/ ForgeHear \/ ForgeTimeout
               \/ \E r \in Reply : AskHear(r)
  PROVE  IInv'
<1>. USE DEF IInv, ScanInRange, ChecksumIsAsked, PhraseIsWon, KnocksFollowList, Scanning,
             Knocking, PortsAreRight, forging, oracle, At, ScanDone, scanning
<1>1. CASE AskSend
  <2>1. [kind |-> "S", text |-> "checksum"] \in Reply
    BY DEF Reply, Kind, Texts
  <2>2. flight' \subseteq Reply /\ queue' = queue
    BY <1>1, <2>1, GreetingsAreReplies, SendKeeps DEF AskSend
  <2>. QED BY <1>1, <2>2 DEF AskSend, TypeOK, ScanTypeOK
<1>2. ASSUME NEW r \in Reply, AskHear(r) PROVE IInv'
  <2>1. flight' \subseteq Reply /\ queue' \in Seq(Reply) /\ Len(queue') <= MaxQueue
    BY <1>2, ReceiveKeeps DEF AskHear
  <2>2. r.text \in Texts /\ sum' \in WordSum /\ sum' \in Nat /\ check' \in Word
    BY <1>2, PuzzleAssumption, BaseIsLarge DEF AskHear, Reply, WordSum
  <2>. QED BY <1>2, <2>1, <2>2 DEF AskHear, TypeOK, ScanTypeOK
<1>3. CASE AskTimeout \/ ForgeSend \/ ForgeTimeout
  BY <1>3 DEF AskTimeout, ForgeSend, ForgeTimeout, TimesOut, net, TypeOK, ScanTypeOK
<1>4. CASE ForgeHear
  BY <1>4 DEF ForgeHear, Accepted, net, TypeOK, ScanTypeOK
<1>. QED BY <1>1, <1>2, <1>3, <1>4

\* The question to the oracle keeps the inductive invariant.
LEMMA OracleKeeps ==
  ASSUME IInv, OracleSend \/ OracleTimeout \/ \E r \in Reply : OracleHear(r)
  PROVE  IInv'
<1>. USE DEF IInv, ScanInRange, ChecksumIsAsked, PhraseIsWon, KnocksFollowList, Scanning,
             Knocking, PortsAreRight, forging, oracle, At, ScanDone, scanning
<1>1. CASE OracleSend
  <2>1. flight' \subseteq Reply /\ queue' = queue
    <3>1. [kind |-> "I", text |-> "list"] \in Reply
      BY DEF Reply, Kind, Texts
    <3>. QED BY <1>1, <3>1, SendKeeps DEF OracleSend, net, TypeOK, ScanTypeOK
  <2>. QED BY <1>1, <2>1, ListFacts DEF OracleSend, TypeOK, ScanTypeOK
<1>2. CASE OracleTimeout
  BY <1>2, ListFacts DEF OracleTimeout, TimesOut, net, TypeOK, ScanTypeOK
<1>3. ASSUME NEW r \in Reply, OracleHear(r) PROVE IInv'
  <2>1. flight' \subseteq Reply /\ queue' \in Seq(Reply) /\ Len(queue') <= MaxQueue
    BY <1>3, ReceiveKeeps DEF OracleHear
  <2>. QED BY <1>3, <2>1, ListFacts DEF OracleHear, TypeOK, ScanTypeOK
<1>. QED BY <1>1, <1>2, <1>3

\* Knocking keeps the inductive invariant.
LEMMA KnockKeeps == ASSUME IInv, Knock \/ AfterKnock \/ Finish PROVE IInv'
<1>. USE DEF IInv, ScanInRange, ChecksumIsAsked, PhraseIsWon, Scanning,
             Knocking, PortsAreRight, forging, oracle, At, ScanDone, scanning
<1>1. CASE Knock
  <2>. DEFINE door == list[Len(knocked) + 1]
  <2>1. pc = "knock" /\ status = "running" /\ Len(list) > Len(knocked) /\ knocked \in Seq(Nat)
        /\ list \in {NoList, OracleList}
    BY <1>1, ListFacts DEF Knock, Left, KnocksFollowList, TypeOK
  <2>2. CASE door = NoPort
    BY <1>1, <2>1, <2>2 DEF Knock, net, TypeOK, ScanTypeOK, KnocksFollowList
  <2>3. CASE door # NoPort
    <3>1. flight' \subseteq Reply /\ queue' = queue
      <4>1. Opening \in Reply
        BY DEF Opening, Reply, Texts
      <4>. QED BY <1>1, <2>3, <4>1, SendKeeps DEF Knock
    <3>2. list = OracleList
      <4>. SUFFICES ASSUME list = NoList PROVE FALSE
        BY <2>1
      <4>1. knocked = <<>>
        BY <2>1, ListFacts DEF KnocksFollowList
      <4>. QED BY <2>3, <4>1, ListFacts
    <3>3. door = Len(knocked) + 1 /\ Len(knocked) + 1 <= Doors
      BY <2>1, <3>2, ListFacts, PuzzleAssumption
    <3>4. knocked' = Append(knocked, Len(knocked) + 1) /\ pc' = "knock_wait"
          /\ UNCHANGED <<list, status>>
      BY <1>1, <2>3, <3>3 DEF Knock
    <3>5. knocked' \in Seq(Nat) /\ Len(knocked') = Len(knocked) + 1
          /\ \A i \in 1..Len(knocked') : knocked'[i] = i
      BY <2>1, <3>4 DEF KnocksFollowList
    <3>6. KnocksFollowList'
      BY <2>1, <3>2, <3>3, <3>4, <3>5, ListFacts DEF KnocksFollowList
    <3>. QED BY <1>1, <2>1, <2>3, <3>1, <3>4, <3>5, <3>6 DEF Knock, TypeOK, ScanTypeOK
  <2>. QED BY <2>2, <2>3
<1>2. CASE AfterKnock
  <2>1. flight' \subseteq Reply /\ queue' \in Seq(Reply) /\ Len(queue') <= MaxQueue
    BY <1>2, ReceiveKeeps DEF AfterKnock, TimesOut, net, TypeOK, ScanTypeOK
  <2>. QED BY <1>2, <2>1 DEF AfterKnock, TypeOK, ScanTypeOK, KnocksFollowList
<1>3. CASE Finish
  <2>1. Len(list) = Len(knocked)
    <3>1. Len(list) \in Nat /\ Len(knocked) \in Nat
      BY ListFacts DEF TypeOK
    <3>. QED BY <1>3, <3>1 DEF Finish, Left
  <2>. QED BY <1>3, <2>1
       DEF Finish, scanvars, net, TypeOK, ScanTypeOK, KnocksFollowList
<1>. QED BY <1>1, <1>2, <1>3

\* What the network delivers or loses keeps the inductive invariant.
LEMMA NetworkKeeps == ASSUME IInv, Arrive PROVE IInv'
<1>1. flight' \subseteq Reply /\ queue' \in Seq(Reply) /\ Len(queue') <= MaxQueue
  <2>1. PICK r \in flight : Deliver(r) \/ Lose(r)
    BY DEF Arrive, Network
  <2>2. /\ flight \subseteq Reply /\ r \in Reply /\ queue \in Seq(Reply)
        /\ Len(queue) <= MaxQueue /\ MaxQueue \in Nat
    BY ScanAssumption DEF IInv, TypeOK, ScanTypeOK
  <2>3. CASE Deliver(r)
    <3>1. CASE Len(queue) < MaxQueue
      BY <2>2, <2>3, <3>1 DEF Deliver
    <3>2. CASE ~ (Len(queue) < MaxQueue)
      BY <2>2, <2>3, <3>2 DEF Deliver
    <3>. QED BY <3>1, <3>2
  <2>4. CASE Lose(r)
    BY <2>2, <2>4 DEF Lose
  <2>. QED BY <2>1, <2>3, <2>4
<1>. QED BY <1>1
     DEF Arrive, Network, scanning, forging, oracle, IInv, TypeOK, ScanTypeOK, ScanInRange,
         ChecksumIsAsked, PhraseIsWon, KnocksFollowList, Scanning, Knocking, PortsAreRight

-----------------------------------------------------------------------------
(* The specification. *)

\* The inductive invariant holds when the scan starts.
LEMMA InitInv == Init => IInv
<1>. SUFFICES ASSUME Init PROVE IInv
  OBVIOUS
<1>1. ScanTypeOK
  <2>1. NoPort \in Int /\ <<>> \in Seq(Reply) /\ Len(<<>>) = 0
    BY DEF NoPort
  <2>2. port \in From..(To + 1) /\ tries \in 0..(Tries - 1) /\ Len(queue) <= MaxQueue
    BY <2>1, ScanAssumption DEF Init, ScanInit
  <2>3. ports \in [Kind -> Int]
    BY <2>1 DEF Init, ScanInit
  <2>. QED BY <2>1, <2>2, <2>3 DEF Init, ScanInit, ScanTypeOK
<1>2. ScanInRange /\ PortsAreRight
  BY ScanAssumption DEF Init, ScanInit, ScanInRange, Scanning, PortsAreRight
<1>3. KnocksFollowList
  BY PuzzleAssumption, ListFacts DEF Init, ScanInit, KnocksFollowList, Knocking
<1>4. 0 \in Word
  BY BaseIsLarge DEF Word
<1>5. TypeOK
  <2>1. <<>> \in Seq(Nat)
    OBVIOUS
  <2>. QED BY <1>1, <1>4, <2>1 DEF Init, ScanInit, TypeOK
<1>. QED BY <1>2, <1>3, <1>5
     DEF Init, ScanInit, IInv, ChecksumIsAsked, PhraseIsWon, Knocking

\* Every step keeps the inductive invariant.
LEMMA StepInv == IInv /\ [Next]_vars => IInv'
<1>. SUFFICES ASSUME IInv, [Next]_vars PROVE IInv'
  OBVIOUS
<1>1. CASE Solver
  BY <1>1, ScanKeeps, EvilKeeps, ChecksumKeeps, OracleKeeps, KnockKeeps DEF Solver
<1>2. CASE Arrive
  BY <1>2, NetworkKeeps
<1>3. CASE Over \/ UNCHANGED vars
  BY <1>3
     DEF Over, vars, scanvars, scanning, net, forging, oracle, IInv, TypeOK, ScanTypeOK,
         ScanInRange, ChecksumIsAsked, PhraseIsWon, KnocksFollowList, Scanning, Knocking,
         PortsAreRight
<1>. QED BY <1>1, <1>2, <1>3 DEF Next

\* The inductive invariant: types, the scan's list, the forged address, and how
\* far the knocking is.
THEOREM PuzzleInvariant == Spec => []IInv
  BY InitInv, StepInv, PTL DEF Spec

\* The state of the solver stays well formed.
THEOREM PuzzleTypeCorrect == Spec => []TypeOK
  BY PuzzleInvariant, PTL DEF IInv

\* Late replies never put a port into the place of another one.
THEOREM PuzzlePortsRight == Spec => []PortsAreRight
  BY PuzzleInvariant, PTL DEF IInv

\* The forged datagram verifies whenever it is sent.
THEOREM PuzzleForgedAccepted == Spec => []ForgedIsAccepted
<1>1. IInv => ForgedIsAccepted
  BY ForgeryVerifies DEF IInv, ChecksumIsAsked, ForgedIsAccepted
<1>. QED BY <1>1, PuzzleInvariant, PTL

\* Success is reported only after the knocks the oracle asked for, in order,
\* with the right phrase.
THEOREM PuzzleSuccessEarned == Spec => []SuccessIsEarned
<1>1. IInv => SuccessIsEarned
  <2>. SUFFICES ASSUME IInv PROVE SuccessIsEarned
    OBVIOUS
  <2>1. /\ knocked \in Seq(Nat) /\ Len(knocked) <= Doors
        /\ \A i \in 1..Len(knocked) : knocked[i] = i
    BY DEF IInv, TypeOK, KnocksFollowList
  <2>2. IsPrefix(knocked, OracleList)
    <3>1. \A i \in 1..Len(knocked) : knocked[i] = OracleList[i]
      BY <2>1, ListFacts, PuzzleAssumption
    <3>2. SubSeq(knocked, 1, Len(knocked)) = SubSeq(OracleList, 1, Len(knocked))
      BY <2>1, <3>1, ListFacts, PuzzleAssumption
    <3>. QED BY <2>1, <3>2, ListFacts DEF IsPrefix
  <2>3. ASSUME status = "done" PROVE knocked = OracleList /\ parsed = "checksum"
    <3>1. Knocking /\ Len(list) = Len(knocked) /\ list # <<>>
      BY <2>3 DEF IInv, KnocksFollowList
    <3>2. list = OracleList
      <4>. SUFFICES ASSUME list = NoList PROVE FALSE
        BY <3>1 DEF IInv, TypeOK
      <4>1. knocked = <<>>
        BY ListFacts DEF IInv, KnocksFollowList
      <4>. QED BY <3>1, <4>1, ListFacts
    <3>3. Len(knocked) = Doors
      BY <3>1, <3>2, ListFacts
    <3>4. knocked = OracleList
      BY <2>1, <3>3, ListFacts, PuzzleAssumption
    <3>. QED BY <2>3, <3>1, <3>4 DEF IInv, PhraseIsWon
  <2>. QED BY <2>2, <2>3 DEF SuccessIsEarned
<1>. QED BY <1>1, PuzzleInvariant, PTL
=============================================================================
