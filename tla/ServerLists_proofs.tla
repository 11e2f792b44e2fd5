------------------------- MODULE ServerLists_proofs -------------------------
(***************************************************************************)
(* What a server keeps of the lists its peers send, for every set of       *)
(* descriptors and groups, every length of lists and every way frames are  *)
(* glued together.                                                         *)
(*                                                                         *)
(* StoredOnce needs that no name that is shown has been forgotten          *)
(* (ShownIsStored); it assumes nothing of what is read, nor of which       *)
(* sockets LEAVE closes.                                                   *)
(*                                                                         *)
(* KeptAsListed needs to know what is left of a list in the middle of it.  *)
(* Either it is in step: the fields of entries, each complete but for the  *)
(* unnamed ones (InStep).  Or it is out of step for good (OutOfStep): it   *)
(* ends the process at once, or has one field too many in front, with      *)
(* which the third field is an address, then an address again, ... until   *)
(* fields are missing.  Or it is a command taken for an entry              *)
(* (IsMistaken).  A list to which a frame is glued goes to one of the last *)
(* two behind its first entry (GoesOut).  An unnamed entry has no number   *)
(* in its third place, so nothing is read of it.  From these, and from     *)
(* what Framing_proofs says of a list, it follows that a list is in step,  *)
(* ends with a command, or is not read to its end (FieldsInv).             *)
(***************************************************************************)
EXTENDS ServerLists, Framing_proofs

-----------------------------------------------------------------------------
(* The two lists of stored servers. *)

ShownIsStored == \A f \in DOMAIN stored_servers : stored_servers[f].name \in stored_names

ListsInv == ShownIsStored /\ StoredOnce

\* Putting an entry with a new name into the list and its name beside it,
\* under a new key or under that of an entry which is then lost.
LEMMA PutKeeps ==
  ASSUME ListsInv, NEW f, NEW e, e.name \notin stored_names,
         stored_servers' = Put(stored_servers, f, e),
         stored_names' = stored_names \cup {e.name}
  PROVE  ListsInv'
<1>1. DOMAIN stored_servers' = DOMAIN stored_servers \cup {f}
  BY DEF Put
<1>2. stored_servers'[f] = e
  BY DEF Put
<1>3. \A g \in DOMAIN stored_servers \ {f} : stored_servers'[g] = stored_servers[g]
  BY DEF Put
<1>4. ShownIsStored'
  BY <1>1, <1>2, <1>3 DEF ListsInv, ShownIsStored
<1>5. StoredOnce'
  <2>1. \A g \in DOMAIN stored_servers \ {f} : stored_servers'[g].name # e.name
    BY <1>3 DEF ListsInv, ShownIsStored
  <2>. QED BY <1>1, <1>2, <1>3, <2>1 DEF ListsInv, StoredOnce
<1>. QED BY <1>4, <1>5 DEF ListsInv

\* A step that leaves both lists alone keeps what relates them.
LEMMA ListsUntouched ==
  ASSUME ListsInv, UNCHANGED <<stored_servers, stored_names>>
  PROVE  ListsInv'
  BY DEF ListsInv, ShownIsStored, StoredOnce

\* Reading an entry of a list keeps the inductive invariant.
LEMMA ReadEntryKeeps == ASSUME ListsInv, ReadEntry PROVE ListsInv'
<1>. DEFINE e      == [name |-> todo[1], ip |-> todo[2], port |-> todo[3]]
            stored == New(e) /\ ~ first
<1>1. PICK sock \in NextFds :
        /\ stored_servers' = IF stored THEN Put(stored_servers, sock, e) ELSE stored_servers
        /\ stored_names' = IF stored THEN stored_names \cup {e.name} ELSE stored_names
  BY DEF ReadEntry
<1>2. stored => e.name \notin stored_names
  BY DEF New
<1>. HIDE DEF e, stored
<1>. QED BY <1>1, <1>2, PutKeeps, ListsUntouched

\* The empty tables satisfy the inductive invariant.
LEMMA ListsInitInv == ListsInit => ListsInv
  BY DEF ListsInit, ListsInv, ShownIsStored, StoredOnce

\* Every step keeps the inductive invariant.
LEMMA ListsStepInv == ListsInv /\ [ListsNext]_listvars => ListsInv'
<1>. SUFFICES ASSUME ListsInv, [ListsNext]_listvars PROVE ListsInv'
  OBVIOUS
<1>1. CASE UNCHANGED <<stored_servers, stored_names>>
  BY <1>1, ListsUntouched
<1>2. ASSUME NEW f, NEW m, Receive(f, m) \/ ClientCommand(m) PROVE ListsInv'
  BY <1>1, <1>2 DEF Receive, ClientCommand, tables
<1>3. CASE ReadEntryFails \/ Dead \/ Erase \/ NextRound \/ UNCHANGED listvars
  BY <1>1, <1>3 DEF ReadEntryFails, Dead, Erase, NextRound, listvars, tables
<1>4. CASE ListPeers
  BY <1>1, <1>4 DEF ListPeers, AcceptPeer, PeerLeaves, tables
<1>. QED BY <1>2, <1>3, <1>4, ReadEntryKeeps DEF ListsNext, Server

\* The inductive invariant, from which the property follows.
THEOREM ListsInvariant == ListsSpec => []ListsInv
  BY ListsInitInv, ListsStepInv, PTL DEF ListsSpec

\* STORED never shows a group twice.
THEOREM ListsStoredOnce == ListsSpec => []StoredOnce
<1>1. ListsInv => StoredOnce
  BY DEF ListsInv
<1>. QED BY <1>1, ListsInvariant, PTL

-----------------------------------------------------------------------------
(* What peers put into lists. *)

Symbols     == Symbol(Group \cup {Own})
PeerEntries == Listed \cup {Entry(Own)}
AnyEntries  == PeerEntries \cup {Unnamed}

\* The symbols of lists, and those around and between them.
LEMMA SymbolsOfLists ==
  /\ ListAlphabet(Symbols)
  /\ Symbols # {} /\ Comma \in Symbols /\ Semi \in Symbols /\ STX \in Symbols /\ ETX \in Symbols
  /\ Word("SERVERS") \in Symbols /\ Word("QUERYSERVERS") \in Symbols
  /\ Word("KEEPALIVE") \in Symbols /\ Word("STATUSRESP") \in Symbols
  /\ Word("LEAVE") \in Symbols /\ Word("0") \in Symbols
  /\ Name(Own) \in Symbols /\ Ip(Own) \in Symbols /\ Port(Own) \in Symbols
  BY DEF ListAlphabet, Symbols, Symbol, OneByte

\* They differ.
LEMMA SymbolsDiffer ==
  /\ STX # ETX /\ ETX # Semi /\ STX # Semi /\ ETX # Comma /\ STX # Comma
  /\ \A w \in {"SERVERS", "QUERYSERVERS", "KEEPALIVE", "STATUSRESP", "LEAVE", "0"} :
       Word(w) # Semi /\ Word(w) # Comma /\ (Word(w) = Word("SERVERS") => w = "SERVERS")
  /\ ETX # Word("SERVERS")
  /\ \A g : /\ Name(g) # Semi /\ Name(g) # Comma
            /\ Ip(g) # Semi /\ Ip(g) # Comma /\ Port(g) # Semi /\ Port(g) # Comma
  BY DEF STX, ETX, Semi, Comma, Word, Name, Ip, Port, Byte

\* What an entry of a group is.
LEMMA GroupEntry ==
  ASSUME NEW g \in Group \cup {Own}
  PROVE  /\ Entry(g) \in NamedEntries(Symbols) /\ Portless(g) \in NamedEntries(Symbols)
         /\ Entry(g).name = <<Name(g)>> /\ Portless(g).name = <<Name(g)>>
         /\ Entry(g).ip = <<Ip(g)>> /\ Portless(g).ip = <<Ip(g)>>
         /\ Entry(g).port = <<Port(g)>>
<1>1. Name(g) \in Symbols /\ Ip(g) \in Symbols /\ Port(g) \in Symbols /\ NoPort \in Symbols
  BY DEF Symbols, Symbol, NoPort
<1>2. /\ Name(g) \notin OneByte /\ Ip(g) \notin OneByte
      /\ Port(g) \notin OneByte /\ NoPort \notin OneByte
  BY DEF Name, Ip, Port, NoPort, Word, OneByte, STX, ETX, Comma, Semi, NL, Byte
<1>3. /\ <<Name(g)>> \in Words(Symbols) /\ <<Ip(g)>> \in Words(Symbols)
      /\ <<Port(g)>> \in Words(Symbols) /\ <<NoPort>> \in Words(Symbols)
  BY <1>1, <1>2 DEF Words
<1>. QED BY <1>3 DEF NamedEntries, Entry, Portless

\* Whose entries a peer lists.
LEMMA PeerEntry ==
  ASSUME NEW e \in PeerEntries
  PROVE  \E g \in Group \cup {Own} : e = Entry(g) \/ e = Portless(g)
  BY DEF PeerEntries, Listed

\* They are named, and the only number in front of the third field is an address.
LEMMA PeerEntryNamed ==
  ASSUME NEW e \in PeerEntries
  PROVE  /\ e \in NamedEntries(Symbols) /\ e # Unnamed /\ Fields(e) = EntryFields(e)
         /\ ~ IsNumber(e.name)
<1>1. PICK g \in Group \cup {Own} : e = Entry(g) \/ e = Portless(g)
  BY PeerEntry
<1>2. e \in NamedEntries(Symbols) /\ e.name = <<Name(g)>>
  BY <1>1, GroupEntry
<1>3. e # Unnamed
  BY <1>2 DEF Unnamed
<1>4. ~ IsNumber(<<Name(g)>>)
  BY DEF IsNumber, Name
<1>. QED BY <1>2, <1>3, <1>4 DEF EntryFields

\* Sequences of entries.
LEMMA AnyEntriesType ==
  /\ AnyEntries \subseteq ListEntries(Symbols)
  /\ \A es \in Seq(AnyEntries) : es \in Seq(ListEntries(Symbols))
<1>1. AnyEntries \subseteq ListEntries(Symbols)
  BY PeerEntryNamed DEF AnyEntries, ListEntries
<1>. QED BY <1>1, SeqMonotonic

-----------------------------------------------------------------------------
(* Lists in step and out of step. *)

\* The fields of entries, each complete but for the unnamed ones.
InStep(fs) == \E es \in Seq(AnyEntries) : fs = ReadFields(es)

\* One field too many in front, so that every entry is cut in two; or fields
\* that are refused as an entry.
OneBehind(fs) == \E x \in Text, es \in Seq(AnyEntries) : fs = Cat(<<x>>, ReadFields(es))

OutOfStep(fs) == fs # <<>> /\ (Refused(fs) \/ OneBehind(fs))

\* A command that is taken for an entry.
IsMistaken(fs) == \E m \in Mistaken : fs = Fields(m)

\* One entry is still complete.
GoesOut(fs) ==
  \E e \in PeerEntries, rest \in Seq(Text) :
    (OutOfStep(rest) \/ IsMistaken(rest)) /\ fs = Cat(Fields(e), rest)

\* What is read of entries are strings.
LEMMA ReadType ==
  ASSUME NEW es \in Seq(AnyEntries)
  PROVE  ReadFields(es) \in Seq(Text)
<1>1. es \in Seq(ListEntries(Symbols))
  BY AnyEntriesType
<1>2. Unnamed \in ListEntries(Symbols)
  BY DEF ListEntries
<1>. QED BY <1>1, <1>2, ReadHead, SymbolsOfLists DEF Text, Symbols

\* The first entry of several.
LEMMA ReadFirst ==
  ASSUME NEW es \in Seq(AnyEntries)
  PROVE  \/ es = <<>> /\ ReadFields(es) = <<>>
         \/ \E e \in AnyEntries, ds \in Seq(AnyEntries) :
              es = Cat(<<e>>, ds) /\ ReadFields(es) = Cat(EntryFields(e), ReadFields(ds))
<1>. DEFINE A == AnyEntries
<1>1. CASE es = <<>>
  BY <1>1, NoEntries
<1>2. CASE es # <<>>
  <2>. HIDE DEF A
  <2>0. es \in Seq(A)
    BY DEF A
  <2>. DEFINE e == Head(es)
              ds == Tail(es)
  <2>1. e \in A /\ ds \in Seq(A)
    BY <1>2, <2>0, HeadTailProperties
  <2>2. es = Cat(<<e>>, ds)
    BY <1>2, <2>0 DEF Cat
  <2>. HIDE DEF e, ds
  <2>3. e \in ListEntries(Symbols) /\ ds \in Seq(ListEntries(Symbols))
    BY <2>1, AnyEntriesType DEF A
  <2>4. ReadFields(Cat(<<e>>, ds)) = Cat(EntryFields(e), ReadFields(ds))
    BY <2>3, ReadHead, SymbolsOfLists
  <2>. QED BY <2>1, <2>2, <2>4 DEF A
<1>. QED BY <1>1, <1>2

\* Three fields in front.
Complete(fs, x, y, z, rest) ==
  /\ Len(fs) = Len(rest) + 3 /\ fs[1] = x /\ fs[2] = y /\ fs[3] = z
  /\ SubSeq(fs, 4, Len(fs)) = rest

\* They are the first three, and the rest is behind them.
LEMMA ThreeInFront ==
  ASSUME NEW S, NEW x \in S, NEW y \in S, NEW z \in S, NEW rest \in Seq(S)
  PROVE  Complete(Cat(<<x, y, z>>, rest), x, y, z, rest)
<1>. DEFINE a == <<x, y, z>>
            v == Cat(a, rest)
            n == Len(rest)
            u == SubSeq(v, 4, Len(v))
<1>1. a \in Seq(S) /\ Len(a) = 3 /\ a[1] = x /\ a[2] = y /\ a[3] = z /\ n \in Nat
  OBVIOUS
<1>. HIDE DEF a
<1>2. InTurn(a, rest) /\ v \in Seq(S)
  BY <1>1, CatMembers, CatType
<1>3. Len(v) = n + 3 /\ v[1] = x /\ v[2] = y /\ v[3] = z /\ \A i \in 1..n : v[3 + i] = rest[i]
  BY <1>1, <1>2 DEF InTurn
<1>. HIDE DEF v
<1>4. u \in Seq(S) /\ Len(u) = n /\ \A i \in 1..n : u[i] = v[i + 3]
  <2>1. u \in Seq(S)
    BY <1>1, <1>2, <1>3
  <2>2. Len(u) = n
    BY <1>1, <1>3
  <2>3. ASSUME NEW i \in 1..n PROVE u[i] = v[i + 3]
    BY <1>1, <1>3
  <2>. QED BY <2>1, <2>2, <2>3
<1>. HIDE DEF u, n
<1>5. ASSUME NEW i \in 1..n PROVE u[i] = rest[i]
  <2>1. i + 3 = 3 + i
    BY <1>1
  <2>. QED BY <1>3, <1>4, <2>1
<1>6. u = rest
  BY <1>4, <1>5, SeqEqual DEF n
<1>. QED BY <1>3, <1>6 DEF Complete, u, v, a, n

\* An entry in front.
LEMMA EntryInFront ==
  ASSUME NEW e \in PeerEntries, NEW rest \in Seq(Text)
  PROVE  /\ Complete(Cat(Fields(e), rest), e.name, e.ip, e.port, rest)
         /\ e.name \in Text /\ e.ip \in Text /\ e.port \in Text
<1>1. e.name \in Text /\ e.ip \in Text /\ e.port \in Text
  <2>1. e \in NamedEntries(Symbols)
    BY PeerEntryNamed
  <2>2. ASSUME NEW t \in Words(Symbols) PROVE t \in Text
    <3>1. PICK w \in Symbols : t = <<w>>
      BY DEF Words
    <3>2. t \in Seq(Symbols)
      BY <3>1
    <3>. QED BY <3>2 DEF Text, Symbols
  <2>. QED BY <2>1, <2>2 DEF NamedEntries
<1>2. ASSUME NEW T, e.name \in T, e.ip \in T, e.port \in T, rest \in Seq(T)
      PROVE  Complete(Cat(<<e.name, e.ip, e.port>>, rest), e.name, e.ip, e.port, rest)
  BY <1>2, ThreeInFront
<1>. QED BY <1>1, <1>2 DEF Fields

\* One field in front.
LEMMA OneInFront ==
  ASSUME NEW x \in Text, NEW rest \in Seq(Text)
  PROVE  /\ Cat(<<x>>, rest) \in Seq(Text) /\ Cat(<<x>>, rest) # <<>>
         /\ Len(Cat(<<x>>, rest)) = Len(rest) + 1
<1>. DEFINE T == Text
            a == <<x>>
<1>. HIDE DEF T
<1>1. a \in Seq(T) /\ Len(a) = 1 /\ rest \in Seq(T) /\ Len(rest) \in Nat
  BY DEF T
<1>. HIDE DEF a
<1>2. Cat(a, rest) \in Seq(T) /\ InTurn(a, rest)
  BY <1>1, CatType, CatMembers
<1>3. Len(Cat(a, rest)) = Len(rest) + 1
  BY <1>1, <1>2 DEF InTurn
<1>4. Cat(a, rest) # <<>>
  BY <1>1, <1>3
<1>. QED BY <1>2, <1>3, <1>4 DEF a, T

\* Four fields, one behind the other.
LEMMA Shift ==
  ASSUME NEW x \in Text, NEW n \in Text, NEW a \in Text, NEW p \in Text, NEW rest \in Seq(Text)
  PROVE  Cat(<<x>>, Cat(<<n, a, p>>, rest)) = Cat(<<x, n, a>>, Cat(<<p>>, rest))
<1>. DEFINE T == Text
            sx == <<x>>
            sp == <<p>>
            sna == <<n, a>>
            snap == <<n, a, p>>
            sxn == <<x, n>>
            sxna == <<x, n, a>>
            sn == <<n>>
            sa == <<a>>
<1>1. /\ sna = Cat(sn, sa) /\ snap = Cat(sna, sp)
      /\ sxn = Cat(sx, sn) /\ sxna = Cat(sxn, sa)
  BY ThreeFields
<1>. HIDE DEF T
<1>2. sx \in Seq(T) /\ sn \in Seq(T) /\ sa \in Seq(T) /\ sp \in Seq(T) /\ rest \in Seq(T)
  BY DEF T
<1>. HIDE DEF sx, sp, sna, snap, sxn, sxna, sn, sa
<1>3. sna \in Seq(T) /\ snap \in Seq(T) /\ sxn \in Seq(T) /\ sxna \in Seq(T)
  BY <1>1, <1>2, CatType
<1>4. Cat(snap, rest) = Cat(sna, Cat(sp, rest)) /\ Cat(sp, rest) \in Seq(T)
  BY <1>1, <1>2, <1>3, CatAssociative, CatType
<1>5. Cat(sx, Cat(sna, Cat(sp, rest))) = Cat(Cat(sx, sna), Cat(sp, rest))
  BY <1>2, <1>3, <1>4, CatAssociative
<1>6. Cat(sx, sna) = sxna
  BY <1>1, <1>2, CatAssociative
<1>. QED BY <1>4, <1>5, <1>6 DEF sx, sp, snap, sxna

\* Three fields, one behind the other.
LEMMA ShiftTwo ==
  ASSUME NEW x \in Text, NEW y \in Text, NEW z \in Text, NEW rest \in Seq(Text)
  PROVE  Cat(<<x>>, Cat(<<y, z>>, rest)) = Cat(<<x, y, z>>, rest)
<1>. DEFINE T == Text
            sx == <<x>>
            sy == <<y>>
            sz == <<z>>
            syz == <<y, z>>
            sxy == <<x, y>>
            sxyz == <<x, y, z>>
<1>1. syz = Cat(sy, sz) /\ sxy = Cat(sx, sy) /\ sxyz = Cat(sxy, sz)
  BY ThreeFields
<1>. HIDE DEF T
<1>2. sx \in Seq(T) /\ sy \in Seq(T) /\ sz \in Seq(T) /\ rest \in Seq(T)
  BY DEF T
<1>. HIDE DEF sx, sy, sz, syz, sxy, sxyz
<1>3. syz \in Seq(T) /\ sxyz = Cat(sx, syz)
  BY <1>1, <1>2, CatType, CatAssociative
<1>4. Cat(Cat(sx, syz), rest) = Cat(sx, Cat(syz, rest))
  BY <1>2, <1>3, CatAssociative
<1>. QED BY <1>3, <1>4 DEF sx, syz, sxyz

\* Behind an unnamed entry there is no number in the third place.
LEMMA AfterUnnamed ==
  ASSUME NEW ds \in Seq(AnyEntries)
  PROVE  LET fs == Cat(EntryFields(Unnamed), ReadFields(ds))
         IN  Len(fs) >= 3 => ~ IsNumber(fs[3])
<1>. DEFINE z == <<>>
            zz == <<z, z>>
            rest == ReadFields(ds)
            fs == Cat(zz, rest)
<1>1. rest \in Seq(Text) /\ z \in Text /\ zz \in Seq(Text) /\ Len(zz) = 2
  <2>1. rest \in Seq(Text)
    BY ReadType
  <2>2. z \in Text
    BY DEF Text
  <2>. DEFINE T == Text
  <2>. HIDE DEF T, z
  <2>3. zz \in Seq(T) /\ Len(zz) = 2
    BY <2>2 DEF T
  <2>. QED BY <2>1, <2>2, <2>3 DEF T
<1>2. EntryFields(Unnamed) = zz
  BY DEF EntryFields
<1>. HIDE DEF zz
<1>3. InTurn(zz, rest)
  <2>. HIDE DEF rest
  <2>. QED BY <1>1, CatMembers
<1>4. CASE ds = <<>> /\ rest = <<>>
  <2>1. Len(fs) = 2
    BY <1>1, <1>3, <1>4 DEF InTurn
  <2>. QED BY <1>2, <2>1
<1>5. ASSUME NEW e \in AnyEntries, NEW cs \in Seq(AnyEntries),
             rest = Cat(EntryFields(e), ReadFields(cs))
      PROVE  Len(fs) >= 3 /\ ~ IsNumber(fs[3])
  <2>. DEFINE more == ReadFields(cs)
  <2>0. more \in Seq(Text)
    BY ReadType
  <2>. HIDE DEF more, rest
  <2>1. Len(rest) >= 1 /\ ~ IsNumber(rest[1])
    <3>1. CASE e \in PeerEntries
      <4>1. Complete(rest, e.name, e.ip, e.port, more)
        BY <1>5, <2>0, <3>1, PeerEntryNamed, EntryInFront DEF more
      <4>. QED BY <2>0, <3>1, <4>1, PeerEntryNamed DEF Complete
    <3>2. CASE e = Unnamed
      <4>1. rest = Cat(zz, more)
        BY <1>2, <1>5, <3>2 DEF more
      <4>2. InTurn(zz, more)
        BY <1>1, <2>0, CatMembers
      <4>3. Len(rest) >= 2 /\ rest[1] = zz[1]
        BY <1>1, <2>0, <4>1, <4>2 DEF InTurn
      <4>. QED BY <4>3 DEF IsNumber, zz
    <3>. QED BY <3>1, <3>2 DEF AnyEntries
  <2>2. Len(fs) = 2 + Len(rest) /\ fs[2 + 1] = rest[1]
    BY <1>1, <1>3, <2>1 DEF InTurn
  <2>. QED BY <1>1, <2>1, <2>2
<1>. QED BY <1>2, <1>4, <1>5, ReadFirst

\* An entry that is read from a list that is in step: the list stays in step.
LEMMA ReadsInStep ==
  ASSUME NEW fs, InStep(fs), Len(fs) >= 3, IsNumber(fs[3])
  PROVE  \E e \in PeerEntries : \E rest : InStep(rest) /\ Complete(fs, e.name, e.ip, e.port, rest)
<1>1. PICK es \in Seq(AnyEntries) : fs = ReadFields(es)
  BY DEF InStep
<1>2. CASE es = <<>> /\ ReadFields(es) = <<>>
  BY <1>1, <1>2
<1>3. ASSUME NEW e \in AnyEntries, NEW ds \in Seq(AnyEntries),
             fs = Cat(EntryFields(e), ReadFields(ds))
      PROVE  \E d \in PeerEntries : \E rest : InStep(rest) /\ Complete(fs, d.name, d.ip, d.port, rest)
  <2>0. ReadFields(ds) \in Seq(Text) /\ InStep(ReadFields(ds))
    BY ReadType DEF InStep
  <2>1. CASE e \in PeerEntries
    <3>1. fs = Cat(Fields(e), ReadFields(ds))
      BY <1>3, <2>1, PeerEntryNamed
    <3>2. Complete(fs, e.name, e.ip, e.port, ReadFields(ds))
      BY <2>0, <2>1, <3>1, EntryInFront
    <3>. QED BY <2>0, <2>1, <3>2
  <2>2. CASE e = Unnamed
    BY <1>3, <2>2, AfterUnnamed
  <2>. QED BY <2>1, <2>2 DEF AnyEntries
<1>. QED BY <1>1, <1>2, <1>3, ReadFirst

\* An entry that is read from a list that is out of step: it stays so.
LEMMA ReadsOutOfStep ==
  ASSUME NEW fs \in Seq(Text), OutOfStep(fs), Len(fs) >= 3, IsNumber(fs[3])
  PROVE  OutOfStep(SubSeq(fs, 4, Len(fs)))
<1>1. PICK x \in Text, es \in Seq(AnyEntries) : fs = Cat(<<x>>, ReadFields(es))
  <2>1. OneBehind(fs)
    BY DEF OutOfStep, Refused
  <2>. QED BY <2>1, Zenon DEF OneBehind
<1>2. CASE es = <<>> /\ ReadFields(es) = <<>>
  <2>1. ReadFields(es) \in Seq(Text) /\ Len(ReadFields(es)) = 0
    BY <1>2, ReadType
  <2>2. Len(Cat(<<x>>, ReadFields(es))) = Len(ReadFields(es)) + 1
    BY <2>1, OneInFront
  <2>3. Len(fs) = 1
    BY <1>1, <2>1, <2>2
  <2>. QED BY <2>3
<1>3. ASSUME NEW e \in AnyEntries, NEW ds \in Seq(AnyEntries),
             fs = Cat(<<x>>, Cat(EntryFields(e), ReadFields(ds)))
      PROVE  OutOfStep(SubSeq(fs, 4, Len(fs)))
  <2>. DEFINE rest == ReadFields(ds)
  <2>0. rest \in Seq(Text)
    BY ReadType
  <2>1. CASE e \in PeerEntries
    <3>. DEFINE us == Cat(<<e.port>>, rest)
    <3>1. e.name \in Text /\ e.ip \in Text /\ e.port \in Text
      BY <2>0, <2>1, EntryInFront
    <3>2. us \in Seq(Text) /\ us # <<>>
      BY <2>0, <3>1, OneInFront
    <3>3. fs = Cat(<<x, e.name, e.ip>>, us)
      <4>1. fs = Cat(<<x>>, Cat(<<e.name, e.ip, e.port>>, rest))
        BY <1>3, <2>1, PeerEntryNamed DEF Fields
      <4>. HIDE DEF rest
      <4>. QED BY <2>0, <3>1, <4>1, Shift
    <3>4. OutOfStep(us)
      BY <3>1, <3>2 DEF OutOfStep, OneBehind
    <3>. HIDE DEF us
    <3>5. Complete(fs, x, e.name, e.ip, us)
      BY <3>1, <3>2, <3>3, ThreeInFront
    <3>. QED BY <3>4, <3>5 DEF Complete
  <2>2. CASE e = Unnamed
    <3>. DEFINE z == <<>>
    <3>1. z \in Text
      BY DEF Text
    <3>2. fs = Cat(<<x>>, Cat(<<z, z>>, rest))
      BY <1>3, <2>2 DEF EntryFields
    <3>. HIDE DEF z, rest
    <3>3. fs = Cat(<<x, z, z>>, rest)
      BY <2>0, <3>1, <3>2, ShiftTwo
    <3>4. Complete(fs, x, z, z, rest)
      BY <2>0, <3>1, <3>3, ThreeInFront
    <3>5. ~ IsNumber(fs[3])
      BY <3>4 DEF Complete, IsNumber, z
    <3>. QED BY <3>5
  <2>. QED BY <2>1, <2>2 DEF AnyEntries
<1>. QED BY <1>1, <1>2, <1>3, ReadFirst

-----------------------------------------------------------------------------
(* Messages, and what is read of them. *)

\* What a frame holds.
Lists    == {ListMessage(e, es) : e \in PeerEntries, es \in Seq(Listed \cup {Unnamed})}
Payloads == Lists \cup Others

\* What is between two frames.
Between == <<ETX, STX>>

\* Sequences over the symbols.
LEMMA SmallTexts ==
  /\ Between \in Seq(Symbols) /\ <<>> \in Seq(Symbols)
  /\ <<STX>> \in Seq(Symbols) /\ <<ETX>> \in Seq(Symbols) /\ <<Semi>> \in Seq(Symbols)
<1>. DEFINE X == Symbols
<1>1. STX \in X /\ ETX \in X /\ Semi \in X
  BY SymbolsOfLists
<1>. HIDE DEF X
<1>2. <<ETX, STX>> \in Seq(X) /\ <<STX>> \in Seq(X) /\ <<ETX>> \in Seq(X) /\ <<Semi>> \in Seq(X)
  BY <1>1
<1>. QED BY <1>2 DEF X, Between

\* What is in the other frames: nothing, or a command that is not SERVERS.
CommandWord(m) == m # <<>> /\ Head(m) # Word("SERVERS")

LEMMA OtherTexts ==
  \A m \in Others : m \in Seq(Symbols) /\ (m = <<>> \/ CommandWord(m))
<1>. DEFINE X == Symbols
<1>1. /\ Comma \in X /\ Name(Own) \in X /\ Ip(Own) \in X /\ Port(Own) \in X /\ Word("0") \in X
      /\ Word("QUERYSERVERS") \in X /\ Word("KEEPALIVE") \in X
      /\ Word("STATUSRESP") \in X /\ Word("LEAVE") \in X
  BY SymbolsOfLists
<1>. HIDE DEF X
<1>2. /\ Question \in Seq(X) /\ KeepAlive \in Seq(X)
      /\ StatusResp \in Seq(X) /\ LeaveText \in Seq(X) /\ <<>> \in Seq(X)
  BY <1>1 DEF Question, KeepAlive, StatusResp, LeaveText
<1>3. /\ Question # <<>> /\ KeepAlive # <<>> /\ StatusResp # <<>> /\ LeaveText # <<>>
      /\ Head(Question) = Word("QUERYSERVERS") /\ Head(KeepAlive) = Word("KEEPALIVE")
      /\ Head(StatusResp) = Word("STATUSRESP") /\ Head(LeaveText) = Word("LEAVE")
  BY DEF Question, KeepAlive, StatusResp, LeaveText
<1>4. /\ Word("QUERYSERVERS") # Word("SERVERS") /\ Word("KEEPALIVE") # Word("SERVERS")
      /\ Word("STATUSRESP") # Word("SERVERS") /\ Word("LEAVE") # Word("SERVERS")
  BY DEF Word
<1>. QED BY <1>2, <1>3, <1>4 DEF Others, CommandWord, X

\* The text of a list.
LEMMA ListText ==
  ASSUME NEW e \in PeerEntries, NEW es \in Seq(Listed \cup {Unnamed})
  PROVE  /\ es \in Seq(AnyEntries)
         /\ ListMessage(e, es) = Cat(ListHead(e), Body(es))
         /\ ListHead(e) \in Seq(Symbols) /\ Body(es) \in Seq(Symbols)
         /\ ListMessage(e, es) \in Seq(Symbols)
<1>1. es \in Seq(AnyEntries)
  BY SeqMonotonic DEF AnyEntries, PeerEntries
<1>2. e \in ListEntries(Symbols) /\ es \in Seq(ListEntries(Symbols))
  BY <1>1, AnyEntriesType DEF AnyEntries
<1>3. ListMessage(e, es) = Cat(ListHead(e), Body(es))
  BY DEF ListMessage, Cat, ListHead, Body
<1>4. Body(es) \in Seq(Symbols) /\ EntryText(e) \in Seq(Symbols)
  BY <1>2, BodyHead, EntryType, SymbolsOfLists
<1>5. ListHead(e) \in Seq(Symbols)
  <2>. DEFINE a == <<Word("SERVERS"), Comma>>
              X == Symbols
  <2>. HIDE DEF X
  <2>1. a \in Seq(X)
    BY SymbolsOfLists DEF X
  <2>. HIDE DEF a
  <2>2. Cat(a, EntryText(e)) \in Seq(X)
    BY <1>4, <2>1, CatType DEF X
  <2>. QED BY <2>2 DEF ListHead, Cat, a, X
<1>. QED BY <1>1, <1>3, <1>4, <1>5, CatType

\* All of them are sequences of symbols.
LEMMA PayloadType == \A m \in Payloads : m \in Seq(Symbols)
<1>1. ASSUME NEW m \in Lists PROVE m \in Seq(Symbols)
  <2>1. PICK e \in PeerEntries, es \in Seq(Listed \cup {Unnamed}) : m = ListMessage(e, es)
    BY <1>1 DEF Lists
  <2>. QED BY <2>1, ListText
<1>. QED BY <1>1, OtherTexts DEF Payloads

\* A list that comes alone is in step.
LEMMA ListInStep ==
  ASSUME NEW m \in Lists
  PROVE  ListFields(m) \in Seq(Text) /\ InStep(ListFields(m))
<1>1. PICK e \in PeerEntries, es \in Seq(Listed \cup {Unnamed}) : m = ListMessage(e, es)
  BY DEF Lists
<1>2. /\ es \in Seq(AnyEntries) /\ e \in AnyEntries /\ Body(es) \in Seq(Symbols)
      /\ m = Cat(ListHead(e), Body(es))
  BY <1>1, ListText DEF AnyEntries
<1>3. e \in ListEntries(Symbols) /\ es \in Seq(ListEntries(Symbols))
  BY <1>2, AnyEntriesType
<1>4. ListFields(m) = Cat(EntryFields(e), ReadFields(es))
  BY <1>2, <1>3, ListFieldsHead, RestBody, SymbolsOfLists
<1>. DEFINE ds == Cat(<<e>>, es)
            A == AnyEntries
<1>5. ds \in Seq(AnyEntries)
  <2>1. e \in A /\ es \in Seq(A)
    BY <1>2
  <2>. HIDE DEF A
  <2>2. <<e>> \in Seq(A)
    BY <2>1
  <2>. QED BY <2>1, <2>2, CatType DEF A
<1>6. ReadFields(ds) = Cat(EntryFields(e), ReadFields(es))
  BY <1>3, ReadHead, SymbolsOfLists
<1>. HIDE DEF ds
<1>7. ListFields(m) = ReadFields(ds)
  BY <1>4, <1>6
<1>. QED BY <1>5, <1>7, ReadType DEF InStep

\* What does not start with the word is no list.
LEMMA NoList ==
  ASSUME NEW s \in Seq(Symbols), s # <<>> => Head(s) # Word("SERVERS")
  PROVE  Pieces(s, Comma)[1] # <<Word("SERVERS")>>
<1>1. StartsString(Pieces(s, Comma), s)
  BY FirstPiece
<1>2. Head(<<Word("SERVERS")>>) = Word("SERVERS") /\ <<Word("SERVERS")>> # <<>>
  OBVIOUS
<1>. QED BY <1>1, <1>2 DEF StartsString

\* The first symbol of two strings.
LEMMA HeadOfTwo ==
  ASSUME NEW S, NEW s \in Seq(S), NEW t \in Seq(S), s # <<>>
  PROVE  Cat(s, t) # <<>> /\ Head(Cat(s, t)) = Head(s)
<1>1. InTurn(s, t) /\ Cat(s, t) \in Seq(S) /\ Len(s) \in Nat /\ Len(s) >= 1 /\ Len(t) \in Nat
  BY CatMembers, CatType
<1>2. Len(Cat(s, t)) >= 1 /\ Cat(s, t)[1] = s[1]
  BY <1>1 DEF InTurn
<1>. DEFINE v == Cat(s, t)
<1>. HIDE DEF v
<1>3. v # <<>> /\ Head(v) = Head(s)
  <2>1. v \in Seq(S) /\ Len(v) >= 1 /\ v[1] = s[1]
    BY <1>1, <1>2 DEF v
  <2>2. v # <<>>
    BY <2>1
  <2>3. Head(v) = v[1] /\ Head(s) = s[1]
    BY <2>1, <2>2
  <2>. QED BY <2>1, <2>2, <2>3
<1>. QED BY <1>3 DEF v

\* A payload that is read as a list is one.
LEMMA OnlyLists ==
  ASSUME NEW m \in Payloads, Pieces(m, Comma)[1] = <<Word("SERVERS")>>
  PROVE  m \in Lists
<1>. SUFFICES ASSUME m \in Others PROVE FALSE
  BY DEF Payloads
<1>. QED BY OtherTexts, NoList DEF CommandWord

\* Neither is one whose front is none.
LEMMA GluedList ==
  ASSUME NEW m1 \in Payloads, NEW m2 \in Payloads,
         Pieces(Cat(m1, Cat(Between, m2)), Comma)[1] = <<Word("SERVERS")>>
  PROVE  m1 \in Lists
<1>. DEFINE r == Cat(Between, m2)
            X == Symbols
<1>. HIDE DEF X
<1>1. /\ m1 \in Seq(X) /\ m2 \in Seq(X) /\ Between \in Seq(X)
  BY PayloadType, SmallTexts DEF X
<1>2. r \in Seq(X)
  BY <1>1, CatType
<1>3. r # <<>> /\ Head(r) = ETX
  <2>1. Between # <<>> /\ Head(Between) = ETX
    BY DEF Between
  <2>. QED BY <1>1, <2>1, HeadOfTwo
<1>. HIDE DEF r
<1>4. CASE m1 = <<>>
  <2>1. Cat(m1, r) = r
    BY <1>2, <1>4, CatEmpty
  <2>. QED BY <1>2, <1>3, <2>1, NoList, SymbolsDiffer DEF r, X
<1>5. CASE CommandWord(m1)
  <2>1. Cat(m1, r) \in Seq(X) /\ Head(Cat(m1, r)) # Word("SERVERS")
    BY <1>1, <1>2, <1>5, HeadOfTwo, CatType DEF CommandWord
  <2>. QED BY <2>1, NoList DEF r, X
<1>. QED BY <1>4, <1>5, OtherTexts DEF Payloads

\* A list glued to a list: its word has become the first field of what follows.
LEMMA GluedLists ==
  ASSUME NEW e \in PeerEntries, NEW es \in Seq(Listed \cup {Unnamed})
  PROVE  OutOfStep(Rest(Cat(Between, ListMessage(e, es))))
<1>. DEFINE X == Symbols
            Y == X \ {Semi}
            Z == X \ {Comma}
            x == <<ETX, STX, Word("SERVERS")>>
            sc == <<Word("SERVERS"), Comma>>
            c == <<Comma>>
            z == <<Semi>>
            l == Line(e)
            b == Body(es)
            xc == Cat(x, c)
            w == Cat(xc, l)
            r == Cat(Between, ListMessage(e, es))
            ds == Cat(<<e>>, es)
<1>1. Comma \in X /\ Semi \in X /\ Comma \in Y
  BY SymbolsOfLists, SymbolsDiffer, Separators
<1>2. /\ x \in Seq(Z) /\ x \in Seq(Y) /\ x \in Seq(X) /\ c \in Seq(Y) /\ c \in Seq(X)
      /\ sc \in Seq(X) /\ z \in Seq(X) /\ Len(x) = 3 /\ Len(c) = 1
      /\ Between \in Seq(X)
  <2>1. /\ ETX \in Z /\ STX \in Z /\ Word("SERVERS") \in Z
        /\ ETX \in Y /\ STX \in Y /\ Word("SERVERS") \in Y
        /\ ETX \in X /\ STX \in X /\ Word("SERVERS") \in X
    BY SymbolsOfLists, SymbolsDiffer
  <2>2. Between \in Seq(X)
    BY SmallTexts
  <2>. HIDE DEF X, Y, Z
  <2>3. x \in Seq(Z) /\ x \in Seq(Y) /\ x \in Seq(X)
    BY <2>1
  <2>4. c \in Seq(Y) /\ c \in Seq(X) /\ sc \in Seq(X) /\ z \in Seq(X)
    BY <1>1, <2>1
  <2>. QED BY <2>2, <2>3, <2>4
<1>3. Cat(Between, sc) = xc
  <2>1. Between \o <<Word("SERVERS"), Comma>> = x \o <<Comma>>
    <3>. DEFINE p == <<ETX, STX>>
                q == <<Word("SERVERS")>>
                V == X
    <3>1. p \in Seq(X) /\ q \in Seq(X) /\ c \in Seq(X)
      <4>1. q \in Seq(X)
        BY SymbolsOfLists
      <4>. QED BY <1>2, <4>1 DEF Between
    <3>2. sc = Cat(q, c) /\ x = Cat(p, q)
      BY ThreeFields
    <3>. HIDE DEF p, q, c, X
    <3>3. Cat(p, Cat(q, c)) = Cat(Cat(p, q), c)
      BY <3>1, CatAssociative
    <3>. QED BY <3>2, <3>3 DEF p, c, Cat, Between
  <2>. QED BY <2>1 DEF Cat
<1>. HIDE DEF x, sc, c, z
<1>4. l \in Seq(Y) /\ l \in Seq(X) /\ Pieces(l, Comma) = Fields(e) /\ b \in Seq(X)
  <2>1. e \in ListEntries(X)
    BY AnyEntriesType DEF AnyEntries
  <2>. HIDE DEF X
  <2>2. l \in Seq(Y) /\ Pieces(l, Comma) = Fields(e)
    BY <1>1, <2>1, LineType, LinePieces
  <2>. HIDE DEF l, Y
  <2>3. l \in Seq(X)
    BY <2>2, SeqMonotonic DEF Y
  <2>. QED BY <2>2, <2>3, ListText DEF X
<1>. HIDE DEF X, Y, Z, l, b, xc
<1>5. xc \in Seq(X) /\ xc \in Seq(Y) /\ w \in Seq(Y) /\ w \in Seq(X) /\ ~ IsByte(w)
  <2>1. xc \in Seq(X) /\ xc \in Seq(Y) /\ InTurn(x, c)
    BY <1>2, CatType, CatMembers DEF xc
  <2>2. Len(xc) = 4
    BY <1>2, <2>1 DEF InTurn, xc
  <2>3. w \in Seq(Y) /\ w \in Seq(X) /\ InTurn(xc, l)
    BY <1>4, <2>1, CatType, CatMembers
  <2>4. Len(w) # 1
    BY <1>4, <2>2, <2>3 DEF InTurn
  <2>. QED BY <2>1, <2>3, <2>4 DEF IsByte
<1>6. r = Cat(Cat(w, z), b)
  <2>1. ListMessage(e, es) = Cat(Cat(sc, Cat(l, z)), b)
    <3>1. ListMessage(e, es) = Cat(ListHead(e), b)
      BY ListText DEF b
    <3>2. ListHead(e) = Cat(sc, EntryText(e))
      BY DEF ListHead, Cat, sc
    <3>. QED BY <3>1, <3>2, TextOfLine DEF l, z
  <2>2. Cat(l, z) \in Seq(X) /\ Cat(sc, Cat(l, z)) \in Seq(X)
    BY <1>2, <1>4, CatType
  <2>3. r = Cat(Cat(Between, Cat(sc, Cat(l, z))), b)
    BY <1>2, <1>4, <2>1, <2>2, CatAssociative
  <2>4. Cat(Between, Cat(sc, Cat(l, z))) = Cat(xc, Cat(l, z))
    BY <1>2, <1>3, <2>2, CatAssociative
  <2>5. Cat(xc, Cat(l, z)) = Cat(w, z)
    BY <1>2, <1>4, <1>5, CatAssociative
  <2>. QED BY <2>3, <2>4, <2>5
<1>. HIDE DEF w, r
<1>7. Rest(r) = Cat(WhileGetline(w, Comma), Rest(b))
  <2>1. ReadsLine(w, b)
    BY <1>1, <1>4, <1>5, RestLine DEF Y
  <2>. QED BY <1>6, <2>1 DEF ReadsLine, z
<1>8. WhileGetline(w, Comma) = Cat(<<x>>, Fields(e))
  <2>1. Pieces(w, Comma) = Cat(<<x>>, Fields(e))
    <3>1. Joins(x, l, Comma)
      BY <1>1, <1>2, <1>4, PiecesJoin
    <3>2. Pieces(x, Comma) = <<x>>
      BY <1>2, PiecesOne DEF Z
    <3>. QED BY <1>4, <3>1, <3>2 DEF Joins, Cat, w, xc, c
  <2>2. Last(Cat(<<x>>, Fields(e))) # <<>>
    <3>. DEFINE T == Text
                a == <<x>>
                f == <<e.name, e.ip, e.port>>
    <3>1. a \in Seq(T) /\ Len(a) = 1 /\ f \in Seq(T) /\ Len(f) = 3 /\ f[3] = e.port
      <4>1. x \in T
        BY <1>2 DEF Text, X, Symbols
      <4>2. e.name \in T /\ e.ip \in T /\ e.port \in T
        BY EntryInFront, EmptySeq
      <4>. HIDE DEF T
      <4>. QED BY <4>1, <4>2
    <3>. HIDE DEF T, a, f
    <3>2. InTurn(a, f)
      BY <3>1, CatMembers
    <3>3. Len(Cat(a, f)) = 4 /\ Cat(a, f)[1 + 3] = e.port
      BY <3>1, <3>2 DEF InTurn
    <3>4. e.port # <<>>
      <4>1. PICK p : e.port = <<p>>
        BY PeerEntryNamed DEF NamedEntries, Words
      <4>. QED BY <4>1
    <3>. QED BY <3>3, <3>4 DEF Last, Fields, a, f
  <2>. QED BY <2>1, <2>2 DEF WhileGetline
<1>9. Rest(b) = ReadFields(es) /\ ReadFields(es) \in Seq(Text)
      /\ ReadFields(ds) = Cat(Fields(e), ReadFields(es)) /\ ds \in Seq(AnyEntries)
  <2>. DEFINE A == AnyEntries
  <2>1. es \in Seq(A) /\ e \in A
    BY ListText DEF AnyEntries
  <2>2. es \in Seq(ListEntries(Symbols)) /\ e \in ListEntries(Symbols)
    BY <2>1, AnyEntriesType
  <2>3. Rest(Body(es)) = ReadFields(es) /\ ReadFields(ds) = Cat(EntryFields(e), ReadFields(es))
    BY <2>2, RestBody, ReadHead, SymbolsOfLists
  <2>4. ReadFields(es) \in Seq(Text)
    BY <2>1, ReadType
  <2>. HIDE DEF A
  <2>5. <<e>> \in Seq(A)
    BY <2>1
  <2>6. ds \in Seq(A)
    BY <2>1, <2>5, CatType
  <2>. QED BY <2>3, <2>4, <2>6, PeerEntryNamed DEF A, b
<1>. HIDE DEF ds
<1>10. Rest(r) = Cat(<<x>>, ReadFields(ds)) /\ x \in Text /\ ReadFields(ds) \in Seq(Text)
  <2>. DEFINE T == Text
              a == <<x>>
              f == Fields(e)
  <2>1. x \in T
    BY <1>2 DEF Text, X, Symbols
  <2>2. f \in Seq(T)
    <3>1. e.name \in T /\ e.ip \in T /\ e.port \in T
      BY EntryInFront, EmptySeq
    <3>. HIDE DEF T
    <3>. QED BY <3>1 DEF Fields
  <2>3. ReadFields(es) \in Seq(T) /\ ReadFields(ds) \in Seq(T)
    BY <1>9, ReadType
  <2>. HIDE DEF T, f
  <2>4. a \in Seq(T)
    BY <2>1
  <2>. HIDE DEF a
  <2>5. Cat(Cat(a, f), ReadFields(es)) = Cat(a, Cat(f, ReadFields(es)))
    BY <2>2, <2>3, <2>4, CatAssociative
  <2>. QED BY <1>7, <1>8, <1>9, <2>1, <2>3, <2>5 DEF a, f, T
<1>11. OneBehind(Rest(r)) /\ Rest(r) # <<>>
  BY <1>9, <1>10, OneInFront DEF OneBehind
<1>. QED BY <1>11 DEF OutOfStep, r

\* One piece in front.
LEMMA PieceInFront ==
  ASSUME NEW X, Comma \in X, NEW x \in Seq(X \ {Comma}), NEW t \in Seq(X)
  PROVE  Pieces(Cat(Cat(x, <<Comma>>), t), Comma) = Cat(<<x>>, Pieces(t, Comma))
<1>1. x \in Seq(X)
  BY SeqMonotonic
<1>2. Joins(x, t, Comma)
  BY <1>1, PiecesJoin
<1>3. Pieces(x, Comma) = <<x>>
  BY PiecesOne
<1>. QED BY <1>2, <1>3 DEF Joins, Cat

\* A text without Semi that is no single byte is read as its pieces.
LEMMA OneLine ==
  ASSUME NEW w \in Seq(Symbols \ {Semi}), Len(w) # 1
  PROVE  Rest(w) = WhileGetline(w, Comma)
<1>1. ~ IsByte(w)
  BY DEF IsByte
<1>. QED BY <1>1, LastLine

\* Several fields, one behind the other.
LEMMA FieldsInFront ==
  \A x, y, z, u : /\ Cat(<<x>>, <<y, z>>) = <<x, y, z>>
                 /\ Cat(<<x>>, Cat(<<y>>, <<z, u>>)) = <<x, y, z, u>>
<1>. TAKE x, y, z, u
<1>. DEFINE S == {x, y, z, u}
            a == <<x>>
            b == <<y>>
            c == <<z>>
            cd == <<z, u>>
            bc == <<y, z>>
            abc == <<x, y, z>>
            abcd == <<x, y, z, u>>
            v == Cat(a, Cat(b, cd))
<1>1. a \in Seq(S) /\ b \in Seq(S) /\ c \in Seq(S) /\ cd \in Seq(S) /\ abcd \in Seq(S)
  OBVIOUS
<1>2. /\ Len(a) = 1 /\ a[1] = x /\ Len(b) = 1 /\ b[1] = y /\ Len(cd) = 2 /\ cd[1] = z /\ cd[2] = u
      /\ Len(abcd) = 4 /\ abcd[1] = x /\ abcd[2] = y /\ abcd[3] = z /\ abcd[4] = u
  OBVIOUS
<1>3. Cat(a, bc) = abc
  <2>1. bc = Cat(b, c) /\ abc = Cat(Cat(a, b), c)
    BY ThreeFields
  <2>. HIDE DEF S, a, b, c, bc, abc
  <2>. QED BY <1>1, <2>1, CatAssociative
<1>. HIDE DEF S, a, b, cd, abcd
<1>4. Cat(b, cd) \in Seq(S) /\ v \in Seq(S) /\ InTurn(b, cd) /\ InTurn(a, Cat(b, cd))
  BY <1>1, CatType, CatMembers
<1>5. Len(Cat(b, cd)) = 3 /\ Cat(b, cd)[1] = y /\ Cat(b, cd)[1 + 1] = z /\ Cat(b, cd)[1 + 2] = u
  BY <1>2, <1>4 DEF InTurn
<1>6. Len(v) = 4 /\ v[1] = x /\ v[1 + 1] = y /\ v[1 + 2] = z /\ v[1 + 3] = u
  BY <1>2, <1>4, <1>5 DEF InTurn
<1>. HIDE DEF v
<1>7. \A i \in 1..4 : i = 1 \/ i = 2 \/ i = 3 \/ i = 4
  OBVIOUS
<1>8. \A i \in 1..4 : v[i] = abcd[i]
  BY <1>2, <1>6, <1>7
<1>9. v = abcd
  BY <1>1, <1>2, <1>4, <1>6, <1>8, SeqEqual
<1>. QED BY <1>3, <1>9 DEF v, a, b, bc, cd, abc, abcd

\* A word behind the delimiters, with other words behind it.
WithDelimiters(a) == <<ETX, STX, a>>

LEMMA GluedWords ==
  ASSUME NEW a \in Symbols \ {Comma, Semi}, NEW v \in Seq(Symbols \ {Semi})
  PROVE  LET r == Cat(Cat(WithDelimiters(a), <<Comma>>), v)
         IN  /\ Rest(r) = WhileGetline(r, Comma)
             /\ Pieces(r, Comma) = Cat(<<WithDelimiters(a)>>, Pieces(v, Comma))
<1>. DEFINE X == Symbols
            Y == X \ {Semi}
            Z == X \ {Comma}
            w == WithDelimiters(a)
            c == <<Comma>>
            wc == Cat(w, c)
            r == Cat(wc, v)
<1>1. /\ ETX \in Z /\ STX \in Z /\ a \in Z /\ Comma \in X /\ Comma \in Y
      /\ ETX \in Y /\ STX \in Y /\ a \in Y
  BY SymbolsOfLists, SymbolsDiffer, Separators
<1>. HIDE DEF X, Y, Z
<1>2. w \in Seq(Z) /\ w \in Seq(Y) /\ c \in Seq(Y) /\ Len(w) = 3 /\ Len(c) = 1
  BY <1>1 DEF WithDelimiters
<1>3. v \in Seq(Y)
  BY DEF X, Y
<1>. HIDE DEF w, c
<1>4. wc \in Seq(Y) /\ InTurn(w, c)
  BY <1>2, CatType, CatMembers
<1>. HIDE DEF wc
<1>5. r \in Seq(Y) /\ InTurn(wc, v) /\ v \in Seq(X)
  <2>1. v \in Seq(X)
    BY <1>3, SeqMonotonic DEF Y
  <2>. QED BY <1>3, <1>4, <2>1, CatType, CatMembers
<1>6. Len(r) # 1
  <2>1. Len(wc) = 4 /\ Len(v) \in Nat
    BY <1>2, <1>3, <1>4 DEF InTurn, wc
  <2>. QED BY <1>5, <2>1 DEF InTurn
<1>7. Pieces(r, Comma) = Cat(<<w>>, Pieces(v, Comma))
  BY <1>1, <1>2, <1>5, PieceInFront DEF Z, c, wc
<1>. HIDE DEF r
<1>8. Rest(r) = WhileGetline(r, Comma)
  BY <1>5, <1>6, OneLine DEF X, Y
<1>. QED BY <1>7, <1>8 DEF r, wc, w, c

\* Two words behind the delimiters.
LEMMA GluedPair ==
  ASSUME NEW a \in Symbols \ {Comma, Semi}, NEW b \in Symbols \ {Comma, Semi}
  PROVE  Rest(Cat(Between, <<a, Comma, b>>)) = <<WithDelimiters(a), <<b>> >>
<1>. DEFINE X == Symbols
            w == WithDelimiters(a)
            n == <<b>>
            c == <<Comma>>
            r == Cat(Cat(w, c), n)
<1>1. Cat(Between, <<a, Comma, b>>) = r
  BY DEF Between, Cat, WithDelimiters
<1>2. b \in X \ {Comma} /\ b \in X \ {Semi}
  OBVIOUS
<1>. HIDE DEF X, w
<1>3. n \in Seq(X \ {Comma}) /\ n \in Seq(X \ {Semi}) /\ n # <<>>
  BY <1>2
<1>. HIDE DEF n, r
<1>4. Rest(r) = WhileGetline(r, Comma) /\ Pieces(r, Comma) = Cat(<<w>>, Pieces(n, Comma))
  BY <1>3, GluedWords DEF X, w, r, c
<1>5. Pieces(n, Comma) = <<n>>
  BY <1>3, PiecesOne
<1>6. Pieces(r, Comma) = <<w, n>> /\ Last(<<w, n>>) = n
  <2>1. Pieces(r, Comma) = <<w, n>>
    BY <1>4, <1>5, ThreeFields
  <2>. QED BY <2>1 DEF Last
<1>7. Rest(r) = <<w, n>>
  BY <1>3, <1>4, <1>6 DEF WhileGetline
<1>. QED BY <1>1, <1>7 DEF w, n

\* Three words behind the delimiters, the second of any length.
LEMMA GluedTriple ==
  ASSUME NEW a \in Symbols \ {Comma, Semi}, NEW y \in Seq(Symbols \ {Comma, Semi}),
         NEW b \in Symbols \ {Comma, Semi}
  PROVE  Rest(Cat(Cat(WithDelimiters(a), <<Comma>>), Cat(Cat(y, <<Comma>>), <<b>>)))
           = <<WithDelimiters(a), y, <<b>> >>
<1>. DEFINE X == Symbols
            Y == X \ {Semi}
            Z == X \ {Comma}
            w == WithDelimiters(a)
            n == <<b>>
            c == <<Comma>>
            v == Cat(Cat(y, c), n)
            r == Cat(Cat(w, c), v)
<1>1. b \in Z /\ b \in Y /\ Comma \in X /\ Comma \in Y
  BY SymbolsOfLists, Separators
<1>2. y \in Seq(Z) /\ y \in Seq(Y)
  BY SeqMonotonic
<1>. HIDE DEF X, Y, Z, w
<1>3. n \in Seq(Z) /\ n \in Seq(Y) /\ c \in Seq(Y) /\ n # <<>>
  BY <1>1
<1>. HIDE DEF n, c
<1>4. Cat(y, c) \in Seq(Y) /\ v \in Seq(Y)
  BY <1>2, <1>3, CatType
<1>. HIDE DEF v, r
<1>5. Rest(r) = WhileGetline(r, Comma) /\ Pieces(r, Comma) = Cat(<<w>>, Pieces(v, Comma))
  BY <1>4, GluedWords DEF X, Y, w, r, c
<1>6. Pieces(v, Comma) = <<y, n>>
  <2>1. n \in Seq(X)
    BY <1>3, SeqMonotonic DEF Y
  <2>2. Pieces(v, Comma) = Cat(<<y>>, Pieces(n, Comma))
    BY <1>1, <1>2, <2>1, PieceInFront DEF Z, c, v
  <2>3. Pieces(n, Comma) = <<n>>
    BY <1>3, PiecesOne DEF Z
  <2>. QED BY <2>2, <2>3, ThreeFields
<1>7. Pieces(r, Comma) = <<w, y, n>> /\ Last(<<w, y, n>>) = n
  <2>1. Pieces(r, Comma) = <<w, y, n>>
    BY <1>5, <1>6, FieldsInFront
  <2>. QED BY <2>1 DEF Last
<1>8. Rest(r) = <<w, y, n>>
  BY <1>3, <1>5, <1>7 DEF WhileGetline
<1>. QED BY <1>8 DEF r, v, w, n, c

\* A question and a LEAVE are taken for an entry.
LEMMA GluedMistaken ==
  ASSUME NEW m \in {Question, LeaveText}
  PROVE  IsMistaken(Rest(Cat(Between, m)))
<1>. DEFINE X == Symbols \ {Comma, Semi}
            q == Word("QUERYSERVERS")
            l == Word("LEAVE")
            y1 == <<Name(Own), Ip(Own)>>
            y2 == <<Ip(Own)>>
            r1 == Cat(Cat(WithDelimiters(q), <<Comma>>), Cat(Cat(y1, <<Comma>>), <<Port(Own)>>))
            r2 == Cat(Cat(WithDelimiters(l), <<Comma>>), Cat(Cat(y2, <<Comma>>), <<Port(Own)>>))
<1>1. q \in X /\ l \in X /\ Name(Own) \in X /\ Ip(Own) \in X /\ Port(Own) \in X
  BY SymbolsOfLists, SymbolsDiffer
<1>2. Cat(Between, Question) = r1 /\ Cat(Between, LeaveText) = r2
  BY DEF Between, Question, LeaveText, Cat, WithDelimiters
<1>. HIDE DEF X, q, l
<1>3. y1 \in Seq(X) /\ y2 \in Seq(X)
  BY <1>1
<1>. HIDE DEF y1, y2
<1>4. Rest(r1) = <<WithDelimiters(q), y1, <<Port(Own)>> >>
  BY <1>1, <1>3, GluedTriple DEF X
<1>5. Rest(r2) = <<WithDelimiters(l), y2, <<Port(Own)>> >>
  BY <1>1, <1>3, GluedTriple DEF X
<1>6. CASE m = Question
  <2>. DEFINE e == [name |-> WithDelimiters(q), ip |-> y1, port |-> <<Port(Own)>>]
  <2>1. e \in Mistaken
    BY DEF Mistaken, WithDelimiters, q, y1
  <2>2. Rest(Cat(Between, m)) = Fields(e)
    BY <1>2, <1>4, <1>6 DEF Fields
  <2>. QED BY <2>1, <2>2 DEF IsMistaken
<1>7. CASE m = LeaveText
  <2>. DEFINE e == [name |-> WithDelimiters(l), ip |-> y2, port |-> <<Port(Own)>>]
  <2>1. e \in Mistaken
    BY DEF Mistaken, WithDelimiters, l, y2
  <2>2. Rest(Cat(Between, m)) = Fields(e)
    BY <1>2, <1>5, <1>7 DEF Fields
  <2>. QED BY <2>1, <2>2 DEF IsMistaken
<1>. QED BY <1>6, <1>7

\* Without the last of four.
LEMMA FrontOfFour == \A x, y, z, u : Front(<<x, y, z, u>>) = <<x, y, z>>
<1>. TAKE x, y, z, u
<1>. DEFINE S == {x, y, z, u}
            s == <<x, y, z, u>>
            w == <<x, y, z>>
            v == SubSeq(s, 1, 3)
<1>1. /\ s[1] = x /\ s[2] = y /\ s[3] = z /\ Len(s) = 4 /\ x \in S /\ y \in S /\ z \in S
      /\ w \in Seq(S) /\ Len(w) = 3 /\ w[1] = x /\ w[2] = y /\ w[3] = z
  OBVIOUS
<1>. HIDE DEF S, s, w
<1>2. v \in Seq(S) /\ Len(v) = 3 /\ v[1] = x /\ v[2] = y /\ v[3] = z
  BY <1>1
<1>. HIDE DEF v
<1>3. \A i \in 1..3 : i = 1 \/ i = 2 \/ i = 3
  OBVIOUS
<1>4. v = w
  BY <1>1, <1>2, <1>3, SeqEqual
<1>. QED BY <1>1, <1>4 DEF v, w, s, Front

\* The other commands end the process.
LEMMA GluedRefused ==
  ASSUME NEW m \in {<<>>, KeepAlive, StatusResp}
  PROVE  Refused(Rest(Cat(Between, m)))
<1>. DEFINE X == Symbols
            Y == X \ {Semi}
            Z == X \ {Comma}
<1>1. CASE m = <<>>
  <2>1. ETX \in Y /\ STX \in Y /\ ETX \in Z /\ STX \in Z
    BY SymbolsOfLists, SymbolsDiffer
  <2>. HIDE DEF X, Y, Z
  <2>2. Between \in Seq(Y) /\ Between \in Seq(Z) /\ Len(Between) = 2 /\ Between # <<>>
    BY <2>1 DEF Between
  <2>3. Cat(Between, m) = Between
    BY <1>1, <2>2, CatEmpty
  <2>4. Pieces(Between, Comma) = <<Between>> /\ Last(<<Between>>) = Between
    BY <2>2, PiecesOne DEF Z, Last
  <2>5. Rest(Between) = <<Between>>
    <3>1. Rest(Between) = WhileGetline(Between, Comma)
      BY <2>2, OneLine DEF X, Y
    <3>. QED BY <2>2, <2>4, <3>1 DEF WhileGetline
  <2>. QED BY <2>3, <2>5 DEF Refused
<1>2. CASE m = KeepAlive
  <2>1. Word("KEEPALIVE") \in X \ {Comma, Semi} /\ Word("0") \in X \ {Comma, Semi}
    BY SymbolsOfLists, SymbolsDiffer
  <2>2. Rest(Cat(Between, m)) = <<WithDelimiters(Word("KEEPALIVE")), <<Word("0")>> >>
    BY <1>2, <2>1, GluedPair DEF KeepAlive
  <2>. QED BY <2>2 DEF Refused
<1>3. CASE m = StatusResp
  <2>. DEFINE k == Word("STATUSRESP")
              w == WithDelimiters(k)
              n == <<Name(Own)>>
              c == <<Comma>>
              e == <<>>
              u == Cat(Cat(n, c), c)
              r == Cat(Cat(w, c), u)
  <2>1. /\ k \in X \ {Comma, Semi} /\ Name(Own) \in Z /\ Name(Own) \in Y
        /\ Comma \in X /\ Comma \in Y
    BY SymbolsOfLists, SymbolsDiffer, Separators
  <2>2. Cat(Between, m) = r
    BY <1>3 DEF Between, StatusResp, Cat, WithDelimiters
  <2>. HIDE DEF X, Y, Z, k, w
  <2>3. n \in Seq(Z) /\ n \in Seq(Y) /\ c \in Seq(Y) /\ c \in Seq(X) /\ e \in Seq(Z) /\ e \in Seq(X)
    BY <2>1
  <2>4. Pieces(c, Comma) = <<e, e>>
    <3>1. Pieces(Cat(Cat(e, c), e), Comma) = Cat(<<e>>, Pieces(e, Comma))
      BY <2>1, <2>3, PieceInFront DEF Z
    <3>2. Cat(Cat(e, c), e) = c
      BY <2>3, CatEmpty
    <3>. QED BY <3>1, <3>2, PiecesEmpty, ThreeFields
  <2>. HIDE DEF n, e
  <2>5. Pieces(u, Comma) = Cat(<<n>>, <<e, e>>)
    BY <2>1, <2>3, <2>4, PieceInFront DEF Z
  <2>6. u \in Seq(Y)
    BY <2>3, CatType
  <2>. HIDE DEF u, r
  <2>7. Rest(r) = WhileGetline(r, Comma) /\ Pieces(r, Comma) = Cat(<<w>>, Pieces(u, Comma))
    BY <2>1, <2>6, GluedWords DEF X, Y, w, r
  <2>8. Pieces(r, Comma) = <<w, n, e, e>>
    BY <2>5, <2>7, FieldsInFront
  <2>9. Last(<<w, n, e, e>>) = e /\ Front(<<w, n, e, e>>) = <<w, n, e>>
    <3>1. Last(<<w, n, e, e>>) = e
      BY DEF Last
    <3>. QED BY <3>1, FrontOfFour
  <2>10. Rest(r) = <<w, n, e>>
    BY <2>7, <2>8, <2>9 DEF WhileGetline, e
  <2>. QED BY <2>2, <2>10 DEF Refused, IsNumber, e
<1>. QED BY <1>1, <1>2, <1>3

\* What stands behind the entry of a list to which another frame is glued is
\* out of step, or taken for an entry.
LEMMA GluedRest ==
  ASSUME NEW m \in Payloads
  PROVE  OutOfStep(Rest(Cat(Between, m))) \/ IsMistaken(Rest(Cat(Between, m)))
<1>1. CASE m \in Lists
  BY <1>1, GluedLists DEF Lists
<1>2. CASE m \in {<<>>, KeepAlive, StatusResp}
  BY <1>2, GluedRefused DEF OutOfStep, Refused
<1>3. CASE m \in {Question, LeaveText}
  BY <1>3, GluedMistaken
<1>. QED BY <1>1, <1>2, <1>3 DEF Payloads, Others

\* No other frame holds a list.
LEMMA NotListed == \A m \in Others : m \notin Lists
<1>. SUFFICES ASSUME NEW m \in Lists, m \in Others PROVE FALSE
  OBVIOUS
<1>1. PICK e \in PeerEntries, es \in Seq(Listed \cup {Unnamed}) : m = ListMessage(e, es)
  BY DEF Lists
<1>. DEFINE a == <<Word("SERVERS"), Comma>>
            X == Symbols
<1>2. a \in Seq(X) /\ a # <<>> /\ Head(a) = Word("SERVERS")
  BY SymbolsOfLists
<1>3. Body(es) \in Seq(X) /\ EntryText(e) \in Seq(X)
  BY <1>1, ListText, AnyEntriesType, EntryType, SymbolsOfLists DEF AnyEntries
<1>4. m = Cat(Cat(a, EntryText(e)), Body(es))
  BY <1>1, ListText DEF ListHead, Cat
<1>. HIDE DEF a, X
<1>5. /\ Cat(a, EntryText(e)) \in Seq(X) /\ Cat(a, EntryText(e)) # <<>>
      /\ Head(Cat(a, EntryText(e))) = Head(a)
  BY <1>2, <1>3, HeadOfTwo, CatType
<1>6. m # <<>> /\ Head(m) = Head(a)
  BY <1>3, <1>4, <1>5, HeadOfTwo
<1>. QED BY <1>2, <1>6, OtherTexts DEF CommandWord

\* Who lists what.
LEMMA PeerListsAre ==
  ASSUME NEW max, NEW m \in PeerLists(max)
  PROVE  \E e \in Listed \cup {Entry(Own)}, es \in BoundedSeq(Listed \cup {Unnamed}, max) :
           m = ListMessage(e, es)
  BY DEF PeerLists

\* What is in a frame.
LEMMA FramePayload ==
  ASSUME NEW max \in Nat, NEW f \in Frames(max)
  PROVE  \E m \in Payloads :
           /\ f = Cat(Cat(<<STX>>, m), <<ETX>>)
           /\ m \in Lists /\ max = 0 => \E e \in PeerEntries : m = ListMessage(e, <<>>)
<1>1. PICK m \in PeerLists(max) \cup Others : f = ConstructMessage(m)
  BY DEF Frames
<1>2. f = Cat(Cat(<<STX>>, m), <<ETX>>)
  BY <1>1 DEF ConstructMessage, Cat
<1>3. CASE m \in PeerLists(max)
  <2>1. PICK e \in PeerEntries, es \in BoundedSeq(Listed \cup {Unnamed}, max) :
          m = ListMessage(e, es)
    BY <1>3, PeerListsAre DEF PeerEntries
  <2>. DEFINE B == Listed \cup {Unnamed}
  <2>. HIDE DEF B
  <2>2. PICK n \in 0..max : es \in [1..n -> B]
    BY <2>1 DEF BoundedSeq, SeqOf, B
  <2>3. es \in Seq(B)
    BY <2>2
  <2>4. max = 0 => es = <<>>
    BY <2>2
  <2>5. m \in Payloads
    BY <2>1, <2>3 DEF Payloads, Lists, B
  <2>6. max = 0 => m = ListMessage(e, <<>>)
    <3>. DEFINE z == <<>>
    <3>1. max = 0 => es = z
      BY <2>4
    <3>. HIDE DEF z
    <3>2. max = 0 => m = ListMessage(e, z)
      BY <2>1, <3>1
    <3>. QED BY <3>2 DEF z
  <2>. HIDE DEF Cat
  <2>. QED BY <1>2, <2>1, <2>5, <2>6
<1>4. CASE m \in Others
  <2>1. m \in Payloads
    BY <1>4 DEF Payloads
  <2>2. m \notin Lists
    BY <1>4, NotListed
  <2>. QED BY <1>2, <2>1, <2>2
<1>. QED BY <1>3, <1>4

\* Two frames are taken for one, and what is in it has their delimiters inside.
LEMMA TwoFrames ==
  ASSUME NEW m1 \in Payloads, NEW m2 \in Payloads
  PROVE  Contents(Cat(Cat(Cat(<<STX>>, m1), <<ETX>>), Cat(Cat(<<STX>>, m2), <<ETX>>)))
           = Cat(m1, Cat(Between, m2))
<1>. DEFINE X == Symbols
            b == <<STX>>
            e == <<ETX>>
            i == Cat(Between, m2)
            l == Cat(b, m1)
            r == Cat(b, m2)
<1>1. m1 \in Seq(X) /\ m2 \in Seq(X) /\ b \in Seq(X) /\ e \in Seq(X) /\ Between \in Seq(X)
  BY PayloadType, SmallTexts
<1>2. Between = Cat(e, b)
  BY ThreeFields DEF Between
<1>. HIDE DEF X, b, e
<1>3. l \in Seq(X) /\ r \in Seq(X) /\ i \in Seq(X) /\ Cat(l, e) \in Seq(X) /\ Cat(m1, i) \in Seq(X)
  BY <1>1, CatType
<1>. HIDE DEF l, r
<1>4. Cat(Cat(l, e), Cat(r, e)) = Cat(Cat(Cat(l, e), r), e)
  BY <1>1, <1>3, CatAssociative
<1>5. Cat(Cat(l, e), r) = Cat(l, Cat(e, r))
  BY <1>1, <1>3, CatAssociative
<1>6. Cat(e, r) = i
  <2>1. Cat(Cat(e, b), m2) = Cat(e, Cat(b, m2))
    BY <1>1, CatAssociative
  <2>. QED BY <1>2, <2>1 DEF r
<1>. HIDE DEF i
<1>7. Cat(l, i) = Cat(b, Cat(m1, i))
  BY <1>1, <1>3, CatAssociative DEF l
<1>8. Contents(Cat(Cat(b, Cat(m1, i)), e)) = Cat(m1, i)
  <2>. DEFINE m == Cat(m1, i)
  <2>1. m \in Seq(X) /\ STX \in X /\ ETX \in X
    BY <1>3, SymbolsOfLists DEF X
  <2>. HIDE DEF m
  <2>2. Contents(Cat(Cat(<<STX>>, m), <<ETX>>)) = m
    BY <2>1, Unframed
  <2>. QED BY <2>2 DEF m, b, e
<1>. QED BY <1>4, <1>5, <1>6, <1>7, <1>8 DEF l, r, b, e, i

\* Whatever recv() returns: a list that is read from it is in step, or its
\* first entry is complete.
LEMMA MessageRead ==
  ASSUME NEW m \in Messages, IsList(m)
  PROVE  LET fs == ListFields(Contents(m))
         IN  fs \in Seq(Text) /\ (InStep(fs) \/ GoesOut(fs))
<1>0. MaxList \in Nat /\ MaxGlue \in Nat /\ 0 \in Nat
  BY ListsAssumption
<1>1. CASE m \in Frames(MaxList)
  <2>1. PICK p \in Payloads : m = Cat(Cat(<<STX>>, p), <<ETX>>)
    BY <1>0, <1>1, FramePayload
  <2>2. Contents(m) = p
    BY <2>1, Unframed, PayloadType, SymbolsOfLists
  <2>3. p \in Lists
    BY <2>2, OnlyLists DEF IsList, WhileGood
  <2>. QED BY <2>2, <2>3, ListInStep
<1>2. ASSUME NEW f1 \in Frames(0), NEW f2 \in Frames(MaxGlue), m = f1 \o f2
      PROVE  LET fs == ListFields(Contents(m))
             IN  fs \in Seq(Text) /\ (InStep(fs) \/ GoesOut(fs))
  <2>1. PICK m1 \in Payloads :
          /\ f1 = Cat(Cat(<<STX>>, m1), <<ETX>>)
          /\ m1 \in Lists => \E e \in PeerEntries : m1 = ListMessage(e, <<>>)
    BY <1>0, FramePayload
  <2>2. PICK m2 \in Payloads : f2 = Cat(Cat(<<STX>>, m2), <<ETX>>)
    BY <1>0, FramePayload
  <2>. DEFINE r == Cat(Between, m2)
              X == Symbols
  <2>3. Contents(m) = Cat(m1, r)
    <3>1. m = Cat(f1, f2)
      BY <1>2 DEF Cat
    <3>. QED BY <2>1, <2>2, <3>1, TwoFrames
  <2>4. m1 \in Lists
    BY <2>3, GluedList DEF IsList, WhileGood
  <2>5. PICK e \in PeerEntries : m1 = ListMessage(e, <<>>)
    BY <2>1, <2>4
  <2>6. m1 = ListHead(e) /\ r \in Seq(X) /\ e \in ListEntries(Symbols)
    <3>. DEFINE z == <<>>
    <3>1. z \in Seq(Listed \cup {Unnamed})
      OBVIOUS
    <3>2. Body(z) = z
      BY NoEntries
    <3>. HIDE DEF z
    <3>3. ListMessage(e, z) = Cat(ListHead(e), Body(z)) /\ ListHead(e) \in Seq(X)
      BY <3>1, ListText
    <3>4. Cat(ListHead(e), z) = ListHead(e)
      BY <3>3, CatEmpty DEF z
    <3>5. r \in Seq(X)
      BY PayloadType, SmallTexts, CatType
    <3>. QED BY <2>5, <3>2, <3>3, <3>4, <3>5, AnyEntriesType DEF z, AnyEntries
  <2>7. OutOfStep(Rest(r)) \/ IsMistaken(Rest(r))
    BY GluedRest
  <2>. HIDE DEF r
  <2>8. ListFields(Contents(m)) = Cat(Fields(e), Rest(r))
    BY <2>3, <2>6, ListFieldsHead, PeerEntryNamed, SymbolsOfLists
  <2>9. Rest(r) \in Seq(Text)
    BY <2>6, RestType DEF Text, Symbols
  <2>10. Cat(Fields(e), Rest(r)) \in Seq(Text)
    <3>. DEFINE T == Text
    <3>1. e.name \in T /\ e.ip \in T /\ e.port \in T
      BY <2>9, EntryInFront
    <3>2. Rest(r) \in Seq(T)
      BY <2>9
    <3>. HIDE DEF T
    <3>3. Fields(e) \in Seq(T)
      BY <3>1 DEF Fields
    <3>. QED BY <3>2, <3>3, CatType DEF T
  <2>. QED BY <2>7, <2>8, <2>9, <2>10 DEF GoesOut
<1>. QED BY <1>1, <1>2 DEF Messages

-----------------------------------------------------------------------------
(* The tables in the order of their keys. *)

\* Every number up to the size of a finite set is the rank of a member.
LEMMA RankReached ==
  ASSUME NEW D \in SUBSET Int, IsFiniteSet(D), NEW i \in 1..Cardinality(D)
  PROVE  \E f \in D : Rank(f, D) = i
<1>. DEFINE n == Cardinality(D)
            below(f) == {g \in D : g <= f}
            r == [f \in D |-> Rank(f, D)]
<1>1. n \in Nat /\ \A f \in D : IsFiniteSet(below(f)) /\ Cardinality(below(f)) \in Nat
  BY FS_CardinalityType, FS_Subset
<1>2. ASSUME NEW f \in D PROVE Rank(f, D) \in 1..n
  <2>1. below(f) \in SUBSET D /\ f \in below(f)
    OBVIOUS
  <2>. HIDE DEF below
  <2>2. Cardinality(below(f)) <= n /\ Cardinality(below(f)) # 0
    BY <1>1, <2>1, FS_Subset, FS_EmptySet
  <2>3. Rank(f, D) = Cardinality(below(f))
    BY DEF Rank, below
  <2>. HIDE DEF n
  <2>. QED BY <1>1, <2>2, <2>3
<1>3. ASSUME NEW f \in D, NEW g \in D, f < g PROVE Rank(f, D) # Rank(g, D)
  <2>0. f \in Int /\ g \in Int
    OBVIOUS
  <2>1. below(f) \in SUBSET below(g) /\ g \in below(g) /\ g \notin below(f)
    <3>1. ASSUME NEW h \in D, h <= f PROVE h <= g
      <4>1. h \in Int
        OBVIOUS
      <4>. QED BY <1>3, <2>0, <3>1, <4>1
    <3>2. g <= g /\ ~ (g <= f)
      BY <1>3, <2>0
    <3>. QED BY <3>1, <3>2
  <2>2. Rank(f, D) = Cardinality(below(f)) /\ Rank(g, D) = Cardinality(below(g))
    BY DEF Rank
  <2>. HIDE DEF below
  <2>3. Cardinality(below(f)) # Cardinality(below(g))
    BY <1>1, <2>1, FS_Subset
  <2>. QED BY <2>2, <2>3
<1>4. r \in Injection(D, 1..n)
  <2>1. r \in [D -> 1..n]
    BY <1>2
  <2>2. ASSUME NEW f \in D, NEW g \in D, f # g PROVE r[f] # r[g]
    <3>1. f < g \/ g < f
      BY <2>2
    <3>. HIDE DEF n
    <3>. QED BY <1>3, <3>1
  <2>. HIDE DEF r, n
  <2>. QED BY <2>1, <2>2 DEF Injection, IsInjective
<1>5. IsFiniteSet(1..n) /\ Cardinality(1..n) = n
  <2>. HIDE DEF n
  <2>. QED BY <1>1, FS_Interval
<1>6. r \in Surjection(D, 1..n)
  <2>. HIDE DEF r
  <2>. QED BY <1>4, <1>5, FS_Injection
<1>7. PICK f \in D : r[f] = i
  <2>. HIDE DEF r
  <2>. QED BY <1>6 DEF Surjection
<1>. QED BY <1>7

\* So the entries in order are entries of the table.
LEMMA InOrderType ==
  ASSUME NEW t, DOMAIN t \in SUBSET Int, IsFiniteSet(DOMAIN t),
         NEW S, \A f \in DOMAIN t : t[f] \in S
  PROVE  InOrder(t) \in Seq(S)
<1>. DEFINE n == Cardinality(DOMAIN t)
            key(i) == CHOOSE f \in DOMAIN t : Rank(f, DOMAIN t) = i
<1>1. n \in Nat
  BY FS_CardinalityType
<1>2. ASSUME NEW i \in 1..n PROVE t[key(i)] \in S
  <2>1. \E f \in DOMAIN t : Rank(f, DOMAIN t) = i
    BY RankReached
  <2>2. key(i) \in DOMAIN t
    BY <2>1
  <2>. HIDE DEF key
  <2>. QED BY <2>2
<1>3. InOrder(t) = [i \in 1..n |-> t[key(i)]]
  BY DEF InOrder
<1>. HIDE DEF key, n
<1>. QED BY <1>1, <1>2, <1>3

-----------------------------------------------------------------------------
(* The server's own list, read by another instance. *)

\* The reader gives up at some entry.
GivesUp(fs) == \E i \in 0..Len(fs) : Refused(SubSeq(fs, 3 * i + 1, Len(fs)))

\* At an entry with an entry in front.
LEMMA GivesUpLater ==
  ASSUME NEW fs \in Seq(Text), NEW rest \in Seq(Text), GivesUp(rest),
         Len(fs) = Len(rest) + 3, SubSeq(fs, 4, Len(fs)) = rest
  PROVE  GivesUp(fs)
<1>. DEFINE n == Len(fs)
            k == Len(rest)
<1>1. n \in Nat /\ k \in Nat /\ n = k + 3
  OBVIOUS
<1>2. PICK j \in 0..k : Refused(SubSeq(rest, 3 * j + 1, k))
  BY DEF GivesUp
<1>3. SubSeq(rest, 3 * j + 1, k) # <<>>
  BY <1>2 DEF Refused
<1>4. 3 * j + 1 <= k
  <2>. SUFFICES ASSUME ~ 3 * j + 1 <= k PROVE FALSE
    OBVIOUS
  <2>. HIDE DEF k
  <2>1. 3 * j + 1 \in Int /\ k \in Int /\ k < 3 * j + 1
    BY <1>1
  <2>2. SubSeq(rest, 3 * j + 1, k) = <<>>
    BY <2>1, SubSeqEmpty
  <2>. QED BY <1>3, <2>2
<1>5. SubSeq(fs, 3 * (j + 1) + 1, n) = SubSeq(rest, 3 * j + 1, k)
  <2>. DEFINE m == 3 * j + 1
              T == Text
  <2>. HIDE DEF T
  <2>0. fs \in Seq(T)
    BY DEF T
  <2>. HIDE DEF n, k
  <2>1. m \in 1..(n - 4 + 1) /\ k \in 1..(n - 4 + 1) /\ 4 \in 1..n /\ n \in 1..n
    BY <1>1, <1>4
  <2>. HIDE DEF m
  <2>2. SubSeq(SubSeq(fs, 4, n), m, k) = SubSeq(fs, 4 + m - 1, 4 + k - 1)
    BY <2>0, <2>1, SubSeqOfSubSeq DEF n
  <2>3. 4 + m - 1 = 3 * (j + 1) + 1 /\ 4 + k - 1 = n
    BY <1>1, <2>1 DEF m
  <2>. QED BY <2>2, <2>3 DEF m, n
<1>6. j + 1 \in 0..n
  <2>. HIDE DEF n, k
  <2>. QED BY <1>1, <1>4
<1>7. Refused(SubSeq(fs, 3 * (j + 1) + 1, n))
  BY <1>2, <1>5
<1>. QED BY <1>6, <1>7 DEF GivesUp

\* One unnamed entry is enough.
LEMMA UnnamedGivesUp ==
  ASSUME NEW es \in Seq(AnyEntries), \E i \in 1..Len(es) : es[i] = Unnamed
  PROVE  GivesUp(ReadFields(es))
<1>. DEFINE A == AnyEntries
            P == {rs \in Seq(A) : (\E i \in 1..Len(rs) : rs[i] = Unnamed) => GivesUp(ReadFields(rs))}
            z == <<>>
<1>1. z \in P
  <2>. HIDE DEF A
  <2>. QED OBVIOUS
<1>2. ASSUME NEW ds \in Seq(A), NEW e \in A, ds \in P PROVE Cat(<<e>>, ds) \in P
  <2>. DEFINE cs == Cat(<<e>>, ds)
              a == <<e>>
              rest == ReadFields(ds)
              fs == ReadFields(cs)
  <2>1. a \in Seq(A) /\ Len(a) = 1 /\ a[1] = e /\ ds \in Seq(A)
    <3>. HIDE DEF A
    <3>. QED OBVIOUS
  <2>2. cs \in Seq(A) /\ InTurn(a, ds)
    <3>. HIDE DEF A, a
    <3>. QED BY <2>1, CatType, CatMembers DEF a
  <2>3. fs = Cat(EntryFields(e), rest) /\ fs \in Seq(Text) /\ rest \in Seq(Text)
    <3>1. ds \in Seq(ListEntries(Symbols)) /\ e \in ListEntries(Symbols)
      BY AnyEntriesType
    <3>2. fs = Cat(EntryFields(e), rest)
      BY <3>1, ReadHead, SymbolsOfLists
    <3>3. fs \in Seq(Text) /\ rest \in Seq(Text)
      BY <2>2, ReadType
    <3>. QED BY <3>2, <3>3
  <2>4. ASSUME \E i \in 1..Len(cs) : cs[i] = Unnamed PROVE GivesUp(fs)
    <3>1. CASE e = Unnamed
      <4>1. Len(fs) >= 3 => ~ IsNumber(fs[3])
        BY <2>3, <3>1, AfterUnnamed
      <4>2. fs # <<>>
        <5>. DEFINE zz == << <<>>, <<>> >>
                    T == Text
        <5>1. fs = Cat(zz, rest) /\ zz \in Seq(T) /\ Len(zz) = 2
          <6>1. fs = Cat(zz, rest)
            BY <2>3, <3>1 DEF EntryFields
          <6>2. z \in T
            BY DEF Text
          <6>. HIDE DEF T
          <6>3. zz \in Seq(T) /\ Len(zz) = 2
            BY <6>2
          <6>. QED BY <6>1, <6>3
        <5>. HIDE DEF zz
        <5>2. InTurn(zz, rest)
          BY <2>3, <5>1, CatMembers
        <5>. HIDE DEF fs, rest
        <5>3. Len(fs) = 2 + Len(rest)
          BY <5>1, <5>2 DEF InTurn
        <5>4. Len(rest) \in Nat
          BY <2>3
        <5>. QED BY <5>3, <5>4
      <4>3. Refused(fs)
        BY <4>1, <4>2 DEF Refused
      <4>. HIDE DEF fs
      <4>4. SubSeq(fs, 1, Len(fs)) = fs /\ Len(fs) \in Nat
        BY <2>3, SubSeqFull
      <4>5. 3 * 0 + 1 = 1 /\ 0 \in 0..Len(fs)
        BY <4>4
      <4>6. Refused(SubSeq(fs, 3 * 0 + 1, Len(fs)))
        BY <4>3, <4>4, <4>5
      <4>. QED BY <4>5, <4>6 DEF GivesUp
    <3>2. CASE e \in PeerEntries
      <4>1. PICK i \in 1..Len(cs) : cs[i] = Unnamed
        BY <2>4
      <4>2. Len(cs) = Len(ds) + 1 /\ cs[1] = e /\ Len(ds) \in Nat
        <5>1. Len(ds) \in Nat
          BY LenProperties
        <5>2. Len(cs) = Len(a) + Len(ds) /\ cs[1] = a[1]
          BY <2>1, <2>2 DEF InTurn
        <5>. HIDE DEF cs, a
        <5>. QED BY <2>1, <5>1, <5>2
      <4>3. i # 1
        BY <3>2, <4>1, <4>2, PeerEntryNamed
      <4>. DEFINE k == i - 1
      <4>. HIDE DEF cs
      <4>4. k \in 1..Len(ds) /\ 1 + k = i
        BY <4>2, <4>3
      <4>. HIDE DEF k
      <4>5. cs[1 + k] = ds[k]
        BY <2>1, <2>2, <4>4 DEF InTurn, cs
      <4>6. ds[k] = Unnamed
        BY <4>1, <4>4, <4>5
      <4>7. GivesUp(rest)
        BY <1>2, <4>4, <4>6
      <4>8. Complete(fs, e.name, e.ip, e.port, rest)
        <5>1. fs = Cat(Fields(e), rest)
          BY <2>3, <3>2, PeerEntryNamed
        <5>. QED BY <2>3, <3>2, <5>1, EntryInFront
      <4>. HIDE DEF fs, rest
      <4>. QED BY <2>3, <4>7, <4>8, GivesUpLater DEF Complete
    <3>. QED BY <3>1, <3>2 DEF AnyEntries
  <2>. HIDE DEF A
  <2>. QED BY <2>2, <2>4
<1>3. es \in P
  <2>. HIDE DEF P
  <2>0. es \in Seq(A)
    OBVIOUS
  <2>. HIDE DEF A
  <2>1. \A rs \in Seq(A), e \in A : rs \in P => <<e>> \o rs \in P
    BY <1>2 DEF Cat
  <2>2. \A rs \in Seq(A) : rs \in P
    BY <1>1, <2>1, HeadInduction DEF z
  <2>. QED BY <2>0, <2>2
<1>. QED BY <1>3

-----------------------------------------------------------------------------
(* The tables and the list that is being read. *)

TablesClean ==
  /\ \A f \in DOMAIN servers : servers[f] \in Listed \cup {Unnamed}
  /\ \A f \in DOMAIN stored_servers : stored_servers[f] \in Listed \cup Mistaken

\* While the tables hold only what peers listed, the list may still be in step;
\* once they may not, it is out of step and is not read to its end.
FieldsInv ==
  /\ ListsTypeOK
  /\ status = "running" =>
       \/ OutOfStep(todo)
       \/ /\ InStep(todo) \/ GoesOut(todo) \/ (IsMistaken(todo) /\ ~ first)
          /\ TablesClean

\* The entries of a table, all of one kind.
Holds(t, S) == \A f \in DOMAIN t : t[f] \in S

\* They stay of their kind when some are erased,
LEMMA DropHolds ==
  ASSUME NEW t, NEW S, Holds(t, S), NEW F
  PROVE  DOMAIN Drop(t, F) \subseteq DOMAIN t /\ Holds(Drop(t, F), S)
<1>1. DOMAIN Drop(t, F) \subseteq DOMAIN t /\ \A g \in DOMAIN Drop(t, F) : Drop(t, F)[g] = t[g]
  BY DEF Drop
<1>. QED BY <1>1 DEF Holds

\* and when one is put in.
LEMMA PutHolds ==
  ASSUME NEW t, NEW S, Holds(t, S), NEW f, NEW e \in S
  PROVE  DOMAIN Put(t, f, e) = DOMAIN t \cup {f} /\ Holds(Put(t, f, e), S)
<1>1. DOMAIN Put(t, f, e) = DOMAIN t \cup {f}
  BY DEF Put
<1>2. ASSUME NEW g \in DOMAIN t \cup {f} PROVE Put(t, f, e)[g] \in S
  BY <1>2 DEF Put, Holds
<1>. QED BY <1>1, <1>2 DEF Holds

\* What entries are of.
LEMMA ListedType ==
  /\ Listed \subseteq PeerEntries /\ Listed \cup {Unnamed} \subseteq Entries
  /\ PeerEntries \subseteq Entries
  /\ \A e \in PeerEntries : e.name # <<Name(Own)>> => e \in Listed
<1>1. ASSUME NEW e \in PeerEntries PROVE e \in Entries
  <2>1. e.name \in Text /\ e.ip \in Text /\ e.port \in Text
    <3>. DEFINE z == <<>>
    <3>1. z \in Seq(Text)
      OBVIOUS
    <3>. QED BY <3>1, EntryInFront
  <2>2. PICK g \in Group \cup {Own} : e = Entry(g) \/ e = Portless(g)
    BY PeerEntry
  <2>3. e = [name |-> e.name, ip |-> e.ip, port |-> e.port]
    BY <2>2 DEF Entry, Portless
  <2>. QED BY <2>1, <2>3 DEF Entries
<1>2. Unnamed \in Entries
  <2>. DEFINE z == <<>>
  <2>1. z \in Text
    BY DEF Text
  <2>. HIDE DEF z
  <2>2. [name |-> z, ip |-> z, port |-> z] \in Entries
    BY <2>1 DEF Entries
  <2>. QED BY <2>2 DEF Unnamed, z
<1>3. ASSUME NEW e \in PeerEntries, e \notin Listed PROVE e.name = <<Name(Own)>>
  <2>1. e = Entry(Own)
    BY <1>3 DEF PeerEntries
  <2>. QED BY <2>1, GroupEntry
<1>. QED BY <1>1, <1>2, <1>3 DEF PeerEntries

\* A list that is read to its end has been in step.
LEMMA EmptyIsInStep == InStep(<<>>) /\ ~ OutOfStep(<<>>)
<1>. DEFINE z == <<>>
<1>1. z \in Seq(AnyEntries)
  OBVIOUS
<1>2. ReadFields(z) = z
  BY NoEntries
<1>. HIDE DEF z
<1>3. InStep(z) /\ ~ (z # z)
  BY <1>1, <1>2 DEF InStep
<1>. QED BY <1>3 DEF OutOfStep, z

\* What the next descriptor is of.
LEMMA NextFdsType == NextFds \subseteq Fd \cup {NoFd} /\ (Free # {} => NextFds \subseteq Fd)
  BY DEF NextFds, Free

\* The initial state satisfies the inductive invariant.
LEMMA FieldsInit == ListsInit => FieldsInv
<1>. SUFFICES ASSUME ListsInit PROVE FieldsInv
  OBVIOUS
<1>1. DOMAIN servers = {} /\ DOMAIN stored_servers = {}
  BY DEF ListsInit
<1>2. TablesClean
  BY <1>1 DEF TablesClean
<1>3. todo = <<>> /\ todo \in Seq(Text)
  BY DEF ListsInit
<1>4. ListsTypeOK
  BY <1>1, <1>3 DEF ListsInit, ListsTypeOK
<1>. QED BY <1>2, <1>3, <1>4, EmptyIsInStep DEF FieldsInv

\* So does every state behind a step of a peer, an erasure and the end of a round,
LEMMA FieldsPeers == ASSUME FieldsInv, ListPeers \/ Erase \/ NextRound PROVE FieldsInv'
<1>. DEFINE B == Listed \cup {Unnamed}
<1>1. ASSUME status = "running", todo = <<>>, status' = status, todo' = todo, first' = first,
             stored_servers' = stored_servers, stored_names' = stored_names,
             opened' \subseteq Fd, conns' \subseteq opened', stale' \subseteq Fd, gone' \subseteq stale',
             DOMAIN servers' \subseteq Fd \cup {NoFd}, Holds(servers', B)
      PROVE  FieldsInv'
  <2>1. \A f \in DOMAIN servers' : servers'[f] \in Entries
    BY <1>1, ListedType DEF Holds
  <2>2. ListsTypeOK'
    BY <1>1, <2>1 DEF FieldsInv, ListsTypeOK
  <2>3. TablesClean
    BY <1>1, EmptyIsInStep DEF FieldsInv
  <2>4. TablesClean'
    BY <1>1, <2>3 DEF TablesClean, Holds
  <2>5. InStep(todo')
    BY <1>1, EmptyIsInStep
  <2>. QED BY <2>2, <2>4, <2>5 DEF FieldsInv
<1>2. ASSUME Idle PROVE Holds(servers, B)
  BY <1>2, EmptyIsInStep DEF FieldsInv, Idle, TablesClean, Holds
<1>3. /\ opened \subseteq Fd /\ conns \subseteq opened /\ stale \subseteq Fd /\ gone \subseteq stale
      /\ DOMAIN servers \subseteq Fd \cup {NoFd} /\ Unnamed \in B
  BY DEF FieldsInv, ListsTypeOK
<1>. HIDE DEF B
<1>4. CASE AcceptPeer
  <2>1. PICK f \in NextFds :
          /\ opened' = opened \cup {f} /\ conns' = conns \cup {f}
          /\ servers' = Put(servers, f, Unnamed)
    BY <1>4 DEF AcceptPeer
  <2>2. f \in Fd /\ Idle
    BY <1>4, NextFdsType DEF AcceptPeer
  <2>3. DOMAIN servers' = DOMAIN servers \cup {f} /\ Holds(servers', B)
    BY <1>2, <1>3, <2>1, <2>2, PutHolds
  <2>4. /\ status = "running" /\ todo = <<>> /\ status' = status /\ todo' = todo /\ first' = first
        /\ stored_servers' = stored_servers /\ stored_names' = stored_names
        /\ stale' = stale /\ gone' = gone
    BY <1>4, <2>2 DEF AcceptPeer, Idle, reading, passes
  <2>. QED BY <1>1, <1>3, <2>1, <2>2, <2>3, <2>4
<1>5. ASSUME NEW f \in Fd, PeerLeaves(f) PROVE FieldsInv'
  BY <1>1, <1>2, <1>3, <1>5 DEF PeerLeaves, Idle, reading, tables
<1>6. CASE Erase
  <2>1. DOMAIN servers' \subseteq DOMAIN servers /\ Holds(servers', B)
    BY <1>2, <1>6, DropHolds DEF Erase
  <2>. QED BY <1>1, <1>3, <1>6, <2>1 DEF Erase, Idle, reading, kernel, passes
<1>7. CASE NextRound
  BY <1>1, <1>2, <1>3, <1>7 DEF NextRound, Idle, reading, kernel, tables
<1>. QED BY <1>4, <1>5, <1>6, <1>7 DEF ListPeers

\* behind a message,
LEMMA FieldsReceive ==
  ASSUME FieldsInv, NEW f \in Fd, NEW m \in Messages, Receive(f, m)
  PROVE  FieldsInv'
<1>1. TablesClean /\ Idle
  BY EmptyIsInStep DEF FieldsInv, Receive, Idle
<1>2. TablesClean'
  BY <1>1 DEF TablesClean, Receive, tables
<1>3. /\ opened' \subseteq Fd /\ conns' \subseteq opened' /\ stale' \subseteq Fd /\ gone' \subseteq stale'
      /\ UNCHANGED tables /\ status' = status
  BY DEF FieldsInv, ListsTypeOK, Receive, ServerCommand
<1>4. CASE ValidMessage(m) /\ IsList(m)
  <2>1. todo' = ListFields(Contents(m)) /\ first' = TRUE
    BY <1>4 DEF Receive, ServerCommand
  <2>2. todo' \in Seq(Text) /\ (InStep(todo') \/ GoesOut(todo'))
    BY <1>4, <2>1, MessageRead
  <2>3. ListsTypeOK'
    BY <1>3, <2>1, <2>2 DEF FieldsInv, ListsTypeOK, tables
  <2>. QED BY <1>2, <2>2, <2>3 DEF FieldsInv
<1>5. CASE ~ (ValidMessage(m) /\ IsList(m))
  <2>1. todo' = todo /\ first' = first
    BY <1>5 DEF Receive, ServerCommand, reading
  <2>2. ListsTypeOK'
    BY <1>3, <2>1 DEF FieldsInv, ListsTypeOK, tables
  <2>3. InStep(todo')
    BY <1>1, <2>1, EmptyIsInStep DEF Idle
  <2>. QED BY <1>2, <2>2, <2>3 DEF FieldsInv
<1>. QED BY <1>4, <1>5

\* Three fields are taken off.
LEMMA RestOfList ==
  ASSUME NEW S, NEW fs \in Seq(S), Len(fs) >= 3
  PROVE  fs[1] \in S /\ fs[2] \in S /\ fs[3] \in S /\ SubSeq(fs, 4, Len(fs)) \in Seq(S)
<1>1. Len(fs) \in Nat /\ \A i \in 1..Len(fs) : fs[i] \in S
  BY LenProperties, ElementOfSeq
<1>2. SubSeq(fs, 4, Len(fs)) \in Seq(S)
  BY <1>1
<1>. QED BY <1>1, <1>2

\* behind an entry that is read,
LEMMA FieldsReadEntry == ASSUME FieldsInv, ReadEntry PROVE FieldsInv'
<1>. DEFINE e == [name |-> todo[1], ip |-> todo[2], port |-> todo[3]]
            rest == SubSeq(todo, 4, Len(todo))
<1>1. /\ status = "running" /\ status' = status /\ Len(todo) >= 3 /\ IsNumber(todo[3])
      /\ todo' = rest /\ first' = FALSE /\ conns' = conns /\ stale' = stale /\ gone' = gone
  BY DEF ReadEntry, passes
<1>2. PICK sock \in NextFds :
        /\ opened' = opened \cup ({sock} \ {NoFd})
        /\ servers' = IF New(e) /\ first THEN Put(servers, sock, e) ELSE servers
        /\ stored_servers' = IF New(e) /\ ~ first THEN Put(stored_servers, sock, e)
                                                  ELSE stored_servers
        /\ stored_names' = IF New(e) /\ ~ first THEN stored_names \cup {e.name} ELSE stored_names
  BY DEF ReadEntry
<1>3. todo \in Seq(Text) /\ sock \in Fd \cup {NoFd}
  BY NextFdsType DEF FieldsInv, ListsTypeOK
<1>4. todo[1] \in Text /\ todo[2] \in Text /\ todo[3] \in Text /\ rest \in Seq(Text)
  <2>. DEFINE T == Text
  <2>. HIDE DEF T
  <2>. QED BY <1>1, <1>3, RestOfList DEF T
<1>5. e \in Entries /\ e.name \in Text
  BY <1>4 DEF Entries
<1>. HIDE DEF rest
<1>6. ListsTypeOK'
  <2>1. Holds(servers, Entries) /\ Holds(stored_servers, Entries)
    BY DEF FieldsInv, ListsTypeOK, Holds
  <2>. HIDE DEF e
  <2>2. /\ servers' = servers \/ servers' = Put(servers, sock, e)
        /\ stored_servers' = stored_servers \/ stored_servers' = Put(stored_servers, sock, e)
        /\ stored_names' = stored_names \/ stored_names' = stored_names \cup {e.name}
    BY <1>2
  <2>3. /\ DOMAIN servers' \subseteq DOMAIN servers \cup {sock} /\ Holds(servers', Entries)
        /\ DOMAIN stored_servers' \subseteq DOMAIN stored_servers \cup {sock}
        /\ Holds(stored_servers', Entries)
    <3>1. /\ DOMAIN Put(servers, sock, e) = DOMAIN servers \cup {sock}
          /\ Holds(Put(servers, sock, e), Entries)
      BY <1>5, <2>1, PutHolds
    <3>2. /\ DOMAIN Put(stored_servers, sock, e) = DOMAIN stored_servers \cup {sock}
          /\ Holds(Put(stored_servers, sock, e), Entries)
      BY <1>5, <2>1, PutHolds
    <3>. QED BY <2>1, <2>2, <3>1, <3>2
  <2>4. opened' \subseteq Fd /\ conns' \subseteq opened' /\ stale' \subseteq Fd /\ gone' \subseteq stale'
    BY <1>1, <1>2, <1>3 DEF FieldsInv, ListsTypeOK
  <2>5. stored_names' \subseteq Text
    BY <1>5, <2>2 DEF FieldsInv, ListsTypeOK
  <2>6. /\ DOMAIN servers' \subseteq Fd \cup {NoFd} /\ DOMAIN stored_servers' \subseteq Fd \cup {NoFd}
    BY <1>3, <2>3 DEF FieldsInv, ListsTypeOK
  <2>7. status' \in {"running", "crashed"} /\ todo' \in Seq(Text) /\ first' \in BOOLEAN
    BY <1>1, <1>4
  <2>. QED BY <2>3, <2>4, <2>5, <2>6, <2>7 DEF ListsTypeOK, Holds
<1>7. ASSUME NEW d \in PeerEntries \cup Mistaken, Complete(todo, d.name, d.ip, d.port, rest),
             d \in PeerEntries \/ ~ first, TablesClean
      PROVE  TablesClean'
  <2>1. e = d
    <3>1. d = [name |-> d.name, ip |-> d.ip, port |-> d.port]
      <4>1. CASE d \in PeerEntries
        <5>1. PICK g \in Group \cup {Own} : d = Entry(g) \/ d = Portless(g)
          BY <4>1, PeerEntry
        <5>. QED BY <5>1 DEF Entry, Portless
      <4>2. CASE d \in Mistaken
        BY <4>2 DEF Mistaken
      <4>. QED BY <1>7, <4>1, <4>2
    <3>. QED BY <1>7, <3>1 DEF Complete
  <2>. DEFINE B == Listed \cup {Unnamed}
              D == Listed \cup Mistaken
  <2>2. New(e) => e \in D /\ (first => e \in B)
    <3>. HIDE DEF e
    <3>. QED BY <1>7, <2>1, ListedType DEF New
  <2>3. Holds(servers, B) /\ Holds(stored_servers, D)
    BY <1>7 DEF TablesClean, Holds
  <2>. HIDE DEF e, B, D
  <2>4. /\ servers' = servers \/ (e \in B /\ servers' = Put(servers, sock, e))
        /\ \/ stored_servers' = stored_servers
           \/ e \in D /\ stored_servers' = Put(stored_servers, sock, e)
    BY <1>2, <2>2
  <2>5. Holds(servers', B) /\ Holds(stored_servers', D)
    <3>1. e \in B => Holds(Put(servers, sock, e), B)
      BY <2>3, PutHolds
    <3>2. e \in D => Holds(Put(stored_servers, sock, e), D)
      BY <2>3, PutHolds
    <3>. QED BY <2>3, <2>4, <3>1, <3>2
  <2>. QED BY <2>5 DEF TablesClean, Holds, B, D
<1>8. \/ OutOfStep(todo')
      \/ /\ InStep(todo') \/ GoesOut(todo') \/ (IsMistaken(todo') /\ ~ first')
         /\ TablesClean'
  <2>1. CASE OutOfStep(todo)
    <3>1. OutOfStep(rest)
      BY <1>1, <1>3, <2>1, ReadsOutOfStep DEF rest
    <3>. QED BY <1>1, <3>1
  <2>2. CASE InStep(todo) /\ TablesClean
    <3>1. PICK d \in PeerEntries :
            \E more : InStep(more) /\ Complete(todo, d.name, d.ip, d.port, more)
      BY <1>1, <2>2, ReadsInStep
    <3>2. PICK more : InStep(more) /\ Complete(todo, d.name, d.ip, d.port, more)
      BY <3>1
    <3>3. more = rest
      BY <3>2 DEF Complete, rest
    <3>. QED BY <1>1, <1>7, <2>2, <3>2, <3>3
  <2>3. CASE GoesOut(todo) /\ TablesClean
    <3>1. PICK d \in PeerEntries, more \in Seq(Text) :
            (OutOfStep(more) \/ IsMistaken(more)) /\ todo = Cat(Fields(d), more)
      BY <2>3, Zenon DEF GoesOut
    <3>2. Complete(todo, d.name, d.ip, d.port, more)
      BY <3>1, EntryInFront
    <3>3. more = rest
      BY <3>2 DEF Complete, rest
    <3>. QED BY <1>1, <1>7, <2>3, <3>1, <3>2, <3>3
  <2>4. CASE IsMistaken(todo) /\ ~ first /\ TablesClean
    <3>1. PICK d \in Mistaken : todo = Fields(d)
      BY <2>4 DEF IsMistaken
    <3>2. Complete(todo, d.name, d.ip, d.port, rest) /\ rest = <<>>
      <4>1. Len(todo) = 3 /\ todo[1] = d.name /\ todo[2] = d.ip /\ todo[3] = d.port
        BY <3>1 DEF Fields
      <4>. DEFINE T == Text
                  z == <<>>
      <4>. HIDE DEF T
      <4>2. SubSeq(todo, 4, 3) = z
        BY <1>3 DEF T
      <4>3. rest = z /\ Len(z) = 0
        BY <4>1, <4>2 DEF rest
      <4>. QED BY <4>1, <4>3 DEF Complete, rest
    <3>. QED BY <1>1, <1>7, <2>4, <3>2, EmptyIsInStep
  <2>. QED BY <1>1, <2>1, <2>2, <2>3, <2>4 DEF FieldsInv
<1>. QED BY <1>6, <1>8 DEF FieldsInv

\* and behind every other step.
LEMMA FieldsStep == FieldsInv /\ [ListsNext]_listvars => FieldsInv'
<1>. SUFFICES ASSUME FieldsInv, [ListsNext]_listvars PROVE FieldsInv'
  OBVIOUS
<1>1. ASSUME UNCHANGED <<tables, kernel, passes, reading>>, status' = status \/ status' = "crashed"
      PROVE  FieldsInv'
  <2>. USE <1>1 DEF tables, kernel, passes, reading
  <2>1. ListsTypeOK'
    BY DEF FieldsInv, ListsTypeOK
  <2>2. TablesClean' = TablesClean /\ todo' = todo /\ first' = first /\ (status' = "running" => status = "running")
    BY DEF TablesClean
  <2>. QED BY <2>1, <2>2 DEF FieldsInv
<1>2. ASSUME NEW m, ClientCommand(m) PROVE FieldsInv'
  BY <1>1, <1>2 DEF ClientCommand
<1>3. CASE Dead \/ UNCHANGED listvars
  BY <1>1, <1>3 DEF Dead, listvars
<1>4. CASE ReadEntryFails
  <2>1. todo' \in Seq(Text) /\ status' = "crashed"
    <3>. DEFINE z == <<>>
    <3>1. z \in Seq(Text)
      OBVIOUS
    <3>. QED BY <1>4, <3>1 DEF ReadEntryFails
  <2>2. ListsTypeOK'
    <3>1. UNCHANGED <<tables, kernel, passes>> /\ first' = FALSE
      BY <1>4 DEF ReadEntryFails
    <3>. QED BY <2>1, <3>1 DEF tables, kernel, passes, FieldsInv, ListsTypeOK
  <2>. QED BY <2>1, <2>2 DEF FieldsInv
<1>. QED BY <1>2, <1>3, <1>4, FieldsPeers, FieldsReceive, FieldsReadEntry DEF ListsNext, Server

\* The inductive invariant of what is kept.
THEOREM FieldsInvariant == ListsSpec => []FieldsInv
  BY FieldsInit, FieldsStep, PTL DEF ListsSpec

\* The tables are keyed by descriptors or by -1, and hold strings.
THEOREM ListsTypeCorrect == ListsSpec => []ListsTypeOK
<1>1. FieldsInv => ListsTypeOK
  BY DEF FieldsInv
<1>. QED BY <1>1, FieldsInvariant, PTL

\* A server that has survived a list has kept only what peers listed and whole
\* commands, whatever unnamed entries the list had and whatever was glued to it.
THEOREM ListsKeptAsListed == ListsSpec => []KeptAsListed
<1>1. FieldsInv => KeptAsListed
  BY EmptyIsInStep DEF FieldsInv, KeptAsListed, Idle, TablesClean
<1>. QED BY <1>1, FieldsInvariant, PTL

\* The server's own answer reads back as its table, or is given up.
LEMMA OwnAnswer == FieldsInv => OwnListReadsBack
<1>. SUFFICES ASSUME FieldsInv, Idle
              PROVE  LET es == InOrder(servers)
                         fs == ListFields(ServersAnswer)
                     IN  IF \A i \in 1..Len(es) : es[i] # Unnamed
                         THEN fs = AllFields(<<Entry(Own)>> \o es)
                         ELSE \E i \in 0..Len(fs) : Refused(SubSeq(fs, 3 * i + 1, Len(fs)))
  BY DEF OwnListReadsBack
<1>. DEFINE es == InOrder(servers)
            fs == ListFields(ServersAnswer)
            own == Entry(Own)
            ds == Cat(<<own>>, es)
            B == Listed \cup {Unnamed}
            A == AnyEntries
<1>1. es \in Seq(B)
  <2>1. \A f \in DOMAIN servers : servers[f] \in B
    BY EmptyIsInStep DEF FieldsInv, Idle, TablesClean
  <2>2. DOMAIN servers \in SUBSET (Fd \cup {NoFd})
    BY DEF FieldsInv, ListsTypeOK
  <2>3. DOMAIN servers \in SUBSET Int /\ IsFiniteSet(DOMAIN servers)
    <3>1. IsFiniteSet(Fd \cup {NoFd}) /\ Fd \cup {NoFd} \in SUBSET Int
      BY ListsAssumption, FS_AddElement DEF NoFd
    <3>. QED BY <2>2, <3>1, FS_Subset
  <2>. HIDE DEF B
  <2>. QED BY <2>1, <2>3, InOrderType
<1>2. es \in Seq(A) /\ B \subseteq A /\ own \in PeerEntries /\ own \in A
  <2>1. B \subseteq A /\ own \in PeerEntries /\ own \in A
    BY DEF AnyEntries, PeerEntries
  <2>. HIDE DEF A, B, es
  <2>. QED BY <1>1, <2>1, SeqMonotonic
<1>. HIDE DEF es, own
<1>3. ds \in Seq(A) /\ InTurn(<<own>>, es) /\ Len(es) \in Nat
  <2>. HIDE DEF A, B
  <2>. DEFINE a == <<own>>
  <2>1. a \in Seq(A) /\ Len(es) \in Nat
    BY <1>2
  <2>. HIDE DEF a
  <2>2. Cat(a, es) \in Seq(A) /\ InTurn(a, es)
    BY <1>2, <2>1, CatType, CatMembers
  <2>. QED BY <2>1, <2>2 DEF a
<1>4. fs = ReadFields(ds)
  <2>1. es \in Seq(ListEntries(Symbols)) /\ own \in NamedEntries(Symbols)
    BY <1>2, AnyEntriesType, PeerEntryNamed
  <2>2. own \in ListEntries(Symbols)
    BY <2>1 DEF ListEntries
  <2>3. fs = Cat(Fields(own), ReadFields(es))
    <3>1. ServersAnswer = ListMessage(own, es)
      BY DEF ServersAnswer, own, es
    <3>2. ListFields(ListMessage(own, es)) = Fields(own) \o ReadFields(es)
      BY <2>1, SymbolsOfLists, ListReadsBack
    <3>. QED BY <3>1, <3>2 DEF Cat
  <2>4. ReadFields(ds) = Cat(EntryFields(own), ReadFields(es))
    BY <2>1, <2>2, SymbolsOfLists, ReadHead
  <2>. QED BY <1>2, <2>3, <2>4, PeerEntryNamed
<1>. HIDE DEF fs
<1>5. Len(ds) = Len(es) + 1 /\ ds[1] = own /\ \A i \in 1..Len(es) : ds[1 + i] = es[i]
  <2>1. Len(<<own>>) = 1 /\ <<own>>[1] = own
    OBVIOUS
  <2>. DEFINE a == <<own>>
  <2>. HIDE DEF a
  <2>2. /\ Len(Cat(a, es)) = 1 + Len(es) /\ Cat(a, es)[1] = own
        /\ \A i \in 1..Len(es) : Cat(a, es)[1 + i] = es[i]
    BY <1>3, <2>1 DEF InTurn, a
  <2>. QED BY <1>3, <2>2 DEF a
<1>6. ASSUME \A i \in 1..Len(es) : es[i] # Unnamed PROVE fs = AllFields(<<own>> \o es)
  <2>. HIDE DEF ds
  <2>1. ASSUME NEW j \in 1..Len(ds) PROVE Fields(ds[j]) = EntryFields(ds[j])
    <3>1. CASE j = 1
      BY <1>2, <1>5, <3>1, PeerEntryNamed
    <3>2. CASE j # 1
      <4>. DEFINE k == j - 1
      <4>1. k \in 1..Len(es) /\ 1 + k = j
        BY <1>3, <1>5, <3>2
      <4>. HIDE DEF k
      <4>2. ds[j] = es[k] /\ es[k] \in A /\ es[k] # Unnamed
        BY <1>2, <1>5, <1>6, <4>1, ElementOfSeq
      <4>. QED BY <4>2, PeerEntryNamed DEF AnyEntries
    <3>. QED BY <3>1, <3>2
  <2>2. [j \in 1..Len(ds) |-> Fields(ds[j])] = [j \in 1..Len(ds) |-> EntryFields(ds[j])]
    BY <2>1
  <2>3. AllFields(ds) = ReadFields(ds)
    BY <2>2 DEF AllFields, ReadFields
  <2>. QED BY <1>4, <2>3 DEF ds, Cat
<1>7. ASSUME ~ \A i \in 1..Len(es) : es[i] # Unnamed PROVE GivesUp(fs)
  <2>1. PICK i \in 1..Len(es) : es[i] = Unnamed
    BY <1>7
  <2>. HIDE DEF ds
  <2>2. 1 + i \in 1..Len(ds) /\ ds[1 + i] = Unnamed
    BY <1>3, <1>5, <2>1
  <2>. QED BY <1>3, <1>4, <2>2, UnnamedGivesUp
<1>. QED BY <1>6, <1>7 DEF GivesUp, es, fs, own

\* What QUERYSERVERS is answered comes out in its places when every entry has
\* a name; otherwise the reader gives up at some entry.
THEOREM ListsOwnReadBack == ListsSpec => []OwnListReadsBack
  BY FieldsInvariant, OwnAnswer, PTL
=============================================================================
