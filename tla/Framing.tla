------------------------------ MODULE Framing ------------------------------
(***************************************************************************)
(* The conversions of the chat programs, as they are in server.cpp and     *)
(* client.cpp of project3: frames, tokens, and lists of servers.           *)
(*                                                                         *)
(* A string is a sequence of symbols.  A symbol is one byte the code looks *)
(* at, or a word of two or more bytes that it only compares and copies; it *)
(* is a pair, of its kind and of the group it belongs to.                  *)
(***************************************************************************)
EXTENDS Integers, SequencesExt

Byte(c) == <<c, "">>

STX   == Byte("STX")
ETX   == Byte("ETX")
Comma == Byte(",")
Semi  == Byte(";")
NL    == Byte("NL")

OneByte == {STX, ETX, Comma, Semi, NL}

\* Words: commands, and what the lists hold of a group.  "-1" is the port of
\* a group that has none.
Word(w)  == <<w, "">>
Name(g)  == <<"name", g>>
Ip(g)    == <<"ip", g>>
Port(g)  == <<"port", g>>
NoPort   == Word("-1")

Symbol(G) == OneByte
             \cup {Word(w) : w \in {"SERVERS", "QUERYSERVERS", "KEEPALIVE", "STATUSRESP",
                                     "LEAVE", "STORED", "cut", "-1", "0"}}
             \cup {Name(g) : g \in G} \cup {Ip(g) : g \in G} \cup {Port(g) : g \in G}

-----------------------------------------------------------------------------
ConstructMessage(m) == <<STX>> \o m \o <<ETX>>

\* Byte 0 of the zero-filled buffer is not STX when nothing was received.
ValidMessage(b) == b # <<>> /\ Head(b) = STX /\ Last(b) = ETX

\* erase(0, 1), then erase(size() - 1).
Contents(b) == SubSeq(b, 2, Len(b) - 1)

\* One byte more: a separator ends the last piece, another byte belongs to it.
WithByte(ps, x, c) ==
  IF x = c THEN Append(ps, <<>>) ELSE [ps EXCEPT ![Len(ps)] = Append(@, x)]

\* The pieces of s between the separators: one more than there are separators.
Pieces(s, c) ==
  LET upto[i \in 0..Len(s)] ==
        IF i = 0 THEN << <<>> >> ELSE WithByte(upto[i - 1], s[i], c)
  IN  upto[Len(s)]

\* while (ss.good()) getline(): every piece, an empty last one included.
WhileGood(s, c) == Pieces(s, c)

\* while (getline()): the same but for an empty last one.
WhileGetline(s, c) ==
  LET ps == Pieces(s, c) IN IF Last(ps) = <<>> THEN Front(ps) ELSE ps

\* server_vector: the entries of a SERVERS message.  erase(0, 8) takes the
\* word and the comma behind it; a piece of a single byte is dropped.
IsByte(p) == Len(p) = 1 /\ Head(p) \in OneByte

ServerVector(m) ==
  LET ps == WhileGood(m, Semi)
      qs == [ps EXCEPT ![1] = SubSeq(@, 3, Len(@))]
  IN  FlattenSeq([i \in 1..Len(qs) |-> IF IsByte(qs[i]) THEN <<>> ELSE <<qs[i]>>])

\* split_commas: the fields of all entries, one after the other.
SplitCommas(es) == FlattenSeq([i \in 1..Len(es) |-> WhileGetline(es[i], Comma)])

\* stoi() throws unless a number is in front.
IsNumber(s) == s # <<>> /\ Head(s)[1] \in {"ip", "port", "-1", "0"}

-----------------------------------------------------------------------------
\* What a table has of a server.  Accepted connections are never named.
Unnamed == [name |-> <<>>, ip |-> <<>>, port |-> <<>>]

Entry(g)    == [name |-> <<Name(g)>>, ip |-> <<Ip(g)>>, port |-> <<Port(g)>>]
Portless(g) == [Entry(g) EXCEPT !.port = <<NoPort>>]

Fields(e) == <<e.name, e.ip, e.port>>

\* name + "," + ipaddr + "," + portnr + ';'
EntryText(e) == e.name \o <<Comma>> \o e.ip \o <<Comma>> \o e.port \o <<Semi>>

\* Faulty: no ';' behind the entries but the last.
ListMessageUnterminated(self, es) ==
  <<Word("SERVERS"), Comma>> \o EntryText(self)
    \o FlattenSeq([i \in 1..Len(es) |-> Front(EntryText(es[i]))])

\* The answer to QUERYSERVERS, with the server itself in front.
ListMessage(self, es) ==
  <<Word("SERVERS"), Comma>> \o EntryText(self)
    \o FlattenSeq([i \in 1..Len(es) |-> EntryText(es[i])])

\* A list as its reader takes it apart.
ListFields(m) == SplitCommas(ServerVector(m))
=============================================================================
