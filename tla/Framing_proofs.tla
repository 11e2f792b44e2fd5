--------------------------- MODULE Framing_proofs ---------------------------
(***************************************************************************)
(* What the reader of a list of servers finds in it, for lists of every    *)
(* length and every alphabet: ListReadsBack.                               *)
(*                                                                         *)
(* The tokenisers and FlattenSeq are recursive functions, and these are    *)
(* defined by CHOOSE, as is every fold.  So the first part shows that a    *)
(* recursion up to a number has a solution, and only one, by induction     *)
(* over the number; the induction is that a set of numbers has a least     *)
(* member.  What follows only uses the equations of the recursions: the    *)
(* pieces of a string by its last byte (PiecesAppend), those of two        *)
(* strings with a separator between them (PiecesJoin), what is flattened   *)
(* or mapped by its first member (FlattenHead, MappedHead), and so the     *)
(* fields of a line, of what stands behind a line, and of a whole list.    *)
(***************************************************************************)
EXTENDS Framing, FiniteSetTheorems, SequenceTheorems, TLAPS

-----------------------------------------------------------------------------
(* Numbers and recursion. *)

\* A set of numbers that is not empty has a least member: the intervals from 0
\* up to its members have a smallest one.
LEMMA LeastNumber ==
  ASSUME NEW T \in SUBSET Nat, T # {}
  PROVE  \E x \in T : \A y \in T : x <= y
<1>1. PICK n \in T : TRUE
  OBVIOUS
<1>2. IsFiniteSet(0..n) /\ n \in Nat
  BY FS_Interval, <1>1
<1> DEFINE I == {0..k : k \in {t \in T : t <= n}}
<1>3. I \subseteq SUBSET (0..n) /\ 0..n \in I
  BY <1>1, <1>2
<1>4. PICK x \in I : \A y \in I : ~ (<<y, x>> \in StrictSubsetOrdering(0..n))
  <2> HIDE DEF I
  <2>1. IsWellFoundedOn(StrictSubsetOrdering(0..n), FiniteSubsetsOf(0..n))
    BY <1>2, FS_StrictSubsetOrderingWellFounded
  <2>2. I \subseteq FiniteSubsetsOf(0..n)
    BY <1>2, <1>3, FS_Subset DEF FiniteSubsetsOf
  <2>. QED BY <2>1, <2>2, <1>3, WFMin
<1>5. PICK k \in T : k <= n /\ x = 0..k
  BY <1>4
<1>6. ASSUME NEW y \in T, y < k PROVE FALSE
  <2>1. 0..y \in I
    BY <1>1, <1>2, <1>5, <1>6
  <2>2. <<0..y, 0..k>> \in StrictSubsetOrdering(0..n)
    BY <1>1, <1>2, <1>5, <1>6 DEF StrictSubsetOrdering
  <2>. QED BY <1>4, <1>5, <2>1, <2>2
<1>. QED BY <1>5, <1>6

\* Induction, for a set of numbers.
LEMMA NumberInduction ==
  ASSUME NEW Q \in SUBSET Nat, 0 \in Q, \A n \in Q : n + 1 \in Q
  PROVE  \A n \in Nat : n \in Q
<1>. SUFFICES ASSUME Nat \ Q # {} PROVE FALSE
  OBVIOUS
<1>1. PICK x \in Nat \ Q : \A y \in Nat \ Q : x <= y
  BY LeastNumber
<1>2. x - 1 \in Q
  BY <1>1
<1>. QED BY <1>1, <1>2

\* Induction up to a number.
LEMMA BoundedInduction ==
  ASSUME NEW N \in Nat, NEW Q, 0 \in Q, \A n \in 0..(N - 1) : n \in Q => n + 1 \in Q
  PROVE  \A n \in 0..N : n \in Q
<1>. DEFINE P == {n \in Nat : n <= N => n \in Q}
<1>1. 0 \in P /\ \A n \in P : n + 1 \in P
  OBVIOUS
<1>2. \A n \in Nat : n \in P
  <2>1. P \in SUBSET Nat
    OBVIOUS
  <2>. HIDE DEF P
  <2>. QED BY <1>1, <2>1, NumberInduction
<1>. QED BY <1>2

\* f starts with v0 and goes on with step, up to N.
Iterates(f, N, v0, step) == f[0] = v0 /\ \A i \in 1..N : f[i] = step[i][f[i - 1]]

\* A recursion over 0..N has a solution.
LEMMA Recursion ==
  ASSUME NEW N \in Nat, NEW V, NEW v0 \in V, NEW step \in [1..N -> [V -> V]]
  PROVE  \E f \in [0..N -> V] : Iterates(f, N, v0, step)
<1>. USE DEF Iterates
<1>. DEFINE Sol(n) == {f \in [0..n -> V] : Iterates(f, n, v0, step)}
            Q == {n \in 0..N : Sol(n) # {}}
<1>1. 0 \in Q
  <2>1. [i \in 0..0 |-> v0] \in Sol(0)
    OBVIOUS
  <2>. HIDE DEF Sol
  <2>. QED BY <2>1
<1>2. ASSUME NEW n \in 0..(N - 1), n \in Q PROVE n + 1 \in Q
  <2>1. PICK f \in [0..n -> V] : f[0] = v0 /\ \A i \in 1..n : f[i] = step[i][f[i - 1]]
    BY <1>2
  <2>. DEFINE g == [i \in 0..(n + 1) |-> IF i <= n THEN f[i] ELSE step[i][f[n]]]
  <2>2. g \in [0..(n + 1) -> V] /\ g[0] = v0
    BY <2>1
  <2>3. ASSUME NEW i \in 1..(n + 1) PROVE g[i] = step[i][g[i - 1]]
    <3>1. CASE i <= n
      BY <2>1, <3>1
    <3>2. CASE i = n + 1
      BY <2>1, <3>2
    <3>. QED BY <3>1, <3>2
  <2>4. g \in Sol(n + 1)
    <3>. HIDE DEF g
    <3>. QED BY <2>2, <2>3
  <2>. HIDE DEF Sol
  <2>. QED BY <2>4
<1>3. N \in Q
  <2>1. \A n \in 0..N : n \in Q
    <3>. HIDE DEF Q
    <3>. QED BY <1>1, <1>2, BoundedInduction
  <2>. HIDE DEF Q
  <2>. QED BY <2>1
<1>. QED BY <1>3

\* f and g start the same, and go on the same way from the same.
GoTogether(f, g, N) ==
  f[0] = g[0] /\ \A i \in 1..N : f[i - 1] = g[i - 1] => f[i] = g[i]

\* Two solutions of a recursion are the same.
LEMMA RecursionUnique ==
  ASSUME NEW N \in Nat, NEW f, NEW g, GoTogether(f, g, N)
  PROVE  \A i \in 0..N : f[i] = g[i]
<1>. USE DEF GoTogether
<1>. DEFINE Q == {n \in 0..N : f[n] = g[n]}
<1>1. 0 \in Q
  OBVIOUS
<1>2. ASSUME NEW n \in 0..(N - 1), n \in Q PROVE n + 1 \in Q
  <2>1. n + 1 \in 1..N /\ (n + 1) - 1 = n
    OBVIOUS
  <2>. QED BY <1>2, <2>1
<1>3. \A n \in 0..N : n \in Q
  <2>. HIDE DEF Q
  <2>. QED BY <1>1, <1>2, BoundedInduction
<1>. QED BY <1>3

-----------------------------------------------------------------------------
(* Pieces. *)

PieceSeq(X) == Seq(Seq(X)) \ {<<>>}

\* A byte more keeps the type.
LEMMA WithByteType ==
  ASSUME NEW X, NEW ps \in PieceSeq(X), NEW x \in X, NEW c
  PROVE  WithByte(ps, x, c) \in PieceSeq(X)
<1>1. ps \in Seq(Seq(X)) /\ ps # <<>> /\ Len(ps) \in 1..Len(ps)
  BY DEF PieceSeq
<1>2. ps[Len(ps)] \in Seq(X)
  BY <1>1
<1>3. CASE x = c
  BY <1>1, <1>3, EmptySeq, AppendProperties DEF WithByte, PieceSeq
<1>4. CASE x # c
  <2>1. Append(ps[Len(ps)], x) \in Seq(X)
    BY <1>2
  <2>2. WithByte(ps, x, c) = [ps EXCEPT ![Len(ps)] = Append(ps[Len(ps)], x)]
    BY <1>4 DEF WithByte
  <2>. QED BY <1>1, <2>1, <2>2, ExceptSeq DEF PieceSeq
<1>. QED BY <1>3, <1>4

\* f has the pieces of every beginning of s.
Reading(f, s, c) ==
  /\ f[0] = << <<>> >>
  /\ \A i \in 1..Len(s) : f[i] = WithByte(f[i - 1], s[i], c)

\* Pieces computes what its recursion says.
LEMMA PiecesRecursion ==
  ASSUME NEW X, NEW s \in Seq(X), NEW c
  PROVE  \E f \in [0..Len(s) -> PieceSeq(X)] : Reading(f, s, c) /\ Pieces(s, c) = f[Len(s)]
<1>. DEFINE N == Len(s)
            V == PieceSeq(X)
            step == [i \in 1..N |-> [ps \in V |-> WithByte(ps, s[i], c)]]
            F(f) == [i \in 0..N |-> IF i = 0 THEN << <<>> >> ELSE WithByte(f[i - 1], s[i], c)]
<1>1. N \in Nat /\ << <<>> >> \in V
  BY DEF PieceSeq
<1>2. step \in [1..N -> [V -> V]]
  <2>1. ASSUME NEW i \in 1..N PROVE s[i] \in X
    BY ElementOfSeq
  <2>. HIDE DEF V
  <2>2. ASSUME NEW i \in 1..N, NEW ps \in V PROVE WithByte(ps, s[i], c) \in V
    BY <2>1, WithByteType DEF V
  <2>. QED BY <2>2
<1>3. PICK g \in [0..N -> V] : Iterates(g, N, << <<>> >>, step)
  <2>. HIDE DEF N, V, step
  <2>. QED BY <1>1, <1>2, Recursion
<1>4. ASSUME NEW i \in 1..N PROVE g[i] = WithByte(g[i - 1], s[i], c)
  <2>1. g[i - 1] \in V
    <3>. HIDE DEF V, N
    <3>. QED BY <1>1
  <2>. HIDE DEF V, N
  <2>. QED BY <1>3, <2>1 DEF Iterates
<1>5. g = F(g)
  <2>. HIDE DEF V
  <2>. QED BY <1>1, <1>3, <1>4 DEF Iterates
<1>. DEFINE h == CHOOSE f : f = F(f)
<1>6. h = F(h)
  <2>. HIDE DEF F
  <2>. QED BY <1>5
<1>7. Pieces(s, c) = h[N]
  BY DEF Pieces
<1>8. /\ h[0] = << <<>> >> /\ \A i \in 1..N : h[i] = WithByte(h[i - 1], s[i], c)
  <2>. HIDE DEF h
  <2>. QED BY <1>1, <1>6
<1>9. \A i \in 0..N : h[i] = g[i]
  <2>. HIDE DEF h, N
  <2>1. GoTogether(h, g, N)
    BY <1>3, <1>4, <1>8 DEF Iterates, GoTogether
  <2>. QED BY <1>1, <2>1, RecursionUnique
<1>10. h \in [0..N -> V]
  <2>1. h = [i \in 0..N |-> h[i]]
    <3>. HIDE DEF h
    <3>. QED BY <1>6
  <2>. HIDE DEF h, V
  <2>. QED BY <1>3, <1>9, <2>1
<1>. QED
  <2>. HIDE DEF h
  <2>. QED BY <1>7, <1>8, <1>10 DEF Reading

\* No byte, no separator: one empty piece.
LEMMA PiecesEmpty == \A c : Pieces(<<>>, c) = << <<>> >>
<1>. TAKE c
<1>1. <<>> \in Seq({}) /\ Len(<<>>) = 0
  OBVIOUS
<1>2. PICK f : Reading(f, <<>>, c) /\ Pieces(<<>>, c) = f[Len(<<>>)]
  BY <1>1, PiecesRecursion
<1>. QED BY <1>1, <1>2 DEF Reading

\* There is always a piece.
LEMMA PiecesType ==
  ASSUME NEW X, NEW s \in Seq(X), NEW c
  PROVE  Pieces(s, c) \in PieceSeq(X)
<1>1. Len(s) \in 0..Len(s)
  OBVIOUS
<1>. QED BY <1>1, PiecesRecursion

\* Reading one byte more.
LEMMA PiecesAppend ==
  ASSUME NEW X, NEW s \in Seq(X), NEW x \in X, NEW c
  PROVE  Pieces(Append(s, x), c) = WithByte(Pieces(s, c), x, c)
<1>. DEFINE t == Append(s, x)
            N == Len(s)
<1>1. /\ t \in Seq(X) /\ Len(t) = N + 1 /\ t[N + 1] = x /\ N \in Nat
      /\ \A i \in 1..N : t[i] = s[i]
  BY AppendProperties
<1>. HIDE DEF t, N
<1>2. PICK f : Reading(f, s, c) /\ Pieces(s, c) = f[Len(s)]
  BY PiecesRecursion
<1>3. PICK g : Reading(g, t, c) /\ Pieces(t, c) = g[Len(t)]
  BY <1>1, PiecesRecursion
<1>4. f[N] = g[N]
  <2>1. ASSUME NEW i \in 1..N, f[i - 1] = g[i - 1] PROVE f[i] = g[i]
    <3>1. g[i] = WithByte(g[i - 1], t[i], c)
      BY <1>1, <1>3 DEF Reading
    <3>. QED BY <1>1, <1>2, <2>1, <3>1 DEF Reading, N
  <2>2. GoTogether(f, g, N)
    BY <1>2, <1>3, <2>1 DEF Reading, GoTogether
  <2>3. \A i \in 0..N : f[i] = g[i]
    BY <1>1, <2>2, RecursionUnique
  <2>. QED BY <1>1, <2>3
<1>5. g[N + 1] = WithByte(g[N], x, c)
  <2>1. N + 1 \in 1..(N + 1) /\ (N + 1) - 1 = N
    BY <1>1
  <2>. QED BY <1>1, <1>3, <2>1 DEF Reading
<1>. QED BY <1>1, <1>2, <1>3, <1>4, <1>5 DEF t, N

-----------------------------------------------------------------------------
(* Induction over sequences, for a set of them. *)

\* From the front.
LEMMA AppendInduction ==
  ASSUME NEW X, NEW P, <<>> \in P, \A s \in Seq(X), x \in X : s \in P => Append(s, x) \in P
  PROVE  \A s \in Seq(X) : s \in P
<1>. DEFINE Q == {n \in Nat : \A s \in Seq(X) : Len(s) = n => s \in P}
<1>1. 0 \in Q
  OBVIOUS
<1>2. ASSUME NEW n \in Q PROVE n + 1 \in Q
  <2>1. ASSUME NEW s \in Seq(X), Len(s) = n + 1 PROVE s \in P
    <3>1. PICK r \in Seq(X), x \in X : s = Append(r, x)
      BY <2>1, SequenceEmptyOrAppend
    <3>2. Len(r) = n
      BY <2>1, <3>1, AppendProperties
    <3>. QED BY <1>2, <3>1, <3>2
  <2>. QED BY <2>1
<1>3. \A n \in Nat : n \in Q
  <2>1. Q \in SUBSET Nat
    OBVIOUS
  <2>. HIDE DEF Q
  <2>. QED BY <1>1, <1>2, <2>1, NumberInduction
<1>. QED BY <1>3

\* From the back.
LEMMA HeadInduction ==
  ASSUME NEW X, NEW P, <<>> \in P, \A s \in Seq(X), x \in X : s \in P => <<x>> \o s \in P
  PROVE  \A s \in Seq(X) : s \in P
<1>. DEFINE Q == {n \in Nat : \A s \in Seq(X) : Len(s) = n => s \in P}
<1>1. 0 \in Q
  OBVIOUS
<1>2. ASSUME NEW n \in Q PROVE n + 1 \in Q
  <2>1. ASSUME NEW s \in Seq(X), Len(s) = n + 1 PROVE s \in P
    <3>1. Tail(s) \in Seq(X) /\ Len(Tail(s)) = n /\ Head(s) \in X
      BY <2>1, HeadTailProperties
    <3>2. s = <<Head(s)>> \o Tail(s)
      BY <2>1, <3>1
    <3>. QED BY <1>2, <3>1, <3>2
  <2>. QED BY <2>1
<1>3. \A n \in Nat : n \in Q
  <2>1. Q \in SUBSET Nat
    OBVIOUS
  <2>. HIDE DEF Q
  <2>. QED BY <1>1, <1>2, <2>1, NumberInduction
<1>. QED BY <1>3

-----------------------------------------------------------------------------
(* What becomes of the pieces when strings are put together. *)

\* The last piece goes on with t.
Longer(ps, t) == [ps EXCEPT ![Len(ps)] = @ \o t]

\* e comes behind t, behind s.
Attaches(s, t, e) == Append(s \o t, e) = s \o Append(t, e)

\* Append at the end of two sequences.
LEMMA AppendConcat ==
  ASSUME NEW S, NEW s \in Seq(S), NEW t \in Seq(S), NEW e \in S
  PROVE  Attaches(s, t, e)
<1>. DEFINE z == <<e>>
<1>1. z \in Seq(S)
  OBVIOUS
<1>2. Append(s \o t, e) = (s \o t) \o z
  BY ConcatProperties, AppendIsConcat
<1>3. Append(t, e) = t \o z
  BY AppendIsConcat
<1>. HIDE DEF z
<1>4. (s \o t) \o z = s \o (t \o z)
  BY <1>1, ConcatAssociative
<1>. QED BY <1>2, <1>3, <1>4 DEF Attaches

\* A byte that is no separator goes to the last piece.
LEMMA LongerByByte ==
  ASSUME NEW X, NEW c, NEW ps \in PieceSeq(X), NEW t \in Seq(X), NEW x \in X, x # c
  PROVE  WithByte(Longer(ps, t), x, c) = Longer(ps, Append(t, x))
<1>. DEFINE n == Len(ps)
<1>1. /\ ps \in Seq(Seq(X)) /\ n \in Nat /\ n \in 1..n
      /\ ps[n] \in Seq(X) /\ DOMAIN ps = 1..n
  <2>1. ps \in Seq(Seq(X)) /\ ps # <<>>
    BY DEF PieceSeq
  <2>2. n \in 1..n
    BY <2>1
  <2>. QED BY <2>1, <2>2, LenProperties, ElementOfSeq
<1>2. /\ Len(Longer(ps, t)) = n /\ Longer(ps, t)[n] = ps[n] \o t
      /\ DOMAIN Longer(ps, t) = 1..n
  <2>1. ps[n] \o t \in Seq(X)
    BY <1>1
  <2>2. Longer(ps, t) = [ps EXCEPT ![n] = ps[n] \o t]
    BY DEF Longer
  <2>. HIDE DEF n
  <2>. QED BY <1>1, <2>1, <2>2, ExceptSeq
<1>3. Append(ps[n] \o t, x) = ps[n] \o Append(t, x)
  <2>. DEFINE p == ps[n]
  <2>1. p \in Seq(X)
    BY <1>1
  <2>. HIDE DEF p
  <2>2. Attaches(p, t, x)
    BY <2>1, AppendConcat
  <2>. QED BY <2>2 DEF Attaches, p
<1>. HIDE DEF n
<1>4. WithByte(Longer(ps, t), x, c) = [Longer(ps, t) EXCEPT ![n] = ps[n] \o Append(t, x)]
  BY <1>2, <1>3 DEF WithByte
<1>. QED BY <1>1, <1>2, <1>4 DEF Longer, n

\* t is in the last piece, when it stands behind s.
Prolongs(s, t, c) == Pieces(s \o t, c) = Longer(Pieces(s, c), t)

\* So does a string without separators.
LEMMA PiecesLonger ==
  ASSUME NEW X, NEW c, NEW s \in Seq(X), NEW t \in Seq(X \ {c})
  PROVE  Prolongs(s, t, c)
<1>. DEFINE P == {r \in Seq(X \ {c}) : Pieces(s \o r, c) = Longer(Pieces(s, c), r)}
<1>1. <<>> \in P
  <2>1. Pieces(s, c) \in Seq(Seq(X)) /\ Pieces(s, c) # <<>>
    BY PiecesType DEF PieceSeq
  <2>2. Len(Pieces(s, c)) \in 1..Len(Pieces(s, c))
    BY <2>1
  <2>3. Pieces(s, c)[Len(Pieces(s, c))] \in Seq(X)
    BY <2>1, <2>2
  <2>4. Longer(Pieces(s, c), <<>>) = Pieces(s, c)
    BY <2>1, <2>2, <2>3, ConcatEmptySeq DEF Longer
  <2>. QED BY <2>4, ConcatEmptySeq
<1>2. ASSUME NEW r \in Seq(X \ {c}), NEW x \in X \ {c}, r \in P PROVE Append(r, x) \in P
  <2>1. r \in Seq(X)
    BY SeqMonotonic
  <2>2. s \o r \in Seq(X) /\ s \o Append(r, x) = Append(s \o r, x)
    BY <2>1, ConcatProperties, AppendIsConcat, ConcatAssociative
  <2>3. Pieces(s \o Append(r, x), c) = WithByte(Longer(Pieces(s, c), r), x, c)
    BY <1>2, <2>2, PiecesAppend
  <2>4. Pieces(s \o Append(r, x), c) = Longer(Pieces(s, c), Append(r, x))
    BY <2>1, <2>3, PiecesType, LongerByByte
  <2>. QED BY <2>4, AppendProperties
<1>3. t \in P
  <2>. HIDE DEF P
  <2>. QED BY <1>1, <1>2, AppendInduction
<1>. QED BY <1>3 DEF Prolongs

\* A string without separators is one piece.
LEMMA PiecesOne ==
  ASSUME NEW X, NEW c, NEW t \in Seq(X \ {c})
  PROVE  Pieces(t, c) = <<t>>
<1>1. <<>> \in Seq(X) /\ t \in Seq(X) /\ <<>> \o t = t
  BY SeqMonotonic, ConcatEmptySeq
<1>. DEFINE e == <<>>
<1>2. Pieces(t, c) = Longer(<< <<>> >>, t)
  <2>1. Pieces(e, c) = << <<>> >>
    BY PiecesEmpty
  <2>2. e \in Seq(X) /\ e \o t = t
    BY <1>1
  <2>. HIDE DEF e
  <2>3. Prolongs(e, t, c)
    BY <2>2, PiecesLonger
  <2>. QED BY <2>1, <2>2, <2>3 DEF Prolongs
<1>3. Longer(<< <<>> >>, t) = <<t>>
  BY <1>1 DEF Longer
<1>. QED BY <1>2, <1>3

\* Changing the end of two sequences.
LEMMA ConcatExcept ==
  ASSUME NEW S, NEW s \in Seq(S), NEW t \in Seq(S), t # <<>>, NEW e \in S
  PROVE  [s \o t EXCEPT ![Len(s \o t)] = e] = s \o [t EXCEPT ![Len(t)] = e]
<1>. DEFINE w == s \o t
            n == Len(s)
            k == Len(t)
            u == [w EXCEPT ![Len(w)] = e]
            r == [t EXCEPT ![k] = e]
<1>1. /\ n \in Nat /\ k \in Nat /\ k >= 1
      /\ w \in Seq(S) /\ Len(w) = n + k
      /\ \A i \in 1..(n + k) : w[i] = IF i <= n THEN s[i] ELSE t[i - n]
  BY ConcatProperties, LenProperties
<1>2. /\ r \in Seq(S) /\ Len(r) = k
      /\ \A j \in 1..k : r[j] = IF j = k THEN e ELSE t[j]
  <2>1. k \in 1..k
    BY <1>1
  <2>. QED BY <1>1, <2>1, ExceptSeq
<1>3. /\ u \in Seq(S) /\ Len(u) = n + k
      /\ \A j \in 1..(n + k) : u[j] = IF j = n + k THEN e ELSE w[j]
  <2>1. Len(w) \in 1..Len(w)
    BY <1>1
  <2>. HIDE DEF w
  <2>2. u \in Seq(S) /\ Len(u) = Len(w) /\ \A j \in 1..Len(w) : u[j] = IF j = Len(w) THEN e ELSE w[j]
    BY <1>1, <2>1, ExceptSeq
  <2>. HIDE DEF u
  <2>. QED BY <1>1, <2>2
<1>. HIDE DEF u, r, w
<1>4. /\ s \o r \in Seq(S) /\ Len(s \o r) = n + k
      /\ \A i \in 1..(n + k) : (s \o r)[i] = IF i <= n THEN s[i] ELSE r[i - n]
  <2>1. /\ s \o r \in Seq(S) /\ Len(s \o r) = Len(s) + Len(r)
        /\ \A i \in 1..(Len(s) + Len(r)) : (s \o r)[i] = IF i <= Len(s) THEN s[i] ELSE r[i - Len(s)]
    BY <1>2, ConcatProperties
  <2>. QED BY <1>2, <2>1
<1>. HIDE DEF n, k
<1>. DEFINE v == s \o r
<1>5. /\ v \in Seq(S) /\ Len(v) = n + k
      /\ \A i \in 1..(n + k) : v[i] = IF i <= n THEN s[i] ELSE r[i - n]
  BY <1>4
<1>. HIDE DEF v
<1>6. ASSUME NEW i \in 1..(n + k) PROVE u[i] = v[i]
  <2>0. i \in Nat
    BY <1>1
  <2>1. CASE i <= n
    <3>1. i # n + k
      BY <1>1, <2>0, <2>1
    <3>. QED BY <1>1, <1>3, <1>5, <2>1, <3>1
  <2>2. CASE i > n
    <3>1. i - n \in 1..k /\ (i - n = k <=> i = n + k) /\ ~ i <= n
      BY <1>1, <2>0, <2>2
    <3>. QED BY <1>1, <1>2, <1>3, <1>5, <3>1
  <2>. QED BY <1>1, <2>0, <2>1, <2>2
<1>7. u = v
  BY <1>1, <1>3, <1>5, <1>6, SeqEqual
<1>. QED BY <1>7 DEF u, v, r, w, n, k

\* ps stands in front of what is done to qs.
Behind(ps, qs, x, c) == WithByte(ps \o qs, x, c) = ps \o WithByte(qs, x, c)

\* A byte more concerns the last of several pieces only.
LEMMA WithByteBehind ==
  ASSUME NEW X, NEW c, NEW ps \in PieceSeq(X), NEW qs \in PieceSeq(X), NEW x \in X
  PROVE  Behind(ps, qs, x, c)
<1>. DEFINE S == Seq(X)
<1>1. ps \in Seq(S) /\ qs \in Seq(S) /\ qs # <<>>
  BY DEF PieceSeq
<1>2. <<>> \in S /\ qs[Len(qs)] \in S /\ Append(qs[Len(qs)], x) \in S
  BY <1>1
<1>3. CASE x = c
  <2>. HIDE DEF S
  <2>4. Append(ps \o qs, <<>>) = ps \o Append(qs, <<>>)
    <3>. DEFINE e == <<>>
    <3>1. e \in S
      BY <1>2
    <3>. HIDE DEF e
    <3>2. Attaches(ps, qs, e)
      BY <1>1, <3>1, AppendConcat
    <3>. QED BY <3>2 DEF Attaches, e
  <2>. QED BY <1>3, <2>4 DEF WithByte, Behind
<1>4. CASE x # c
  <2>. DEFINE a == Append(qs[Len(qs)], x)
  <2>. HIDE DEF S
  <2>1. (ps \o qs)[Len(ps \o qs)] = qs[Len(qs)]
    BY <1>1, ConcatProperties
  <2>. HIDE DEF a
  <2>2. [ps \o qs EXCEPT ![Len(ps \o qs)] = a] = ps \o [qs EXCEPT ![Len(qs)] = a]
    BY <1>1, <1>2, ConcatExcept DEF a
  <2>. QED BY <1>4, <2>1, <2>2 DEF WithByte, Behind, a
<1>. QED BY <1>3, <1>4

\* A separator between two strings is between their pieces.
Joins(s, t, c) == Pieces((s \o <<c>>) \o t, c) = Pieces(s, c) \o Pieces(t, c)

\* It always is.
LEMMA PiecesJoin ==
  ASSUME NEW X, NEW c \in X, NEW s \in Seq(X), NEW t \in Seq(X)
  PROVE  Joins(s, t, c)
<1>. DEFINE P == {r \in Seq(X) : Pieces((s \o <<c>>) \o r, c) = Pieces(s, c) \o Pieces(r, c)}
            sc == s \o <<c>>
<1>0. <<c>> \in Seq(X) /\ sc \in Seq(X) /\ sc = Append(s, c)
  BY AppendIsConcat, AppendProperties
<1>1. <<>> \in P
  <2>1. Pieces(sc, c) = WithByte(Pieces(s, c), c, c)
    BY <1>0, PiecesAppend
  <2>2. Pieces(s, c) \in Seq(Seq(X))
    BY PiecesType DEF PieceSeq
  <2>3. WithByte(Pieces(s, c), c, c) = Pieces(s, c) \o << <<>> >>
    BY <2>2, EmptySeq, AppendIsConcat DEF WithByte
  <2>4. sc \o <<>> = sc
    BY <1>0, ConcatEmptySeq
  <2>5. Pieces(sc \o <<>>, c) = Pieces(s, c) \o Pieces(<<>>, c)
    <3>. HIDE DEF sc
    <3>. QED BY <2>1, <2>3, <2>4, PiecesEmpty
  <2>. QED BY <2>5
<1>2. ASSUME NEW r \in Seq(X), NEW x \in X, r \in P PROVE Append(r, x) \in P
  <2>. HIDE DEF sc
  <2>1. sc \o r \in Seq(X) /\ sc \o Append(r, x) = Append(sc \o r, x)
    BY <1>0, ConcatProperties, AppendIsConcat, ConcatAssociative
  <2>2. Pieces(sc \o Append(r, x), c) = WithByte(Pieces(s, c) \o Pieces(r, c), x, c)
    BY <1>2, <2>1, PiecesAppend DEF sc
  <2>3. @ = Pieces(s, c) \o WithByte(Pieces(r, c), x, c)
    <3>. DEFINE a == Pieces(s, c)
                b == Pieces(r, c)
    <3>1. a \in PieceSeq(X) /\ b \in PieceSeq(X)
      BY PiecesType
    <3>. HIDE DEF a, b
    <3>2. Behind(a, b, x, c)
      BY <3>1, WithByteBehind
    <3>. QED BY <3>2 DEF a, b, Behind
  <2>4. @ = Pieces(s, c) \o Pieces(Append(r, x), c)
    BY PiecesAppend
  <2>. QED BY <2>2, <2>3, <2>4, AppendProperties DEF sc
<1>3. t \in P
  <2>. HIDE DEF P
  <2>. QED BY <1>1, <1>2, AppendInduction
<1>. QED BY <1>3 DEF Joins

-----------------------------------------------------------------------------
(* Concatenation, behind a name: the provers take \o apart, and then do not *)
(* recognise it in a lemma.                                                 *)

Cat(s, t) == s \o t

\* Two sequences over S are one.
LEMMA CatType ==
  ASSUME NEW S, NEW s \in Seq(S), NEW t \in Seq(S)
  PROVE  Cat(s, t) \in Seq(S)
  BY ConcatProperties DEF Cat

\* Parentheses do not matter.
LEMMA CatAssociative ==
  ASSUME NEW S, NEW s \in Seq(S), NEW t \in Seq(S), NEW u \in Seq(S)
  PROVE  Cat(Cat(s, t), u) = Cat(s, Cat(t, u))
  BY ConcatAssociative DEF Cat

\* Neither does the empty sequence.
LEMMA CatEmpty ==
  ASSUME NEW S, NEW s \in Seq(S)
  PROVE  Cat(s, <<>>) = s /\ Cat(<<>>, s) = s
  BY ConcatEmptySeq DEF Cat

\* f has what every beginning of ss is together.
Flattening(f, ss) ==
  /\ f[0] = <<>>
  /\ \A i \in 1..Len(ss) : f[i] = Cat(f[i - 1], ss[i])

\* FlattenSeq computes what its recursion says.
LEMMA FlattenRecursion ==
  ASSUME NEW X, NEW ss \in Seq(Seq(X))
  PROVE  \E f \in [0..Len(ss) -> Seq(X)] : Flattening(f, ss) /\ FlattenSeq(ss) = f[Len(ss)]
<1>. DEFINE N == Len(ss)
            V == Seq(X)
            step == [i \in 1..N |-> [r \in V |-> Cat(r, ss[i])]]
            F(f) == [i \in 1..N |-> IF i = 1 THEN ss[i] ELSE f[i - 1] \o ss[i]]
            G(f) == [i \in 1..N |-> IF i = 1 THEN ss[i] ELSE Cat(f[i - 1], ss[i])]
            e == <<>>
<1>1. N \in Nat /\ e \in V
  OBVIOUS
<1>2. \A i \in 1..N : ss[i] \in V
  BY ElementOfSeq
<1>3. step \in [1..N -> [V -> V]]
  <2>. HIDE DEF V, N
  <2>1. ASSUME NEW i \in 1..N, NEW r \in V PROVE Cat(r, ss[i]) \in V
    BY <1>2, CatType DEF V
  <2>. QED BY <2>1
<1>4. PICK g \in [0..N -> V] : Iterates(g, N, e, step)
  <2>. HIDE DEF N, V, step, e
  <2>. QED BY <1>1, <1>3, Recursion
<1>5. g[0] = e /\ \A i \in 1..N : g[i] = Cat(g[i - 1], ss[i])
  <2>. HIDE DEF V, N, e
  <2>1. ASSUME NEW i \in 1..N PROVE g[i] = Cat(g[i - 1], ss[i])
    <3>1. g[i - 1] \in V
      BY <1>1
    <3>. QED BY <1>4, <3>1 DEF Iterates
  <2>. QED BY <1>4, <2>1 DEF Iterates
<1>6. CASE N = 0
  <2>1. ss = <<>> /\ FlattenSeq(ss) = ss
    BY <1>6 DEF FlattenSeq
  <2>2. Flattening(g, ss)
    <3>. HIDE DEF V
    <3>. QED BY <1>5 DEF Flattening
  <2>3. FlattenSeq(ss) = g[Len(ss)]
    <3>. HIDE DEF V
    <3>. QED BY <1>5, <1>6, <2>1
  <2>. QED BY <2>2, <2>3
<1>7. CASE N # 0
  <2>. DEFINE p == [i \in 1..N |-> g[i]]
              h == CHOOSE f : f = F(f)
  <2>0. \A f : F(f) = G(f)
    BY DEF Cat
  <2>. HIDE DEF F
  <2>1. p = G(p)
    <3>. HIDE DEF V, N, p
    <3>1. ASSUME NEW i \in 1..N
          PROVE  p[i] = IF i = 1 THEN ss[i] ELSE Cat(p[i - 1], ss[i])
      <4>1. CASE i = 1
        <5>1. p[i] = Cat(e, ss[i])
          BY <1>1, <1>5, <4>1 DEF p
        <5>2. ss[i] \in Seq(X)
          BY <1>2 DEF V
        <5>. QED BY <4>1, <5>1, <5>2, CatEmpty DEF e
      <4>2. CASE i # 1
        <5>1. i - 1 \in 1..N
          BY <1>1, <4>2
        <5>. QED BY <1>5, <4>2, <5>1 DEF p
      <4>. QED BY <4>1, <4>2
    <3>. QED BY <3>1 DEF p
  <2>2. h = F(h)
    <3>. HIDE DEF p, G
    <3>. QED BY <2>0, <2>1
  <2>3. FlattenSeq(ss) = h[N]
    BY <1>7 DEF FlattenSeq, F
  <2>4. h = G(h)
    <3>. HIDE DEF h, G
    <3>. QED BY <2>0, <2>2
  <2>. DEFINE k == [i \in 0..N |-> IF i = 0 THEN e ELSE h[i]]
  <2>5. Flattening(k, ss)
    <3>. HIDE DEF V, h
    <3>1. ASSUME NEW i \in 1..N PROVE k[i] = Cat(k[i - 1], ss[i])
      <4>1. k[i] = h[i] /\ h[i] = IF i = 1 THEN ss[i] ELSE Cat(h[i - 1], ss[i])
        <5>1. h[i] = G(h)[i]
          BY <2>4
        <5>. QED BY <1>1, <5>1
      <4>2. CASE i = 1
        <5>1. k[i] = ss[i] /\ k[i - 1] = e /\ ss[i] \in Seq(X)
          BY <1>1, <1>2, <4>1, <4>2 DEF V
        <5>. HIDE DEF k
        <5>. QED BY <5>1, CatEmpty DEF e
      <4>3. CASE i # 1
        <5>1. i - 1 \in 1..N /\ i - 1 # 0
          BY <1>1, <4>3
        <5>2. k[i - 1] = h[i - 1]
          BY <1>1, <5>1
        <5>. HIDE DEF k
        <5>. QED BY <4>1, <4>3, <5>2
      <4>. QED BY <4>2, <4>3
    <3>2. k[0] = e
      BY <1>1
    <3>. HIDE DEF k
    <3>. QED BY <3>1, <3>2 DEF Flattening
  <2>6. k[N] = h[N]
    BY <1>1, <1>7
  <2>. HIDE DEF k, h
  <2>7. GoTogether(k, g, N)
    <3>. HIDE DEF V
    <3>. QED BY <1>5, <2>5 DEF Flattening, GoTogether
  <2>8. \A i \in 0..N : k[i] = g[i]
    BY <1>1, <2>7, RecursionUnique
  <2>9. Flattening(g, ss)
    <3>. HIDE DEF V
    <3>. QED BY <1>5 DEF Flattening
  <2>. QED BY <1>1, <2>3, <2>6, <2>8, <2>9
<1>. QED BY <1>6, <1>7

\* Nothing is flattened to nothing.
LEMMA FlattenEmpty == FlattenSeq(<<>>) = <<>>
  BY DEF FlattenSeq

\* What is flattened is a sequence.
LEMMA FlattenType ==
  ASSUME NEW X, NEW ss \in Seq(Seq(X))
  PROVE  FlattenSeq(ss) \in Seq(X)
<1>1. Len(ss) \in 0..Len(ss)
  OBVIOUS
<1>. QED BY <1>1, FlattenRecursion

\* One sequence more.
LEMMA FlattenAppend ==
  ASSUME NEW X, NEW ss \in Seq(Seq(X)), NEW x \in Seq(X)
  PROVE  FlattenSeq(Append(ss, x)) = Cat(FlattenSeq(ss), x)
<1>. DEFINE t == Append(ss, x)
            N == Len(ss)
            V == Seq(X)
<1>1. /\ t \in Seq(V) /\ Len(t) = N + 1 /\ t[N + 1] = x /\ N \in Nat
      /\ \A i \in 1..N : t[i] = ss[i]
  BY AppendProperties
<1>. HIDE DEF t, N
<1>2. PICK f : Flattening(f, ss) /\ FlattenSeq(ss) = f[Len(ss)]
  BY FlattenRecursion
<1>3. PICK g : Flattening(g, t) /\ FlattenSeq(t) = g[Len(t)]
  BY <1>1, FlattenRecursion
<1>. HIDE DEF V
<1>4. f[N] = g[N]
  <2>1. ASSUME NEW i \in 1..N, f[i - 1] = g[i - 1] PROVE f[i] = g[i]
    <3>1. g[i] = Cat(g[i - 1], t[i])
      BY <1>1, <1>3 DEF Flattening
    <3>. QED BY <1>1, <1>2, <2>1, <3>1 DEF Flattening, N
  <2>2. GoTogether(f, g, N)
    BY <1>2, <1>3, <2>1 DEF Flattening, GoTogether
  <2>3. \A i \in 0..N : f[i] = g[i]
    BY <1>1, <2>2, RecursionUnique
  <2>. QED BY <1>1, <2>3
<1>5. g[N + 1] = Cat(g[N], x)
  <2>1. N + 1 \in 1..(N + 1) /\ (N + 1) - 1 = N
    BY <1>1
  <2>. QED BY <1>1, <1>3, <2>1 DEF Flattening
<1>. QED BY <1>1, <1>2, <1>3, <1>4, <1>5 DEF t, N

\* One sequence more, in front.
FlattensBehind(x, ss) == FlattenSeq(Cat(<<x>>, ss)) = Cat(x, FlattenSeq(ss))

\* It stays in front.
LEMMA FlattenHead ==
  ASSUME NEW X, NEW ss \in Seq(Seq(X)), NEW x \in Seq(X)
  PROVE  FlattensBehind(x, ss)
<1>. DEFINE V == Seq(X)
            P == {r \in Seq(V) : FlattensBehind(x, r)}
            e == <<>>
            xs == <<x>>
<1>0. e \in Seq(V) /\ e \in V /\ xs \in Seq(V) /\ xs = Append(e, x)
  OBVIOUS
<1>1. e \in P
  <2>1. Cat(xs, e) = xs
    BY <1>0, CatEmpty
  <2>2. FlattenSeq(xs) = Cat(FlattenSeq(e), x)
    <3>. HIDE DEF xs, e
    <3>. QED BY <1>0, FlattenAppend DEF V
  <2>3. Cat(FlattenSeq(e), x) = x /\ Cat(x, FlattenSeq(e)) = x
    BY FlattenEmpty, CatEmpty
  <2>4. FlattensBehind(x, e)
    BY <2>1, <2>2, <2>3 DEF FlattensBehind
  <2>. QED BY <1>0, <2>4
<1>2. ASSUME NEW r \in Seq(V), NEW y \in V, r \in P PROVE Append(r, y) \in P
  <2>. HIDE DEF xs, V, e
  <2>1. Append(Cat(xs, r), y) = Cat(xs, Append(r, y)) /\ Cat(xs, r) \in Seq(V)
    <3>1. Attaches(xs, r, y)
      BY <1>0, AppendConcat
    <3>. QED BY <1>0, <3>1, CatType DEF Attaches, Cat
  <2>2. FlattenSeq(Append(Cat(xs, r), y)) = Cat(FlattenSeq(Cat(xs, r)), y)
    BY <2>1, FlattenAppend DEF V
  <2>3. FlattenSeq(Append(r, y)) = Cat(FlattenSeq(r), y)
    BY FlattenAppend DEF V
  <2>4. FlattenSeq(Cat(xs, r)) = Cat(x, FlattenSeq(r))
    BY <1>2 DEF FlattensBehind, xs
  <2>5. FlattenSeq(r) \in Seq(X)
    BY FlattenType DEF V
  <2>6. Cat(Cat(x, FlattenSeq(r)), y) = Cat(x, Cat(FlattenSeq(r), y))
    BY <2>5, CatAssociative DEF V
  <2>7. FlattensBehind(x, Append(r, y))
    BY <2>1, <2>2, <2>3, <2>4, <2>6 DEF FlattensBehind, xs
  <2>. QED BY <2>7, AppendProperties
<1>3. ss \in P
  <2>. HIDE DEF P, V
  <2>0. \A r \in Seq(V), y \in V : r \in P => Append(r, y) \in P
    BY <1>2
  <2>1. \A r \in Seq(V) : r \in P
    BY <1>1, <2>0, AppendInduction DEF e
  <2>. QED BY <2>1 DEF V
<1>. QED BY <1>3

-----------------------------------------------------------------------------
(* A function applied to the members of a sequence, the results behind each *)
(* other.                                                                   *)

Mapped(g, es) == FlattenSeq([i \in 1..Len(es) |-> g[es[i]]])

\* The first result, and those of the rest behind it.
MapsBehind(g, e, es) == Mapped(g, Cat(<<e>>, es)) = Cat(g[e], Mapped(g, es))

\* Nothing gives nothing.
LEMMA MappedEmpty == \A g : Mapped(g, <<>>) = <<>>
<1>. TAKE g
<1>1. [i \in 1..Len(<<>>) |-> g[<<>>[i]]] = <<>>
  OBVIOUS
<1>. QED BY <1>1, FlattenEmpty DEF Mapped

\* The results are sequences, and so is all of them together.
LEMMA MappedType ==
  ASSUME NEW E, NEW X, NEW g \in [E -> Seq(X)], NEW es \in Seq(E)
  PROVE  Mapped(g, es) \in Seq(X)
<1>1. [i \in 1..Len(es) |-> g[es[i]]] \in Seq(Seq(X))
  <2>1. \A i \in 1..Len(es) : g[es[i]] \in Seq(X)
    BY ElementOfSeq
  <2>. DEFINE V == Seq(X)
  <2>. HIDE DEF V
  <2>2. [i \in 1..Len(es) |-> g[es[i]]] \in Seq(V)
    BY <2>1, LenProperties DEF V
  <2>. QED BY <2>2 DEF V
<1>. QED BY <1>1, FlattenType DEF Mapped

\* One member more, in front.
LEMMA MappedHead ==
  ASSUME NEW E, NEW X, NEW g \in [E -> Seq(X)], NEW es \in Seq(E), NEW e \in E
  PROVE  MapsBehind(g, e, es)
<1>. DEFINE V == Seq(X)
            ts == [i \in 1..Len(es) |-> g[es[i]]]
            fs == Cat(<<e>>, es)
            us == [i \in 1..Len(fs) |-> g[fs[i]]]
            n == Len(es)
<1>1. g[e] \in V /\ \A i \in 1..n : g[es[i]] \in V
  BY ElementOfSeq
<1>2. n \in Nat /\ ts \in Seq(V) /\ Len(ts) = n
  <2>. HIDE DEF V
  <2>. QED BY <1>1, LenProperties
<1>3. /\ Len(fs) = n + 1 /\ fs[1] = e
      /\ \A i \in 2..(n + 1) : fs[i] = es[i - 1]
  BY DEF Cat
<1>. HIDE DEF V, n, fs
<1>4. us = Cat(<<g[e]>>, ts)
  <2>. DEFINE vs == Cat(<<g[e]>>, ts)
  <2>1. /\ vs \in Seq(V) /\ Len(vs) = n + 1 /\ vs[1] = g[e]
        /\ \A i \in 2..(n + 1) : vs[i] = ts[i - 1]
    <3>. HIDE DEF ts
    <3>. QED BY <1>1, <1>2 DEF Cat
  <2>2. ASSUME NEW i \in 1..(n + 1) PROVE us[i] = vs[i] /\ us[i] \in V
    <3>. HIDE DEF vs
    <3>1. CASE i = 1
      BY <1>1, <1>2, <1>3, <2>1, <3>1
    <3>2. CASE i # 1
      <4>1. i \in 2..(n + 1) /\ i - 1 \in 1..n
        BY <1>2, <3>2
      <4>2. us[i] = g[es[i - 1]]
        BY <1>3, <4>1
      <4>. QED BY <1>1, <2>1, <4>1, <4>2 DEF n
    <3>. QED BY <3>1, <3>2
  <2>3. us \in Seq(V) /\ Len(us) = n + 1
    <3>. HIDE DEF vs
    <3>. QED BY <1>2, <1>3, <2>2
  <2>. HIDE DEF us, vs
  <2>4. us = vs
    BY <2>1, <2>2, <2>3, SeqEqual
  <2>. QED BY <2>4 DEF vs
<1>5. FlattensBehind(g[e], ts)
  <2>. HIDE DEF ts
  <2>. QED BY <1>1, <1>2, FlattenHead DEF V
<1>. QED BY <1>4, <1>5 DEF FlattensBehind, MapsBehind, Mapped, fs

-----------------------------------------------------------------------------
(* Lines of a list, and their fields. *)

\* server_vector drops the pieces of one byte.
Kept(qs) == FlattenSeq([i \in 1..Len(qs) |-> IF IsByte(qs[i]) THEN <<>> ELSE <<qs[i]>>])

\* The fields of what stands behind the first entry.
Rest(r) == SplitCommas(Kept(Pieces(r, Semi)))

\* A piece in front is kept, unless it is a byte.
LEMMA KeptHead ==
  ASSUME NEW X, NEW qs \in Seq(Seq(X)), NEW p \in Seq(X)
  PROVE  /\ Kept(qs) \in Seq(Seq(X))
         /\ Kept(Cat(<<p>>, qs)) = Cat(IF IsByte(p) THEN <<>> ELSE <<p>>, Kept(qs))
<1>. DEFINE V == Seq(X)
            g == [q \in V |-> IF IsByte(q) THEN <<>> ELSE <<q>>]
            ps == Cat(<<p>>, qs)
<1>1. g \in [V -> Seq(V)]
  <2>1. ASSUME NEW q \in V PROVE (IF IsByte(q) THEN <<>> ELSE <<q>>) \in Seq(V)
    <3>. HIDE DEF V
    <3>. QED OBVIOUS
  <2>. HIDE DEF V
  <2>. QED BY <2>1
<1>2. ps \in Seq(V)
  <2>. HIDE DEF V
  <2>1. <<p>> \in Seq(V)
    BY DEF V
  <2>. QED BY <2>1, CatType DEF V
<1>3. ASSUME NEW rs \in Seq(V) PROVE Kept(rs) = Mapped(g, rs)
  <2>1. \A i \in 1..Len(rs) : rs[i] \in V
    BY ElementOfSeq
  <2>. HIDE DEF V
  <2>2. [i \in 1..Len(rs) |-> IF IsByte(rs[i]) THEN <<>> ELSE <<rs[i]>>]
           = [i \in 1..Len(rs) |-> g[rs[i]]]
    BY <2>1
  <2>. QED BY <2>2 DEF Kept, Mapped
<1>4. g[p] = IF IsByte(p) THEN <<>> ELSE <<p>>
  OBVIOUS
<1>. HIDE DEF g, ps
<1>5. Mapped(g, qs) \in Seq(V) /\ MapsBehind(g, p, qs)
  <2>1. qs \in Seq(V) /\ p \in V
    OBVIOUS
  <2>. HIDE DEF V
  <2>. QED BY <1>1, <2>1, MappedType, MappedHead
<1>6. Kept(qs) = Mapped(g, qs) /\ Kept(ps) = Mapped(g, ps)
  BY <1>2, <1>3
<1>. QED BY <1>4, <1>5, <1>6 DEF MapsBehind, ps

\* A line is read to fields that are strings.
LEMMA GetlineType ==
  ASSUME NEW X, NEW t \in Seq(X), NEW c
  PROVE  WhileGetline(t, c) \in Seq(Seq(X))
<1>. DEFINE V == Seq(X)
            ps == Pieces(t, c)
<1>1. ps \in Seq(V) /\ ps # <<>>
  BY PiecesType DEF PieceSeq
<1>. HIDE DEF V, ps
<1>2. Front(ps) \in Seq(V)
  <2>1. Len(ps) \in Nat /\ \A i \in 1..(Len(ps) - 1) : ps[i] \in V
    BY <1>1
  <2>. QED BY <2>1, SubSeqProperties DEF Front
<1>3. WhileGetline(t, c) \in Seq(V)
  BY <1>1, <1>2 DEF WhileGetline, ps
<1>. QED BY <1>3 DEF V

\* The fields of the line in front come out in front.
LEMMA SplitHead ==
  ASSUME NEW X, NEW ts \in Seq(Seq(X)), NEW t \in Seq(X)
  PROVE  /\ SplitCommas(ts) \in Seq(Seq(X))
         /\ SplitCommas(Cat(<<t>>, ts)) = Cat(WhileGetline(t, Comma), SplitCommas(ts))
<1>. DEFINE V == Seq(X)
            g == [q \in V |-> WhileGetline(q, Comma)]
            us == Cat(<<t>>, ts)
<1>1. g \in [V -> Seq(V)]
  <2>1. ASSUME NEW q \in V PROVE WhileGetline(q, Comma) \in Seq(V)
    BY GetlineType
  <2>. HIDE DEF V
  <2>. QED BY <2>1
<1>2. us \in Seq(V)
  <2>. HIDE DEF V
  <2>1. <<t>> \in Seq(V)
    BY DEF V
  <2>. QED BY <2>1, CatType DEF V
<1>3. ASSUME NEW rs \in Seq(V) PROVE SplitCommas(rs) = Mapped(g, rs)
  <2>1. \A i \in 1..Len(rs) : rs[i] \in V
    BY ElementOfSeq
  <2>. HIDE DEF V
  <2>2. [i \in 1..Len(rs) |-> WhileGetline(rs[i], Comma)] = [i \in 1..Len(rs) |-> g[rs[i]]]
    BY <2>1
  <2>. QED BY <2>2 DEF SplitCommas, Mapped
<1>4. g[t] = WhileGetline(t, Comma)
  OBVIOUS
<1>. HIDE DEF g, us
<1>5. Mapped(g, ts) \in Seq(V) /\ MapsBehind(g, t, ts)
  <2>1. ts \in Seq(V) /\ t \in V
    OBVIOUS
  <2>. HIDE DEF V
  <2>. QED BY <1>1, <2>1, MappedType, MappedHead
<1>6. SplitCommas(ts) = Mapped(g, ts) /\ SplitCommas(us) = Mapped(g, us)
  BY <1>2, <1>3
<1>. QED BY <1>4, <1>5, <1>6 DEF MapsBehind, us

\* No line, no field.
LEMMA NoLines == Kept(<<>>) = <<>> /\ SplitCommas(<<>>) = <<>>
<1>. DEFINE e == <<>>
<1>1. /\ [i \in 1..Len(e) |-> IF IsByte(e[i]) THEN <<>> ELSE <<e[i]>>] = <<>>
      /\ [i \in 1..Len(e) |-> WhileGetline(e[i], Comma)] = <<>>
  OBVIOUS
<1>. QED BY <1>1, FlattenEmpty DEF Kept, SplitCommas

\* The fields of the rest are strings.
LEMMA RestType ==
  ASSUME NEW X, NEW r \in Seq(X)
  PROVE  Rest(r) \in Seq(Seq(X))
<1>. DEFINE e == <<>>
            ks == Kept(Pieces(r, Semi))
<1>1. e \in Seq(X)
  OBVIOUS
<1>2. ks \in Seq(Seq(X))
  BY <1>1, PiecesType, KeptHead DEF PieceSeq
<1>. HIDE DEF ks, e
<1>. QED BY <1>1, <1>2, SplitHead DEF Rest, ks

\* The first line of r is read, then what is behind it.
ReadsLine(w, r) == Rest(Cat(Cat(w, <<Semi>>), r)) = Cat(WhileGetline(w, Comma), Rest(r))

\* A line that is no single byte.
LEMMA RestLine ==
  ASSUME NEW X, Semi \in X, NEW w \in Seq(X \ {Semi}), ~ IsByte(w), NEW r \in Seq(X)
  PROVE  ReadsLine(w, r)
<1>. DEFINE qs == Pieces(r, Semi)
            m == Cat(Cat(w, <<Semi>>), r)
<1>1. w \in Seq(X) /\ qs \in Seq(Seq(X)) /\ <<w>> \in Seq(Seq(X))
  BY SeqMonotonic, PiecesType DEF PieceSeq
<1>2. Pieces(m, Semi) = Cat(<<w>>, qs)
  <2>1. Joins(w, r, Semi)
    BY <1>1, PiecesJoin
  <2>2. Pieces(w, Semi) = <<w>>
    BY PiecesOne
  <2>. QED BY <2>1, <2>2 DEF Joins, Cat
<1>. HIDE DEF qs, m
<1>3. Kept(qs) \in Seq(Seq(X)) /\ Kept(Cat(<<w>>, qs)) = Cat(<<w>>, Kept(qs))
  BY <1>1, KeptHead
<1>4. SplitCommas(Cat(<<w>>, Kept(qs))) = Cat(WhileGetline(w, Comma), SplitCommas(Kept(qs)))
  BY <1>1, <1>3, SplitHead
<1>. QED BY <1>2, <1>3, <1>4 DEF ReadsLine, Rest, qs, m

-----------------------------------------------------------------------------
(* Entries. *)

\* A name, an address, a port: one word.
Words(X) == {<<w>> : w \in X \ OneByte}

NamedEntries(X) == [name : Words(X), ip : Words(X), port : Words(X)]

ListEntries(X) == NamedEntries(X) \cup {Unnamed}

\* What a reader gets from an entry: an unnamed one has a field too few.
EntryFields(e) == IF e = Unnamed THEN << <<>>, <<>> >> ELSE Fields(e)

Line(e) == e.name \o <<Comma>> \o e.ip \o <<Comma>> \o e.port

\* The separators are bytes, and two of them.
LEMMA Separators == Comma \in OneByte /\ Semi \in OneByte /\ Comma # Semi
  BY DEF Comma, Semi, OneByte, Byte

\* What an entry is made of.
LEMMA EntryParts ==
  ASSUME NEW X, NEW e \in ListEntries(X), NEW c \in OneByte
  PROVE  e.name \in Seq(X \ {c}) /\ e.ip \in Seq(X \ {c}) /\ e.port \in Seq(X \ {c})
<1>1. ASSUME NEW t \in Words(X) PROVE t \in Seq(X \ {c})
  <2>1. PICK w \in X \ OneByte : t = <<w>>
    BY DEF Words
  <2>2. w \in X \ {c}
    OBVIOUS
  <2>. QED BY <2>1, <2>2
<1>2. <<>> \in Seq(X \ {c})
  OBVIOUS
<1>3. CASE e \in NamedEntries(X)
  BY <1>1, <1>3 DEF NamedEntries
<1>4. CASE e = Unnamed
  BY <1>2, <1>4 DEF Unnamed
<1>. QED BY <1>3, <1>4 DEF ListEntries

\* A line holds no ';', and is no single byte.
LEMMA LineType ==
  ASSUME NEW X, Comma \in X, NEW e \in ListEntries(X)
  PROVE  Line(e) \in Seq(X \ {Semi}) /\ ~ IsByte(Line(e))
<1>. DEFINE Y == X \ {Semi}
            n == e.name
            a == e.ip
            p == e.port
            s == n \o <<Comma>>
            t == s \o a
            u == t \o <<Comma>>
<1>1. n \in Seq(Y) /\ a \in Seq(Y) /\ p \in Seq(Y)
  BY EntryParts, Separators
<1>2. <<Comma>> \in Seq(Y) /\ Len(<<Comma>>) = 1
  BY Separators
<1>. HIDE DEF n, a, p, Y
<1>3. s \in Seq(Y) /\ Len(s) = Len(n) + 1
  BY <1>1, <1>2, ConcatProperties
<1>. HIDE DEF s
<1>4. t \in Seq(Y) /\ Len(t) = Len(s) + Len(a)
  BY <1>1, <1>3, ConcatProperties
<1>. HIDE DEF t
<1>5. u \in Seq(Y) /\ Len(u) = Len(t) + 1
  BY <1>2, <1>4, ConcatProperties
<1>. HIDE DEF u
<1>6. u \o p \in Seq(Y) /\ Len(u \o p) = Len(u) + Len(p)
  BY <1>1, <1>5, ConcatProperties
<1>7. Len(u \o p) # 1
  BY <1>1, <1>3, <1>4, <1>5, <1>6, LenProperties
<1>8. Line(e) = u \o p
  BY DEF Line, u, t, s, n, a, p
<1>. QED BY <1>6, <1>7, <1>8 DEF IsByte, Y

\* Where the members of two sequences are.
InTurn(s, t) ==
  /\ Len(Cat(s, t)) = Len(s) + Len(t)
  /\ \A i \in 1..Len(s) : Cat(s, t)[i] = s[i]
  /\ \A i \in 1..Len(t) : Cat(s, t)[Len(s) + i] = t[i]

\* They are there.
LEMMA CatMembers ==
  ASSUME NEW S, NEW s \in Seq(S), NEW t \in Seq(S)
  PROVE  InTurn(s, t)
<1>. DEFINE v == s \o t
<1>1. /\ v \in Seq(S) /\ Len(v) = Len(s) + Len(t) /\ Len(s) \in Nat /\ Len(t) \in Nat
      /\ \A i \in 1..(Len(s) + Len(t)) : v[i] = IF i <= Len(s) THEN s[i] ELSE t[i - Len(s)]
  BY ConcatProperties, LenProperties
<1>. HIDE DEF v
<1>2. ASSUME NEW i \in 1..Len(s) PROVE v[i] = s[i]
  BY <1>1
<1>3. ASSUME NEW i \in 1..Len(t) PROVE v[Len(s) + i] = t[i]
  <2>1. Len(s) + i \in 1..(Len(s) + Len(t)) /\ ~ Len(s) + i <= Len(s) /\ (Len(s) + i) - Len(s) = i
    BY <1>1
  <2>. QED BY <1>1, <2>1
<1>. QED BY <1>1, <1>2, <1>3 DEF v, Cat, InTurn

\* Three fields, one behind the other.
LEMMA ThreeFields ==
  \A x, y, z : Cat(<<x>>, <<y>>) = <<x, y>> /\ Cat(<<x, y>>, <<z>>) = <<x, y, z>>
<1>. TAKE x, y, z
<1>. DEFINE S == {x, y, z}
            a == <<x>>
            b == <<y>>
            c == <<z>>
            ab == <<x, y>>
            abc == <<x, y, z>>
<1>1. /\ a \in Seq(S) /\ Len(a) = 1 /\ a[1] = x
      /\ b \in Seq(S) /\ Len(b) = 1 /\ b[1] = y
      /\ c \in Seq(S) /\ Len(c) = 1 /\ c[1] = z
      /\ ab \in Seq(S) /\ Len(ab) = 2 /\ ab[1] = x /\ ab[2] = y
      /\ abc \in Seq(S) /\ Len(abc) = 3 /\ abc[1] = x /\ abc[2] = y /\ abc[3] = z
  OBVIOUS
<1>. HIDE DEF S, a, b, c, ab, abc
<1>2. Cat(a, b) \in Seq(S) /\ Len(Cat(a, b)) = 2 /\ Cat(a, b)[1] = x /\ Cat(a, b)[2] = y
  <2>1. Cat(a, b) \in Seq(S) /\ InTurn(a, b)
    BY <1>1, CatType, CatMembers
  <2>2. Cat(a, b)[Len(a) + 1] = b[1] /\ Len(a) + 1 = 2
    BY <1>1, <2>1 DEF InTurn
  <2>. QED BY <1>1, <2>1, <2>2 DEF InTurn
<1>3. /\ Cat(ab, c) \in Seq(S) /\ Len(Cat(ab, c)) = 3
      /\ Cat(ab, c)[1] = x /\ Cat(ab, c)[2] = y /\ Cat(ab, c)[3] = z
  <2>1. Cat(ab, c) \in Seq(S) /\ InTurn(ab, c)
    BY <1>1, CatType, CatMembers
  <2>2. Cat(ab, c)[Len(ab) + 1] = c[1] /\ Len(ab) + 1 = 3
    BY <1>1, <2>1 DEF InTurn
  <2>. QED BY <1>1, <2>1, <2>2 DEF InTurn
<1>4. (\A i \in 1..2 : i = 1 \/ i = 2) /\ (\A i \in 1..3 : i = 1 \/ i = 2 \/ i = 3)
  OBVIOUS
<1>5. Cat(a, b) = ab
  BY <1>1, <1>2, <1>4, SeqEqual
<1>6. Cat(ab, c) = abc
  BY <1>1, <1>3, <1>4, SeqEqual
<1>. QED BY <1>5, <1>6 DEF a, b, c, ab, abc

\* Without the last of three.
LEMMA FrontOfThree == \A x, y, z : Front(<<x, y, z>>) = <<x, y>>
<1>. TAKE x, y, z
<1>. DEFINE S == {x, y, z}
            s == <<x, y, z>>
            w == <<x, y>>
            u == SubSeq(s, 1, 2)
<1>1. s[1] = x /\ s[2] = y /\ Len(s) = 3 /\ w \in Seq(S) /\ Len(w) = 2 /\ w[1] = x /\ w[2] = y
  OBVIOUS
<1>0. x \in S /\ y \in S
  OBVIOUS
<1>. HIDE DEF S, s, w
<1>2. u \in Seq(S) /\ Len(u) = 2 /\ u[1] = x /\ u[2] = y
  BY <1>0, <1>1
<1>. HIDE DEF u
<1>3. \A i \in 1..2 : i = 1 \/ i = 2
  OBVIOUS
<1>4. u = w
  BY <1>1, <1>2, <1>3, SeqEqual
<1>. QED BY <1>1, <1>4 DEF u, w, s, Front

\* The pieces of a line are the fields of its entry.
LEMMA LinePieces ==
  ASSUME NEW X, Comma \in X, NEW e \in ListEntries(X)
  PROVE  Pieces(Line(e), Comma) = Fields(e)
<1>. DEFINE n == e.name
            a == e.ip
            p == e.port
            s == (n \o <<Comma>>) \o a
            m == (s \o <<Comma>>) \o p
<1>1. n \in Seq(X \ {Comma}) /\ a \in Seq(X \ {Comma}) /\ p \in Seq(X \ {Comma})
  BY EntryParts, Separators
<1>2. n \in Seq(X) /\ a \in Seq(X) /\ p \in Seq(X)
  BY <1>1, SeqMonotonic
<1>. HIDE DEF n, a, p
<1>3. Pieces(n, Comma) = <<n>> /\ Pieces(a, Comma) = <<a>> /\ Pieces(p, Comma) = <<p>>
  BY <1>1, PiecesOne
<1>4. s \in Seq(X)
  <2>1. n \o <<Comma>> \in Seq(X)
    BY <1>2
  <2>. QED BY <1>2, <2>1, ConcatProperties
<1>5. Pieces(s, Comma) = <<n, a>>
  <2>1. Joins(n, a, Comma)
    BY <1>2, PiecesJoin
  <2>. QED BY <1>3, <2>1, ThreeFields DEF Joins, Cat
<1>. HIDE DEF s
<1>6. Pieces(m, Comma) = <<n, a, p>>
  <2>1. Joins(s, p, Comma)
    BY <1>2, <1>4, PiecesJoin
  <2>. QED BY <1>3, <1>5, <2>1, ThreeFields DEF Joins, Cat
<1>. QED BY <1>6 DEF Line, Fields, m, s, n, a, p

\* So getline() gets them, but for an empty last one.
LEMMA LineFields ==
  ASSUME NEW X, Comma \in X, NEW e \in ListEntries(X)
  PROVE  WhileGetline(Line(e), Comma) = EntryFields(e)
<1>1. Pieces(Line(e), Comma) = <<e.name, e.ip, e.port>>
  BY LinePieces DEF Fields
<1>2. Last(<<e.name, e.ip, e.port>>) = e.port
  BY DEF Last
<1>3. CASE e \in NamedEntries(X)
  <2>1. e.port # <<>> /\ e.name # <<>>
    BY <1>3 DEF NamedEntries, Words
  <2>2. e # Unnamed
    BY <2>1 DEF Unnamed
  <2>. QED BY <1>1, <1>2, <2>1, <2>2 DEF WhileGetline, EntryFields, Fields
<1>4. CASE e = Unnamed
  <2>1. e.name = <<>> /\ e.ip = <<>> /\ e.port = <<>>
    BY <1>4 DEF Unnamed
  <2>2. Front(<< <<>>, <<>>, <<>> >>) = << <<>>, <<>> >>
    BY FrontOfThree
  <2>. QED BY <1>1, <1>2, <1>4, <2>1, <2>2 DEF WhileGetline, EntryFields
<1>. QED BY <1>3, <1>4 DEF ListEntries

\* The text of an entry is its line and a ';'.
LEMMA TextOfLine == \A e : EntryText(e) = Cat(Line(e), <<Semi>>)
  BY DEF EntryText, Line, Cat

\* e is read, then what is behind it.
ReadsEntry(e, r) == Rest(Cat(EntryText(e), r)) = Cat(EntryFields(e), Rest(r))

\* Every entry is.
LEMMA RestEntry ==
  ASSUME NEW X, Comma \in X, Semi \in X, NEW e \in ListEntries(X), NEW r \in Seq(X)
  PROVE  ReadsEntry(e, r)
<1>1. ReadsLine(Line(e), r)
  BY LineType, RestLine
<1>. QED BY <1>1, LineFields, TextOfLine DEF ReadsLine, ReadsEntry

\* Behind the last entry there is nothing to read.
LEMMA RestEmpty == Rest(<<>>) = <<>>
<1>. DEFINE e == <<>>
            es == <<e>>
<1>1. Pieces(e, Semi) = es /\ Pieces(e, Comma) = es
  BY PiecesEmpty
<1>2. ~ IsByte(e)
  BY DEF IsByte
<1>3. Kept(es) = es
  <2>1. e \in Seq({}) /\ e \in Seq(Seq({})) /\ es \in Seq(Seq({}))
    OBVIOUS
  <2>. HIDE DEF e
  <2>2. Kept(Cat(<<e>>, e)) = Cat(<<e>>, Kept(e))
    BY <1>2, <2>1, KeptHead
  <2>3. Kept(e) = e
    BY NoLines DEF e
  <2>4. Cat(es, e) = es
    BY <2>1, CatEmpty DEF e
  <2>. HIDE DEF es
  <2>. QED BY <2>2, <2>3, <2>4 DEF es
<1>4. WhileGetline(e, Comma) = e
  <2>1. Last(es) = e /\ Front(es) = e
    BY DEF Last, Front
  <2>. HIDE DEF es
  <2>. QED BY <1>1, <2>1 DEF WhileGetline
<1>5. SplitCommas(es) = e
  <2>1. e \in Seq({}) /\ e \in Seq(Seq({})) /\ es \in Seq(Seq({}))
    OBVIOUS
  <2>. HIDE DEF e
  <2>2. SplitCommas(Cat(<<e>>, e)) = Cat(WhileGetline(e, Comma), SplitCommas(e))
    BY <2>1, SplitHead
  <2>3. SplitCommas(e) = e
    BY NoLines DEF e
  <2>4. Cat(es, e) = es /\ Cat(e, e) = e
    BY <2>1, CatEmpty DEF e
  <2>. HIDE DEF es
  <2>. QED BY <1>4, <2>2, <2>3, <2>4 DEF es
<1>. HIDE DEF es
<1>. QED BY <1>1, <1>3, <1>5 DEF Rest

-----------------------------------------------------------------------------
(* A whole list. *)

Body(es)       == FlattenSeq([i \in 1..Len(es) |-> EntryText(es[i])])
ReadFields(es) == FlattenSeq([i \in 1..Len(es) |-> EntryFields(es[i])])

\* The word, the comma and the entry of the sender.
ListHead(self) == <<Word("SERVERS"), Comma>> \o EntryText(self)

\* The symbols of lists.
ListAlphabet(X) == Comma \in X /\ Semi \in X /\ Word("SERVERS") \in X

\* The text of an entry, and what is read of it.
LEMMA EntryType ==
  ASSUME NEW X, ListAlphabet(X), NEW e \in ListEntries(X)
  PROVE  EntryText(e) \in Seq(X) /\ EntryFields(e) \in Seq(Seq(X))
<1>1. Line(e) \in Seq(X) /\ <<Semi>> \in Seq(X)
  <2>. DEFINE l == Line(e)
  <2>1. l \in Seq(X \ {Semi})
    BY LineType DEF ListAlphabet
  <2>. HIDE DEF l
  <2>2. l \in Seq(X)
    BY <2>1, SeqMonotonic
  <2>. QED BY <2>2 DEF ListAlphabet, l
<1>2. EntryText(e) \in Seq(X)
  BY <1>1, TextOfLine, CatType
<1>3. EntryFields(e) \in Seq(Seq(X))
  BY <1>1, LineFields, GetlineType DEF ListAlphabet
<1>. QED BY <1>2, <1>3

\* The text of a list with one entry more.
LEMMA BodyHead ==
  ASSUME NEW X, ListAlphabet(X), NEW es \in Seq(ListEntries(X)), NEW e \in ListEntries(X)
  PROVE  /\ Body(es) \in Seq(X)
         /\ Body(Cat(<<e>>, es)) = Cat(EntryText(e), Body(es))
<1>. DEFINE E == ListEntries(X)
            g == [d \in E |-> EntryText(d)]
            fs == Cat(<<e>>, es)
<1>0. es \in Seq(E) /\ e \in E /\ <<e>> \in Seq(E)
  <2>. HIDE DEF E
  <2>1. es \in Seq(E) /\ e \in E
    BY DEF E
  <2>. QED BY <2>1
<1>1. g \in [E -> Seq(X)]
  BY EntryType
<1>. HIDE DEF E
<1>2. fs \in Seq(E)
  BY <1>0, CatType
<1>3. ASSUME NEW rs \in Seq(E) PROVE Body(rs) = Mapped(g, rs)
  <2>1. \A i \in 1..Len(rs) : rs[i] \in E
    BY ElementOfSeq
  <2>2. [i \in 1..Len(rs) |-> EntryText(rs[i])] = [i \in 1..Len(rs) |-> g[rs[i]]]
    BY <2>1
  <2>. QED BY <2>2 DEF Body, Mapped
<1>4. g[e] = EntryText(e)
  BY <1>0
<1>. HIDE DEF g, fs
<1>5. Mapped(g, es) \in Seq(X) /\ MapsBehind(g, e, es)
  BY <1>0, <1>1, MappedType, MappedHead
<1>6. Body(es) = Mapped(g, es) /\ Body(fs) = Mapped(g, fs)
  BY <1>0, <1>2, <1>3
<1>. QED BY <1>4, <1>5, <1>6 DEF MapsBehind, fs

\* What is read of a list with one entry more.
LEMMA ReadHead ==
  ASSUME NEW X, ListAlphabet(X), NEW es \in Seq(ListEntries(X)), NEW e \in ListEntries(X)
  PROVE  /\ ReadFields(es) \in Seq(Seq(X))
         /\ ReadFields(Cat(<<e>>, es)) = Cat(EntryFields(e), ReadFields(es))
<1>. DEFINE E == ListEntries(X)
            V == Seq(X)
            g == [d \in E |-> EntryFields(d)]
            fs == Cat(<<e>>, es)
<1>0. es \in Seq(E) /\ e \in E /\ <<e>> \in Seq(E)
  <2>. HIDE DEF E
  <2>1. es \in Seq(E) /\ e \in E
    BY DEF E
  <2>. QED BY <2>1
<1>1. g \in [E -> Seq(V)]
  <2>1. \A d \in E : EntryFields(d) \in Seq(V)
    BY EntryType
  <2>. HIDE DEF V
  <2>. QED BY <2>1
<1>. HIDE DEF E, V
<1>2. fs \in Seq(E)
  BY <1>0, CatType
<1>3. ASSUME NEW rs \in Seq(E) PROVE ReadFields(rs) = Mapped(g, rs)
  <2>1. \A i \in 1..Len(rs) : rs[i] \in E
    BY ElementOfSeq
  <2>2. [i \in 1..Len(rs) |-> EntryFields(rs[i])] = [i \in 1..Len(rs) |-> g[rs[i]]]
    BY <2>1
  <2>. QED BY <2>2 DEF ReadFields, Mapped
<1>4. g[e] = EntryFields(e)
  BY <1>0
<1>. HIDE DEF g, fs
<1>5. Mapped(g, es) \in Seq(V) /\ MapsBehind(g, e, es)
  BY <1>0, <1>1, MappedType, MappedHead
<1>6. ReadFields(es) = Mapped(g, es) /\ ReadFields(fs) = Mapped(g, fs)
  BY <1>0, <1>2, <1>3
<1>. QED BY <1>4, <1>5, <1>6 DEF MapsBehind, fs, V

\* A list without entries.
LEMMA NoEntries == Body(<<>>) = <<>> /\ ReadFields(<<>>) = <<>>
<1>. DEFINE e == <<>>
<1>1. /\ [i \in 1..Len(e) |-> EntryText(e[i])] = <<>>
      /\ [i \in 1..Len(e) |-> EntryFields(e[i])] = <<>>
  OBVIOUS
<1>. QED BY <1>1, FlattenEmpty DEF Body, ReadFields

\* All entries are read.
LEMMA RestBody ==
  ASSUME NEW X, ListAlphabet(X), NEW es \in Seq(ListEntries(X))
  PROVE  Rest(Body(es)) = ReadFields(es)
<1>. DEFINE E == ListEntries(X)
            P == {rs \in Seq(E) : Rest(Body(rs)) = ReadFields(rs)}
            e == <<>>
<1>1. e \in P
  <2>1. e \in Seq(E)
    <3>. HIDE DEF E
    <3>. QED OBVIOUS
  <2>. QED BY <2>1, NoEntries, RestEmpty
<1>2. ASSUME NEW rs \in Seq(E), NEW d \in E, rs \in P PROVE Cat(<<d>>, rs) \in P
  <2>. DEFINE ds == Cat(<<d>>, rs)
  <2>1. ds \in Seq(E)
    <3>. HIDE DEF E
    <3>1. <<d>> \in Seq(E)
      OBVIOUS
    <3>. QED BY <3>1, CatType
  <2>2. /\ Body(rs) \in Seq(X) /\ Body(ds) = Cat(EntryText(d), Body(rs))
        /\ ReadFields(ds) = Cat(EntryFields(d), ReadFields(rs))
    BY BodyHead, ReadHead
  <2>. HIDE DEF ds
  <2>3. ReadsEntry(d, Body(rs))
    BY <2>2, RestEntry DEF ListAlphabet
  <2>4. Rest(Body(ds)) = ReadFields(ds)
    BY <1>2, <2>2, <2>3 DEF ReadsEntry
  <2>. QED BY <2>1, <2>4 DEF ds
<1>3. es \in P
  <2>. HIDE DEF P
  <2>1. \A rs \in Seq(E), d \in E : rs \in P => <<d>> \o rs \in P
    BY <1>2 DEF Cat
  <2>. HIDE DEF E
  <2>2. \A rs \in Seq(E) : rs \in P
    BY <1>1, <2>1, HeadInduction DEF e
  <2>. QED BY <2>2 DEF E
<1>. QED BY <1>3

\* The first two symbols are cut off.
LEMMA WithoutFirstTwo ==
  ASSUME NEW X, NEW x \in X, NEW y \in X, NEW t \in Seq(X)
  PROVE  SubSeq(Cat(<<x, y>>, t), 3, Len(Cat(<<x, y>>, t))) = t
<1>. DEFINE a == <<x, y>>
            v == Cat(a, t)
            u == SubSeq(v, 3, Len(v))
            n == Len(t)
<1>1. a \in Seq(X) /\ Len(a) = 2 /\ n \in Nat
  OBVIOUS
<1>. HIDE DEF a
<1>2. InTurn(a, t) /\ v \in Seq(X)
  BY <1>1, CatMembers, CatType
<1>3. Len(v) = n + 2 /\ \A i \in 1..n : v[2 + i] = t[i]
  BY <1>1, <1>2 DEF InTurn
<1>. HIDE DEF v
<1>4. u \in Seq(X) /\ Len(u) = n /\ \A i \in 1..n : u[i] = v[i + 2]
  <2>1. u \in Seq(X)
    BY <1>1, <1>2, <1>3
  <2>2. Len(u) = n
    BY <1>1, <1>3
  <2>3. ASSUME NEW i \in 1..n PROVE u[i] = v[i + 2]
    BY <1>1, <1>3
  <2>. QED BY <2>1, <2>2, <2>3
<1>. HIDE DEF u, n
<1>5. ASSUME NEW i \in 1..n PROVE u[i] = t[i]
  <2>1. i + 2 = 2 + i
    OBVIOUS
  <2>. QED BY <1>3, <1>4, <2>1
<1>6. u = t
  BY <1>4, <1>5, SeqEqual DEF n
<1>. QED BY <1>6 DEF u, v, a

\* The first member is changed.
LEMMA ExceptFirst ==
  ASSUME NEW S, NEW w \in S, NEW v \in S, NEW qs \in Seq(S)
  PROVE  [Cat(<<w>>, qs) EXCEPT ![1] = v] = Cat(<<v>>, qs)
<1>. DEFINE a == <<w>>
            b == <<v>>
            p == Cat(a, qs)
            q == Cat(b, qs)
            u == [p EXCEPT ![1] = v]
            n == Len(qs)
<1>1. /\ a \in Seq(S) /\ Len(a) = 1 /\ n \in Nat
      /\ b \in Seq(S) /\ Len(b) = 1 /\ b[1] = v
  OBVIOUS
<1>. HIDE DEF a, b
<1>2. InTurn(a, qs) /\ p \in Seq(S) /\ InTurn(b, qs) /\ q \in Seq(S)
  BY <1>1, CatMembers, CatType
<1>3. /\ Len(p) = n + 1 /\ \A i \in 1..n : p[1 + i] = qs[i]
      /\ Len(q) = n + 1 /\ q[1] = v /\ \A i \in 1..n : q[1 + i] = qs[i]
  BY <1>1, <1>2 DEF InTurn
<1>. HIDE DEF p, q, n
<1>4. 1 \in 1..Len(p)
  BY <1>1, <1>3
<1>5. u \in Seq(S) /\ Len(u) = n + 1 /\ \A i \in 1..(n + 1) : u[i] = IF i = 1 THEN v ELSE p[i]
  <2>1. u \in Seq(S) /\ Len(u) = Len(p) /\ \A i \in 1..Len(p) : u[i] = IF i = 1 THEN v ELSE p[i]
    BY <1>2, <1>4, ExceptSeq
  <2>. HIDE DEF u
  <2>. QED BY <1>3, <2>1
<1>. HIDE DEF u
<1>6. ASSUME NEW i \in 1..(n + 1) PROVE u[i] = q[i]
  <2>1. CASE i = 1
    BY <1>1, <1>3, <1>5, <2>1
  <2>2. CASE i # 1
    <3>1. i - 1 \in 1..n /\ 1 + (i - 1) = i
      BY <1>1, <2>2
    <3>2. p[1 + (i - 1)] = qs[i - 1] /\ q[1 + (i - 1)] = qs[i - 1]
      BY <1>3, <3>1
    <3>. QED BY <1>5, <2>2, <3>1, <3>2
  <2>. QED BY <2>1, <2>2
<1>7. u = q
  BY <1>2, <1>3, <1>5, <1>6, SeqEqual
<1>. QED BY <1>7 DEF u, p, q, a, b

\* The sender's entry is read, then what is behind it.
LEMMA ListFieldsHead ==
  ASSUME NEW X, ListAlphabet(X), NEW self \in ListEntries(X), NEW r \in Seq(X)
  PROVE  ListFields(Cat(ListHead(self), r)) = Cat(EntryFields(self), Rest(r))
<1>. DEFINE l == Line(self)
            sc == <<Word("SERVERS"), Comma>>
            w == Cat(sc, l)
            qs == Pieces(r, Semi)
            m == Cat(ListHead(self), r)
<1>1. /\ l \in Seq(X \ {Semi}) /\ ~ IsByte(l) /\ l \in Seq(X)
      /\ <<Semi>> \in Seq(X) /\ sc \in Seq(X) /\ sc \in Seq(X \ {Semi})
  <2>1. Word("SERVERS") # Semi
    BY DEF Word, Semi, Byte
  <2>2. sc \in Seq(X \ {Semi})
    BY <2>1, Separators DEF ListAlphabet
  <2>3. l \in Seq(X \ {Semi}) /\ ~ IsByte(l)
    BY LineType DEF ListAlphabet
  <2>4. l \in Seq(X) /\ sc \in Seq(X)
    <3>. HIDE DEF l, sc
    <3>. QED BY <2>2, <2>3, SeqMonotonic
  <2>5. <<Semi>> \in Seq(X)
    BY DEF ListAlphabet
  <2>. QED BY <2>2, <2>3, <2>4, <2>5
<1>2. qs \in Seq(Seq(X))
  BY PiecesType DEF PieceSeq
<1>. HIDE DEF l, qs
<1>3. w \in Seq(X \ {Semi}) /\ w \in Seq(X)
  <2>. HIDE DEF sc
  <2>. QED BY <1>1, CatType
<1>4. m = Cat(Cat(w, <<Semi>>), r)
  <2>. HIDE DEF sc
  <2>. DEFINE z == <<Semi>>
  <2>0. z \in Seq(X)
    BY <1>1
  <2>. HIDE DEF z
  <2>1. Cat(Cat(sc, l), z) = Cat(sc, Cat(l, z))
    BY <1>1, <2>0, CatAssociative
  <2>2. ListHead(self) = Cat(sc, EntryText(self))
    BY DEF ListHead, Cat, sc
  <2>. QED BY <2>1, <2>2, TextOfLine DEF l, z
<1>5. SubSeq(w, 3, Len(w)) = l
  BY <1>1, WithoutFirstTwo DEF ListAlphabet
<1>. HIDE DEF w, m, sc
<1>6. Pieces(m, Semi) = Cat(<<w>>, qs)
  <2>1. Joins(w, r, Semi)
    BY <1>3, PiecesJoin DEF ListAlphabet
  <2>2. Pieces(w, Semi) = <<w>>
    BY <1>3, PiecesOne
  <2>. QED BY <1>4, <2>1, <2>2 DEF Joins, Cat, qs
<1>7. [Cat(<<w>>, qs) EXCEPT ![1] = SubSeq(@, 3, Len(@))] = Cat(<<l>>, qs)
  <2>1. Cat(<<w>>, qs)[1] = w
    <3>1. <<w>> \in Seq(Seq(X)) /\ Len(<<w>>) = 1 /\ <<w>>[1] = w
      BY <1>3
    <3>2. InTurn(<<w>>, qs)
      BY <1>2, <3>1, CatMembers
    <3>. QED BY <3>1, <3>2 DEF InTurn
  <2>2. [Cat(<<w>>, qs) EXCEPT ![1] = l] = Cat(<<l>>, qs)
    BY <1>1, <1>2, <1>3, ExceptFirst
  <2>. QED BY <1>5, <2>1, <2>2
<1>8. ServerVector(m) = Kept(Cat(<<l>>, qs))
  <2>. DEFINE cs == [Pieces(m, Semi) EXCEPT ![1] = SubSeq(@, 3, Len(@))]
  <2>1. ServerVector(m) = Kept(cs)
    BY DEF ServerVector, WhileGood, Kept
  <2>2. cs = Cat(<<l>>, qs)
    BY <1>6, <1>7
  <2>. HIDE DEF cs
  <2>. QED BY <2>1, <2>2
<1>9. Kept(qs) \in Seq(Seq(X)) /\ Kept(Cat(<<l>>, qs)) = Cat(<<l>>, Kept(qs))
  BY <1>1, <1>2, KeptHead
<1>10. SplitCommas(Cat(<<l>>, Kept(qs))) = Cat(WhileGetline(l, Comma), SplitCommas(Kept(qs)))
  BY <1>1, <1>9, SplitHead
<1>11. WhileGetline(l, Comma) = EntryFields(self)
  BY LineFields DEF l, ListAlphabet
<1>. QED BY <1>8, <1>9, <1>10, <1>11 DEF ListFields, Rest, m, qs

\* A list made by one instance of the program is read by another: the fields
\* of all entries come out in their order, but an unnamed entry has lost one of
\* its three, so that every field behind it is one place too early.  This is
\* what the server does between QUERYSERVERS and the tables of the asker.
THEOREM ListReadsBack ==
  ASSUME NEW X, ListAlphabet(X), NEW self \in NamedEntries(X), NEW es \in Seq(ListEntries(X))
  PROVE  ListFields(ListMessage(self, es)) = Fields(self) \o ReadFields(es)
<1>1. self \in ListEntries(X)
  BY DEF ListEntries
<1>2. EntryFields(self) = Fields(self)
  <2>1. self.name # <<>>
    <3>1. PICK w : self.name = <<w>>
      BY DEF NamedEntries, Words
    <3>. QED BY <3>1
  <2>. QED BY <2>1 DEF EntryFields, Unnamed
<1>3. Body(es) \in Seq(X)
  BY <1>1, BodyHead
<1>4. ListFields(Cat(ListHead(self), Body(es))) = Cat(EntryFields(self), Rest(Body(es)))
  BY <1>1, <1>3, ListFieldsHead
<1>5. ListMessage(self, es) = Cat(ListHead(self), Body(es))
  BY DEF ListMessage, Cat, ListHead, Body
<1>. QED BY <1>2, <1>4, <1>5, RestBody DEF Cat

-----------------------------------------------------------------------------
(* What is glued to a list. *)

\* A single piece is the string; a first piece that is not empty starts it.
StartsString(ps, s) ==
  /\ Len(ps) = 1 => ps[1] = s
  /\ ps[1] # <<>> => s # <<>> /\ Head(ps[1]) = Head(s)

\* The pieces of a string do.
LEMMA FirstPiece ==
  ASSUME NEW X, NEW s \in Seq(X), NEW c
  PROVE  StartsString(Pieces(s, c), s)
<1>. DEFINE P == {r \in Seq(X) : StartsString(Pieces(r, c), r)}
            e == <<>>
<1>1. e \in P
  <2>1. Pieces(e, c) = << <<>> >>
    BY PiecesEmpty
  <2>. QED BY <2>1 DEF StartsString
<1>2. ASSUME NEW r \in Seq(X), NEW x \in X, r \in P PROVE Append(r, x) \in P
  <2>. DEFINE ps == Pieces(r, c)
              qs == WithByte(ps, x, c)
              f == ps[1]
              n == Len(ps)
  <2>1. ps \in Seq(Seq(X)) /\ ps # <<>>
    BY PiecesType DEF PieceSeq
  <2>2. Pieces(Append(r, x), c) = qs
    BY PiecesAppend
  <2>3. StartsString(ps, r)
    BY <1>2
  <2>. HIDE DEF ps
  <2>4. n \in Nat /\ n >= 1 /\ f \in Seq(X) /\ ps[n] \in Seq(X)
    BY <2>1
  <2>5. f # <<>> => r # <<>> /\ Head(f) = Head(r)
    BY <2>3 DEF StartsString
  <2>6. n = 1 => f = r
    BY <2>3 DEF StartsString
  <2>. HIDE DEF f, n, qs
  <2>7. StartsString(qs, Append(r, x))
    <3>1. CASE x = c \/ n # 1
      <4>1. Len(qs) # 1 /\ qs[1] = f
        <5>1. CASE x = c
          <6>1. Len(Append(ps, <<>>)) = n + 1 /\ Append(ps, <<>>)[1] = ps[1]
            BY <2>1, <2>4 DEF n
          <6>. QED BY <2>4, <5>1, <6>1 DEF WithByte, qs, f
        <5>2. CASE x # c
          <6>1. n \in 1..Len(ps) /\ 1 \in 1..Len(ps) /\ n # 1 /\ Append(ps[n], x) \in Seq(X)
            BY <2>4, <3>1, <5>2 DEF n
          <6>2. /\ Len([ps EXCEPT ![n] = Append(ps[n], x)]) = n
                /\ [ps EXCEPT ![n] = Append(ps[n], x)][1] = ps[1]
            BY <2>1, <2>4, <6>1 DEF n
          <6>3. qs = [ps EXCEPT ![n] = Append(ps[n], x)]
            BY <5>2 DEF WithByte, qs, n
          <6>. QED BY <6>1, <6>2, <6>3 DEF f
        <5>. QED BY <5>1, <5>2
      <4>2. f # <<>> => Append(r, x) # <<>> /\ Head(f) = Head(Append(r, x))
        BY <2>5, AppendProperties, HeadTailAppend
      <4>. QED BY <4>1, <4>2 DEF StartsString
    <3>2. CASE x # c /\ n = 1
      <4>1. qs = [ps EXCEPT ![1] = Append(f, x)]
        BY <3>2 DEF WithByte, qs, n, f
      <4>2. Append(f, x) \in Seq(X) /\ 1 \in 1..Len(ps)
        BY <2>4, <3>2 DEF n
      <4>3. Len(qs) = 1 /\ qs[1] = Append(f, x)
        BY <2>1, <3>2, <4>1, <4>2, ExceptSeq DEF n
      <4>4. f = r
        BY <2>6, <3>2
      <4>. QED BY <4>3, <4>4, AppendProperties DEF StartsString
    <3>. QED BY <3>1, <3>2
  <2>. QED BY <2>2, <2>7, AppendProperties
<1>3. s \in P
  <2>. HIDE DEF P
  <2>1. \A r \in Seq(X) : r \in P
    BY <1>1, <1>2, AppendInduction DEF e
  <2>. QED BY <2>1
<1>. QED BY <1>3

\* A line without a ';' behind it is read too.
LEMMA LastLine ==
  ASSUME NEW X, NEW w \in Seq(X \ {Semi}), ~ IsByte(w)
  PROVE  Rest(w) = WhileGetline(w, Comma)
<1>. DEFINE e == <<>>
<1>1. w \in Seq(X) /\ e \in Seq(Seq(X)) /\ WhileGetline(w, Comma) \in Seq(Seq(X))
  <2>1. w \in Seq(X)
    BY SeqMonotonic
  <2>. QED BY <2>1, GetlineType
<1>2. Pieces(w, Semi) = <<w>> /\ <<w>> \in Seq(Seq(X))
  <2>1. <<w>> \in Seq(Seq(X))
    BY <1>1
  <2>2. Pieces(w, Semi) = <<w>>
    BY PiecesOne
  <2>. QED BY <2>1, <2>2
<1>3. Kept(e) = e /\ SplitCommas(e) = e
  BY NoLines
<1>. HIDE DEF e
<1>4. Kept(Cat(<<w>>, e)) = Cat(<<w>>, Kept(e))
  BY <1>1, KeptHead
<1>5. SplitCommas(Cat(<<w>>, e)) = Cat(WhileGetline(w, Comma), SplitCommas(e))
  BY <1>1, SplitHead
<1>6. Cat(<<w>>, e) = <<w>> /\ Cat(WhileGetline(w, Comma), e) = WhileGetline(w, Comma)
  BY <1>1, <1>2, CatEmpty DEF e
<1>. QED BY <1>2, <1>3, <1>4, <1>5, <1>6 DEF Rest

\* What is between the first symbol and the last.
LEMMA Unframed ==
  ASSUME NEW X, NEW x \in X, NEW y \in X, NEW m \in Seq(X)
  PROVE  Contents(Cat(Cat(<<x>>, m), <<y>>)) = m
<1>. DEFINE a == <<x>>
            b == <<y>>
            p == Cat(a, m)
            v == Cat(p, b)
            n == Len(m)
            u == SubSeq(v, 2, Len(v) - 1)
<1>1. a \in Seq(X) /\ Len(a) = 1 /\ b \in Seq(X) /\ Len(b) = 1 /\ n \in Nat
  OBVIOUS
<1>. HIDE DEF a, b
<1>2. InTurn(a, m) /\ p \in Seq(X)
  BY <1>1, CatMembers, CatType
<1>3. Len(p) = n + 1 /\ \A i \in 1..n : p[1 + i] = m[i]
  BY <1>1, <1>2 DEF InTurn
<1>. HIDE DEF p
<1>4. InTurn(p, b) /\ v \in Seq(X)
  BY <1>1, <1>2, CatMembers, CatType
<1>5. Len(v) = n + 2 /\ \A i \in 1..(n + 1) : v[i] = p[i]
  BY <1>1, <1>3, <1>4 DEF InTurn
<1>. HIDE DEF v
<1>6. u \in Seq(X) /\ Len(u) = n /\ \A i \in 1..n : u[i] = v[i + 1]
  <2>1. u \in Seq(X)
    BY <1>1, <1>4, <1>5
  <2>2. Len(u) = n
    BY <1>1, <1>5
  <2>3. ASSUME NEW i \in 1..n PROVE u[i] = v[i + 1]
    BY <1>1, <1>5
  <2>. QED BY <2>1, <2>2, <2>3
<1>. HIDE DEF u, n
<1>7. ASSUME NEW i \in 1..n PROVE u[i] = m[i]
  <2>1. i + 1 = 1 + i /\ i + 1 \in 1..(n + 1)
    BY <1>1
  <2>. QED BY <1>3, <1>5, <1>6, <2>1
<1>8. u = m
  BY <1>6, <1>7, SeqEqual DEF n
<1>. QED BY <1>8 DEF Contents, u, v, p, a, b
=============================================================================
