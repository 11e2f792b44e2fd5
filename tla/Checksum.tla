------------------------------ MODULE Checksum ------------------------------
(***************************************************************************)
(* The one's complement sums of project2/utils.cpp: csum() over 16-bit     *)
(* words, and the destination address checksum_part() forges so that a     *)
(* datagram with a given header gets a given checksum.                     *)
(***************************************************************************)
EXTENDS Integers

Base == 65536  \* 2^16
Word == 0..(Base - 1)

\* The sums of the ten words of a pseudo header and a UDP header.
WordSum == 0..(10 * (Base - 1))

\* csum() folds the carries twice; what it returns is the complement.
Fold(s) ==
  LET once == (s \div Base) + (s % Base)
  IN  (once + (once \div Base)) % Base

Complement(w) == Base - 1 - w

\* Faulty: the borrow of a one's complement subtraction is forgotten.
ForgedAddressNoBorrow(sum, check) ==
  LET t == Complement(check)
      a == Fold(sum)
  IN  IF t >= a THEN <<0, t - a>> ELSE <<Base - 1, (t - a) % Base>>

\* The two words of the address, for a header that sums to sum without it.  The
\* difference is an int and the address has 32 bits: below zero its upper word
\* is all ones.
ForgedAddress(sum, check) ==
  LET t == Complement(check)
      a == Fold(sum)
  IN  IF t >= a THEN <<0, t - a>> ELSE <<Base - 1, (t - a - 1) % Base>>

\* How a receiver verifies: all words and the checksum sum up to all ones.
Verifies(sum, check) ==
  LET address == ForgedAddress(sum, check)
  IN  Fold(sum + address[1] + address[2] + check) = Base - 1
=============================================================================
