----------------------------- MODULE FilterText -----------------------------
(***************************************************************************)
(* The hex texts of a filter's ids and authors: Filter::create reads them  *)
(* with Binary::from_hex, Filter::test compares as many bytes as the text  *)
(* has, and App::find_in_index selects index rows between two keys made of *)
(* them.  Characters are their ASCII codes, keys sequences of bytes.       *)
(***************************************************************************)
EXTENDS Integers, SequencesExt, FiniteSetsExt

CONSTANTS Size,      \* bytes of an id or a pubkey: 32
          CountWidth,\* 2^8: the length of a prefix is an unsigned char
          Ids,       \* ids of stored events
          HexChars,  \* characters a client sends
          MaxText    \* bound on the characters of a text

ASSUME FilterTextAssumption ==
  /\ Size \in Nat \ {0} /\ CountWidth \in Nat /\ CountWidth > Size
  /\ Ids \subseteq [1..Size -> 0..255]
  /\ HexChars \subseteq 0..127 /\ MaxText \in Nat

VARIABLE hextext \* one text of the filter

-----------------------------------------------------------------------------
(* binary.h.                                                               *)

Truth(b) == IF b THEN 1 ELSE 0

\* The value of a character, in an unsigned char; below 16 for more than the digits.
Nibble(a) ==
  ((a - 48) - 7 * Truth(a >= 65) - 32 * Truth(a >= 97)) % 256

Readable2(text, i) == Nibble(text[2 * i - 1]) < 16 /\ Nibble(text[2 * i]) < 16

\* How many bytes from_hex sets: up to the first pair it cannot read.
BytesSet(text) ==
  Max({n \in 0..Size : 2 * n <= Len(text) /\ \A i \in 1..n : Readable2(text, i)})

\* The bytes behind are what was in memory.
from_hex(text, memory) ==
  [i \in 1..Size |-> IF i <= BytesSet(text)
                     THEN 16 * Nibble(text[2 * i - 1]) + Nibble(text[2 * i])
                     ELSE memory[i]]

to_hex(key) ==
  LET Digit(n) == n + 48 + 39 * Truth(n > 9)
      byte(i) == key[(i + 1) \div 2]
  IN [i \in 1..(2 * Len(key)) |-> Digit(IF i % 2 = 1 THEN byte(i) \div 16 ELSE byte(i) % 16)]

-----------------------------------------------------------------------------
(* filter.cpp and app.cpp.                                                 *)

\* Faulty variant: an odd digit counts.
Count_RoundsUp(text) == Min({Size, ((Len(text) + 1) \div 2) % CountWidth})

\* Filter::create: both arguments of std::min are converted to unsigned char.
Count(text) == Min({Size, (Len(text) \div 2) % CountWidth})

\* cmp_shorten: the first count bytes agree.
Shortened(key, count, id) == \A i \in 1..count : key[i] = id[i]

AtMost(a, b) ==
  a = b \/ \E k \in 1..Size : a[k] < b[k] /\ \A i \in 1..(k - 1) : a[i] = b[i]

\* Faulty variant: the first byte behind the prefix is left in the keys.
searchShortenID_LeavesByte(key, count) ==
  {id \in Ids :
     /\ AtMost([i \in 1..Size |-> IF i <= count + 1 THEN key[i] ELSE 0], id)
     /\ AtMost(id, [i \in 1..Size |-> IF i <= count + 1 THEN key[i] ELSE 255])}

\* The rows between the prefix filled up with zeros and with ones.
searchShortenID(key, count) ==
  {id \in Ids :
     /\ AtMost([i \in 1..Size |-> IF i <= count THEN key[i] ELSE 0], id)
     /\ AtMost(id, [i \in 1..Size |-> IF i <= count THEN key[i] ELSE 255])}

\* A whole id is looked up as it is.
RowsOf(key, count) == IF count = Size THEN Ids \cap {key} ELSE searchShortenID(key, count)

-----------------------------------------------------------------------------
FilterTextInit == hextext = <<>>

TypeHex(c) == Len(hextext) < MaxText /\ hextext' = Append(hextext, c)

MoreHex == \E c \in HexChars : TypeHex(c)

HexDigits == 48..57 \cup 65..70 \cup 97..102
LowerHex(text) == [i \in DOMAIN text |-> IF text[i] < 97 /\ text[i] >= 65 THEN text[i] + 32 ELSE text[i]]

-----------------------------------------------------------------------------
\* Filter::create, from_hex and cmp_shorten against to_hex, by which events are written
\* out: a text of pairs of digits that is not longer than the width of the length allows
\* selects the ids it is the beginning of; of an odd text the last digit does not count.
\* Whatever the text, readable or not, and whatever was in memory, the rows find_in_index
\* selects are the ids Filter::test lets through.
PrefixMeansText ==
  LET whole == 2 * Min({Size, Len(hextext) \div 2})
      Selects(id) == SubSeq(to_hex(id), 1, whole) = SubSeq(LowerHex(hextext), 1, whole)
  IN \A memory \in Ids :
       LET key == from_hex(hextext, memory)
           tested == {id \in Ids : Shortened(key, Count(hextext), id)}
       IN /\ RowsOf(key, Count(hextext)) = tested
          /\ ToSet(hextext) \subseteq HexDigits /\ Len(hextext) \div 2 < CountWidth =>
               tested = {id \in Ids : Selects(id)}
=============================================================================
