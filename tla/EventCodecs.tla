---------------------------- MODULE EventCodecs ----------------------------
(***************************************************************************)
(* Two lookups inside one event: Event::find_indexed_tag in the open hash  *)
(* table that Event::build_hash_map fills, and Peer::check_pow, which      *)
(* counts the leading zero bits of an id in hex.                           *)
(***************************************************************************)
EXTENDS Integers, SequencesExt, FiniteSetsExt

CONSTANTS Letters,  \* names of one letter; other tags are not in the table
          TagNames, \* all names of tags
          Contents, \* contents of tags
          tag_hash(_, _), \* std::hash of the content, times 31, plus the letter
          Width,    \* 2^16: the table holds uint16_t
          MaxTags,  \* bound on the tags of an event
          IdLength  \* hex digits of an id: 64

ASSUME EventCodecsAssumption ==
  /\ Letters \subseteq TagNames
  /\ \A t \in Letters, c \in Contents : tag_hash(t, c) \in Nat
  /\ Width \in Nat \ {0} /\ MaxTags \in Nat /\ IdLength \in Nat \ {0}

VARIABLES tags, \* Event::tags
          id    \* the digits of Event::id, as text

eventVars == <<tags, id>>

-----------------------------------------------------------------------------
(* The table: 2n+1 slots, 0 for a free one, else the position of a tag.    *)

TableSize(ts) == 2 * Len(ts) + 1

\* The k-th slot looked at for a tag.
Slot(ts, t, c, k) == (tag_hash(t, c) + k) % TableSize(ts)

\* Faulty variant: a later tag is put over an earlier one with the same slot.
Enter_Overwrites(ts, table, i) ==
  IF ts[i].tag \notin Letters THEN table
  ELSE [table EXCEPT ![Slot(ts, ts[i].tag, ts[i].content, 0)] = i % Width]

Enter(ts, table, i) ==
  LET FreeAt(k) == table[Slot(ts, ts[i].tag, ts[i].content, k)] = 0
      first == Min({k \in 0..(TableSize(ts) - 1) : FreeAt(k)})
  IN IF ts[i].tag \notin Letters THEN table
     ELSE [table EXCEPT ![Slot(ts, ts[i].tag, ts[i].content, first)] = i % Width]

build_hash_map(ts) ==
  FoldLeft(LAMBDA table, i : Enter(ts, table, i),
           [k \in 0..(TableSize(ts) - 1) |-> 0], [i \in 1..Len(ts) |-> i])

\* The position of the tag found, 0 for none.
find_indexed_tag(ts, t, c) ==
  LET table == build_hash_map(ts)
      Entry(k) == table[Slot(ts, t, c, k)]
      IsIt(i) == ts[i].tag = t /\ ts[i].content = c
  IN Entry(Min({k \in 0..(TableSize(ts) - 1) : Entry(k) = 0 \/ IsIt(Entry(k))}))

-----------------------------------------------------------------------------
(* Proof of work.                                                          *)

Digits == 0..15
NotHex == 16

ZeroBits(nibble) == CASE nibble = 1 -> 3 [] nibble \in 2..3 -> 2 [] nibble \in 4..7 -> 1
                      [] nibble \in 8..15 -> 0 [] nibble = 0 -> 4

\* Faulty variant: a digit that is not zero counts no bits.
check_pow_WholeDigits(digits, pow) ==
  LET stop == SelectInSeq(digits, LAMBDA d : d # 0)
  IN stop = 0 \/ (digits[stop] # NotHex /\ 4 * (stop - 1) >= pow)

\* The first digit other than 0 decides; an id of zeros has any work in it.
check_pow(digits, pow) ==
  LET stop == SelectInSeq(digits, LAMBDA d : d # 0)
  IN stop = 0 \/ (/\ digits[stop] # NotHex
                  /\ 4 * (stop - 1) + ZeroBits(digits[stop]) >= pow)

-----------------------------------------------------------------------------
EventCodecsInit == tags = <<>> /\ id = <<>>

AddTag(t, c) ==
  /\ Len(tags) < MaxTags
  /\ tags' = Append(tags, [tag |-> t, content |-> c])
  /\ UNCHANGED id

AddDigit(d) == Len(id) < IdLength /\ id' = Append(id, d) /\ UNCHANGED tags

MoreTags == \E t \in TagNames, c \in Contents : AddTag(t, c)
MoreDigits == \E d \in Digits \cup {NotHex} : AddDigit(d)

-----------------------------------------------------------------------------
\* find_indexed_tag: whatever tags collide, a one-letter tag is found if the event has it
\* and only then, as long as positions fit the table's uint16_t.
TagsFound ==
  Len(tags) < Width =>
    \A t \in Letters, c \in Contents :
      LET i == find_indexed_tag(tags, t, c)
          Here(j) == tags[j] = [tag |-> t, content |-> c]
      IN IF i = 0 THEN ~\E j \in DOMAIN tags : Here(j) ELSE Here(i)

PowerOfTwo[k \in 0..(4 * IdLength)] == IF k = 0 THEN 1 ELSE 2 * PowerOfTwo[k - 1]

\* check_pow: an id has the work demanded if and only if, read as a number, it is small enough.
WorkIsSmallness ==
  LET value == FoldLeft(LAMBDA n, d : 16 * n + d, 0, id)
  IN Len(id) = IdLength /\ NotHex \notin ToSet(id) =>
       \A pow \in 0..(4 * IdLength) :
         check_pow(id, pow) <=> value < PowerOfTwo[4 * IdLength - pow]
=============================================================================
