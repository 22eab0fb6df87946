------------------------------ MODULE KeyText ------------------------------
(***************************************************************************)
(* Keys as text: SignatureTools::to_bech32 writes a key as bech32 text,    *)
(* somebody copies the text, with slips, and SignatureTools::from_bech32   *)
(* reads it back.  Characters are their ASCII codes; a 30-bit word is the  *)
(* set of the positions of its ones, so that xor is the symmetric          *)
(* difference and a shift renames positions.                               *)
(***************************************************************************)
EXTENDS Integers, SequencesExt, FiniteSetsExt

CONSTANTS KeySize,  \* bytes of a key: 32
          Keys,     \* keys written by senders
          Unset,    \* what the bytes of a key may be before they are set
          Types,    \* human-readable parts, in lower case
          Slips,    \* characters that are typed by mistake
          MaxSlips, \* bound on the mistakes in one text
          None      \* no value

\* Types are printable and in lower case, and a text with one has at most 90 characters.
ASSUME KeyTextAssumption ==
  /\ KeySize \in Nat \ {0} /\ MaxSlips \in Nat
  /\ Keys \subseteq [1..KeySize -> 0..255] /\ Unset \subseteq [1..KeySize -> 0..255]
  /\ Slips \subseteq 0..255
  /\ None \notin Nat /\ None \notin [hrplen : Nat, dplen : Nat]
  /\ \A t \in Types : /\ t # <<>> /\ t \in Seq((33..126) \ (65..90))
                       /\ Len(t) + (8 * KeySize + 4) \div 5 <= 83

VARIABLES sent, \* history: the key and its type
          text,
          slips,
          out   \* what from_bech32 returned: [st, key, type]

keyVars == <<sent, text, slips, out>>

-----------------------------------------------------------------------------
(* bech32.cpp: the alphabet and the checksum.                              *)

Separator == 49       \* '1'
ChecksumLength == 6

\* "qpzry9x8gf2tvdw0s3jn54khce6mua7l"
charset == <<113, 112, 122, 114, 121, 57, 120, 56, 103, 102, 50, 116, 118, 100, 119, 48,
             115, 51, 106, 110, 53, 52, 107, 104, 99, 101, 54, 109, 117, 97, 55, 108>>

Uppercase == 65..90
Lowercase == 97..122
ToLower(s) == [i \in DOMAIN s |-> IF s[i] \in Uppercase THEN s[i] + 32 ELSE s[i]]
ToUpper(s) == [i \in DOMAIN s |-> IF s[i] \in Lowercase THEN s[i] - 32 ELSE s[i]]

ToCharset(values) == [i \in DOMAIN values |-> charset[values[i] + 1]]
FromCharset(s) == [i \in DOMAIN s |-> (CHOOSE v \in 0..31 : charset[v + 1] = ToLower(s)[i])]

Bits(n, width) == {b \in 0..(width - 1) : (n \div 2^b) % 2 = 1}

\* What fits a byte.
Number(bits) ==
  LET One(b) == IF b \in bits THEN 2^b ELSE 0
  IN One(0) + One(1) + One(2) + One(3) + One(4) + One(5) + One(6) + One(7)

Xor(a, b) == SymDiff(a, b)

Generator == <<Bits(\h3b6a57b2, 30), Bits(\h26508e6d, 30), Bits(\h1ea119fa, 30),
               Bits(\h3d4233dd, 30), Bits(\h2a1462b3, 30)>>

\* One turn of polymod's loop.
Feed(chk, value) ==
  LET Top(i) == IF 24 + i \in chk THEN Generator[i] ELSE {}
  IN Xor(Xor(Xor(Top(1), Top(2)), Xor(Top(3), Top(4))),
         Xor(Top(5), Xor({b + 5 : b \in {x \in chk : x < 25}}, Bits(value, 5))))

polymod(values) == FoldLeft(Feed, {0}, values)

expandHrp(hrp) ==
  [i \in DOMAIN hrp |-> hrp[i] \div 32] \o <<0>> \o [i \in DOMAIN hrp |-> hrp[i] % 32]

Bech32m == Bits(\h2bc830a3, 30)
Bech32 == {0}

\* What a word is, so many turns later.
Late(word) ==
  LET late[turns \in 0..90] == IF turns = 0 THEN word ELSE Feed(late[turns - 1], 0)
  IN late

\* The checksum was made for this: one wrong value, or two, change what polymod returns, and
\* not from one constant into the other.
ASSUME TwoWrongShow ==
  LET wrong == (SUBSET (0..4)) \ {{}}
      traces == {Late(w)[turns] : w \in wrong, turns \in 0..90}
      between == Xor(Bech32m, Bech32)
  IN /\ \A w \in wrong, turns \in 1..90 : ~(Late(w)[turns] \subseteq 0..4)
     /\ between \notin traces
     /\ \A x \in traces : Xor(x, between) \notin traces

\* createChecksum, and createChecksumUsingOriginalConstant, which differ in the constant.
createChecksum(hrp, values, constant) ==
  LET mod == Xor(polymod(expandHrp(hrp) \o values \o [i \in 1..ChecksumLength |-> 0]), constant)
  IN [i \in 1..ChecksumLength |->
        Number({b - 5 * (6 - i) : b \in {x \in mod : x \div 5 = 6 - i}})]

-----------------------------------------------------------------------------
(* bech32.cpp: encode and decode.                                          *)

Fails == [st |-> "throws", hrp |-> <<>>, dp |-> <<>>]
Invalid == [st |-> "invalid", hrp |-> <<>>, dp |-> <<>>]
Decoded(hrp, dp) == [st |-> "ok", hrp |-> hrp, dp |-> dp]

\* The text, or <<>> if it would be longer than any reader accepts (encode throws).
encodeBasis(hrp, values, constant) ==
  IF Len(hrp) \notin 1..83 \/ Len(hrp) + Len(values) + 1 + ChecksumLength > 90 THEN <<>>
  ELSE ToLower(hrp) \o <<Separator>>
         \o ToCharset(values \o createChecksum(ToLower(hrp), values, constant))

\* Faulty variant: text in capitals is refused.
WellFormed_LowerCase(s) ==
  /\ Len(s) \in 8..90
  /\ ToLower(s) = s
  /\ ToSet(s) \subseteq 33..126
  /\ Separator \in ToSet(s)

WellFormed(s) ==
  /\ Len(s) \in 8..90
  /\ ToLower(s) = s \/ ToUpper(s) = s
  /\ ToSet(s) \subseteq 33..126
  /\ Separator \in ToSet(s)

FirstSeparator(s) == Min({i \in DOMAIN s : s[i] = Separator})

FindSeparator(s) == Max({i \in DOMAIN s : s[i] = Separator})

DataChars(s) == SubSeq(s, FindSeparator(s) + 1, Len(s))

Readable(s) ==
  /\ WellFormed(s)
  /\ FindSeparator(s) \in 2..84
  /\ Len(DataChars(s)) >= ChecksumLength
  /\ ToSet(ToLower(DataChars(s))) \subseteq ToSet(charset)

\* Faulty variant: the checksum is dropped unseen.
decode_Unchecked(s) ==
  LET dp == FromCharset(DataChars(s))
  IN IF ~Readable(s) THEN Fails
     ELSE Decoded(ToLower(SubSeq(s, 1, FindSeparator(s) - 1)),
                  SubSeq(dp, 1, Len(dp) - ChecksumLength))

decode(s) ==
  IF ~Readable(s) THEN Fails
  ELSE LET hrp == ToLower(SubSeq(s, 1, FindSeparator(s) - 1))
           dp == FromCharset(DataChars(s))
       IN IF polymod(expandHrp(hrp) \o dp) \in {Bech32m, Bech32}
          THEN Decoded(hrp, SubSeq(dp, 1, Len(dp) - ChecksumLength))
          ELSE Invalid

-----------------------------------------------------------------------------
(* bech32.cpp: the C bindings.  The caller allocates a result by the text, *)
(* and reads as many bytes as were allocated: bech32_decode sets no length. *)

create_DecodedResult(s) ==
  LET hrplen == FirstSeparator(s) - 1
  IN IF \/ Len(s) < 8 \/ Separator \notin ToSet(s)
        \/ Len(s) - hrplen - 1 < ChecksumLength
     THEN None
     ELSE [hrplen |-> hrplen, dplen |-> Len(s) - hrplen - 1 - ChecksumLength]

\* Faulty variant: the room for the human-readable part is not looked at.
Fits_DataOnly(r, room) == Len(r.dp) <= room.dplen

Fits(r, room) == Len(r.hrp) <= room.hrplen /\ Len(r.dp) <= room.dplen

bech32_decode(s) ==
  LET room == create_DecodedResult(s)
      r == decode(s)
  IN CASE room = None -> "null argument"
       [] room # None /\ r.st = "throws" -> "unknown error"
       [] room # None /\ r.st = "invalid" -> "invalid checksum"
       [] room # None /\ r.st = "ok" ->
            IF Fits(r, room) THEN "success" ELSE "length too short"

compute_encoded_string_length(hrplen, dplen) == hrplen + 1 + dplen + ChecksumLength

\* bech32_create_bstring: None is a null pointer.
create_bstring(hrplen, dplen) ==
  IF hrplen < 1 THEN None ELSE compute_encoded_string_length(hrplen, dplen)

\* bech32_encode and bech32_encode_using_original_constant, into a string of that length.
bech32_encode(hrp, values, constant, length) ==
  LET s == encodeBasis(hrp, values, constant)
  IN CASE length = None -> "null argument"
       [] length # None /\ s = <<>> -> "unknown error"
       [] length # None /\ s # <<>> ->
            IF Len(s) > length THEN "length too short" ELSE "success"

-----------------------------------------------------------------------------
(* signature.cpp: a key is cut into groups of 5 bits and put together from *)
(* them again.                                                             *)

\* Bits left over are filled up with zeros when groups get smaller, else dropped.
Groups(bits, from, to) ==
  IF to < from THEN (bits + to - 1) \div to ELSE bits \div to

convert_bits(from, to, s) ==
  LET Bit(k) == IF k < Len(s) * from
                THEN (s[(k \div from) + 1] \div 2^(from - 1 - (k % from))) % 2 ELSE 0
  IN [g \in 1..Groups(Len(s) * from, from, to) |->
        Number({b \in 0..(to - 1) : Bit(g * to - 1 - b) = 1})]

to_bech32(key, type) == encodeBasis(type, convert_bits(8, 5, key), Bech32m)

\* The key the bytes fill from its start; what they do not reach was never set.
Filled(bytes, unset) ==
  [i \in 1..KeySize |-> IF i <= Len(bytes) THEN bytes[i] ELSE unset[i]]

\* from_bech32, from_npub and from_nsec, which differ in how they return the key.
from_bech32(s, type, unset) ==
  LET r == decode(s)
  IN CASE r.st = "throws" -> [st |-> "throws", key |-> None, type |-> type]
       [] r.st = "invalid" \/ (r.st = "ok" /\ r.hrp # type) ->
            [st |-> "refused", key |-> None, type |-> type]
       [] r.st = "ok" /\ r.hrp = type ->
            [st |-> "read", key |-> Filled(convert_bits(5, 8, r.dp), unset), type |-> type]

-----------------------------------------------------------------------------
NotRead == [st |-> "unread", key |-> None, type |-> None]

KeyTextInit == sent = None /\ text = <<>> /\ slips = 0 /\ out = NotRead

Write(key, type) ==
  /\ sent = None
  /\ sent' = [key |-> key, type |-> type]
  /\ text' = to_bech32(key, type)
  /\ UNCHANGED <<slips, out>>

\* What may happen to the text on its way.
OnItsWay == sent # None /\ out = NotRead /\ UNCHANGED <<sent, out>>
Slip == OnItsWay /\ slips < MaxSlips /\ slips' = slips + 1

Mistype(i, c) == Slip /\ text[i] # c /\ text' = [text EXCEPT ![i] = c]
Swap(i) == Slip /\ text[i] # text[i + 1]
             /\ text' = [text EXCEPT ![i] = text[i + 1], ![i + 1] = text[i]]
Double(i) == Slip /\ text' = InsertAt(text, i, text[i])
Leave(i) == Slip /\ text' = RemoveAt(text, i)
Shout == OnItsWay /\ text # ToUpper(text) /\ text' = ToUpper(text) /\ UNCHANGED slips

Read(type) ==
  /\ sent # None /\ out = NotRead
  /\ \E unset \in Unset : out' = from_bech32(text, type, unset)
  /\ UNCHANGED <<sent, text, slips>>

KeyTextNext ==
  \/ \E key \in Keys, type \in Types : Write(key, type)
  \/ \E i \in DOMAIN text, c \in Slips : Mistype(i, c)
  \/ \E i \in 1..(Len(text) - 1) : Swap(i)
  \/ \E i \in DOMAIN text : Double(i) \/ Leave(i)
  \/ Shout
  \/ \E type \in Types : Read(type)

-----------------------------------------------------------------------------
\* A key that was sent is one of the senders', and a text is of bytes.
KeyTextTypeOK ==
  /\ sent # None => sent \in [key : Keys, type : Types]
  /\ text \in Seq(0..255)

\* to_bech32 and from_bech32: every key comes back from its text, in either case of the
\* letters, whatever was in memory before; to a reader of another type it is no key.
KeysComeBack ==
  out.st # "unread" /\ slips = 0 =>
    IF out.type = sent.type THEN out.st = "read" /\ out.key = sent.key
    ELSE out.st = "refused"

\* No two types are alike but for two places, nor does one begin like the other but for two.
TypesApart ==
  \A s, t \in Types : s # t =>
    \A i, j \in Nat : \E k \in (DOMAIN s \cap DOMAIN t) \ {i, j} : s[k] # t[k]

\* A text of the right length with all but two letters as they were written, in either case.
NearlyRight(s, written) ==
  /\ Len(s) = Len(written)
  /\ \E i, j \in DOMAIN s : \A k \in (DOMAIN s) \ {i, j} : ToLower(s)[k] = written[k]

\* decode's checksum: up to two letters mistyped, or two neighbours swapped, wherever in
\* the text, are never taken for a key.
WrongLettersShow ==
  out.st = "read" /\ NearlyRight(text, to_bech32(sent.key, sent.type)) =>
    /\ ToLower(text) = to_bech32(sent.key, sent.type)
    /\ out.type = sent.type /\ out.key = sent.key

\* decode's checksum: keys come back, but a text with up to MaxSlips slips (other than in the
\* case of a letter) is not taken for a key, nor one of one type for another.
OnlyTrueKeys ==
  /\ KeysComeBack
  /\ out.st = "read" => /\ ToLower(text) = to_bech32(sent.key, sent.type)
                        /\ out.type = sent.type /\ out.key = sent.key

\* The C bindings stay within what their callers allocate.  What either constant writes
\* fits its string and is read back; bech32_create_DecodedResult cuts the text at another
\* separator than bech32_decode, but on success what was allocated is what was written, and
\* a text with one separator succeeds whenever decode does.
BindingExact ==
  LET r == decode(text)
      room == create_DecodedResult(text)
      values == convert_bits(8, 5, sent.key)
      length == create_bstring(Len(sent.type), Len(values))
  IN sent # None =>
     /\ slips = 0 => \A constant \in {Bech32m, Bech32} :
          /\ bech32_encode(sent.type, values, constant, length) = "success"
          /\ decode(encodeBasis(sent.type, values, constant)) = Decoded(sent.type, values)
     /\ bech32_decode(text) = "success" =>
          room = [hrplen |-> Len(r.hrp), dplen |-> Len(r.dp)]
     /\ r.st = "ok" /\ FindSeparator(text) = FirstSeparator(text) =>
          bech32_decode(text) = "success"
=============================================================================
