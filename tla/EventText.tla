----------------------------- MODULE EventText -----------------------------
(***************************************************************************)
(* An event on its way from one client to another: JSON is read by         *)
(* Event::fromStructured, written into a document by                       *)
(* EventDocument::to_binary, read back by from_binary, and sent out by     *)
(* Event::toStructured.  A JSON value is a pair of its type and what it    *)
(* holds; texts are sequences of characters.  The signature is read, kept  *)
(* and written as the id is, and left out.                                 *)
(***************************************************************************)
EXTENDS Integers, SequencesExt, FiniteSetsExt

CONSTANTS PostedEvents, \* JSON objects that clients post
          Characters,   \* what texts are made of
          Memory,       \* [id, author] that were in memory before
          NumberText(_),\* as<std::string> of a JSON number
          Nothing

VARIABLE posted

Str(text) == <<"string", text>>
Num(n) == <<"number", n>>
Arr(values) == <<"array", values>>
Absent == <<"undefined">>

\* Hex text of 32 bytes: what it stands for, and how it is spelt: "lower", "upper", or
\* "cut", which is too short or has other characters in it.
Hex(of, spelt) == [of |-> of, spelt |-> spelt]

-----------------------------------------------------------------------------
(* event.cpp.                                                              *)

\* from_hex leaves the bytes it cannot read as they were.
ReadHex(hex, memory) == IF hex.spelt = "cut" THEN memory ELSE hex.of

AsText(v) == IF v[1] = "number" THEN NumberText(v[2]) ELSE v[2]

IsTag(row) ==
  row[1] = "array" /\ Len(row[2]) >= 2 /\ \A i \in 1..2 : row[2][i][1] = "string"

WellTyped(json) ==
  /\ \A f \in {"id", "content", "pubkey"} : json[f][1] = "string"
  /\ \A f \in {"created_at", "kind"} : json[f][1] = "number"
  /\ json.tags = Absent \/ (json.tags[1] = "array" /\ \A i \in DOMAIN json.tags[2] : IsTag(json.tags[2][i]))

\* What strings and arrays of a JSON object hold.
ASSUME EventTextAssumption ==
  \A json \in PostedEvents : WellTyped(json) =>
    /\ json.content[2] \in Seq(Characters)
    /\ json.tags # Absent =>
         /\ json.tags[2] \in Seq(ToSet(json.tags[2]))
         /\ \A row \in ToSet(json.tags[2]) :
              /\ row[2] \in Seq(ToSet(row[2]))
              /\ \A v \in ToSet(row[2]) : AsText(v) \in Seq(Characters)

TagOf(row) == [tag |-> row[2][1][2], content |-> row[2][2][2],
               more |-> [i \in 1..(Len(row[2]) - 2) |-> AsText(row[2][i + 2])]]

Parsed(json, memory) ==
  [id |-> ReadHex(json.id[2], memory.id), author |-> ReadHex(json.pubkey[2], memory.author),
   content |-> json.content[2], created_at |-> json.created_at[2], kind |-> json.kind[2],
   tags |-> IF json.tags = Absent THEN <<>>
            ELSE [i \in DOMAIN json.tags[2] |-> TagOf(json.tags[2][i])],
   nip97 |-> FALSE, trusted |-> FALSE, ref_level |-> 0]

build_tags(ev) == [i \in DOMAIN ev.tags |-> <<ev.tags[i].tag, ev.tags[i].content>> \o ev.tags[i].more]

\* Faulty variant: only the name and the first value of a tag are hashed.
calc_id_FirstValue(ev) ==
  <<ev.author, ev.created_at, ev.kind, [i \in DOMAIN ev.tags |-> SubSeq(build_tags(ev)[i], 1, 2)], ev.content>>

\* An id is what it was computed from: SHA-256 is taken to be without collisions.
calc_id(ev) == <<ev.author, ev.created_at, ev.kind, build_tags(ev), ev.content>>

\* The event, or none.
fromStructured(json, memory) ==
  IF ~WellTyped(json) THEN {}
  ELSE {ev \in {Parsed(json, memory)} : calc_id(ev) = ev.id}

toStructured(ev) ==
  [id |-> Str(Hex(ev.id, "lower")), pubkey |-> Str(Hex(ev.author, "lower")),
   content |-> Str(ev.content), created_at |-> Num(ev.created_at), kind |-> Num(ev.kind),
   tags |-> Arr([i \in DOMAIN ev.tags |->
                   Arr([k \in DOMAIN build_tags(ev)[i] |-> Str(build_tags(ev)[i][k])])])]

-----------------------------------------------------------------------------
(* event.h.  A number or the length of a text takes one element of a row,  *)
(* together with flags; so do 32 bytes.                                    *)

Lead(flags, n) == [flags |-> flags, n |-> n]
TextRow(flags, text) == <<Lead(flags, Len(text))>> \o text

TagRow(t) ==
  TextRow({}, t.tag) \o TextRow({}, t.content)
    \o <<Lead({}, Len(t.more))>> \o FlattenSeq([i \in DOMAIN t.more |-> TextRow({}, t.more[i])])

\* Faulty variant: nip97 ? 0x80 : 0 | trusted ? 0x40 : 0, without its parentheses.
Flags_Unparenthesized(ev) == IF ev.nip97 THEN {"nip97"} ELSE IF ev.trusted THEN {"trusted"} ELSE {}

Flags(ev) == (IF ev.nip97 THEN {"nip97"} ELSE {}) \cup (IF ev.trusted THEN {"trusted"} ELSE {})

EventToBinary(ev) ==
  <<Lead({}, 0)>> \o TextRow(Flags(ev), ev.content)
    \o <<Lead({}, ev.kind), Lead({}, ev.created_at), Lead({}, Len(ev.tags))>>
    \o FlattenSeq([i \in DOMAIN ev.tags |-> TagRow(ev.tags[i])])
    \o <<ev.id, ev.author, Lead({}, ev.ref_level)>>

FileToBinary(att) == <<Lead({}, 1), att.id>> \o att.data

\* A reader is the place it has come to and what it has read last.
At(rest, v) == [rest |-> rest, v |-> v]

\* get_extra is 0 behind the end.
GetExtra(row) == IF row = <<>> THEN At(row, Lead({}, 0)) ELSE At(Tail(row), row[1])
\* What is missing stays zero.
LoadBin(row) == IF row = <<>> THEN At(row, <<>>) ELSE At(Tail(row), row[1])

GetText(row) ==
  LET h == GetExtra(row)
  IN At(SubSeq(h.rest, h.v.n + 1, Len(h.rest)), SubSeq(h.rest, 1, h.v.n))

\* A count and as many values.
GetMany(row, One(_)) ==
  LET h == GetExtra(row)
      Get[k \in 0..h.v.n] ==
        IF k = 0 THEN At(h.rest, <<>>)
        ELSE At(One(Get[k - 1].rest).rest, Append(Get[k - 1].v, One(Get[k - 1].rest).v))
  IN Get[h.v.n]

GetTag(row) ==
  LET name == GetText(row) value == GetText(name.rest) more == GetMany(value.rest, GetText)
  IN At(more.rest, [tag |-> name.v, content |-> value.v, more |-> more.v])

EventFromBinary(row) ==
  LET flags == GetExtra(row).v.flags
      text == GetText(row) kind == GetExtra(text.rest) time == GetExtra(kind.rest)
      tags == GetMany(time.rest, GetTag)
      id == LoadBin(tags.rest) author == LoadBin(id.rest) depth == GetExtra(author.rest)
  IN [content |-> text.v, nip97 |-> "nip97" \in flags, trusted |-> "trusted" \in flags,
      kind |-> kind.v.n, created_at |-> time.v.n, tags |-> tags.v,
      id |-> id.v, author |-> author.v, ref_level |-> depth.v.n]

FileFromBinary(row) == [id |-> LoadBin(row).v, data |-> LoadBin(row).rest]

from_binary(row) ==
  LET first == GetExtra(row)
  IN IF first.v.n = 1 THEN FileFromBinary(first.rest) ELSE EventFromBinary(first.rest)

-----------------------------------------------------------------------------
EventTextInit == posted = Nothing

PostJson(json) == posted = Nothing /\ posted' = json

MorePosts == \E json \in PostedEvents : PostJson(json)

Accepted == IF posted = Nothing THEN {} ELSE UNION {fromStructured(posted, m) : m \in Memory}

\* What the relay notes with an event before it is stored.
Marked(ev, nip97, trusted, depth) ==
  [ev EXCEPT !.nip97 = nip97, !.trusted = trusted, !.ref_level = depth]

\* How whoever is sent an event computes its id, from the texts in it (NIP 1).
ReceiversId(json) ==
  <<json.pubkey[2].of, json.created_at[2], json.kind[2],
    [i \in DOMAIN json.tags[2] |-> [k \in DOMAIN json.tags[2][i][2] |-> json.tags[2][i][2][k][2]]],
    json.content[2]>>

-----------------------------------------------------------------------------
\* to_binary and from_binary are two hand-written lists of the same fields: every event the
\* parser lets through, with whatever marks, and the content as a file, comes back from its
\* document as it was.
RowsKeepDocuments ==
  \A ev \in Accepted :
    /\ \A a \in BOOLEAN, b \in BOOLEAN, d \in 0..1 :
         LET x == Marked(ev, a, b, d) IN from_binary(EventToBinary(x)) = x
    /\ LET att == [id |-> ev.id, data |-> ev.content]
       IN from_binary(FileToBinary(att)) = att

\* fromStructured converts what it reads, and computes the id of the converted event; what is
\* sent out of the store, in other spelling or with numbers made texts, has that id still.
\* It is what the assertion in from_binary says.
ServedVerifies ==
  \A ev \in Accepted :
    LET served == toStructured(from_binary(EventToBinary(ev)))
    IN served.id[2].of = ReceiversId(served)
=============================================================================
