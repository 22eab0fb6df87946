---------------------------- MODULE FilterIndex ----------------------------
(***************************************************************************)
(* Queries over the stored events: Filter::test, the exact test, and       *)
(* App::find_in_index, which intersects and unites rows of the indexes     *)
(* into a set of candidates.  A record set is the function that gives each *)
(* candidate its ordering value.                                           *)
(***************************************************************************)
EXTENDS RelayEvents, FiniteSetsExt

CONSTANTS TagHash(_),      \* std::hash of a tag's content
          Rank(_, _),      \* 256 / relevance of a word in an event's text, 0 without it
          PubkeyAsTime(_), \* bytes 8 to 15 of a public key, read as a time
          Epoch,           \* 946681200: the first second of 2000
          Wrap,            \* 2^32: the width of the ordering value
          NoLimit          \* size_t(-1)

(***************************************************************************)
(* A hex prefix of a filter is the set of the values it is a prefix of.    *)
(* Optional members (since, until, limit) are sets of at most one value;   *)
(* search is one of the words that are looked for.                         *)
(***************************************************************************)
Prefix(values, full) == [match |-> values, full |-> full]

AnyFilter == [search |-> {}, ids |-> {}, authors |-> {}, kinds |-> {}, tags |-> {},
              since |-> {}, until |-> {}, limit |-> {}]

\* The one-letter tags the model's events carry.
TagsOf(e) == {t \in {<<"e", e.target>>, <<"x", e.hash>>} : t[2] # ""}

Test(f, e) ==
  /\ f.authors = {} \/ \E a \in f.authors : e.author \in a.match
  /\ f.ids = {} \/ \E i \in f.ids : e.id \in i.match
  /\ f.kinds = {} \/ e.kind \in f.kinds
  /\ \A t \in f.tags : \E x \in t.values : <<t.tag, x>> \in TagsOf(e)
  /\ \A s \in f.since : e.at >= s
  /\ \A u \in f.until : e.at <= u

\* Test knows no search: what a client asks for is in both.
Wants(f, e) == Test(f, e) /\ \A words \in f.search : \E w \in words : Rank(w, e) > 0

Matching(docs, flts) == {e \in docs : \E f \in flts : Wants(f, e)}

-----------------------------------------------------------------------------
(* The index rows a filter selects.                                        *)

\* Ordering values are pairs of a relevance and a time.
Ordering(time) == <<0, (time - Epoch) % Wrap>>

merge_relevance(values) == <<Max({v[1] : v \in values}), Max({v[2] : v \in values})>>

\* Faulty variant: the upper end of the key range is left out.
KeyRange_HalfOpen(f, e) ==
  (\A s \in f.since : e.at >= s) /\ (\A u \in f.until : e.at < u)

\* append_time: the part of the keys between since and until.
KeyRange(f, e) ==
  (\A s \in f.since : e.at >= s) /\ (\A u \in f.until : e.at <= u)

\* The rows whose words begin with one of those looked for.
ByText(docs, f) ==
  LET Found(e) == {w \in UNION f.search : Rank(w, e) > 0}
  IN [e \in {d \in docs : Found(d) # {}} |-> <<Max({Rank(w, e) : w \in Found(e)}), 0>>]

ById(docs, f) ==
  [e \in {d \in docs : \E i \in f.ids : d.id \in i.match} |-> Ordering(e.at)]

\* Rows of one pubkey come from the part of its keys in time, rows of a shortened
\* one from all of them.  The key of a full pubkey is read as <size_t, time_t>,
\* so the time is taken from the pubkey's bytes.
OfAuthor(docs, f, a) ==
  {d \in docs : d.author \in a.match /\ (a.full => KeyRange(f, d))}

ByAuthor(docs, f) ==
  [e \in UNION {OfAuthor(docs, f, a) : a \in f.authors} |->
     merge_relevance({IF a.full THEN Ordering(PubkeyAsTime(e.author)) ELSE Ordering(e.at) :
                        a \in {b \in f.authors : e \in OfAuthor(docs, f, b)}})]

ByTag(docs, f, t) ==
  [e \in {d \in docs : /\ KeyRange(f, d)
                       /\ \E x \in t.values : \E y \in TagsOf(d) :
                            y[1] = t.tag /\ TagHash(y[2]) = TagHash(x)}
     |-> Ordering(e.at)]

ByKind(docs, f) ==
  [e \in {d \in docs : d.kind \in f.kinds /\ KeyRange(f, d)} |-> Ordering(e.at)]

ByTime(docs, f) == [e \in {d \in docs : KeyRange(f, d)} |-> Ordering(e.at)]

\* Faulty variant: the time index is never asked.
NeedTime_Never(f) == FALSE

\* The time index is asked only if no other range was narrowed by time.
NeedTime(f) ==
  /\ f.since \cup f.until # {}
  /\ f.tags = {} /\ f.kinds = {} /\ \A a \in f.authors : ~a.full

Selections(docs, f) ==
  (IF f.search # {} THEN {ByText(docs, f)} ELSE {}) \cup
  (IF f.ids # {} THEN {ById(docs, f)} ELSE {}) \cup
  (IF f.authors # {} THEN {ByAuthor(docs, f)} ELSE {}) \cup
  {ByTag(docs, f, t) : t \in f.tags} \cup
  (IF f.kinds # {} THEN {ByKind(docs, f)} ELSE {}) \cup
  (IF NeedTime(f) THEN {ByTime(docs, f)} ELSE {})

-----------------------------------------------------------------------------
(* App::find_in_index: AND the selections of a filter, OR the filters.  A  *)
(* filter that selects nothing stands for all items, and the result is     *)
(* inverted; merge_relevance keeps the larger values.                      *)

FoundBy(docs, f, e) == \A s \in Selections(docs, f) : e \in DOMAIN s

Inverted(flts) == \E f \in flts : Selections({}, f) = {}

find_in_index(docs, flts) ==
  IF Inverted(flts) THEN <<>>
  ELSE [e \in {d \in docs : \E f \in flts : FoundBy(docs, f, d)} |->
          merge_relevance({s[e] : s \in UNION {Selections(docs, f) :
                             f \in {g \in flts : FoundBy(docs, g, e)}}})]

-----------------------------------------------------------------------------
(* Peer::on_req over an archive that stands still.                         *)

\* The largest limit of the filters; one without a limit lifts it.
Limit(flts) ==
  IF \E f \in flts : f.limit = {} THEN NoLimit
  ELSE Max({0} \cup UNION {f.limit : f \in flts})

\* Faulty variant: candidates are sorted the other way round.
SentBefore_Ascending(value, d, e) ==
  \/ value[d][1] < value[e][1]
  \/ value[d][1] = value[e][1] /\ value[d][2] <= value[e][2]

\* std::sort by descending value leaves the order of equal ones open.
SentBefore(value, d, e) ==
  \/ value[d][1] > value[e][1]
  \/ value[d][1] = value[e][1] /\ value[d][2] >= value[e][2]

\* The sets of events that may be sent before EOSE.
Pages(docs, flts) ==
  LET value == find_in_index(docs, flts)
      found == {e \in DOMAIN value : \E f \in flts : Test(f, e)}
      size  == Min({Limit(flts), Cardinality(found)})
  IN {page \in SUBSET found :
        /\ Cardinality(page) = size
        /\ \A d \in page, e \in found \ page : SentBefore(value, d, e)}

\* Peer::on_count: the candidates, which are not tested.
CountOf(docs, flts) == Cardinality(DOMAIN find_in_index(docs, flts))

-----------------------------------------------------------------------------
(* Properties of a query flts over the events docs.                        *)

\* Whatever mixture of words, ids, authors, tags, kinds and times a REQ asks for, the
\* index ranges find_in_index chooses miss no stored event the filters match.  An inverted
\* set stands for all items.
Complete(docs, flts) ==
  Inverted(flts) \/ Matching(docs, flts) \subseteq DOMAIN find_in_index(docs, flts)

\* Filters without a search and without full pubkeys, over events since 2000.
Plain(docs, flts) ==
  /\ \A f \in flts : f.search = {} /\ \A a \in f.authors : ~a.full
  /\ \A e \in docs : e.at \in Epoch..(Epoch + Wrap - 1)

\* What is not on the page is not newer than what is.
Newest(docs, flts) ==
  \A page \in Pages(docs, flts) :
    \A d \in page, e \in Matching(docs, flts) \ page : d.at >= e.at

\* How well an event fits the words of a search.
Relevance(f, e) == Max({0} \cup {Rank(w, e) : w \in UNION f.search})

\* What a search leaves out is not more relevant than what it sends.
MostRelevant(docs, f) ==
  \A page \in Pages(docs, {f}) :
    \A d \in page, e \in Matching(docs, {f}) \ page : Relevance(f, d) >= Relevance(f, e)

\* The page is not shorter than what any of the filters asked for alone.
AsLongAsAsked(docs, flts) ==
  \A page \in Pages(docs, flts) : \A f \in flts :
    LET wanted == Cardinality(Matching(docs, {f}))
    IN Cardinality(page) >= Min({wanted} \cup f.limit)

\* A wanted tag shares its hash with another one of a stored event.
Collides(docs, f) ==
  \E t \in f.tags, e \in docs : \E x \in t.values, y \in TagsOf(e) :
    y[1] = t.tag /\ y[2] # x /\ TagHash(y[2]) = TagHash(x)

\* Rows of full pubkeys were narrowed by time, those of shortened ones were not.
HalfNarrowed(f) ==
  /\ f.since \cup f.until # {} /\ f.tags = {} /\ f.kinds = {}
  /\ (\E a \in f.authors : a.full) /\ (\E a \in f.authors : ~a.full)

CountExact(docs, flts) ==
  (\A f \in flts : ~Collides(docs, f) /\ ~HalfNarrowed(f)) =>
    CountOf(docs, flts) = Cardinality(Matching(docs, flts))
=============================================================================
