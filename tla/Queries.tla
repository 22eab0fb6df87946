------------------------------- MODULE Queries -------------------------------
(***************************************************************************)
(* An archive that grows and a client that asks (REQ, COUNT), as far as    *)
(* FilterIndex is concerned: any set of events, any list of filters.       *)
(***************************************************************************)
EXTENDS FilterIndex

CONSTANT Requests \* the lists of filters that are asked, as sets

ASSUME QueriesAssumption ==
  /\ IsFiniteSet(Events)
  /\ Epoch \in Nat /\ Wrap \in Nat \ {0}
  /\ NoLimit \in Nat /\ Cardinality(Events) <= NoLimit
  /\ \A F \in Requests : \A f \in F :
       /\ f.limit \subseteq 0..NoLimit
       /\ \A v, w \in f.search : v = w
       /\ \A w \in UNION f.search, e \in Events : Rank(w, e) \in 0..256

VARIABLES docs, flts

TypeOK == docs \subseteq Events /\ flts \in Requests \cup {{}}

Init == docs = {} /\ flts = {}

\* App::publish adds a document and its index rows in one batch.
Store(e) == docs' = docs \cup {e} /\ UNCHANGED flts

\* on_req or on_count has parsed its filters.
Ask(F) == flts' = F /\ UNCHANGED docs

Next == (\E e \in Events : Store(e)) \/ (\E F \in Requests : Ask(F))

Spec == Init /\ [][Next]_<<docs, flts>>

-----------------------------------------------------------------------------
\* find_in_index and the key ranges it picks for words, ids, authors, tags, kinds and
\* times: no stored event that a filter of the REQ matches is missing.  A REQ with a filter
\* that names none of them is exempt: its inverted set stands for all items.
CandidatesComplete == Complete(docs, flts)

\* on_req with several filters and limits.  If one of them names no word, id, author, tag,
\* kind or time ({"limit":10}), the set is inverted and nothing stored is sent, neither for it
\* nor for the others.  Otherwise the page is at least as long as any of the filters asked for,
\* or as there are events; where the ordering values are times (no search, no full pubkeys,
\* created_at since 2000), what a limit cuts off is older than all that is sent; what it cuts
\* off a search is less relevant.
PageIsNewest ==
  IF Inverted(flts)
  THEN Pages(docs, flts) = {{}}
  ELSE /\ AsLongAsAsked(docs, flts)
       /\ Plain(docs, flts) => Newest(docs, flts)
       /\ \A f \in flts : flts = {f} /\ f.search # {} => MostRelevant(docs, f)

\* on_count counts index rows without testing the events.  Of an inverted set it answers 0.
\* Otherwise its answer is never too low, and it is the number of matches unless hashes
\* collide or shortened and full authors are mixed under a time.
CountIsExact ==
  IF Inverted(flts)
  THEN CountOf(docs, flts) = 0
  ELSE /\ CountOf(docs, flts) >= Cardinality(Matching(docs, flts))
       /\ CountExact(docs, flts)

\* README.md: "full-fledged node according to approved NIPs {1,": NIP 1 has limit return
\* the newest events.  The same for one filter without a search, with full pubkeys too.
LimitMeansNewest ==
  (\E f \in flts : flts = {f} /\ f.search = {}) /\ ~Inverted(flts) => Newest(docs, flts)
=============================================================================
