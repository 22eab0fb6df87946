--------------------------- MODULE MCFilterIndex ---------------------------
(***************************************************************************)
(* Every query of up to two filters over every set of the events.          *)
(***************************************************************************)
EXTENDS Queries

\* All tag contents collide, as their hashes may, or none does; the middle of alice's public key
\* looks like a late time, that of bob's like an early one.
MCTagHash(x) == 0
MCExactHash(x) == CASE x = "a1" -> 1 [] x = "b1" -> 2 [] OTHER -> 3
MCPubkeyAsTime(author) == IF author = "alice" THEN 6 ELSE 3

\* b1 fits a search for cats better than a1, which fits one for dogs as well as f1.
MCRank(word, e) ==
  CASE word = "cat" /\ e.id = "a1" -> 2
    [] word = "cat" /\ e.id = "b1" -> 9
    [] word = "dog" /\ e.id \in {"a1", "f1"} -> 9
    [] OTHER -> 0

Note(id, author, at) ==
  [id |-> id, author |-> author, kind |-> "regular", at |-> at, slot |-> "",
   name |-> "", target |-> "", hash |-> "", ftag |-> FALSE]

\* Notes of two users at neighbouring times, a reply and a file with tags.
QueryEvents ==
  {Note("a1", "alice", 2), Note("a2", "alice", 4), Note("b1", "bob", 3),
   [Note("b2", "bob", 5) EXCEPT !.target = "a1"],
   [Note("f1", "alice", 3) EXCEPT !.kind = "file", !.hash = "h1", !.target = "b1"]}

Alice == Prefix({"alice"}, TRUE)
Bob == Prefix({"bob"}, TRUE)
B == Prefix({"bob"}, FALSE)
Tag(letter, values) == [tag |-> letter, values |-> values]

PlainFilters ==
  {AnyFilter,
   [AnyFilter EXCEPT !.since = {3}, !.limit = {1}],
   [AnyFilter EXCEPT !.ids = {Prefix({"a1", "a2"}, FALSE), Prefix({"b1"}, TRUE)}, !.until = {3}],
   [AnyFilter EXCEPT !.authors = {B}, !.until = {3}, !.limit = {2}],
   [AnyFilter EXCEPT !.tags = {Tag("e", {"a1", "b1"})}, !.limit = {1}],
   [AnyFilter EXCEPT !.tags = {Tag("e", {"a1"}), Tag("x", {"h1"})}],
   [AnyFilter EXCEPT !.kinds = {"regular"}, !.since = {3}, !.until = {4}, !.limit = {2}]}

AuthorFilters ==
  {[AnyFilter EXCEPT !.authors = {Alice}, !.limit = {1}],
   [AnyFilter EXCEPT !.authors = {Alice, B}, !.since = {4}],
   [AnyFilter EXCEPT !.authors = {Alice, Bob}, !.kinds = {"regular"}, !.until = {4}]}

\* A search with one word, with two, and with none that is a word.
SearchFilters ==
  {[AnyFilter EXCEPT !.search = {{"cat"}}, !.limit = {1}],
   [AnyFilter EXCEPT !.search = {{"cat", "dog"}}, !.kinds = {"regular"}, !.until = {4}],
   [AnyFilter EXCEPT !.search = {{}}, !.limit = {2}]}

Filters == PlainFilters \cup AuthorFilters \cup SearchFilters

QueryRequests == {{f, g} : f, g \in Filters}
=============================================================================
