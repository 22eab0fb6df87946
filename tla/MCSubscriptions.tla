-------------------------- MODULE MCSubscriptions --------------------------
(***************************************************************************)
(* Events, requests and bounds for model checking Subscriptions.           *)
(***************************************************************************)
EXTENDS Subscriptions

MCTagHash(x) == 0
MCPubkeyAsTime(author) == 1
MCRank(word, e) == 0

Note(id, author, kind, at) ==
  [id |-> id, author |-> author, kind |-> kind, at |-> at, slot |-> "",
   name |-> "", target |-> "", hash |-> "", ftag |-> FALSE]

\* A note, its deletion (after which it may be posted again), a later note and an
\* ephemeral one.
FeedEvents ==
  {Note("a1", "alice", "regular", 1), Note("b2", "bob", "regular", 2),
   Note("e1", "bob", "ephemeral", 3),
   [Note("d1", "alice", "deletion", 3) EXCEPT !.target = "a1"]}

All == AnyFilter
Notes == [AnyFilter EXCEPT !.kinds = {"regular"}]
Last == [AnyFilter EXCEPT !.kinds = {"regular"}, !.limit = {1}]
\* No event has the word; what is stored is not found, what comes is not searched.
OfBob == [AnyFilter EXCEPT !.authors = {Prefix({"bob"}, TRUE)}, !.search = {{"cat"}}]

FeedRequests == {{Notes}, {Last}, {All}}
TwoRequests == {{Last}, {OfBob}}
=============================================================================
