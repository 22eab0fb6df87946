------------------------------ MODULE MCCodecs ------------------------------
(***************************************************************************)
(* Instances of the codecs.                                                *)
(***************************************************************************)
EXTENDS Codecs

\* A key of two bytes, in a place that held it or another; "npub" and a type that holds a separator, "a1".
MCKeys == {<<0, 255>>}
MCUnset == {<<0, 255>>, <<1, 128>>}
MCTypes == {<<110, 112, 117, 98>>, <<97, 49>>}
\* q, p, Q and 1, which no data part has.
MCSlips == {113, 112, 81, 49}

\* Both contents of "e" share a slot, the last of a table for two tags, so that the search
\* goes on with the first, where "p" begins.
MCTagHash(t, c) == CASE t = "e" -> 4 [] t # "e" /\ c = "c1" -> 5 [] OTHER -> 9

\* Ids of two bytes that share a first byte or a digit of it.
MCIds == {<<0, 15>>, <<15, 0>>, <<15, 255>>, <<240, 171>>, <<255, 255>>}
\* 0 f F : and g; the colon is read as a digit, g is not.
MCHexChars == {48, 102, 70, 58, 103}

\* a, A, an a with an accent (two bytes), z, and a space.
MCAlphabet == {97, 65, 225, 122, 32}
MCAlnum == MCAlphabet \ {32}
MCLower(c) == IF c = 65 THEN 97 ELSE c
MCUnac(c) == IF c = 225 THEN <<97>> ELSE <<>>
MCUtf8(c) == IF c = 225 THEN <<195, 161>> ELSE <<c>>

\* Tags of one to four values, one of them a number; a tag of one value and a tag that is
\* no array are refused.
MCTag(values) == Arr([i \in DOMAIN values |-> Str(values[i])])
MCTagLists ==
  {Absent, Arr(<<>>), Arr(<<MCTag(<<<<112>>>>)>>), Arr(<<Str(<<112>>)>>),
   Arr(<<MCTag(<<<<112>>, <<97, 98>>>>), MCTag(<<<<101>>, <<>>, <<98>>>>)>>),
   Arr(<<MCTag(<<<<112>>, <<97>>, <<98>>, <<>>>>)>>),
   Arr(<<Arr(<<Str(<<112>>), Str(<<97>>), Num(5)>>)>>)}
MCCharacters == (48..57) \cup {97, 98, 101, 104, 105, 112}
MCNumberText(n) == <<n + 48>>
\* Ids over those tags, over their first two values, and over other events.
MCRows == {<<>>, <<<<<<112>>, <<97, 98>>>>, <<<<101>>, <<>>, <<98>>>>>>,
           <<<<<<112>>, <<97, 98>>>>, <<<<101>>, <<>>>>>>,
           <<<<<<112>>, <<97>>, <<98>>, <<>>>>>>, <<<<<<112>>, <<97>>>>>>,
           <<<<<<112>>, <<97>>, <<53>>>>>>}
MCDigests == {<<a, 7, 1, rows, c>> : a \in {"alice", "bob"}, rows \in MCRows, c \in {<<>>, <<104, 105>>}}
MCSpelt == {"lower", "upper", "cut"}
MCPosts ==
  {[id |-> Str(Hex(d, s)), pubkey |-> p, content |-> c, created_at |-> t, kind |-> k, tags |-> ts] :
     d \in MCDigests, s \in MCSpelt,
     p \in {Str(Hex("alice", x)) : x \in MCSpelt} \cup {Absent},
     c \in {Str(<<>>), Str(<<104, 105>>), Num(1)}, t \in {Num(7), Str(<<7>>)},
     k \in {Num(1), Absent}, ts \in MCTagLists}
MCMemory == {[id |-> <<a, 7, 1, <<>>, <<>>>>, author |-> a] : a \in {"alice", "bob"}}

MCUrl(scheme, rest) == <<scheme, "/", "/", "r.org">> \o rest
MCNoTags == [kind |-> "note", author |-> "alice", depth |-> 0, ptags |-> <<>>, rtags |-> <<>>,
             contacts |-> [u \in {} |-> FALSE]]
MCFollow(user, whole, more) == [user |-> user, whole |-> whole, more |-> more]
MCList(author, depth, url, more) ==
  [MCNoTags EXCEPT !.kind = "relays", !.author = author, !.depth = depth,
                   !.rtags = <<[url |-> url, more |-> more]>>]
\* One relay, with and without the slash, with a path and its slash, read only, and by HTTP.
MCRouted ==
  {MCList("alice", 2, MCUrl("wss:", <<>>), <<>>), MCList("bob", 1, MCUrl("wss:", <<"/">>), <<>>),
   MCList("carol", 0, MCUrl("wss:", <<"/">>), <<"read">>), MCList("carol", 1, MCUrl("https:", <<>>), <<>>),
   MCList("bob", 3, MCUrl("wss:", <<"/", "inbox", "/">>), <<>>),
   [MCNoTags EXCEPT !.depth = 1,
      !.ptags = <<MCFollow("carol", TRUE, <<MCUrl("wss:", <<"/">>)>>), MCFollow("bob", TRUE, <<>>),
                  MCFollow("dave", FALSE, <<>>)>>],
   [MCNoTags EXCEPT !.kind = "contacts", !.author = "dave", !.depth = 3,
      !.ptags = <<MCFollow("bob", TRUE, <<MCUrl("ws:", <<"/", "inbox">>)>>)>>,
      !.contacts = MCUrl("wss:", <<"/">>) :> TRUE @@ MCUrl("ws:", <<>>) :> FALSE],
   [MCNoTags EXCEPT !.kind = "metadata", !.ptags = <<MCFollow("carol", TRUE, <<>>)>>]}

\* Two clients with names that need an escape, and the program's own sensors.
MCClient(connection, agent, name, time) ==
  [type |-> "client", created |-> time, id |-> connection, user_agent |-> agent, ident |-> name,
   counters |-> <<3, 2, 1, 0, 1>>, kinds |-> <<>>]
MCDatabase ==
  [type |-> "database", created |-> 7, memory |-> 5,
   tables |-> <<[heading |-> TRUE, number |-> 0], [heading |-> FALSE, number |-> 2],
                [heading |-> FALSE, number |-> 3], [heading |-> TRUE, number |-> 1]>>,
   collections |-> <<[name |-> <<"events">>, size |-> 4], [name |-> <<"karma">>, size |-> 2]>>]
\* A sensor with a metric of each type the program has no other for.
MCMetric(type, name, value) ==
  [def |-> Metric(type, <<name>>, <<"a", "\"", "\n">>, <<>>), attrs |-> <<Label("key", <<" ", "\\">>)>>,
   value |-> value]
MCStates(value) == [kind |-> "states", key |-> <<"mode">>, names |-> <<<<"on">>, <<"\"">>>>, state |-> value]
MCSummary == [kind |-> "summary", sum |-> <<"7">>, count |-> 4]
MCHistogram ==
  [kind |-> "histogram", sum |-> <<"7">>, count |-> 4, boundaries |-> <<<<"1">>, <<"2">>>>,
   counts |-> <<1, 0, 3>>]
MCProbe ==
  [type |-> "other", created |-> 70,
   points |-> <<MCMetric("state_set", "set", MCStates(2)), MCMetric("state_enum", "enum", MCStates(1)),
                MCMetric("summary", "sum", MCSummary), MCMetric("histogram", "hist", MCHistogram),
                MCMetric("gauge_histogram", "ghist", MCHistogram),
                MCMetric("unknown", "debt", [kind |-> "number", text |-> Decimal(-205)])>>]
MCEnabled ==
  {MCClient(1, <<"a", "\"">>, <<"\\", "n">>, 0), MCClient(2, <<"\n">>, <<"b", "\\">>, 9),
   MCDatabase, [type |-> "storage", created |-> 8, rev |-> 11],
   [type |-> "stats", created |-> 8, duplicated_post |-> 1], MCProbe}
MCOrder ==
  [i \in 1..18 |-> <<<<"debt", "enum", "ghist", "hist", "nostr_client_active_subscriptions",
    "nostr_client_command_count", "nostr_client_error_count", "nostr_client_info",
    "nostr_client_max_active_subscriptions", "nostr_client_post_events", "nostr_client_query_count",
    "nostr_database_collection_size", "nostr_database_duplicated_posts", "nostr_database_events",
    "nostr_database_level_size", "nostr_database_memory_usage", "set", "sum">>[i]>>]
=============================================================================
