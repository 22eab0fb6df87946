# A TLA+ development of nostr_server

nostr_server is a Nostr relay in C++20. Clients connect over WebSocket, publish
signed events, query what is stored and subscribe to what comes; the relay keeps
the events in a docdb/LevelDB database behind a set of indexes, replaces and
deletes them by rule, keeps file attachments, decides who may post, and tells
subscribers of what it stores. This directory models the relay's core, checks the
models with TLC and proves the main results with TLAPS. Source paths below are
relative to `src/src/`.

1. [The system](#1-the-system)
2. [The modules](#2-the-modules)
3. [What is checked](#3-what-is-checked)
4. [What is proved](#4-what-is-proved)
5. [Where code and texts differ](#5-where-code-and-texts-differ)
6. [What is not modelled](#6-what-is-not-modelled)
7. [Plan](#7-plan)

---

## 1. The system

### 1.1 Parts, their state and their operations

| part | state | operations | what makes it correct |
|---|---|---|---|
| document store, `App` (`nostr_server/app.*`) | documents (events, attachments), each under an id that is handed out once; unique indexes by event id, by author+kind+`d`, by NIP-05 name, by content hash; other indexes by pubkey, hash, tag, kind, time | `publish` (two overloads), `find_*`, `doc_to_replace`, `find_in_index` | the unique indexes stay unique; only a version that is not older, or the author's deletion, removes an event |
| EVENT, `Peer::on_event*` (`nostr_server/peer.*`) | nothing beyond the handler's locals | duplicate test, rate limit, proof of work, signature, whitelist, then ephemeral / deletion / store | each EVENT gets one OK; an unqualified OK is true |
| FILE and binary messages, `Peer::on_file`, `processBinaryMessage` | `_file_event`, the announced event of the connection | announce, match the SHA-256, reuse stored content or commit both in one batch | an uploaded event has its file |
| attachment collector, `App::start_gc_thread`, `run_attachment_gc` | `_gc_running`, the list `killthem` of a pass | scan, look up, erase, on a thread of its own | kills no referenced content; every pass ends |
| REQ, CLOSE and live delivery, `Peer::on_req`, `on_close`, `listen_publisher`, `filter_event` | `_subscriptions`, the mutex `_mx`, the position of `_subscriber` in the feed | answer from the archive, EOSE, enter the subscription; forward the feed | nothing falls between stored and live; a closed id is quiet; hanging up ends |
| filters and queries, `Filter`, `App::find_in_index` | none | parse, test, choose and combine index ranges | candidates are complete; limits keep the newest |
| whitelist, `WhiteListIndexFn`, `App::check_whitelist` | karma per pubkey (home flag, four unsigned counters), `_empty_database`, the proved pubkey of a connection | count and take back when documents come and go; judge an event | counters are those of the stored events; nobody gets in uninvited |
| rate limiter, `RateLimiter` | a queue of times, per connection | `test_and_add` | bursts are bounded; a refusal is due |
| text codecs, `bech32.*`, `signature.*` | none | encode, decode, checksum, C bindings, `to_npub` ... `from_bech32` | a slip in a copied key is noticed; every key comes back; the bindings stay in their buffers |
| events, `event.*`, `binary.h` | one event: fields, tags, hash table of one-letter tags | parse, write into a document and back, `find_indexed_tag`, `check_pow` | what is served has the id it was posted with; a tag is found iff the event has it; work is the smallness of the id |
| one connection, `Peer::client_main`, `processMessage`, AUTH | `_authent`, `_auth_pubkey`, `_auth_nonce`, `_file_event`, the limiter | read a message, dispatch it, judge it, answer it | one OK for each message that is due one; nothing enters that no rule lets in; trust rests on a proved key |
| RETRIEVE and GET `/file/` | none | find the event, load it, find its file, load that | what is sent is the file of the event asked for |
| publisher, `publisher.h` (cocls) | queue of events, one position per subscriber | publish, next, kick | order is kept, nothing is dropped for a subscriber that is there |
| full text, `fulltext.*` | word index | tokenise, search with relevance | a word is found by its beginning, in any case, with or without accents; relevance is defined |
| routing, `routing*.h` | rows of relay, user and depth | two reports for `/routing` | one relay has one URL |
| telemetry, `telemetry/` | sensor holders and their counts, the list of the collector | register, enable, disable, collect | one structure per shared type, a sensor is reported while enabled; the report says what was measured, and can be read back |
| HTTP handlers, info document, statistics, start-up | none of their own | formatting around reads | - |

### 1.2 How they interact

* **Calls.** A connection's coroutine (`Peer::client_main`) reads one message, runs
  its handler to the end and reads the next. Handlers call `App`, which calls docdb
  on the handler's thread. There is one connection per client and many of them at
  once, on the threads of the server's pool.
* **Shared state without a lock of its own.** The store. A handler reads an index,
  decides, and commits a batch later; docdb makes a batch atomic and refuses one
  that violates a unique index, and nothing else protects the decision. The same
  store feeds the aggregate index of karma.
* **Shared state under a mutex.** `_subscriptions` of a connection is used by
  `client_main` and by `listen_publisher`, a second coroutine of the same connection;
  `on_req` holds `_mx` from its first read of the archive to EOSE.
* **Messages.** `App::publish` and `Peer::event_deletion` hand a committed event to
  `event_publish`; every connection's listener reads it from there.
* **Threads.** The collector is started by `App::publish` when it stores a deletion,
  at most one at a time (`_gc_running`).
* **Restarts.** What was committed is there; a broadcast, an announced file, a pass of
  the collector and subscriptions are not.

### 1.3 What is hard

Decisions from stale reads (replacement, deletion, reuse of file content, the list of
the collector, admission by the karma of a moment ago); the gap between the
answer to a REQ and the first live event; a listener that waits for the mutex of a
handler that is leaving; aggregates that have to be undone exactly as they were done;
unsigned counters; index ranges picked by a dozen conditions; lookups in an open hash
table; a checksum nobody can test exhaustively. `PROJECT.json` lists every hazard at
its line with the properties that would notice it going wrong.

---

## 2. The modules

```
RelayEvents ── RelayArchive                        what the archive promises
     │              ▲ implements
     ├──────── RelayStore ── MCRelayStore           Versions, Files, Orphans
     │           │  └── FileServing ── MCFileServing  Collector
     │           │ implements
     │           ▼
     ├──────── RelayFeed                            the relay as a connection sees it
     │              ▲ INSTANCE
     └── FilterIndex ── Subscriptions ── MCSubscriptions      Live
              └── Queries ── MCFilterIndex          Queries, LimitNewest

RateLimiter ── Session ── MCSession                 Session
Whitelist ── MCWhitelist                            Karma, OnlyInvited
KeyText, EventCodecs, EventText, FilterText,
  FullText, Routing, Report ── Codecs ── MCCodecs   Codecs
Telemetry ── MCTelemetry                            Sensors
```

### 2.1 RelayEvents, RelayArchive, RelayFeed

`RelayEvents` has the signed events as far as the store tells them apart, and the
keys the index functions of `app.cpp` emit: `IndexByAuthorKind`, `IndexNip05`,
`References` for `IndexAttachmentFn`. The id determines the event, because
`Event::fromStructured` recomputes it. `MayReplace(new, old)` says who may push out
whom.

`RelayArchive` is the promise: a set of events and a set of file contents, into which an
event enters only if no unique key is taken. `RelayFeed` is the same archive with its
subscribers in mind: a writer commits, and broadcasts later. `RelayStore` implements
both, so that `Subscriptions`, which is built on `RelayFeed`, needs none of the store's
threads and document ids.

### 2.2 RelayStore

`evRows` and `attRows` are the documents of the store, `lastDoc` the id counter, `pc`
and `job` the place and the locals of each handler, `fileEvent` is `Peer::_file_event`,
`gc`, `gcKill` and `gcDoc` are the collector (`gc # "off"` is `_gc_running`). A thread is a
connection (`Peers`) or an in-process caller of `App::publish` (`Feeders`: the
follower and the relay bot call it, but the built program starts neither).

| actions | code |
|---|---|
| `PostDuplicate`, `PostRefused`, `PostAccepted` | `on_event`, `on_event_generic` up to the branch on the kind |
| `DeletionVoid`, `DeletionForeign`, `DeletionTarget` | `event_deletion` up to its commit |
| `FileRefused`, `FileAnnounced` | `on_file` |
| `BinaryUnsupported`, `BinaryMismatch`, `BinaryDuplicate`, `BinaryMatched`, `FindAttachment` | `processBinaryMessage` |
| `PublishObsolete`, `PublishLookup`, `Commit`, `CommitRefused`, `Broadcast` | both `App::publish`, and the commit and broadcast of `event_deletion` |
| `start_gc_thread`, `GCScan`, `GCFind`, `GCErase`, `GCDone` | `start_gc_thread`, `run_attachment_gc` |
| `Disconnect`, `Crash` | the end of `client_main`; a restart of the process |

Each read of an index and each commit is one step, so anything may happen between
them. What docdb does when the document to be replaced is already gone is not in this
repository: the model lets it either insert or refuse (`Commit` and `CommitRefused`
are both enabled on a `Stale` job), and the properties hold either way. Which of the
checks refuses an event is left open in `PostRefused`: `Session` has the checks in their
order, `Whitelist` and `EventCodecs` what they compute.

`FileServing` adds readers to the store: RETRIEVE (`on_retrieve`) and GET `/file/` make the
same four reads, `AskFile`, `LoadEvent`, `FindFile` and `LoadFile`, and differ in whether an event
that came without its file is served (`MayServe`). A document id may have gone stale
before each of them.

### 2.3 FilterIndex, Queries and Subscriptions

`FilterIndex` has `Test` (`Filter::test`), the index ranges a filter selects (`ByText`, `ById`,
`ByAuthor`, `ByTag`, `ByKind`, `ByTime` with `append_time`), their intersection and union in
`find_in_index`, and the page `on_req` sends. A hex prefix is the set of the values it is a
prefix of; a search is the set of its words, and `Rank` is what the full-text index says of a
word and an event (`FullText` computes it). A record set is a function from candidates to the
ordering value by which `on_req` sorts: a relevance, then a time, merged part by part
(`merge_relevance`). `Wants` is what a client asks for, the test and the search; the code
tests without the search, so `Pages` uses `Test`. The limits of all filters are one (`Limit`). `Wrap` is the width of that value, `Epoch` where it starts, `TagHash` may
collide, and `PubkeyAsTime` is what `multi_index_ordering<std::size_t>` finds where it
takes a full pubkey's bytes for a time. `CountOf` is `on_count`. A filter none of whose members selects a row (`{}`, or a limit
only) stands for all items and inverts the set (`Inverted`); `on_req` sends nothing stored then, for
the other filters of the REQ neither, and `on_count` answers the size of an inverted set, 0. `Queries` is an archive that grows while filters are
asked, about which the queries' properties are stated.

`Subscriptions` is one connection: `ReqLock`, `ReqSnapshot`, `ReqCandidate` (each candidate
is looked up when its turn comes, when it may be gone), `ReqEose`, and `ReqAborted` for
the returns and exceptions of `on_req`; `Close`; `ListenerTake`, `ListenerDeliver`,
`ListenerStop` for `listen_publisher`; `Connect`, `Disconnect`, `Destroy` for the life of
`client_main`. `Write` is everybody else, through `RelayFeed`.

### 2.4 Whitelist, RateLimiter, Session

`Whitelist` follows `WhiteListIndexFn`: `UpdateKarma` first runs the index function on the
documents a batch removes, then on those it adds, and in both asks `Counts`, whether the
author is a home user *now*. `Reason` is `check_whitelist` with the tests before and after
it in `on_event_generic`; `Admit` and the later `Publish` or `Delete` are separate steps.
Counters are modulo `Wrap`.

`RateLimiter` is `test_and_add` under a clock that may be set back (it reads
`system_clock`).

`Session` is one connection from its client's side: what `client_main` reads, one message
after another, and every return of their handlers with the OK it gives or fails to give. It
extends `RateLimiter`, whose queue is the connection's own.

| actions | code |
|---|---|
| `PostMalformed`, `PostDuplicate`, `PostLimited`, `PostGranted` | `on_event_generic` up to and with the rate limit, for EVENT and FILE |
| `JudgeRefuses`, `JudgeEphemeral`, `JudgePasses` | proof of work, signature, and whether the client is trusted |
| `WhitelistBlocks`, `WhitelistPasses` | `check_whitelist` and the target of a message |
| `Publish`, `PublishNothing`, `DeletionReplaces`, `DeletionNothing` | what is done with an EVENT |
| `FileRefused`, `FileContinue` | what is done with a FILE: `_file_event` is set only with "continue" |
| `BinaryUnsupported`, `BinaryMismatch`, `BinaryDuplicate`, `BinaryMatched`, `Upload`, `UploadFails` | `processBinaryMessage`; `UploadFails` is its `catch`, which answers and throws on, so the connection ends |
| `process_auth`, `AuthWithoutId` | the answer to a challenge: its signature, kind, age in whole minutes and nonce; one whose id is no text never gets to the `try`, so it is left without an OK |
| `Time`, `OthersJudged`, `OthersPost`, `Close` | the clock; other connections, which post, delete and gain and lose their standing; the end |

Every step of a handler reads what is shared by then: the store, `is_home_user`
(`home`) and the verdict of the whitelist (`welcome`) may change between the judgement and the
use of it. An announced event waits in `_file_event` for its data, judged once and not again.

### 2.5 The codecs

Each of these modules has one small state, a text or an event somebody makes up step by
step, and operators that are the functions of the code. They share nothing: `Codecs` puts them
side by side, one at work at a time, `MCCodecs` gives them texts and tables to check, and
`CodecsProofs` proves about texts and tables of any length.

`KeyText` writes a key as bech32 text, lets somebody copy it with slips (`Mistype`, `Swap`,
`Double`, `Leave`, and `Shout`, all capitals, which is allowed), and reads it back.
The bit arithmetic is on sets of positions: a 30-bit word is the set of its ones, xor the
symmetric difference. `from_bech32` fills a key only as far as the bytes reach, so the
rest is nondeterministic (`unset`). The copying itself has no source line and is marked
external. The C bindings are there with the sizes they compute, for both constants.

`EventText` follows an event from the JSON of one client to that of another:
`fromStructured`, `to_binary`, `from_binary`, `toStructured`. An id is what it was hashed from;
a hex text is what it stands for and how it is spelt; a row of a document is a sequence of lengths
and numbers with their spare bits, and of characters. `EventCodecs` has the open hash table
of `Event::build_hash_map` with its `uint16_t` slots (`Width`) and `Peer::check_pow`.

`FilterText` has the hex prefixes of a filter, byte by byte: `from_hex`, the length in an
`unsigned char` (`CountWidth`), `cmp_shorten`, and the range of index rows
`searchShortenID` selects. `FullText` has `tokenize_text`, the rows of `IndexForFulltextFn`
for an event of a kind whose content is indexed, and the search; `unac` is a parameter.

`Routing` has the rows of `RoutingIndexFn` for the events that are stored, and the reports
`get_known_relays` and `get_users_on_relay`. The aggregates of docdb are taken to start anew
with each group.

`Report` is the page at `/metrics`: the readers `telemetry_def.cpp` installs for the database, the
storage, the statistics and the clients; the order `collect_lk` puts their points in; the HELP,
TYPE and UNIT lines; and the text of names, labels, numbers, states and summaries. Besides the
relay's own there is a sensor with points of every other kind. A text is a sequence of special
characters, digits and runs of letters, because escaping and the names' normal form touch
nothing else.

### 2.6 Telemetry

`handle` is `Sensor::_h`, `scount` the `_scount` of a `SensorHolder`, `weak` and `active` are
`_shared_sensors` and `_active_shared` of the `Collector` (`register_unique_sensor` pushes
there, too, and `_active_unique` is never filled). `FindShared` and `RegisterShared` are
`get_shared_sensor` and `register_shared_sensor`, two critical sections of `_mx` with a gap
between them; `RegisterUnique` is the one of a unique sensor. `Collect*` is
`Collector::collect`, which holds `_mx` while it reads every entry and while it erases the
entries nobody counts on. `Disable` takes no lock, so it may fall between any two of
those steps. A sensor is enabled only while it is disabled, as all its users do. What is
measured is `Report`'s business; the values' own locks are left out.

---

## 3. What is checked

Every run that passes also carries, in `PROJECT.json`, a fault for each of its properties
that a programmer could have made (the `_` definitions named "Faulty variant") and with
which the property fails.

| run | question | instance and bounds |
|---|---|---|
| `Versions` | Does the store implement `RelayArchive` (unique keys, only successors replace) and `RelayFeed` under racing versions, claims of a name, deletions and a restart? Are replies true? | 1 connection, 1 in-process source, 3 posts, 1 restart; three versions of one event (two equally old), a deletion of one, which the source may bring too and so start the collector, two users claiming one name, an ephemeral event, a file nobody references |
| `Files` | Is content stored once, and is it there for every event that was uploaded with it? Does a stranger delete nothing? | 2 connections, 4 posts, 1 restart, 2 payloads; two users sharing a content, a deletion by its author and one by a stranger |
| `Collector` | Does the list of the collector name only content that was unreferenced, and does a pass end? Does a reader meanwhile get the file of the event it asked for, if both stayed? | 1 connection, 1 in-process source, 3 posts of events with 2 contents, one without the tag `f`, a deletion; 1 reader with 1 request |
| `Queries` | Do the index ranges miss no event, is the page as long as any filter asked for, and does it keep the newest or, of a search, the most relevant? Is COUNT never too low, and exact but for two mixtures? Is nothing sent or counted of an inverted set? | every subset of 5 events, every query of up to 2 of 13 filters, among them searches for one word, for two and for none; all tag hashes collide |
| `Live` | Does an event fall between stored and live? Is a closed id quiet? Is what must be told told, and does hanging up end? | 1 writer, 2 published events, 2 REQs, 2 ids, filters with and without a limit, with and without a search |
| `Session` | Does each message that is due an OK get one, and no other? Does anything enter that no rule lets in, or more than the limit allows? Does trust rest on a proved key? Is an upload what was announced? | 1 connection, 4 messages of 7 events (of each kind; one forged, one cheap, one file too large), 3 answers to a challenge (one of them another connection's), 2 payloads; a relay with every rule and limit 1 per tick, one read-only without a limit; clock 0..4, forward and back; others store and delete one of the events and change the standing of both users |
| `Karma` | Are the counters those of the stored events, and does neither the score nor the empty database let in anybody else? | 2 users, 7 events (two versions of a mute list and of contacts), 2 connections, 4 admitted events, counters modulo 16 |
| `Codecs` | Are slips noticed, do keys come back, do the C bindings stay in their buffers? Are tags found? Is work the smallness of the id? Does an event survive its document and keep its id? Does a prefix mean what it is the beginning of? Are words found? Has one relay one URL? Does the report read back as what was measured? | a key of 2 bytes, 2 types (one holds a separator), 2 slips of any place and kind; 5 tags, positions below 5; ids of 2 digits; 24192 posted objects; ids of 2 bytes, prefixes of up to 6 characters, lengths modulo 3; texts of up to 4 and 1 characters of 5, words cut at 3 bytes, relevance modulo 8, searches of up to 2 letters (`MaxQuery`); 8 events that name relays; 2 enabled sensors of 6, 2 kinds of events counted up to 2, labels with every character that is escaped, decimals of 2 places |
| `Sensors` | Do racing threads share one structure per type? Is an enabled sensor in every report, and a disabled one never again once it was reported as left? | 3 sensors (a unique one, two of a shared type, one of them registered automatically), 4 holders, counts modulo 3 |
| `Orphans`, `LimitNewest`, `OnlyInvited` | Does the code do what a text of the repository says? | see section 5 |

**Why the bounds are enough.** Two threads in `App::publish` are what a race needs: every decision in
`RelayStore` is made from one read and used at one commit, so one other thread that
commits between them shows the hazard; a third post lets the raced event be followed
by another. For any number of them the theorems speak. `Live` has one writer, because
the connection cannot tell writers apart except by how many commits are pending;
`NoMissedEvent` and `QuietAfterClose` are proved for any number. Two REQs suffice to use
an id twice. In `Karma`, 4 events reach a mute list that is replaced or deleted after its author
became a home user; `Wrap = 16` is small enough to go round and large enough not to
confuse a negative score with a real one. In `Codecs`, two slips are below the distance
at which the checksum is guaranteed to notice (4 substitutions), and include insertion and
deletion, where nothing is guaranteed in general; ids of 2 bytes have every case of a prefix
(none, half a byte, one byte, whole, too long), and words of 4 characters, two bytes each at
most, are cut within a character and between two. In `Session`, four messages are enough
to try AUTH with a wrong key after a right one and then to post, or to announce a file, announce another
that is refused, post something else, and upload. In `Collector`, the event without tag `f`
leaves its content unreferenced from the start, so that three posts reach a list that is made and
content that is used again.

**Fairness.** `FairSpec` of `RelayStore` (run `Orphans`; run `Collector` has the same in `FairServingSpec`): a handler that has taken a request goes on (docdb
calls return, and nothing in a handler waits for the client except sending, which is taken
to end, at the latest with an error), and so does the collector, which has a thread. `FairSpec` of `Subscriptions`: `on_req`, the listener and
the destruction of the connection go on, and a writer that has committed broadcasts, which is
the next statement of its code. No fairness is asked of clients: they may send nothing
ever again, which is why most runs do not look for deadlocks. `Karma`, `Queries`
and `Sensors` do, and have none.

---

## 4. What is proved

TLAPS checks these for all values of the constants that satisfy the assumptions
named in the modules. `EventsAssumption`: events are typed and the id determines the
event. `ConstantsAssumption`, `SubscriptionsAssumption`, `RateLimiterAssumption`, `SessionAssumption`,
`FileServingAssumption`, `TelemetryAssumption`, `WhitelistAssumption`: types, and that the absent value is
no event or user. `RoutingAssumption`, `FilterTextAssumption`, `EventCodecsAssumption`, `FullTextAssumption`,
`EventTextAssumption`, `KeyTextAssumption`: what texts are made of; that an empty prefix is told from one as long as a key
(`CountWidth` is above `Size`: 256 and 32); that a letter or digit stays one in lower case, that every character has bytes, and that
relevance does not overflow; that a type of key is printable, in lower case and short enough for a text of 90 characters.
`SamplesReadBack` has `Worded(V)` instead: the texts' characters `V` include the words and signs the renderers write, and what `ToString` writes
of an integer is one of them and none of those a reader stops at.
`TwoWrongShow` has no constant in it: it is a fact about the generator of the checksum, which TLC computes, for the 31 ways one group can
be wrong and the 90 places it can be in. In `Subscriptions` and `QueriesAssumption` there are finitely many events and "no limit"
is at least their number, as `size_t(-1)` is.

| module | theorem | property |
|---|---|---|
| RelayStoreProofs | `TypeCorrect` | `TypeOK` |
| | `StoreInvariant` | the inductive invariant |
| | `IndexesUnique` | `UniqueIndexes` |
| | `OnlySuccessorsReplace` | `SuccessorOnly` |
| | `StoreImplementsArchive` | `ImplementsArchive` (initial states and every step) |
| | `CommittedInvariant`, `FeedIsFaithful`, `StoredRepliesTrue` | `FeedFaithful`, `StoredReplyIsTrue` |
| | `StoreImplementsFeed` | `ImplementsFeed` (initial states and every step) |
| | `CollectorIsSparing`, `UploadsKeepTheirFile` | `CollectorSparesReferenced`, `FileEventHasData` |
| | `ReadersToldTrue` | `ServedIsTrue` |
| FilterIndexProofs | `QueriesComplete` | completeness of the candidates for every archive and every query that is not inverted |
| QueriesProofs | `NothingIsMissing`, `CountsAreExact`, `PagesAreNewest` | `CandidatesComplete`, `CountIsExact`, `PageIsNewest` |
| SubscriptionsProofs | `SubscriptionsTypeCorrect`, `NoEventMissed`, `ClosedIsQuiet` | `TypeOK`, `NoMissedEvent`, `QuietAfterClose` |
| SessionProofs | `BurstsAreBounded`, `RefusalsAreDue`, `SessionLimits` | `BurstBounded`, `RefusedWhenSpent`, and that every session is a behaviour of the limiter |
| | `PostsAreBounded`, `PostsAreAdmitted`, `TrustNeedsProof`, `UploadsAreAnnounced`, `AnswersAreSingle` | `PostsBounded`, `OnlyAdmitted`, `TrustIsProved`, `UploadIsTheAnnounced`, `OneAnswer` |
| WhitelistProofs | `KarmaIsExact`, `DoorStaysClosed`, `ScoreIsAnInvitation` | `CountersExact`, `DoorCloses`, `InvitedByScore` |
| TelemetryProofs | `SharedIsOneAlways`, `OwnIsReportedAlways` | `SharedIsOne`, `OwnIsReported` |
| CodecsProofs | `CodecsTyped`, `KeysTyped` | `CodecsTypeOK`, `KeyTextTypeOK` (types) |
| | `FindsTags`, `SmallIdsWork` | `TagsFound`, `WorkIsSmallness` |
| | `RowsAreDocuments`, `ServedIsSigned` | `RowsKeepDocuments`, `ServedVerifies` |
| | `PrefixesMeanText`, `SearchesFind`, `OneRelay` | `PrefixMeansText`, `SearchFinds`, `SlashIsOneRelay` |
| | `BindingsFit` | `BindingExact` |
| | `KeysReturn` | `KeysComeBack`, the first part of `OnlyTrueKeys` |
| | `WrongLettersSeen` | `WrongLettersShow`, which `OnlyTrueKeys` implies: up to two wrong letters in a key's text, wherever, are no key |
| | `LabelsReadBack` | a label of the report, whatever is in it, is read back as it was |
| | `SamplesReadBack` | what `ReportReadsBack` says of the lines of samples: whatever the program's readers emit is read back from its line |

**The store.** `UniqueIndexes` alone is nearly inductive: a commit checks every unique
key of the new event against the documents it does not replace. `SuccessorOnly` is not: a
commit may remove only what its handler was entitled to remove when it *read*, and the read
is old. `StoreInv` therefore adds `DocsHandedOut` (ids come from a counter, so a
document that is gone never comes back under its id) and `JobsAgree` (whatever is still
stored under the id in a handler's locals is an event this handler may replace). A
stale document id then either names the very event that was read, or nothing.

**The feed.** `CommittedFirst`: what is stored or about to be broadcast has been committed. With
it `FeedFaithful` follows action by action, and so does `StoredReplyIsTrue`: the silent drop
of `App::publish` needs a stored, therefore committed, newer version. `StoreImplementsFeed`
adds what `FeedFaithful` has no need of: that a commit removes only what the feed's `Commit`
may remove, which `SuccessorOnly` says, and that a broadcast finds its event at the head of the
commits that are pending.

**Files.** `ScanBehind` and `DocsHandedOut` give `CollectorIsSparing`: a reference to
content on the list has a document id above the scan. `UploadsKeepTheirFile` has
`Feeders = {}` as its hypothesis, which is the program as built: then the collector never
starts (`ReuseHolds`), and content found stored stays stored. With an in-process source
a pass could name content that has been reused since. `ReadersToldTrue` follows a reader
(`ServingInv`): `still` holds a pair of documents only as long as both are there, document ids do not come
back, and unique indexes name at most one document, so whichever document a reader found is the one of
the pair; when the pair is whole, each of the four reads finds its half.

**Queries.** Every selection a filter makes contains each matching event, hence the
intersection does, hence the union. So COUNT is never too low. That it is exact needs the converse: apart
from collisions and half narrowed authors a candidate is a match. An inverted set has no members to send or to count
(`InvertedIsEmpty`). Otherwise `PageIsNewest` is about the page as a whole: it is as long as the
largest limit, or every candidate is in it, and sorting by a value that is the time keeps the
newest. Of a search, only `ByText` has a relevance and every candidate is in it
(`OthersAreIrrelevant`), so the first part of a candidate's value is the relevance of its best word and
the sort keeps the most relevant.

**Subscriptions.** `SubsInv` = `Requesting` (the mutex is held exactly while `on_req` runs) ∧
`Answering` (while candidates are sent, an event the new subscription has to tell of was sent, is
among the rest, or is coming) ∧ the two properties. `Coming` follows an event from the commit
through the feed to the listener's hands; it is what the mutex and the subscriber's position
at the start of the connection are for.

**Admission.** For the limiter, the popped part of the history is older than the window
at a moment not later than any grant after it (`Outlived`). For karma, `counted` remembers
whether a document was counted when it came, and `skewed` who lost a count it never gave:
apart from those the counters are cardinalities of sets of stored documents, modulo
`Wrap`. `ScoreIsAnInvitation` adds that authors of home kinds are residents, and that every document
was admitted once (`AdmissionInv`): with nobody's word for her, the score of a stranger is what her mutes leave
of nothing, and that is not positive while they are at most `Wrap / 2`. Hence its hypothesis
`2 * MaxPosts <= Wrap`: beyond 2^31 mutes the sum, returned as an `int`, is a point.

**Sessions.** `SessionLimits` makes the theorems about the limiter theorems about sessions.
`PostsBounded` does not follow from them alone: an announcement spends its grant when it is sent, and is
stored later, so the posts are a subsequence of the grants except for the one that is pending.
`JudgedInv` keeps what the judgement found with the locals of the handler and with `_file_event`:
genuine, paid for by work, let in by a rule, and trusted only over a proved key. `AnswerInv` counts the
OKs of the message in hand at each place of its handler.

**Sensors.** `SharedInv`: the weak pointer of a type leads to the one holder of its shared sensors, and to no
other's. `OwnInv`: a holder that was never given away is active and counted for its one sensor, or has
none and is on its way out, even between the collector's reading and its erasing.

**Codecs.** Here the invariants are types (`CodecsTypeOK`, `KeyTextTypeOK`), and what is proved of each state is that functions which
fold, recur or flatten do what is promised of every input. The library's induction theorems take an operator, so `AllNaturals`
states induction for a *set* of numbers, from the well-foundedness of `<`, and `FoldExists`, `FlattenExists`
and `PowersExist` show that the recursive functions behind folds, flattened sequences and powers exist, which their equations
need. On these rest, codec by codec:

* *Tags.* Entering tags one after another keeps `TableUpTo`: each one-letter tag so far has a slot, no two have the same, and
  every slot between where a tag's hash points and where it is is taken. With 2n+1 slots for n tags one is always free, so both
  probes end.
* *Work.* Of the digits from the first that is not 0, the number they stand for lies between two neighbouring powers of two; hence
  the zero bits that are counted say below which power of two the id is.
* *Prefixes.* The first byte in which two keys differ decides their order, so the rows between the two ends of a range are
  those with the prefix; half a byte is a range of one byte.
* *Search.* A search is one word of any number of letters (`MaxQuery`). The bytes of a beginning of a word are a beginning of its bytes, in the order of the flattened characters, and stay one when
  both are cut.
* *Rows.* A row is parts one behind another; each reader takes off exactly the part its writer put there (`DropIs`), whatever
  follows, so reading the parts in order gives the event, tag by tag.
* *Keys.* One turn of `polymod` is linear over xor (`FeedLinear`). So the checksum, which is what `polymod` makes of six zeros,
  takes itself away when it is put in their place, and leaves the constant (`ChecksumCancels`); the separator of what is written is the last
  one, since the alphabet has none; and groups of five have, bit for bit, the bytes they came from (`KeyBack`), with up to four
  bits of filling that are dropped. `KeysInv` adds to the types that a text without slips is what was written, or that in capitals. For the
  C bindings, lengths are counted: on success both parts fit, and together they have as many characters as the
  text has room for, so each fits exactly.
* *Wrong letters.* Because `polymod` is linear, what it returns for two texts of the same type differs by what their groups differ in,
  each difference so many turns later (`Divergence`, `Late`). A turn loses nothing (`FeedKeeps`: the lowest bits of the five
  generators are independent), so one wrong group never cancels; that two wrong groups do not cancel each other, nor leave the
  difference of the two constants `decode` accepts, is what `TwoWrongShow` computed once, for differences alone, and holds therefore of every
  key and every type (`TwoErrors`). `WrongLettersSeen` carries that to texts: letters tell groups, a wrong letter in the type cannot make
  another type, and a separator that moved would. That no two types are alike but for two places (`TypesApart`) is its hypothesis, since
  `from_bech32` takes the type from its caller and checks nothing of it; `RelayTypesApart` shows it of npub, nsec and note, and the types
  of the run, npub and a1, which do not meet it, are there for the separator in a type.
* *Labels.* A reader that stands between quotes, without a backslash open, stands so again after each escaped character and has that
  character; so it has the whole value when the closing quote comes.
* *Samples.* `LineTaken` puts a line together: the reader takes a name without a break, a label with its value (`LabelTaken`) as often as there
  are labels (`AttributesTaken`), the number and the time, and stands where the line ends. What a point needs for that, names that nothing cuts and
  numbers that are figures, is shown of each kind of value the readers emit (`GaugePoint`, `ClientPoints`, `DatabasePoints`,
  `EmittedPoints`, `UptimePoint`), with any names of clients and collections: the name of a metric is a constant of the readers, what comes from
  outside stands in quotes. A decimal is written within the 20 levels of `Levels`, more than the 19 digits of an `int64_t` need (`DecimalClean`).

**Only model-checked.** Liveness (`CollectorStops`, `EventuallyTold`,
`HangUpEnds`) needs fairness and ENABLED. That a text with slips of any kind is no key (the second part of `OnlyTrueKeys`) is proved for up to
two wrong letters (`WrongLettersSeen`); for letters that are left out or doubled it rests on the chosen keys, since there the checksum promises
nothing, and no argument for all keys is at hand. Of `ReportReadsBack` the lines of samples are proved (`LabelsReadBack`, `SamplesReadBack`); that
a metric is described once, above its samples and with the suffixes its type allows, is true of sensors whose names do
not collide, and checked for the relay's own and one of every other kind.

---

## 5. Where code and texts differ

Found by a run:

* **Orphans.** `docs/attachments.md:241`: unreferenced attachments should be collected. A
  client's deletion commits by itself and never calls `App::publish`, the only starter of
  the collector, so in the program as built the attachment stays.
* **LimitNewest.** `README.md:32`, NIP 1. For a full pubkey the ordering value is read from the
  pubkey, so `{"authors":[..],"limit":1}` need not answer with the newest event.
* **OnlyInvited.** `conf/nostr_server.conf:105-106`. A mute list stored before its author became
  a home user is taken back without having been counted; `mutes` wraps and the muted
  gains a point.

Seen while reading, without a run:

* an event whose NIP-05 name is taken is answered `OK true "duplicate:"` and not stored
  (`peer.cpp:255-257`), as is any event a unique index refuses;
* the same file uploaded by two connections at once: the second gets an error although the
  content is there (`peer.cpp:504`);
* a file event without the tag `f` = `file` does not count as a reference (`app.cpp:232`);
* COUNT counts candidates that were not tested (`peer.cpp:353`): it is too high when tag hashes
  collide, and for full and shortened authors in one filter under a time (`Collides`,
  `HalfNarrowed`);
* a hex prefix of 512 digits has length 0 in an `unsigned char` and matches everything
  (`filter.cpp:63`); `:` to `?` are read as hex digits (`binary.h:74`);
* the info document says `min_prefix` 32 (`app.cpp:521`), which nothing enforces;
* two uploads of one content at once replace the attachment's document (`app.cpp:580-591`), so a
  reader between its reads may answer "missing" though the content was stored all along:
  `ServedIsTrue` is about documents that stay;
* an event's 65536th tag is entered in the hash table as 0, which means free (`event.cpp:78`):
  `TagsFound` is about shorter ones;
* `to_binary` drops the iterators that `std::copy` returns (`event.h:116-118`), which is right
  only for an iterator that remembers its place, like the inserter docdb passes;
* a number in a tag beyond the second value is made a text before the id is computed
  (`event.cpp:52`), so such an event is judged by an id its JSON does not have;
* the age of an AUTH challenge is cut to whole minutes, and a time in the future has none
  (`peer.cpp:448`);
* `/routing/<relay>` looks for the URL as it is given (`app.cpp:153`), while the rows have it
  without the slash behind the host;
* the database counts as empty until an event of a kind below 4 is stored (`app.cpp:287`);
* a message to a resident without such an event is no message to a local user
  (`app.cpp:555`; `conf/nostr_server.conf:108-109`);
* keys are written as Bech32m (`bech32.cpp:288`), while NIP-19 has Bech32 (both are read);
* `bech32_stripUnknownChars` refuses a destination larger than its source
  (`bech32.cpp:510`), its comment asks for one at least as large (493);
* a text message over the limit is reported and processed all the same (`peer.cpp:109`);
* live events are not tested against a filter's `search` (`filter.cpp:27`), so `Live` asks for stored
  events as `Wants` has them and for live ones as `Test` has them;
* the limits of several filters become the largest of them (`peer.cpp:280-284`), and a filter without
  a limit lifts the others': the page is as long as asked, but one filter's matches may fill it;
* a refused event spends its grant of the rate limit (`peer.cpp:205`);
* the collector may erase content that was found stored and reused after its list was made
  (`app.cpp:636-653`, `peer.cpp:496-498`), contrary to `docs/attachments.md:297`; only with an
  in-process source of deletions;
* a shared sensor is counted for the sensor that made its holder only (`telemetry/sensor.h:145`),
  while every `disable` uncounts (211): with a second holder the first `disable` takes the
  structure out of the reports, the next wraps the count and keeps it there for good. As
  built each shared sensor is enabled once; `OwnIsReported` excepts holders
  that were `adopted`;
* a client may have one event more than the limit stored in a window, through an announcement that
  waited for its data (`peer.cpp:536`);
* an AUTH whose id is not a text is answered with a notice and no OK (`peer.cpp:433`, `AuthWithoutId`), while an EVENT
  without an id gets its OK, since its id is read inside the `try` (`peer.cpp:196`);
* a REQ with a filter that names no word, id, author, tag, kind or time, as `{}` and `{"limit":10}`, is sent nothing stored
  (`peer.cpp:292`), not even for its other filters, and its COUNT is 0 (`peer.cpp:353`), where NIP 1 (`README.md:32`) has such a
  filter match every event: `PageIsNewest` and `CountIsExact` say what the code does;
* a text of fewer bytes than a key with a valid checksum is accepted, and leaves the last bytes of the key as memory had them
  (`signature.cpp:112`); `OnlyTrueKeys` is about texts that were written for whole keys;
* an event is admitted at the moment of its judgement (`peer.cpp:236`) and stored though what let it in may be gone by then;
* no client's sensor is enabled at this commit (the line is commented out, `peer.cpp:23`), though its
  reader is installed;
* a value whose kind does not fit the declared type is printed as a plain number, or not at all, where
  `MetricPoint.h:124-130` says "regardless on MetricType";
* the states of a state set are tested with an `int` shifted by the index (`Collector.cpp:326`), which
  is defined for the first 31 only.

---

## 6. What is not modelled

docdb, cocls and coroserver are submodules whose sources are not in the repository; they
are modelled as the code uses them (atomic batches with unique indexes, coroutines, a mutex,
a queue with a position per subscriber). Signatures, ECDH and AES are library
calls. The follower, the replication and the relay bot are not in the build: the model has them as
in-process callers of `App::publish` (`Feeders`), which is all they would be to the store, and
nothing of their own state. `main.cpp` and the configuration read files, open the database and start the server; the info
document, the statistics, the web pages and the HTTP answer of NIP-05 are formatting around
single reads. Of GET `/file/`, the answer to an etag and the base64 text of the path are left
out; of the C bindings, `stripUnknownChars`, which has no caller; of the session, the parsing of JSON, the texts of notices and how the nonce of a challenge
is drawn. Of the telemetry, the arithmetic of `Decimal` and `avg_aggreg`, and `Histogram.h`, which no source
includes; spans, push and export are empty or unused.

---

## 7. Plan

Done, in this order: `RelayEvents`, `RelayArchive`, `RelayStore` and its proofs; `RelayFeed`;
`FilterIndex`; `Subscriptions` and its proofs; `RateLimiter`; `Whitelist`; the codecs of keys and
tags; `Telemetry`; `FileServing`; hex prefixes, full text, events as text and routing; `Session` and its proofs;
`Report`; search and relevance in `FilterIndex`; the proofs of `Telemetry`, `Queries`, `FileServing`, of the score, and that the store implements the feed;
`Codecs` and its proofs.

Next:

1. **Numbers.** `Decimal` and `avg_aggreg` with their widths.
2. **Composition.** `Session` as a `Conns` member of `Whitelist`, so that `home` and `welcome` move by the
   events other sessions store instead of freely.
