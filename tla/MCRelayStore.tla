---------------------------- MODULE MCRelayStore ----------------------------
(***************************************************************************)
(* Events, threads and bounds for model checking RelayStore.               *)
(***************************************************************************)
EXTENDS RelayStore

Event(id, author, kind, at) ==
  [id |-> id, author |-> author, kind |-> kind, at |-> at, slot |-> "",
   name |-> "", target |-> "", hash |-> "", ftag |-> FALSE]

Version(id, author, at) == [Event(id, author, "replaceable", at) EXCEPT !.slot = "s"]
Profile(id, author, at, name) == [Event(id, author, "metadata", at) EXCEPT !.name = name]
Deletion(id, author, target) == [Event(id, author, "deletion", 9) EXCEPT !.target = target]
File(id, author, hash, ftag) ==
  [Event(id, author, "file", 1) EXCEPT !.hash = hash, !.ftag = ftag]

\* Three versions of one replaceable event, two of them equally old, one of which
\* its author may delete; two users claim one NIP-05 name; an ephemeral note; a
\* file whose event lacks the tag that makes it a reference.
VersionEvents ==
  {Version("v1", "alice", 1), Version("v2", "alice", 2), Version("w2", "alice", 2),
   Deletion("d2", "alice", "v2"),
   Profile("a1", "alice", 1, "a@relay"), Profile("b1", "bob", 1, "a@relay"),
   Event("e1", "bob", "ephemeral", 1), File("f0", "bob", "h1", FALSE)}

\* Two users share one file content, and one of them deletes the file event.
SharedFile ==
  {File("f1", "alice", "h1", TRUE), File("f2", "bob", "h1", TRUE),
   Deletion("d1", "alice", "f1")}

\* So does, in vain, the other one.
FileEvents == SharedFile \cup {Deletion("x1", "bob", "f1")}

\* Two users share one file content, but the file event of one lacks the tag that makes
\* it a reference; another file; and an in-process source may bring a deletion of an
\* event that is not stored here, which starts the collector.
CollectorEvents ==
  {File("f0", "alice", "h1", FALSE), File("f1", "bob", "h1", TRUE),
   File("f2", "bob", "h2", TRUE), Deletion("d1", "bob", "f1"),
   Deletion("d9", "bob", "elsewhere")}
=============================================================================
