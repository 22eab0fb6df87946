----------------------------- MODULE RelayStore -----------------------------
(***************************************************************************)
(* App's document store under the threads that read and write it: the      *)
(* client connections (Peer), the in-process sources that call             *)
(* App::publish directly, and the attachment garbage collector.  Every     *)
(* read of an index and every commit is a step of its own, so a result     *)
(* read in one step may be stale when a later step uses it.                *)
(***************************************************************************)
EXTENDS RelayEvents

CONSTANTS Peers,      \* client connections (slots: a closed one is reused)
          Feeders,    \* in-process callers of App::publish; {} as built
          Payloads,   \* SHA256 hashes of the binary messages clients send
          NoEvent,    \* an empty optional<Event>
          MaxPosts,   \* bound on requests that start a job or a file upload
          MaxCrashes  \* bound on process restarts

ASSUME ConstantsAssumption ==
  /\ Peers \cap Feeders = {}
  /\ Payloads \subseteq STRING
  /\ NoEvent \notin Events
  /\ MaxPosts \in Nat /\ MaxCrashes \in Nat

Threads == Peers \cup Feeders

NoDoc == 0            \* "not found", and "replaces nothing"
Obsolete == -1        \* docdb::DocID(-1): a newer version is stored

Statuses == {"none", "stored", "duplicate", "refused", "error",
             "continue", "mismatch", "notice"}

\* The locals of a handler: the event, the documents it replaces, whether it came
\* by FILE, and whether the binary data is to be stored with it.
Job(e, old, oldAtt, upload, data) ==
  [ev |-> e, old |-> old, oldAtt |-> oldAtt, upload |-> upload, data |-> data]

NoJob == Job(NoEvent, NoDoc, NoDoc, FALSE, FALSE)

VARIABLES
  evRows,    \* stored events: [doc, ev, nip97]
  attRows,   \* stored attachments: [doc, hash]
  lastDoc,   \* the last document id handed out
  pc,        \* where each thread is in its handler
  job,       \* the handler's locals
  fileEvent, \* Peer::_file_event of each connection
  reply,     \* the last OK message of each connection: [ev, st]
  gc,        \* the collector: "off", "scan", "kill", "erase"
  gcKill,    \* killthem of run_attachment_gc
  gcDoc,     \* the attachment document about to be erased
  gcSeen,    \* history: lastDoc when killthem was collected
  posts, crashes,
  committed, \* history: events ever committed
  feed,      \* history: events handed to the publisher, in order
  lost       \* history: events whose broadcast a crash cut off

store == <<evRows, attRows, lastDoc, committed>>
gcVars == <<gc, gcKill, gcDoc, gcSeen>>
vars == <<store, pc, job, fileEvent, reply, gcVars, posts, crashes, feed, lost>>

-----------------------------------------------------------------------------
(* Reading the indexes.  A lookup is the set of documents it may return.   *)

OrNoDoc(docs) == IF docs = {} THEN {NoDoc} ELSE docs

find_event_by_id(id) == OrNoDoc({r.doc : r \in {x \in evRows : x.ev.id = id}})

find_attachment(h) == OrNoDoc({r.doc : r \in {x \in attRows : x.hash = h}})

\* Faulty variants: a version as old as the stored one is dropped; age is ignored.
doc_to_replace_DropsTie(e) ==
  OrNoDoc({IF r.ev.at >= e.at THEN Obsolete ELSE r.doc :
             r \in {x \in evRows : SameReplaceable(x.ev, e)}})

doc_to_replace_AnyAge(e) ==
  OrNoDoc({r.doc : r \in {x \in evRows : SameReplaceable(x.ev, e)}})

doc_to_replace(e) ==
  OrNoDoc({IF r.ev.at > e.at THEN Obsolete ELSE r.doc :
             r \in {x \in evRows : SameReplaceable(x.ev, e)}})

\* Faulty variant: the reference row does not take the attachment off the list.
Unreferenced_NoPop == {a.hash : a \in attRows}

\* Attachments whose rows in IndexAttachmentFn's index show no reference.
Unreferenced ==
  {h \in {a.hash : a \in attRows} : ~\E r \in evRows : References(r.ev, h)}

-----------------------------------------------------------------------------
(* Helpers of the handlers.                                                *)

Goto(t, where) == pc' = [pc EXCEPT ![t] = where]

Finish(t) == Goto(t, "idle") /\ job' = [job EXCEPT ![t] = NoJob]

\* An OK message for event e; in-process sources are told nothing.
Answer(t, e, st) ==
  reply' = IF t \in Peers THEN [reply EXCEPT ![t] = [ev |-> e, st |-> st]]
                          ELSE reply

\* _file_event.reset() once an upload has succeeded or failed.
DropUpload(t) ==
  fileEvent' = IF job[t].upload THEN [fileEvent EXCEPT ![t] = NoEvent]
                                ELSE fileEvent

Begin(t, e, where, upload) ==
  /\ Goto(t, where)
  /\ job' = [job EXCEPT ![t] = Job(e, NoDoc, NoDoc, upload, FALSE)]

Requested == posts < MaxPosts /\ posts' = posts + 1

-----------------------------------------------------------------------------
(* EVENT: Peer::on_event and Peer::on_event_generic.                       *)

PostDuplicate(p, e) ==
  /\ pc[p] = "idle" /\ Requested
  /\ NoDoc \notin find_event_by_id(e.id)
  /\ Answer(p, e, "duplicate")
  /\ UNCHANGED <<store, pc, job, fileEvent, gcVars, crashes, feed, lost>>

\* Rate limit, proof of work, signature, read-only mode or whitelist.
PostRefused(p, e) ==
  /\ pc[p] = "idle" /\ Requested
  /\ NoDoc \in find_event_by_id(e.id)
  /\ Answer(p, e, "refused")
  /\ UNCHANGED <<store, pc, job, fileEvent, gcVars, crashes, feed, lost>>

PostAccepted(p, e) ==
  /\ pc[p] = "idle" /\ Requested
  /\ NoDoc \in find_event_by_id(e.id)
  /\ Begin(p, e, CASE e.kind = "ephemeral" -> "broadcast"
                   [] e.kind = "deletion"  -> "findTarget"
                   [] OTHER                -> "lookup", FALSE)
  /\ UNCHANGED <<store, fileEvent, reply, gcVars, crashes, feed, lost>>

-----------------------------------------------------------------------------
(* Peer::event_deletion up to its commit: the document of the target, if   *)
(* it is stored and belongs to the author of the deletion.                 *)

Targets(d) == {r \in evRows : r.ev.id = d.target}

DeletionVoid(p) ==
  /\ pc[p] = "findTarget"
  /\ Targets(job[p].ev) = {}
  /\ Answer(p, job[p].ev, "stored") /\ Finish(p)
  /\ UNCHANGED <<store, fileEvent, gcVars, posts, crashes, feed, lost>>

DeletionForeign(p) ==
  /\ pc[p] = "findTarget"
  /\ \E r \in Targets(job[p].ev) : r.ev.author # job[p].ev.author
  /\ Answer(p, job[p].ev, "refused") /\ Finish(p)
  /\ UNCHANGED <<store, fileEvent, gcVars, posts, crashes, feed, lost>>

\* Faulty variant: the author of the target is not compared.
DeletionTarget_AnyAuthor(p) ==
  /\ pc[p] = "findTarget"
  /\ \E r \in Targets(job[p].ev) : job' = [job EXCEPT ![p] = Job(job[p].ev, r.doc, NoDoc, FALSE, FALSE)]
  /\ Goto(p, "commit")
  /\ UNCHANGED <<store, fileEvent, reply, gcVars, posts, crashes, feed, lost>>

DeletionTarget(p) ==
  /\ pc[p] = "findTarget"
  /\ \E r \in Targets(job[p].ev) :
       /\ r.ev.author = job[p].ev.author
       /\ job' = [job EXCEPT ![p] = Job(job[p].ev, r.doc, NoDoc, FALSE, FALSE)]
  /\ Goto(p, "commit")
  /\ UNCHANGED <<store, fileEvent, reply, gcVars, posts, crashes, feed, lost>>

-----------------------------------------------------------------------------
(* FILE, and the binary message that follows: Peer::on_file and            *)
(* Peer::processBinaryMessage.                                             *)

FileRefused(p, e) ==
  /\ pc[p] = "idle" /\ Requested
  /\ Answer(p, e, "refused")
  /\ UNCHANGED <<store, pc, job, fileEvent, gcVars, crashes, feed, lost>>

\* No duplicate check here; a pending announcement is overwritten.
FileAnnounced(p, e) ==
  /\ pc[p] = "idle" /\ Requested
  /\ e.kind = "file"
  /\ fileEvent' = [fileEvent EXCEPT ![p] = e]
  /\ Answer(p, e, "continue")
  /\ UNCHANGED <<store, pc, job, gcVars, crashes, feed, lost>>

BinaryUnsupported(p) ==
  /\ pc[p] = "idle" /\ fileEvent[p] = NoEvent
  /\ Answer(p, NoEvent, "notice")
  /\ UNCHANGED <<store, pc, job, fileEvent, gcVars, posts, crashes, feed, lost>>

\* The announcement stays, the client may send the file again.
BinaryMismatch(p, h) ==
  /\ pc[p] = "idle" /\ fileEvent[p] # NoEvent /\ fileEvent[p].hash # h
  /\ Answer(p, fileEvent[p], "mismatch")
  /\ UNCHANGED <<store, pc, job, fileEvent, gcVars, posts, crashes, feed, lost>>

BinaryDuplicate(p, h) ==
  /\ pc[p] = "idle" /\ fileEvent[p] # NoEvent /\ fileEvent[p].hash = h
  /\ NoDoc \notin find_event_by_id(fileEvent[p].id)
  /\ Answer(p, fileEvent[p], "duplicate")
  /\ UNCHANGED <<store, pc, job, fileEvent, gcVars, posts, crashes, feed, lost>>

BinaryMatched(p, h) ==
  /\ pc[p] = "idle" /\ fileEvent[p] # NoEvent /\ fileEvent[p].hash = h
  /\ NoDoc \in find_event_by_id(fileEvent[p].id)
  /\ Begin(p, fileEvent[p], "findAttachment", TRUE)
  /\ UNCHANGED <<store, fileEvent, reply, gcVars, posts, crashes, feed, lost>>

\* Faulty variant: the content is taken to be there already.
FindAttachment_AlwaysReuse(p) ==
  /\ pc[p] = "findAttachment"
  /\ Goto(p, "lookup")
  /\ UNCHANGED <<store, job, fileEvent, reply, gcVars, posts, crashes, feed, lost>>

\* Content already stored is not stored again: publish the event alone.
FindAttachment(p) ==
  /\ pc[p] = "findAttachment"
  /\ \E data \in BOOLEAN :
       /\ data <=> NoDoc \in find_attachment(job[p].ev.hash)
       /\ job' = [job EXCEPT ![p] = Job(job[p].ev, NoDoc, NoDoc, TRUE, data)]
  /\ Goto(p, "lookup")
  /\ UNCHANGED <<store, fileEvent, reply, gcVars, posts, crashes, feed, lost>>

\* client_main returns between two messages: the announcement is destroyed.
Disconnect(p) ==
  /\ pc[p] = "idle" /\ fileEvent[p] # NoEvent
  /\ fileEvent' = [fileEvent EXCEPT ![p] = NoEvent]
  /\ UNCHANGED <<store, pc, job, reply, gcVars, posts, crashes, feed, lost>>

-----------------------------------------------------------------------------
(* App::publish, both overloads: look up what the event replaces, commit   *)
(* event and attachment in one batch, hand the event to the subscribers.   *)

FeederPublish(f, e) ==
  /\ pc[f] = "idle" /\ Requested
  /\ Begin(f, e, "lookup", FALSE)
  /\ UNCHANGED <<store, fileEvent, reply, gcVars, crashes, feed, lost>>

PublishObsolete(t) ==
  /\ pc[t] = "lookup"
  /\ Obsolete \in doc_to_replace(job[t].ev)
  /\ Answer(t, job[t].ev, "stored") /\ DropUpload(t) /\ Finish(t)
  /\ UNCHANGED <<store, gcVars, posts, crashes, feed, lost>>

\* Faulty variant: DocID(-1) is not told from a document.
PublishLookup_NoTest(t) ==
  /\ pc[t] = "lookup"
  /\ \E old \in doc_to_replace(job[t].ev) :
       job' = [job EXCEPT ![t] = Job(job[t].ev, old, NoDoc, job[t].upload, job[t].data)]
  /\ Goto(t, "commit")
  /\ UNCHANGED <<store, fileEvent, reply, gcVars, posts, crashes, feed, lost>>

PublishLookup(t) ==
  /\ pc[t] = "lookup"
  /\ \E old \in doc_to_replace(job[t].ev) \ {Obsolete} :
     \E oldAtt \in IF job[t].data THEN find_attachment(job[t].ev.hash) ELSE {NoDoc} :
       job' = [job EXCEPT ![t] = Job(job[t].ev, old, oldAtt, job[t].upload, job[t].data)]
  /\ Goto(t, "commit")
  /\ UNCHANGED <<store, fileEvent, reply, gcVars, posts, crashes, feed, lost>>

\* Faulty variant: the index of contents is declared multi instead of unique.
Conflict_EventsOnly(t) ==
  \E r \in evRows : r.doc # job[t].old /\ UniqueKeys(r.ev) \cap UniqueKeys(job[t].ev) # {}

\* A unique key of the job is held by a document it does not replace.
Conflict(t) ==
  \/ \E r \in evRows : /\ r.doc # job[t].old
                       /\ UniqueKeys(r.ev) \cap UniqueKeys(job[t].ev) # {}
  \/ /\ job[t].data
     /\ \E a \in attRows : a.doc # job[t].oldAtt /\ a.hash = job[t].ev.hash

\* A document the job replaces is gone: docdb may refuse or just insert.
Stale(t) ==
  \/ job[t].old # NoDoc /\ ~\E r \in evRows : r.doc = job[t].old
  \/ job[t].oldAtt # NoDoc /\ ~\E a \in attRows : a.doc = job[t].oldAtt

EventRow(t, doc) == [doc |-> doc, ev |-> job[t].ev, nip97 |-> job[t].upload]

\* Faulty variant: a batch with an attachment gets ids of documents that are gone.
Commit_ReusesIds(t) ==
  LET used == {r.doc : r \in evRows} \cup {a.doc : a \in attRows}
      FreeFrom(n) == CHOOSE d \in n..(lastDoc + 2) :
                    d \notin used /\ \A k \in n..(d - 1) : k \in used
      doc == IF job[t].data THEN FreeFrom(1) ELSE lastDoc + 1
  IN /\ pc[t] = "commit" /\ ~Conflict(t)
     /\ evRows' = {r \in evRows : r.doc # job[t].old} \cup {EventRow(t, doc)}
     /\ attRows' = IF job[t].data
                     THEN {a \in attRows : a.doc # job[t].oldAtt}
                            \cup {[doc |-> FreeFrom(doc + 1), hash |-> job[t].ev.hash]}
                     ELSE attRows
     /\ lastDoc' = lastDoc + 2
     /\ committed' = committed \cup {job[t].ev}
     /\ Goto(t, "broadcast")
     /\ UNCHANGED <<job, fileEvent, reply, gcVars, posts, crashes, feed, lost>>

Commit(t) ==
  /\ pc[t] = "commit" /\ ~Conflict(t)
  /\ evRows' = {r \in evRows : r.doc # job[t].old} \cup {EventRow(t, lastDoc + 1)}
  /\ IF job[t].data
       THEN /\ attRows' = {a \in attRows : a.doc # job[t].oldAtt}
                            \cup {[doc |-> lastDoc + 2, hash |-> job[t].ev.hash]}
            /\ lastDoc' = lastDoc + 2
       ELSE attRows' = attRows /\ lastDoc' = lastDoc + 1
  /\ committed' = committed \cup {job[t].ev}
  /\ Goto(t, "broadcast")
  /\ UNCHANGED <<job, fileEvent, reply, gcVars, posts, crashes, feed, lost>>

\* Faulty variant: the exception is swallowed and the event still published.
CommitRefused_Publishes(t) ==
  /\ pc[t] = "commit" /\ Conflict(t)
  /\ Goto(t, "broadcast")
  /\ UNCHANGED <<store, job, fileEvent, reply, gcVars, posts, crashes, feed, lost>>

\* DuplicateKeyException is answered OK true "duplicate:", any other exception
\* with an error; the handler of a binary message answers an error to both.
CommitRefused(t) ==
  /\ pc[t] = "commit"
  /\ \/ Conflict(t) /\ ~job[t].upload /\ Answer(t, job[t].ev, "duplicate")
     \/ Conflict(t) /\ job[t].upload /\ Answer(t, job[t].ev, "error")
     \/ Stale(t) /\ Answer(t, job[t].ev, "error")
  /\ DropUpload(t) /\ Finish(t)
  /\ UNCHANGED <<store, gcVars, posts, crashes, feed, lost>>

\* Only App::publish starts the collector, and only after a deletion event;
\* a client's deletion takes the way of Peer::event_deletion instead.
Broadcast(t) ==
  /\ pc[t] = "broadcast"
  /\ feed' = Append(feed, job[t].ev)
  /\ Answer(t, job[t].ev, "stored") /\ DropUpload(t)
  /\ IF t \in Feeders /\ job[t].ev.kind = "deletion"
       THEN Goto(t, "startGC") /\ job' = job
       ELSE Finish(t)
  /\ UNCHANGED <<store, gcVars, posts, crashes, lost>>

-----------------------------------------------------------------------------
(* The attachment collector.  _gc_running is gc # "off".                   *)

start_gc_thread(t) ==
  /\ pc[t] = "startGC"
  /\ gc' = IF gc = "off" THEN "scan" ELSE gc
  /\ Finish(t)
  /\ UNCHANGED <<store, fileEvent, reply, gcKill, gcDoc, gcSeen, posts, crashes,
                 feed, lost>>

GCScan ==
  /\ gc = "scan"
  /\ gcKill' = Unreferenced /\ gc' = "kill" /\ gcSeen' = lastDoc
  /\ UNCHANGED <<store, pc, job, fileEvent, reply, gcDoc, posts, crashes, feed, lost>>

GCFind(h) ==
  /\ gc = "kill" /\ h \in gcKill
  /\ gcKill' = gcKill \ {h}
  /\ gcDoc' \in find_attachment(h)
  /\ gc' = IF gcDoc' = NoDoc THEN "kill" ELSE "erase"
  /\ UNCHANGED <<store, pc, job, fileEvent, reply, gcSeen, posts, crashes, feed, lost>>

\* Erasing a document that is gone may throw, which ends the pass.
GCErase ==
  /\ gc = "erase"
  /\ attRows' = {a \in attRows : a.doc # gcDoc}
  /\ gcDoc' = NoDoc
  /\ \/ gc' = "kill" /\ gcKill' = gcKill
     \/ attRows' = attRows /\ gc' = "off" /\ gcKill' = {}
  /\ UNCHANGED <<evRows, lastDoc, committed, pc, job, fileEvent, reply, gcSeen,
                 posts, crashes, feed, lost>>

\* Faulty variant: _gc_running is not cleared at the end of the pass.
GCDone_KeepsFlag ==
  /\ gc = "kill" /\ gcKill = {}
  /\ UNCHANGED vars

GCDone ==
  /\ gc = "kill" /\ gcKill = {}
  /\ gc' = "off"
  /\ UNCHANGED <<store, pc, job, fileEvent, reply, gcKill, gcDoc, gcSeen, posts,
                 crashes, feed, lost>>

-----------------------------------------------------------------------------
\* The process dies and starts again on the same database.
Crash ==
  /\ crashes < MaxCrashes /\ crashes' = crashes + 1
  /\ pc' = [t \in Threads |-> "idle"]
  /\ job' = [t \in Threads |-> NoJob]
  /\ fileEvent' = [p \in Peers |-> NoEvent]
  /\ gc' = "off" /\ gcKill' = {} /\ gcDoc' = NoDoc /\ gcSeen' = 0
  /\ lost' = lost \cup {job[t].ev : t \in {u \in Threads : pc[u] = "broadcast"}}
  /\ UNCHANGED <<store, reply, posts, feed>>

-----------------------------------------------------------------------------
Init ==
  /\ evRows = {} /\ attRows = {} /\ lastDoc = 0 /\ committed = {}
  /\ pc = [t \in Threads |-> "idle"]
  /\ job = [t \in Threads |-> NoJob]
  /\ fileEvent = [p \in Peers |-> NoEvent]
  /\ reply = [p \in Peers |-> [ev |-> NoEvent, st |-> "none"]]
  /\ gc = "off" /\ gcKill = {} /\ gcDoc = NoDoc /\ gcSeen = 0
  /\ posts = 0 /\ crashes = 0
  /\ feed = <<>> /\ lost = {}

\* A client's message reaches its connection.
Request(p) ==
  \/ \E e \in Events : \/ PostDuplicate(p, e) \/ PostRefused(p, e) \/ PostAccepted(p, e)
                       \/ FileRefused(p, e) \/ FileAnnounced(p, e)
  \/ \E h \in Payloads : BinaryMismatch(p, h) \/ BinaryDuplicate(p, h) \/ BinaryMatched(p, h)
  \/ BinaryUnsupported(p) \/ Disconnect(p)

\* A thread that is inside a handler goes on.
Continue(t) ==
  \/ t \in Peers /\ (DeletionVoid(t) \/ DeletionForeign(t) \/ DeletionTarget(t)
                     \/ FindAttachment(t))
  \/ PublishObsolete(t) \/ PublishLookup(t) \/ Commit(t) \/ CommitRefused(t)
  \/ Broadcast(t) \/ start_gc_thread(t)

Collector == GCScan \/ (\E h \in gcKill : GCFind(h)) \/ GCErase \/ GCDone

Next ==
  \/ \E p \in Peers : Request(p)
  \/ \E f \in Feeders : \E e \in Events : FeederPublish(f, e)
  \/ \E t \in Threads : Continue(t)
  \/ Collector
  \/ Crash

Spec == Init /\ [][Next]_vars

\* Handlers never wait for a client and the collector is a thread of its own;
\* nothing obliges a client to send anything.
FairSpec == Spec /\ (\A t \in Threads : WF_vars(Continue(t))) /\ WF_vars(Collector)

-----------------------------------------------------------------------------
(* Properties.                                                             *)

JobType == [ev : Events \cup {NoEvent}, old : Nat, oldAtt : Nat,
            upload : BOOLEAN, data : BOOLEAN]

\* The values the variables range over; a thread inside a handler has an event.
TypeOK ==
  /\ evRows \subseteq [doc : Nat, ev : Events, nip97 : BOOLEAN]
  /\ attRows \subseteq [doc : Nat, hash : STRING]
  /\ lastDoc \in Nat
  /\ committed \subseteq Events
  /\ pc \in [Threads -> {"idle", "findTarget", "findAttachment", "lookup",
                          "commit", "broadcast", "startGC"}]
  /\ job \in [Threads -> JobType]
  /\ \A t \in Threads : pc[t] # "idle" => job[t].ev \in Events
  /\ fileEvent \in [Peers -> Events \cup {NoEvent}]
  /\ reply \in [Peers -> [ev : Events \cup {NoEvent}, st : Statuses]]
  /\ gc \in {"off", "scan", "kill", "erase"}
  /\ gcKill \subseteq STRING /\ gcDoc \in Nat /\ gcSeen \in Nat
  /\ posts \in 0..MaxPosts /\ crashes \in 0..MaxCrashes
  /\ feed \in Seq(Events) /\ lost \subseteq Events

\* The unique indexes stay unique although every writer decides what to replace
\* from a read that may be stale at its commit (App::publish, event_deletion):
\* no two stored events share an id, a replaceable key or a NIP-05 name, and no
\* file content is stored twice.
UniqueIndexes ==
  /\ \A r, s \in evRows :
       r # s => r.doc # s.doc /\ UniqueKeys(r.ev) \cap UniqueKeys(s.ev) = {}
  /\ \A a, b \in attRows : a # b => a.doc # b.doc /\ a.hash # b.hash

\* No step of publish, event_deletion, an upload, the collector or a restart
\* makes a stored event disappear, unless the same step stores a version that is
\* not older, or a deletion of it by its own author.
SuccessorOnly ==
  [][\A r \in evRows \ evRows' :
       \E s \in evRows' \ evRows : MayReplace(s.ev, r.ev)]_vars

\* The subscribers are told of exactly what was stored: a non-ephemeral event
\* in the feed was committed before, and a committed one has been fed, is about
\* to be, or its broadcast was cut off by a crash.
FeedFaithful ==
  /\ \A i \in DOMAIN feed : feed[i].kind = "ephemeral" \/ feed[i] \in committed
  /\ \A e \in committed :
       \/ \E i \in DOMAIN feed : feed[i] = e
       \/ \E t \in Threads : pc[t] = "broadcast" /\ job[t].ev = e
       \/ e \in lost

NewerCommitted(e) == \E f \in committed : SameReplaceable(f, e) /\ f.at > e.at

\* OK true with an empty text tells the truth: the event has been committed, is
\* not for storing, or a strictly newer version had been committed (the silent
\* drop of App::publish).  A deletion is also answered so when it had no target.
StoredReplyIsTrue ==
  \A p \in Peers : reply[p].st = "stored" =>
    LET e == reply[p].ev
    IN e \in committed \/ e.kind \in {"ephemeral", "deletion"} \/ NewerCommitted(e)

\* An event uploaded with its file (nip97) never refers to content that is not
\* there, whoever else uploads or deletes the same content meanwhile: the batch
\* of App::publish and the reuse path of processBinaryMessage together.
FileEventHasData ==
  \A r \in evRows : r.nip97 => \E a \in attRows : a.hash = r.ev.hash

\* run_attachment_gc acts on a list that ages: still, content it is going to kill
\* is referenced by no event that was stored when the list was made.
CollectorSparesReferenced ==
  \A h \in gcKill : \A r \in evRows : References(r.ev, h) => r.doc > gcSeen

\* The store implements the archive the relay promises.
Archive == INSTANCE RelayArchive
             WITH stored <- {r.ev : r \in evRows}, files <- {a.hash : a \in attRows}
ImplementsArchive == Archive!Spec

\* The store and its broadcasts look to a connection as RelayFeed says: a commit,
\* later the broadcast of that event, by whatever handlers and at whatever moment.
Feed == INSTANCE RelayFeed
          WITH Writers <- Threads, None <- NoEvent,
               stored <- {r.ev : r \in evRows},
               pending <- [t \in Threads |-> IF pc[t] = "broadcast" THEN job[t].ev
                                                                  ELSE NoEvent]
ImplementsFeed == Feed!Spec

\* A pass of the collector ends, so a later deletion can start another one.
CollectorStops == gc # "off" ~> gc = "off"

-----------------------------------------------------------------------------
(* The parts of the inductive invariants behind these properties.          *)

\* Document ids are handed out once.
DocsHandedOut ==
  /\ \A r \in evRows : r.doc \in 1..lastDoc
  /\ \A a \in attRows : a.doc \in 1..lastDoc

\* A commit of event e in place of documents old and oldAtt replaces nothing it may
\* not: what is stored there, if it still is, is an event e may replace and the
\* content of its file.
MayCommit(e, old, oldAtt) ==
  /\ old <= lastDoc /\ oldAtt <= lastDoc
  /\ \A r \in evRows : r.doc = old => MayReplace(e, r.ev)
  /\ \A a \in attRows : a.doc = oldAtt => a.hash = e.hash

JobsAgree ==
  \A t \in Threads :
    /\ pc[t] = "findTarget" => job[t].ev.kind = "deletion"
    /\ pc[t] = "commit" => MayCommit(job[t].ev, job[t].old, job[t].oldAtt)

StoreInv == DocsHandedOut /\ UniqueIndexes /\ JobsAgree

\* What is stored was committed, and so was what is about to be broadcast.
CommittedFirst ==
  /\ \A r \in evRows : r.ev \in committed
  /\ \A t \in Threads : pc[t] = "broadcast" =>
       job[t].ev.kind = "ephemeral" \/ job[t].ev \in committed

\* With no in-process source the collector never runs, and an upload that found
\* its content stored keeps finding it.
ReuseHolds ==
  /\ gc = "off"
  /\ \A t \in Threads :
       /\ pc[t] # "startGC"
       /\ pc[t] \in {"lookup", "commit"} /\ job[t].upload /\ ~job[t].data =>
            \E a \in attRows : a.hash = job[t].ev.hash

\* The list of the collector is not older than its scan.
ScanBehind == gcSeen <= lastDoc

-----------------------------------------------------------------------------
(* What the repository's texts say, and the code does not do.              *)

\* docs/attachments.md: "Relay should perform garbage collecting of attachments
\* without any reference on events."
OrphansCollected ==
  \A h \in Payloads : h \in Unreferenced ~> h \notin Unreferenced
=============================================================================
