-------------------------- MODULE RelayStoreProofs --------------------------
(***************************************************************************)
(* Theorems about RelayStore, for any events, threads and bounds: its      *)
(* types; from the invariant StoreInv its unique indexes, what may push an *)
(* event out, and that the store implements the archive; then what clients *)
(* are told: the feed is faithful, the store with its feed implements      *)
(* RelayFeed, and an unqualified OK is true.  At the end, its files.       *)
(***************************************************************************)
EXTENDS FileServing, TLAPS, SequenceTheorems

\* What an index lookup may return: see find_event_by_id, find_attachment and
\* doc_to_replace.
LEMMA LookupTypes ==
  ASSUME TypeOK
  PROVE  /\ \A h : find_attachment(h) \subseteq Nat
         /\ \A e \in Events : doc_to_replace(e) \subseteq Nat \cup {Obsolete}
         /\ Unreferenced \subseteq STRING
<1>1. \A r \in evRows : r.doc \in Nat
  BY DEF TypeOK
<1>2. \A a \in attRows : a.doc \in Nat /\ a.hash \in STRING
  BY DEF TypeOK
<1>3. \A h : find_attachment(h) \subseteq Nat
  BY <1>2 DEF find_attachment, OrNoDoc, NoDoc
<1>4. \A e \in Events : doc_to_replace(e) \subseteq Nat \cup {Obsolete}
  BY <1>1 DEF doc_to_replace, OrNoDoc, NoDoc
<1>5. Unreferenced \subseteq STRING
  BY <1>2 DEF Unreferenced
<1> QED BY <1>3, <1>4, <1>5

\* Every event has the fields of EventType.
LEMMA EventFields ==
  ASSUME NEW e \in Events
  PROVE  e.hash \in STRING /\ e.at \in Nat /\ e.kind \in Kinds
BY EventsAssumption DEF EventType

\* Ending a handler leaves well-typed program counters and locals.
LEMMA FinishType ==
  ASSUME TypeOK, NEW t \in Threads, Finish(t)
  PROVE  /\ pc' \in [Threads -> {"idle", "findTarget", "findAttachment", "lookup",
                                 "commit", "broadcast", "startGC"}]
         /\ job' \in [Threads -> JobType]
         /\ \A u \in Threads : pc'[u] # "idle" => job'[u].ev \in Events
<1>1. NoJob \in JobType
  BY DEF NoJob, Job, JobType, NoDoc
<1>2. /\ pc' = [pc EXCEPT ![t] = "idle"]
      /\ job' = [job EXCEPT ![t] = NoJob]
  BY DEF Finish, Goto
<1> QED BY <1>1, <1>2 DEF TypeOK

\* An answer is well typed.
LEMMA AnswerType ==
  ASSUME TypeOK, NEW t \in Threads, NEW e \in Events \cup {NoEvent},
         NEW st \in Statuses, Answer(t, e, st)
  PROVE  reply' \in [Peers -> [ev : Events \cup {NoEvent}, st : Statuses]]
<1>1. [ev |-> e, st |-> st] \in [ev : Events \cup {NoEvent}, st : Statuses]
  OBVIOUS
<1> QED BY <1>1 DEF TypeOK, Answer

\* Emptying a connection's announcement is well typed.
LEMMA DropUploadType ==
  ASSUME TypeOK, NEW t \in Threads, DropUpload(t)
  PROVE  fileEvent' \in [Peers -> Events \cup {NoEvent}]
BY DEF TypeOK, DropUpload

\* Starting a job for an event leaves well-typed program counters and locals.
LEMMA BeginType ==
  ASSUME TypeOK, NEW t \in Threads, NEW e \in Events, NEW upload \in BOOLEAN,
         NEW where \in {"findTarget", "findAttachment", "lookup", "broadcast"},
         Begin(t, e, where, upload)
  PROVE  /\ pc' \in [Threads -> {"idle", "findTarget", "findAttachment", "lookup",
                                 "commit", "broadcast", "startGC"}]
         /\ job' \in [Threads -> JobType]
         /\ \A u \in Threads : pc'[u] # "idle" => job'[u].ev \in Events
<1> DEFINE j == Job(e, NoDoc, NoDoc, upload, FALSE)
<1>1. j \in JobType /\ j.ev = e
  BY DEF Job, JobType, NoDoc
<1>2. pc' = [pc EXCEPT ![t] = where] /\ job' = [job EXCEPT ![t] = j]
  BY DEF Begin, Goto
<1> HIDE DEF j
<1> QED BY <1>1, <1>2 DEF TypeOK

\* A handler that assigns its locals keeps the types of all handlers.
LEMMA AssignJob ==
  ASSUME TypeOK, NEW t \in Threads, NEW e \in Events, NEW old \in Nat,
         NEW oldAtt \in Nat, NEW upload \in BOOLEAN, NEW data \in BOOLEAN,
         job' = [job EXCEPT ![t] = Job(e, old, oldAtt, upload, data)]
  PROVE  /\ job' \in [Threads -> JobType]
         /\ job'[t].ev = e
         /\ \A u \in Threads : u # t => job'[u] = job[u]
<1>1. Job(e, old, oldAtt, upload, data) \in JobType
  BY DEF Job, JobType
<1>2. Job(e, old, oldAtt, upload, data).ev = e
  BY DEF Job
<1> QED BY <1>1, <1>2 DEF TypeOK

\* Counting a request keeps the count within its bound.
LEMMA RequestedType ==
  ASSUME TypeOK, Requested
  PROVE  posts' \in 0..MaxPosts
BY ConstantsAssumption DEF TypeOK, Requested

\* Every step of the store keeps the types: the core of TypeCorrect.
LEMMA TypeStep ==
  ASSUME TypeOK, [Next]_vars
  PROVE  TypeOK'
<1> USE DEF Threads
<1>1. ASSUME NEW p \in Peers, NEW e \in Events, PostDuplicate(p, e)
      PROVE  TypeOK'
  BY <1>1, AnswerType, RequestedType DEF PostDuplicate, TypeOK, store, gcVars, Statuses
<1>2. ASSUME NEW p \in Peers, NEW e \in Events, PostRefused(p, e)
      PROVE  TypeOK'
  BY <1>2, AnswerType, RequestedType DEF PostRefused, TypeOK, store, gcVars, Statuses
<1>3. ASSUME NEW p \in Peers, NEW e \in Events, PostAccepted(p, e)
      PROVE  TypeOK'
  BY <1>3, BeginType, RequestedType DEF PostAccepted, TypeOK, store, gcVars
<1>4. ASSUME NEW p \in Peers, NEW e \in Events, FileRefused(p, e)
      PROVE  TypeOK'
  BY <1>4, AnswerType, RequestedType DEF FileRefused, TypeOK, store, gcVars, Statuses
<1>5. ASSUME NEW p \in Peers, NEW e \in Events, FileAnnounced(p, e)
      PROVE  TypeOK'
  BY <1>5, AnswerType, RequestedType DEF FileAnnounced, TypeOK, store, gcVars, Statuses
<1>6. ASSUME NEW p \in Peers, NEW h \in Payloads, BinaryMismatch(p, h)
      PROVE  TypeOK'
  <2>1. fileEvent[p] \in Events \cup {NoEvent}
    BY DEF TypeOK
  <2> QED BY <1>6, <2>1, AnswerType DEF BinaryMismatch, TypeOK, store, gcVars, Statuses
<1>7. ASSUME NEW p \in Peers, NEW h \in Payloads, BinaryDuplicate(p, h)
      PROVE  TypeOK'
  <2>1. fileEvent[p] \in Events \cup {NoEvent}
    BY DEF TypeOK
  <2> QED BY <1>7, <2>1, AnswerType DEF BinaryDuplicate, TypeOK, store, gcVars, Statuses
<1>8. ASSUME NEW p \in Peers, NEW h \in Payloads, BinaryMatched(p, h)
      PROVE  TypeOK'
  <2>1. fileEvent[p] \in Events
    BY <1>8 DEF TypeOK, BinaryMatched
  <2> QED BY <1>8, <2>1, BeginType DEF BinaryMatched, TypeOK, store, gcVars
<1>9. ASSUME NEW p \in Peers, BinaryUnsupported(p)
      PROVE  TypeOK'
  BY <1>9, AnswerType DEF BinaryUnsupported, TypeOK, store, gcVars, Statuses
<1>10. ASSUME NEW p \in Peers, Disconnect(p)
       PROVE  TypeOK'
  BY <1>10 DEF Disconnect, TypeOK, store, gcVars
<1>11. ASSUME NEW f \in Feeders, NEW e \in Events, FeederPublish(f, e)
       PROVE  TypeOK'
  BY <1>11, BeginType, RequestedType DEF FeederPublish, TypeOK, store, gcVars
<1>12. ASSUME NEW t \in Peers, DeletionVoid(t)
       PROVE  TypeOK'
  <2>1. job[t].ev \in Events
    BY <1>12 DEF TypeOK, DeletionVoid
  <2> QED BY <1>12, <2>1, AnswerType, FinishType
          DEF DeletionVoid, TypeOK, store, gcVars, Statuses
<1>13. ASSUME NEW t \in Peers, DeletionForeign(t)
       PROVE  TypeOK'
  <2>1. job[t].ev \in Events
    BY <1>13 DEF TypeOK, DeletionForeign
  <2> QED BY <1>13, <2>1, AnswerType, FinishType
          DEF DeletionForeign, TypeOK, store, gcVars, Statuses
<1>14. ASSUME NEW t \in Peers, DeletionTarget(t)
       PROVE  TypeOK'
  <2>1. job[t].ev \in Events
    BY <1>14 DEF TypeOK, DeletionTarget
  <2>2. PICK r \in Targets(job[t].ev) :
          job' = [job EXCEPT ![t] = Job(job[t].ev, r.doc, NoDoc, FALSE, FALSE)]
    BY <1>14 DEF DeletionTarget
  <2>3. r.doc \in Nat /\ NoDoc \in Nat
    BY <2>2 DEF Targets, TypeOK, NoDoc
  <2>4. /\ job' \in [Threads -> JobType] /\ job'[t].ev = job[t].ev
        /\ \A u \in Threads : u # t => job'[u] = job[u]
    BY <2>1, <2>2, <2>3, AssignJob
  <2> QED BY <1>14, <2>1, <2>4 DEF DeletionTarget, Goto, TypeOK, store, gcVars
<1>15. ASSUME NEW t \in Peers, FindAttachment(t)
       PROVE  TypeOK'
  <2>1. job[t].ev \in Events
    BY <1>15 DEF TypeOK, FindAttachment
  <2>2. PICK data \in BOOLEAN :
          job' = [job EXCEPT ![t] = Job(job[t].ev, NoDoc, NoDoc, TRUE, data)]
    BY <1>15 DEF FindAttachment
  <2>3. /\ job' \in [Threads -> JobType] /\ job'[t].ev = job[t].ev
        /\ \A u \in Threads : u # t => job'[u] = job[u]
    BY <2>1, <2>2, AssignJob DEF NoDoc
  <2> QED BY <1>15, <2>1, <2>3 DEF FindAttachment, Goto, TypeOK, store, gcVars
<1>16. ASSUME NEW t \in Threads, PublishObsolete(t)
       PROVE  TypeOK'
  <2>1. job[t].ev \in Events
    BY <1>16 DEF TypeOK, PublishObsolete
  <2> QED BY <1>16, <2>1, AnswerType, FinishType, DropUploadType
          DEF PublishObsolete, TypeOK, store, gcVars, Statuses
<1>17. ASSUME NEW t \in Threads, PublishLookup(t)
       PROVE  TypeOK'
  <2>1. job[t].ev \in Events
    BY <1>17 DEF TypeOK, PublishLookup
  <2>2. PICK old \in doc_to_replace(job[t].ev) \ {Obsolete},
             oldAtt \in IF job[t].data THEN find_attachment(job[t].ev.hash) ELSE {NoDoc} :
          job' = [job EXCEPT ![t] = Job(job[t].ev, old, oldAtt, job[t].upload, job[t].data)]
    BY <1>17 DEF PublishLookup
  <2>3. old \in Nat /\ oldAtt \in Nat
    BY <2>1, <2>2, LookupTypes DEF NoDoc
  <2>4. job[t].upload \in BOOLEAN /\ job[t].data \in BOOLEAN
    BY DEF TypeOK, JobType
  <2>5. /\ job' \in [Threads -> JobType] /\ job'[t].ev = job[t].ev
        /\ \A u \in Threads : u # t => job'[u] = job[u]
    BY <2>1, <2>2, <2>3, <2>4, AssignJob
  <2> QED BY <1>17, <2>1, <2>5 DEF PublishLookup, Goto, TypeOK, store, gcVars
<1>18. ASSUME NEW t \in Threads, Commit(t)
       PROVE  TypeOK'
  <2>1. job[t].ev \in Events /\ job[t].upload \in BOOLEAN
    BY <1>18 DEF TypeOK, Commit, JobType
  <2>2. job[t].ev.hash \in STRING
    BY <2>1, EventFields
  <2>3. EventRow(t, lastDoc + 1) \in [doc : Nat, ev : Events, nip97 : BOOLEAN]
    BY <2>1 DEF EventRow, TypeOK
  <2>4. [doc |-> lastDoc + 2, hash |-> job[t].ev.hash] \in [doc : Nat, hash : STRING]
    BY <2>2 DEF TypeOK
  <2>5. evRows' \subseteq [doc : Nat, ev : Events, nip97 : BOOLEAN]
    BY <1>18, <2>3 DEF Commit, TypeOK
  <2>6. attRows' \subseteq [doc : Nat, hash : STRING] /\ lastDoc' \in Nat
    BY <1>18, <2>4 DEF Commit, TypeOK
  <2> QED BY <1>18, <2>1, <2>5, <2>6 DEF Commit, Goto, TypeOK, gcVars
<1>19. ASSUME NEW t \in Threads, CommitRefused(t)
       PROVE  TypeOK'
  <2>1. job[t].ev \in Events
    BY <1>19 DEF TypeOK, CommitRefused
  <2>2. reply' \in [Peers -> [ev : Events \cup {NoEvent}, st : Statuses]]
    BY <1>19, <2>1, AnswerType DEF CommitRefused, Statuses
  <2> QED BY <1>19, <2>2, FinishType, DropUploadType DEF CommitRefused, TypeOK, store, gcVars
<1>20. ASSUME NEW t \in Threads, Broadcast(t)
       PROVE  TypeOK'
  <2>1. job[t].ev \in Events
    BY <1>20 DEF TypeOK, Broadcast
  <2>2. feed' \in Seq(Events)
    BY <1>20, <2>1 DEF Broadcast, TypeOK
  <2>3. CASE t \in Feeders /\ job[t].ev.kind = "deletion"
    BY <1>20, <2>1, <2>2, <2>3, AnswerType, DropUploadType
       DEF Broadcast, Goto, TypeOK, store, gcVars, Statuses
  <2>4. CASE ~(t \in Feeders /\ job[t].ev.kind = "deletion")
    BY <1>20, <2>1, <2>2, <2>4, AnswerType, DropUploadType, FinishType
       DEF Broadcast, TypeOK, store, gcVars, Statuses
  <2> QED BY <2>3, <2>4
<1>21. ASSUME NEW t \in Threads, start_gc_thread(t)
       PROVE  TypeOK'
  BY <1>21, FinishType DEF start_gc_thread, TypeOK, store
<1>22. ASSUME GCScan PROVE TypeOK'
  BY <1>22, LookupTypes DEF GCScan, TypeOK, store
<1>23. ASSUME NEW h \in gcKill, GCFind(h) PROVE TypeOK'
  BY <1>23, LookupTypes DEF GCFind, TypeOK, store
<1>24. ASSUME GCErase PROVE TypeOK'
  BY <1>24 DEF GCErase, TypeOK, NoDoc
<1>25. ASSUME GCDone PROVE TypeOK'
  BY <1>25 DEF GCDone, TypeOK, store
<1>26. ASSUME Crash PROVE TypeOK'
  <2>1. NoJob \in JobType
    BY DEF NoJob, Job, JobType, NoDoc
  <2>2. lost' \subseteq Events
    BY <1>26 DEF Crash, TypeOK
  <2>3. crashes' \in 0..MaxCrashes
    BY <1>26, ConstantsAssumption DEF Crash, TypeOK
  <2> QED BY <1>26, <2>1, <2>2, <2>3 DEF Crash, TypeOK, store, NoDoc
<1>27. CASE UNCHANGED vars
  BY <1>27 DEF vars, store, gcVars, TypeOK
<1> QED
  BY <1>1, <1>2, <1>3, <1>4, <1>5, <1>6, <1>7, <1>8, <1>9, <1>10, <1>11, <1>12, <1>13,
     <1>14, <1>15, <1>16, <1>17, <1>18, <1>19, <1>20, <1>21, <1>22, <1>23, <1>24,
     <1>25, <1>26, <1>27 DEF Next, Request, Continue, Collector

\* The variables of the store, the handlers and the collector keep their types.
THEOREM TypeCorrect == Spec => []TypeOK
<1>1. Init => TypeOK
  BY ConstantsAssumption
     DEF Init, TypeOK, Threads, NoJob, Job, JobType, NoDoc, Statuses
<1>2. TypeOK /\ [Next]_vars => TypeOK'
  BY TypeStep
<1> QED BY <1>1, <1>2, PTL DEF Spec

-----------------------------------------------------------------------------
(* The store: who writes it, what a handler is about to replace, and the   *)
(* archive.                                                                *)

\* Only a commit and the collector write the store.
LEMMA StoreWriters ==
  ASSUME [Next]_vars
  PROVE  \/ \E t \in Threads : Commit(t)
         \/ GCErase
         \/ UNCHANGED store
BY DEF Next, Request, Continue, Collector, vars, PostDuplicate, PostRefused, PostAccepted,
       FileRefused, FileAnnounced, BinaryMismatch, BinaryDuplicate, BinaryMatched,
       BinaryUnsupported, Disconnect, FeederPublish, DeletionVoid, DeletionForeign,
       DeletionTarget, FindAttachment, PublishObsolete, PublishLookup, CommitRefused,
       Broadcast, start_gc_thread, GCScan, GCFind, GCDone, Crash

\* Only these steps bring a handler to the state "findTarget" or "commit", or
\* change its locals there.
LEMMA JobWriters ==
  ASSUME TypeOK, [Next]_vars, NEW t \in Threads, pc'[t] \in {"findTarget", "commit"}
  PROVE  \/ t \in Peers /\ \E e \in Events : PostAccepted(t, e)
         \/ t \in Peers /\ DeletionTarget(t)
         \/ PublishLookup(t)
         \/ pc'[t] = pc[t] /\ job'[t] = job[t]
<1> USE DEF Threads
<1> SUFFICES ASSUME ~(pc'[t] = pc[t] /\ job'[t] = job[t])
             PROVE  \/ t \in Peers /\ \E e \in Events : PostAccepted(t, e)
                    \/ t \in Peers /\ DeletionTarget(t)
                    \/ PublishLookup(t)
  OBVIOUS
<1>1. /\ pc \in [Threads -> {"idle", "findTarget", "findAttachment", "lookup",
                             "commit", "broadcast", "startGC"}]
      /\ job \in [Threads -> JobType]
  BY DEF TypeOK
<1>2. ASSUME NEW p \in Peers, Request(p)
      PROVE  t \in Peers /\ \E e \in Events : PostAccepted(t, e)
  <2>1. CASE \E e \in Events : PostAccepted(p, e)
    BY <1>1, <2>1 DEF PostAccepted, Begin, Goto
  <2>2. CASE \E h \in Payloads : BinaryMatched(p, h)
    BY <1>1, <2>2 DEF BinaryMatched, Begin, Goto
  <2> QED BY <1>1, <1>2, <2>1, <2>2
          DEF Request, PostDuplicate, PostRefused, FileRefused, FileAnnounced,
              BinaryMismatch, BinaryDuplicate, BinaryUnsupported, Disconnect
<1>3. ASSUME NEW f \in Feeders, NEW e \in Events, FeederPublish(f, e)
      PROVE  FALSE
  BY <1>1, <1>3 DEF FeederPublish, Begin, Goto
<1>4. ASSUME NEW u \in Threads, Continue(u)
      PROVE  (t \in Peers /\ DeletionTarget(t)) \/ PublishLookup(t)
  <2>1. CASE u \in Peers /\ DeletionTarget(u)
    BY <1>1, <2>1 DEF DeletionTarget, Goto
  <2>2. CASE PublishLookup(u)
    BY <1>1, <2>2 DEF PublishLookup, Goto
  <2>3. CASE u \in Peers /\ FindAttachment(u)
    BY <1>1, <2>3 DEF FindAttachment, Goto
  <2>4. CASE u \in Peers /\ (DeletionVoid(u) \/ DeletionForeign(u))
    BY <1>1, <2>4 DEF DeletionVoid, DeletionForeign, Finish, Goto
  <2>5. CASE PublishObsolete(u) \/ CommitRefused(u) \/ start_gc_thread(u)
    BY <1>1, <2>5 DEF PublishObsolete, CommitRefused, start_gc_thread, Finish, Goto
  <2>6. CASE Commit(u)
    BY <1>1, <2>6 DEF Commit, Goto
  <2>7. CASE Broadcast(u)
    BY <1>1, <2>7 DEF Broadcast, Finish, Goto
  <2> QED BY <1>4, <2>1, <2>2, <2>3, <2>4, <2>5, <2>6, <2>7 DEF Continue
<1>5. ASSUME Collector PROVE FALSE
  BY <1>5 DEF Collector, GCScan, GCFind, GCErase, GCDone
<1>6. ASSUME Crash PROVE FALSE
  BY <1>6 DEF Crash
<1>7. ASSUME UNCHANGED vars PROVE FALSE
  BY <1>7 DEF vars
<1> QED BY <1>2, <1>3, <1>4, <1>5, <1>6, <1>7 DEF Next

\* What Commit and the collector do to the rows.
LEMMA CommitRows ==
  ASSUME TypeOK, NEW t \in Threads, Commit(t)
  PROVE  /\ lastDoc \in Nat /\ lastDoc' \in Nat /\ lastDoc' > lastDoc
         /\ \A r \in evRows' :
              \/ r \in evRows /\ r.doc # job[t].old
              \/ r = EventRow(t, lastDoc + 1)
         /\ \A a \in attRows' :
              \/ a \in attRows /\ (job[t].data => a.doc # job[t].oldAtt)
              \/ /\ a = [doc |-> lastDoc + 2, hash |-> job[t].ev.hash]
                 /\ job[t].data /\ lastDoc' = lastDoc + 2
         /\ EventRow(t, lastDoc + 1).doc = lastDoc + 1
         /\ EventRow(t, lastDoc + 1).ev = job[t].ev
<1>1. lastDoc \in Nat /\ job[t].data \in BOOLEAN
  BY DEF TypeOK, JobType
<1>2. CASE job[t].data
  BY <1>1, <1>2 DEF Commit, EventRow
<1>3. CASE ~job[t].data
  BY <1>1, <1>3 DEF Commit, EventRow
<1> QED BY <1>2, <1>3

LEMMA EraseRows ==
  ASSUME GCErase
  PROVE  evRows' = evRows /\ lastDoc' = lastDoc /\ attRows' \subseteq attRows
BY DEF GCErase

\* A document id is not handed out twice.
LEMMA DocsStep ==
  ASSUME TypeOK, DocsHandedOut, [Next]_vars
  PROVE  DocsHandedOut' /\ lastDoc' >= lastDoc
<1>1. CASE UNCHANGED store
  BY <1>1 DEF store, DocsHandedOut, TypeOK
<1>2. CASE GCErase
  BY <1>2, EraseRows DEF DocsHandedOut, TypeOK
<1>3. ASSUME NEW t \in Threads, Commit(t)
      PROVE  DocsHandedOut' /\ lastDoc' >= lastDoc
  BY <1>3, CommitRows DEF DocsHandedOut
<1> QED BY <1>1, <1>2, <1>3, StoreWriters

\* A commit that meets no conflict keeps every unique index unique.
LEMMA UniqueStep ==
  ASSUME TypeOK, DocsHandedOut, UniqueIndexes, [Next]_vars
  PROVE  UniqueIndexes'
<1>1. CASE UNCHANGED store
  BY <1>1 DEF store, UniqueIndexes
<1>2. CASE GCErase
  BY <1>2, EraseRows DEF UniqueIndexes
<1>3. ASSUME NEW t \in Threads, Commit(t)
      PROVE  UniqueIndexes'
  <2>1. ASSUME NEW r \in evRows', NEW s \in evRows', r # s
        PROVE  r.doc # s.doc /\ UniqueKeys(r.ev) \cap UniqueKeys(s.ev) = {}
    <3> DEFINE new == EventRow(t, lastDoc + 1)
    <3>1. \A x \in evRows : x.doc # job[t].old =>
            x.doc # new.doc /\ UniqueKeys(x.ev) \cap UniqueKeys(new.ev) = {}
      BY <1>3, CommitRows DEF Commit, Conflict, DocsHandedOut
    <3>2. /\ (r \in evRows /\ r.doc # job[t].old) \/ r = new
          /\ (s \in evRows /\ s.doc # job[t].old) \/ s = new
      BY <1>3, CommitRows
    <3> HIDE DEF new
    <3> QED BY <2>1, <3>1, <3>2 DEF UniqueIndexes
  <2>2. ASSUME NEW a \in attRows', NEW b \in attRows', a # b
        PROVE  a.doc # b.doc /\ a.hash # b.hash
    <3>1. CASE ~job[t].data
      BY <1>3, <2>2, <3>1 DEF Commit, UniqueIndexes
    <3>2. CASE job[t].data
      <4> DEFINE new == [doc |-> lastDoc + 2, hash |-> job[t].ev.hash]
      <4>1. \A x \in attRows : x.doc # job[t].oldAtt => x.doc # new.doc /\ x.hash # new.hash
        BY <1>3, <3>2, CommitRows DEF Commit, Conflict, DocsHandedOut
      <4>2. /\ (a \in attRows /\ a.doc # job[t].oldAtt) \/ a = new
            /\ (b \in attRows /\ b.doc # job[t].oldAtt) \/ b = new
        BY <1>3, <3>2, CommitRows
      <4> HIDE DEF new
      <4> QED BY <2>2, <4>1, <4>2 DEF UniqueIndexes
    <3> QED BY <3>1, <3>2
  <2> QED BY <2>1, <2>2 DEF UniqueIndexes
<1> QED BY <1>1, <1>2, <1>3, StoreWriters

\* SameReplaceable is symmetric, so a version found not to be newer may be replaced.
LEMMA ReplaceableVersion ==
  ASSUME NEW e \in Events, NEW f \in Events, SameReplaceable(f, e), ~(f.at > e.at)
  PROVE  MayReplace(e, f)
BY EventFields DEF SameReplaceable, MayReplace

\* What App::publish may replace, from what its lookups return.
LEMMA LookupMayCommit ==
  ASSUME TypeOK, DocsHandedOut, UniqueIndexes, NEW e \in Events,
         NEW old \in doc_to_replace(e) \ {Obsolete},
         NEW oldAtt \in find_attachment(e.hash) \cup {NoDoc}
  PROVE  MayCommit(e, old, oldAtt)
<1>1. lastDoc \in Nat
  BY DEF TypeOK
<1>2. old <= lastDoc /\ \A r \in evRows : r.doc = old => MayReplace(e, r.ev)
  <2>1. CASE old = 0
    BY <1>1, <2>1 DEF DocsHandedOut
  <2>2. CASE old # 0
    <3>1. PICK r \in evRows : /\ SameReplaceable(r.ev, e)
                              /\ old = IF r.ev.at > e.at THEN Obsolete ELSE r.doc
      BY <2>2 DEF doc_to_replace, OrNoDoc, NoDoc
    <3>2. old = r.doc /\ ~(r.ev.at > e.at) /\ r.ev \in Events
      BY <3>1 DEF TypeOK
    <3>3. MayReplace(e, r.ev)
      BY <3>1, <3>2, ReplaceableVersion
    <3>4. \A s \in evRows : s.doc = old => s = r
      BY <3>2 DEF UniqueIndexes
    <3>5. r.doc <= lastDoc
      BY <1>1 DEF DocsHandedOut
    <3> QED BY <3>2, <3>3, <3>4, <3>5
  <2> QED BY <2>1, <2>2
<1>3. oldAtt <= lastDoc /\ \A a \in attRows : a.doc = oldAtt => a.hash = e.hash
  <2>1. CASE oldAtt = 0
    BY <1>1, <2>1 DEF DocsHandedOut
  <2>2. CASE oldAtt # 0
    <3>1. PICK a \in attRows : a.hash = e.hash /\ oldAtt = a.doc
      BY <2>2 DEF find_attachment, OrNoDoc, NoDoc
    <3>2. \A b \in attRows : b.doc = oldAtt => b = a
      BY <3>1 DEF UniqueIndexes
    <3>3. a.doc <= lastDoc
      BY <1>1 DEF DocsHandedOut
    <3> QED BY <3>1, <3>2, <3>3
  <2> QED BY <2>1, <2>2
<1> QED BY <1>2, <1>3 DEF MayCommit

\* What Peer::event_deletion may replace, from what its lookup returns.
LEMMA TargetMayCommit ==
  ASSUME TypeOK, DocsHandedOut, UniqueIndexes, NEW d \in Events, d.kind = "deletion",
         NEW r \in Targets(d), r.ev.author = d.author
  PROVE  MayCommit(d, r.doc, NoDoc)
<1>1. r \in evRows /\ MayReplace(d, r.ev)
  BY DEF Targets, MayReplace
<1>2. \A s \in evRows : s.doc = r.doc => s = r
  BY <1>1 DEF UniqueIndexes
<1>3. lastDoc \in Nat /\ r.doc <= lastDoc
  BY <1>1 DEF TypeOK, DocsHandedOut
<1>4. \A a \in attRows : a.doc # NoDoc
  BY DEF DocsHandedOut, NoDoc
<1> QED BY <1>1, <1>2, <1>3, <1>4 DEF MayCommit, NoDoc

\* What a handler may commit stays so: no step puts another event or another
\* content under an id already handed out.
LEMMA MayCommitStable ==
  ASSUME TypeOK, DocsHandedOut, [Next]_vars, NEW e, NEW old \in Nat, NEW oldAtt \in Nat,
         MayCommit(e, old, oldAtt)
  PROVE  MayCommit(e, old, oldAtt)'
<1>1. CASE UNCHANGED store
  BY <1>1 DEF store, MayCommit
<1>2. CASE GCErase
  BY <1>2, EraseRows DEF MayCommit
<1>3. ASSUME NEW t \in Threads, Commit(t)
      PROVE  MayCommit(e, old, oldAtt)'
  <2>1. lastDoc \in Nat /\ lastDoc' \in Nat /\ lastDoc' > lastDoc
    BY <1>3, CommitRows
  <2>2. \A r \in evRows' : r.doc = old => r \in evRows
    BY <1>3, <2>1, CommitRows DEF MayCommit
  <2>3. \A a \in attRows' : a.doc = oldAtt => a \in attRows
    BY <1>3, <2>1, CommitRows DEF MayCommit
  <2> QED BY <2>1, <2>2, <2>3 DEF MayCommit
<1> QED BY <1>1, <1>2, <1>3, StoreWriters

\* Every handler keeps the right to commit what it is about to commit.
LEMMA JobsStep ==
  ASSUME TypeOK, StoreInv, [Next]_vars
  PROVE  JobsAgree'
<1>0. DocsHandedOut /\ UniqueIndexes /\ JobsAgree
  BY DEF StoreInv
<1> USE DEF StoreInv
<1>1. ASSUME NEW t \in Threads, NEW e \in Events, PostAccepted(t, e)
      PROVE  job'[t].ev = e /\ (pc'[t] = "findTarget" => e.kind = "deletion") /\ pc'[t] # "commit"
  BY <1>1 DEF PostAccepted, Begin, Goto, Job, TypeOK
<1>2. ASSUME NEW t \in Threads, pc'[t] = "findTarget"
      PROVE  job'[t].ev.kind = "deletion"
  <2>1. CASE pc'[t] = pc[t] /\ job'[t] = job[t]
    BY <1>2, <2>1 DEF JobsAgree
  <2>2. CASE DeletionTarget(t) \/ PublishLookup(t)
    BY <1>2, <2>2 DEF DeletionTarget, PublishLookup, Goto, TypeOK
  <2> QED BY <1>1, <1>2, <2>1, <2>2, JobWriters
<1>3. ASSUME NEW t \in Threads, pc'[t] = "commit"
      PROVE  MayCommit(job[t].ev, job'[t].old, job'[t].oldAtt) /\ job'[t].ev = job[t].ev
  <2>1. CASE pc'[t] = pc[t] /\ job'[t] = job[t]
    BY <1>3, <2>1 DEF JobsAgree
  <2>2. CASE DeletionTarget(t)
    <3>1. PICK r \in Targets(job[t].ev) :
            /\ r.ev.author = job[t].ev.author
            /\ job' = [job EXCEPT ![t] = Job(job[t].ev, r.doc, NoDoc, FALSE, FALSE)]
      BY <2>2 DEF DeletionTarget
    <3>2. job'[t].ev = job[t].ev /\ job'[t].old = r.doc /\ job'[t].oldAtt = NoDoc
      BY <3>1 DEF TypeOK, Job
    <3>3. job[t].ev \in Events /\ job[t].ev.kind = "deletion"
      BY <2>2 DEF JobsAgree, DeletionTarget, TypeOK
    <3> QED BY <3>1, <3>2, <3>3, TargetMayCommit
  <2>3. CASE PublishLookup(t)
    <3>1. PICK old \in doc_to_replace(job[t].ev) \ {Obsolete},
               oldAtt \in IF job[t].data THEN find_attachment(job[t].ev.hash) ELSE {NoDoc} :
            job' = [job EXCEPT ![t] = Job(job[t].ev, old, oldAtt, job[t].upload, job[t].data)]
      BY <2>3 DEF PublishLookup
    <3>2. job'[t].ev = job[t].ev /\ job'[t].old = old /\ job'[t].oldAtt = oldAtt
      BY <3>1 DEF TypeOK, Job
    <3>3. job[t].ev \in Events
      BY <2>3 DEF TypeOK, PublishLookup
    <3>4. oldAtt \in find_attachment(job[t].ev.hash) \cup {NoDoc}
      OBVIOUS
    <3>5. MayCommit(job[t].ev, old, oldAtt)
      BY <3>3, <3>4, LookupMayCommit
    <3> QED BY <3>2, <3>5
  <2> QED BY <1>1, <1>3, <2>1, <2>2, <2>3, JobWriters
<1>4. ASSUME NEW t \in Threads, pc'[t] = "commit"
      PROVE  LET j == job'[t] IN
               /\ j.old <= lastDoc' /\ j.oldAtt <= lastDoc'
               /\ \A r \in evRows' : r.doc = j.old => MayReplace(j.ev, r.ev)
               /\ \A a \in attRows' : a.doc = j.oldAtt => a.hash = j.ev.hash
  <2>1. PICK e, old, oldAtt : /\ e = job'[t].ev /\ old = job'[t].old /\ oldAtt = job'[t].oldAtt
                             /\ old \in Nat /\ oldAtt \in Nat
    <3>1. job'[t] \in JobType
      BY TypeStep DEF TypeOK
    <3>2. job'[t].old \in Nat /\ job'[t].oldAtt \in Nat
      BY <3>1 DEF JobType
    <3> QED BY <3>2
  <2>2. MayCommit(e, old, oldAtt)
    BY <1>3, <1>4, <2>1
  <2>3. MayCommit(e, old, oldAtt)'
    BY <1>0, <2>1, <2>2, MayCommitStable
  <2> QED BY <2>1, <2>3 DEF MayCommit
<1> QED BY <1>2, <1>4 DEF JobsAgree, MayCommit

\* The invariant behind the theorems of this module.
THEOREM StoreInvariant == Spec => []StoreInv
<1>1. Init => StoreInv
  BY DEF Init, StoreInv, DocsHandedOut, UniqueIndexes, JobsAgree
<1>2. TypeOK /\ StoreInv /\ [Next]_vars => StoreInv'
  BY DocsStep, UniqueStep, JobsStep DEF StoreInv
<1> QED BY <1>1, <1>2, TypeCorrect, PTL DEF Spec

\* The unique indexes stay unique although publishers and deleters act on stale
\* lookups: no two stored events share an id, a replaceable key or a NIP-05 name,
\* no file content is stored twice.
THEOREM IndexesUnique == Spec => []UniqueIndexes
<1>1. StoreInv => UniqueIndexes
  BY DEF StoreInv
<1> QED BY <1>1, StoreInvariant, PTL

\* What one step removes, and what it adds for it.
LEMMA SuccessorStep ==
  ASSUME TypeOK, StoreInv, [Next]_vars, NEW r \in evRows \ evRows'
  PROVE  \E s \in evRows' \ evRows : MayReplace(s.ev, r.ev)
<1>1. PICK t \in Threads : Commit(t)
  BY StoreWriters, EraseRows DEF store
<1> DEFINE new == EventRow(t, lastDoc + 1)
<1>2. new \in evRows' /\ new.doc = lastDoc + 1 /\ new.ev = job[t].ev
  BY <1>1, CommitRows DEF Commit
<1>3. new \notin evRows
  BY <1>2 DEF StoreInv, DocsHandedOut, TypeOK
<1>4. r.doc = job[t].old
  BY <1>1 DEF Commit
<1>5. MayReplace(job[t].ev, r.ev)
  BY <1>1, <1>4 DEF StoreInv, JobsAgree, MayCommit, Commit
<1> QED BY <1>2, <1>3, <1>5

\* A stored event leaves the store only for a version that is not older, or for a
\* deletion by its own author.
THEOREM OnlySuccessorsReplace == Spec => SuccessorOnly
<1>1. TypeOK /\ StoreInv /\ [Next]_vars =>
        [\A r \in evRows \ evRows' :
           \E s \in evRows' \ evRows : MayReplace(s.ev, r.ev)]_vars
  BY SuccessorStep
<1> QED BY <1>1, TypeCorrect, StoreInvariant, PTL DEF Spec, SuccessorOnly

\* The archive's events are the store's events.
LEMMA ArchiveOperators ==
  /\ \A e, f : Archive!MayReplace(e, f) <=> MayReplace(e, f)
  /\ \A e : Archive!UniqueKeys(e) = UniqueKeys(e)
BY DEF Archive!MayReplace, MayReplace, Archive!SameReplaceable, SameReplaceable,
       Archive!UniqueKeys, UniqueKeys, Archive!IndexByAuthorKind, IndexByAuthorKind,
       Archive!IndexNip05, IndexNip05

\* A commit replaces only events it may replace, and takes no key of another.
LEMMA CommitReplaces ==
  ASSUME TypeOK, StoreInv, NEW t \in Threads, Commit(t), NEW e, e = job[t].ev
  PROVE  \E out \in SUBSET {r.ev : r \in evRows} :
           /\ \A x \in out : MayReplace(e, x)
           /\ \A x \in {r.ev : r \in evRows} \ out : UniqueKeys(x) \cap UniqueKeys(e) = {}
           /\ {r.ev : r \in evRows'} = ({r.ev : r \in evRows} \ out) \cup {e}
<1> DEFINE stored == {r.ev : r \in evRows}
           gone   == {r.ev : r \in {x \in evRows : x.doc = job[t].old}}
           new    == EventRow(t, lastDoc + 1)
<1>1. gone \in SUBSET stored
  OBVIOUS
<1>2. \A x \in gone : MayReplace(e, x)
  BY DEF StoreInv, JobsAgree, MayCommit, Commit
<1>3. \A x \in stored \ gone : UniqueKeys(x) \cap UniqueKeys(e) = {}
  BY DEF Commit, Conflict
<1>4. \A r, s \in evRows : r.ev = s.ev => r = s
  BY DEF StoreInv, UniqueIndexes, UniqueKeys
<1>5. \A x : x \in {r.ev : r \in evRows'} <=> x \in (stored \ gone) \cup {e}
  <2>1. new.ev = e /\ evRows' = {r \in evRows : r.doc # job[t].old} \cup {new}
    BY CommitRows DEF Commit
  <2> HIDE DEF new
  <2> QED BY <1>4, <2>1
<1>6. {r.ev : r \in evRows'} = (stored \ gone) \cup {e}
  BY <1>5
<1> HIDE DEF gone
<1> QED BY <1>1, <1>2, <1>3, <1>6

\* A commit is the archive accepting the event in place of what it replaces.
LEMMA CommitAccepts ==
  ASSUME TypeOK, StoreInv, NEW t \in Threads, Commit(t)
  PROVE  \E e \in Events : Archive!Accept(e)
<1>1. PICK e \in Events : e = job[t].ev
  BY DEF Commit, TypeOK
<1>2. {a.hash : a \in attRows'} \in
        {{a.hash : a \in attRows}, {a.hash : a \in attRows} \cup {e.hash}}
  <2>1. CASE ~job[t].data
    BY <2>1 DEF Commit
  <2>2. CASE job[t].data
    <3>1. \A a \in attRows : a.doc = job[t].oldAtt => a.hash = e.hash
      BY <1>1 DEF StoreInv, JobsAgree, MayCommit, Commit
    <3> DEFINE row == [doc |-> lastDoc + 2, hash |-> e.hash]
    <3>2. row.hash = e.hash /\ attRows' = {a \in attRows : a.doc # job[t].oldAtt} \cup {row}
      BY <1>1, <2>2 DEF Commit
    <3> HIDE DEF row
    <3>3. \A h : h \in {a.hash : a \in attRows'} <=>
                 h \in {a.hash : a \in attRows} \cup {e.hash}
      BY <3>1, <3>2
    <3> QED BY <3>3
  <2> QED BY <2>1, <2>2
<1>3. Archive!Accept(e)
  BY <1>1, <1>2, CommitReplaces, ArchiveOperators DEF Archive!Accept
<1> QED BY <1>3

\* The collector erasing a document is the archive dropping its content.
LEMMA EraseCollects ==
  ASSUME TypeOK, StoreInv, GCErase
  PROVE  \/ \E h \in {a.hash : a \in attRows} : Archive!Collect(h)
         \/ UNCHANGED Archive!avars
<1>1. evRows' = evRows
  BY DEF GCErase
<1>2. CASE \E a \in attRows : a.doc = gcDoc
  <2>1. PICK a \in attRows : a.doc = gcDoc
    BY <1>2
  <2>2. attRows' = {b \in attRows : b.doc # gcDoc}
    BY DEF GCErase
  <2>3. \A b \in attRows : b.doc = gcDoc <=> b.hash = a.hash
    BY <2>1 DEF StoreInv, UniqueIndexes
  <2>4. \A h : h \in {b.hash : b \in attRows'} <=>
               h \in {b.hash : b \in attRows} \ {a.hash}
    BY <2>2, <2>3
  <2>5. {b.hash : b \in attRows'} = {b.hash : b \in attRows} \ {a.hash}
    BY <2>4
  <2> QED BY <1>1, <2>1, <2>5 DEF Archive!Collect
<1>3. CASE ~\E a \in attRows : a.doc = gcDoc
  BY <1>1, <1>3 DEF GCErase, Archive!avars
<1> QED BY <1>2, <1>3

\* The store implements the archive: every interleaving of publishers, deleters,
\* uploads, the collector and restarts is a behaviour of RelayArchive.
THEOREM StoreImplementsArchive == Spec => ImplementsArchive
<1>1. Init => Archive!Init
  BY DEF Init, Archive!Init
<1>2. TypeOK /\ StoreInv /\ [Next]_vars => [Archive!Next]_(Archive!avars)
  <2> SUFFICES ASSUME TypeOK, StoreInv, [Next]_vars
               PROVE  Archive!Next \/ UNCHANGED Archive!avars
    OBVIOUS
  <2>1. CASE UNCHANGED store
    BY <2>1 DEF store, Archive!avars
  <2>2. CASE GCErase
    BY <2>2, EraseCollects DEF Archive!Next
  <2>3. ASSUME NEW t \in Threads, Commit(t)
        PROVE  Archive!Next
    BY <2>3, CommitAccepts DEF Archive!Next
  <2> QED BY <2>1, <2>2, <2>3, StoreWriters
<1> QED BY <1>1, <1>2, TypeCorrect, StoreInvariant, PTL
        DEF Spec, ImplementsArchive, Archive!Spec

-----------------------------------------------------------------------------
(* What clients and subscribers are told.                                  *)

\* A handler at its broadcast broadcasts, is cut off by a crash, or stays there.
LEMMA InFlight ==
  ASSUME TypeOK, [Next]_vars, NEW t \in Threads, pc[t] = "broadcast"
  PROVE  \/ Broadcast(t)
         \/ Crash
         \/ pc'[t] = pc[t] /\ job'[t] = job[t]
<1> USE DEF Threads
<1>1. /\ pc \in [Threads -> {"idle", "findTarget", "findAttachment", "lookup",
                             "commit", "broadcast", "startGC"}]
      /\ job \in [Threads -> JobType]
  BY DEF TypeOK
<1>2. ASSUME NEW p \in Peers, Request(p)
      PROVE  pc'[t] = pc[t] /\ job'[t] = job[t]
  BY <1>1, <1>2 DEF Request, PostDuplicate, PostRefused, PostAccepted, FileRefused,
     FileAnnounced, BinaryMismatch, BinaryDuplicate, BinaryMatched, BinaryUnsupported,
     Disconnect, Begin, Goto
<1>3. ASSUME NEW f \in Feeders, NEW e \in Events, FeederPublish(f, e)
      PROVE  pc'[t] = pc[t] /\ job'[t] = job[t]
  BY <1>1, <1>3 DEF FeederPublish, Begin, Goto
<1>4. ASSUME NEW u \in Threads, Continue(u)
      PROVE  Broadcast(t) \/ (pc'[t] = pc[t] /\ job'[t] = job[t])
  <2>1. CASE u \in Peers /\ (DeletionVoid(u) \/ DeletionForeign(u) \/ DeletionTarget(u))
    BY <1>1, <2>1 DEF DeletionVoid, DeletionForeign, DeletionTarget, Finish, Goto
  <2>2. CASE PublishObsolete(u) \/ CommitRefused(u) \/ start_gc_thread(u)
    BY <1>1, <2>2 DEF PublishObsolete, CommitRefused, start_gc_thread, Finish, Goto
  <2>3. CASE PublishLookup(u) \/ Commit(u) \/ (u \in Peers /\ FindAttachment(u))
    BY <1>1, <2>3 DEF PublishLookup, Commit, FindAttachment, Goto
  <2>4. CASE Broadcast(u)
    <3>1. CASE u = t
      BY <2>4, <3>1 DEF Broadcast, Answer, DropUpload, Finish, Goto
    <3>2. CASE u # t
      BY <1>1, <2>4, <3>2 DEF Broadcast, Finish, Goto
    <3> QED BY <3>1, <3>2
  <2> QED BY <1>4, <2>1, <2>2, <2>3, <2>4 DEF Continue
<1>5. CASE Collector
  BY <1>5 DEF Collector, GCScan, GCFind, GCErase, GCDone
<1>6. CASE UNCHANGED vars
  BY <1>6 DEF vars
<1> QED BY <1>2, <1>3, <1>4, <1>5, <1>6 DEF Next

\* A handler gets to its broadcast by a commit or with an ephemeral event.
LEMMA BroadcastWriters ==
  ASSUME TypeOK, [Next]_vars, NEW t \in Threads, pc'[t] = "broadcast"
  PROVE  \/ Commit(t)
         \/ \E e \in Events : PostAccepted(t, e)
         \/ pc'[t] = pc[t] /\ job'[t] = job[t]
<1> USE DEF Threads
<1>1. /\ pc \in [Threads -> {"idle", "findTarget", "findAttachment", "lookup",
                             "commit", "broadcast", "startGC"}]
      /\ job \in [Threads -> JobType]
  BY DEF TypeOK
<1>2. ASSUME NEW p \in Peers, Request(p)
      PROVE  (\E e \in Events : PostAccepted(t, e)) \/ (pc'[t] = pc[t] /\ job'[t] = job[t])
  <2>1. CASE \E e \in Events : PostAccepted(p, e)
    <3>1. CASE p = t
      BY <2>1, <3>1 DEF PostAccepted, Requested, Begin, Goto
    <3>2. CASE p # t
      BY <1>1, <2>1, <3>2 DEF PostAccepted, Begin, Goto
    <3> QED BY <3>1, <3>2
  <2>2. CASE \E h \in Payloads : BinaryMatched(p, h)
    BY <1>1, <2>2 DEF BinaryMatched, Begin, Goto
  <2> QED BY <1>1, <1>2, <2>1, <2>2
          DEF Request, PostDuplicate, PostRefused, FileRefused, FileAnnounced,
              BinaryMismatch, BinaryDuplicate, BinaryUnsupported, Disconnect
<1>3. ASSUME NEW f \in Feeders, NEW e \in Events, FeederPublish(f, e)
      PROVE  pc'[t] = pc[t] /\ job'[t] = job[t]
  BY <1>1, <1>3 DEF FeederPublish, Begin, Goto
<1>4. ASSUME NEW u \in Threads, Continue(u)
      PROVE  Commit(t) \/ (pc'[t] = pc[t] /\ job'[t] = job[t])
  <2>1. CASE u \in Peers /\ (DeletionVoid(u) \/ DeletionForeign(u) \/ DeletionTarget(u))
    BY <1>1, <2>1 DEF DeletionVoid, DeletionForeign, DeletionTarget, Finish, Goto
  <2>2. CASE PublishObsolete(u) \/ CommitRefused(u) \/ start_gc_thread(u)
    BY <1>1, <2>2 DEF PublishObsolete, CommitRefused, start_gc_thread, Finish, Goto
  <2>3. CASE PublishLookup(u) \/ Commit(u) \/ (u \in Peers /\ FindAttachment(u))
    BY <1>1, <2>3 DEF PublishLookup, Commit, FindAttachment, Goto
  <2>4. CASE Broadcast(u)
    BY <1>1, <2>4 DEF Broadcast, Finish, Goto
  <2> QED BY <1>4, <2>1, <2>2, <2>3, <2>4 DEF Continue
<1>5. CASE Collector
  BY <1>5 DEF Collector, GCScan, GCFind, GCErase, GCDone
<1>6. ASSUME Crash PROVE FALSE
  BY <1>6 DEF Crash
<1>7. CASE UNCHANGED vars
  BY <1>7 DEF vars
<1> QED BY <1>2, <1>3, <1>4, <1>5, <1>6, <1>7 DEF Next

\* History grows: commits are remembered, and so are broadcasts.
LEMMA HistoryGrows ==
  ASSUME TypeOK, [Next]_vars
  PROVE  /\ committed' = committed \/ \E t \in Threads : Commit(t)
         /\ committed \subseteq committed'
         /\ feed' = feed \/ \E t \in Threads : Broadcast(t)
         /\ lost \subseteq lost'
<1>1. committed' = committed \/ \E t \in Threads : Commit(t)
  BY StoreWriters DEF GCErase, store
<1>2. committed \subseteq committed'
  BY <1>1 DEF Commit
<1>3. (feed' = feed \/ \E t \in Threads : Broadcast(t)) /\ lost \subseteq lost'
  BY DEF Next, Request, Continue, Collector, vars, PostDuplicate, PostRefused, PostAccepted,
       FileRefused, FileAnnounced, BinaryMismatch, BinaryDuplicate, BinaryMatched,
       BinaryUnsupported, Disconnect, FeederPublish, DeletionVoid, DeletionForeign,
       DeletionTarget, FindAttachment, PublishObsolete, PublishLookup, CommitRefused,
       Broadcast, start_gc_thread, GCScan, GCFind, GCDone, Crash, Commit, GCErase
<1> QED BY <1>1, <1>2, <1>3

\* A broadcast adds its event at the end of the feed and keeps the rest.
LEMMA FeedAppend ==
  ASSUME TypeOK, NEW t \in Threads, Broadcast(t)
  PROVE  /\ \A i \in DOMAIN feed : i \in DOMAIN feed' /\ feed'[i] = feed[i]
         /\ \A i \in DOMAIN feed' : i \in DOMAIN feed \/ feed'[i] = job[t].ev
         /\ \E i \in DOMAIN feed' : feed'[i] = job[t].ev
<1>1. feed \in Seq(Events) /\ job[t].ev \in Events /\ feed' = Append(feed, job[t].ev)
  BY DEF TypeOK, Broadcast
<1>2. /\ Len(feed) \in Nat /\ Len(feed') = Len(feed) + 1
      /\ DOMAIN feed = 1..Len(feed) /\ DOMAIN feed' = 1..(Len(feed) + 1)
      /\ \A i \in 1..Len(feed) : feed'[i] = feed[i]
      /\ feed'[Len(feed) + 1] = job[t].ev
  BY <1>1
<1> QED BY <1>2

\* What is stored, and what is about to be broadcast, has been committed.
LEMMA CommittedStep ==
  ASSUME TypeOK, CommittedFirst, [Next]_vars
  PROVE  CommittedFirst'
<1>1. ASSUME NEW r \in evRows' PROVE r.ev \in committed'
  <2>1. CASE r \in evRows
    BY <2>1, HistoryGrows DEF CommittedFirst
  <2>2. CASE r \notin evRows
    <3>1. PICK t \in Threads : Commit(t)
      BY <1>1, <2>2, StoreWriters, EraseRows DEF store
    <3>2. r.ev = job[t].ev
      BY <1>1, <2>2, <3>1, CommitRows
    <3> QED BY <3>1, <3>2 DEF Commit
  <2> QED BY <2>1, <2>2
<1>2. ASSUME NEW t \in Threads, pc'[t] = "broadcast"
      PROVE  job'[t].ev.kind = "ephemeral" \/ job'[t].ev \in committed'
  <2>1. CASE Commit(t)
    BY <2>1 DEF Commit
  <2>2. ASSUME NEW e \in Events, PostAccepted(t, e)
        PROVE  job'[t].ev.kind = "ephemeral"
    BY <1>2, <2>2 DEF PostAccepted, Begin, Goto, Job, TypeOK
  <2>3. CASE pc'[t] = pc[t] /\ job'[t] = job[t]
    BY <1>2, <2>3, HistoryGrows DEF CommittedFirst
  <2> QED BY <1>2, <2>1, <2>2, <2>3, BroadcastWriters
<1> QED BY <1>1, <1>2 DEF CommittedFirst

THEOREM CommittedInvariant == Spec => []CommittedFirst
<1>1. Init => CommittedFirst
  BY DEF Init, CommittedFirst
<1> QED BY <1>1, CommittedStep, TypeCorrect, PTL DEF Spec

\* No event is broadcast that was not committed, and none committed stays unknown.
LEMMA FeedStep ==
  ASSUME TypeOK, CommittedFirst, FeedFaithful, [Next]_vars
  PROVE  FeedFaithful'
<1>1. ASSUME NEW i \in DOMAIN feed'
      PROVE  feed'[i].kind = "ephemeral" \/ feed'[i] \in committed'
  <2>1. CASE feed' = feed
    BY <1>1, <2>1, HistoryGrows DEF FeedFaithful
  <2>2. ASSUME NEW t \in Threads, Broadcast(t)
        PROVE  feed'[i].kind = "ephemeral" \/ feed'[i] \in committed'
    <3>1. job[t].ev.kind = "ephemeral" \/ job[t].ev \in committed
      BY <2>2 DEF CommittedFirst, Broadcast
    <3>2. (i \in DOMAIN feed /\ feed'[i] = feed[i]) \/ feed'[i] = job[t].ev
      BY <1>1, <2>2, FeedAppend
    <3> QED BY <3>1, <3>2, HistoryGrows DEF FeedFaithful
  <2> QED BY <2>1, <2>2, HistoryGrows
<1>2. \A i \in DOMAIN feed : i \in DOMAIN feed' /\ feed'[i] = feed[i]
  BY HistoryGrows, FeedAppend
<1>3. ASSUME NEW e \in committed'
      PROVE  \/ \E i \in DOMAIN feed' : feed'[i] = e
             \/ \E t \in Threads : pc'[t] = "broadcast" /\ job'[t].ev = e
             \/ e \in lost'
  <2>1. CASE e \notin committed
    <3>1. PICK t \in Threads : Commit(t)
      BY <1>3, <2>1, HistoryGrows
    <3>2. e = job[t].ev /\ pc'[t] = "broadcast" /\ job'[t] = job[t]
      BY <1>3, <2>1, <3>1 DEF Commit, Goto, TypeOK
    <3> QED BY <3>2
  <2>2. CASE \E i \in DOMAIN feed : feed[i] = e
    BY <1>2, <2>2
  <2>3. CASE e \in lost
    BY <2>3, HistoryGrows
  <2>4. ASSUME NEW t \in Threads, pc[t] = "broadcast", job[t].ev = e
        PROVE  \/ \E i \in DOMAIN feed' : feed'[i] = e
               \/ \E u \in Threads : pc'[u] = "broadcast" /\ job'[u].ev = e
               \/ e \in lost'
    <3>1. CASE Broadcast(t)
      BY <2>4, <3>1, FeedAppend
    <3>2. CASE Crash
      BY <2>4, <3>2 DEF Crash
    <3>3. CASE pc'[t] = pc[t] /\ job'[t] = job[t]
      BY <2>4, <3>3
    <3> QED BY <2>4, <3>1, <3>2, <3>3, InFlight
  <2> QED BY <2>1, <2>2, <2>3, <2>4 DEF FeedFaithful
<1> QED BY <1>1, <1>3 DEF FeedFaithful

\* Subscribers are told of exactly what is stored, whatever crashes cut off apart.
THEOREM FeedIsFaithful == Spec => []FeedFaithful
<1>1. Init => FeedFaithful
  BY DEF Init, FeedFaithful
<1> QED BY <1>1, FeedStep, TypeCorrect, CommittedInvariant, PTL DEF Spec

-----------------------------------------------------------------------------
(* The store and its broadcasts implement RelayFeed.                       *)

\* The feed reads the events as the store does.
LEMMA FeedOperators ==
  /\ \A e, f : Feed!MayReplace(e, f) <=> MayReplace(e, f)
  /\ \A e : Feed!UniqueKeys(e) = UniqueKeys(e)
BY DEF Feed!MayReplace, MayReplace, Feed!SameReplaceable, SameReplaceable,
       Feed!UniqueKeys, UniqueKeys, Feed!IndexByAuthorKind, IndexByAuthorKind,
       Feed!IndexNip05, IndexNip05

\* The event a handler has committed and not broadcast.
Pending == [t \in Threads |-> IF pc[t] = "broadcast" THEN job[t].ev ELSE NoEvent]

LEMMA CommitFeeds ==
  ASSUME TypeOK, StoreInv, NEW t \in Threads, Commit(t)
  PROVE  \E e \in Events : Feed!Commit(t, e)
<1>1. PICK e \in Events : e = job[t].ev
  BY DEF Commit, TypeOK
<1>2. pc[t] = "commit" /\ pc' = [pc EXCEPT ![t] = "broadcast"] /\ job' = job /\ feed' = feed
  BY DEF Commit, Goto
<1>3. Pending[t] = NoEvent /\ Pending' = [Pending EXCEPT ![t] = e]
  BY <1>1, <1>2 DEF TypeOK, Pending
<1>4. \E out \in SUBSET {r.ev : r \in evRows} :
        /\ \A x \in out : Feed!MayReplace(e, x)
        /\ \A x \in {r.ev : r \in evRows} \ out : Feed!UniqueKeys(x) \cap Feed!UniqueKeys(e) = {}
        /\ {r.ev : r \in evRows'} = ({r.ev : r \in evRows} \ out) \cup {e}
  BY <1>1, CommitReplaces, FeedOperators
<1> QED BY <1>2, <1>3, <1>4 DEF Feed!Commit, Pending

LEMMA AcceptedFeeds ==
  ASSUME TypeOK, NEW t \in Threads, NEW e \in Events, PostAccepted(t, e)
  PROVE  Feed!Announce(t, e) \/ UNCHANGED Feed!fvars
<1>1. /\ pc[t] = "idle" /\ evRows' = evRows /\ feed' = feed
      /\ pc' = [pc EXCEPT ![t] = CASE e.kind = "ephemeral" -> "broadcast"
                                   [] e.kind = "deletion"  -> "findTarget"
                                   [] OTHER                -> "lookup"]
      /\ job' = [job EXCEPT ![t] = Job(e, NoDoc, NoDoc, FALSE, FALSE)]
  BY DEF PostAccepted, Begin, Goto, store
<1>2. Job(e, NoDoc, NoDoc, FALSE, FALSE).ev = e
  BY DEF Job
<1>3. CASE e.kind = "ephemeral"
  <2>1. pc' = [pc EXCEPT ![t] = "broadcast"]
    BY <1>1, <1>3
  <2>2. Pending[t] = NoEvent /\ Pending' = [Pending EXCEPT ![t] = e]
    BY <1>1, <1>2, <2>1 DEF TypeOK, Pending
  <2> QED BY <1>1, <1>3, <2>2 DEF Feed!Announce, Pending
<1>4. CASE e.kind # "ephemeral"
  <2>1. pc'[t] # "broadcast" /\ \A u \in Threads : u # t => pc'[u] = pc[u] /\ job'[u] = job[u]
    BY <1>1, <1>4 DEF TypeOK
  <2>2. Pending' = Pending
    <3>1. ASSUME NEW u \in Threads
          PROVE  (IF pc'[u] = "broadcast" THEN job'[u].ev ELSE NoEvent) =
                 (IF pc[u] = "broadcast" THEN job[u].ev ELSE NoEvent)
      <4>1. CASE u = t
        <5>1. pc[u] # "broadcast" /\ pc'[u] # "broadcast"
          BY <1>1, <2>1, <4>1
        <5> QED BY <5>1
      <4>2. CASE u # t
        <5>1. pc'[u] = pc[u] /\ job'[u] = job[u]
          BY <2>1, <4>2
        <5> QED BY <5>1
      <4> QED BY <4>1, <4>2
    <3> QED BY <3>1 DEF Pending
  <2> QED BY <1>1, <2>2 DEF Feed!fvars, Pending
<1> QED BY <1>3, <1>4

LEMMA BroadcastFeeds ==
  ASSUME TypeOK, NEW t \in Threads, Broadcast(t)
  PROVE  Feed!Broadcast(t)
<1>1. /\ pc[t] = "broadcast" /\ evRows' = evRows /\ feed' = Append(feed, job[t].ev)
      /\ job[t].ev \in Events /\ job[t].ev # NoEvent
  BY ConstantsAssumption DEF Broadcast, store, TypeOK
<1>2. pc'[t] # "broadcast" /\ \A u \in Threads : u # t => pc'[u] = pc[u] /\ job'[u] = job[u]
  BY DEF Broadcast, Finish, Goto, TypeOK
<1>3. Pending[t] = job[t].ev /\ Pending' = [Pending EXCEPT ![t] = NoEvent]
  BY <1>1, <1>2 DEF Pending
<1> QED BY <1>1, <1>3 DEF Feed!Broadcast, Pending

\* Connections and queries see RelayFeed, whatever handlers, collector and crashes do.
THEOREM StoreImplementsFeed == Spec => ImplementsFeed
<1>1. Init => Feed!Init
  BY DEF Init, Feed!Init
<1>2. TypeOK /\ StoreInv /\ [Next]_vars => [Feed!Next]_(Feed!fvars)
  <2> SUFFICES ASSUME TypeOK, StoreInv, [Next]_vars
               PROVE  Feed!Next \/ UNCHANGED Feed!fvars
    OBVIOUS
  <2>1. ASSUME NEW t \in Threads, Commit(t) PROVE Feed!Next
    BY <2>1, CommitFeeds DEF Feed!Next
  <2>2. ASSUME NEW t \in Threads, NEW e \in Events, PostAccepted(t, e)
        PROVE  Feed!Next \/ UNCHANGED Feed!fvars
    BY <2>2, AcceptedFeeds DEF Feed!Next
  <2>3. ASSUME NEW t \in Threads, Broadcast(t) PROVE Feed!Next
    BY <2>3, BroadcastFeeds DEF Feed!Next
  <2>4. CASE Crash
    <3>1. Pending' = [t \in Threads |-> NoEvent]
      BY <2>4 DEF Crash, Pending
    <3> QED BY <2>4, <3>1 DEF Crash, store, Pending, Feed!Restart, Feed!Next
  <2>5. CASE /\ ~Crash
             /\ \A t \in Threads : ~Commit(t) /\ ~Broadcast(t)
             /\ \A t \in Threads, e \in Events : ~PostAccepted(t, e)
    <3>1. evRows' = evRows /\ feed' = feed
      BY <2>5, StoreWriters, HistoryGrows DEF GCErase, store
    <3>2. ASSUME NEW t \in Threads
          PROVE  IF pc'[t] = "broadcast" THEN pc'[t] = pc[t] /\ job'[t] = job[t]
                                         ELSE pc[t] # "broadcast"
      BY <2>5, InFlight, BroadcastWriters
    <3>3. Pending' = Pending
      BY <3>2 DEF Pending
    <3> QED BY <3>1, <3>3 DEF Feed!fvars, Pending
  <2> QED BY <2>1, <2>2, <2>3, <2>4, <2>5
<1> QED BY <1>1, <1>2, TypeCorrect, StoreInvariant, PTL DEF Spec, ImplementsFeed, Feed!Spec

-----------------------------------------------------------------------------
(* Replies.                                                                *)

\* A client is told "stored" at three places only, of the event it sent.
LEMMA StoredReplies ==
  ASSUME TypeOK, [Next]_vars, NEW p \in Peers, reply'[p] # reply[p],
         reply'[p].st = "stored"
  PROVE  /\ DeletionVoid(p) \/ PublishObsolete(p) \/ Broadcast(p)
         /\ reply'[p].ev = job[p].ev
<1> USE DEF Threads
<1>1. reply \in [Peers -> [ev : Events \cup {NoEvent}, st : Statuses]]
  BY DEF TypeOK
<1>2. ASSUME NEW q \in Peers, Request(q) PROVE FALSE
  <2>1. ASSUME NEW e \in Events,
               PostDuplicate(q, e) \/ PostRefused(q, e) \/ FileRefused(q, e)
        PROVE  FALSE
    BY <1>1, <2>1 DEF PostDuplicate, PostRefused, FileRefused, Answer
  <2>2. ASSUME NEW e \in Events, FileAnnounced(q, e) PROVE FALSE
    BY <1>1, <2>2 DEF FileAnnounced, Answer
  <2>3. ASSUME NEW h \in Payloads, BinaryMismatch(q, h) \/ BinaryDuplicate(q, h)
        PROVE  FALSE
    BY <1>1, <2>3 DEF BinaryMismatch, BinaryDuplicate, Answer
  <2>4. CASE BinaryUnsupported(q)
    BY <1>1, <2>4 DEF BinaryUnsupported, Answer
  <2>5. CASE \/ \E e \in Events : PostAccepted(q, e)
             \/ \E h \in Payloads : BinaryMatched(q, h)
             \/ Disconnect(q)
    BY <2>5 DEF PostAccepted, BinaryMatched, Disconnect
  <2> QED BY <1>2, <2>1, <2>2, <2>3, <2>4, <2>5 DEF Request
<1>3. ASSUME NEW f \in Feeders, NEW e \in Events, FeederPublish(f, e) PROVE FALSE
  BY <1>3 DEF FeederPublish
<1>4. ASSUME NEW u \in Threads, Continue(u)
      PROVE  /\ DeletionVoid(p) \/ PublishObsolete(p) \/ Broadcast(p)
             /\ reply'[p].ev = job[p].ev
  <2>1. CASE u \in Peers /\ DeletionVoid(u)
    BY <1>1, <2>1 DEF DeletionVoid, Answer
  <2>2. CASE PublishObsolete(u)
    BY <1>1, <2>2 DEF PublishObsolete, Answer
  <2>3. CASE Broadcast(u)
    BY <1>1, <2>3 DEF Broadcast, Answer
  <2>4. CASE u \in Peers /\ DeletionForeign(u)
    BY <1>1, <2>4 DEF DeletionForeign, Answer
  <2>5. CASE CommitRefused(u)
    BY <1>1, <2>5 DEF CommitRefused, Answer
  <2>6. CASE \/ u \in Peers /\ (DeletionTarget(u) \/ FindAttachment(u))
             \/ PublishLookup(u) \/ Commit(u) \/ start_gc_thread(u)
    BY <2>6 DEF DeletionTarget, FindAttachment, PublishLookup, Commit, start_gc_thread
  <2> QED BY <1>4, <2>1, <2>2, <2>3, <2>4, <2>5, <2>6 DEF Continue
<1>5. CASE Collector \/ Crash \/ UNCHANGED vars
  BY <1>5 DEF Collector, GCScan, GCFind, GCErase, GCDone, Crash, vars
<1> QED BY <1>2, <1>3, <1>4, <1>5 DEF Next

\* A reply that was true stays true: commits are not forgotten.
LEMMA RepliesStep ==
  ASSUME TypeOK, StoreInv, CommittedFirst, StoredReplyIsTrue, [Next]_vars
  PROVE  StoredReplyIsTrue'
<1> DEFINE True(e) == \/ e \in committed \/ e.kind \in {"ephemeral", "deletion"}
                      \/ NewerCommitted(e)
<1>1. \A e : True(e) =>
        \/ e \in committed' \/ e.kind \in {"ephemeral", "deletion"}
        \/ \E f \in committed' : SameReplaceable(f, e) /\ f.at > e.at
  BY HistoryGrows DEF NewerCommitted
<1>2. ASSUME NEW p \in Peers, reply'[p].st = "stored"
      PROVE  \E e : reply'[p].ev = e /\ True(e)
  <2>1. CASE reply'[p] = reply[p]
    BY <1>2, <2>1 DEF StoredReplyIsTrue
  <2>2. CASE reply'[p] # reply[p]
    <3>1. /\ DeletionVoid(p) \/ PublishObsolete(p) \/ Broadcast(p)
          /\ reply'[p].ev = job[p].ev
      BY <1>2, <2>2, StoredReplies
    <3>2. p \in Threads
      BY DEF Threads
    <3>3. CASE DeletionVoid(p)
      BY <3>1, <3>2, <3>3 DEF DeletionVoid, StoreInv, JobsAgree
    <3>4. CASE PublishObsolete(p)
      <4>1. job[p].ev \in Events /\ Obsolete \in doc_to_replace(job[p].ev)
        BY <3>2, <3>4 DEF PublishObsolete, TypeOK
      <4>2. PICK r \in evRows : SameReplaceable(r.ev, job[p].ev) /\ r.ev.at > job[p].ev.at
        BY <4>1 DEF doc_to_replace, OrNoDoc, NoDoc, Obsolete, TypeOK
      <4>3. NewerCommitted(job[p].ev)
        BY <4>2 DEF CommittedFirst, NewerCommitted
      <4> QED BY <3>1, <4>3
    <3>5. CASE Broadcast(p)
      BY <3>1, <3>2, <3>5 DEF Broadcast, CommittedFirst
    <3> QED BY <3>1, <3>3, <3>4, <3>5
  <2> QED BY <2>1, <2>2
<1> QED BY <1>1, <1>2 DEF StoredReplyIsTrue, NewerCommitted

\* An unqualified OK is true: the event was committed, is not for storing, or a
\* strictly newer version had been committed.
THEOREM StoredRepliesTrue == Spec => []StoredReplyIsTrue
<1>1. Init => StoredReplyIsTrue
  BY DEF Init, StoredReplyIsTrue
<1> QED BY <1>1, RepliesStep, TypeCorrect, StoreInvariant, CommittedInvariant, PTL DEF Spec

-----------------------------------------------------------------------------
(* Uploads, the attachment collector and readers: the collector's list     *)
(* names no content that was referenced when it was made, in the program   *)
(* as built (no in-process publisher) an uploaded event keeps its file,    *)
(* and readers of files are told the truth.                                *)

\* A commit stores its event under a document id not used before, no collector
\* step stores an event, and every other step leaves the events alone.
LEMMA NewRows ==
  ASSUME TypeOK, [Next]_vars, NEW r \in evRows', r \notin evRows
  PROVE  r.doc = lastDoc + 1 /\ gcKill' = gcKill /\ gcSeen' = gcSeen
<1>1. PICK t \in Threads : Commit(t)
  BY StoreWriters, EraseRows DEF store
<1> QED BY <1>1, CommitRows DEF Commit, gcVars

\* The list is made by a scan only, and otherwise shrinks.
LEMMA KillWriters ==
  ASSUME [Next]_vars
  PROVE  \/ GCScan
         \/ gcKill' \subseteq gcKill /\ gcSeen' = gcSeen
         \/ gcKill' = {} /\ gcSeen' \in {0, gcSeen}
BY ZenonT(60) DEF Next, Request, Continue, Collector, vars, gcVars, PostDuplicate, PostRefused,
       PostAccepted, FileRefused, FileAnnounced, BinaryMismatch, BinaryDuplicate,
       BinaryMatched, BinaryUnsupported, Disconnect, FeederPublish, DeletionVoid,
       DeletionForeign, DeletionTarget, FindAttachment, PublishObsolete, PublishLookup,
       Commit, CommitRefused, Broadcast, start_gc_thread, GCScan, GCFind, GCErase,
       GCDone, Crash

LEMMA CollectorStep ==
  ASSUME TypeOK, DocsHandedOut, ScanBehind, CollectorSparesReferenced, [Next]_vars
  PROVE  ScanBehind' /\ CollectorSparesReferenced'
<1>1. lastDoc \in Nat /\ gcSeen \in Nat /\ lastDoc' \in Nat /\ lastDoc' >= lastDoc
  BY DocsStep, TypeStep DEF TypeOK
<1>2. ScanBehind'
  <2>1. CASE GCScan
    BY <1>1, <2>1 DEF GCScan, store, ScanBehind
  <2> QED BY <1>1, <2>1, KillWriters DEF ScanBehind
<1>3. ASSUME NEW h \in gcKill', NEW r \in evRows', References(r.ev, h)
      PROVE  r.doc > gcSeen'
  <2>1. CASE r \notin evRows
    BY <1>1, <1>3, <2>1, NewRows DEF ScanBehind
  <2>2. CASE r \in evRows /\ GCScan
    BY <1>3, <2>2 DEF GCScan, Unreferenced
  <2>3. CASE r \in evRows /\ ~GCScan
    BY <1>3, <2>3, KillWriters DEF CollectorSparesReferenced
  <2> QED BY <2>1, <2>2, <2>3
<1> QED BY <1>2, <1>3 DEF CollectorSparesReferenced

\* The list of run_attachment_gc ages while events arrive; still it never names
\* content that was referenced when the list was made.
THEOREM CollectorIsSparing == Spec => []CollectorSparesReferenced
<1>1. Init => ScanBehind /\ CollectorSparesReferenced
  BY DEF Init, ScanBehind, CollectorSparesReferenced
<1>2. StoreInv => DocsHandedOut
  BY DEF StoreInv
<1> QED BY <1>1, <1>2, CollectorStep, TypeCorrect, StoreInvariant, PTL DEF Spec

-----------------------------------------------------------------------------
\* Without the collector, content that is stored stays stored: a commit replaces
\* an attachment by one of the same content only.
LEMMA HashesKept ==
  ASSUME TypeOK, StoreInv, ReuseHolds, [Next]_vars, NEW a \in attRows
  PROVE  \E b \in attRows' : b.hash = a.hash
<1>1. ~GCErase
  BY DEF ReuseHolds, GCErase
<1>2. ASSUME NEW t \in Threads, Commit(t)
      PROVE  \E b \in attRows' : b.hash = a.hash
  <2>1. a.doc = job[t].oldAtt => a.hash = job[t].ev.hash
    BY <1>2 DEF Commit, StoreInv, JobsAgree, MayCommit
  <2>2. CASE job[t].data /\ a.doc = job[t].oldAtt
    <3>1. [doc |-> lastDoc + 2, hash |-> job[t].ev.hash] \in attRows'
      BY <1>2, <2>2 DEF Commit
    <3> QED BY <2>1, <2>2, <3>1
  <2>3. CASE ~(job[t].data /\ a.doc = job[t].oldAtt)
    <3>1. a \in attRows'
      <4>1. CASE job[t].data
        BY <1>2, <2>3, <4>1 DEF Commit
      <4>2. CASE ~job[t].data
        BY <1>2, <4>2 DEF Commit
      <4> QED BY <4>1, <4>2
    <3> QED BY <3>1
  <2> QED BY <2>2, <2>3
<1> QED BY <1>1, <1>2, StoreWriters DEF store

\* Who gives a handler the locals with which it publishes.
LEMMA PublishWriters ==
  ASSUME TypeOK, [Next]_vars, NEW t \in Threads,
         pc'[t] \in {"lookup", "commit"}, job'[t].upload, ~job'[t].data, Feeders = {}
  PROVE  \/ FindAttachment(t)
         \/ /\ pc[t] \in {"lookup", "commit"} /\ job[t].upload /\ ~job[t].data
            /\ job'[t].ev = job[t].ev
<1> USE DEF Threads
<1>1. /\ pc \in [Threads -> {"idle", "findTarget", "findAttachment", "lookup",
                             "commit", "broadcast", "startGC"}]
      /\ job \in [Threads -> JobType]
  BY DEF TypeOK
<1> DEFINE Same == pc'[t] = pc[t] /\ job'[t] = job[t]
<1>2. ASSUME NEW p \in Peers, Request(p) PROVE Same
  <2>1. ASSUME NEW e \in Events, PostAccepted(p, e) PROVE Same
    BY <1>1, <2>1 DEF PostAccepted, Begin, Goto, Job
  <2>2. ASSUME NEW h \in Payloads, BinaryMatched(p, h) PROVE Same
    BY <1>1, <2>2 DEF BinaryMatched, Begin, Goto
  <2> QED BY <1>1, <1>2, <2>1, <2>2
          DEF Request, PostDuplicate, PostRefused, FileRefused, FileAnnounced,
              BinaryMismatch, BinaryDuplicate, BinaryUnsupported, Disconnect
<1>3. ASSUME NEW u \in Threads, Continue(u)
      PROVE  \/ FindAttachment(t) \/ Same
             \/ /\ pc[t] \in {"lookup", "commit"} /\ job[t].upload /\ ~job[t].data
                /\ job'[t].ev = job[t].ev
  <2>1. CASE u \in Peers /\ (DeletionVoid(u) \/ DeletionForeign(u))
    BY <1>1, <2>1 DEF DeletionVoid, DeletionForeign, Finish, Goto
  <2>2. CASE PublishObsolete(u) \/ CommitRefused(u) \/ start_gc_thread(u)
    BY <1>1, <2>2 DEF PublishObsolete, CommitRefused, start_gc_thread, Finish, Goto
  <2>3. CASE Broadcast(u)
    BY <1>1, <2>3 DEF Broadcast, Finish, Goto
  <2>4. CASE u \in Peers /\ DeletionTarget(u)
    BY <1>1, <2>4 DEF DeletionTarget, Goto, Job
  <2>5. CASE PublishLookup(u)
    <3>1. CASE u = t
      <4>1. pc[t] = "lookup"
        BY <2>5, <3>1 DEF PublishLookup
      <4>2. PICK old, oldAtt :
              job' = [job EXCEPT ![t] = Job(job[t].ev, old, oldAtt, job[t].upload, job[t].data)]
        BY <2>5, <3>1 DEF PublishLookup
      <4>3. job'[t] = Job(job[t].ev, old, oldAtt, job[t].upload, job[t].data)
        BY <1>1, <4>2
      <4> QED BY <4>1, <4>3 DEF Job
    <3>2. CASE u # t
      BY <1>1, <2>5, <3>2 DEF PublishLookup, Goto
    <3> QED BY <3>1, <3>2
  <2>6. CASE Commit(u)
    BY <1>1, <2>6 DEF Commit, Goto
  <2>7. CASE u \in Peers /\ FindAttachment(u)
    <3>1. CASE u = t
      BY <2>7, <3>1 DEF FindAttachment, Goto
    <3>2. CASE u # t
      BY <1>1, <2>7, <3>2 DEF FindAttachment, Goto
    <3> QED BY <3>1, <3>2
  <2> QED BY <1>3, <2>1, <2>2, <2>3, <2>4, <2>5, <2>6, <2>7 DEF Continue
<1>4. CASE Collector
  BY <1>4 DEF Collector, GCScan, GCFind, GCErase, GCDone
<1>5. ASSUME Crash PROVE FALSE
  BY <1>5 DEF Crash
<1>6. CASE UNCHANGED vars
  BY <1>6 DEF vars
<1> QED BY <1>2, <1>3, <1>4, <1>5, <1>6 DEF Next
\* With no in-process publisher the collector is never started, and an upload that
\* found its content stored keeps finding it.
LEMMA ReuseStep ==
  ASSUME TypeOK, StoreInv, ReuseHolds, Feeders = {}, [Next]_vars
  PROVE  ReuseHolds'
<1> USE DEF Threads
<1>1. gc' = "off"
  BY DEF ReuseHolds, Next, Request, Continue, Collector, vars, gcVars, PostDuplicate,
       PostRefused, PostAccepted, FileRefused, FileAnnounced, BinaryMismatch,
       BinaryDuplicate, BinaryMatched, BinaryUnsupported, Disconnect, FeederPublish,
       DeletionVoid, DeletionForeign, DeletionTarget, FindAttachment, PublishObsolete,
       PublishLookup, Commit, CommitRefused, Broadcast, start_gc_thread, GCScan, GCFind,
       GCErase, GCDone, Crash
<1>2. ASSUME NEW t \in Threads PROVE pc'[t] # "startGC"
  <2>1. pc \in [Threads -> {"idle", "findTarget", "findAttachment", "lookup",
                            "commit", "broadcast", "startGC"}]
    BY DEF TypeOK
  <2>2. ASSUME NEW p \in Peers, Request(p) PROVE pc'[t] # "startGC"
    BY <2>1, <2>2 DEF ReuseHolds, Request, PostDuplicate, PostRefused, PostAccepted,
       FileRefused, FileAnnounced, BinaryMismatch, BinaryDuplicate, BinaryMatched,
       BinaryUnsupported, Disconnect, Begin, Goto
  <2>3. ASSUME NEW u \in Threads, Continue(u) PROVE pc'[t] # "startGC"
    BY <2>1, <2>3 DEF ReuseHolds, Continue, DeletionVoid, DeletionForeign, DeletionTarget,
       FindAttachment, PublishObsolete, PublishLookup, Commit, CommitRefused, Broadcast,
       start_gc_thread, Finish, Goto
  <2>4. CASE Collector \/ Crash \/ UNCHANGED vars
    BY <2>4 DEF ReuseHolds, Collector, GCScan, GCFind, GCErase, GCDone, Crash, vars
  <2> QED BY <2>2, <2>3, <2>4 DEF Next
<1>3. ASSUME NEW t \in Threads, pc'[t] \in {"lookup", "commit"}, job'[t].upload,
             ~job'[t].data
      PROVE  \E a \in attRows' : a.hash = job'[t].ev.hash
  <2>1. \E a \in attRows : a.hash = job'[t].ev.hash
    <3>1. CASE FindAttachment(t)
      <4>1. PICK data \in BOOLEAN :
              /\ data <=> NoDoc \in find_attachment(job[t].ev.hash)
              /\ job' = [job EXCEPT ![t] = Job(job[t].ev, NoDoc, NoDoc, TRUE, data)]
        BY <3>1 DEF FindAttachment
      <4>2. job'[t] = Job(job[t].ev, NoDoc, NoDoc, TRUE, data)
        BY <4>1 DEF TypeOK
      <4>3. NoDoc \notin find_attachment(job[t].ev.hash) /\ job'[t].ev = job[t].ev
        BY <1>3, <4>1, <4>2 DEF Job
      <4> QED BY <4>3 DEF find_attachment, OrNoDoc
    <3>2. CASE ~FindAttachment(t)
      BY <1>3, <3>2, PublishWriters DEF ReuseHolds
    <3> QED BY <3>1, <3>2
  <2> QED BY <2>1, HashesKept
<1> QED BY <1>1, <1>2, <1>3 DEF ReuseHolds

LEMMA FileDataStep ==
  ASSUME TypeOK, StoreInv, ReuseHolds, FileEventHasData, [Next]_vars
  PROVE  FileEventHasData'
<1>1. ASSUME NEW r \in evRows', r.nip97, r \in evRows
      PROVE  \E a \in attRows' : a.hash = r.ev.hash
  BY <1>1, HashesKept DEF FileEventHasData
<1>2. ASSUME NEW r \in evRows', r.nip97, r \notin evRows
      PROVE  \E a \in attRows' : a.hash = r.ev.hash
  <2>1. PICK t \in Threads : Commit(t)
    BY <1>2, StoreWriters, EraseRows DEF store
  <2>2. r = EventRow(t, lastDoc + 1)
    BY <1>2, <2>1, CommitRows
  <2>3. r.ev = job[t].ev /\ job[t].upload
    BY <1>2, <2>2 DEF EventRow
  <2>4. CASE job[t].data
    <3>1. [doc |-> lastDoc + 2, hash |-> job[t].ev.hash] \in attRows'
      BY <2>1, <2>4 DEF Commit
    <3> QED BY <2>3, <3>1
  <2>5. CASE ~job[t].data
    <3>1. \E a \in attRows : a.hash = r.ev.hash
      BY <2>1, <2>3, <2>5 DEF Commit, ReuseHolds
    <3> QED BY <3>1, HashesKept
  <2> QED BY <2>4, <2>5
<1> QED BY <1>1, <1>2 DEF FileEventHasData

\* In the program as built, an event uploaded with its file always finds the file
\* stored, although an upload may rely on content another client has stored.
THEOREM UploadsKeepTheirFile == Feeders = {} => (Spec => []FileEventHasData)
<1> SUFFICES ASSUME Feeders = {} PROVE Spec => []FileEventHasData
  OBVIOUS
<1>1. Init => ReuseHolds /\ FileEventHasData
  BY DEF Init, ReuseHolds, FileEventHasData
<1>2. TypeOK /\ StoreInv /\ ReuseHolds /\ FileEventHasData /\ [Next]_vars
        => ReuseHolds' /\ FileEventHasData'
  BY ReuseStep, FileDataStep
<1> QED BY <1>1, <1>2, TypeCorrect, StoreInvariant, PTL DEF Spec

-----------------------------------------------------------------------------
(* Readers of files.                                                       *)

\* What a step adds to the store has a document id that was not handed out before.
LEMMA NewDocs ==
  ASSUME TypeOK, [Next]_vars
  PROVE  /\ \A x \in evRows' : x \in evRows \/ x.doc > lastDoc
         /\ \A a \in attRows' : a \in attRows \/ a.doc > lastDoc
<1>1. CASE UNCHANGED store
  BY <1>1 DEF store
<1>2. CASE GCErase
  BY <1>2, EraseRows
<1>3. ASSUME NEW t \in Threads, Commit(t)
      PROVE  /\ \A x \in evRows' : x \in evRows \/ x.doc > lastDoc
             /\ \A a \in attRows' : a \in attRows \/ a.doc > lastDoc
  BY <1>3, CommitRows
<1> QED BY <1>1, <1>2, <1>3, StoreWriters

\* A lookup finds a document that holds what it looked for, or there is none.
LEMMA Found ==
  ASSUME TypeOK, StoreInv
  PROVE  /\ \A id : \A doc \in find_event_by_id(id) :
              /\ doc = NoDoc => ~\E x \in evRows : x.ev.id = id
              /\ doc # NoDoc => /\ doc \in Nat /\ doc <= lastDoc
                               /\ \A x \in evRows : x.doc = doc <=> x.ev.id = id
         /\ \A h : \A doc \in find_attachment(h) :
              /\ doc = NoDoc => ~\E a \in attRows : a.hash = h
              /\ doc # NoDoc => /\ doc \in Nat /\ doc <= lastDoc
                               /\ \A a \in attRows : a.doc = doc <=> a.hash = h
<1>1. /\ lastDoc \in Nat
      /\ \A x \in evRows : x.doc \in Nat /\ x.doc # NoDoc /\ x.doc <= lastDoc
      /\ \A a \in attRows : a.doc \in Nat /\ a.doc # NoDoc /\ a.doc <= lastDoc
  BY DEF TypeOK, StoreInv, DocsHandedOut, NoDoc
<1>2. ASSUME NEW x \in evRows, NEW y \in evRows, x.doc = y.doc \/ x.ev.id = y.ev.id
      PROVE  x = y
  BY <1>2 DEF StoreInv, UniqueIndexes, UniqueKeys
<1>3. ASSUME NEW a \in attRows, NEW b \in attRows, a.doc = b.doc \/ a.hash = b.hash
      PROVE  a = b
  BY <1>3 DEF StoreInv, UniqueIndexes
<1>4. ASSUME NEW id, NEW doc \in find_event_by_id(id)
      PROVE  /\ doc = NoDoc => ~\E x \in evRows : x.ev.id = id
             /\ doc # NoDoc => \E x \in evRows : x.ev.id = id /\ x.doc = doc
  BY <1>1, <1>4 DEF find_event_by_id, OrNoDoc
<1>5. ASSUME NEW h, NEW doc \in find_attachment(h)
      PROVE  /\ doc = NoDoc => ~\E a \in attRows : a.hash = h
             /\ doc # NoDoc => \E a \in attRows : a.hash = h /\ a.doc = doc
  BY <1>1, <1>5 DEF find_attachment, OrNoDoc
<1> QED BY <1>1, <1>2, <1>3, <1>4, <1>5

\* The store goes on under the readers: what is still there keeps its document.
LEMMA StoreUnderReaders ==
  ASSUME TypeOK, StoreInv, CommittedFirst, ServingInv, ServedIsTrue, StoreStep
  PROVE  ServingInv' /\ ServedIsTrue'
<1>1. /\ asked' = asked /\ found' = found /\ hash' = hash /\ answer' = answer
      /\ committed \subseteq committed' /\ lastDoc \in Nat /\ lastDoc' \in Nat
      /\ lastDoc <= lastDoc'
  BY HistoryGrows, DocsStep, TypeStep DEF StoreStep, StoreInv, TypeOK
<1>2. \A r \in Readers : still'[r] = still[r] \cap (evRows' \X attRows')
  BY DEF StoreStep
<1>3. \A r \in Readers : place'[r] = place[r] \/ place'[r] = "idle"
  BY DEF StoreStep
<1>4. ReadersTyped'
  <2>1. place' \in [Readers -> {"idle", "loadEvent", "findFile", "loadFile"}]
    BY DEF StoreStep, ServingInv, ReadersTyped
  <2>2. still' \in [Readers -> SUBSET (evRows' \X attRows')]
    BY DEF StoreStep
  <2> QED BY <1>1, <2>1, <2>2 DEF ServingInv, ReadersTyped
<1>5. ASSUME NEW r \in Readers PROVE Holds(r)'
  <2>1. place'[r] # "idle" => place'[r] = place[r]
    BY <1>3
  <2>2. ASSUME place'[r] = "loadEvent"
        PROVE  /\ found'[r] <= lastDoc'
               /\ \A x \in evRows' : x.doc = found'[r] => x.ev.id = asked'[r].id
               /\ \A p \in still'[r] : /\ p[1].doc = found'[r] /\ MayServe(asked'[r].via, p[1])
                                       /\ p[2].hash = p[1].ev.hash
    <3>1. found[r] \in Nat /\ found[r] <= lastDoc
      BY <2>1, <2>2 DEF ServingInv, Holds, ReadersTyped
    <3>2. \A x \in evRows' : x.doc = found[r] => x \in evRows
      BY <1>1, <3>1, NewDocs DEF StoreStep
    <3> QED BY <1>1, <1>2, <2>1, <2>2, <3>1, <3>2 DEF ServingInv, Holds
  <2>3. ASSUME place'[r] \in {"findFile", "loadFile"}
        PROVE  FileKnown(r, hash[r])' /\ \A p \in still'[r] : p[2].hash = hash'[r]
    <3>1. FileKnown(r, hash[r]) /\ \A p \in still[r] : p[2].hash = hash[r]
      BY <2>1, <2>3 DEF ServingInv, Holds
    <3>2. FileKnown(r, hash[r])'
      BY <1>1, <3>1 DEF FileKnown
    <3> QED BY <1>1, <1>2, <3>1, <3>2
  <2>4. ASSUME place'[r] = "loadFile"
        PROVE  /\ found'[r] <= lastDoc'
               /\ \A a \in attRows' : a.doc = found'[r] => a.hash = hash'[r]
               /\ \A p \in still'[r] : p[2].doc = found'[r]
    <3>1. found[r] \in Nat /\ found[r] <= lastDoc
      BY <2>1, <2>4 DEF ServingInv, Holds, ReadersTyped
    <3>2. \A a \in attRows' : a.doc = found[r] => a \in attRows
      BY <1>1, <3>1, NewDocs DEF StoreStep
    <3> QED BY <1>1, <1>2, <2>1, <2>4, <3>1, <3>2 DEF ServingInv, Holds
  <2> QED BY <2>2, <2>3, <2>4 DEF Holds
<1>6. ServedIsTrue'
  BY <1>1, <1>2 DEF ServedIsTrue
<1> QED BY <1>4, <1>5, <1>6 DEF ServingInv

\* What a reader can be told.
LEMMA Tellings ==
  /\ NoHash \in Hashes
  /\ \A st \in {"none", "sent", "missing"}, h \in Hashes :
       Told(st, h) \in Answers /\ Told(st, h).st = st /\ Told(st, h).hash = h
<1>1. NoHash \in Hashes
  BY DEF Hashes
<1> QED BY <1>1 DEF Told, Answers

\* The types of what a reader keeps, one variable at a time.
LEMMA ReadersAre ==
  ASSUME ServingInv
  PROVE  /\ place \in [Readers -> {"idle", "loadEvent", "findFile", "loadFile"}]
         /\ asked \in [Readers -> [via : {"none", "RETRIEVE", "GET"}, id : Wanted \cup {""}]]
         /\ found \in [Readers -> Nat] /\ hash \in [Readers -> Hashes]
         /\ answer \in [Readers -> Answers]
         /\ still \in [Readers -> SUBSET (evRows \X attRows)]
BY DEF ServingInv, ReadersTyped

\* A reader asks: from now on it is remembered what stays.
LEMMA AskStep ==
  ASSUME TypeOK, StoreInv, ServingInv, ServedIsTrue, NEW r \in Readers,
         NEW via \in {"RETRIEVE", "GET"}, NEW id \in Wanted, AskFile(r, via, id)
  PROVE  ServingInv' /\ ServedIsTrue'
<1> DEFINE ask == [via |-> via, id |-> id]
<1>1. UNCHANGED vars /\ hash' = hash
  BY DEF AskFile
<1>2. /\ evRows' = evRows /\ attRows' = attRows /\ lastDoc' = lastDoc
      /\ committed' = committed
  BY <1>1 DEF vars, store
<1>3. asked' = [asked EXCEPT ![r] = ask] /\ still' = [still EXCEPT ![r] = FileOf(ask)]
  BY DEF AskFile
<1>4. FileOf(ask) \subseteq evRows \X attRows
  BY DEF FileOf
<1>5. PICK doc \in find_event_by_id(id) :
        \/ doc = NoDoc /\ Reply(r, "missing", NoHash) /\ UNCHANGED found
        \/ /\ doc # NoDoc /\ found' = [found EXCEPT ![r] = doc]
           /\ Proceed(r, "loadEvent") /\ answer' = [answer EXCEPT ![r] = Told("none", NoHash)]
  BY DEF AskFile
<1>6. /\ doc = NoDoc => ~\E x \in evRows : x.ev.id = id
      /\ doc # NoDoc => /\ doc \in Nat /\ doc <= lastDoc
                       /\ \A x \in evRows : x.doc = doc <=> x.ev.id = id
  BY Found
<1>7. /\ place' = [place EXCEPT ![r] = IF doc = NoDoc THEN "idle" ELSE "loadEvent"]
      /\ found' = IF doc = NoDoc THEN found ELSE [found EXCEPT ![r] = doc]
      /\ answer' = [answer EXCEPT ![r] =
                      IF doc = NoDoc THEN Told("missing", NoHash) ELSE Told("none", NoHash)]
  BY <1>5 DEF Reply, Proceed
<1>8. ReadersTyped'
  <2>1. asked' \in [Readers -> [via : {"none", "RETRIEVE", "GET"}, id : Wanted \cup {""}]]
    BY <1>3, ReadersAre
  <2>2. still' \in [Readers -> SUBSET (evRows' \X attRows')]
    BY <1>2, <1>3, <1>4, ReadersAre
  <2>3. /\ place' \in [Readers -> {"idle", "loadEvent", "findFile", "loadFile"}]
        /\ found' \in [Readers -> Nat]
    BY <1>7, <1>6, ReadersAre
  <2>4. answer' \in [Readers -> Answers]
    BY <1>7, ReadersAre, Tellings
  <2> QED BY <1>1, ReadersAre, <2>1, <2>2, <2>3, <2>4 DEF ReadersTyped
<1>9. ASSUME NEW u \in Readers, u # r
      PROVE  /\ place'[u] = place[u] /\ asked'[u] = asked[u] /\ found'[u] = found[u]
             /\ answer'[u] = answer[u] /\ still'[u] = still[u]
  BY <1>3, <1>5, <1>9 DEF ServingInv, ReadersTyped, Reply, Proceed
<1>10. asked'[r] = ask /\ still'[r] = FileOf(ask)
  BY <1>3 DEF ServingInv, ReadersTyped
<1>11. \/ /\ place'[r] = "idle" /\ answer'[r].st = "missing" /\ FileOf(ask) = {}
       \/ /\ place'[r] = "loadEvent" /\ answer'[r].st = "none"
          /\ doc # NoDoc /\ found'[r] = doc
  <2>1. CASE doc = NoDoc
    <3>1. FileOf(ask) = {}
      BY <1>6, <2>1 DEF FileOf
    <3>2. place'[r] = "idle" /\ answer'[r] = Told("missing", NoHash)
      BY <1>7, ReadersAre, <2>1
    <3>3. answer'[r].st = "missing"
      BY <3>2 DEF Told
    <3> QED BY <3>1, <3>2, <3>3
  <2>2. CASE doc # NoDoc
    <3>1. /\ place'[r] = "loadEvent" /\ answer'[r] = Told("none", NoHash)
          /\ found'[r] = doc
      BY <1>7, ReadersAre, <2>2
    <3>2. answer'[r].st = "none"
      BY <3>1 DEF Told
    <3> QED BY <2>2, <3>1, <3>2
  <2> QED BY <2>1, <2>2
<1>12. Holds(r)'
  <2>1. CASE place'[r] = "idle"
    BY <2>1 DEF Holds
  <2>2. CASE place'[r] = "loadEvent"
    <3>1. \A p \in FileOf(ask) :
            /\ p[1] \in evRows /\ p[1].ev.id = id /\ MayServe(via, p[1])
            /\ p[2].hash = p[1].ev.hash
      BY DEF FileOf
    <3>2. asked'[r].id = id /\ asked'[r].via = via
      BY <1>10
    <3> QED BY <1>2, <1>6, <1>10, <1>11, <2>2, <3>1, <3>2 DEF Holds
  <2> QED BY <1>11, <2>1, <2>2
<1>13. ASSUME NEW u \in Readers, u # r PROVE Holds(u)'
  BY <1>1, <1>2, <1>9, <1>13 DEF ServingInv, Holds, FileKnown
<1>14. ServedIsTrue'
  BY <1>2, <1>9, <1>10, <1>11 DEF ServedIsTrue
<1> QED BY <1>8, <1>12, <1>13, <1>14 DEF ServingInv

\* A step of one reader leaves what the others hold alone.
LEMMA OthersHold ==
  ASSUME ServingInv, UNCHANGED <<asked, still, vars>>, NEW u \in Readers,
         place'[u] = place[u], found'[u] = found[u], hash'[u] = hash[u]
  PROVE  Holds(u)'
<1>1. /\ evRows' = evRows /\ attRows' = attRows /\ lastDoc' = lastDoc
      /\ committed' = committed
  BY DEF vars, store
<1> QED BY <1>1 DEF ServingInv, Holds, FileKnown

\* "missing" is a true answer while the reader's event or its file have been away.
LEMMA AnswersMissing ==
  ASSUME ServingInv, ServedIsTrue, NEW r \in Readers, still[r] = {},
         UNCHANGED <<asked, found, hash, still, vars>>, Reply(r, "missing", NoHash)
  PROVE  ServingInv' /\ ServedIsTrue'
<1>1. /\ place' = [place EXCEPT ![r] = "idle"]
      /\ answer' = [answer EXCEPT ![r] = Told("missing", NoHash)]
  BY DEF Reply, Proceed
<1>2. ReadersTyped'
  BY <1>1, ReadersAre, Tellings DEF ReadersTyped, vars, store
<1>3. ASSUME NEW u \in Readers PROVE Holds(u)'
  <2>1. CASE u = r
    <3>1. place'[r] = "idle"
      BY <1>1, ReadersAre
    <3> QED BY <2>1, <3>1 DEF Holds
  <2>2. CASE u # r
    BY <1>1, <2>2, OthersHold, ReadersAre
  <2> QED BY <2>1, <2>2
<1>4. ServedIsTrue'
  <2>1. answer'[r] = Told("missing", NoHash)
    BY <1>1, ReadersAre
  <2>2. answer'[r].st = "missing"
    BY <2>1, Tellings
  <2>3. \A u \in Readers : u # r => answer'[u] = answer[u]
    BY <1>1, ReadersAre
  <2> QED BY <2>2, <2>3 DEF ServedIsTrue, vars, store
<1> QED BY <1>2, <1>3, <1>4 DEF ServingInv

\* The event is loaded: it is the one asked for, or gone.
LEMMA LoadEventStep ==
  ASSUME TypeOK, StoreInv, CommittedFirst, ServingInv, ServedIsTrue,
         NEW r \in Readers, LoadEvent(r)
  PROVE  ServingInv' /\ ServedIsTrue'
<1> DEFINE here == {x \in evRows : x.doc = found[r] /\ MayServe(asked[r].via, x)}
<1>1. /\ UNCHANGED <<asked, still, vars>> /\ found' = found /\ place[r] = "loadEvent"
      /\ evRows' = evRows /\ attRows' = attRows /\ committed' = committed
  BY DEF LoadEvent, vars, store
<1>2. \/ here = {} /\ Reply(r, "missing", NoHash) /\ hash' = hash
      \/ /\ place' = [place EXCEPT ![r] = "findFile"] /\ answer' = answer
         /\ \E x \in here : hash' = [hash EXCEPT ![r] = x.ev.hash]
  BY DEF LoadEvent, Proceed
<1>3. /\ \A x \in evRows : x.doc = found[r] => x.ev.id = asked[r].id
      /\ \A p \in still[r] : /\ p[1].doc = found[r] /\ MayServe(asked[r].via, p[1])
                             /\ p[2].hash = p[1].ev.hash
  BY <1>1 DEF ServingInv, Holds
<1>4. still[r] \subseteq evRows \X attRows
  BY ReadersAre
<1>5. CASE here = {} /\ Reply(r, "missing", NoHash) /\ hash' = hash
  <2>1. still[r] = {}
    <3>1. ASSUME NEW p \in still[r] PROVE p[1] \in here
      BY <1>3, <1>4, <3>1
    <3> QED BY <1>5, <3>1
  <2> QED BY <1>1, <1>5, <2>1, AnswersMissing
<1>6. ASSUME NEW x \in here, hash' = [hash EXCEPT ![r] = x.ev.hash],
             place' = [place EXCEPT ![r] = "findFile"], answer' = answer
      PROVE  ServingInv' /\ ServedIsTrue'
  <2>1. x \in evRows /\ x.doc = found[r] /\ x.ev \in committed /\ x.ev.id = asked[r].id
    BY <1>3 DEF CommittedFirst
  <2>2. x.ev.hash \in Hashes
    BY <2>1 DEF TypeOK, Hashes
  <2>3. ReadersTyped'
    BY <1>1, <1>6, <2>2, ReadersAre DEF ReadersTyped
  <2>4. \A p \in still[r] : p[2].hash = x.ev.hash
    <3>1. ASSUME NEW p \in still[r] PROVE p[1] = x
      BY <1>3, <1>4, <2>1, <3>1 DEF StoreInv, UniqueIndexes
    <3> QED BY <1>3, <3>1
  <2>5. ASSUME NEW u \in Readers PROVE Holds(u)'
    <3>1. CASE u = r
      <4>1. place'[r] = "findFile" /\ hash'[r] = x.ev.hash
        BY <1>6, ReadersAre
      <4> QED BY <1>1, <2>1, <2>4, <3>1, <4>1 DEF Holds, FileKnown
    <3>2. CASE u # r
      BY <1>1, <1>6, <3>2, OthersHold, ReadersAre
    <3> QED BY <3>1, <3>2
  <2>6. ServedIsTrue'
    BY <1>1, <1>6 DEF ServedIsTrue
  <2> QED BY <2>3, <2>5, <2>6 DEF ServingInv
<1> QED BY <1>2, <1>5, <1>6

\* The document of the file is found: the one that stayed, if one did.
LEMMA FindFileStep ==
  ASSUME TypeOK, StoreInv, ServingInv, ServedIsTrue, NEW r \in Readers, FindFile(r)
  PROVE  ServingInv' /\ ServedIsTrue'
<1>1. /\ UNCHANGED <<asked, still, vars>> /\ hash' = hash /\ place[r] = "findFile"
      /\ evRows' = evRows /\ attRows' = attRows /\ committed' = committed
      /\ lastDoc' = lastDoc
  BY DEF FindFile, vars, store
<1>2. PICK doc \in find_attachment(hash[r]) :
        \/ doc = NoDoc /\ Reply(r, "missing", NoHash) /\ UNCHANGED found
        \/ /\ doc # NoDoc /\ found' = [found EXCEPT ![r] = doc]
           /\ Proceed(r, "loadFile") /\ UNCHANGED answer
  BY DEF FindFile
<1>3. /\ doc = NoDoc => ~\E a \in attRows : a.hash = hash[r]
      /\ doc # NoDoc => /\ doc \in Nat /\ doc <= lastDoc
                       /\ \A a \in attRows : a.doc = doc <=> a.hash = hash[r]
  BY Found
<1>4. /\ FileKnown(r, hash[r])
      /\ \A p \in still[r] : p[2].hash = hash[r]
  BY <1>1 DEF ServingInv, Holds
<1>5. \A p \in still[r] : p[2] \in attRows
  <2>1. still[r] \subseteq evRows \X attRows
    BY ReadersAre
  <2> QED BY <2>1
<1>6. CASE doc = NoDoc
  <2>1. still[r] = {}
    BY <1>3, <1>4, <1>5, <1>6
  <2> QED BY <1>1, <1>2, <1>6, <2>1, AnswersMissing
<1>7. CASE doc # NoDoc
  <2>1. /\ found' = [found EXCEPT ![r] = doc] /\ answer' = answer
        /\ place' = [place EXCEPT ![r] = "loadFile"]
    BY <1>2, <1>7 DEF Proceed
  <2>2. ReadersTyped'
    BY <1>1, <1>3, <1>7, <2>1, ReadersAre DEF ReadersTyped
  <2>3. ASSUME NEW u \in Readers PROVE Holds(u)'
    <3>1. CASE u = r
      <4>1. place'[r] = "loadFile" /\ found'[r] = doc
        BY <2>1, ReadersAre
      <4> QED BY <1>1, <1>3, <1>4, <1>5, <1>7, <3>1, <4>1 DEF Holds, FileKnown
    <3>2. CASE u # r
      BY <1>1, <2>1, <3>2, OthersHold, ReadersAre
    <3> QED BY <3>1, <3>2
  <2>4. ServedIsTrue'
    BY <1>1, <2>1 DEF ServedIsTrue
  <2> QED BY <2>2, <2>3, <2>4 DEF ServingInv
<1> QED BY <1>6, <1>7

\* The file is loaded and sent, or gone.
LEMMA LoadFileStep ==
  ASSUME ServingInv, ServedIsTrue, NEW r \in Readers, LoadFile(r)
  PROVE  ServingInv' /\ ServedIsTrue'
<1> DEFINE here == {a \in attRows : a.doc = found[r]}
<1>1. /\ UNCHANGED <<asked, found, hash, still, vars>> /\ place[r] = "loadFile"
      /\ evRows' = evRows /\ attRows' = attRows /\ committed' = committed
  BY DEF LoadFile, vars, store
<1>2. \/ here = {} /\ Reply(r, "missing", NoHash)
      \/ \E a \in here : Reply(r, "sent", a.hash)
  BY DEF LoadFile
<1>3. /\ FileKnown(r, hash[r])
      /\ \A a \in attRows : a.doc = found[r] => a.hash = hash[r]
      /\ \A p \in still[r] : p[2].doc = found[r]
  BY <1>1 DEF ServingInv, Holds
<1>4. \A p \in still[r] : p[2] \in attRows
  <2>1. still[r] \subseteq evRows \X attRows
    BY ReadersAre
  <2> QED BY <2>1
<1>5. CASE here = {} /\ Reply(r, "missing", NoHash)
  <2>1. still[r] = {}
    BY <1>3, <1>4, <1>5
  <2> QED BY <1>1, <1>5, <2>1, AnswersMissing
<1>6. ASSUME NEW a \in here, Reply(r, "sent", a.hash)
      PROVE  ServingInv' /\ ServedIsTrue'
  <2>1. /\ place' = [place EXCEPT ![r] = "idle"] /\ a.hash = hash[r]
        /\ answer' = [answer EXCEPT ![r] = Told("sent", hash[r])]
    BY <1>3, <1>6 DEF Reply, Proceed
  <2>2. hash[r] \in Hashes
    BY ReadersAre
  <2>3. ReadersTyped'
    BY <1>1, <2>1, <2>2, ReadersAre, Tellings DEF ReadersTyped
  <2>4. ASSUME NEW u \in Readers PROVE Holds(u)'
    <3>1. CASE u = r
      <4>1. place'[r] = "idle"
        BY <2>1, ReadersAre
      <4> QED BY <3>1, <4>1 DEF Holds
    <3>2. CASE u # r
      BY <1>1, <2>1, <3>2, OthersHold, ReadersAre
    <3> QED BY <3>1, <3>2
  <2>5. ServedIsTrue'
    <3>1. answer'[r] = Told("sent", hash[r])
      BY <2>1, ReadersAre
    <3>2. answer'[r].st = "sent" /\ answer'[r].hash = hash[r]
      BY <2>2, <3>1, Tellings
    <3>3. \A u \in Readers : u # r => answer'[u] = answer[u]
      BY <2>1, ReadersAre
    <3> QED BY <1>1, <1>3, <3>2, <3>3 DEF ServedIsTrue, FileKnown
  <2> QED BY <2>3, <2>4, <2>5 DEF ServingInv
<1> QED BY <1>2, <1>5, <1>6

\* No step of the store or of a reader breaks what the readers hold.
LEMMA ServingStep ==
  ASSUME TypeOK, StoreInv, CommittedFirst, ServingInv, ServedIsTrue,
         [ReadNext]_<<vars, readVars>>
  PROVE  ServingInv' /\ ServedIsTrue'
<1>1. CASE UNCHANGED <<vars, readVars>>
  <2>1. /\ evRows' = evRows /\ attRows' = attRows /\ lastDoc' = lastDoc
        /\ committed' = committed /\ place' = place /\ asked' = asked /\ found' = found
        /\ hash' = hash /\ answer' = answer /\ still' = still
    BY <1>1 DEF vars, store, readVars
  <2>2. ReadersTyped'
    BY <2>1 DEF ServingInv, ReadersTyped
  <2>3. ASSUME NEW r \in Readers PROVE Holds(r)'
    BY <2>1 DEF ServingInv, Holds, FileKnown
  <2>4. ServedIsTrue'
    BY <2>1 DEF ServedIsTrue
  <2> QED BY <2>2, <2>3, <2>4 DEF ServingInv
<1>2. CASE StoreStep
  BY <1>2, StoreUnderReaders
<1>3. ASSUME NEW r \in Readers, NEW via \in {"RETRIEVE", "GET"}, NEW id \in Wanted,
             AskFile(r, via, id)
      PROVE  ServingInv' /\ ServedIsTrue'
  BY <1>3, AskStep
<1>4. ASSUME NEW r \in Readers, ReadOn(r) PROVE ServingInv' /\ ServedIsTrue'
  BY <1>4, LoadEventStep, FindFileStep, LoadFileStep DEF ReadOn
<1> QED BY <1>1, <1>2, <1>3, <1>4 DEF ReadNext

\* What a reader of files is told is true: the content is that of the event it asked
\* for, and "missing" is said only if the event or its file were away meanwhile.
THEOREM ReadersToldTrue == ServingSpec => []ServedIsTrue
<1>1. Init /\ ReadInit => ServingInv /\ ServedIsTrue
  <2> SUFFICES ASSUME Init, ReadInit PROVE ServingInv /\ ServedIsTrue
    OBVIOUS
  <2>1. Told("none", NoHash) \in Answers /\ Told("none", NoHash).st = "none"
    BY Tellings
  <2>2. NotAsked \in [via : {"none", "RETRIEVE", "GET"}, id : Wanted \cup {""}]
    BY DEF NotAsked
  <2>3. NoDoc \in Nat
    BY DEF NoDoc
  <2>4. ReadersTyped
    BY <2>1, <2>2, <2>3, Tellings DEF ReadInit, ReadersTyped
  <2> QED BY <2>1, <2>4 DEF ReadInit, ServingInv, Holds, ServedIsTrue
<1>2. [ReadNext]_<<vars, readVars>> => [Next]_vars
  BY DEF ReadNext, AskFile, ReadOn, LoadEvent, FindFile, LoadFile, StoreStep
<1>3. ServingSpec => Spec
  BY <1>2, PTL DEF ServingSpec, Spec
<1>4. TypeOK /\ StoreInv /\ CommittedFirst /\ ServingInv /\ ServedIsTrue
        /\ [ReadNext]_<<vars, readVars>> => ServingInv' /\ ServedIsTrue'
  BY ServingStep
<1> QED BY <1>1, <1>3, <1>4, TypeCorrect, StoreInvariant, CommittedInvariant, PTL
        DEF ServingSpec
=============================================================================
