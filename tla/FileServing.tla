----------------------------- MODULE FileServing -----------------------------
(***************************************************************************)
(* Readers of files over RelayStore: Peer::on_retrieve (RETRIEVE) and the  *)
(* handler of GET /file/<id>.  A reader finds the document of the event,   *)
(* loads it, finds the document of its attachment, loads that; a deletion, *)
(* an upload or the collector may come between any two of the four.        *)
(***************************************************************************)
EXTENDS RelayStore

CONSTANTS Readers,  \* connections and HTTP requests that read a file
          Wanted,   \* ids they ask for
          MaxReads  \* bound on the requests of one reader

ASSUME FileServingAssumption == MaxReads \in Nat

VARIABLES
  place,  \* of each reader: "idle", "loadEvent", "findFile", "loadFile"
  asked,  \* how it asked, and for which id: [via, id]
  found,  \* the document it found last
  hash,   \* what the event says of its file
  answer, \* [st, hash]: "none", "sent" or "missing"
  reads,
  still   \* history: pairs of documents that hold the event asked for and its
          \* file, and have done so ever since the request came

readVars == <<place, asked, found, hash, answer, reads, still>>

NoHash == ""
NotAsked == [via |-> "none", id |-> ""]
Told(st, h) == [st |-> st, hash |-> h]

\* RETRIEVE serves only events that came with their file, GET any event.
MayServe(via, r) == via = "RETRIEVE" => r.nip97

\* The documents of an event and of its file, as they are stored now.
FileOf(ask) ==
  {p \in evRows \X attRows :
     p[1].ev.id = ask.id /\ MayServe(ask.via, p[1]) /\ p[2].hash = p[1].ev.hash}

Proceed(r, where) == place' = [place EXCEPT ![r] = where]

Reply(r, st, h) ==
  /\ Proceed(r, "idle")
  /\ answer' = [answer EXCEPT ![r] = Told(st, h)]

-----------------------------------------------------------------------------
AskFile(r, via, id) ==
  /\ place[r] = "idle" /\ reads[r] < MaxReads
  /\ reads' = [reads EXCEPT ![r] = @ + 1]
  /\ asked' = [asked EXCEPT ![r] = [via |-> via, id |-> id]]
  /\ still' = [still EXCEPT ![r] = FileOf([via |-> via, id |-> id])]
  /\ \E doc \in find_event_by_id(id) :
       \/ doc = NoDoc /\ Reply(r, "missing", NoHash) /\ UNCHANGED found
       \/ /\ doc # NoDoc /\ found' = [found EXCEPT ![r] = doc]
          /\ Proceed(r, "loadEvent") /\ answer' = [answer EXCEPT ![r] = Told("none", NoHash)]
  /\ UNCHANGED <<hash, vars>>

\* Faulty variant: only events that came with their file are served, by GET, too.
LoadEvent_UploadsOnly(r) ==
  /\ place[r] = "loadEvent"
  /\ LET here == {x \in evRows : x.doc = found[r] /\ x.nip97}
     IN \/ here = {} /\ Reply(r, "missing", NoHash) /\ UNCHANGED hash
        \/ /\ \E x \in here : hash' = [hash EXCEPT ![r] = x.ev.hash]
           /\ Proceed(r, "findFile") /\ UNCHANGED answer
  /\ UNCHANGED <<asked, found, reads, still, vars>>

\* The document may be gone.
LoadEvent(r) ==
  /\ place[r] = "loadEvent"
  /\ LET here == {x \in evRows : x.doc = found[r] /\ MayServe(asked[r].via, x)}
     IN \/ here = {} /\ Reply(r, "missing", NoHash) /\ UNCHANGED hash
        \/ /\ \E x \in here : hash' = [hash EXCEPT ![r] = x.ev.hash]
           /\ Proceed(r, "findFile") /\ UNCHANGED answer
  /\ UNCHANGED <<asked, found, reads, still, vars>>

FindFile(r) ==
  /\ place[r] = "findFile"
  /\ \E doc \in find_attachment(hash[r]) :
       \/ doc = NoDoc /\ Reply(r, "missing", NoHash) /\ UNCHANGED found
       \/ /\ doc # NoDoc /\ found' = [found EXCEPT ![r] = doc]
          /\ Proceed(r, "loadFile") /\ UNCHANGED answer
  /\ UNCHANGED <<asked, hash, reads, still, vars>>

LoadFile(r) ==
  /\ place[r] = "loadFile"
  /\ LET here == {a \in attRows : a.doc = found[r]}
     IN \/ here = {} /\ Reply(r, "missing", NoHash)
        \/ \E a \in here : Reply(r, "sent", a.hash)
  /\ UNCHANGED <<asked, found, hash, reads, still, vars>>

ReadOn(r) == LoadEvent(r) \/ FindFile(r) \/ LoadFile(r)

\* A step of the store while readers are anywhere; a restart ends them.
StoreStep ==
  /\ Next
  /\ still' = [r \in Readers |-> still[r] \cap (evRows' \X attRows')]
  /\ place' = IF crashes' = crashes THEN place ELSE [r \in Readers |-> "idle"]
  /\ UNCHANGED <<asked, found, hash, answer, reads>>

ReadInit ==
  /\ place = [r \in Readers |-> "idle"] /\ asked = [r \in Readers |-> NotAsked]
  /\ found = [r \in Readers |-> NoDoc] /\ hash = [r \in Readers |-> NoHash]
  /\ answer = [r \in Readers |-> Told("none", NoHash)]
  /\ reads = [r \in Readers |-> 0] /\ still = [r \in Readers |-> {}]

ReadNext ==
  \/ \E r \in Readers : \E via \in {"RETRIEVE", "GET"}, id \in Wanted : AskFile(r, via, id)
  \/ \E r \in Readers : ReadOn(r)
  \/ StoreStep

ServingSpec == Init /\ ReadInit /\ [][ReadNext]_<<vars, readVars>>

\* As in FairSpec of RelayStore; a reader never waits for anybody either.
FairServingSpec ==
  /\ ServingSpec
  /\ \A t \in Threads : WF_vars(Continue(t))
  /\ WF_vars(Collector)

-----------------------------------------------------------------------------
\* on_retrieve and GET /file/ act on document ids that may have gone stale three times
\* over: still, the content they send is the file of the event they were asked for, and
\* "missing" is answered only if the event or its file really were away at one of the
\* four moments at which they read.
ServedIsTrue ==
  \A r \in Readers :
    /\ answer[r].st = "sent" =>
         \E e \in committed : e.id = asked[r].id /\ e.hash = answer[r].hash
    /\ answer[r].st = "missing" => still[r] = {}
-----------------------------------------------------------------------------
(* The inductive invariant behind it.                                      *)

Hashes == {e.hash : e \in Events} \cup {NoHash}
Answers == [st : {"none", "sent", "missing"}, hash : Hashes]

ReadersTyped ==
  /\ place \in [Readers -> {"idle", "loadEvent", "findFile", "loadFile"}]
  /\ asked \in [Readers -> [via : {"none", "RETRIEVE", "GET"}, id : Wanted \cup {""}]]
  /\ found \in [Readers -> Nat] /\ hash \in [Readers -> Hashes]
  /\ answer \in [Readers -> Answers]
  /\ still \in [Readers -> SUBSET (evRows \X attRows)]

\* The event asked for was committed, with h as its file.
FileKnown(r, h) == \E e \in committed : e.id = asked[r].id /\ e.hash = h

\* What reader r holds: the document it found either holds what it looked for or
\* is gone, and what is still there under another id did not stay all along.
Holds(r) ==
  /\ place[r] = "loadEvent" =>
       /\ found[r] <= lastDoc
       /\ \A x \in evRows : x.doc = found[r] => x.ev.id = asked[r].id
       /\ \A p \in still[r] : /\ p[1].doc = found[r] /\ MayServe(asked[r].via, p[1])
                              /\ p[2].hash = p[1].ev.hash
  /\ place[r] \in {"findFile", "loadFile"} =>
       /\ FileKnown(r, hash[r])
       /\ \A p \in still[r] : p[2].hash = hash[r]
  /\ place[r] = "loadFile" =>
       /\ found[r] <= lastDoc
       /\ \A a \in attRows : a.doc = found[r] => a.hash = hash[r]
       /\ \A p \in still[r] : p[2].doc = found[r]

ServingInv == ReadersTyped /\ \A r \in Readers : Holds(r)
=============================================================================
