------------------------ MODULE SubscriptionsProofs ------------------------
(***************************************************************************)
(* Type correctness of Subscriptions, and that a subscription misses no    *)
(* event between its answer and its live part.                             *)
(***************************************************************************)
EXTENDS Subscriptions, FilterIndexProofs, FiniteSetTheorems, SequenceTheorems

\* Whoever is to be told of an event asked for one like it.
LEMMA ToldIsMatched ==
  ASSUME NEW s, NEW e, MustTell(s, e)
  PROVE  Matches(s.flts, e)
BY DEF MustTell, Matches, Wants

\* find_in_index returns stored events.
LEMMA CandidatesAreStored ==
  ASSUME NEW docs, NEW flts
  PROVE  DOMAIN find_in_index(docs, flts) \subseteq docs
<1>1. CASE Inverted(flts)
  <2>1. DOMAIN << >> = {}
    OBVIOUS
  <2> QED BY <1>1, <2>1 DEF find_in_index
<1>2. CASE ~Inverted(flts)
  BY <1>2 DEF find_in_index
<1> QED BY <1>1, <1>2

-----------------------------------------------------------------------------
(* Type correctness.                                                       *)

LEMMA NoReqType == NoReq.pc = "idle" /\ NoReq.left = 0 /\ DOMAIN NoReq.todo = {}
<1>1. DOMAIN << >> = {}
  OBVIOUS
<1> QED BY <1>1 DEF NoReq, Request

LEMMA TypeInit == Init => TypeOK
<1> SUFFICES ASSUME Init PROVE TypeOK
  OBVIOUS
<1>1. stored \subseteq Events /\ feed \in Seq(Events) /\ Len(feed) = 0
      /\ pending \in [Writers -> Events \cup {None}]
  BY DEF Init, Relay!Init
<1>2. req.pc = "idle" /\ req.left \in Nat /\ DOMAIN req.todo \subseteq Events
  BY NoReqType DEF Init
<1>3. cursor \in 0..Len(feed) /\ reqs \in 0..MaxReqs
  BY <1>1, SubscriptionsAssumption DEF Init
<1> QED BY <1>1, <1>2, <1>3 DEF Init, TypeOK

\* A writer keeps the types of the relay and only appends to the feed.
LEMMA WriteTypes ==
  ASSUME TypeOK, Write
  PROVE  /\ stored' \subseteq Events /\ feed' \in Seq(Events)
         /\ pending' \in [Writers -> Events \cup {None}]
         /\ Len(feed) <= Len(feed')
<1> PICK w \in Writers : \/ \E e \in Events : Relay!Commit(w, e) \/ Relay!Announce(w, e)
                         \/ Relay!Broadcast(w)
  BY DEF Write
<1>0. stored \subseteq Events /\ feed \in Seq(Events) /\ pending \in [Writers -> Events \cup {None}]
  BY DEF TypeOK
<1>1. ASSUME NEW e \in Events, Relay!Commit(w, e) \/ Relay!Announce(w, e)
      PROVE  /\ stored' \subseteq Events
             /\ pending' \in [Writers -> Events \cup {None}]
             /\ feed' = feed
  BY <1>0, <1>1 DEF Relay!Commit, Relay!Announce
<1>2. ASSUME Relay!Broadcast(w)
      PROVE  /\ stored' = stored
             /\ pending' \in [Writers -> Events \cup {None}]
             /\ feed' \in Seq(Events)
             /\ Len(feed') = Len(feed) + 1
  BY <1>0, <1>2 DEF Relay!Broadcast
<1>3. Len(feed) \in Nat
  BY <1>0
<1> QED BY <1>0, <1>1, <1>2, <1>3

LEMMA TypeNext == TypeOK /\ [Next]_vars => TypeOK'
<1> SUFFICES ASSUME TypeOK, [Next]_vars PROVE TypeOK'
  OBVIOUS
<1> USE SubscriptionsAssumption DEF TypeOK
<1>1. CASE Write
  <2>1. cursor \in 0..Len(feed')
    BY <1>1, WriteTypes
  <2> QED BY <1>1, <2>1, WriteTypes DEF Write, client
<1>2. CASE Command
  <2>1. ASSUME NEW id \in SubIds, NEW flts \in Requests, ReqLock(id, flts)
        PROVE  TypeOK'
    <3>1. /\ req'.pc = "snapshot" /\ req'.left = Limit(flts) /\ DOMAIN req'.todo = {}
          /\ req'.sub = [id |-> id, flts |-> flts, base |-> {}]
      <4>1. DOMAIN << >> = {}
        OBVIOUS
      <4> QED BY <2>1, <4>1 DEF ReqLock, Request, Subscription
    <3> QED BY <2>1, <3>1 DEF ReqLock, SubType, relay
  <2>2. ASSUME NEW id \in SubIds, Close(id)
        PROVE  TypeOK'
    BY <2>2 DEF Close, relay
  <2>3. CASE Connect
    <3>1. Len(feed) \in 0..Len(feed)
      BY LenProperties
    <3> QED BY <2>3, <3>1 DEF Connect, relay, client
  <2>4. CASE Disconnect
    BY <2>4 DEF Disconnect, relay, client
  <2> QED BY <1>2, <2>1, <2>2, <2>3, <2>4 DEF Command
<1>3. CASE ReqSnapshot
  <2>1. DOMAIN find_in_index(stored, req.sub.flts) \subseteq Events
    BY CandidatesAreStored
  <2> QED BY <1>3, <2>1 DEF ReqSnapshot, Request, Subscription, SubType, relay, client
<1>4. ASSUME NEW e \in DOMAIN req.todo, ReqCandidate(e)
      PROVE  TypeOK'
  <2>1. /\ req'.pc = "sending" /\ req'.sub = req.sub
        /\ DOMAIN req'.todo = DOMAIN req.todo \ {e}
        /\ req'.left \in {req.left, req.left - 1} /\ req.left > 0
    BY <1>4 DEF ReqCandidate, Request
  <2>2. got' \in [SubIds -> SUBSET Events]
    <3>1. got' = got \/ got' = [got EXCEPT ![req.sub.id] = @ \cup {e}]
      BY <1>4 DEF ReqCandidate
    <3>2. got[req.sub.id] \subseteq Events /\ e \in Events /\ req.sub.id \in SubIds
      BY <1>4 DEF ReqCandidate, SubType
    <3> QED BY <3>1, <3>2
  <2>3. req'.left \in Nat
    BY <2>1
  <2> QED BY <1>4, <2>1, <2>2, <2>3 DEF ReqCandidate, relay
<1>5. CASE ReqEose \/ ReqAborted
  <2>1. req'.pc = "idle" /\ req'.left \in Nat /\ DOMAIN req'.todo \subseteq Events
    BY <1>5, NoReqType DEF ReqEose, ReqAborted
  <2>2. subs' \subseteq SubType
    BY <1>5 DEF ReqEose, ReqAborted
  <2> QED BY <1>5, <2>1, <2>2 DEF ReqEose, ReqAborted, relay, client
<1>6. CASE Listener
  <2>1. CASE ListenerTake
    BY <2>1 DEF ListenerTake, relay, client
  <2>2. CASE ListenerDeliver
    <3>1. got' \in [SubIds -> SUBSET Events]
      BY <2>2 DEF ListenerDeliver
    <3> QED BY <2>2, <3>1 DEF ListenerDeliver, relay
  <2>3. CASE ListenerStop
    BY <2>3 DEF ListenerStop, relay, client
  <2> QED BY <1>6, <2>1, <2>2, <2>3 DEF Listener
<1>7. CASE Destroy
  BY <1>7 DEF Destroy, relay
<1>8. CASE UNCHANGED vars
  BY <1>8 DEF vars, relay, client
<1> QED BY <1>1, <1>2, <1>3, <1>4, <1>5, <1>6, <1>7, <1>8 DEF Next, ReqStep

\* Every variable keeps its type, for any writers, subscription ids, requests
\* and bounds.
THEOREM SubscriptionsTypeCorrect == Spec => []TypeOK
BY TypeInit, TypeNext, PTL DEF Spec

-----------------------------------------------------------------------------
(* No event is missed.                                                     *)

\* Writers lose nothing: what was coming is still coming, and what enters the
\* archive is coming.
LEMMA WritersAnnounce ==
  ASSUME TypeOK, Write
  PROVE  /\ \A e \in Events : Coming(e) => Coming(e)'
         /\ \A e \in stored' : e \in stored \/ Coming(e)'
<1> PICK w \in Writers : \/ \E e \in Events : Relay!Commit(w, e) \/ Relay!Announce(w, e)
                         \/ Relay!Broadcast(w)
  BY DEF Write
<1>0. /\ stored \subseteq Events /\ feed \in Seq(Events) /\ Len(feed) \in Nat
      /\ pending \in [Writers -> Events \cup {None}]
      /\ cursor \in Nat /\ cursor <= Len(feed) /\ None \notin Events
  BY SubscriptionsAssumption DEF TypeOK
<1>1. cursor' = cursor /\ held' = held
  BY DEF Write
<1>2. ASSUME NEW x \in Events, Relay!Commit(w, x) \/ Relay!Announce(w, x)
      PROVE  /\ \A e \in Events : Coming(e) => Coming(e)'
             /\ \A e \in stored' : e \in stored \/ Coming(e)'
  <2>1. /\ pending[w] = None /\ feed' = feed
        /\ pending' = [pending EXCEPT ![w] = x]
        /\ stored' \subseteq stored \cup {x}
    BY <1>2 DEF Relay!Commit, Relay!Announce
  <2>2. pending'[w] = x /\ \A v \in Writers \ {w} : pending'[v] = pending[v]
    BY <1>0, <2>1
  <2> QED BY <1>0, <1>1, <2>1, <2>2 DEF Coming
<1>3. ASSUME Relay!Broadcast(w)
      PROVE  /\ \A e \in Events : Coming(e) => Coming(e)'
             /\ \A e \in stored' : e \in stored \/ Coming(e)'
  <2>1. /\ stored' = stored /\ feed' = Append(feed, pending[w])
        /\ pending' = [pending EXCEPT ![w] = None] /\ pending[w] \in Events
    BY <1>0, <1>3 DEF Relay!Broadcast
  <2>2. /\ Len(feed') = Len(feed) + 1 /\ feed'[Len(feed) + 1] = pending[w]
        /\ \A i \in 1..Len(feed) : feed'[i] = feed[i]
    BY <1>0, <2>1, AppendProperties
  <2>3. SUFFICES ASSUME NEW e \in Events, Coming(e) PROVE Coming(e)'
    BY <2>1
  <2>4. CASE \E v \in Writers : pending[v] = e
    <3>1. PICK v \in Writers : pending[v] = e
      BY <2>4
    <3>2. CASE v = w
      <4>1. Len(feed) + 1 \in (cursor' + 1)..Len(feed')
        BY <1>0, <1>1, <2>2
      <4> QED BY <3>1, <3>2, <4>1, <2>2 DEF Coming
    <3>3. CASE v # w
      <4>1. pending'[v] = e
        BY <1>0, <2>1, <3>1, <3>3
      <4> QED BY <4>1 DEF Coming
    <3> QED BY <3>2, <3>3
  <2>5. CASE \E i \in (cursor + 1)..Len(feed) : feed[i] = e
    <3>1. PICK i \in (cursor + 1)..Len(feed) : feed[i] = e
      BY <2>5
    <3>2. i \in (cursor' + 1)..Len(feed') /\ feed'[i] = e
      BY <1>0, <1>1, <2>2, <3>1
    <3> QED BY <3>2 DEF Coming
  <2>6. CASE held = e
    BY <1>1, <2>6 DEF Coming
  <2> QED BY <2>3, <2>4, <2>5, <2>6 DEF Coming
<1> QED BY <1>2, <1>3

\* Reading the feed brings its next event into the listener's hands.
LEMMA TakingKeeps ==
  ASSUME TypeOK, ListenerTake, NEW e \in Events, Coming(e)
  PROVE  Coming(e)'
<1>0. /\ feed \in Seq(Events) /\ Len(feed) \in Nat
      /\ cursor \in Nat /\ cursor <= Len(feed) /\ None \notin Events
  BY SubscriptionsAssumption DEF TypeOK
<1>1. /\ held = None /\ held' = feed[cursor + 1] /\ cursor' = cursor + 1
      /\ feed' = feed /\ pending' = pending
  BY DEF ListenerTake, relay
<1>2. CASE \E i \in (cursor + 1)..Len(feed) : feed[i] = e
  <2>1. PICK i \in (cursor + 1)..Len(feed) : feed[i] = e
    BY <1>2
  <2>2. i = cursor + 1 \/ i \in (cursor' + 1)..Len(feed')
    BY <1>0, <1>1
  <2> QED BY <1>1, <2>1, <2>2 DEF Coming
<1> QED BY <1>0, <1>1, <1>2 DEF Coming

\* What the listener has filtered has been sent under every id that asked for it.
LEMMA DeliveringTells ==
  ASSUME TypeOK, ListenerDeliver, NEW e \in Events, Coming(e),
         NEW s \in subs, Matches(s.flts, e)
  PROVE  e \in got'[s.id] \/ Coming(e)'
<1>0. s.id \in SubIds
  BY DEF TypeOK, SubType
<1>1. CASE held = e
  BY <1>0, <1>1 DEF ListenerDeliver
<1>2. CASE held # e
  BY <1>2 DEF ListenerDeliver, Coming, relay
<1> QED BY <1>1, <1>2

LEMMA SubsInvInit == Init => SubsInv
<1> SUFFICES ASSUME Init PROVE SubsInv
  OBVIOUS
<1> QED BY NoReqType DEF Init, SubsInv, Requesting, Answering, NoMissedEvent, QuietAfterClose

LEMMA WriteKeepsInv == TypeOK /\ SubsInv /\ Write => SubsInv'
<1> SUFFICES ASSUME TypeOK, SubsInv, Write PROVE SubsInv'
  OBVIOUS
<1> USE DEF SubsInv
<1>1. /\ conn' = conn /\ mx' = mx /\ req' = req /\ subs' = subs /\ listening' = listening
      /\ cursor' = cursor /\ held' = held /\ got' = got /\ asked' = asked
  BY DEF Write, client
<1>2. stored' \subseteq Events
  BY WriteTypes
<1>3. ASSUME NEW s, NEW e \in stored', MustTell(s, e)'
      PROVE  MustTell(s, e) \/ Coming(e)'
  BY <1>3, WritersAnnounce DEF MustTell
<1>4. Answering'
  BY <1>1, <1>2, <1>3, WritersAnnounce DEF Answering, MustTell
<1>5. NoMissedEvent'
  BY <1>1, <1>2, <1>3, WritersAnnounce DEF NoMissedEvent, MustTell
<1> QED BY <1>1, <1>4, <1>5 DEF Requesting, QuietAfterClose

LEMMA CommandKeepsInv == TypeOK /\ SubsInv /\ Command => SubsInv'
<1> SUFFICES ASSUME TypeOK, SubsInv, Command PROVE SubsInv'
  OBVIOUS
<1> USE DEF SubsInv
<1>1. ASSUME NEW id \in SubIds, NEW flts \in Requests, ReqLock(id, flts)
      PROVE  SubsInv'
  <2>1. /\ req'.pc = "snapshot" /\ req'.left = Limit(flts)
        /\ req'.sub.id = id /\ req'.sub.flts = flts
        /\ UNCHANGED <<stored, pending, feed, conn, subs, cursor, held, got>>
        /\ mx' = TRUE /\ asked' = asked \cup {id} /\ conn = "open"
    BY <1>1 DEF ReqLock, Request, Subscription, relay
  <2>2. subs' = subs /\ \A s \in subs : s.id \in asked
    BY <2>1 DEF Requesting
  <2>3. NoMissedEvent'
    BY <2>1, <2>2 DEF NoMissedEvent, MustTell, Coming
  <2> QED BY <2>1, <2>3 DEF Requesting, Answering, QuietAfterClose
<1>2. ASSUME NEW id \in SubIds, Close(id)
      PROVE  SubsInv'
  <2>1. /\ UNCHANGED <<stored, pending, feed, conn, mx, req, cursor, held>>
        /\ subs' = {s \in subs : s.id # id} /\ asked' = asked \ {id}
        /\ got' = [got EXCEPT ![id] = {}] /\ req.pc = "idle"
    BY <1>2 DEF Close, relay
  <2>2. got'[id] = {} /\ \A j \in SubIds \ {id} : got'[j] = got[j]
    BY <2>1 DEF TypeOK
  <2>3. \A s \in subs' : s \in subs /\ s.id \in SubIds \ {id}
    BY <2>1 DEF TypeOK, SubType
  <2>4. NoMissedEvent'
    BY <2>1, <2>2, <2>3 DEF NoMissedEvent, MustTell, Coming
  <2> QED BY <2>1, <2>2, <2>3, <2>4 DEF Requesting, Answering, QuietAfterClose
<1>3. CASE Connect
  <2>1. subs = {} /\ subs' = {} /\ req' = req /\ req.pc = "idle" /\ mx' = mx
        /\ asked' = asked /\ got' = got
    BY <1>3 DEF Connect, client, Requesting
  <2> QED BY <1>3, <2>1 DEF Connect, Requesting, Answering, NoMissedEvent, QuietAfterClose
<1>4. CASE Disconnect
  BY <1>4 DEF Disconnect, client, Requesting, Answering, NoMissedEvent, QuietAfterClose
<1> QED BY <1>1, <1>2, <1>3, <1>4 DEF Command

LEMMA ReqStepKeepsInv == TypeOK /\ SubsInv /\ ReqStep => SubsInv'
<1> SUFFICES ASSUME TypeOK, SubsInv, ReqStep PROVE SubsInv'
  OBVIOUS
<1> USE DEF SubsInv
<1>1. /\ UNCHANGED <<stored, pending, feed, conn, cursor, held, asked>>
      /\ req.pc # "idle" /\ req.sub \in SubType /\ req.sub.id \in SubIds
      /\ stored \subseteq Events
  BY DEF ReqStep, ReqSnapshot, ReqCandidate, ReqEose, ReqAborted, relay, client, TypeOK,
     SubType
<1>2. \A e : Coming(e)' = Coming(e)
  BY <1>1 DEF Coming
<1>3. CASE ReqSnapshot
  <2> DEFINE found == find_in_index(stored, req.sub.flts)
  <2>1. /\ req'.pc = "sending" /\ req'.todo = found /\ req'.left = Limit(req.sub.flts)
        /\ req'.sub.id = req.sub.id /\ req'.sub.flts = req.sub.flts
        /\ req'.sub.base = stored /\ mx' = mx /\ subs' = subs /\ got' = got
    BY <1>3 DEF ReqSnapshot, Request, Subscription, client, Requesting
  <2>2. DOMAIN found \subseteq stored
    BY CandidatesAreStored
  <2>3. ASSUME NEW e \in stored, MustTell(req.sub, e)'
        PROVE  e \in DOMAIN found
    <3>1. Complete(stored, req.sub.flts)
      BY QueriesComplete
    <3>2. e \in Matching(stored, req.sub.flts)
      BY <1>1, <2>1, <2>3 DEF MustTell, Matching
    <3> QED BY <1>1, <2>1, <2>3, <3>1, <3>2 DEF MustTell, Complete
  <2>4. Cardinality(DOMAIN found) < NoLimit
    <3>1. DOMAIN found \subseteq Events
      BY <1>1, <2>2
    <3>2. /\ IsFiniteSet(DOMAIN found)
          /\ Cardinality(DOMAIN found) <= Cardinality(Events)
      BY <3>1, FS_Subset, SubscriptionsAssumption
    <3> QED BY <3>2, FS_CardinalityType, SubscriptionsAssumption
  <2>5. Answering'
    BY <1>1, <2>1, <2>2, <2>3, <2>4 DEF Answering
  <2>6. NoMissedEvent'
    BY <1>1, <1>2, <2>1 DEF NoMissedEvent, MustTell
  <2> QED BY <1>1, <2>1, <2>5, <2>6 DEF Requesting, QuietAfterClose
<1>4. ASSUME NEW e \in DOMAIN req.todo, ReqCandidate(e)
      PROVE  SubsInv'
  <2> DEFINE send == e \in stored /\ Matches(req.sub.flts, e)
  <2>1. /\ req.pc = "sending" /\ req'.pc = "sending" /\ req'.sub = req.sub
        /\ DOMAIN req'.todo = DOMAIN req.todo \ {e}
        /\ req'.left >= req.left - 1 /\ req'.left \in Int
        /\ mx' = mx /\ subs' = subs
    BY <1>4 DEF ReqCandidate, Request, TypeOK
  <2>2. /\ \A id \in SubIds : got[id] \subseteq got'[id]
        /\ \A id \in SubIds \ {req.sub.id} : got'[id] = got[id]
        /\ send => e \in got'[req.sub.id]
    BY <1>1, <1>4 DEF ReqCandidate, TypeOK
  <2>3. ASSUME NEW x \in stored, MustTell(req.sub, x)
        PROVE  x \in got'[req.sub.id] \/ x \in DOMAIN req'.todo \/ Coming(x)
    <3>1. CASE x = e
      BY <2>2, <2>3, <3>1, ToldIsMatched
    <3>2. CASE x # e
      BY <1>1, <2>1, <2>2, <2>3, <3>2 DEF Answering
    <3> QED BY <3>1, <3>2
  <2>4. ASSUME Limit(req.sub.flts) = NoLimit
        PROVE  req'.left > Cardinality(DOMAIN req'.todo)
    <3>1. DOMAIN req.todo \subseteq Events
      BY DEF TypeOK
    <3>2. IsFiniteSet(DOMAIN req.todo)
      BY <3>1, FS_Subset, SubscriptionsAssumption
    <3>3. /\ Cardinality(DOMAIN req.todo \ {e}) = Cardinality(DOMAIN req.todo) - 1
          /\ Cardinality(DOMAIN req.todo) \in Nat
      BY <1>4, <3>2, FS_RemoveElement, FS_CardinalityType
    <3>4. req.left > Cardinality(DOMAIN req.todo) /\ req.left \in Nat
      BY <2>1, <2>4 DEF Answering, TypeOK
    <3> QED BY <2>1, <3>3, <3>4
  <2>5. Answering'
    BY <1>1, <1>2, <2>1, <2>3, <2>4 DEF Answering, MustTell
  <2>6. NoMissedEvent'
    BY <1>1, <1>2, <2>1, <2>2 DEF NoMissedEvent, MustTell, TypeOK, SubType
  <2>7. QuietAfterClose' /\ Requesting'
    BY <1>1, <2>1, <2>2 DEF Requesting, QuietAfterClose
  <2> QED BY <2>5, <2>6, <2>7
<1>5. CASE ReqEose
  <2>1. /\ req'.pc = "idle" /\ mx' = FALSE /\ subs' = subs \cup {req.sub} /\ got' = got
        /\ req.pc = "sending" /\ (req.left = 0 \/ DOMAIN req.todo = {})
    BY <1>5, NoReqType DEF ReqEose, client
  <2>2. ASSUME NEW e \in stored, MustTell(req.sub, e)
        PROVE  e \in got[req.sub.id] \/ Coming(e)
    <3>1. CASE Limit(req.sub.flts) = NoLimit
      <4>1. DOMAIN req.todo \subseteq Events
        BY DEF TypeOK
      <4>2. Cardinality(DOMAIN req.todo) \in Nat
        BY <4>1, FS_Subset, FS_CardinalityType, SubscriptionsAssumption
      <4>3. DOMAIN req.todo = {}
        BY <2>1, <3>1, <4>2 DEF Answering
      <4> QED BY <2>1, <2>2, <4>3 DEF Answering
    <3>2. CASE Limit(req.sub.flts) # NoLimit
      <4>1. e \notin req.sub.base
        BY <2>2, <3>2 DEF MustTell
      <4>2. e \notin DOMAIN req.todo
        BY <2>1, <4>1 DEF Answering
      <4> QED BY <2>1, <2>2, <4>2 DEF Answering
    <3> QED BY <3>1, <3>2
  <2>3. NoMissedEvent'
    BY <1>1, <1>2, <2>1, <2>2 DEF NoMissedEvent, MustTell
  <2> QED BY <1>1, <2>1, <2>3 DEF Requesting, Answering, QuietAfterClose
<1>6. CASE ReqAborted
  <2>1. req'.pc = "idle" /\ mx' = FALSE /\ subs' = subs /\ got' = got
    BY <1>6, NoReqType DEF ReqAborted, client
  <2>2. NoMissedEvent'
    BY <1>1, <1>2, <2>1 DEF NoMissedEvent, MustTell
  <2> QED BY <1>1, <2>1, <2>2 DEF Requesting, Answering, QuietAfterClose
<1> QED BY <1>3, <1>4, <1>5, <1>6 DEF ReqStep

LEMMA ListenerKeepsInv == TypeOK /\ SubsInv /\ Listener => SubsInv'
<1> SUFFICES ASSUME TypeOK, SubsInv, Listener PROVE SubsInv'
  OBVIOUS
<1> USE DEF SubsInv
<1>1. /\ UNCHANGED <<stored, pending, feed, conn, mx, req, subs, asked>>
      /\ stored \subseteq Events
  BY DEF Listener, ListenerTake, ListenerDeliver, ListenerStop, relay, client, TypeOK
<1>2. CASE ListenerTake
  <2>1. got' = got
    BY <1>2 DEF ListenerTake, client
  <2>2. \A e \in stored : Coming(e) => Coming(e)'
    BY <1>1, <1>2, TakingKeeps
  <2>3. NoMissedEvent'
    BY <1>1, <2>1, <2>2 DEF NoMissedEvent, MustTell
  <2>4. Answering'
    BY <1>1, <2>1, <2>2 DEF Answering, MustTell
  <2> QED BY <1>1, <2>1, <2>3, <2>4 DEF Requesting, QuietAfterClose
<1>3. CASE ListenerDeliver
  <2>1. \A id \in SubIds : got[id] \subseteq got'[id]
    BY <1>3 DEF ListenerDeliver
  <2>2. req.pc = "idle"
    BY <1>3 DEF ListenerDeliver, Requesting
  <2>3. NoMissedEvent'
    <3> SUFFICES ASSUME conn = "open", NEW s \in subs, NEW e \in stored,
                        s.id \in asked, MustTell(s, e)
                 PROVE  e \in got'[s.id] \/ Coming(e)'
      BY <1>1 DEF NoMissedEvent, MustTell
    <3>1. s.id \in SubIds /\ e \in Events
      BY <1>1 DEF TypeOK, SubType
    <3>2. CASE e \in got[s.id]
      BY <2>1, <3>1, <3>2
    <3>3. CASE Coming(e)
      BY <1>3, <3>1, <3>3, DeliveringTells, ToldIsMatched
    <3> QED BY <3>2, <3>3 DEF NoMissedEvent
  <2>4. QuietAfterClose'
    <3> SUFFICES ASSUME NEW id \in SubIds \ asked PROVE got'[id] = {}
      BY <1>1 DEF QuietAfterClose
    <3>1. ~\E s \in subs : s.id = id /\ Matches(s.flts, held)
      BY DEF Requesting
    <3>2. got'[id] = got[id]
      BY <1>3, <3>1 DEF ListenerDeliver
    <3> QED BY <3>2 DEF QuietAfterClose
  <2> QED BY <1>1, <2>2, <2>3, <2>4 DEF Requesting, Answering
<1>4. CASE ListenerStop
  <2>1. cursor' = cursor /\ held' = held /\ got' = got
    BY <1>4 DEF ListenerStop, client
  <2>2. NoMissedEvent' /\ Answering'
    BY <1>1, <2>1 DEF NoMissedEvent, Answering, MustTell, Coming
  <2> QED BY <1>1, <2>1, <2>2 DEF Requesting, QuietAfterClose
<1> QED BY <1>2, <1>3, <1>4 DEF Listener

LEMMA SubsInvNext == TypeOK /\ SubsInv /\ [Next]_vars => SubsInv'
<1> SUFFICES ASSUME TypeOK, SubsInv, [Next]_vars PROVE SubsInv'
  OBVIOUS
<1>1. CASE Destroy
  <2>1. req.pc = "idle" /\ req' = req /\ mx' = mx
    BY <1>1 DEF Destroy, SubsInv, Requesting
  <2> QED BY <1>1, <2>1 DEF Destroy, SubsInv, Requesting, Answering, NoMissedEvent,
             QuietAfterClose
<1>2. CASE UNCHANGED vars
  BY <1>2 DEF vars, relay, client, SubsInv, Requesting, Answering, NoMissedEvent,
     QuietAfterClose, MustTell, Coming
<1> QED BY <1>1, <1>2, WriteKeepsInv, CommandKeepsInv, ReqStepKeepsInv, ListenerKeepsInv
        DEF Next

\* Peer::on_req against App::publish and listen_publisher: an event that an open
\* subscription has to tell of was sent under its id or is on its way to the listener.
THEOREM NoEventMissed == Spec => []NoMissedEvent
<1>1. Init => TypeOK /\ SubsInv
  BY TypeInit, SubsInvInit
<1>2. TypeOK /\ SubsInv /\ [Next]_vars => (TypeOK /\ SubsInv)'
  BY TypeNext, SubsInvNext
<1>3. SubsInv => NoMissedEvent
  BY DEF SubsInv
<1> QED BY <1>1, <1>2, <1>3, PTL DEF Spec

\* Peer::on_close: the client gets no event under an id it has closed.
THEOREM ClosedIsQuiet == Spec => []QuietAfterClose
<1>1. Init => TypeOK /\ SubsInv
  BY TypeInit, SubsInvInit
<1>2. TypeOK /\ SubsInv /\ [Next]_vars => (TypeOK /\ SubsInv)'
  BY TypeNext, SubsInvNext
<1>3. SubsInv => QuietAfterClose
  BY DEF SubsInv
<1> QED BY <1>1, <1>2, <1>3, PTL DEF Spec
=============================================================================
