--------------------------- MODULE Subscriptions ---------------------------
(***************************************************************************)
(* One client connection and its subscriptions: client_main, which runs    *)
(* the commands of the client one after another (REQ in steps, because the *)
(* archive changes under it), and listen_publisher, the coroutine that     *)
(* forwards the feed.  Both work on _subscriptions under the mutex _mx.    *)
(* The rest of the relay is RelayFeed.                                     *)
(***************************************************************************)
EXTENDS FilterIndex

CONSTANTS Writers, None,
          SubIds,     \* subscription ids the client uses
          Requests,   \* the lists (as sets) of filters it asks for
          MaxFeed,    \* bound on published events
          MaxReqs     \* bound on REQ commands

ASSUME SubscriptionsAssumption ==
  /\ None \notin Events /\ MaxFeed \in Nat /\ MaxReqs \in Nat
  /\ IsFiniteSet(Events) /\ NoLimit \in Nat /\ NoLimit > Cardinality(Events)
  /\ \A flts \in Requests : Limit(flts) \in Nat

VARIABLES
  stored, pending, feed,  \* RelayFeed
  conn,      \* "closed", "open", or "closing": client_main awaits the listener
  mx,        \* on_req holds _mx
  req,       \* the locals of on_req
  subs,      \* _subscriptions
  listening, \* listen_publisher runs
  cursor,    \* how much of the feed _subscriber has read
  held,      \* the event listen_publisher is about to filter
  got,       \* history: events the client received under each id
  asked,     \* history: ids the client has asked for and not closed since
  reqs

relay == <<stored, pending, feed>>
client == <<got, asked, reqs>>
vars == <<relay, conn, mx, req, subs, listening, cursor, held, client>>

Relay == INSTANCE RelayFeed

\* An entry of _subscriptions; base (history) is what was stored at its snapshot.
\* The vector is a set here: equal entries only repeat the same messages.
Subscription(id, flts, base) == [id |-> id, flts |-> flts, base |-> base]

Request(pc, sub, todo, left) == [pc |-> pc, sub |-> sub, todo |-> todo, left |-> left]

NoReq == Request("idle", None, <<>>, 0)

Matches(flts, e) == \E f \in flts : Test(f, e)

-----------------------------------------------------------------------------
(* The connection begins and ends: Peer::client_main.                      *)

\* The subscriber starts behind what has been published so far.
Connect ==
  /\ conn = "closed" /\ conn' = "open"
  /\ listening' = TRUE /\ cursor' = Len(feed)
  /\ UNCHANGED <<relay, mx, req, subs, held, client>>

\* The read fails or the client closes: kick_me, then wait for the listener.
Disconnect ==
  /\ conn = "open" /\ req.pc = "idle"
  /\ conn' = "closing"
  /\ UNCHANGED <<relay, mx, req, subs, listening, cursor, held, client>>

Destroy ==
  /\ conn = "closing" /\ ~listening
  /\ conn' = "closed"
  /\ subs' = {} /\ asked' = {} /\ got' = [id \in SubIds |-> {}]
  /\ UNCHANGED <<relay, mx, req, listening, cursor, held, reqs>>

-----------------------------------------------------------------------------
(* REQ and CLOSE.                                                          *)

\* Faulty variant: the snapshot is sent before the mutex is taken.
ReqLock_Late(id, flts) ==
  /\ conn = "open" /\ req.pc = "idle" /\ ~mx
  /\ reqs < MaxReqs /\ reqs' = reqs + 1
  /\ req' = Request("snapshot", Subscription(id, flts, {}), <<>>, Limit(flts))
  /\ asked' = asked \cup {id}
  /\ UNCHANGED <<relay, conn, mx, subs, listening, cursor, held, got>>

ReqLock(id, flts) ==
  /\ conn = "open" /\ req.pc = "idle" /\ ~mx
  /\ reqs < MaxReqs /\ reqs' = reqs + 1
  /\ mx' = TRUE
  /\ req' = Request("snapshot", Subscription(id, flts, {}), <<>>, Limit(flts))
  /\ asked' = asked \cup {id}
  /\ UNCHANGED <<relay, conn, subs, listening, cursor, held, got>>

ReqSnapshot ==
  /\ req.pc = "snapshot"
  /\ req' = Request("sending", Subscription(req.sub.id, req.sub.flts, stored),
                    find_in_index(stored, req.sub.flts), req.left)
  /\ UNCHANGED <<relay, conn, mx, subs, listening, cursor, held, client>>

\* The next candidate is looked up now: it may have left the archive meanwhile.
ReqCandidate(e) ==
  /\ req.pc = "sending" /\ req.left > 0 /\ e \in DOMAIN req.todo
  /\ \A d \in DOMAIN req.todo : SentBefore(req.todo, e, d)
  /\ LET send == e \in stored /\ Matches(req.sub.flts, e)
         rest == [d \in DOMAIN req.todo \ {e} |-> req.todo[d]]
     IN /\ req' = Request("sending", req.sub, rest, IF send THEN req.left - 1 ELSE req.left)
        /\ got' = IF send THEN [got EXCEPT ![req.sub.id] = @ \cup {e}] ELSE got
  /\ UNCHANGED <<relay, conn, mx, subs, listening, cursor, held, asked, reqs>>

\* EOSE is sent and the subscription begins to live.
ReqEose ==
  /\ req.pc = "sending" /\ (req.left = 0 \/ DOMAIN req.todo = {})
  /\ subs' = subs \cup {req.sub}
  /\ mx' = FALSE /\ req' = NoReq
  /\ UNCHANGED <<relay, conn, listening, cursor, held, client>>

\* Faulty variant: the mutex is not released on the early return.
ReqAborted_KeepsLock ==
  /\ req.pc # "idle"
  /\ req' = NoReq
  /\ UNCHANGED <<relay, conn, mx, subs, listening, cursor, held, client>>

\* A send fails (return), or something throws (NOTICE): no EOSE, no subscription.
ReqAborted ==
  /\ req.pc # "idle"
  /\ mx' = FALSE /\ req' = NoReq
  /\ UNCHANGED <<relay, conn, subs, listening, cursor, held, client>>

\* Faulty variant: only one entry with the id is erased.
Close_One(id) ==
  /\ conn = "open" /\ req.pc = "idle" /\ ~mx
  /\ \E s \in subs : s.id = id /\ subs' = subs \ {s}
  /\ asked' = asked \ {id} /\ got' = [got EXCEPT ![id] = {}]
  /\ UNCHANGED <<relay, conn, mx, req, listening, cursor, held, reqs>>

Close(id) ==
  /\ conn = "open" /\ req.pc = "idle" /\ ~mx
  /\ subs' = {s \in subs : s.id # id}
  /\ asked' = asked \ {id} /\ got' = [got EXCEPT ![id] = {}]
  /\ UNCHANGED <<relay, conn, mx, req, listening, cursor, held, reqs>>

-----------------------------------------------------------------------------
(* Peer::listen_publisher and filter_event.                                *)

\* Faulty variant: the last published event stays unread.
ListenerTake_Behind ==
  /\ listening /\ held = None /\ conn = "open" /\ cursor + 1 < Len(feed)
  /\ held' = feed[cursor + 1] /\ cursor' = cursor + 1
  /\ UNCHANGED <<relay, conn, mx, req, subs, listening, client>>

ListenerTake ==
  /\ listening /\ held = None /\ conn = "open" /\ cursor < Len(feed)
  /\ held' = feed[cursor + 1] /\ cursor' = cursor + 1
  /\ UNCHANGED <<relay, conn, mx, req, subs, listening, client>>

\* One message for each matching entry of _subscriptions, under the mutex.
ListenerDeliver ==
  /\ held # None /\ ~mx
  /\ got' = [id \in SubIds |->
       IF \E s \in subs : s.id = id /\ Matches(s.flts, held)
       THEN got[id] \cup {held} ELSE got[id]]
  /\ held' = None
  /\ UNCHANGED <<relay, conn, mx, req, subs, listening, cursor, asked, reqs>>

\* next() is false once the subscriber has been kicked.
ListenerStop ==
  /\ listening /\ held = None /\ conn = "closing"
  /\ listening' = FALSE
  /\ UNCHANGED <<relay, conn, mx, req, subs, cursor, held, client>>

-----------------------------------------------------------------------------
Published == Len(feed) + Cardinality({w \in Writers : pending[w] # None})

\* Other connections, and this client's own EVENT commands, use the relay.
Write ==
  /\ \E w \in Writers :
       \/ Published < MaxFeed /\ \E e \in Events : Relay!Commit(w, e) \/ Relay!Announce(w, e)
       \/ Relay!Broadcast(w)
  /\ UNCHANGED <<conn, mx, req, subs, listening, cursor, held, client>>

Init ==
  /\ Relay!Init
  /\ conn = "closed" /\ mx = FALSE /\ req = NoReq /\ subs = {}
  /\ listening = FALSE /\ cursor = 0 /\ held = None
  /\ got = [id \in SubIds |-> {}] /\ asked = {} /\ reqs = 0

Command ==
  \/ \E id \in SubIds : (\E flts \in Requests : ReqLock(id, flts)) \/ Close(id)
  \/ Connect \/ Disconnect

ReqStep ==
  ReqSnapshot \/ (\E e \in DOMAIN req.todo : ReqCandidate(e)) \/ ReqEose \/ ReqAborted

Listener == ListenerTake \/ ListenerDeliver \/ ListenerStop

Next == Write \/ Command \/ ReqStep \/ Listener \/ Destroy

Spec == Init /\ [][Next]_vars

\* Handlers and the listener go on by themselves, and so does a writer that has
\* committed; the client does as it likes.
FairSpec ==
  /\ Spec
  /\ WF_vars(ReqStep) /\ WF_vars(Listener) /\ WF_vars(Destroy)
  /\ \A w \in Writers : WF_vars(Write /\ Relay!Broadcast(w))

-----------------------------------------------------------------------------
(* Properties.                                                             *)

SubType == [id : SubIds, flts : Requests, base : SUBSET Events]

\* The values the variables range over; _mx is held by on_req only.
TypeOK ==
  /\ stored \subseteq Events /\ feed \in Seq(Events)
  /\ pending \in [Writers -> Events \cup {None}]
  /\ conn \in {"open", "closing", "closed"} /\ mx \in BOOLEAN
  /\ req.pc \in {"idle", "snapshot", "sending"} /\ req.left \in Nat
  /\ req.pc # "idle" => req.sub \in SubType
  /\ DOMAIN req.todo \subseteq Events
  /\ subs \subseteq SubType
  /\ listening \in BOOLEAN /\ cursor \in 0..Len(feed)
  /\ held \in Events \cup {None}
  /\ got \in [SubIds -> SUBSET Events]
  /\ asked \subseteq SubIds /\ reqs \in 0..MaxReqs

\* An event is still to reach the connection: committed and not yet broadcast,
\* broadcast and not yet read, or read and not yet filtered.
Coming(e) ==
  \/ \E w \in Writers : pending[w] = e
  \/ \E i \in (cursor + 1)..Len(feed) : feed[i] = e
  \/ held = e

\* The subscription has to tell of stored event e: the events before EOSE are cut
\* off by a limit, left out when a filter has no criterion, and searched; the later ones
\* are none of it.
MustTell(s, e) ==
  /\ e \in stored
  /\ \/ Limit(s.flts) = NoLimit /\ ~Inverted(s.flts) /\ \E f \in s.flts : Wants(f, e)
     \/ e \notin s.base /\ Matches(s.flts, e)

\* on_req takes its snapshot, answers, and only then enters the subscription, while
\* other threads commit and publish: no event falls between the stored events
\* and the live ones.
NoMissedEvent ==
  conn = "open" => \A s \in subs : \A e \in stored :
    s.id \in asked /\ MustTell(s, e) => e \in got[s.id] \/ Coming(e)

\* on_close erases every subscription of the id, also when REQ was sent twice with
\* it: the client gets no event under an id it has closed, although the listener
\* may have read one before.
QuietAfterClose == \A id \in SubIds \ asked : got[id] = {}

\* What a subscription has to tell it tells, unless it is closed before.
EventuallyTold ==
  \A id \in SubIds, e \in Events :
    (\E s \in subs : s.id = id /\ MustTell(s, e))
      ~> (e \in got[id] \/ id \notin asked \/ conn # "open" \/ e \notin stored)

\* client_main, waiting for a listener that may wait for _mx, always ends.
HangUpEnds == conn = "closing" ~> conn = "closed"

-----------------------------------------------------------------------------
(* The parts of the inductive invariant behind NoMissedEvent.              *)

\* _mx is held exactly while on_req runs; what is asked for is known to be.
Requesting ==
  /\ mx = (req.pc # "idle")
  /\ req.pc # "idle" => conn = "open" /\ req.sub.id \in asked
  /\ req.pc = "snapshot" => req.left = Limit(req.sub.flts)
  /\ \A s \in subs : s.id \in asked
  /\ conn = "closed" => subs = {}

\* While on_req sends, each event the new subscription has to tell of was sent, is
\* still among the candidates, or is coming; without a limit none is cut off.
Answering ==
  req.pc = "sending" =>
    /\ DOMAIN req.todo \subseteq req.sub.base
    /\ \A e \in stored : MustTell(req.sub, e) =>
         e \in got[req.sub.id] \/ e \in DOMAIN req.todo \/ Coming(e)
    /\ Limit(req.sub.flts) = NoLimit => req.left > Cardinality(DOMAIN req.todo)

SubsInv == Requesting /\ Answering /\ NoMissedEvent /\ QuietAfterClose
=============================================================================
