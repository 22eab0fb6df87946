----------------------------- MODULE RelayFeed -----------------------------
(***************************************************************************)
(* The relay as a connection sees it: a set of stored events, and the feed *)
(* of App's event_publish.  A writer (any thread inside App::publish or    *)
(* Peer::event_deletion) first commits an event and broadcasts it later.   *)
(* RelayStore implements this; Subscriptions is built on it.               *)
(***************************************************************************)
EXTENDS RelayEvents

CONSTANTS Writers,  \* threads that publish events
          None      \* no event

VARIABLES stored,   \* events a query can return
          pending,  \* the event each writer has committed and not broadcast
          feed      \* the events broadcast, in order

fvars == <<stored, pending, feed>>

Init ==
  /\ stored = {} /\ feed = <<>>
  /\ pending = [w \in Writers |-> None]

Commit(w, e) ==
  /\ pending[w] = None
  /\ \E gone \in SUBSET stored :
       /\ \A x \in gone : MayReplace(e, x)
       /\ \A x \in stored \ gone : UniqueKeys(x) \cap UniqueKeys(e) = {}
       /\ stored' = (stored \ gone) \cup {e}
  /\ pending' = [pending EXCEPT ![w] = e]
  /\ UNCHANGED feed

\* Ephemeral events are broadcast without being stored.
Announce(w, e) ==
  /\ pending[w] = None /\ e.kind = "ephemeral"
  /\ pending' = [pending EXCEPT ![w] = e]
  /\ UNCHANGED <<stored, feed>>

Broadcast(w) ==
  /\ pending[w] # None
  /\ feed' = Append(feed, pending[w])
  /\ pending' = [pending EXCEPT ![w] = None]
  /\ UNCHANGED stored

\* A restart of the process forgets what was not broadcast yet.
Restart ==
  /\ pending' = [w \in Writers |-> None]
  /\ UNCHANGED <<stored, feed>>

Next ==
  \/ \E w \in Writers, e \in Events : Commit(w, e) \/ Announce(w, e)
  \/ \E w \in Writers : Broadcast(w)
  \/ Restart

Spec == Init /\ [][Next]_fvars
=============================================================================
