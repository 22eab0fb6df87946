------------------------------ MODULE Whitelist ------------------------------
(***************************************************************************)
(* Who may post: the karma of every pubkey (WhiteListIndexFn, an aggregate *)
(* that follows the documents), the check made for each event in           *)
(* on_event_generic, and the commit that comes later, after other          *)
(* connections had their turn.  Two documents of one replaceable slot, and *)
(* the races about them, are the business of RelayStore: here a commit     *)
(* looks the slot up and replaces it in one step.                          *)
(***************************************************************************)
EXTENDS Integers, FiniteSets

CONSTANTS Users, None,
          Posts,     \* events: [author, kind, p, at]
          Conns,
          Wrap,      \* unsigned int counts modulo Wrap
          MaxPosts   \* bound on admitted events

HomeKinds == {"Metadata", "Note", "Contacts"}      \* below Encrypted_Direct_Messages
Messages == {"DirectMessage", "GiftWrap"}
Replaceables == {"Metadata", "Contacts", "MuteList"}
Kinds == HomeKinds \cup Messages \cup Replaceables \cup {"Reaction"}

Counters == {"followers", "mutes", "mentions", "directmsgs"}

ASSUME WhitelistAssumption ==
  /\ None \notin Users
  /\ Posts \subseteq [author : Users, kind : Kinds, p : SUBSET Users, at : Nat]
  /\ \A e \in Posts : e.kind \in Messages => Cardinality(e.p) = 1
  /\ Wrap \in Nat /\ Wrap > 0

VARIABLES
  stored,    \* documents; counted (history): its p tags went into the karma
  home,      \* pubkeys whose karma has local set
  known,     \* pubkeys that have a karma record
  count,     \* the four counters of each pubkey
  emptyDb,   \* _empty_database
  auth,      \* the pubkey each connection has proved, or None
  job,       \* what each connection is about to commit, and why it may
  posted,    \* history: authors of all events of HomeKinds ever stored
  skewed,    \* history: pubkeys an uncounted document gave up a count for
  admitted   \* number of events admitted

karma == <<home, known, count>>
history == <<posted, skewed>>
vars == <<stored, karma, emptyDb, auth, job, history, admitted>>

Reasons == {"trusted", "empty", "score", "target"}
Docs == [ev : Posts, trusted : BOOLEAN, counted : BOOLEAN]
NoJob == [why |-> "none"]
Jobs == [why : Reasons, ev : Posts, trusted : BOOLEAN, deletes : BOOLEAN]

TypeOK ==
  /\ stored \subseteq Docs
  /\ home \subseteq known /\ known \subseteq Users
  /\ count \in [Users -> [Counters -> 0..(Wrap - 1)]]
  /\ emptyDb \in BOOLEAN
  /\ auth \in [Conns -> Users \cup {None}]
  /\ job \in [Conns -> Jobs \cup {NoJob}]
  /\ posted \subseteq Users /\ skewed \subseteq Users

Init ==
  /\ stored = {}
  /\ home = {} /\ known = {}
  /\ count = [u \in Users |-> [f \in Counters |-> 0]]
  /\ emptyDb = TRUE
  /\ auth = [c \in Conns |-> None]
  /\ job = [c \in Conns |-> NoJob]
  /\ posted = {} /\ skewed = {}
  /\ admitted = 0

-----------------------------------------------------------------------------
(* Karma: get_score and the counters a document works on.                  *)

Least(a, b) == IF a < b THEN a ELSE b

\* The counters are unsigned int, and so is the sum that is returned as int.
Unsigned(n) == n % Wrap

Signed(n) == IF Unsigned(n) < Wrap \div 2 THEN Unsigned(n) ELSE Unsigned(n) - Wrap

\* Faulty variant: a mute list speaks for the muted.
get_score_MutesCount(u) ==
  Signed((IF u \in home THEN 2 ELSE 0) + Least(2, count[u]["mentions"])
         + Least(2, count[u]["directmsgs"]) + count[u]["followers"] + count[u]["mutes"])

get_score(u) ==
  Signed((IF u \in home THEN 2 ELSE 0) + Least(2, count[u]["mentions"])
         + Least(2, count[u]["directmsgs"]) + count[u]["followers"] - count[u]["mutes"])

\* The counter a document works on, of every pubkey it tags with p.
Counter(d) ==
  CASE d.ev.kind = "Note" -> "mentions"
    [] d.ev.kind = "Contacts" -> "followers"
    [] d.ev.kind = "DirectMessage" -> "directmsgs"
    [] d.ev.kind = "GiftWrap" /\ d.trusted -> "directmsgs"
    [] d.ev.kind = "MuteList" -> "mutes"
    [] OTHER -> "none"

\* The function goes on to the counters for a home user, as of now; an event
\* of HomeKinds makes its author one first.
Counts(e) == e.kind \in HomeKinds \/ e.author \in home

\* Faulty variant: replacing or deleting a document takes nothing back.
TakenBack_Nothing(gone, u, f) == 0

\* The erasing run takes the documents of gone back, where a record exists.
TakenBack(gone, u, f) ==
  Cardinality({d \in gone : Counter(d) = f /\ Counts(d.ev) /\ u \in d.ev.p \cap known})

\* The inserting run adds one.
Added(new, u, f) ==
  Cardinality({d \in new : Counter(d) = f /\ Counts(d.ev) /\ u \in d.ev.p})

\* The karma after a batch that removes the documents of gone and adds those of
\* new (at most one each): counters are unsigned, and records are never erased.
UpdateKarma(gone, new) ==
  LET authors == {d.ev.author : d \in {n \in new : n.ev.kind \in HomeKinds}}
      tagged == UNION {d.ev.p : d \in {n \in new : Counts(n.ev) /\ Counter(n) # "none"}}
  IN /\ home' = home \cup authors
     /\ known' = known \cup authors \cup tagged
     /\ count' = [u \in Users |-> [f \in Counters |->
                    Unsigned(count[u][f] - TakenBack(gone, u, f) + Added(new, u, f))]]
     /\ posted' = posted \cup authors
     /\ skewed' = skewed \cup UNION {d.ev.p : d \in {g \in gone : Counts(g.ev) /\ ~g.counted}}

-----------------------------------------------------------------------------
(* A connection: AUTH, admission of an event, commit, end.                 *)

\* process_auth with a valid answer to the challenge.
Authenticate(c, u) ==
  /\ job[c] = NoJob
  /\ auth' = [auth EXCEPT ![c] = u]
  /\ UNCHANGED <<stored, karma, emptyDb, job, history, admitted>>

\* Faulty variant: _empty_database is not looked up again.
IsEmpty_Cached == emptyDb

IsEmpty == emptyDb /\ known = {}

\* Why on_event_generic lets the event in; none if it does not.
Reason(c, e, deletes) ==
  CASE auth[c] \in home -> "trusted"
    [] IsEmpty -> "empty"
    [] e.author \in known /\ get_score(e.author) > 0 -> "score"
    [] ~deletes /\ e.kind \in Messages /\ e.p \subseteq home -> "target"
    [] OTHER -> "none"

\* check_whitelist keeps what it found in _empty_database.
LookAtDatabase(c) == emptyDb' = IF auth[c] \in home THEN emptyDb ELSE IsEmpty

\* Event e, or (deletes) the deletion of e by its author, passes the checks.
Admit(c, e, deletes) ==
  /\ job[c] = NoJob /\ admitted < MaxPosts
  /\ ~deletes => \A d \in stored : d.ev # e
  /\ Reason(c, e, deletes) # "none"
  /\ job' = [job EXCEPT ![c] =
               [why |-> Reason(c, e, deletes), ev |-> e,
                trusted |-> auth[c] \in home, deletes |-> deletes]]
  /\ admitted' = admitted + 1
  /\ LookAtDatabase(c)
  /\ UNCHANGED <<stored, karma, auth, history>>

\* Not invited, or the target user is not found.
Block(c, e, deletes) ==
  /\ job[c] = NoJob
  /\ Reason(c, e, deletes) = "none"
  /\ LookAtDatabase(c)
  /\ UNCHANGED <<stored, karma, auth, job, history, admitted>>

Slot(e) ==
  {d \in stored : e.kind \in Replaceables /\ d.ev.kind = e.kind /\ d.ev.author = e.author}

\* doc_to_replace: only a newer version is kept.  Any other event is refused if it
\* is stored already (the unique id); a version that is, is replaced by itself.
Obsolete(e) ==
  IF e.kind \in Replaceables
  THEN \E d \in Slot(e) : d.ev.at > e.at
  ELSE \E d \in stored : d.ev = e

Publish(c) ==
  LET e == job[c].ev
      doc == [ev |-> e, trusted |-> job[c].trusted, counted |-> Counts(e)]
  IN /\ job[c] # NoJob /\ ~job[c].deletes
     /\ \/ /\ Obsolete(e)
           /\ UNCHANGED <<stored, karma, history>>
        \/ /\ ~Obsolete(e)
           /\ stored' = (stored \ Slot(e)) \cup {doc}
           /\ UpdateKarma(Slot(e), {doc})
     /\ job' = [job EXCEPT ![c] = NoJob]
     /\ UNCHANGED <<emptyDb, auth, admitted>>

\* The deletion takes the place of its target; it counts for nobody.
Delete(c) ==
  LET gone == {d \in stored : d.ev = job[c].ev}
  IN /\ job[c] # NoJob /\ job[c].deletes
     /\ stored' = stored \ gone
     /\ UpdateKarma(gone, {})
     /\ job' = [job EXCEPT ![c] = NoJob]
     /\ UNCHANGED <<emptyDb, auth, admitted>>

Disconnect(c) ==
  /\ job[c] = NoJob
  /\ auth' = [auth EXCEPT ![c] = None]
  /\ UNCHANGED <<stored, karma, emptyDb, job, history, admitted>>

\* The process is started again over its database.
Restart ==
  /\ emptyDb' = TRUE
  /\ auth' = [c \in Conns |-> None]
  /\ job' = [c \in Conns |-> NoJob]
  /\ UNCHANGED <<stored, karma, history, admitted>>

Step(c) ==
  \/ \E u \in Users : Authenticate(c, u)
  \/ \E e \in Posts, deletes \in BOOLEAN : Admit(c, e, deletes) \/ Block(c, e, deletes)
  \/ Publish(c)
  \/ Delete(c)
  \/ Disconnect(c)

Next == (\E c \in Conns : Step(c)) \/ Restart

Spec == Init /\ [][Next]_vars

-----------------------------------------------------------------------------
(* What the whitelist promises.                                            *)

\* How many stored documents spoke to counter f of u.
Spoken(u, f) == Cardinality({d \in stored : d.counted /\ Counter(d) = f /\ u \in d.ev.p})

\* The counters of WhiteListIndexFn say what the stored events say, although it
\* looks at whether an author is a home user once when an event is stored and
\* again when it is removed: except for the mutes and messages of a pubkey that
\* lost a count it never had, because the author became a home user meanwhile.
CountersExact ==
  \A u \in Users, f \in Counters :
    f \in {"followers", "mentions"} \/ u \notin skewed
      => count[u][f] = Unsigned(Spoken(u, f))

Admits(c, why) == job[c] = NoJob /\ job'[c] # NoJob /\ job'[c].why = why

\* A home user, or one a stored event of a home user follows, mentions or
\* writes to.
Invited(u) ==
  \/ u \in home
  \/ \E d \in stored : /\ d.ev.author \in home /\ u \in d.ev.p
                       /\ Counter(d) \in {"followers", "mentions", "directmsgs"}

\* check_whitelist lets nobody in by the score who is not invited, as long as
\* the counters are exact.
InvitedByScore ==
  [][\A c \in Conns : Admits(c, "score") =>
        Invited(job'[c].ev.author) \/ job'[c].ev.author \in skewed]_vars

\* The door that check_whitelist leaves open over an empty database closes with
\* the first event of HomeKinds and stays closed, for every connection and
\* across restarts.
DoorCloses ==
  [][\A c \in Conns : Admits(c, "empty") => posted = {}]_vars

\* conf/nostr_server.conf: "To accept an event, the author must be either
\* followed or mentioned by someone from this relay."
OnlyInvited ==
  [][\A c \in Conns : Admits(c, "score") => Invited(job'[c].ev.author)]_vars
=============================================================================
