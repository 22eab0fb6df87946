------------------------------- MODULE Session -------------------------------
(***************************************************************************)
(* One connection as its client deals with it: Peer::processMessage and    *)
(* processBinaryMessage take one message after another and run it to the   *)
(* end; on_event_generic judges EVENT and FILE by the rate limiter, the    *)
(* proof of work, the key the client has proved by AUTH and the whitelist. *)
(* What the judgement reads belongs to all connections and changes between *)
(* its steps.  How the store replaces and refuses is RelayStore's, how the *)
(* karma moves is Whitelist's business: here both just change.             *)
(***************************************************************************)
EXTENDS RateLimiter, FiniteSets

CONSTANTS Users, None,
          Events,       \* what clients may post
          Auths,        \* the answers to a challenge they may send
          Contents,     \* payloads of binary messages
          Options,      \* ServerOptions
          Shared,       \* events that other connections store and delete, too
          Rising,       \* users that may become home users meanwhile
          Judged,       \* users whose score may change
          Minute,       \* ticks of the clock
          MaxMinutes,   \* age at which a challenge expires
          MaxCommands   \* bound on messages

Kinds == {"Note", "Message", "Ephemeral", "Deletion", "File"}

(***************************************************************************)
(* genuine  the signature verifies      target  id in the first e tag      *)
(* to       pubkey in the first p tag   work    what check_pow counts      *)
(* header   what on_file makes of the tags x, m and size                   *)
(***************************************************************************)
EventType == [id : STRING, author : Users, kind : Kinds, genuine : BOOLEAN,
              to : Users, target : STRING, work : Nat,
              header : {"fine", "malformed", "large"}, content : Contents]

\* own: the answer quotes the nonce of this connection.
AuthType == [author : Users, genuine : BOOLEAN, client : BOOLEAN,
             own : BOOLEAN, at : Nat]

OptionType == [pow : Nat, read_only : BOOLEAN, whitelisting : BOOLEAN,
               event_rate_window : Windows, event_rate_limit : Limits]

ASSUME SessionAssumption ==
  /\ Events \subseteq EventType /\ Auths \subseteq AuthType /\ Shared \subseteq Events
  /\ Rising \subseteq Users /\ Judged \subseteq Users
  /\ Options \subseteq OptionType
  /\ None \notin Users /\ None \notin Events
  /\ Minute \in Nat \ {0} /\ MaxMinutes \in Nat /\ MaxCommands \in Nat

VARIABLES
  opt,         \* _options
  home,        \* is_home_user
  welcome,     \* check_whitelist lets them in
  stored,      \* events in the store
  authent, auth_pubkey,
  fileEvent,   \* _file_event: the announced event, and whether it is trusted
  pc, cmd,     \* where the handler is, and its locals
  replies,     \* number of OKs sent for the message in hand
  due,         \* history: the message in hand asks for an OK
  offered,     \* history: the last announcement answered "continue"
  proved,      \* history: keys proved over this connection's nonce
  welcomed,    \* history: keys that were ever welcome
  steady,      \* history: the clock was never set back
  posts,       \* history, if there is a limit and while the clock is steady: when
               \* what it stored or published was sent
  taken

rules == opt
world == <<home, welcome, welcomed, stored>>
client == <<authent, auth_pubkey, proved>>
upload == <<fileEvent, offered>>
place == <<pc, cmd, replies, due>>
vars == <<limiterVars, rules, world, client, upload, place, steady, posts, taken>>

Commands == {"EVENT", "FILE", "binary"}
NoCmd == [name |-> "none"]
Cmd(name, e, trusted) == [name |-> name, ev |-> e, trusted |-> trusted, at |-> now]
Cmds == [name : Commands, ev : Events, trusted : BOOLEAN, at : Nat]
Announcements == [ev : Events, trusted : BOOLEAN]

TypeOK ==
  /\ LimiterTypeOK
  /\ opt \in Options
  /\ home \subseteq Users /\ welcome \subseteq welcomed /\ welcomed \subseteq Users
  /\ stored \subseteq Events
  /\ authent \in BOOLEAN /\ auth_pubkey \in Users \cup {None}
  /\ fileEvent \in Announcements \cup {None}
  /\ pc \in {"idle", "judge", "whitelist", "verified", "upload", "closed"}
  /\ IF pc \in {"idle", "closed"} THEN cmd = NoCmd ELSE cmd \in Cmds
  /\ replies \in Nat /\ due \in BOOLEAN
  /\ offered \in Events \cup {None}
  /\ proved \subseteq Users /\ steady \in BOOLEAN
  /\ posts \in Seq(Nat)
  /\ taken \in 0..MaxCommands

Init ==
  /\ LimiterInit
  /\ opt \in Options
  /\ window = opt.event_rate_window /\ limit = opt.event_rate_limit
  /\ home = {} /\ welcome = {} /\ welcomed = {} /\ stored = {}
  /\ authent = FALSE /\ auth_pubkey = None /\ proved = {}
  /\ fileEvent = None /\ offered = None
  /\ pc = "idle" /\ cmd = NoCmd /\ replies = 0 /\ due = FALSE
  /\ steady = TRUE /\ posts = <<>> /\ taken = 0

-----------------------------------------------------------------------------
(* Pieces of the handlers.                                                 *)

\* client_main has read a message; EVENT, FILE, AUTH with an id and data for an
\* announcement ask for an OK.
Take(asks) ==
  /\ pc = "idle" /\ taken < MaxCommands
  /\ taken' = taken + 1
  /\ due' = asks

\* The message is answered at once.
Return == replies' = 1 /\ UNCHANGED <<pc, cmd>>

\* The handler goes on with its locals c.
Continue(where, c) == pc' = where /\ cmd' = c

\* The handler answers and ends.
Finish ==
  /\ replies' = replies + 1
  /\ Continue("idle", NoCmd)
  /\ UNCHANGED <<limiterVars, rules, client, due, steady, taken>>

\* Of these PostsBounded speaks: the event in hand reaches the store or the subscribers.
Post == posts' = IF window # 0 /\ steady THEN Append(posts, cmd.at) ELSE posts

-----------------------------------------------------------------------------
(* EVENT and FILE: on_event_generic up to the limiter and the work.        *)

\* Only EVENT asks for the id (no_special_events); FILE goes on.
Known(name, e) == name = "EVENT" /\ \E s \in stored : s.id = e.id

\* fromStructured refuses the text before the limiter is asked.  The id is read
\* inside the try, so an event without one is answered with an OK, too.
PostMalformed ==
  /\ Take(TRUE)
  /\ Return
  /\ UNCHANGED <<limiterVars, rules, world, client, upload, steady, posts>>

PostDuplicate(name, e) ==
  /\ Take(TRUE)
  /\ Known(name, e)
  /\ Return
  /\ UNCHANGED <<limiterVars, rules, world, client, upload, steady, posts>>

PostLimited(name, e) ==
  /\ Take(TRUE)
  /\ ~Known(name, e)
  /\ Refuse
  /\ Return
  /\ UNCHANGED <<rules, world, client, upload, steady, posts>>

\* Too little work costs a grant.
PostGranted(name, e) ==
  /\ Take(TRUE)
  /\ ~Known(name, e)
  /\ Unlimited \/ Grant
  /\ IF e.work < opt.pow
     THEN Return
     ELSE Continue("judge", Cmd(name, e, FALSE)) /\ replies' = 0
  /\ UNCHANGED <<rules, world, client, upload, steady, posts>>

-----------------------------------------------------------------------------
(* The rest of on_event_generic, and what follows for each kind.           *)

\* The test in Judge: an authenticated connection of a home user.
Trusted == authent /\ auth_pubkey \in home

\* Ephemeral events are for EVENT only, everything else for a writable relay.
Unacceptable ==
  \/ ~cmd.ev.genuine
  \/ IF cmd.ev.kind = "Ephemeral" THEN cmd.name = "FILE" ELSE opt.read_only

JudgeRefuses ==
  /\ pc = "judge"
  /\ Unacceptable
  /\ Finish
  /\ UNCHANGED <<world, upload, posts>>

\* Published to whoever is connected, whitelisted or not; never stored.
JudgeEphemeral ==
  /\ pc = "judge"
  /\ ~Unacceptable /\ cmd.ev.kind = "Ephemeral"
  /\ Post
  /\ Finish
  /\ UNCHANGED <<world, upload>>

JudgePasses ==
  /\ pc = "judge"
  /\ ~Unacceptable /\ cmd.ev.kind # "Ephemeral"
  /\ Continue("whitelist", [cmd EXCEPT !.trusted = Trusted])
  /\ UNCHANGED <<limiterVars, rules, world, client, upload, replies, due, steady, posts, taken>>

\* Faulty variant: the exception for messages looks at the sender.
Invited_BySender ==
  \/ cmd.ev.author \in welcome
  \/ cmd.ev.kind = "Message"

\* check_whitelist, or a message to a home user.
Invited ==
  \/ cmd.ev.author \in welcome
  \/ cmd.ev.kind = "Message" /\ cmd.ev.to \in home

Admitted == ~opt.whitelisting \/ cmd.trusted \/ Invited

WhitelistBlocks ==
  /\ pc = "whitelist"
  /\ ~Admitted
  /\ Finish
  /\ UNCHANGED <<world, upload, posts>>

WhitelistPasses ==
  /\ pc = "whitelist"
  /\ Admitted
  /\ Continue("verified", cmd)
  /\ UNCHANGED <<limiterVars, rules, world, client, upload, replies, due, steady, posts, taken>>

\* A note makes its author a home user.
AuthorsOf(e) == IF e.kind = "Note" THEN {e.author} ELSE {}

Posting == pc = "verified" /\ cmd.name = "EVENT"

Publish ==
  /\ Posting /\ cmd.ev.kind # "Deletion"
  /\ \A s \in stored : s.id # cmd.ev.id
  /\ stored' = stored \cup {cmd.ev}
  /\ home' = home \cup AuthorsOf(cmd.ev)
  /\ Post
  /\ Finish
  /\ UNCHANGED <<welcome, welcomed, upload>>

\* App::publish finds a newer version or a unique index refuses (OK true), or
\* the database fails (OK false).
PublishNothing ==
  /\ Posting /\ cmd.ev.kind # "Deletion"
  /\ Finish
  /\ UNCHANGED <<world, upload, posts>>

Target == {s \in stored : s.id = cmd.ev.target}

\* event_deletion: the deletion takes the place of its target.
DeletionReplaces ==
  /\ Posting /\ cmd.ev.kind = "Deletion"
  /\ Target # {} /\ \A s \in Target : s.author = cmd.ev.author
  /\ stored' = (stored \ Target) \cup {cmd.ev}
  /\ Post
  /\ Finish
  /\ UNCHANGED <<home, welcome, welcomed, upload>>

\* No target is well, somebody else's is not.
DeletionNothing ==
  /\ Posting /\ cmd.ev.kind = "Deletion"
  /\ \A s \in Target : s.author # cmd.ev.author
  /\ Finish
  /\ UNCHANGED <<world, upload, posts>>

Announcing == pc = "verified" /\ cmd.name = "FILE"

Acceptable(e) == e.kind = "File" /\ e.header = "fine"

\* Faulty variant: the announced event is kept before its size is looked at.
FileEventAfterRefusal_Kept ==
  IF cmd.ev.header = "large" THEN [ev |-> cmd.ev, trusted |-> cmd.trusted] ELSE fileEvent

\* A refused announcement leaves an earlier one pending.
FileEventAfterRefusal == fileEvent

FileRefused ==
  /\ Announcing
  /\ ~Acceptable(cmd.ev)
  /\ fileEvent' = FileEventAfterRefusal
  /\ Finish
  /\ UNCHANGED <<world, offered, posts>>

FileContinue ==
  /\ Announcing
  /\ Acceptable(cmd.ev)
  /\ fileEvent' = [ev |-> cmd.ev, trusted |-> cmd.trusted]
  /\ offered' = cmd.ev
  /\ Finish
  /\ UNCHANGED <<world, posts>>

-----------------------------------------------------------------------------
(* Binary messages: processBinaryMessage.                                  *)

\* Without an announcement there is a notice and no OK.
BinaryUnsupported ==
  /\ fileEvent = None
  /\ Take(FALSE)
  /\ replies' = 0
  /\ UNCHANGED <<limiterVars, rules, world, client, upload, pc, cmd, steady, posts>>

\* A message the client sends for the announcement that was accepted last.
TakeBinary == fileEvent # None /\ Take(TRUE)

BinaryMismatch(data) ==
  /\ TakeBinary
  /\ data # fileEvent.ev.content
  /\ Return
  /\ UNCHANGED <<limiterVars, rules, world, client, upload, steady, posts>>

FileStored == \E s \in stored : s.id = fileEvent.ev.id

\* The announcement stays pending.
BinaryDuplicate(data) ==
  /\ TakeBinary
  /\ data = fileEvent.ev.content /\ FileStored
  /\ Return
  /\ UNCHANGED <<limiterVars, rules, world, client, upload, steady, posts>>

\* Faulty variant: a duplicate is reported and uploaded all the same.
BinaryMatched_Anyway(data) ==
  /\ TakeBinary
  /\ data = fileEvent.ev.content
  /\ Continue("upload", Cmd("binary", fileEvent.ev, fileEvent.trusted))
  /\ replies' = IF FileStored THEN 1 ELSE 0
  /\ UNCHANGED <<limiterVars, rules, world, client, upload, steady, posts>>

BinaryMatched(data) ==
  /\ TakeBinary
  /\ data = fileEvent.ev.content /\ ~FileStored
  /\ Continue("upload", Cmd("binary", fileEvent.ev, fileEvent.trusted))
  /\ replies' = 0
  /\ UNCHANGED <<limiterVars, rules, world, client, upload, steady, posts>>

\* Faulty variant: the announcement serves for more than one upload.
FileEventAfterUpload_Kept == fileEvent

FileEventAfterUpload == None

Upload ==
  /\ pc = "upload"
  /\ \A s \in stored : s.id # cmd.ev.id
  /\ stored' = stored \cup {cmd.ev}
  /\ Post
  /\ fileEvent' = FileEventAfterUpload
  /\ Finish
  /\ UNCHANGED <<home, welcome, welcomed, offered>>

\* The event came from elsewhere meanwhile, or the database fails: the
\* exception is answered, thrown on and ends client_main.
UploadFails ==
  /\ pc = "upload"
  /\ replies' = replies + 1
  /\ fileEvent' = None
  /\ Continue("closed", NoCmd)
  /\ UNCHANGED <<limiterVars, rules, world, client, offered, due, steady, posts, taken>>

-----------------------------------------------------------------------------
(* AUTH, the end, and everybody else.                                      *)

\* The age is cut to whole minutes; a challenge from the future has none.
Expired(a) == (now - a.at) \div Minute > MaxMinutes

Proves(a) == a.genuine /\ a.client /\ ~Expired(a) /\ a.own

\* Faulty variant: the key is taken over before the challenge is compared.
KeyAfterRefusal_Taken(a) == IF a.genuine THEN a.author ELSE auth_pubkey

\* A refused AUTH leaves the connection with the key it has.
KeyAfterRefusal(a) == auth_pubkey

process_auth(a) ==
  /\ Take(TRUE)
  /\ IF Proves(a)
     THEN authent' = TRUE /\ auth_pubkey' = a.author /\ proved' = proved \cup {a.author}
     ELSE auth_pubkey' = KeyAfterRefusal(a) /\ UNCHANGED <<authent, proved>>
  /\ Return
  /\ UNCHANGED <<limiterVars, rules, world, upload, steady, posts>>

\* The id is read before the try: what is no text is left to the catch of
\* processMessage, which sends a notice and no OK.
AuthWithoutId ==
  /\ Take(FALSE)
  /\ replies' = 0
  /\ UNCHANGED <<limiterVars, rules, world, client, upload, pc, cmd, steady, posts>>

Close ==
  /\ pc = "idle"
  /\ pc' = "closed"
  /\ UNCHANGED <<limiterVars, rules, world, client, upload, cmd, replies, due, steady, posts, taken>>

\* The clock goes on or is set back.
Time ==
  /\ pc # "closed"
  /\ Clock
  /\ steady' = (steady /\ now' > now)
  /\ posts' = IF steady' THEN posts ELSE <<>>
  /\ UNCHANGED <<rules, world, client, upload, place, taken>>

\* Another connection posts u's first note, or changes the score of u.
OthersJudged(u) ==
  /\ pc # "closed"
  /\ \/ u \in Rising \ home /\ home' = home \cup {u} /\ UNCHANGED <<welcome, welcomed>>
     \/ u \in Judged \ welcome /\ welcome' = welcome \cup {u} /\ welcomed' = welcomed \cup {u}
        /\ UNCHANGED home
     \/ u \in welcome /\ welcome' = welcome \ {u} /\ UNCHANGED <<home, welcomed>>
  /\ UNCHANGED <<limiterVars, rules, stored, client, upload, place, steady, posts, taken>>

\* Another connection stores e or has it deleted.
OthersPost(e) ==
  /\ pc # "closed"
  /\ \/ e \in stored /\ stored' = stored \ {e}
     \/ /\ e.genuine /\ \A s \in stored : s.id # e.id
        /\ stored' = stored \cup {e}
  /\ UNCHANGED <<limiterVars, rules, home, welcome, welcomed, client, upload, place, steady, posts, taken>>

Message ==
  \/ \E name \in {"EVENT", "FILE"}, e \in Events :
       PostDuplicate(name, e) \/ PostLimited(name, e) \/ PostGranted(name, e)
  \/ PostMalformed \/ BinaryUnsupported \/ AuthWithoutId
  \/ \E data \in Contents :
       BinaryMismatch(data) \/ BinaryDuplicate(data) \/ BinaryMatched(data)
  \/ \E a \in Auths : process_auth(a)

Handler ==
  \/ JudgeRefuses \/ JudgeEphemeral \/ JudgePasses
  \/ WhitelistBlocks \/ WhitelistPasses
  \/ Publish \/ PublishNothing \/ DeletionReplaces \/ DeletionNothing
  \/ FileRefused \/ FileContinue
  \/ Upload \/ UploadFails

Others ==
  \/ \E u \in Users : OthersJudged(u)
  \/ \E e \in Shared : OthersPost(e)

Next == Message \/ Handler \/ Close \/ Time \/ Others

Spec == Init /\ [][Next]_vars

-----------------------------------------------------------------------------
(* What the client and the operator are promised.                          *)

\* The limiter judges messages, not what comes of them: an upload takes effect
\* long after its grant.  As _file_event holds one announcement, that makes no
\* more than one event above the limit: limit + 2 events that a connection gets
\* stored or published were sent over more than a window, on a steady clock.
PostsBounded ==
  \A i, k \in 1..Len(posts) :
    k = i + limit + 1 => posts[k] - posts[i] > window

Posts == Publish \/ DeletionReplaces \/ JudgeEphemeral \/ Upload

\* Only on a connection whose client has proved a home user's key to this very
\* connection does on_event_generic trust an event, whatever AUTHs were tried
\* since, and however late an announced file is sent.
TrustIsProved ==
  [][Posts /\ cmd.trusted => proved \cap home # {}]_vars

\* What a binary message stores is the event whose announcement on_file answered
\* last with "continue", over its own content, whatever was refused since.
UploadIsTheAnnounced ==
  [][Posts /\ cmd.name = "binary" => cmd.ev = offered]_vars

\* Each EVENT, each FILE, each AUTH whose id is a text and each binary message
\* after an announcement is answered with exactly one OK, when the handler ends,
\* also when processBinaryMessage throws.  No other message gets one: neither an
\* AUTH without an id nor data nobody announced.
OneAnswer == replies = IF pc \in {"idle", "closed"} /\ due THEN 1 ELSE 0

\* Nothing on_event_generic lets through was forged or cheap; what a read-only
\* or whitelisting relay stores, by EVENT or by FILE, was let in by a rule.
OnlyAdmitted ==
  [][Posts =>
       /\ cmd.ev.genuine /\ cmd.ev.work >= opt.pow
       /\ \/ cmd.ev.kind = "Ephemeral"
          \/ /\ ~opt.read_only
             /\ opt.whitelisting =>
                  \/ cmd.trusted \/ cmd.ev.author \in welcomed
                  \/ cmd.ev.kind = "Message" /\ cmd.ev.to \in home]_vars
=============================================================================
