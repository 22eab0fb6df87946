---------------------------- MODULE MCSession ----------------------------
(* A small instance of Session: bob is connected, and would like to pass for *)
(* ann, who may become a home user.                                          *)
EXTENDS Session

CONSTANTS ann, bob

MCUsers == {ann, bob}
MCRising == {ann}
MCJudged == {bob}

Event(id, kind) ==
  [id |-> id, author |-> bob, kind |-> kind, genuine |-> TRUE, to |-> ann,
   target |-> "f", work |-> 1, header |-> "fine", content |-> "data"]

note == Event("n", "Note")
forged == [Event("m", "Message") EXCEPT !.genuine = FALSE]
message == Event("m", "Message")
file == Event("f", "File")
big == [Event("b", "File") EXCEPT !.header = "large"]
ephemeral == [Event("e", "Ephemeral") EXCEPT !.work = 0]
deletion == Event("d", "Deletion")

MCEvents == {note, forged, message, file, big, ephemeral, deletion}
MCShared == {file}

Auth(author, genuine, mine) ==
  [author |-> author, genuine |-> genuine, client |-> TRUE, own |-> mine, at |-> 0]

\* An answer to the challenge by each user, and one ann gave to somebody else.
MCAuths == {Auth(bob, TRUE, TRUE), Auth(ann, TRUE, TRUE), Auth(ann, TRUE, FALSE)}

MCContents == {"data", "other"}

Option(pow, readOnly, whitelisting, rate) ==
  [pow |-> pow, read_only |-> readOnly, whitelisting |-> whitelisting,
   event_rate_window |-> rate, event_rate_limit |-> 1]

\* A relay with every rule, and one that is read only and not limited.
MCOptions == {Option(1, FALSE, TRUE, 1), Option(0, TRUE, FALSE, 0)}

MCWindows == {0, 1}
MCLimits == {1}
=============================================================================
