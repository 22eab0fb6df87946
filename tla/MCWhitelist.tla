----------------------------- MODULE MCWhitelist -----------------------------
(* A resident and a stranger, for TLC.                                      *)
EXTENDS Whitelist

Post(author, kind, p, at) == [author |-> author, kind |-> kind, p |-> p, at |-> at]

MCUsers == {"ann", "bob"}

\* Ann has two versions of her mute list and of her contacts; Bob sends
\* messages, wrapped and not.
MCPosts == {
  Post("ann", "MuteList", {"bob"}, 1), Post("ann", "MuteList", {}, 2),
  Post("ann", "Note", {"bob"}, 1),
  Post("ann", "Contacts", {"bob"}, 1), Post("ann", "Contacts", {}, 2),
  Post("bob", "DirectMessage", {"ann"}, 1), Post("bob", "GiftWrap", {"ann"}, 1) }
=============================================================================
