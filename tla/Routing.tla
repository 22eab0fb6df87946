------------------------------ MODULE Routing ------------------------------
(***************************************************************************)
(* Who is on which relay: the rows of RoutingIndexFn for the events that   *)
(* are stored, and the two reports the handler of /routing makes of them,  *)
(* App::get_known_relays and App::get_users_on_relay.  A URL is the        *)
(* sequence of its scheme, its slashes and what is between them.           *)
(***************************************************************************)
EXTENDS Integers, SequencesExt, FiniteSetsExt

CONSTANTS RoutedEvents, \* [kind, author, depth, ptags, rtags, contacts]
          DepthMax      \* 255: the greatest unsigned char

ASSUME RoutingAssumption ==
  \A e \in RoutedEvents :
    e.depth \in 0..DepthMax /\ \A t \in ToSet(e.rtags) : t.url \in Seq(STRING)

VARIABLE routed \* the stored ones

NoUrl == <<>>

-----------------------------------------------------------------------------
(* routing_imp.h.                                                          *)

IsRelay(url) == Len(url) > 2 /\ SubSeq(url, 1, 3) \in {<<s, "/", "/">> : s \in {"ws:", "wss:"}}

\* Faulty variant: the slash behind the host stays.
adjust_relay_url_Slash(url) == IF IsRelay(url) THEN url ELSE NoUrl

\* A URL that ends with the first slash of its path loses it.
adjust_relay_url(url) ==
  IF ~IsRelay(url) THEN NoUrl
  ELSE IF SelectInSubSeq(url, 4, Len(url), LAMBDA c : c = "/") = Len(url) THEN Front(url)
  ELSE url

Row(relay, user, ev) == [relay |-> relay, user |-> user, depth |-> ev.depth]

\* p tags of a whole public key, with the relay they name, or none.
FollowRows(ev) ==
  {Row(IF t.more = <<>> THEN NoUrl ELSE adjust_relay_url(t.more[1]), t.user, ev) :
     t \in {x \in ToSet(ev.ptags) : x.whole}}

\* The relays a contact list's content marks as written to.
WriteRows(ev) ==
  {Row(adjust_relay_url(url), ev.author, ev) :
     url \in {u \in DOMAIN ev.contacts : ev.contacts[u] /\ adjust_relay_url(u) # NoUrl}}

ListRows(ev) ==
  {Row(adjust_relay_url(t.url), ev.author, ev) :
     t \in {x \in ToSet(ev.rtags) :
              /\ ~(x.more # <<>> /\ x.more[1] = "read")
              /\ adjust_relay_url(x.url) # NoUrl}}

RoutingRows(ev) ==
  CASE ev.kind \in {"note", "reaction"} -> FollowRows(ev)
    [] ev.kind = "contacts" -> FollowRows(ev) \cup WriteRows(ev)
    [] ev.kind = "relays" -> ListRows(ev)
    [] OTHER -> {}

-----------------------------------------------------------------------------
(* app.cpp.                                                                *)

_index_routing == UNION {RoutingRows(ev) : ev \in routed}

aggrDepth(rows) == Min({r.depth : r \in rows} \cup {DepthMax})

get_known_relays ==
  [relay \in {r.relay : r \in _index_routing} |->
     aggrDepth({r \in _index_routing : r.relay = relay})]

get_users_on_relay(relay) ==
  LET here == {r \in _index_routing : r.relay = relay}
  IN [user \in {r.user : r \in here} |-> aggrDepth({r \in here : r.user = user})]

-----------------------------------------------------------------------------
RoutingInit == routed = {}

StoreRouted(ev) == ev \notin routed /\ routed' = routed \cup {ev}
DropRouted(ev) == ev \in routed /\ routed' = routed \ {ev}

MoreRouted == \E ev \in RoutedEvents : StoreRouted(ev) \/ DropRouted(ev)

-----------------------------------------------------------------------------
\* adjust_relay_url and two users' relay lists: if one writes to a relay's root with a slash
\* behind the host and one without, they are on one relay.
SlashIsOneRelay ==
  LET Written(ev) == IF ev.kind = "relays" THEN {t.url : t \in {x \in ToSet(ev.rtags) : x.more = <<>>}} ELSE {}
      IsRoot(url) == Len(url) = 4 /\ IsRelay(url) /\ url[4] # "/"
  IN \A a, b \in routed : \A url \in Written(a) :
       IsRoot(url) /\ Append(url, "/") \in Written(b) =>
         \E r \in DOMAIN get_known_relays : {a.author, b.author} \subseteq DOMAIN get_users_on_relay(r)
=============================================================================
