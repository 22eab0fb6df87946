---------------------------- MODULE CodecsProofs ----------------------------
(***************************************************************************)
(* The codecs, for texts, tables and events of any length: first induction *)
(* and recursion, which folds and flattened sequences are made of, then    *)
(* each codec on its own.                                                  *)
(***************************************************************************)
EXTENDS Codecs, TLAPS, SequenceTheorems, FiniteSetTheorems, WellFoundedInduction

-----------------------------------------------------------------------------
(* Induction, minima, maxima.                                              *)

LEMMA LeastNatural ==
  ASSUME NEW S \in SUBSET Nat, S # {}
  PROVE  \E m \in S : \A y \in S : m <= y
<1> DEFINE R == {p \in Nat \X Nat : p[1] < p[2]}
<1>1. IsWellFoundedOn(R, Nat)
  BY NatLessThanWellFounded DEF OpToRel
<1> HIDE DEF R
<1>2. PICK m \in S : \A y \in S : ~(<<y, m>> \in R)
  BY <1>1, WFMin
<1>3. ASSUME NEW y \in S PROVE m <= y
  <2>1. <<y, m>> \in Nat \X Nat /\ <<y, m>>[1] = y /\ <<y, m>>[2] = m
    OBVIOUS
  <2>2. ~(y < m)
    BY <1>2, <2>1 DEF R
  <2> QED BY <2>2
<1> QED BY <1>2, <1>3

\* Induction for a set of numbers.
LEMMA AllNaturals ==
  ASSUME NEW S, 0 \in S, \A n \in Nat : n \in S => n + 1 \in S
  PROVE  \A n \in Nat : n \in S
<1> DEFINE Out == {n \in Nat : n \notin S}
<1>1. CASE Out = {}
  BY <1>1
<1>2. CASE Out # {}
  <2>1. Out \in SUBSET Nat
    OBVIOUS
  <2>2. PICK m \in Out : \A y \in Out : m <= y
    BY <1>2, <2>1, LeastNatural
  <2>3. m \in Nat /\ m # 0 /\ m \notin S
    BY <2>2
  <2>4. m - 1 \in Nat /\ m - 1 \notin Out
    BY <2>2, <2>3
  <2>5. (m - 1) + 1 = m
    BY <2>3
  <2> QED BY <2>3, <2>4, <2>5
<1> QED BY <1>1, <1>2

LEMMA MinIs ==
  ASSUME NEW S \in SUBSET Nat, S # {}
  PROVE  Min(S) \in S /\ \A x \in S : Min(S) <= x
BY LeastNatural DEF Min

LEMMA MaxIs ==
  ASSUME NEW n \in Nat, NEW S \in SUBSET (0..n), S # {}
  PROVE  Max(S) \in S /\ \A x \in S : Max(S) >= x
<1> DEFINE T == {n - x : x \in S}
<1>1. \A x \in S : x \in Nat /\ x <= n /\ n - x \in Nat
  OBVIOUS
<1>2. T \in SUBSET Nat /\ T # {}
  BY <1>1
<1>3. PICK m \in T : \A y \in T : m <= y
  BY <1>2, LeastNatural
<1>4. PICK x \in S : m = n - x
  BY <1>3
<1>5. ASSUME NEW y \in S PROVE x >= y
  <2>1. n - x <= n - y
    BY <1>3, <1>4
  <2> QED BY <1>1, <2>1
<1> QED BY <1>4, <1>5 DEF Max

-----------------------------------------------------------------------------
(* Recursion.  f[x \in S] == e stands for a choice of some f = [x \in S |->*)
(* e]; that there is one is proved here once, for folds, whose steps are   *)
(* given as a function.                                                    *)

LEMMA MaxOfSegment ==
  ASSUME NEW m \in Nat, NEW s \in SUBSET (1..(m + 1)), m + 1 \in s
  PROVE  Max(s) = m + 1 /\ s \ {m + 1} \in SUBSET (1..m)
<1>1. \A x \in s : x \in Int /\ x <= m + 1
  OBVIOUS
<1>2. s \in SUBSET (0..(m + 1)) /\ s # {} /\ m + 1 \in Nat
  OBVIOUS
<1>3. Max(s) \in s /\ Max(s) >= m + 1
  BY <1>2, MaxIs
<1>4. Max(s) = m + 1
  <2>1. \A x \in Int : x <= m + 1 /\ x >= m + 1 => x = m + 1
    OBVIOUS
  <2> QED BY <1>1, <1>3, <2>1, Zenon
<1>5. \A x \in s \ {m + 1} : x \in 1..m
  BY <1>1
<1> QED BY <1>4, <1>5

LEMMA SegmentGrows == \A m \in Nat : \A x \in 1..m : x \in 1..(m + 1) /\ x # m + 1
OBVIOUS

\* The segment up to m + 1 is the one up to m, and its maximum.
LEMMA SegmentOf ==
  ASSUME NEW n \in Nat, NEW m \in 0..(n - 1)
  PROVE  /\ 1..(m + 1) \in SUBSET (1..n) /\ 1..(m + 1) # {}
         /\ Max(1..(m + 1)) = m + 1 /\ (1..(m + 1)) \ {m + 1} = 1..m
<1>1. m \in Nat /\ m + 1 \in 1..(m + 1)
  OBVIOUS
<1>2. \A x \in 1..(m + 1) : x \in 1..n
  OBVIOUS
<1>3. Max(1..(m + 1)) = m + 1 /\ (1..(m + 1)) \ {m + 1} \subseteq 1..m
  BY <1>1, MaxOfSegment
<1>4. \A x \in 1..m : x \in 1..(m + 1) /\ x # m + 1
  BY <1>1, SegmentGrows
<1> QED BY <1>1, <1>2, <1>3, <1>4

FoldsSteps(g, b, n, step) ==
  g = [s \in SUBSET (1..n) |-> IF s = {} THEN b ELSE step[<<Max(s), g[s \ {Max(s)}]>>]]

LEMMA FoldExists ==
  ASSUME NEW D, NEW b \in D, NEW n \in Nat, NEW step \in [(1..n) \X D -> D]
  PROVE  \E g \in [SUBSET (1..n) -> D] : FoldsSteps(g, b, n, step)
<1> DEFINE Folds(g, m) ==
             /\ g \in [SUBSET (1..m) -> D]
             /\ \A s \in SUBSET (1..m) :
                  g[s] = IF s = {} THEN b ELSE step[<<Max(s), g[s \ {Max(s)}]>>]
           Can(m) == m <= n => \E g : Folds(g, m)
           S == {m \in Nat : Can(m)}
<1> HIDE DEF Can
<1>1. 0 \in S
  <2>1. \A s \in SUBSET (1..0) : s = {}
    OBVIOUS
  <2>2. Folds([s \in SUBSET (1..0) |-> b], 0)
    BY <2>1
  <2> QED BY <2>2 DEF Can
<1>2. ASSUME NEW m \in Nat, m \in S PROVE m + 1 \in S
  <2> SUFFICES Can(m + 1)
    OBVIOUS
  <2> SUFFICES ASSUME m + 1 <= n PROVE \E g : Folds(g, m + 1)
    BY Zenon DEF Can
  <2>0. m <= n /\ Can(m)
    BY <1>2
  <2>1. PICK g : Folds(g, m)
    BY <2>0 DEF Can
  <2> DEFINE h == [s \in SUBSET (1..(m + 1)) |->
                     IF m + 1 \in s THEN step[<<m + 1, g[s \ {m + 1}]>>] ELSE g[s]]
  <2>2. m + 1 \in 1..n
    OBVIOUS
  <2>3. ASSUME NEW s \in SUBSET (1..(m + 1)), m + 1 \in s
        PROVE  /\ h[s] \in D
               /\ h[s] = IF s = {} THEN b ELSE step[<<Max(s), h[s \ {Max(s)}]>>]
    <3>1. Max(s) = m + 1 /\ s \ {m + 1} \in SUBSET (1..m)
      BY <2>3, MaxOfSegment
    <3>2. s \ {m + 1} \in SUBSET (1..(m + 1)) /\ m + 1 \notin s \ {m + 1}
      OBVIOUS
    <3>3. h[s \ {m + 1}] = g[s \ {m + 1}]
      BY <3>2
    <3>4. h[s] = step[<<m + 1, g[s \ {m + 1}]>>]
      BY <2>3
    <3>5. g[s \ {m + 1}] \in D
      BY <2>1, <3>1
    <3> QED BY <2>2, <2>3, <3>1, <3>3, <3>4, <3>5
  <2>4. ASSUME NEW s \in SUBSET (1..(m + 1)), m + 1 \notin s
        PROVE  /\ h[s] \in D
               /\ h[s] = IF s = {} THEN b ELSE step[<<Max(s), h[s \ {Max(s)}]>>]
    <3>1. s \in SUBSET (1..m)
      BY <2>4
    <3>2. h[s] = g[s]
      BY <2>4
    <3>3. s \ {Max(s)} \in SUBSET (1..m) /\ m + 1 \notin s \ {Max(s)}
      BY <2>4, <3>1
    <3>4. s \ {Max(s)} \in SUBSET (1..(m + 1))
      OBVIOUS
    <3>5. h[s \ {Max(s)}] = g[s \ {Max(s)}]
      BY <3>3, <3>4
    <3> QED BY <2>1, <3>1, <3>2, <3>5
  <2> HIDE DEF h
  <2>5. h \in [SUBSET (1..(m + 1)) -> D]
    <3>1. h = [s \in SUBSET (1..(m + 1)) |-> h[s]]
      BY DEF h
    <3> QED BY <2>3, <2>4, <3>1
  <2>6. Folds(h, m + 1)
    BY <2>3, <2>4, <2>5
  <2> QED BY <2>6
<1>3. Can(n)
  <2> HIDE DEF S
  <2>1. n \in S
    BY <1>1, <1>2, AllNaturals
  <2> QED BY <2>1 DEF S
<1>4. n <= n
  OBVIOUS
<1>5. PICK g : Folds(g, n)
  BY <1>3, <1>4, Zenon DEF Can
<1>6. g = [s \in SUBSET (1..n) |-> g[s]]
  BY <1>5
<1> QED BY <1>5, <1>6 DEF FoldsSteps

-----------------------------------------------------------------------------
(* What the codecs are given.                                              *)

LEMMA AppendGrows ==
  ASSUME NEW S, NEW s \in Seq(S), NEW e \in S, NEW max \in Nat, Len(s) < max
  PROVE  Append(s, e) \in Seq(S) /\ Len(Append(s, e)) <= max
<1>1. Len(s) \in Nat
  BY LenProperties
<1> QED BY <1>1, AppendProperties

\* Every action hands one codec one more character, tag, digit or event of its constants.
THEOREM CodecsTyped == Spec => []CodecsTypeOK
<1>1. Init => CodecsTypeOK
  BY EventCodecsAssumption, FilterTextAssumption
     DEF Init, EventCodecsInit, EventTextInit, FilterTextInit, FullTextInit, RoutingInit, CodecsTypeOK
<1>2. CodecsTypeOK /\ [Next]_codecVars => CodecsTypeOK'
  <2> SUFFICES ASSUME CodecsTypeOK, [Next]_codecVars PROVE CodecsTypeOK'
    OBVIOUS
  <2> USE DEF CodecsTypeOK, eventVars, otherVars, textVars
  <2>1. CASE KeyTextNext /\ UNCHANGED <<eventVars, otherVars>>
    BY <2>1
  <2>2. CASE MoreTags /\ UNCHANGED <<keyVars, otherVars>>
    <3>1. PICK t \in TagNames, c \in Contents : AddTag(t, c)
      BY <2>2 DEF MoreTags
    <3>2. [tag |-> t, content |-> c] \in [tag : TagNames, content : Contents]
      OBVIOUS
    <3> QED BY <2>2, <3>1, <3>2, AppendGrows, EventCodecsAssumption DEF AddTag
  <2>3. CASE MoreDigits /\ UNCHANGED <<keyVars, otherVars>>
    <3>1. PICK d \in Digits \cup {NotHex} : AddDigit(d)
      BY <2>3 DEF MoreDigits
    <3> QED BY <2>3, <3>1, AppendGrows, EventCodecsAssumption DEF AddDigit
  <2>4. CASE MorePosts /\ UNCHANGED <<keyVars, eventVars, hextext, textVars, routed, sensors>>
    BY <2>4 DEF MorePosts, PostJson
  <2>5. CASE MoreHex /\ UNCHANGED <<keyVars, eventVars, posted, textVars, routed, sensors>>
    <3>1. PICK c \in HexChars : TypeHex(c)
      BY <2>5 DEF MoreHex
    <3> QED BY <2>5, <3>1, AppendGrows, FilterTextAssumption DEF TypeHex
  <2>6. CASE MoreText /\ UNCHANGED <<keyVars, eventVars, posted, hextext, routed, sensors>>
    <3>1. PICK c \in Alphabet : TypeContent(c) \/ TypeTitle(c)
      BY <2>6 DEF MoreText
    <3>2. Append(content, c) \in Seq(Alphabet) /\ Append(title, c) \in Seq(Alphabet)
      BY AppendProperties
    <3>3. CASE TypeContent(c)
      BY <2>6, <3>2, <3>3 DEF TypeContent
    <3>4. CASE TypeTitle(c)
      BY <2>6, <3>2, <3>4 DEF TypeTitle
    <3> QED BY <3>1, <3>3, <3>4
  <2>7. CASE MoreRouted /\ UNCHANGED <<keyVars, eventVars, posted, hextext, textVars, sensors>>
    BY <2>7 DEF MoreRouted, StoreRouted, DropRouted
  <2>8. CASE MoreMeasured /\ UNCHANGED <<keyVars, eventVars, posted, hextext, textVars, routed>>
    BY <2>8
  <2>9. CASE UNCHANGED codecVars
    BY <2>9 DEF codecVars
  <2> QED BY <2>1, <2>2, <2>3, <2>4, <2>5, <2>6, <2>7, <2>8, <2>9 DEF Next
<1> QED BY <1>1, <1>2, PTL DEF Spec

-----------------------------------------------------------------------------
(* Routing.                                                                *)

LEMMA AppendAt ==
  ASSUME NEW S, NEW n \in Nat, NEW s \in Seq(S), NEW e \in S, Len(s) = n
  PROVE  /\ Len(Append(s, e)) = n + 1
         /\ Append(s, e)[n + 1] = e
         /\ \A i \in 1..n : Append(s, e)[i] = s[i]
         /\ SubSeq(Append(s, e), 1, n) = s
         /\ \A i \in 1..n : SubSeq(Append(s, e), 1, i) = SubSeq(s, 1, i)
<1>1. <<e>> \in Seq(S) /\ Append(s, e) = s \o <<e>>
  BY AppendIsConcat
<1>2. ASSUME NEW i \in 1..n PROVE SubSeq(s \o <<e>>, 1, i) = SubSeq(s, 1, i)
  <2>1. 1 \in 1..Len(s) /\ i \in 1..Len(s)
    OBVIOUS
  <2> QED BY <1>1, <2>1, SubSeqOfConcat1, Zenon
<1>3. SubSeq(s, 1, n) = s
  BY SubSeqFull
<1>4. SubSeq(s \o <<e>>, 1, n) = SubSeq(s, 1, n)
  <2>1. CASE n = 0
    BY <1>1, <2>1, <1>3, SubSeqEmpty
  <2>2. CASE n # 0
    BY <2>2, <1>2
  <2> QED BY <2>1, <2>2
<1>5. /\ Len(Append(s, e)) = n + 1
      /\ Append(s, e)[n + 1] = e
      /\ \A i \in 1..n : Append(s, e)[i] = s[i]
  BY AppendProperties
<1>6. SubSeq(Append(s, e), 1, n) = s
  BY <1>1, <1>3, <1>4, Zenon
<1>7. \A i \in 1..n : SubSeq(Append(s, e), 1, i) = SubSeq(s, 1, i)
  BY <1>1, <1>2, Zenon
<1> QED BY <1>5, <1>6, <1>7, Zenon

LEMMA OneMore ==
  ASSUME NEW S, NEW s \in Seq(S), NEW e \in S, Len(s) = 4
  PROVE  /\ Len(Append(s, e)) = 5 /\ Append(s, e)[4] = s[4] /\ Append(s, e)[5] = e
         /\ SubSeq(Append(s, e), 1, 3) = SubSeq(s, 1, 3)
         /\ SubSeq(Append(s, e), 1, 4) = s
<1>1. PICK n \in Nat : n = 4
  OBVIOUS
<1>2. /\ Len(Append(s, e)) = n + 1
      /\ Append(s, e)[n + 1] = e
      /\ \A i \in 1..n : Append(s, e)[i] = s[i]
      /\ SubSeq(Append(s, e), 1, n) = s
      /\ \A i \in 1..n : SubSeq(Append(s, e), 1, i) = SubSeq(s, 1, i)
  <2>1. Len(s) = n
    BY <1>1
  <2> QED BY <2>1, AppendAt
<1>3. n + 1 = 5 /\ 4 \in 1..n /\ 3 \in 1..n
  BY <1>1
<1> QED BY <1>1, <1>2, <1>3, Zenon

LEMMA SlashDropped ==
  ASSUME NEW url \in Seq(STRING), Len(url) = 4, IsRelay(url), url[4] # "/"
  PROVE  adjust_relay_url(url) = url /\ adjust_relay_url(Append(url, "/")) = url
<1> DEFINE S == STRING \cup {"/"}
<1>0. url \in Seq(S) /\ "/" \in S
  BY SeqMonotonic
<1> DEFINE longer == Append(url, "/")
<1> HIDE DEF S
<1>1. Len(longer) = 5 /\ longer[5] = "/" /\ longer[4] = url[4]
  BY <1>0, OneMore
<1>2. SubSeq(longer, 1, 3) = SubSeq(url, 1, 3)
  BY <1>0, OneMore
<1>3. SubSeq(longer, 1, 4) = url
  BY <1>0, OneMore
<1> HIDE DEF longer
<1>4. {i \in 4..Len(url) : url[i] = "/"} = {}
  OBVIOUS
<1>5. {i \in 4..Len(longer) : longer[i] = "/"} = {5}
  BY <1>1
<1>6. Min({5}) = 5
  BY DEF Min
<1>7. IsRelay(longer)
  <2>1. Len(longer) > 2
    BY <1>1
  <2> QED BY <1>2, <2>1, Zenon DEF IsRelay
<1>8. adjust_relay_url(url) = url
  BY <1>4 DEF adjust_relay_url, SelectInSubSeq
<1>9. SelectInSubSeq(longer, 4, Len(longer), LAMBDA c : c = "/") = 5
  BY <1>5, <1>6 DEF SelectInSubSeq
<1>10. Front(longer) = url
  BY <1>1, <1>3 DEF Front
<1>11. adjust_relay_url(longer) = url
  BY <1>1, <1>7, <1>9, <1>10 DEF adjust_relay_url
<1> QED BY <1>8, <1>11 DEF longer

LEMMA ListedIsKnown ==
  ASSUME routed \subseteq RoutedEvents, NEW ev \in routed, ev.kind = "relays",
         NEW t \in ToSet(ev.rtags), t.more = <<>>,
         NEW relay, relay = adjust_relay_url(t.url), relay # NoUrl
  PROVE  relay \in DOMAIN get_known_relays /\ ev.author \in DOMAIN get_users_on_relay(relay)
<1> DEFINE r == Row(relay, ev.author, ev)
<1>1. r \in ListRows(ev)
  BY DEF ListRows
<1>2. r \in RoutingRows(ev)
  BY <1>1 DEF RoutingRows
<1>3. r \in _index_routing
  BY <1>2 DEF _index_routing
<1>4. r.relay = relay /\ r.user = ev.author
  BY DEF Row
<1> HIDE DEF r
<1>5. relay \in DOMAIN get_known_relays
  BY <1>3, <1>4 DEF get_known_relays
<1>6. ev.author \in DOMAIN get_users_on_relay(relay)
  BY <1>3, <1>4 DEF get_users_on_relay
<1> QED BY <1>5, <1>6

\* Two relay lists of which one writes the slash behind the host: adjust_relay_url makes one
\* relay of them, and the rows of both users are found there.
THEOREM OneRelay == Spec => []SlashIsOneRelay
<1>1. CodecsTypeOK => SlashIsOneRelay
  <2> SUFFICES ASSUME CodecsTypeOK PROVE SlashIsOneRelay
    OBVIOUS
  <2> DEFINE Written(ev) == IF ev.kind = "relays" THEN {t.url : t \in {x \in ToSet(ev.rtags) : x.more = <<>>}} ELSE {}
             IsRoot(url) == Len(url) = 4 /\ IsRelay(url) /\ url[4] # "/"
  <2>1. routed \subseteq RoutedEvents
    BY DEF CodecsTypeOK
  <2>2. ASSUME NEW a \in routed, NEW b \in routed, NEW url \in Written(a), IsRoot(url), Append(url, "/") \in Written(b)
        PROVE  \E r \in DOMAIN get_known_relays : {a.author, b.author} \subseteq DOMAIN get_users_on_relay(r)
    <3>1. PICK t \in ToSet(a.rtags) : t.more = <<>> /\ t.url = url /\ a.kind = "relays"
      BY <2>2
    <3>2. PICK u \in ToSet(b.rtags) : u.more = <<>> /\ u.url = Append(url, "/") /\ b.kind = "relays"
      BY <2>2
    <3>3. url \in Seq(STRING)
      BY <2>1, <2>2, <3>1, RoutingAssumption
    <3>4. adjust_relay_url(t.url) = url /\ adjust_relay_url(u.url) = url
      BY <2>2, <3>1, <3>2, <3>3, SlashDropped
    <3>5. url # NoUrl
      <4>1. Len(<<>>) = 0 /\ 0 # 4
        OBVIOUS
      <4> QED BY <2>2, <4>1, Zenon DEF NoUrl
    <3>6. url \in DOMAIN get_known_relays /\ a.author \in DOMAIN get_users_on_relay(url)
      BY <2>1, <2>2, <3>1, <3>4, <3>5, ListedIsKnown
    <3>7. b.author \in DOMAIN get_users_on_relay(url)
      BY <2>1, <2>2, <3>2, <3>4, <3>5, ListedIsKnown
    <3> QED BY <3>6, <3>7
  <2> QED BY <2>2 DEF SlashIsOneRelay
<1> QED BY <1>1, CodecsTyped, PTL
-----------------------------------------------------------------------------
(* Hex prefixes.                                                           *)

Bytes == [1..Size -> 0..255]

LEMMA ByteRange == \A n \in 0..255 : n \in Int /\ n >= 0 /\ n <= 255
OBVIOUS

LEMMA BytesOf ==
  ASSUME NEW a \in Bytes
  PROVE  /\ a = [i \in 1..Size |-> a[i]]
         /\ \A i \in 1..Size : a[i] \in 0..255 /\ a[i] \in Int /\ a[i] >= 0 /\ a[i] <= 255
<1>1. \A i \in 1..Size : a[i] \in 0..255
  BY DEF Bytes
<1>2. a = [i \in 1..Size |-> a[i]]
  BY DEF Bytes
<1> QED BY ONLY <1>1, <1>2, ByteRange, ZenonT(40)

\* Two keys are equal or have a first byte in which they differ.
LEMMA FirstDifference ==
  ASSUME NEW a \in Bytes, NEW b \in Bytes, a # b
  PROVE  \E k \in 1..Size : a[k] # b[k] /\ \A i \in 1..(k - 1) : a[i] = b[i]
<1> DEFINE D == {k \in 1..Size : a[k] # b[k]}
<1>1. \A i \in 1..Size : i \in Nat /\ i >= 1
  BY FilterTextAssumption
<1>2. D \in SUBSET Nat /\ D \subseteq 1..Size
  BY <1>1
<1>3. D # {}
  <2>1. a = [i \in 1..Size |-> a[i]] /\ b = [i \in 1..Size |-> b[i]]
    BY BytesOf
  <2> QED BY <2>1
<1>4. PICK k \in D : \A y \in D : k <= y
  BY <1>2, <1>3, LeastNatural
<1>5. \A i \in 1..(k - 1) : i \in 1..Size /\ ~(k <= i)
  BY <1>1, <1>2, FilterTextAssumption
<1>6. \A i \in 1..(k - 1) : a[i] = b[i]
  BY <1>4, <1>5
<1> QED BY <1>4, <1>6

\* A byte in which two keys differ, behind bytes in which they agree, decides which is greater.
LEMMA FirstDecides ==
  ASSUME NEW a \in Bytes, NEW b \in Bytes, NEW d \in 1..Size, a[d] # b[d],
         \A i \in 1..(d - 1) : a[i] = b[i], AtMost(a, b)
  PROVE  a[d] < b[d]
<1>1. a # b
  OBVIOUS
<1>2. PICK k \in 1..Size : a[k] < b[k] /\ \A i \in 1..(k - 1) : a[i] = b[i]
  BY <1>1 DEF AtMost
<1>3. d \in Int /\ k \in Int /\ Size \in Nat
  BY FilterTextAssumption
<1>4. a[k] \in Int /\ b[k] \in Int
  BY BytesOf
<1>5. ~(k < d)
  <2>1. k < d => k \in 1..(d - 1)
    BY <1>3
  <2> QED BY <1>2, <1>4, <2>1
<1>6. ~(d < k)
  <2>1. d < k => d \in 1..(k - 1)
    BY <1>3
  <2> QED BY <1>2, <2>1
<1>7. d = k
  BY <1>3, <1>5, <1>6
<1> QED BY <1>2, <1>7

\* The rows between a prefix filled up with zeros and with ones are those that begin with it.
LEMMA RowsBetween ==
  ASSUME NEW key \in Bytes, NEW count \in 0..Size, NEW x \in Bytes
  PROVE  /\ AtMost([i \in 1..Size |-> IF i <= count THEN key[i] ELSE 0], x)
         /\ AtMost(x, [i \in 1..Size |-> IF i <= count THEN key[i] ELSE 255])
         <=> Shortened(key, count, x)
<1> DEFINE lo == [i \in 1..Size |-> IF i <= count THEN key[i] ELSE 0]
           hi == [i \in 1..Size |-> IF i <= count THEN key[i] ELSE 255]
<1>0. \A i \in 1..Size : i \in Int
  OBVIOUS
<1>1. lo \in Bytes /\ hi \in Bytes
  <2>1. 0 \in 0..255 /\ 255 \in 0..255
    OBVIOUS
  <2>2. \A i \in 1..Size : key[i] \in 0..255
    BY BytesOf
  <2>3. ASSUME NEW i \in 1..Size PROVE lo[i] \in 0..255 /\ hi[i] \in 0..255
    BY <2>1, <2>2, ZenonT(40)
  <2> QED BY <2>3, ZenonT(40) DEF Bytes
<1>2. \A i \in 1..Size : i <= count => lo[i] = key[i] /\ hi[i] = key[i]
  OBVIOUS
<1>3. \A i \in 1..Size : ~(i <= count) => lo[i] = 0 /\ hi[i] = 255
  OBVIOUS
<1>4. \A i \in 1..count : i \in 1..Size /\ i <= count
  BY FilterTextAssumption
<1>5. \A i \in 1..Size : x[i] \in 0..255 /\ x[i] \in Int /\ x[i] >= 0 /\ x[i] <= 255
  BY BytesOf
<1> HIDE DEF lo, hi
<1>6. ASSUME Shortened(key, count, x) PROVE AtMost(lo, x) /\ AtMost(x, hi)
  <2>1. \A i \in 1..Size : i <= count => x[i] = key[i]
    BY <1>0, <1>6 DEF Shortened
  <2>2. ASSUME lo # x PROVE AtMost(lo, x)
    <3>1. PICK k \in 1..Size : lo[k] # x[k] /\ \A i \in 1..(k - 1) : lo[i] = x[i]
      BY <1>1, <2>2, FirstDifference
    <3>2. lo[k] = 0
      BY <1>2, <1>3, <2>1, <3>1
    <3>3. lo[k] < x[k]
      BY <1>5, <3>1, <3>2
    <3> QED BY <3>1, <3>3 DEF AtMost
  <2>3. ASSUME x # hi PROVE AtMost(x, hi)
    <3>1. PICK k \in 1..Size : x[k] # hi[k] /\ \A i \in 1..(k - 1) : x[i] = hi[i]
      BY <1>1, <2>3, FirstDifference
    <3>2. hi[k] = 255
      BY <1>2, <1>3, <2>1, <3>1
    <3>3. x[k] < hi[k]
      BY <1>5, <3>1, <3>2
    <3> QED BY <3>1, <3>3 DEF AtMost
  <2> QED BY <2>2, <2>3 DEF AtMost
<1>7. ASSUME AtMost(lo, x), AtMost(x, hi), ~Shortened(key, count, x) PROVE FALSE
  <2> DEFINE shorter == [i \in 1..Size |-> IF i <= count THEN key[i] ELSE x[i]]
  <2>1. shorter \in Bytes
    BY <1>5 DEF Bytes
  <2>2. shorter # x
    BY <1>4, <1>7 DEF Shortened
  <2>3. \A i \in 1..Size : shorter[i] # x[i] => i <= count /\ shorter[i] = key[i]
    OBVIOUS
  <2>4. \A i \in 1..Size : i <= count => shorter[i] = key[i]
    OBVIOUS
  <2> HIDE DEF shorter
  <2>5. PICK d \in 1..Size : shorter[d] # x[d] /\ \A i \in 1..(d - 1) : shorter[i] = x[i]
    BY <2>1, <2>2, FirstDifference
  <2>6. d <= count /\ lo[d] = key[d] /\ hi[d] = key[d] /\ key[d] # x[d]
    BY <1>2, <2>3, <2>5
  <2>7. \A i \in 1..(d - 1) : i \in 1..Size /\ i <= count
    BY <2>6, FilterTextAssumption
  <2>8. \A i \in 1..(d - 1) : lo[i] = x[i] /\ x[i] = hi[i]
    BY <1>2, <2>4, <2>5, <2>7
  <2>9. lo[d] < x[d]
    BY <1>1, <1>7, <2>6, <2>8, FirstDecides
  <2>10. x[d] < hi[d]
    BY <1>1, <1>7, <2>6, <2>8, FirstDecides
  <2>11. key[d] \in Int /\ x[d] \in Int
    BY BytesOf
  <2> QED BY <2>6, <2>9, <2>10, <2>11
<1> QED BY <1>6, <1>7 DEF lo, hi

LEMMA NibbleByte == \A a \in Int : Nibble(a) \in 0..255
BY DEF Nibble, Truth

\* A hex digit in lower case is the digit to_hex writes for its value.
LEMMA NibbleDigit ==
  ASSUME NEW a \in HexDigits
  PROVE  /\ Nibble(a) \in 0..15
         /\ Nibble(a) + 48 + 39 * Truth(Nibble(a) > 9)
              = IF a < 97 /\ a >= 65 THEN a + 32 ELSE a
<1>1. CASE a \in 48..57
  BY <1>1 DEF Nibble, Truth
<1>2. CASE a \in 65..70
  BY <1>2 DEF Nibble, Truth
<1>3. CASE a \in 97..102
  BY <1>3 DEF Nibble, Truth
<1> QED BY <1>1, <1>2, <1>3 DEF HexDigits

LEMMA DigitInjective ==
  ASSUME NEW m \in 0..15, NEW n \in 0..15,
         m + 48 + 39 * Truth(m > 9) = n + 48 + 39 * Truth(n > 9)
  PROVE  m = n
BY DEF Truth

LEMMA Halves ==
  ASSUME NEW n \in 0..255
  PROVE  /\ n \div 16 \in 0..15 /\ n % 16 \in 0..15
         /\ \A a, b \in 0..15 : n = 16 * a + b <=> n \div 16 = a /\ n % 16 = b
OBVIOUS

\* What from_hex reads is a byte wherever it reads one.
LEMMA ReadBytes ==
  ASSUME NEW t \in Seq(0..127), NEW memory \in Bytes
  PROVE  /\ BytesSet(t) \in 0..Size
         /\ 2 * BytesSet(t) <= Len(t) /\ \A i \in 1..BytesSet(t) : Readable2(t, i)
         /\ \A n \in 0..Size : 2 * n <= Len(t) /\ (\A i \in 1..n : Readable2(t, i)) => n <= BytesSet(t)
         /\ from_hex(t, memory) \in Bytes
<1> DEFINE R == {n \in 0..Size : 2 * n <= Len(t) /\ \A i \in 1..n : Readable2(t, i)}
<1>0. Size \in Nat /\ Len(t) \in Nat
  BY FilterTextAssumption
<1>1. R \in SUBSET (0..Size)
  OBVIOUS
<1>2. 0 \in R
  BY <1>0
<1>3. Max(R) \in R /\ \A n \in R : Max(R) >= n
  BY <1>0, <1>1, <1>2, MaxIs
<1>4. BytesSet(t) = Max(R)
  BY DEF BytesSet
<1> DEFINE m == BytesSet(t)
<1> HIDE DEF m
<1>5. m \in 0..Size /\ 2 * m <= Len(t) /\ \A i \in 1..m : Readable2(t, i)
  BY <1>3, <1>4 DEF m
<1>6. \A n \in R : n <= m
  <2>1. \A n \in R : n \in Int
    OBVIOUS
  <2>2. m \in Int
    BY <1>5
  <2>3. \A n \in R : m >= n
    BY <1>3, <1>4 DEF m
  <2> QED BY <2>1, <2>2, <2>3
<1>7. ASSUME NEW i \in 1..Size
      PROVE  (IF i <= m THEN 16 * Nibble(t[2 * i - 1]) + Nibble(t[2 * i]) ELSE memory[i]) \in 0..255
  <2>1. CASE i <= m
    <3>1. i \in 1..m
      BY <1>0, <2>1
    <3>2. Nibble(t[2 * i - 1]) < 16 /\ Nibble(t[2 * i]) < 16
      BY <1>5, <3>1 DEF Readable2
    <3>3. 2 * i - 1 \in 1..Len(t) /\ 2 * i \in 1..Len(t)
      BY <1>0, <1>5, <3>1
    <3>4. t[2 * i - 1] \in 0..127 /\ t[2 * i] \in 0..127
      BY <3>3, ElementOfSeq
    <3>5. \A a \in 0..127 : a \in Int
      OBVIOUS
    <3>6. Nibble(t[2 * i - 1]) \in 0..255 /\ Nibble(t[2 * i]) \in 0..255
      BY <3>4, <3>5, NibbleByte
    <3>7. \A a, b \in 0..255 : a < 16 /\ b < 16 => 16 * a + b \in 0..255
      OBVIOUS
    <3> QED BY <2>1, <3>2, <3>6, <3>7
  <2>2. CASE ~(i <= m)
    BY <2>2, BytesOf
  <2> QED BY <2>1, <2>2
<1>8. from_hex(t, memory) \in Bytes
  BY <1>7, Zenon DEF from_hex, Bytes, m
<1>9. \A n \in 0..Size : 2 * n <= Len(t) /\ (\A i \in 1..n : Readable2(t, i)) => n <= m
  BY <1>6
<1> QED BY <1>5, <1>8, <1>9 DEF m

LEMMA SmallRemainder ==
  ASSUME NEW a \in Nat, NEW b \in Nat \ {0}
  PROVE  a % b \in 0..(b - 1) /\ a % b \in Nat /\ (a < b => a % b = a)
OBVIOUS

\* As long as the width of the length allows, the prefix is of the text's whole pairs.
LEMMA CountIs ==
  ASSUME NEW t \in Seq(0..127)
  PROVE  /\ Count(t) \in 0..Size
         /\ Len(t) \div 2 < CountWidth => Count(t) = Min({Size, Len(t) \div 2})
         /\ Min({Size, Len(t) \div 2}) \in 0..Size /\ 2 * Min({Size, Len(t) \div 2}) <= Len(t)
<1>0. Size \in Nat /\ CountWidth \in Nat \ {0} /\ Len(t) \in Nat
  BY FilterTextAssumption
<1> DEFINE half == Len(t) \div 2
           low == half % CountWidth
<1>1. half \in Nat /\ 2 * half <= Len(t) /\ low \in Nat /\ (half < CountWidth => low = half)
  <2>1. \A n \in Nat : n \div 2 \in Nat /\ 2 * (n \div 2) <= n
    OBVIOUS
  <2>2. half \in Nat /\ 2 * half <= Len(t)
    BY <1>0, <2>1
  <2> HIDE DEF half
  <2>3. low \in Nat /\ (half < CountWidth => low = half)
    BY <1>0, <2>2, SmallRemainder
  <2> QED BY <2>2, <2>3
<1>2. Len(t) \div 2 = half /\ (Len(t) \div 2) % CountWidth = low
  OBVIOUS
<1> HIDE DEF half, low
<1>3. \A a, b \in Nat : Min({a, b}) \in {a, b} /\ Min({a, b}) <= a /\ Min({a, b}) <= b
  <2> TAKE a \in Nat, b \in Nat
  <2>1. {a, b} \in SUBSET Nat /\ {a, b} # {}
    OBVIOUS
  <2> QED BY <2>1, MinIs
<1>4. Min({Size, low}) \in 0..Size
  <2>1. Min({Size, low}) \in Nat /\ Min({Size, low}) <= Size
    BY <1>0, <1>1, <1>3
  <2> QED BY <1>0, <2>1
<1>5. Min({Size, half}) \in 0..Size /\ Min({Size, half}) <= half
  <2>1. Min({Size, half}) \in Nat /\ Min({Size, half}) <= Size /\ Min({Size, half}) <= half
    BY <1>0, <1>1, <1>3
  <2> QED BY <1>0, <2>1
<1>6. \A x \in Int : x <= half => 2 * x <= Len(t)
  BY <1>0, <1>1
<1>7. 2 * Min({Size, half}) <= Len(t)
  <2>1. \A x \in 0..Size : x \in Int
    OBVIOUS
  <2> QED BY <1>5, <1>6, <2>1
<1>8. Count(t) = Min({Size, low})
  BY <1>2 DEF Count
<1> QED BY <1>1, <1>2, <1>4, <1>5, <1>7, <1>8, Zenon

LEMMA Beginning ==
  ASSUME NEW S, NEW s \in Seq(S), NEW m \in Nat, m <= Len(s)
  PROVE  /\ SubSeq(s, 1, m) \in Seq(S) /\ Len(SubSeq(s, 1, m)) = m
         /\ \A j \in 1..m : SubSeq(s, 1, m)[j] = s[j]
<1>1. \A j \in 1..m : j \in 1..Len(s)
  OBVIOUS
<1>2. \A j \in 1..m : s[j] \in S
  BY <1>1, ElementOfSeq
<1> QED BY <1>2, SubSeqProperties

LEMMA SamePrefix ==
  ASSUME NEW S, NEW s \in Seq(S), NEW t \in Seq(S), NEW m \in Nat, m <= Len(s), m <= Len(t)
  PROVE  SubSeq(s, 1, m) = SubSeq(t, 1, m) <=> \A j \in 1..m : s[j] = t[j]
<1>3. /\ SubSeq(s, 1, m) \in Seq(S) /\ Len(SubSeq(s, 1, m)) = m
      /\ \A j \in 1..m : SubSeq(s, 1, m)[j] = s[j]
  BY Beginning
<1>4. /\ SubSeq(t, 1, m) \in Seq(S) /\ Len(SubSeq(t, 1, m)) = m
      /\ \A j \in 1..m : SubSeq(t, 1, m)[j] = t[j]
  BY Beginning
<1> DEFINE p == SubSeq(s, 1, m)
           q == SubSeq(t, 1, m)
<1>5. (\A j \in 1..m : p[j] = q[j]) => p = q
  <2> HIDE DEF p, q
  <2>1. p \in Seq(S) /\ q \in Seq(S) /\ Len(p) = m /\ Len(q) = m
    BY <1>3, <1>4 DEF p, q
  <2> QED BY <2>1, SeqEqual
<1> QED BY <1>3, <1>4, <1>5, Zenon

\* The digits of a pair, as to_hex writes them, are those of the text if it stands for the byte.
LEMMA PairStandsFor ==
  ASSUME NEW n \in 0..255, NEW a \in HexDigits, NEW b \in HexDigits
  PROVE  /\ (n \div 16) + 48 + 39 * Truth(n \div 16 > 9) = (IF a < 97 /\ a >= 65 THEN a + 32 ELSE a)
         /\ (n % 16) + 48 + 39 * Truth(n % 16 > 9) = (IF b < 97 /\ b >= 65 THEN b + 32 ELSE b)
         <=> 16 * Nibble(a) + Nibble(b) = n
<1> DEFINE Digit(v) == v + 48 + 39 * Truth(v > 9)
<1>1. Nibble(a) \in 0..15 /\ Nibble(b) \in 0..15
  BY NibbleDigit
<1>2. /\ Digit(Nibble(a)) = (IF a < 97 /\ a >= 65 THEN a + 32 ELSE a)
      /\ Digit(Nibble(b)) = (IF b < 97 /\ b >= 65 THEN b + 32 ELSE b)
  BY NibbleDigit
<1>3. n \div 16 \in 0..15 /\ n % 16 \in 0..15
  BY Halves
<1>4. n = 16 * Nibble(a) + Nibble(b) <=> n \div 16 = Nibble(a) /\ n % 16 = Nibble(b)
  BY <1>1, Halves
<1>5. \A x, y \in 0..15 : Digit(x) = Digit(y) => x = y
  BY DigitInjective
<1> HIDE DEF Digit
<1>6. /\ Digit(n \div 16) = Digit(Nibble(a)) <=> n \div 16 = Nibble(a)
      /\ Digit(n % 16) = Digit(Nibble(b)) <=> n % 16 = Nibble(b)
  BY <1>1, <1>3, <1>5
<1>7. Digit(n \div 16) = (n \div 16) + 48 + 39 * Truth(n \div 16 > 9)
      /\ Digit(n % 16) = (n % 16) + 48 + 39 * Truth(n % 16 > 9)
  BY Zenon DEF Digit
<1> QED BY <1>2, <1>4, <1>6, <1>7, Zenon

LEMMA OddAndEven ==
  ASSUME NEW m \in Nat
  PROVE  \A j \in 1..(2 * m) : \E i \in 1..m : j = 2 * i - 1 \/ j = 2 * i
<1> TAKE j \in 1..(2 * m)
<1> DEFINE i == (j + 1) \div 2
<1>1. i \in 1..m /\ (j = 2 * i - 1 \/ j = 2 * i)
  OBVIOUS
<1> QED BY <1>1

LEMMA HexOf ==
  ASSUME NEW x \in Bytes
  PROVE  /\ to_hex(x) \in Seq(Int) /\ Len(to_hex(x)) = 2 * Size
         /\ \A i \in 1..Size :
              /\ to_hex(x)[2 * i - 1] = (x[i] \div 16) + 48 + 39 * Truth(x[i] \div 16 > 9)
              /\ to_hex(x)[2 * i] = (x[i] % 16) + 48 + 39 * Truth(x[i] % 16 > 9)
<1> DEFINE Digit(n) == n + 48 + 39 * Truth(n > 9)
           byte(i) == x[(i + 1) \div 2]
           hex == [i \in 1..(2 * Len(x)) |-> Digit(IF i % 2 = 1 THEN byte(i) \div 16 ELSE byte(i) % 16)]
<1>0. Size \in Nat /\ 2 * Size \in Nat
  BY FilterTextAssumption
<1>1. Len(x) = Size
  BY <1>0 DEF Bytes
<1>2. to_hex(x) = hex
  BY DEF to_hex
<1>3. \A i \in 1..(2 * Size) : (i + 1) \div 2 \in 1..Size
  BY <1>0
<1>4. \A n \in 0..255 : Digit(n \div 16) \in Int /\ Digit(n % 16) \in Int
  BY DEF Truth
<1> HIDE DEF Digit
<1>5. \A i \in 1..(2 * Size) : hex[i] = Digit(IF i % 2 = 1 THEN byte(i) \div 16 ELSE byte(i) % 16)
  BY <1>1
<1>6. \A i \in 1..(2 * Size) : hex[i] \in Int
  <2> TAKE i \in 1..(2 * Size)
  <2>1. byte(i) \in 0..255
    BY <1>3, BytesOf
  <2> HIDE DEF byte, hex
  <2>2. CASE i % 2 = 1
    BY <1>4, <1>5, <2>1, <2>2
  <2>3. CASE i % 2 # 1
    BY <1>4, <1>5, <2>1, <2>3
  <2> QED BY <2>2, <2>3
<1>7. hex \in [1..(2 * Size) -> Int]
  BY <1>1, <1>6
<1>8. hex \in Seq(Int) /\ Len(hex) = 2 * Size
  <2> HIDE DEF hex
  <2> QED BY <1>0, <1>7
<1>9. ASSUME NEW i \in 1..Size
      PROVE  hex[2 * i - 1] = Digit(x[i] \div 16) /\ hex[2 * i] = Digit(x[i] % 16)
  <2>1. 2 * i - 1 \in 1..(2 * Size) /\ 2 * i \in 1..(2 * Size)
    BY <1>0
  <2>2. (2 * i - 1) % 2 = 1 /\ (2 * i) % 2 # 1 /\ (2 * i - 1 + 1) \div 2 = i /\ (2 * i + 1) \div 2 = i
    OBVIOUS
  <2>3. byte(2 * i - 1) = x[i] /\ byte(2 * i) = x[i]
    BY <2>2
  <2> HIDE DEF byte, hex
  <2> QED BY <1>5, <2>1, <2>2, <2>3, Zenon
<1> QED BY <1>2, <1>8, <1>9, Zenon DEF Digit

\* A text of digits selects an id if the bytes it stands for are the id's first.
LEMMA DigitsSelect ==
  ASSUME NEW t \in Seq(0..127), ToSet(t) \subseteq HexDigits, NEW memory \in Bytes, NEW x \in Bytes,
         NEW c \in 0..Size, 2 * c <= Len(t)
  PROVE  SubSeq(to_hex(x), 1, 2 * c) = SubSeq(LowerHex(t), 1, 2 * c)
         <=> Shortened(from_hex(t, memory), c, x)
<1> DEFINE lower == LowerHex(t)
           hex == to_hex(x)
           key == from_hex(t, memory)
           Digit(n) == n + 48 + 39 * Truth(n > 9)
           Low(a) == IF a < 97 /\ a >= 65 THEN a + 32 ELSE a
<1>0. Size \in Nat /\ Len(t) \in Nat /\ c \in Nat /\ c <= Size /\ 2 * c \in Nat
  BY FilterTextAssumption
<1>1. \A j \in 1..Len(t) : t[j] \in HexDigits
  BY DEF ToSet
<1>2. lower \in Seq(Int) /\ Len(lower) = Len(t) /\ \A j \in 1..Len(t) : lower[j] = Low(t[j])
  <2>1. DOMAIN t = 1..Len(t)
    OBVIOUS
  <2>2. \A a \in HexDigits : Low(a) \in Int
    BY DEF HexDigits
  <2>3. lower = [j \in 1..Len(t) |-> Low(t[j])]
    BY <2>1, Zenon DEF LowerHex
  <2> HIDE DEF Low, lower
  <2>4. \A j \in 1..Len(t) : lower[j] = Low(t[j])
    BY <2>3
  <2>5. lower \in [1..Len(t) -> Int]
    BY <1>1, <2>2, <2>3
  <2> QED BY <1>0, <2>4, <2>5
<1>3. /\ hex \in Seq(Int) /\ Len(hex) = 2 * Size
      /\ \A i \in 1..Size : hex[2 * i - 1] = Digit(x[i] \div 16) /\ hex[2 * i] = Digit(x[i] % 16)
  BY HexOf
<1> HIDE DEF lower, hex, Digit, Low
<1>4. SubSeq(hex, 1, 2 * c) = SubSeq(lower, 1, 2 * c) <=> \A j \in 1..(2 * c) : hex[j] = lower[j]
  <2>1. 2 * c <= Len(hex) /\ 2 * c <= Len(lower)
    BY <1>0, <1>2, <1>3
  <2> QED BY <1>0, <1>2, <1>3, <2>1, SamePrefix
<1>5. \A i \in 1..c : /\ 2 * i - 1 \in 1..(2 * c) /\ 2 * i \in 1..(2 * c)
                      /\ 2 * i - 1 \in 1..Len(t) /\ 2 * i \in 1..Len(t) /\ i \in 1..Size
  BY <1>0
<1>6. (\A j \in 1..(2 * c) : hex[j] = lower[j])
        <=> \A i \in 1..c : hex[2 * i - 1] = lower[2 * i - 1] /\ hex[2 * i] = lower[2 * i]
  <2>1. \A j \in 1..(2 * c) : \E i \in 1..c : j = 2 * i - 1 \/ j = 2 * i
    BY <1>0, OddAndEven
  <2> QED BY <1>5, <2>1
<1>7. \A i \in 1..c : Nibble(t[2 * i - 1]) \in 0..15 /\ Nibble(t[2 * i]) \in 0..15
  BY <1>1, <1>5, NibbleDigit
<1>8. c <= BytesSet(t)
  <2>1. \A i \in 1..c : Readable2(t, i)
    <3>1. \A n \in 0..15 : n < 16
      OBVIOUS
    <3> QED BY <1>7, <3>1 DEF Readable2
  <2> QED BY <2>1, ReadBytes
<1>9. \A i \in 1..c : key[i] = 16 * Nibble(t[2 * i - 1]) + Nibble(t[2 * i])
  <2> TAKE i \in 1..c
  <2>1. BytesSet(t) \in Int
    <3>1. BytesSet(t) \in 0..Size
      BY ReadBytes
    <3> QED BY <3>1
  <2>2. i <= BytesSet(t) /\ i \in 1..Size
    BY <1>0, <1>5, <1>8, <2>1
  <2> QED BY <2>2 DEF from_hex
<1>10. \A i \in 1..c : (hex[2 * i - 1] = lower[2 * i - 1] /\ hex[2 * i] = lower[2 * i]) <=> key[i] = x[i]
  <2> TAKE i \in 1..c
  <2>1. x[i] \in 0..255
    BY <1>5, BytesOf
  <2>2. t[2 * i - 1] \in HexDigits /\ t[2 * i] \in HexDigits
    BY <1>1, <1>5
  <2>3. Digit(x[i] \div 16) = Low(t[2 * i - 1]) /\ Digit(x[i] % 16) = Low(t[2 * i])
        <=> 16 * Nibble(t[2 * i - 1]) + Nibble(t[2 * i]) = x[i]
    <3>1. \A n \in 0..255, a, b \in HexDigits :
            Digit(n \div 16) = Low(a) /\ Digit(n % 16) = Low(b) <=> 16 * Nibble(a) + Nibble(b) = n
      BY PairStandsFor DEF Digit, Low
    <3>2. PICK n \in 0..255 : n = x[i]
      BY <2>1
    <3>3. PICK a \in HexDigits : a = t[2 * i - 1]
      BY <2>2
    <3>4. PICK b \in HexDigits : b = t[2 * i]
      BY <2>2
    <3>5. Digit(n \div 16) = Low(a) /\ Digit(n % 16) = Low(b) <=> 16 * Nibble(a) + Nibble(b) = n
      BY <3>1, Zenon
    <3> QED BY <3>2, <3>3, <3>4, <3>5, Zenon
  <2> QED BY <1>2, <1>3, <1>5, <1>9, <2>3
<1>11. Shortened(key, c, x) <=> \A i \in 1..c : key[i] = x[i]
  BY DEF Shortened
<1> HIDE DEF key
<1>12. SubSeq(hex, 1, 2 * c) = SubSeq(lower, 1, 2 * c) <=> Shortened(key, c, x)
  BY <1>4, <1>6, <1>10, <1>11
<1> QED BY <1>12 DEF hex, lower, key

\* from_hex, cmp_shorten and the rows between two keys, for keys of any size and every text:
\* the rows are the ids that pass, and those a text of digits is the beginning of.
THEOREM PrefixesMeanText == Spec => []PrefixMeansText
<1>1. CodecsTypeOK => PrefixMeansText
  <2> SUFFICES ASSUME CodecsTypeOK PROVE PrefixMeansText
    OBVIOUS
  <2> DEFINE c == Min({Size, Len(hextext) \div 2})
             Selects(x) == SubSeq(to_hex(x), 1, 2 * c) = SubSeq(LowerHex(hextext), 1, 2 * c)
  <2>1. hextext \in Seq(0..127)
    <3>1. hextext \in Seq(HexChars) /\ HexChars \subseteq 0..127
      BY FilterTextAssumption DEF CodecsTypeOK
    <3> QED BY <3>1, SeqMonotonic
  <2>2. \A x \in Ids : x \in Bytes
    BY FilterTextAssumption DEF Bytes
  <2>3. /\ Count(hextext) \in 0..Size
        /\ Len(hextext) \div 2 < CountWidth => Count(hextext) = c
        /\ c \in 0..Size /\ 2 * c <= Len(hextext)
    BY <2>1, CountIs
  <2> HIDE DEF c
  <2>4. ASSUME NEW memory \in Ids
        PROVE  LET key == from_hex(hextext, memory)
                   tested == {x \in Ids : Shortened(key, Count(hextext), x)}
               IN /\ RowsOf(key, Count(hextext)) = tested
                  /\ ToSet(hextext) \subseteq HexDigits /\ Len(hextext) \div 2 < CountWidth =>
                       tested = {x \in Ids : Selects(x)}
    <3> DEFINE key == from_hex(hextext, memory)
               tested == {x \in Ids : Shortened(key, Count(hextext), x)}
    <3>1. key \in Bytes
      BY <2>1, <2>2, ReadBytes
    <3>2. searchShortenID(key, Count(hextext)) = tested
      <4> HIDE DEF key
      <4>1. \A x \in Ids :
              /\ AtMost([i \in 1..Size |-> IF i <= Count(hextext) THEN key[i] ELSE 0], x)
              /\ AtMost(x, [i \in 1..Size |-> IF i <= Count(hextext) THEN key[i] ELSE 255])
              <=> Shortened(key, Count(hextext), x)
        BY <2>2, <2>3, <3>1, RowsBetween
      <4> QED BY <4>1, Zenon DEF searchShortenID
    <3>3. Count(hextext) = Size => Ids \cap {key} = tested
      <4> HIDE DEF key
      <4>1. \A x \in Ids : x = key <=> Shortened(key, Size, x)
        <5> TAKE x \in Ids
        <5>1. x = [i \in 1..Size |-> x[i]] /\ key = [i \in 1..Size |-> key[i]]
          BY <2>2, <3>1, BytesOf
        <5> QED BY <5>1 DEF Shortened
      <4> QED BY <4>1
    <3>4. RowsOf(key, Count(hextext)) = tested
      BY <3>2, <3>3, Zenon DEF RowsOf
    <3>5. ASSUME ToSet(hextext) \subseteq HexDigits, Len(hextext) \div 2 < CountWidth
          PROVE  tested = {x \in Ids : Selects(x)}
      <4>1. \A x \in Ids : Selects(x) <=> Shortened(key, c, x)
        BY <2>1, <2>2, <2>3, <3>5, DigitsSelect
      <4>2. Count(hextext) = c
        BY <2>3, <3>5
      <4> HIDE DEF key, Selects
      <4> QED BY <4>1, <4>2
    <3> QED BY <3>4, <3>5
  <2> QED BY <2>4, Zenon DEF PrefixMeansText, c
<1> QED BY <1>1, CodecsTyped, PTL

-----------------------------------------------------------------------------
(* The table of tags.                                                      *)

Tag == [tag : TagNames, content : Contents]
Slots(ts) == 0..(2 * Len(ts))

\* What the table holds when the first m tags are entered: of each a one-letter tag, at the
\* end of a run of taken slots that begins where a search for it does.
TableUpTo(ts, m, table) ==
  /\ table \in [Slots(ts) -> 0..m]
  /\ \A s, r \in Slots(ts) : table[s] = table[r] /\ table[s] # 0 => s = r
  /\ \A s \in Slots(ts) : table[s] # 0 =>
       LET t == ts[table[s]].tag
           c == ts[table[s]].content
       IN /\ t \in Letters
          /\ \E k \in Slots(ts) : s = Slot(ts, t, c, k) /\ \A j \in 0..(k - 1) : table[Slot(ts, t, c, j)] # 0
  /\ \A i \in 1..m : ts[i].tag \in Letters => \E s \in Slots(ts) : table[s] = i

LEMMA SameRemainder ==
  ASSUME NEW h \in Nat, NEW w \in Nat \ {0}, NEW j \in 0..(w - 1), NEW k \in 0..(w - 1),
         (h + j) % w = (h + k) % w
  PROVE  j = k
<1> DEFINE a == (h + j) \div w
           b == (h + k) \div w
           r == (h + j) % w
<1>1. h + j = w * a + r /\ h + k = w * b + r /\ a \in Int /\ b \in Int /\ r \in Int
  OBVIOUS
<1> HIDE DEF a, b, r
<1>2. j - k = w * (a - b)
  BY <1>1
<1>3. CASE a - b >= 1
  BY <1>1, <1>2, <1>3
<1>4. CASE a - b <= -1
  BY <1>1, <1>2, <1>4
<1>5. CASE a = b
  BY <1>1, <1>2, <1>5
<1> QED BY <1>1, <1>3, <1>4, <1>5

LEMMA SlotIs ==
  ASSUME NEW ts \in Seq(Tag), NEW t \in Letters, NEW c \in Contents
  PROVE  /\ \A k \in Slots(ts) : Slot(ts, t, c, k) \in Slots(ts)
         /\ \A j, k \in Slots(ts) : Slot(ts, t, c, j) = Slot(ts, t, c, k) => j = k
         /\ 0..(TableSize(ts) - 1) = Slots(ts)
<1> DEFINE n == Len(ts)
           h == tag_hash(t, c)
           w == 2 * n + 1
<1>1. n \in Nat /\ h \in Nat /\ w \in Nat \ {0} /\ w - 1 = 2 * n
  BY EventCodecsAssumption
<1>2. TableSize(ts) = w
  BY DEF TableSize
<1> HIDE DEF w, h
<1>3. \A k \in 0..(w - 1) : (h + k) % w \in 0..(w - 1)
  BY <1>1
<1>4. \A j, k \in 0..(w - 1) : (h + j) % w = (h + k) % w => j = k
  BY <1>1, SameRemainder
<1>5. Slots(ts) = 0..(w - 1)
  BY <1>1 DEF Slots
<1>6. \A k : Slot(ts, t, c, k) = (h + k) % w
  BY <1>2 DEF Slot, h
<1> QED BY <1>2, <1>3, <1>4, <1>5, <1>6

\* The table is larger than what is in it: every search comes to a free slot.
LEMMA FreeSlot ==
  ASSUME NEW ts \in Seq(Tag), NEW m \in 0..Len(ts), NEW table, TableUpTo(ts, m, table),
         NEW t \in Letters, NEW c \in Contents
  PROVE  \E k \in Slots(ts) : table[Slot(ts, t, c, k)] = 0
<1> SUFFICES ASSUME \A k \in Slots(ts) : table[Slot(ts, t, c, k)] # 0 PROVE FALSE
  OBVIOUS
<1> DEFINE n == Len(ts)
           f == [k \in Slots(ts) |-> table[Slot(ts, t, c, k)]]
<1>1. n \in Nat /\ m \in Nat /\ m <= n
  OBVIOUS
<1>2. IsFiniteSet(0..(2 * n)) /\ Cardinality(0..(2 * n)) = 2 * n + 1
  <2>1. 0 \in Int /\ 2 * n \in Int /\ ~(0 > 2 * n) /\ 2 * n - 0 + 1 = 2 * n + 1
    BY <1>1
  <2> QED BY <2>1, FS_Interval, Zenon
<1>3. IsFiniteSet(1..m) /\ Cardinality(1..m) <= m
  <2>1. 1 \in Int /\ m \in Int
    BY <1>1
  <2>2. IsFiniteSet(1..m) /\ Cardinality(1..m) = IF 1 > m THEN 0 ELSE m - 1 + 1
    BY <2>1, FS_Interval, Zenon
  <2> QED BY <1>1, <2>2
<1>4. \A k \in Slots(ts) : Slot(ts, t, c, k) \in Slots(ts)
  BY SlotIs
<1>5. \A s \in Slots(ts) : table[s] \in 0..m
  BY DEF TableUpTo
<1>6. \A x \in 0..m : x # 0 => x \in 1..m
  BY <1>1
<1>7. f \in [Slots(ts) -> 1..m]
  BY <1>4, <1>5, <1>6
<1>8. Cardinality(1..m) < Cardinality(Slots(ts)) /\ IsFiniteSet(Slots(ts))
  <2>1. Cardinality(1..m) \in Nat
    BY <1>3, FS_CardinalityType
  <2> QED BY <1>1, <1>2, <1>3, <2>1 DEF Slots
<1>9. PICK j, k \in Slots(ts) : j # k /\ f[j] = f[k]
  <2> HIDE DEF f
  <2> QED BY <1>3, <1>7, <1>8, FS_PigeonHole
<1>10. Slot(ts, t, c, j) = Slot(ts, t, c, k)
  BY <1>4, <1>9 DEF TableUpTo
<1> QED BY <1>9, <1>10, SlotIs

LEMMA NaturalsOf == \A n \in Nat : \A x \in 0..n : x \in Nat /\ x <= n
OBVIOUS

\* The first free slot of a search.
LEMMA FirstFree ==
  ASSUME NEW ts \in Seq(Tag), NEW m \in 0..Len(ts), NEW table, TableUpTo(ts, m, table),
         NEW t \in Letters, NEW c \in Contents,
         NEW first, first = Min({k \in 0..(TableSize(ts) - 1) : table[Slot(ts, t, c, k)] = 0})
  PROVE  /\ first \in Slots(ts) /\ table[Slot(ts, t, c, first)] = 0
         /\ \A j \in 0..(first - 1) : j \in Slots(ts) /\ table[Slot(ts, t, c, j)] # 0
<1> DEFINE K == {k \in Slots(ts) : table[Slot(ts, t, c, k)] = 0}
<1>0. 2 * Len(ts) \in Nat
  OBVIOUS
<1>1. first = Min(K)
  BY SlotIs
<1>2. K # {}
  BY FreeSlot
<1>3. K \in SUBSET Nat /\ K \subseteq 0..(2 * Len(ts))
  BY <1>0, NaturalsOf DEF Slots
<1>4. first \in K /\ \A k \in K : first <= k
  <2> HIDE DEF K
  <2>1. Min(K) \in K /\ \A x \in K : Min(K) <= x
    BY <1>2, <1>3, MinIs
  <2> QED BY <1>1, <2>1, Zenon
<1>5. \A j \in 0..(first - 1) : j \in Slots(ts) /\ ~(first <= j)
  BY <1>0, <1>3, <1>4 DEF Slots
<1> QED BY <1>4, <1>5

LEMMA EnterKeeps ==
  ASSUME NEW ts \in Seq(Tag), Len(ts) < Width, NEW m \in 0..(Len(ts) - 1), NEW table, TableUpTo(ts, m, table)
  PROVE  TableUpTo(ts, m + 1, Enter(ts, table, m + 1))
<1> DEFINE t == ts[m + 1].tag
           c == ts[m + 1].content
           first == Min({k \in 0..(TableSize(ts) - 1) : table[Slot(ts, t, c, k)] = 0})
           s0 == Slot(ts, t, c, first)
           new == Enter(ts, table, m + 1)
<1>0. /\ m \in Nat /\ Len(ts) \in Nat /\ m + 1 \in 1..Len(ts) /\ m \in 0..Len(ts) /\ Width \in Nat
      /\ m + 1 \in Nat /\ m + 1 # 0
  BY EventCodecsAssumption
<1>1. ts[m + 1] \in Tag /\ c \in Contents
  <2>1. ts[m + 1] \in Tag
    BY <1>0, ElementOfSeq
  <2> QED BY <2>1 DEF Tag
<1>2. (m + 1) % Width = m + 1
  BY <1>0
<1>3. /\ table \in [Slots(ts) -> 0..m]
      /\ \A s \in Slots(ts) : table[s] \in 0..m /\ table[s] \in 0..(m + 1) /\ table[s] # m + 1
  <2>1. table \in [Slots(ts) -> 0..m]
    BY DEF TableUpTo
  <2>2. \A x \in 0..m : x \in 0..(m + 1) /\ x # m + 1
    BY <1>0
  <2> QED BY <2>1, <2>2
<1>4. \A i \in 1..(m + 1) : i \in 1..m \/ i = m + 1
  BY <1>0
<1>5. CASE t \notin Letters
  <2>1. new = table
    BY <1>5 DEF Enter
  <2>2. table \in [Slots(ts) -> 0..(m + 1)]
    BY <1>3
  <2>3. \A i \in 1..(m + 1) : ts[i].tag \in Letters => i \in 1..m
    BY <1>4, <1>5
  <2>4. \A i \in 1..(m + 1) : ts[i].tag \in Letters => \E s \in Slots(ts) : table[s] = i
    BY <2>3 DEF TableUpTo
  <2>5. \A s, r \in Slots(ts) : table[s] = table[r] /\ table[s] # 0 => s = r
    BY DEF TableUpTo
  <2>6. \A s \in Slots(ts) : table[s] # 0 =>
          /\ ts[table[s]].tag \in Letters
          /\ \E k \in Slots(ts) :
               /\ s = Slot(ts, ts[table[s]].tag, ts[table[s]].content, k)
               /\ \A j \in 0..(k - 1) : table[Slot(ts, ts[table[s]].tag, ts[table[s]].content, j)] # 0
    BY DEF TableUpTo
  <2>7. TableUpTo(ts, m + 1, table)
    BY <2>2, <2>4, <2>5, <2>6 DEF TableUpTo
  <2> QED BY <2>1, <2>7
<1>6. CASE t \in Letters
  <2>1. new = [table EXCEPT ![s0] = m + 1]
    BY <1>2, <1>6 DEF Enter
  <2> HIDE DEF new, t, c
  <2>2. /\ first \in Slots(ts) /\ table[s0] = 0
        /\ \A j \in 0..(first - 1) : j \in Slots(ts) /\ table[Slot(ts, t, c, j)] # 0
    BY <1>0, <1>1, <1>6, FirstFree
  <2> HIDE DEF first
  <2>3. /\ \A k \in Slots(ts) : Slot(ts, t, c, k) \in Slots(ts)
        /\ s0 \in Slots(ts)
    BY <1>1, <1>6, <2>2, SlotIs
  <2>4. /\ new \in [Slots(ts) -> 0..(m + 1)]
        /\ new[s0] = m + 1
        /\ \A s \in Slots(ts) : s # s0 => new[s] = table[s]
    <3>1. m + 1 \in 0..(m + 1)
      BY <1>0
    <3> HIDE DEF s0
    <3> QED BY <1>3, <2>1, <2>3, <3>1
  <2>5. \A s \in Slots(ts) : table[s] # 0 => new[s] = table[s] /\ new[s] # 0
    BY <2>2, <2>4
  <2> HIDE DEF s0
  <2>6. ASSUME NEW s \in Slots(ts), NEW r \in Slots(ts), new[s] = new[r], new[s] # 0 PROVE s = r
    BY <1>3, <2>4, <2>6 DEF TableUpTo
  <2>7. ASSUME NEW s \in Slots(ts), new[s] # 0
        PROVE  /\ ts[new[s]].tag \in Letters
               /\ \E k \in Slots(ts) :
                    /\ s = Slot(ts, ts[new[s]].tag, ts[new[s]].content, k)
                    /\ \A j \in 0..(k - 1) : new[Slot(ts, ts[new[s]].tag, ts[new[s]].content, j)] # 0
    <3>1. CASE s = s0
      <4>1. \A j \in 0..(first - 1) : new[Slot(ts, t, c, j)] # 0
        BY <2>2, <2>3, <2>5
      <4>2. ts[new[s]].tag = t /\ ts[new[s]].content = c
        BY <2>4, <3>1 DEF t, c
      <4> QED BY <1>6, <2>2, <3>1, <4>1, <4>2 DEF s0
    <3>2. CASE s # s0
      <4>1. new[s] = table[s] /\ table[s] # 0
        BY <2>4, <2>7, <3>2
      <4> DEFINE u == ts[table[s]].tag
                 v == ts[table[s]].content
      <4>2. /\ u \in Letters
            /\ \E k \in Slots(ts) : s = Slot(ts, u, v, k) /\ \A j \in 0..(k - 1) : table[Slot(ts, u, v, j)] # 0
        BY <4>1 DEF TableUpTo
      <4>3. v \in Contents
        <5>1. table[s] \in 1..Len(ts)
          BY <1>0, <1>3, <4>1
        <5>2. ts[table[s]] \in Tag
          BY <5>1, ElementOfSeq
        <5> QED BY <5>2 DEF Tag
      <4> HIDE DEF u, v
      <4>4. PICK k \in Slots(ts) : s = Slot(ts, u, v, k) /\ \A j \in 0..(k - 1) : table[Slot(ts, u, v, j)] # 0
        BY <4>2
      <4>5. \A j \in 0..(k - 1) : j \in Slots(ts)
        BY <1>0 DEF Slots
      <4>6. \A j \in 0..(k - 1) : Slot(ts, u, v, j) \in Slots(ts)
        BY <4>2, <4>3, <4>5, SlotIs
      <4>7. \A j \in 0..(k - 1) : new[Slot(ts, u, v, j)] # 0
        BY <2>5, <4>4, <4>6
      <4> QED BY <4>1, <4>2, <4>4, <4>7 DEF u, v
    <3> QED BY <3>1, <3>2
  <2>8. ASSUME NEW i \in 1..(m + 1), ts[i].tag \in Letters PROVE \E s \in Slots(ts) : new[s] = i
    <3>1. CASE i = m + 1
      BY <2>3, <2>4, <3>1
    <3>2. CASE i \in 1..m
      <4>1. PICK s \in Slots(ts) : table[s] = i
        BY <2>8, <3>2 DEF TableUpTo
      <4>2. i # 0
        BY <3>2
      <4> QED BY <2>5, <4>1, <4>2
    <3> QED BY <1>4, <3>1, <3>2
  <2>9. TableUpTo(ts, m + 1, new)
    BY <2>4, <2>6, <2>7, <2>8 DEF TableUpTo
  <2> QED BY <2>9 DEF new
<1> QED BY <1>5, <1>6

LEMMA EmptyTable ==
  ASSUME NEW ts \in Seq(Tag)
  PROVE  TableUpTo(ts, 0, [k \in 0..(TableSize(ts) - 1) |-> 0])
<1> DEFINE table == [k \in 0..(TableSize(ts) - 1) |-> 0]
<1>1. 0..(TableSize(ts) - 1) = Slots(ts)
  BY DEF TableSize, Slots
<1>2. table \in [Slots(ts) -> 0..0] /\ \A s \in Slots(ts) : table[s] = 0
  <2>1. 0 \in 0..0
    OBVIOUS
  <2> QED BY <1>1, <2>1
<1>3. \A i \in 1..0 : FALSE
  OBVIOUS
<1> HIDE DEF table
<1>4. TableUpTo(ts, 0, table)
  BY <1>2, <1>3 DEF TableUpTo
<1> QED BY <1>4 DEF table

\* Whatever it is given, Enter makes a table of positions.
LEMMA EnterType ==
  ASSUME NEW ts \in Seq(Tag), Len(ts) < Width, NEW i \in 1..Len(ts),
         NEW table \in [Slots(ts) -> 0..Len(ts)]
  PROVE  Enter(ts, table, i) \in [Slots(ts) -> 0..Len(ts)]
<1> DEFINE s0 == Slot(ts, ts[i].tag, ts[i].content,
                      Min({k \in 0..(TableSize(ts) - 1) : table[Slot(ts, ts[i].tag, ts[i].content, k)] = 0}))
<1>1. i % Width = i /\ i \in 0..Len(ts)
  BY EventCodecsAssumption
<1>2. Enter(ts, table, i) = IF ts[i].tag \notin Letters THEN table ELSE [table EXCEPT ![s0] = i]
  BY <1>1 DEF Enter
<1> HIDE DEF s0
<1> QED BY <1>1, <1>2

\* build_hash_map enters the tags one by one.
LEMMA TableSteps ==
  ASSUME NEW ts \in Seq(Tag), Len(ts) < Width
  PROVE  \E T : /\ T[0] = [k \in 0..(TableSize(ts) - 1) |-> 0]
                /\ \A m \in 0..(Len(ts) - 1) : T[m + 1] = Enter(ts, T[m], m + 1)
                /\ build_hash_map(ts) = T[Len(ts)]
<1> DEFINE n == Len(ts)
           D == [Slots(ts) -> 0..n]
           b == [k \in 0..(TableSize(ts) - 1) |-> 0]
           step == [x \in (1..n) \X D |-> Enter(ts, x[2], x[1])]
           q == [i \in 1..n |-> i]
           Solves(g) == g = [s \in SUBSET (1..n) |->
                               IF s = {} THEN b ELSE Enter(ts, g[s \ {Max(s)}], q[Max(s)])]
<1>0. n \in Nat
  OBVIOUS
<1>1. b \in D
  <2>1. 0..(TableSize(ts) - 1) = Slots(ts) /\ 0 \in 0..n
    BY <1>0 DEF TableSize, Slots
  <2> QED BY <2>1
<1>2. step \in [(1..n) \X D -> D]
  BY EnterType
<1>3. PICK g \in [SUBSET (1..n) -> D] : FoldsSteps(g, b, n, step)
  <2> HIDE DEF D, b, step
  <2> QED BY <1>0, <1>1, <1>2, FoldExists
<1>4. Solves(g)
  <2>1. ASSUME NEW s \in SUBSET (1..n), s # {}
        PROVE  step[<<Max(s), g[s \ {Max(s)}]>>] = Enter(ts, g[s \ {Max(s)}], q[Max(s)])
    <3>1. s \in SUBSET (0..n)
      OBVIOUS
    <3>2. Max(s) \in 1..n
      BY <1>0, <2>1, <3>1, MaxIs
    <3>3. g[s \ {Max(s)}] \in D
      BY <1>3
    <3> HIDE DEF D
    <3> QED BY <3>2, <3>3
  <2> HIDE DEF b, step, q
  <2> QED BY <1>3, <2>1, Zenon DEF FoldsSteps
<1> HIDE DEF Solves
<1> DEFINE h == CHOOSE g1 : Solves(g1)
<1>5. Solves(h)
  BY <1>4, Zenon
<1>6. DOMAIN q = 1..n
  OBVIOUS
<1>7. build_hash_map(ts) = h[1..n]
  BY <1>6, Zenon DEF build_hash_map, FoldLeft, MapThenFoldSet, Solves
<1> HIDE DEF h
<1> DEFINE T == [m \in 0..n |-> h[1..m]]
<1>8. T[0] = b
  <2>1. 1..0 = {} /\ {} \in SUBSET (1..n) /\ 0 \in 0..n
    OBVIOUS
  <2>2. h[{}] = b
    BY <1>5, <2>1, Zenon DEF Solves
  <2> QED BY <2>1, <2>2
<1>9. ASSUME NEW m \in 0..(n - 1) PROVE T[m + 1] = Enter(ts, T[m], m + 1)
  <2>1. m \in Nat /\ m \in 0..n /\ m + 1 \in 0..n /\ m + 1 \in 1..n
    BY <1>0
  <2>2. /\ 1..(m + 1) \in SUBSET (1..n) /\ 1..(m + 1) # {}
        /\ Max(1..(m + 1)) = m + 1 /\ (1..(m + 1)) \ {m + 1} = 1..m
    BY <1>0, SegmentOf
  <2>3. q[m + 1] = m + 1
    BY <2>1
  <2> HIDE DEF q, b
  <2>4. h[1..(m + 1)] = Enter(ts, h[(1..(m + 1)) \ {Max(1..(m + 1))}], q[Max(1..(m + 1))])
    BY <1>5, <2>2, Zenon DEF Solves
  <2> QED BY <2>1, <2>2, <2>3, <2>4
<1>10. T[n] = h[1..n]
  BY <1>0
<1> HIDE DEF T
<1> QED BY <1>7, <1>8, <1>9, <1>10

LEMMA TableBuilt ==
  ASSUME NEW ts \in Seq(Tag), Len(ts) < Width
  PROVE  TableUpTo(ts, Len(ts), build_hash_map(ts))
<1>1. PICK T : /\ T[0] = [k \in 0..(TableSize(ts) - 1) |-> 0]
               /\ \A m \in 0..(Len(ts) - 1) : T[m + 1] = Enter(ts, T[m], m + 1)
               /\ build_hash_map(ts) = T[Len(ts)]
  BY TableSteps
<1> DEFINE S == {m \in Nat : m <= Len(ts) => TableUpTo(ts, m, T[m])}
<1>2. 0 \in S
  BY <1>1, EmptyTable
<1>3. ASSUME NEW m \in Nat, m \in S PROVE m + 1 \in S
  <2> SUFFICES ASSUME m + 1 <= Len(ts) PROVE TableUpTo(ts, m + 1, T[m + 1])
    OBVIOUS
  <2>1. m \in 0..(Len(ts) - 1) /\ m <= Len(ts)
    OBVIOUS
  <2>2. TableUpTo(ts, m, T[m])
    BY <1>3, <2>1
  <2>3. TableUpTo(ts, m + 1, Enter(ts, T[m], m + 1))
    BY <2>1, <2>2, EnterKeeps
  <2> QED BY <1>1, <2>1, <2>3
<1>4. Len(ts) \in Nat /\ Len(ts) <= Len(ts)
  OBVIOUS
<1>5. Len(ts) \in S
  <2> HIDE DEF S
  <2> QED BY <1>2, <1>3, <1>4, AllNaturals
<1> QED BY <1>1, <1>4, <1>5

\* A search ends at a free slot, or before it at the tag; the tag cannot be behind it.
LEMMA FindFinds ==
  ASSUME NEW ts \in Seq(Tag), Len(ts) < Width, NEW t \in Letters, NEW c \in Contents
  PROVE  /\ find_indexed_tag(ts, t, c) \in 0..Len(ts)
         /\ find_indexed_tag(ts, t, c) # 0 =>
              ts[find_indexed_tag(ts, t, c)].tag = t /\ ts[find_indexed_tag(ts, t, c)].content = c
         /\ find_indexed_tag(ts, t, c) = 0 => ~\E i \in 1..Len(ts) : ts[i].tag = t /\ ts[i].content = c
<1> DEFINE table == build_hash_map(ts)
           Entry(k) == table[Slot(ts, t, c, k)]
           IsIt(i) == ts[i].tag = t /\ ts[i].content = c
           K == {k \in Slots(ts) : Entry(k) = 0 \/ IsIt(Entry(k))}
           first == Min(K)
<1>0. Len(ts) \in Nat /\ 2 * Len(ts) \in Nat /\ Len(ts) \in 0..Len(ts)
  OBVIOUS
<1>1. TableUpTo(ts, Len(ts), table)
  BY TableBuilt
<1> HIDE DEF table
<1>2. PICK k \in Slots(ts) : Entry(k) = 0
  BY <1>0, <1>1, FreeSlot
<1>3. K \in SUBSET Nat /\ K # {} /\ K \subseteq 0..(2 * Len(ts))
  BY <1>0, <1>2, NaturalsOf DEF Slots
<1>4. first \in K /\ \A x \in K : first <= x
  <2> HIDE DEF K
  <2> QED BY <1>3, MinIs
<1>5. find_indexed_tag(ts, t, c) = Entry(first)
  <2>1. 0..(TableSize(ts) - 1) = Slots(ts)
    BY SlotIs
  <2> QED BY <2>1, Zenon DEF find_indexed_tag, table
<1>6. \A x \in Slots(ts) : Slot(ts, t, c, x) \in Slots(ts)
  BY SlotIs
<1>7. \A x \in Slots(ts) : Entry(x) \in 0..Len(ts)
  BY <1>1, <1>6 DEF TableUpTo
<1> HIDE DEF first
<1>8. ASSUME Entry(first) = 0, NEW i \in 1..Len(ts), IsIt(i) PROVE FALSE
  <2>1. PICK s \in Slots(ts) : table[s] = i
    BY <1>1, <1>8 DEF TableUpTo
  <2>2. i # 0
    OBVIOUS
  <2>3. PICK x \in Slots(ts) : s = Slot(ts, t, c, x) /\ \A j \in 0..(x - 1) : table[Slot(ts, t, c, j)] # 0
    BY <1>1, <1>8, <2>1, <2>2, SMTT(20) DEF TableUpTo
  <2>4. x \in K
    BY <1>8, <2>1, <2>3
  <2>5. first <= x /\ first \in Nat /\ x \in Nat
    BY <1>3, <1>4, <2>4
  <2>6. first # x
    BY <1>8, <2>1, <2>2, <2>3
  <2>7. first \in 0..(x - 1)
    BY <2>5, <2>6
  <2> QED BY <1>8, <2>3, <2>7
<1>9. Entry(first) # 0 => IsIt(Entry(first))
  BY <1>4
<1>10. Entry(first) \in 0..Len(ts)
  BY <1>4, <1>7
<1> HIDE DEF Entry
<1> QED BY <1>5, <1>8, <1>9, <1>10

\* build_hash_map and find_indexed_tag, for any hash and any number of tags whose positions
\* fit the table: the tag is found if the event has it.
THEOREM FindsTags == Spec => []TagsFound
<1>1. CodecsTypeOK => TagsFound
  <2> SUFFICES ASSUME CodecsTypeOK, Len(tags) < Width, NEW t \in Letters, NEW c \in Contents
               PROVE  LET i == find_indexed_tag(tags, t, c)
                          Here(j) == tags[j] = [tag |-> t, content |-> c]
                      IN IF i = 0 THEN ~\E j \in DOMAIN tags : Here(j) ELSE Here(i)
    BY DEF TagsFound
  <2>1. tags \in Seq(Tag)
    BY DEF CodecsTypeOK, Tag
  <2> DEFINE i == find_indexed_tag(tags, t, c)
  <2>2. /\ i \in 0..Len(tags)
        /\ i # 0 => tags[i].tag = t /\ tags[i].content = c
        /\ i = 0 => ~\E j \in 1..Len(tags) : tags[j].tag = t /\ tags[j].content = c
    BY <2>1, FindFinds
  <2> HIDE DEF i
  <2>3. \A j \in 1..Len(tags) : tags[j] = [tag |-> tags[j].tag, content |-> tags[j].content]
    <3> TAKE j \in 1..Len(tags)
    <3>1. tags[j] \in Tag
      BY <2>1, ElementOfSeq
    <3> QED BY <3>1 DEF Tag
  <2>4. DOMAIN tags = 1..Len(tags)
    BY <2>1
  <2>5. CASE i = 0
    BY <2>2, <2>4, <2>5 DEF i
  <2>6. CASE i # 0
    <3>1. i \in 1..Len(tags)
      BY <2>1, <2>2, <2>6
    <3> QED BY <2>2, <2>3, <2>6, <3>1 DEF i
  <2> QED BY <2>5, <2>6
<1> QED BY <1>1, CodecsTyped, PTL

-----------------------------------------------------------------------------
(* Proof of work.                                                          *)

LEMMA PowersExist ==
  ASSUME NEW n \in Nat
  PROVE  \E f \in [0..n -> Nat] : f = [k \in 0..n |-> IF k = 0 THEN 1 ELSE 2 * f[k - 1]]
<1> DEFINE Powers(f, m) == /\ f \in [0..m -> Nat]
                           /\ f[0] = 1
                           /\ \A k \in 1..m : f[k] = 2 * f[k - 1]
           S == {m \in Nat : \E f : Powers(f, m)}
<1>1. 0 \in S
  <2> DEFINE f == [k \in 0..0 |-> 1]
  <2>1. f \in [0..0 -> Nat] /\ f[0] = 1 /\ \A k \in 1..0 : FALSE
    <3>1. 0 \in 0..0 /\ \A k \in 1..0 : FALSE
      OBVIOUS
    <3> QED BY <3>1
  <2>2. Powers(f, 0)
    BY <2>1
  <2> QED BY <2>2
<1>2. ASSUME NEW m \in Nat, m \in S PROVE m + 1 \in S
  <2>1. PICK f : Powers(f, m)
    BY <1>2
  <2> DEFINE h == [k \in 0..(m + 1) |-> IF k = m + 1 THEN 2 * f[m] ELSE f[k]]
  <2>2. /\ \A k \in 0..(m + 1) : k # m + 1 => k \in 0..m
        /\ m + 1 # 0 /\ m \in 0..m /\ m # m + 1 /\ m \in 0..(m + 1) /\ 0 \in 0..(m + 1) /\ m + 1 \in 0..(m + 1)
        /\ \A k \in 1..(m + 1) : k \in 0..(m + 1) /\ k - 1 \in 0..(m + 1) /\ k - 1 # m + 1
        /\ \A k \in 1..(m + 1) : k # m + 1 => k \in 1..m
        /\ (m + 1) - 1 = m
    OBVIOUS
  <2>3. \A k \in 0..(m + 1) : h[k] = IF k = m + 1 THEN 2 * f[m] ELSE f[k]
    OBVIOUS
  <2>4. \A k \in 0..m : f[k] \in Nat
    BY <2>1
  <2>5. h \in [0..(m + 1) -> Nat]
    BY <2>2, <2>4
  <2> HIDE DEF h
  <2>6. h[0] = 1
    BY <2>1, <2>2, <2>3
  <2>7. ASSUME NEW k \in 1..(m + 1) PROVE h[k] = 2 * h[k - 1]
    <3>1. CASE k = m + 1
      BY <2>2, <2>3, <3>1
    <3>2. CASE k # m + 1
      BY <2>1, <2>2, <2>3, <3>2
    <3> QED BY <3>1, <3>2
  <2>8. Powers(h, m + 1)
    BY <2>5, <2>6, <2>7
  <2> HIDE DEF Powers
  <2> QED BY <2>8
<1> HIDE DEF S
<1>3. n \in S
  BY <1>1, <1>2, AllNaturals
<1>4. PICK f : Powers(f, n)
  BY <1>3 DEF S
<1>5. \A k \in 0..n : k # 0 => k \in 1..n
  OBVIOUS
<1>6. \A k \in 0..n : f[k] = IF k = 0 THEN 1 ELSE 2 * f[k - 1]
  BY <1>4, <1>5
<1> QED BY <1>4, <1>6

LEMMA PowerSteps ==
  /\ PowerOfTwo \in [0..(4 * IdLength) -> Nat \ {0}]
  /\ PowerOfTwo[0] = 1
  /\ \A k \in 1..(4 * IdLength) : PowerOfTwo[k] = 2 * PowerOfTwo[k - 1]
<1> DEFINE n == 4 * IdLength
           Solves(f) == f = [k \in 0..n |-> IF k = 0 THEN 1 ELSE 2 * f[k - 1]]
<1>0. n \in Nat
  BY EventCodecsAssumption
<1>1. \E f : Solves(f)
  BY <1>0, PowersExist
<1>2. PowerOfTwo = CHOOSE f : Solves(f)
  BY DEF PowerOfTwo
<1> HIDE DEF Solves
<1>3. Solves(PowerOfTwo)
  BY <1>1, <1>2, Zenon
<1>4. PowerOfTwo = [k \in 0..n |-> IF k = 0 THEN 1 ELSE 2 * PowerOfTwo[k - 1]]
  BY <1>3, Zenon DEF Solves
<1> HIDE DEF n
<1>5. 0 \in 0..n /\ \A k \in 1..n : k \in 0..n /\ k # 0
  BY <1>0
<1>6. PowerOfTwo[0] = 1 /\ \A k \in 1..n : PowerOfTwo[k] = 2 * PowerOfTwo[k - 1]
  BY <1>4, <1>5, Zenon
<1> DEFINE S == {m \in Nat : m <= n => PowerOfTwo[m] \in Nat \ {0}}
<1>7. 0 \in S
  BY <1>6
<1>8. ASSUME NEW m \in Nat, m \in S PROVE m + 1 \in S
  <2> SUFFICES ASSUME m + 1 <= n PROVE PowerOfTwo[m + 1] \in Nat \ {0}
    OBVIOUS
  <2>1. m <= n /\ m + 1 \in 1..n /\ (m + 1) - 1 = m
    BY <1>0
  <2>2. PowerOfTwo[m] \in Nat \ {0}
    BY <1>8, <2>1
  <2>3. PowerOfTwo[m + 1] = 2 * PowerOfTwo[m]
    BY <1>6, <2>1
  <2> QED BY <2>2, <2>3
<1>9. \A m \in Nat : m \in S
  <2> HIDE DEF S
  <2> QED BY <1>7, <1>8, AllNaturals
<1>10. \A m \in 0..n : PowerOfTwo[m] \in Nat \ {0}
  BY <1>0, <1>9
<1>11. PowerOfTwo \in [0..n -> Nat \ {0}]
  <2>1. DOMAIN PowerOfTwo = 0..n
    BY <1>4, Zenon
  <2>2. PowerOfTwo = [m \in 0..n |-> PowerOfTwo[m]]
    BY <1>4, <2>1, Zenon
  <2> QED BY <1>10, <2>2, Zenon
<1> QED BY <1>6, <1>11, Zenon DEF n

LEMMA PowersGrow ==
  ASSUME NEW j \in 0..(4 * IdLength), NEW k \in 0..(4 * IdLength), j <= k
  PROVE  PowerOfTwo[j] <= PowerOfTwo[k]
<1> DEFINE n == 4 * IdLength
           S == {d \in Nat : j + d <= n => PowerOfTwo[j] <= PowerOfTwo[j + d]}
<1>0. n \in Nat /\ \A i \in 0..n : PowerOfTwo[i] \in Nat
  <2>1. PowerOfTwo \in [0..n -> Nat \ {0}]
    BY PowerSteps
  <2> QED BY <2>1, EventCodecsAssumption
<1> HIDE DEF n
<1>1. 0 \in S
  <2>1. j + 0 = j /\ PowerOfTwo[j] \in Nat
    BY <1>0 DEF n
  <2> QED BY <2>1
<1>2. ASSUME NEW d \in Nat, d \in S PROVE d + 1 \in S
  <2> SUFFICES ASSUME j + (d + 1) <= n PROVE PowerOfTwo[j] <= PowerOfTwo[j + (d + 1)]
    OBVIOUS
  <2>1. /\ j \in 0..n /\ j + d <= n /\ j + d \in 0..n /\ j + (d + 1) \in 1..n /\ (j + (d + 1)) - 1 = j + d
    BY <1>0 DEF n
  <2>2. PowerOfTwo[j] <= PowerOfTwo[j + d]
    BY <1>2, <2>1
  <2>3. PowerOfTwo[j + (d + 1)] = 2 * PowerOfTwo[j + d]
    BY <2>1, PowerSteps DEF n
  <2> QED BY <1>0, <2>1, <2>2, <2>3
<1>3. k - j \in Nat /\ j + (k - j) = k /\ k <= n
  BY <1>0 DEF n
<1>4. k - j \in S
  <2> HIDE DEF S
  <2> QED BY <1>1, <1>2, <1>3, AllNaturals
<1> QED BY <1>3, <1>4

\* The number an id is, read digit by digit.
LEMMA ValueSteps ==
  ASSUME NEW ds \in Seq(Nat)
  PROVE  \E T : /\ T[0] = 0
                /\ \A m \in 0..(Len(ds) - 1) : T[m + 1] = 16 * T[m] + ds[m + 1]
                /\ FoldLeft(LAMBDA n, d : 16 * n + d, 0, ds) = T[Len(ds)]
<1> DEFINE n == Len(ds)
           step == [x \in (1..n) \X Nat |-> 16 * x[2] + ds[x[1]]]
           Solves(g) == g = [s \in SUBSET (1..n) |->
                               IF s = {} THEN 0 ELSE 16 * g[s \ {Max(s)}] + ds[Max(s)]]
<1>0. n \in Nat
  OBVIOUS
<1>1. step \in [(1..n) \X Nat -> Nat]
  <2>1. \A i \in 1..n : ds[i] \in Nat
    BY ElementOfSeq
  <2>2. \A i \in 1..n, v \in Nat : 16 * v + ds[i] \in Nat
    BY <2>1
  <2> QED BY <2>2
<1>2. PICK g \in [SUBSET (1..n) -> Nat] : FoldsSteps(g, 0, n, step)
  <2> HIDE DEF step
  <2> QED BY <1>0, <1>1, FoldExists
<1>3. Solves(g)
  <2>1. ASSUME NEW s \in SUBSET (1..n), s # {}
        PROVE  step[<<Max(s), g[s \ {Max(s)}]>>] = 16 * g[s \ {Max(s)}] + ds[Max(s)]
    <3>1. s \in SUBSET (0..n)
      OBVIOUS
    <3>2. Max(s) \in 1..n
      BY <1>0, <2>1, <3>1, MaxIs
    <3>3. g[s \ {Max(s)}] \in Nat
      BY <1>2
    <3> QED BY <3>2, <3>3
  <2> HIDE DEF step
  <2> QED BY <1>2, <2>1, Zenon DEF FoldsSteps
<1> HIDE DEF Solves
<1> DEFINE h == CHOOSE g1 : Solves(g1)
<1>4. Solves(h)
  BY <1>3, Zenon
<1>5. FoldLeft(LAMBDA v, d : 16 * v + d, 0, ds) = h[1..n]
  <2>1. DOMAIN ds = 1..n
    OBVIOUS
  <2> QED BY <2>1, Zenon DEF FoldLeft, MapThenFoldSet, Solves
<1> HIDE DEF h
<1> DEFINE T == [m \in 0..n |-> h[1..m]]
<1>6. T[0] = 0
  <2>1. 1..0 = {} /\ {} \in SUBSET (1..n) /\ 0 \in 0..n
    OBVIOUS
  <2>2. h[{}] = 0
    BY <1>4, <2>1, Zenon DEF Solves
  <2> QED BY <2>1, <2>2
<1>7. ASSUME NEW m \in 0..(n - 1) PROVE T[m + 1] = 16 * T[m] + ds[m + 1]
  <2>1. m \in Nat /\ m \in 0..n /\ m + 1 \in 0..n
    BY <1>0
  <2>2. /\ 1..(m + 1) \in SUBSET (1..n) /\ 1..(m + 1) # {}
        /\ Max(1..(m + 1)) = m + 1 /\ (1..(m + 1)) \ {m + 1} = 1..m
    BY <1>0, SegmentOf
  <2>3. h[1..(m + 1)] = 16 * h[(1..(m + 1)) \ {Max(1..(m + 1))}] + ds[Max(1..(m + 1))]
    BY <1>4, <2>2, Zenon DEF Solves
  <2> QED BY <2>1, <2>2, <2>3
<1>8. T[n] = h[1..n]
  BY <1>0
<1> HIDE DEF T
<1> QED BY <1>5, <1>6, <1>7, <1>8

LEMMA ZeroBitsOf ==
  ASSUME NEW d \in 1..15
  PROVE  ZeroBits(d) \in 0..3 /\
         \/ ZeroBits(d) = 3 /\ d = 1
         \/ ZeroBits(d) = 2 /\ 2 <= d /\ d < 4
         \/ ZeroBits(d) = 1 /\ 4 <= d /\ d < 8
         \/ ZeroBits(d) = 0 /\ 8 <= d
<1>1. CASE d = 1
  BY <1>1 DEF ZeroBits
<1>2. CASE d \in 2..3
  BY <1>2 DEF ZeroBits
<1>3. CASE d \in 4..7
  BY <1>3 DEF ZeroBits
<1>4. CASE d \in 8..15
  BY <1>4 DEF ZeroBits
<1> QED BY <1>1, <1>2, <1>3, <1>4

LEMMA FourMore ==
  ASSUME NEW k \in Nat, k + 4 <= 4 * IdLength
  PROVE  PowerOfTwo[k + 4] = 16 * PowerOfTwo[k] /\ PowerOfTwo[k] \in Nat \ {0} /\ PowerOfTwo[k + 4] \in Nat
<1> DEFINE n == 4 * IdLength
<1>0. n \in Nat
  BY EventCodecsAssumption
<1>1. /\ PowerOfTwo \in [0..n -> Nat \ {0}]
      /\ \A i \in 1..n : PowerOfTwo[i] = 2 * PowerOfTwo[i - 1]
  BY PowerSteps
<1> HIDE DEF n
<1>2. k + 4 <= n
  BY DEF n
<1>3. /\ k + 1 \in 1..n /\ k + 2 \in 1..n /\ k + 3 \in 1..n /\ k + 4 \in 1..n /\ k \in 0..n
      /\ (k + 1) - 1 = k /\ (k + 2) - 1 = k + 1 /\ (k + 3) - 1 = k + 2 /\ (k + 4) - 1 = k + 3
  BY <1>0, <1>2
<1>4. PowerOfTwo[k] \in Nat \ {0}
  BY <1>1, <1>3
<1>5. PowerOfTwo[k + 1] = 2 * PowerOfTwo[k]
  BY <1>1, <1>3
<1>6. PowerOfTwo[k + 2] = 2 * PowerOfTwo[k + 1]
  BY <1>1, <1>3
<1>7. PowerOfTwo[k + 3] = 2 * PowerOfTwo[k + 2]
  BY <1>1, <1>3
<1>8. PowerOfTwo[k + 4] = 2 * PowerOfTwo[k + 3]
  BY <1>1, <1>3
<1> QED BY <1>4, <1>5, <1>6, <1>7, <1>8

LEMMA SmallPowers ==
  /\ PowerOfTwo[0] = 1 /\ PowerOfTwo[1] = 2 /\ PowerOfTwo[2] = 4 /\ PowerOfTwo[3] = 8 /\ PowerOfTwo[4] = 16
<1>1. /\ 1 \in 1..(4 * IdLength) /\ 2 \in 1..(4 * IdLength) /\ 3 \in 1..(4 * IdLength) /\ 4 \in 1..(4 * IdLength)
      /\ 1 - 1 = 0 /\ 2 - 1 = 1 /\ 3 - 1 = 2 /\ 4 - 1 = 3
  BY EventCodecsAssumption
<1>2. PowerOfTwo[0] = 1 /\ \A k \in 1..(4 * IdLength) : PowerOfTwo[k] = 2 * PowerOfTwo[k - 1]
  BY PowerSteps
<1>3. PowerOfTwo[1] = 2 * 1
  BY <1>1, <1>2, Zenon
<1>4. PowerOfTwo[2] = 2 * PowerOfTwo[1]
  BY <1>1, <1>2, Zenon
<1>5. PowerOfTwo[3] = 2 * PowerOfTwo[2]
  BY <1>1, <1>2, Zenon
<1>6. PowerOfTwo[4] = 2 * PowerOfTwo[3]
  BY <1>1, <1>2, Zenon
<1> QED BY <1>2, <1>3, <1>4, <1>5, <1>6

\* The first digit other than 0 and the digits behind it say between which powers of two the
\* number is.
LEMMA ValueBounds ==
  ASSUME NEW ds \in Seq(0..15), Len(ds) = IdLength, NEW T, T[0] = 0,
         \A m \in 0..(IdLength - 1) : T[m + 1] = 16 * T[m] + ds[m + 1],
         NEW stop \in 1..IdLength, ds[stop] # 0, \A i \in 1..(stop - 1) : ds[i] = 0,
         NEW k, k = 4 * (IdLength - stop) + (4 - ZeroBits(ds[stop]))
  PROVE  /\ k \in 1..(4 * IdLength) /\ k - 1 \in 0..(4 * IdLength)
         /\ T[IdLength] \in Nat /\ PowerOfTwo[k - 1] <= T[IdLength] /\ T[IdLength] < PowerOfTwo[k]
<1> DEFINE L == IdLength
           b == 4 - ZeroBits(ds[stop])
<1>0. L \in Nat /\ stop \in Nat /\ stop >= 1 /\ stop <= L /\ L >= 1
  BY EventCodecsAssumption
<1>1. \A i \in 1..L : ds[i] \in 0..15 /\ ds[i] \in Nat /\ ds[i] <= 15
  <2>1. \A i \in 1..L : ds[i] \in 0..15
    BY ElementOfSeq
  <2>2. \A d \in 0..15 : d \in Nat /\ d <= 15
    OBVIOUS
  <2> QED BY <2>1, <2>2
<1>2. ds[stop] \in 1..15
  BY <1>1
<1>3. b \in 1..4 /\ PowerOfTwo[b - 1] <= ds[stop] /\ ds[stop] < PowerOfTwo[b]
  <2> DEFINE d == ds[stop]
             z == ZeroBits(d)
  <2>1. /\ z \in 0..3 /\ d \in 1..15
        /\ \/ z = 3 /\ d = 1
           \/ z = 2 /\ 2 <= d /\ d < 4
           \/ z = 1 /\ 4 <= d /\ d < 8
           \/ z = 0 /\ 8 <= d
    <3> HIDE DEF d
    <3>1. d \in 1..15
      BY <1>2 DEF d
    <3> QED BY <3>1, ZeroBitsOf
  <2> HIDE DEF d, z
  <2>2. (4 - z) \in 1..4 /\ PowerOfTwo[(4 - z) - 1] <= d /\ d < PowerOfTwo[4 - z]
    BY ONLY <2>1, SmallPowers, SMTT(20)
  <2> QED BY <2>2 DEF d, z
<1> HIDE DEF L, b
<1>4. \A m \in 0..(L - 1) : T[m + 1] = 16 * T[m] + ds[m + 1]
  BY DEF L
<1> DEFINE S == {m \in Nat : m <= stop - 1 => T[m] = 0}
<1>5. 0 \in S
  OBVIOUS
<1>6. ASSUME NEW m \in Nat, m \in S PROVE m + 1 \in S
  <2> SUFFICES ASSUME m + 1 <= stop - 1 PROVE T[m + 1] = 0
    OBVIOUS
  <2>1. m \in 0..(L - 1) /\ m <= stop - 1 /\ m + 1 \in 1..(stop - 1)
    BY <1>0
  <2>2. T[m] = 0 /\ ds[m + 1] = 0
    BY <1>6, <2>1
  <2>3. T[m + 1] = 16 * T[m] + ds[m + 1]
    BY <1>4, <2>1
  <2> QED BY <2>2, <2>3
<1>7. T[stop - 1] = 0
  <2>1. stop - 1 \in Nat
    BY <1>0
  <2>2. stop - 1 \in S
    <3> HIDE DEF S
    <3> QED BY <1>5, <1>6, <2>1, AllNaturals
  <2> QED BY <2>1, <2>2
<1>8. T[stop] = ds[stop]
  <2>1. stop - 1 \in 0..(L - 1) /\ (stop - 1) + 1 = stop
    BY <1>0
  <2>2. T[stop] = 16 * T[stop - 1] + ds[stop]
    BY <1>4, <2>1
  <2> QED BY ONLY <1>2, <1>7, <2>2, SMTT(20)
<1> HIDE DEF S
<1> DEFINE Between(e) == /\ T[stop + e] \in Nat
                         /\ PowerOfTwo[4 * e + b - 1] <= T[stop + e]
                         /\ T[stop + e] < PowerOfTwo[4 * e + b]
           R == {e \in Nat : stop + e <= L => Between(e)}
<1>9. 0 \in R
  <2>1. stop + 0 = stop /\ 4 * 0 + b - 1 = b - 1 /\ 4 * 0 + b = b
    BY <1>0, <1>3
  <2>2. T[stop + 0] = ds[stop]
    BY <1>8, <2>1, Zenon
  <2>3. /\ T[stop + 0] \in Nat
        /\ PowerOfTwo[b - 1] <= T[stop + 0] /\ T[stop + 0] < PowerOfTwo[b]
    <3>1. ds[stop] \in Nat
      BY ONLY <1>2, SMTT(20)
    <3> QED BY <1>3, <2>2, <3>1, Zenon
  <2>4. Between(0)
    BY <2>1, <2>3, Zenon
  <2> HIDE DEF Between
  <2> QED BY <2>4
<1>10. ASSUME NEW e \in Nat, e \in R PROVE e + 1 \in R
  <2> SUFFICES ASSUME stop + (e + 1) <= L PROVE Between(e + 1)
    OBVIOUS
  <2>1. /\ stop + e \in 0..(L - 1) /\ stop + e <= L /\ stop + (e + 1) = (stop + e) + 1 /\ (stop + e) + 1 \in 1..L
        /\ 4 * (e + 1) + b = (4 * e + b) + 4 /\ 4 * (e + 1) + b - 1 = (4 * e + b - 1) + 4
        /\ 4 * e + b \in Nat /\ 4 * e + b - 1 \in Nat /\ (4 * e + b) + 4 <= 4 * L /\ (4 * e + b - 1) + 4 <= 4 * L
    BY <1>0, <1>3
  <2>2. Between(e)
    BY <1>10, <2>1
  <2>3. T[(stop + e) + 1] = 16 * T[stop + e] + ds[(stop + e) + 1]
    BY <1>4, <2>1
  <2> DEFINE p == PowerOfTwo[4 * e + b - 1]
             q == PowerOfTwo[4 * e + b]
             v == T[stop + e]
             d == ds[(stop + e) + 1]
  <2>4. /\ PowerOfTwo[(4 * e + b - 1) + 4] = 16 * p /\ p \in Nat
        /\ PowerOfTwo[(4 * e + b) + 4] = 16 * q /\ q \in Nat
    BY <2>1, FourMore DEF L
  <2>5. d \in Nat /\ d <= 15 /\ v \in Nat /\ p <= v /\ v < q /\ T[(stop + e) + 1] = 16 * v + d
    BY <1>1, <2>1, <2>2, <2>3 DEF L
  <2> HIDE DEF p, q, v, d
  <2>6. 16 * v + d \in Nat /\ 16 * p <= 16 * v + d /\ 16 * v + d < 16 * q
    BY <2>4, <2>5
  <2> QED BY <2>1, <2>4, <2>5, <2>6, Zenon
<1>11. Between(L - stop)
  <2>1. L - stop \in Nat /\ stop + (L - stop) <= L
    BY <1>0
  <2>2. L - stop \in R
    <3> HIDE DEF R
    <3> QED BY <1>9, <1>10, <2>1, AllNaturals
  <2> HIDE DEF Between
  <2> QED BY <2>1, <2>2
<1>12. stop + (L - stop) = L /\ 4 * (L - stop) + b = k
  BY <1>0, <1>3 DEF L, b
<1>13. k \in 1..(4 * L) /\ k - 1 \in 0..(4 * L) /\ 4 * (L - stop) + b - 1 = k - 1
  BY <1>0, <1>3, <1>12
<1> QED BY <1>11, <1>12, <1>13 DEF L

\* check_pow and the id as a number: whatever digits follow the first other than 0, the zero
\* bits up to there are the leading zero bits of the whole.
THEOREM SmallIdsWork == Spec => []WorkIsSmallness
<1>1. CodecsTypeOK => WorkIsSmallness
  <2> DEFINE value == FoldLeft(LAMBDA n, d : 16 * n + d, 0, id)
             L == IdLength
  <2> SUFFICES ASSUME CodecsTypeOK, Len(id) = IdLength, NotHex \notin ToSet(id), NEW pow \in 0..(4 * IdLength)
               PROVE  check_pow(id, pow) <=> value < PowerOfTwo[4 * IdLength - pow]
    BY Zenon DEF WorkIsSmallness
  <2>0. L \in Nat /\ 4 * L - pow \in 0..(4 * L) /\ pow \in Int
    BY EventCodecsAssumption
  <2>1. id \in Seq(0..15) /\ id \in Seq(Nat)
    <3>1. id \in Seq(0..15 \cup {NotHex})
      BY DEF CodecsTypeOK, Digits
    <3>2. \A i \in 1..Len(id) : id[i] \in 0..15
      BY <3>1, ElementOfSeq, SMTT(20) DEF ToSet
    <3>3. id \in [1..Len(id) -> 0..15] /\ Len(id) \in Nat
      BY <3>1, <3>2, LenProperties
    <3>4. id \in Seq(0..15)
      BY ONLY <3>3, SMTT(20)
    <3> QED BY ONLY <3>4, SeqMonotonic, SMTT(20)
  <2>2. PICK T : /\ T[0] = 0
                 /\ \A m \in 0..(Len(id) - 1) : T[m + 1] = 16 * T[m] + id[m + 1]
                 /\ value = T[Len(id)]
    BY <2>1, ValueSteps
  <2> HIDE DEF value
  <2> DEFINE I == {i \in 1..Len(id) : id[i] # 0}
             stop == SelectInSeq(id, LAMBDA d : d # 0)
  <2>3. stop = IF I # {} THEN Min(I) ELSE 0
    BY Zenon DEF SelectInSeq
  <2>4. check_pow(id, pow) <=> (stop = 0 \/ (id[stop] # NotHex /\ 4 * (stop - 1) + ZeroBits(id[stop]) >= pow))
    BY Zenon DEF check_pow
  <2> HIDE DEF stop
  <2>5. PowerOfTwo \in [0..(4 * L) -> Nat \ {0}]
    BY PowerSteps
  <2>6. CASE I = {}
    <3> DEFINE S == {m \in Nat : m <= L => T[m] = 0}
    <3>1. 0 \in S
      BY <2>2
    <3>2. ASSUME NEW m \in Nat, m \in S PROVE m + 1 \in S
      <4> SUFFICES ASSUME m + 1 <= L PROVE T[m + 1] = 0
        OBVIOUS
      <4>1. m \in 0..(Len(id) - 1) /\ m <= L /\ m + 1 \in 1..Len(id)
        BY <2>0
      <4>2. T[m] = 0 /\ id[m + 1] = 0 /\ T[m + 1] = 16 * T[m] + id[m + 1]
        BY <2>2, <2>6, <3>2, <4>1
      <4> QED BY <4>2
    <3>3. L \in S
      <4> HIDE DEF S
      <4> QED BY <2>0, <3>1, <3>2, AllNaturals
    <3>4. value = 0
      BY <2>0, <2>2, <3>3
    <3>5. PowerOfTwo[4 * L - pow] \in Nat \ {0}
      BY <2>0, <2>5
    <3>6. stop = 0
      BY <2>3, <2>6
    <3> QED BY <2>4, <3>4, <3>5, <3>6
  <2>7. CASE I # {}
    <3>1. I \in SUBSET Nat /\ \A i \in 1..Len(id) : i \in Nat /\ i >= 1 /\ i <= L
      BY <2>0
    <3>2. stop \in I /\ \A i \in I : stop <= i
      <4> HIDE DEF I
      <4>1. Min(I) \in I /\ \A i \in I : Min(I) <= i
        BY <2>7, <3>1, MinIs
      <4> QED BY <2>3, <2>7, <4>1
    <3>3. stop \in 1..L /\ id[stop] # 0 /\ stop \in Int
      BY <3>1, <3>2
    <3>4. \A i \in 1..(stop - 1) : id[i] = 0
      <4>1. \A i \in 1..(stop - 1) : i \in 1..Len(id) /\ ~(stop <= i)
        BY <2>0, <3>3
      <4> QED BY <3>2, <4>1
    <3>5. id[stop] \in 1..15
      <4>1. id[stop] \in 0..15
        BY <2>1, <3>3, ElementOfSeq
      <4> QED BY <3>3, <4>1
    <3>6. ZeroBits(id[stop]) \in Int /\ id[stop] # NotHex
      <4>1. ZeroBits(id[stop]) \in 0..3
        BY <3>5, ZeroBitsOf
      <4>2. (\A d \in 1..15 : d # 16) /\ \A n \in 0..3 : n \in Int
        OBVIOUS
      <4> QED BY <3>5, <4>1, <4>2, Zenon DEF NotHex
    <3> DEFINE z == ZeroBits(id[stop])
               k == 4 * (L - stop) + (4 - z)
               j == 4 * L - pow
    <3>7. /\ k \in 1..(4 * L) /\ k - 1 \in 0..(4 * L)
          /\ T[L] \in Nat /\ PowerOfTwo[k - 1] <= T[L] /\ T[L] < PowerOfTwo[k]
      BY <2>1, <2>2, <3>3, <3>4, ValueBounds
    <3> HIDE DEF k
    <3>8. 4 * (stop - 1) + z >= pow <=> k <= j
      <4>1. k = 4 * (L - stop) + (4 - z)
        BY DEF k
      <4> QED BY <2>0, <3>3, <3>6, <4>1
    <3>9. value = T[L]
      BY <2>2
    <3>10. k \in 0..(4 * L) /\ j \in 0..(4 * L) /\ k \in Int /\ j \in Int
      BY <2>0, <3>7
    <3> HIDE DEF j, z
    <3>11. PowerOfTwo[j] \in Nat /\ PowerOfTwo[k] \in Nat /\ PowerOfTwo[k - 1] \in Nat
      BY <2>5, <3>7, <3>10
    <3>12. CASE k <= j
      <4>1. PowerOfTwo[k] <= PowerOfTwo[j]
        BY <3>10, <3>12, PowersGrow
      <4>2. value < PowerOfTwo[j]
        BY <3>7, <3>9, <3>11, <4>1
      <4> QED BY <2>4, <3>6, <3>8, <3>12, <4>2 DEF z, j
    <3>13. CASE ~(k <= j)
      <4>1. j <= k - 1
        BY <3>10, <3>13
      <4>2. PowerOfTwo[j] <= PowerOfTwo[k - 1]
        BY <3>7, <3>10, <4>1, PowersGrow
      <4>3. ~(value < PowerOfTwo[j])
        BY <3>7, <3>9, <3>11, <4>2
      <4>4. stop # 0
        BY <3>3
      <4> QED BY <2>4, <3>8, <3>13, <4>3, <4>4 DEF z, j
    <3> QED BY <3>12, <3>13
  <2> QED BY <2>6, <2>7
<1> QED BY <1>1, CodecsTyped, PTL

-----------------------------------------------------------------------------
(* Flattened sequences, and words.                                         *)

FlattensTo(f, q) == f = [i \in 1..Len(q) |-> IF i = 1 THEN q[i] ELSE f[i - 1] \o q[i]]

LEMMA FlattenExists ==
  ASSUME NEW B, NEW q \in Seq(Seq(B))
  PROVE  \E f \in [1..Len(q) -> Seq(B)] : FlattensTo(f, q)
<1> DEFINE Upto(f, m) == /\ f \in [1..m -> Seq(B)]
                         /\ \A i \in 1..m : f[i] = IF i = 1 THEN q[i] ELSE f[i - 1] \o q[i]
           Can(m) == m <= Len(q) => \E f : Upto(f, m)
           S == {m \in Nat : Can(m)}
<1> HIDE DEF Can
<1>1. 0 \in S
  <2>1. \A i \in 1..0 : FALSE
    OBVIOUS
  <2>2. Upto([i \in 1..0 |-> <<>>], 0)
    BY <2>1
  <2> HIDE DEF Upto
  <2> QED BY <2>2 DEF Can
<1>2. ASSUME NEW m \in Nat, m \in S PROVE m + 1 \in S
  <2> SUFFICES Can(m + 1)
    OBVIOUS
  <2> SUFFICES ASSUME m + 1 <= Len(q) PROVE \E f : Upto(f, m + 1)
    BY Zenon DEF Can
  <2>0. m <= Len(q) /\ Can(m)
    BY <1>2
  <2>1. PICK f : Upto(f, m)
    BY <2>0 DEF Can
  <2>2. m + 1 \in 1..Len(q) /\ (m + 1) - 1 = m
    OBVIOUS
  <2>3. q[m + 1] \in Seq(B)
    BY <2>2, ElementOfSeq
  <2> DEFINE v == IF m = 0 THEN q[m + 1] ELSE f[m] \o q[m + 1]
             h == [i \in 1..(m + 1) |-> IF i = m + 1 THEN v ELSE f[i]]
  <2>4. v \in Seq(B)
    <3>1. CASE m = 0
      BY <2>3, <3>1
    <3>2. CASE m # 0
      <4>1. m \in 1..m
        BY <3>2
      <4>2. f[m] \in Seq(B)
        BY <2>1, <4>1
      <4> QED BY <2>3, <3>2, <4>2, ConcatProperties
    <3> QED BY <3>1, <3>2
  <2> HIDE DEF v
  <2>5. /\ \A i \in 1..(m + 1) : i # m + 1 => i \in 1..m
        /\ \A i \in 1..m : i \in 1..(m + 1) /\ i # m + 1 /\ (i # 1 => i - 1 \in 1..(m + 1) /\ i - 1 # m + 1)
        /\ m # 0 => m \in 1..(m + 1) /\ m # m + 1 /\ m + 1 # 1
    OBVIOUS
  <2>6. h \in [1..(m + 1) -> Seq(B)]
    BY <2>1, <2>4, <2>5
  <2>7. \A i \in 1..(m + 1) : h[i] = IF i = m + 1 THEN v ELSE f[i]
    OBVIOUS
  <2> HIDE DEF h
  <2>8. ASSUME NEW i \in 1..(m + 1) PROVE h[i] = IF i = 1 THEN q[i] ELSE h[i - 1] \o q[i]
    <3>1. CASE i = m + 1
      <4>1. CASE m = 0
        BY <2>7, <3>1, <4>1 DEF v
      <4>2. CASE m # 0
        <5>1. h[m] = f[m]
          BY <2>5, <2>7, <4>2
        <5>2. h[i] = f[m] \o q[m + 1]
          BY <2>7, <3>1, <4>2 DEF v
        <5> QED BY <2>2, <2>5, <3>1, <4>2, <5>1, <5>2
      <4> QED BY <4>1, <4>2
    <3>2. CASE i # m + 1
      <4>1. i \in 1..m /\ h[i] = f[i]
        BY <2>5, <2>7, <3>2
      <4>2. i # 1 => h[i - 1] = f[i - 1]
        BY <2>5, <2>7, <4>1
      <4> QED BY <2>1, <4>1, <4>2
    <3> QED BY <3>1, <3>2
  <2>9. Upto(h, m + 1)
    BY <2>6, <2>8
  <2> HIDE DEF Upto
  <2> QED BY <2>9
<1>3. Len(q) \in Nat /\ Len(q) <= Len(q)
  OBVIOUS
<1>4. Can(Len(q))
  <2> HIDE DEF S
  <2>1. Len(q) \in S
    BY <1>1, <1>2, <1>3, AllNaturals
  <2> QED BY <2>1 DEF S
<1>5. PICK f : Upto(f, Len(q))
  <2> HIDE DEF Upto
  <2> QED BY <1>3, <1>4, Zenon DEF Can
<1>6. f = [i \in 1..Len(q) |-> f[i]]
  BY <1>5
<1>7. FlattensTo(f, q)
  BY <1>5, <1>6 DEF FlattensTo
<1> QED BY <1>5, <1>7

LEMMA FlattenSteps ==
  ASSUME NEW B, NEW q \in Seq(Seq(B)), q # <<>>
  PROVE  \E f \in [1..Len(q) -> Seq(B)] :
           /\ f[1] = q[1]
           /\ \A i \in 1..(Len(q) - 1) : f[i + 1] = f[i] \o q[i + 1]
           /\ FlattenSeq(q) = f[Len(q)]
<1>1. Len(q) \in Nat /\ Len(q) # 0
  BY EmptySeq
<1> DEFINE f == CHOOSE g : FlattensTo(g, q)
<1>2. FlattensTo(f, q)
  <2> HIDE DEF FlattensTo
  <2>1. \E g : FlattensTo(g, q)
    BY FlattenExists
  <2> QED BY <2>1, Zenon
<1>3. FlattenSeq(q) = f[Len(q)]
  BY <1>1, Zenon DEF FlattenSeq, FlattensTo
<1> HIDE DEF f
<1>4. \A i \in 1..Len(q) : f[i] = IF i = 1 THEN q[i] ELSE f[i - 1] \o q[i]
  BY <1>2, Zenon DEF FlattensTo
<1>5. f[1] = q[1]
  BY <1>1, <1>4
<1>6. ASSUME NEW i \in 1..(Len(q) - 1) PROVE f[i + 1] = f[i] \o q[i + 1]
  <2>1. i + 1 \in 1..Len(q) /\ i + 1 # 1 /\ (i + 1) - 1 = i
    BY <1>1
  <2> QED BY <1>4, <2>1
<1> DEFINE S == {m \in Nat : m + 1 <= Len(q) => f[m + 1] \in Seq(B)}
<1>7. 0 \in S
  <2>1. 1 \in 1..Len(q) /\ 0 + 1 = 1
    BY <1>1
  <2>2. q[1] \in Seq(B)
    BY <2>1, ElementOfSeq
  <2> QED BY <1>5, <2>1, <2>2
<1>8. ASSUME NEW m \in Nat, m \in S PROVE m + 1 \in S
  <2> SUFFICES ASSUME (m + 1) + 1 <= Len(q) PROVE f[(m + 1) + 1] \in Seq(B)
    OBVIOUS
  <2>1. m + 1 \in 1..(Len(q) - 1) /\ m + 1 <= Len(q) /\ (m + 1) + 1 \in 1..Len(q)
    BY <1>1
  <2>2. f[m + 1] \in Seq(B) /\ q[(m + 1) + 1] \in Seq(B)
    BY <1>8, <2>1, ElementOfSeq
  <2>3. f[(m + 1) + 1] = f[m + 1] \o q[(m + 1) + 1]
    BY <1>6, <2>1
  <2> QED BY <2>2, <2>3, ConcatProperties
<1>9. \A m \in Nat : m \in S
  <2> HIDE DEF S
  <2> QED BY <1>7, <1>8, AllNaturals
<1>10. ASSUME NEW i \in 1..Len(q) PROVE f[i] \in Seq(B)
  <2>1. i - 1 \in Nat /\ (i - 1) + 1 = i /\ i <= Len(q)
    BY <1>1
  <2> QED BY <1>9, <2>1
<1>11. f = [i \in 1..Len(q) |-> f[i]]
  BY <1>2, Zenon DEF FlattensTo
<1>12. f \in [1..Len(q) -> Seq(B)]
  BY <1>10, <1>11, Zenon
<1> QED BY <1>3, <1>5, <1>6, <1>12

LEMMA PrefixIs ==
  ASSUME NEW S, NEW s \in Seq(S), NEW t \in Seq(S)
  PROVE  IsPrefix(s, t) <=> Len(s) <= Len(t) /\ \A i \in 1..Len(s) : s[i] = t[i]
<1>1. Len(s) \in Nat /\ Len(t) \in Nat /\ Len(s) <= Len(s)
  OBVIOUS
<1>2. Len(s) <= Len(t) => (SubSeq(s, 1, Len(s)) = SubSeq(t, 1, Len(s)) <=> \A i \in 1..Len(s) : s[i] = t[i])
  <2> SUFFICES ASSUME Len(s) <= Len(t)
               PROVE  SubSeq(s, 1, Len(s)) = SubSeq(t, 1, Len(s)) <=> \A i \in 1..Len(s) : s[i] = t[i]
    OBVIOUS
  <2> QED BY <1>1, SamePrefix
<1> QED BY <1>2, Zenon DEF IsPrefix

LEMMA PrefixOfConcat ==
  ASSUME NEW S, NEW s \in Seq(S), NEW t \in Seq(S)
  PROVE  s \o t \in Seq(S) /\ IsPrefix(s, s \o t)
<1>1. s \o t \in Seq(S) /\ Len(s) <= Len(s \o t) /\ \A i \in 1..Len(s) : s[i] = (s \o t)[i]
  BY ConcatProperties
<1> QED BY <1>1, PrefixIs

LEMMA PrefixTransitive ==
  ASSUME NEW S, NEW s \in Seq(S), NEW t \in Seq(S), NEW u \in Seq(S), IsPrefix(s, t), IsPrefix(t, u)
  PROVE  IsPrefix(s, u)
<1>1. /\ Len(s) <= Len(t) /\ \A i \in 1..Len(s) : s[i] = t[i]
      /\ Len(t) <= Len(u) /\ \A i \in 1..Len(t) : t[i] = u[i]
  BY PrefixIs
<1>2. \A i \in 1..Len(s) : i \in 1..Len(t)
  BY <1>1
<1>3. Len(s) <= Len(u)
  BY <1>1
<1>4. \A i \in 1..Len(s) : s[i] = u[i]
  BY <1>1, <1>2
<1> QED BY <1>3, <1>4, PrefixIs

LEMMA EmptyPrefix ==
  ASSUME NEW B, NEW b \in Seq(B)
  PROVE  IsPrefix(<<>>, b)
<1>0. <<>> \in Seq(B) /\ Len(<<>>) = 0
  OBVIOUS
<1>1. PICK e \in Seq(B) : e = <<>> /\ Len(e) = 0
  BY <1>0, Zenon
<1>2. Len(e) <= Len(b) /\ \A i \in 1..Len(e) : e[i] = b[i]
  BY <1>1
<1>3. IsPrefix(e, b)
  BY <1>2, PrefixIs
<1> QED BY <1>1, <1>3, Zenon

LEMMA FlattenType ==
  ASSUME NEW B, NEW q \in Seq(Seq(B))
  PROVE  FlattenSeq(q) \in Seq(B) /\ (q = <<>> => FlattenSeq(q) = <<>>)
<1>1. CASE q = <<>>
  <2>1. Len(q) = 0
    BY <1>1
  <2>2. FlattenSeq(q) = q
    BY <2>1, Zenon DEF FlattenSeq
  <2>3. <<>> \in Seq(B)
    OBVIOUS
  <2> QED BY <1>1, <2>2, <2>3, Zenon
<1>2. CASE q # <<>>
  <2>1. PICK f \in [1..Len(q) -> Seq(B)] : FlattenSeq(q) = f[Len(q)]
    BY <1>2, FlattenSteps
  <2>2. Len(q) \in 1..Len(q)
    BY <1>2, EmptySeq
  <2> QED BY <1>2, <2>1, <2>2
<1> QED BY <1>1, <1>2

\* What is flattened of a beginning is a beginning of what is flattened.
LEMMA FlattenPrefix ==
  ASSUME NEW B, NEW q \in Seq(Seq(B)), NEW r \in Seq(Seq(B)), IsPrefix(q, r)
  PROVE  IsPrefix(FlattenSeq(q), FlattenSeq(r))
<1>0. Len(q) \in Nat /\ Len(r) \in Nat /\ Len(q) <= Len(r) /\ \A i \in 1..Len(q) : q[i] = r[i]
  BY PrefixIs
<1>1. CASE q = <<>>
  <2>1. FlattenSeq(q) = <<>> /\ FlattenSeq(r) \in Seq(B)
    BY <1>1, FlattenType
  <2>2. \A b \in Seq(B) : IsPrefix(<<>>, b)
    BY EmptyPrefix
  <2> QED BY <2>1, <2>2, Zenon
<1>2. CASE q # <<>>
  <2>0. Len(q) # 0 /\ r # <<>>
    BY <1>0, <1>2, EmptySeq
  <2>1. PICK f \in [1..Len(q) -> Seq(B)] :
          /\ f[1] = q[1] /\ FlattenSeq(q) = f[Len(q)]
          /\ \A i \in 1..(Len(q) - 1) : f[i + 1] = f[i] \o q[i + 1]
    BY <1>2, FlattenSteps
  <2>2. PICK g \in [1..Len(r) -> Seq(B)] :
          /\ g[1] = r[1] /\ FlattenSeq(r) = g[Len(r)]
          /\ \A i \in 1..(Len(r) - 1) : g[i + 1] = g[i] \o r[i + 1]
    BY <2>0, FlattenSteps
  <2> DEFINE S == {m \in Nat : m + 1 <= Len(q) => f[m + 1] = g[m + 1]}
  <2>3. 0 \in S
    <3>1. 1 \in 1..Len(q) /\ 0 + 1 = 1
      BY <1>0, <2>0
    <3> QED BY <1>0, <2>1, <2>2, <3>1
  <2>4. ASSUME NEW m \in Nat, m \in S PROVE m + 1 \in S
    <3> SUFFICES ASSUME (m + 1) + 1 <= Len(q) PROVE f[(m + 1) + 1] = g[(m + 1) + 1]
      OBVIOUS
    <3>1. m + 1 \in 1..(Len(q) - 1) /\ m + 1 \in 1..(Len(r) - 1) /\ m + 1 <= Len(q) /\ (m + 1) + 1 \in 1..Len(q)
      BY <1>0
    <3>2. f[m + 1] = g[m + 1]
      BY <2>4, <3>1
    <3>3. f[(m + 1) + 1] = f[m + 1] \o q[(m + 1) + 1]
      BY <2>1, <3>1
    <3>4. g[(m + 1) + 1] = g[m + 1] \o r[(m + 1) + 1]
      BY <2>2, <3>1
    <3>5. q[(m + 1) + 1] = r[(m + 1) + 1]
      BY <1>0, <3>1
    <3> QED BY <3>2, <3>3, <3>4, <3>5
  <2>5. f[Len(q)] = g[Len(q)]
    <3>1. Len(q) - 1 \in Nat /\ (Len(q) - 1) + 1 = Len(q) /\ Len(q) <= Len(q)
      BY <1>0, <2>0
    <3>2. Len(q) - 1 \in S
      <4> HIDE DEF S
      <4> QED BY <2>3, <2>4, <3>1, AllNaturals
    <3> QED BY <3>1, <3>2
  <2> HIDE DEF S
  <2> DEFINE R == {d \in Nat : Len(q) + d <= Len(r) => IsPrefix(g[Len(q)], g[Len(q) + d])}
  <2>6. 0 \in R
    <3>1. Len(q) + 0 = Len(q) /\ Len(q) \in 1..Len(r)
      BY <1>0, <2>0
    <3>2. g[Len(q)] \in Seq(B)
      BY <2>2, <3>1
    <3>3. IsPrefix(g[Len(q)], g[Len(q)])
      BY <3>2, PrefixIs
    <3> QED BY <3>1, <3>3
  <2>7. ASSUME NEW d \in Nat, d \in R PROVE d + 1 \in R
    <3> SUFFICES ASSUME Len(q) + (d + 1) <= Len(r) PROVE IsPrefix(g[Len(q)], g[Len(q) + (d + 1)])
      OBVIOUS
    <3> DEFINE e == Len(q) + d
    <3>1. /\ e \in 1..(Len(r) - 1) /\ e <= Len(r) /\ Len(q) + (d + 1) = e + 1 /\ e + 1 \in 1..Len(r)
          /\ e \in 1..Len(r) /\ Len(q) \in 1..Len(r)
      BY <1>0, <2>0
    <3>2. IsPrefix(g[Len(q)], g[e])
      BY <2>7, <3>1
    <3> HIDE DEF e
    <3>3. g[e + 1] = g[e] \o r[e + 1]
      BY <2>2, <3>1
    <3>4. g[Len(q)] \in Seq(B) /\ g[e] \in Seq(B) /\ g[e + 1] \in Seq(B) /\ r[e + 1] \in Seq(B)
      BY <2>2, <3>1, ElementOfSeq
    <3>5. IsPrefix(g[e], g[e] \o r[e + 1])
      BY <3>4, PrefixOfConcat
    <3>6. IsPrefix(g[Len(q)], g[e + 1])
      BY <3>2, <3>3, <3>4, <3>5, PrefixTransitive
    <3> QED BY <3>1, <3>6
  <2>8. IsPrefix(g[Len(q)], g[Len(r)])
    <3>1. Len(r) - Len(q) \in Nat /\ Len(q) + (Len(r) - Len(q)) = Len(r) /\ Len(r) <= Len(r)
      BY <1>0
    <3>2. Len(r) - Len(q) \in R
      <4> HIDE DEF R
      <4> QED BY <2>6, <2>7, <3>1, AllNaturals
    <3> QED BY <3>1, <3>2
  <2> QED BY <2>1, <2>2, <2>5, <2>8
<1> QED BY <1>1, <1>2

LEMMA FlattenLength ==
  ASSUME NEW B, NEW q \in Seq(Seq(B)), \A i \in 1..Len(q) : q[i] # <<>>
  PROVE  Len(q) <= Len(FlattenSeq(q))
<1>0. Len(q) \in Nat
  OBVIOUS
<1>1. CASE q = <<>>
  BY <1>1, FlattenType
<1>2. CASE q # <<>>
  <2>0. Len(q) # 0
    BY <1>2, EmptySeq
  <2>1. PICK f \in [1..Len(q) -> Seq(B)] :
          /\ f[1] = q[1] /\ FlattenSeq(q) = f[Len(q)]
          /\ \A i \in 1..(Len(q) - 1) : f[i + 1] = f[i] \o q[i + 1]
    BY <1>2, FlattenSteps
  <2>2. \A i \in 1..Len(q) : q[i] \in Seq(B) /\ f[i] \in Seq(B) /\ Len(q[i]) \in Nat /\ Len(q[i]) >= 1
    <3> TAKE i \in 1..Len(q)
    <3>1. q[i] \in Seq(B) /\ f[i] \in Seq(B)
      BY ElementOfSeq
    <3>2. Len(q[i]) \in Nat \ {0}
      BY <3>1, EmptySeq
    <3> QED BY <3>1, <3>2
  <2> DEFINE S == {m \in Nat : m + 1 <= Len(q) => m + 1 <= Len(f[m + 1])}
  <2>3. 0 \in S
    <3>1. 1 \in 1..Len(q) /\ 0 + 1 = 1
      BY <1>0, <2>0
    <3> QED BY <2>1, <2>2, <3>1
  <2>4. ASSUME NEW m \in Nat, m \in S PROVE m + 1 \in S
    <3> SUFFICES ASSUME (m + 1) + 1 <= Len(q) PROVE (m + 1) + 1 <= Len(f[(m + 1) + 1])
      OBVIOUS
    <3>0. PICK k \in Nat : k = m + 1
      OBVIOUS
    <3>1. k \in 1..(Len(q) - 1) /\ k <= Len(q) /\ k + 1 \in 1..Len(q) /\ k \in 1..Len(q)
      BY <1>0, <3>0
    <3>2. k <= Len(f[k])
      BY <2>4, <3>0, <3>1
    <3>3. f[k + 1] = f[k] \o q[k + 1]
      BY <2>1, <3>1
    <3>4. PICK x \in Seq(B), y \in Seq(B) : x = f[k] /\ y = q[k + 1] /\ Len(y) >= 1
      BY <2>2, <3>1
    <3>5. Len(x \o y) = Len(x) + Len(y) /\ Len(x) \in Nat /\ Len(y) \in Nat
      BY ConcatProperties
    <3>6. k <= Len(x)
      BY <3>2, <3>4
    <3>7. k + 1 <= Len(x \o y)
      <4>1. PICK a \in Nat, b \in Nat : a = Len(x) /\ b = Len(y) /\ k <= a /\ b >= 1
        BY <3>4, <3>5, <3>6, Zenon
      <4>2. k + 1 <= a + b
        BY <4>1
      <4> QED BY <3>5, <4>1, <4>2, Zenon
    <3>8. k + 1 <= Len(f[k + 1])
      BY <3>3, <3>4, <3>7, Zenon
    <3> QED BY <3>0, <3>8
  <2>5. Len(q) - 1 \in Nat /\ (Len(q) - 1) + 1 = Len(q) /\ Len(q) <= Len(q)
    BY <1>0, <2>0
  <2>6. Len(q) - 1 \in S
    <3> HIDE DEF S
    <3> QED BY <2>3, <2>4, <2>5, AllNaturals
  <2> QED BY <2>1, <2>5, <2>6
<1> QED BY <1>1, <1>2

-----------------------------------------------------------------------------
(* Words and searches.                                                     *)

Plainly(word) == [i \in DOMAIN word |-> IF Unac(word[i]) = <<>> THEN <<word[i]>> ELSE Unac(word[i])]

InUtf8(word) == [i \in DOMAIN word |-> Utf8(word[i])]

LEMMA WordsAre ==
  ASSUME NEW said \in Seq(Alphabet), NEW w \in Words(said)
  PROVE  w \in Seq(Alnum) /\ w # <<>>
<1> DEFINE InWord(k) == k \in DOMAIN said /\ said[k] \in Alnum
           IsRun(p) == (\A k \in p[1]..p[2] : InWord(k)) /\ ~InWord(p[1] - 1) /\ ~InWord(p[2] + 1)
           Run(p) == [k \in 1..(p[2] - p[1] + 1) |-> Lower(said[p[1] + k - 1])]
<1>1. PICK p \in (DOMAIN said) \X (DOMAIN said) : p[1] <= p[2] /\ IsRun(p) /\ w = Run(p)
  BY Zenon DEF Words
<1>2. PICK a \in Int, b \in Int : a = p[1] /\ b = p[2] /\ a <= b
  BY <1>1
<1>3. b - a + 1 \in Nat /\ b - a + 1 # 0
  BY <1>2
<1>4. ASSUME NEW k \in 1..(b - a + 1) PROVE a + k - 1 \in a..b
  <2>1. k \in Int /\ 1 <= k /\ k <= b - a + 1
    BY <1>3
  <2> QED BY <2>1
<1>5. \A k \in 1..(b - a + 1) : Lower(said[a + k - 1]) \in Alnum
  BY <1>1, <1>2, <1>4, FullTextAssumption
<1>6. w = [k \in 1..(b - a + 1) |-> Lower(said[a + k - 1])]
  BY <1>1, <1>2
<1> QED
  <2>1. PICK n \in Nat : n = b - a + 1 /\ n # 0
    BY <1>3
  <2>2. w \in [1..n -> Alnum]
    BY <1>5, <1>6, <2>1
  <2>3. w \in Seq(Alnum) /\ Len(w) = n
    BY <2>2
  <2> QED BY <2>1, <2>3

\* What is searched for is a word of its own, in lower case.
LEMMA TypedIsWord ==
  ASSUME NEW n \in Nat \ {0}, NEW q \in [1..n -> Alnum]
  PROVE  [i \in DOMAIN q |-> Lower(q[i])] \in Words(q)
<1> DEFINE InWord(k) == k \in DOMAIN q /\ q[k] \in Alnum
           IsRun(p) == (\A k \in p[1]..p[2] : InWord(k)) /\ ~InWord(p[1] - 1) /\ ~InWord(p[2] + 1)
           Run(p) == [k \in 1..(p[2] - p[1] + 1) |-> Lower(q[p[1] + k - 1])]
<1>1. DOMAIN q = 1..n /\ 1 \in 1..n /\ n \in 1..n /\ 1 - 1 \notin 1..n /\ n + 1 \notin 1..n
  OBVIOUS
<1>2. PICK p \in (DOMAIN q) \X (DOMAIN q) : p[1] = 1 /\ p[2] = n
  <2>1. <<1, n>> \in (DOMAIN q) \X (DOMAIN q) /\ <<1, n>>[1] = 1 /\ <<1, n>>[2] = n
    BY <1>1
  <2> QED BY <2>1, Zenon
<1>3. p[1] <= p[2] /\ IsRun(p)
  BY <1>1, <1>2
<1>4. Run(p) = [i \in DOMAIN q |-> Lower(q[i])]
  <2>1. n - 1 + 1 = n /\ \A k \in 1..n : 1 + k - 1 = k
    OBVIOUS
  <2>2. Run(p) = [k \in 1..n |-> Lower(q[1 + k - 1])]
    BY <1>2, <2>1
  <2> QED BY <1>1, <2>1, <2>2
<1>5. p \in {x \in (DOMAIN q) \X (DOMAIN q) : x[1] <= x[2] /\ IsRun(x)}
  BY <1>3
<1>6. Words(q) = {Run(x) : x \in {y \in (DOMAIN q) \X (DOMAIN q) : y[1] <= y[2] /\ IsRun(y)}}
  BY Zenon DEF Words
<1> HIDE DEF Run, IsRun
<1> QED BY <1>4, <1>5, <1>6, Zenon

LEMMA PlainIs ==
  ASSUME NEW w \in Seq(Alphabet)
  PROVE  unac_word(w) \in Seq(Alphabet) /\ Len(w) <= Len(unac_word(w))
<1>1. PICK n \in Nat : n = Len(w) /\ DOMAIN w = 1..n
  OBVIOUS
<1>2. ASSUME NEW i \in 1..n PROVE Plainly(w)[i] \in Seq(Alphabet) /\ Plainly(w)[i] # <<>>
  <2>1. w[i] \in Alphabet
    BY <1>1, ElementOfSeq
  <2>2. Unac(w[i]) \in Seq(Alphabet)
    BY <2>1, FullTextAssumption
  <2>3. <<w[i]>> \in Seq(Alphabet) /\ <<w[i]>> # <<>>
    BY <2>1
  <2>4. Plainly(w)[i] = IF Unac(w[i]) = <<>> THEN <<w[i]>> ELSE Unac(w[i])
    BY <1>1 DEF Plainly
  <2> QED BY <2>2, <2>3, <2>4, Zenon
<1>3. Plainly(w) = [i \in 1..n |-> Plainly(w)[i]]
  BY <1>1 DEF Plainly
<1>4. Plainly(w) \in [1..n -> Seq(Alphabet)]
  BY <1>2, <1>3, Zenon
<1>5. Plainly(w) \in Seq(Seq(Alphabet)) /\ Len(Plainly(w)) = n
  BY <1>4
<1>6. \A i \in 1..Len(Plainly(w)) : Plainly(w)[i] # <<>>
  BY <1>2, <1>5, Zenon
<1>7. unac_word(w) = FlattenSeq(Plainly(w))
  BY Zenon DEF unac_word, Plainly
<1>8. PICK parts \in Seq(Seq(Alphabet)) : parts = Plainly(w) /\ Len(parts) = n /\ \A i \in 1..Len(parts) : parts[i] # <<>>
  BY <1>5, <1>6, Zenon
<1>9. FlattenSeq(parts) \in Seq(Alphabet) /\ Len(parts) <= Len(FlattenSeq(parts))
  BY <1>8, FlattenType, FlattenLength
<1> QED BY <1>1, <1>7, <1>8, <1>9, Zenon

LEMMA Utf8Is ==
  ASSUME NEW w \in Seq(Alphabet)
  PROVE  /\ InUtf8(w) \in Seq(Seq(0..255)) /\ Len(InUtf8(w)) = Len(w)
         /\ \A i \in 1..Len(w) : InUtf8(w)[i] = Utf8(w[i]) /\ InUtf8(w)[i] # <<>>
<1>1. PICK n \in Nat : n = Len(w) /\ DOMAIN w = 1..n
  OBVIOUS
<1>2. ASSUME NEW i \in 1..n
      PROVE  InUtf8(w)[i] = Utf8(w[i]) /\ InUtf8(w)[i] \in Seq(0..255) /\ InUtf8(w)[i] # <<>>
  <2>1. w[i] \in Alphabet
    BY <1>1, ElementOfSeq
  <2>2. Utf8(w[i]) \in Seq(0..255) /\ Utf8(w[i]) # <<>>
    BY <2>1, FullTextAssumption
  <2>3. InUtf8(w)[i] = Utf8(w[i])
    BY <1>1 DEF InUtf8
  <2> QED BY <2>2, <2>3
<1>3. InUtf8(w) = [i \in 1..n |-> InUtf8(w)[i]]
  BY <1>1 DEF InUtf8
<1>4. InUtf8(w) \in [1..n -> Seq(0..255)]
  BY <1>2, <1>3, Zenon
<1>5. InUtf8(w) \in Seq(Seq(0..255)) /\ Len(InUtf8(w)) = n
  BY <1>4
<1> QED BY <1>1, <1>2, <1>5

LEMMA BytesAre ==
  ASSUME NEW w \in Seq(Alphabet)
  PROVE  FlattenSeq(InUtf8(w)) \in Seq(0..255) /\ Len(w) <= Len(FlattenSeq(InUtf8(w)))
<1>1. PICK parts \in Seq(Seq(0..255)) : parts = InUtf8(w) /\ Len(parts) = Len(w) /\ \A i \in 1..Len(parts) : parts[i] # <<>>
  BY Utf8Is
<1>2. FlattenSeq(parts) \in Seq(0..255) /\ Len(parts) <= Len(FlattenSeq(parts))
  BY <1>1, FlattenType, FlattenLength
<1> QED BY <1>1, <1>2

LEMMA BytesBegin ==
  ASSUME NEW v \in Seq(Alphabet), NEW w \in Seq(Alphabet), IsPrefix(v, w)
  PROVE  IsPrefix(FlattenSeq(InUtf8(v)), FlattenSeq(InUtf8(w)))
<1>1. Len(v) <= Len(w) /\ \A i \in 1..Len(v) : v[i] = w[i]
  BY PrefixIs
<1>2. PICK p \in Seq(Seq(0..255)), r \in Seq(Seq(0..255)) :
        /\ p = InUtf8(v) /\ Len(p) = Len(v) /\ \A i \in 1..Len(v) : p[i] = Utf8(v[i])
        /\ r = InUtf8(w) /\ Len(r) = Len(w) /\ \A i \in 1..Len(w) : r[i] = Utf8(w[i])
  BY Utf8Is
<1>3. Len(p) <= Len(r)
  BY <1>1, <1>2
<1>4. ASSUME NEW i \in 1..Len(p) PROVE p[i] = r[i]
  <2>1. i \in 1..Len(v) /\ i \in 1..Len(w)
    BY <1>1, <1>2
  <2> QED BY <1>1, <1>2, <2>1
<1>5. IsPrefix(p, r)
  BY <1>3, <1>4, PrefixIs
<1>6. IsPrefix(FlattenSeq(p), FlattenSeq(r))
  BY <1>5, FlattenPrefix
<1> QED BY <1>2, <1>6, Zenon

\* A word is cut where its bytes end or there is no room for more.
LEMMA TokenIs ==
  ASSUME NEW w \in Seq(Alphabet), NEW b \in Seq(0..255), b = FlattenSeq(InUtf8(w))
  PROVE  /\ Token(w) \in Seq(0..255) /\ Len(Token(w)) <= Len(b) /\ Len(Token(w)) <= TokenBytes
         /\ Len(Token(w)) = Len(b) \/ Len(Token(w)) = TokenBytes
         /\ \A i \in 1..Len(Token(w)) : Token(w)[i] = b[i]
<1>1. Len(b) \in Nat /\ TokenBytes \in Nat
  BY FullTextAssumption
<1>2. PICK n \in Nat : n = Min({Len(b), TokenBytes}) /\ (n = Len(b) \/ n = TokenBytes) /\ n <= Len(b) /\ n <= TokenBytes
  <2> DEFINE S == {Len(b), TokenBytes}
  <2>1. S \in SUBSET Nat /\ S # {} /\ Len(b) \in S /\ TokenBytes \in S /\ \A x \in S : x = Len(b) \/ x = TokenBytes
    BY <1>1
  <2> HIDE DEF S
  <2>2. Min(S) \in S /\ \A x \in S : Min(S) <= x
    BY <2>1, MinIs
  <2>3. Min(S) \in Nat /\ (Min(S) = Len(b) \/ Min(S) = TokenBytes) /\ Min(S) <= Len(b) /\ Min(S) <= TokenBytes
    BY <2>1, <2>2
  <2> QED BY <2>3, Zenon DEF S
<1>3. Token(w) = SubSeq(b, 1, n)
  BY <1>2, Zenon DEF Token, InUtf8
<1>4. \A B : b \in Seq(B) => SubSeq(b, 1, n) \in Seq(B) /\ Len(SubSeq(b, 1, n)) = n /\ \A i \in 1..n : SubSeq(b, 1, n)[i] = b[i]
  BY ONLY <1>2, Beginning, ZenonT(40)
<1>5. SubSeq(b, 1, n) \in Seq(0..255) /\ Len(SubSeq(b, 1, n)) = n /\ \A i \in 1..n : SubSeq(b, 1, n)[i] = b[i]
  BY <1>4, Zenon
<1>6. Len(Token(w)) = n
  BY <1>3, <1>5, Zenon
<1>7. n = Len(b) \/ n = TokenBytes
  BY <1>2
<1> QED BY <1>2, <1>3, <1>5, <1>6, <1>7, Zenon

\* Words of some length are rows of some length, and no longer than they may be.
LEMMA TokenLength ==
  ASSUME NEW w \in Seq(Alphabet)
  PROVE  /\ Token(w) \in Seq(0..255) /\ Len(Token(w)) <= TokenBytes
         /\ Len(w) >= 1 => Len(Token(w)) >= 1
         /\ Len(w) > 1 => Len(Token(w)) > 1
<1>1. PICK b \in Seq(0..255) : b = FlattenSeq(InUtf8(w)) /\ Len(w) <= Len(b)
  BY BytesAre
<1>2. /\ Token(w) \in Seq(0..255) /\ Len(Token(w)) <= TokenBytes
      /\ Len(Token(w)) = Len(b) \/ Len(Token(w)) = TokenBytes
  BY <1>1, TokenIs
<1>3. Len(w) \in Nat /\ Len(b) \in Nat /\ TokenBytes \in Nat /\ TokenBytes > 1
  BY FullTextAssumption
<1>4. \A a, c, k, m \in Nat : a <= c /\ m > 1 /\ (k = c \/ k = m) => (a >= 1 => k >= 1) /\ (a > 1 => k > 1)
  OBVIOUS
<1>5. Len(Token(w)) \in Nat
  BY <1>2
<1> QED BY <1>1, <1>2, <1>3, <1>4, <1>5

\* What a word begins with is a beginning of its row too, cut or not.
LEMMA TokenBegins ==
  ASSUME NEW v \in Seq(Alphabet), NEW w \in Seq(Alphabet), IsPrefix(v, w)
  PROVE  IsPrefix(Token(v), Token(w))
<1>1. PICK b \in Seq(0..255), c \in Seq(0..255) : b = FlattenSeq(InUtf8(v)) /\ c = FlattenSeq(InUtf8(w))
  BY BytesAre
<1>2. Len(b) <= Len(c) /\ \A i \in 1..Len(b) : b[i] = c[i]
  BY <1>1, BytesBegin, PrefixIs
<1>3. PICK s \in Seq(0..255) :
        /\ s = Token(v) /\ Len(s) <= Len(b) /\ Len(s) <= TokenBytes
        /\ \A i \in 1..Len(s) : s[i] = b[i]
  BY <1>1, TokenIs
<1>4. PICK t \in Seq(0..255) :
        /\ t = Token(w) /\ (Len(t) = Len(c) \/ Len(t) = TokenBytes)
        /\ \A i \in 1..Len(t) : t[i] = c[i]
  BY <1>1, TokenIs
<1>5. Len(s) \in Nat /\ Len(t) \in Nat /\ Len(b) \in Nat /\ Len(c) \in Nat /\ TokenBytes \in Nat
  BY FullTextAssumption
<1>6. Len(s) <= Len(t)
  BY <1>2, <1>3, <1>4, <1>5
<1>7. ASSUME NEW i \in 1..Len(s) PROVE s[i] = t[i]
  <2>1. i \in 1..Len(b) /\ i \in 1..Len(t)
    BY <1>3, <1>5, <1>6
  <2> QED BY <1>2, <1>3, <1>4, <2>1
<1>8. IsPrefix(s, t)
  BY <1>6, <1>7, PrefixIs
<1> QED BY <1>3, <1>4, <1>8

LEMMA TokensAre ==
  ASSUME NEW said \in Seq(Alphabet), NEW b \in DOMAIN tokenize_text(said)
  PROVE  /\ b \in Seq(0..255) /\ Len(b) >= 1 /\ Len(b) <= TokenBytes
         /\ tokenize_text(said)[b] \in {1, 2}
<1> DEFINE written == {Token(w) : w \in Words(said)}
           plain == {Token(unac_word(w)) : w \in {v \in Words(said) : unac_word(v) # v}}
<1>1. tokenize_text(said) = [x \in written \cup plain |-> IF x \in written THEN 1 ELSE 2]
  BY Zenon DEF tokenize_text
<1>2. b \in written \cup plain
  BY <1>1
<1>3. tokenize_text(said)[b] \in {1, 2}
  BY <1>1, <1>2
<1>4. PICK v \in Seq(Alphabet) : b = Token(v) /\ Len(v) >= 1
  <2>1. PICK w \in Words(said) : b = Token(w) \/ b = Token(unac_word(w))
    BY <1>2
  <2>2. w \in Seq(Alphabet) /\ Len(w) >= 1 /\ Len(w) \in Nat
    <3>1. w \in Seq(Alnum) /\ w # <<>>
      BY WordsAre
    <3> QED BY <3>1, EmptySeq, FullTextAssumption
  <2>3. PICK u \in Seq(Alphabet) : u = unac_word(w) /\ Len(u) >= 1
    <3>1. unac_word(w) \in Seq(Alphabet) /\ Len(w) <= Len(unac_word(w))
      BY <2>2, PlainIs
    <3>2. PICK u \in Seq(Alphabet) : u = unac_word(w) /\ Len(w) <= Len(u)
      BY <3>1, Zenon
    <3>3. Len(u) >= 1
      BY <2>2, <3>2
    <3> QED BY <3>2, <3>3, Zenon
  <2> QED BY <2>1, <2>2, <2>3, Zenon
<1>5. b \in Seq(0..255) /\ Len(b) >= 1 /\ Len(b) <= TokenBytes
  BY <1>4, TokenLength
<1> QED BY <1>3, <1>5

\* A word without accents is a token, whether it was written so or not.
LEMMA PlainIsToken ==
  ASSUME NEW said, NEW w \in Words(said)
  PROVE  Token(unac_word(w)) \in DOMAIN tokenize_text(said)
<1> DEFINE written == {Token(x) : x \in Words(said)}
           plain == {Token(unac_word(x)) : x \in {v \in Words(said) : unac_word(v) # v}}
<1>1. tokenize_text(said) = [x \in written \cup plain |-> IF x \in written THEN 1 ELSE 2]
  BY Zenon DEF tokenize_text
<1>2. Token(unac_word(w)) \in written \cup plain
  <2>1. CASE unac_word(w) = w
    BY <2>1
  <2>2. CASE unac_word(w) # w
    BY <2>2
  <2> QED BY <2>1, <2>2
<1> QED BY <1>1, <1>2

LEMMA RowsAre ==
  ASSUME CodecsTypeOK
  PROVE  /\ \A row : row \in DOMAIN IndexForFulltext <=>
                       row \in DOMAIN tokenize_text(content) \cup DOMAIN tokenize_text(title) /\ Len(row) > 1
         /\ \A row \in DOMAIN IndexForFulltext :
              row \in Seq(0..255) /\ Len(row) <= TokenBytes /\ IndexForFulltext[row] \in {1, 2}
<1> DEFINE body == tokenize_text(content)
           tag == tokenize_text(title)
<1>1. IndexForFulltext = [b \in {x \in DOMAIN body \cup DOMAIN tag : Len(x) > 1} |->
                            IF b \in DOMAIN tag THEN tag[b] ELSE body[b]]
  BY Zenon DEF IndexForFulltext
<1>2. /\ \A b \in DOMAIN body : b \in Seq(0..255) /\ Len(b) <= TokenBytes /\ body[b] \in {1, 2}
      /\ \A b \in DOMAIN tag : b \in Seq(0..255) /\ Len(b) <= TokenBytes /\ tag[b] \in {1, 2}
  <2>1. content \in Seq(Alphabet) /\ title \in Seq(Alphabet)
    BY DEF CodecsTypeOK
  <2>2. \A said \in Seq(Alphabet) : \A b \in DOMAIN tokenize_text(said) :
          b \in Seq(0..255) /\ Len(b) <= TokenBytes /\ tokenize_text(said)[b] \in {1, 2}
    BY TokensAre, Zenon
  <2> QED BY <2>1, <2>2, Zenon
<1> HIDE DEF body, tag
<1>3. DOMAIN IndexForFulltext = {x \in DOMAIN body \cup DOMAIN tag : Len(x) > 1}
  BY <1>1, Zenon
<1>4. ASSUME NEW row \in DOMAIN IndexForFulltext
      PROVE  row \in Seq(0..255) /\ Len(row) <= TokenBytes /\ IndexForFulltext[row] \in {1, 2}
  <2>1. IndexForFulltext[row] = IF row \in DOMAIN tag THEN tag[row] ELSE body[row]
    BY <1>1, <1>3, Zenon
  <2>2. row \in DOMAIN body \/ row \in DOMAIN tag
    BY <1>3
  <2> QED BY <1>2, <2>1, <2>2, SMT
<1>5. \A row : row \in DOMAIN IndexForFulltext <=> row \in DOMAIN body \cup DOMAIN tag /\ Len(row) > 1
  BY <1>3
<1> QED BY <1>4, <1>5, Zenon DEF body, tag

\* tokenize_text and App::find_in_index: an event is found by every beginning of its words,
\* of any number of letters (MaxQuery), and what is found is ordered without a division by zero.
THEOREM SearchesFind == Spec => []SearchFinds
<1>1. CodecsTypeOK => SearchFinds
  <2> SUFFICES ASSUME CodecsTypeOK, NEW q \in Queries(MaxQuery)
               PROVE  /\ \A w \in Words(content) \cup Words(title) :
                           Len(w) > 1 /\ IsPrefix(unac_word([i \in DOMAIN q |-> Lower(q[i])]), unac_word(w)) => Found(q)
                      /\ \A row \in DOMAIN IndexForFulltext, token \in DOMAIN tokenize_text(q) :
                           row \in Selected(IndexForFulltext, token) => Divisor(IndexForFulltext[row], row, token) # 0
    BY Zenon DEF SearchFinds
  <2>1. PICK n \in Nat \ {0} : q \in [1..n -> Alnum]
    <3>1. PICK k \in 1..MaxQuery : q \in [1..k -> Alnum]
      BY Zenon DEF Queries
    <3>2. k \in Nat \ {0}
      BY FullTextAssumption
    <3> QED BY <3>1, <3>2
  <2>2. q \in Seq(Alphabet)
    BY <2>1, FullTextAssumption
  <2>3. ASSUME NEW w \in Words(content) \cup Words(title), Len(w) > 1,
               IsPrefix(unac_word([i \in DOMAIN q |-> Lower(q[i])]), unac_word(w))
        PROVE  Found(q)
    <3>1. PICK typed \in Words(q) : typed = [i \in DOMAIN q |-> Lower(q[i])]
      BY <2>1, TypedIsWord, Zenon
    <3>2. typed \in Seq(Alphabet) /\ w \in Seq(Alphabet)
      <4>1. content \in Seq(Alphabet) /\ title \in Seq(Alphabet)
        BY DEF CodecsTypeOK
      <4>2. typed \in Seq(Alnum) /\ w \in Seq(Alnum)
        BY <2>2, <4>1, WordsAre
      <4> QED BY <4>2, FullTextAssumption
    <3>3. PICK v \in Seq(Alphabet), u \in Seq(Alphabet) :
            v = unac_word(typed) /\ u = unac_word(w) /\ Len(w) <= Len(u)
      BY <3>2, PlainIs, Zenon
    <3>4. IsPrefix(Token(v), Token(u))
      <4>1. IsPrefix(v, u)
        BY <2>3, <3>1, <3>3, Zenon
      <4> QED BY <4>1, TokenBegins
    <3>5. Token(v) \in DOMAIN tokenize_text(q)
      BY <3>3, PlainIsToken, Zenon
    <3>6. Token(u) \in DOMAIN tokenize_text(content) \cup DOMAIN tokenize_text(title)
      <4>1. Token(u) \in DOMAIN tokenize_text(content) \/ Token(u) \in DOMAIN tokenize_text(title)
        BY <3>3, PlainIsToken, Zenon
      <4> QED BY <4>1
    <3>7. Len(Token(u)) > 1
      <4>1. Len(u) > 1
        BY <2>3, <3>2, <3>3
      <4> QED BY <4>1, TokenLength
    <3>8. Token(u) \in DOMAIN IndexForFulltext
      BY <3>6, <3>7, RowsAre, Zenon
    <3>9. Token(u) \in Selected(IndexForFulltext, Token(v))
      BY <3>4, <3>8, Zenon DEF Selected
    <3> QED BY <3>5, <3>9, Zenon DEF Found
  <2>4. ASSUME NEW row \in DOMAIN IndexForFulltext, NEW token \in DOMAIN tokenize_text(q),
               row \in Selected(IndexForFulltext, token)
        PROVE  Divisor(IndexForFulltext[row], row, token) # 0
    <3>1. row \in Seq(0..255) /\ Len(row) <= TokenBytes /\ IndexForFulltext[row] \in {1, 2}
      BY RowsAre, Zenon
    <3>2. token \in Seq(0..255) /\ Len(token) >= 1
      BY <2>2, TokensAre
    <3>3. Len(token) <= Len(row)
      <4>1. IsPrefix(token, row)
        BY <2>4, Zenon DEF Selected
      <4> QED BY <3>1, <3>2, <4>1, PrefixIs
    <3>4. PICK m \in Nat, k \in Nat, r \in {1, 2} :
            m = Len(row) /\ k = Len(token) /\ r = IndexForFulltext[row] /\ k >= 1 /\ k <= m /\ m <= TokenBytes
      BY <3>1, <3>2, <3>3
    <3>5. PICK p \in Nat : p = r * (m - k + 1) /\ p # 0 /\ p < RelWidth
      <4>1. r * (m - k + 1) \in Nat /\ r * (m - k + 1) >= 1 /\ r * (m - k + 1) <= 2 * TokenBytes
        <5>1. TokenBytes \in Nat
          BY FullTextAssumption
        <5>2. CASE r = 1
          BY <3>4, <5>1, <5>2
        <5>3. CASE r = 2
          BY <3>4, <5>1, <5>3
        <5> QED BY <5>2, <5>3
      <4> QED BY <4>1, FullTextAssumption
    <3>6. p % RelWidth = p
      <4>1. PICK w \in Nat \ {0} : w = RelWidth /\ p < w
        BY <3>5, FullTextAssumption
      <4>2. p % w = p
        BY <4>1, SmallRemainder
      <4> QED BY <4>1, <4>2, Zenon
    <3> QED BY <3>4, <3>5, <3>6, Zenon DEF Divisor
  <2> QED BY <2>3, <2>4
<1> QED BY <1>1, CodecsTyped, PTL

-----------------------------------------------------------------------------
(* Events and their rows.                                                  *)

LEMMA DropIs ==
  ASSUME NEW S, NEW s \in Seq(S), NEW t \in Seq(S)
  PROVE  SubSeq(s \o t, 1, Len(s)) = s /\ SubSeq(s \o t, Len(s) + 1, Len(s \o t)) = t
<1>0. PICK m \in Nat, n \in Nat : m = Len(s) /\ n = Len(t)
  OBVIOUS
<1>1. PICK w \in Seq(S) :
        /\ w = s \o t /\ m = Len(s) /\ n = Len(t) /\ Len(w) = m + n
        /\ \A i \in 1..(m + n) : w[i] = IF i <= m THEN s[i] ELSE t[i - m]
  <2>1. /\ s \o t \in Seq(S) /\ Len(s \o t) = Len(s) + Len(t)
        /\ \A i \in 1..(Len(s) + Len(t)) : (s \o t)[i] = IF i <= Len(s) THEN s[i] ELSE t[i - Len(s)]
    BY ConcatProperties
  <2> QED BY <1>0, <2>1, Zenon
<1>2. \A i \in 1..m : i \in 1..(m + n) /\ i <= m
  BY <1>1
<1>3. SubSeq(w, 1, m) = s
  <2>1. /\ SubSeq(w, 1, m) \in Seq(S) /\ Len(SubSeq(w, 1, m)) = m
        /\ \A i \in 1..m : SubSeq(w, 1, m)[i] = w[i]
    BY <1>1, Beginning
  <2>2. \A i \in 1..m : SubSeq(w, 1, m)[i] = s[i]
    BY <1>1, <1>2, <2>1
  <2>3. PICK u \in Seq(S) : u = SubSeq(w, 1, m) /\ Len(u) = m /\ \A i \in 1..m : u[i] = s[i]
    BY <2>1, <2>2, Zenon
  <2> QED BY <1>1, <2>3, SeqEqual
<1>4. SubSeq(w, m + 1, Len(w)) = t
  <2>1. \A i \in (m + 1)..(m + n) : i \in 1..Len(w)
    BY <1>1
  <2>2. \A i \in (m + 1)..(m + n) : w[i] \in S
    BY <2>1, ElementOfSeq
  <2>3. (m + n) - (m + 1) + 1 = n /\ \A i \in 1..n : m + 1 + i - 1 = m + i /\ m + i \in 1..(m + n) /\ ~(m + i <= m) /\ (m + i) - m = i
    BY <1>1
  <2>4. /\ SubSeq(w, m + 1, m + n) \in Seq(S) /\ Len(SubSeq(w, m + 1, m + n)) = n
        /\ \A i \in 1..n : SubSeq(w, m + 1, m + n)[i] = w[m + i]
    BY <1>1, <2>2, <2>3, SubSeqProperties
  <2>5. \A i \in 1..n : w[m + i] = t[i]
    BY <1>1, <2>3
  <2>6. PICK u \in Seq(S) : u = SubSeq(w, m + 1, m + n) /\ Len(u) = n /\ \A i \in 1..n : u[i] = t[i]
    BY <2>4, <2>5, Zenon
  <2> QED BY <1>1, <2>6, SeqEqual
<1> QED BY <1>1, <1>3, <1>4

LEMMA ExtraReads ==
  ASSUME NEW V, NEW x \in V, NEW r \in Seq(V)
  PROVE  /\ <<x>> \o r \in Seq(V)
         /\ GetExtra(<<x>> \o r) = At(r, x) /\ LoadBin(<<x>> \o r) = At(r, x)
<1>1. <<x>> \in Seq(V) /\ Len(<<x>>) = 1 /\ <<x>>[1] = x
  OBVIOUS
<1>2. PICK w \in Seq(V) : w = <<x>> \o r /\ w[1] = x /\ Len(w) = 1 + Len(r)
  <2>1. PICK s \in Seq(V) : s = <<x>> /\ Len(s) = 1 /\ s[1] = x
    BY <1>1, Zenon
  <2>2. /\ s \o r \in Seq(V) /\ Len(s \o r) = Len(s) + Len(r)
        /\ \A i \in 1..(Len(s) + Len(r)) : (s \o r)[i] = IF i <= Len(s) THEN s[i] ELSE r[i - Len(s)]
    BY ConcatProperties
  <2>3. 1 \in 1..(Len(s) + Len(r)) /\ 1 <= Len(s)
    BY <2>1
  <2>4. (s \o r)[1] = x
    BY <2>1, <2>2, <2>3, Zenon
  <2> QED BY <2>1, <2>2, <2>4, Zenon
<1>3. w # <<>>
  <2>1. Len(r) \in Nat
    OBVIOUS
  <2> QED BY <1>2, <2>1, EmptySeq
<1>4. Tail(w) = r
  <2>1. SubSeq(w, 1 + 1, Len(w)) = r
    BY <1>1, <1>2, DropIs
  <2>2. Tail(w) = SubSeq(w, 2, Len(w))
    BY <1>3
  <2> QED BY <2>1, <2>2
<1> QED BY <1>2, <1>3, <1>4, Zenon DEF GetExtra, LoadBin

LEMMA TextReads ==
  ASSUME NEW V, NEW flags, NEW t \in Seq(V), Lead(flags, Len(t)) \in V, NEW r \in Seq(V)
  PROVE  /\ TextRow(flags, t) \in Seq(V) /\ TextRow(flags, t) \o r \in Seq(V)
         /\ GetText(TextRow(flags, t) \o r) = At(r, t)
         /\ GetExtra(TextRow(flags, t) \o r).v = Lead(flags, Len(t))
<1> DEFINE h == Lead(flags, Len(t))
<1>1. <<h>> \in Seq(V)
  OBVIOUS
<1>2. TextRow(flags, t) = <<h>> \o t
  BY DEF TextRow
<1>3. h.n = Len(t) /\ Len(t) \in Nat
  BY DEF Lead
<1> HIDE DEF h
<1>4. PICK w \in Seq(V) : w = t \o r
  BY ConcatProperties
<1>5. TextRow(flags, t) \in Seq(V) /\ TextRow(flags, t) \o r = <<h>> \o w
  BY <1>1, <1>2, <1>4, ConcatProperties, ConcatAssociative
<1>6. h \in V
  BY DEF h
<1>7. <<h>> \o w \in Seq(V) /\ GetExtra(<<h>> \o w) = At(w, h)
  BY <1>6, ExtraReads
<1>8. At(w, h).rest = w /\ At(w, h).v = h
  BY DEF At
<1>9. SubSeq(w, 1, Len(t)) = t /\ SubSeq(w, Len(t) + 1, Len(w)) = r
  BY <1>4, DropIs
<1>10. GetText(<<h>> \o w) = At(SubSeq(w, h.n + 1, Len(w)), SubSeq(w, 1, h.n))
  BY <1>7, <1>8, Zenon DEF GetText
<1>11. GetText(<<h>> \o w) = At(r, t)
  BY <1>3, <1>9, <1>10, Zenon
<1> QED BY <1>5, <1>7, <1>8, <1>11, Zenon DEF h

Regrouped(a, b, c) == (a \o b) \o c = a \o (b \o c)
LEMMA Associative == \A V : \A a, b, c : a \in Seq(V) /\ b \in Seq(V) /\ c \in Seq(V) => Regrouped(a, b, c)
BY ConcatAssociative DEF Regrouped
LEMMA Closed == \A V : \A a, b : a \in Seq(V) /\ b \in Seq(V) => a \o b \in Seq(V)
BY ConcatProperties
InFour(V, x, y, w, p, r) ==
  /\ ((x \o y) \o w) \o p \in Seq(V)
  /\ (((x \o y) \o w) \o p) \o r = x \o (y \o (w \o (p \o r)))

LEMMA FourParts ==
  ASSUME NEW V, NEW x \in Seq(V), NEW y \in Seq(V), NEW w \in Seq(V), NEW p \in Seq(V), NEW r \in Seq(V)
  PROVE  InFour(V, x, y, w, p, r)
<1>1. x \o y \in Seq(V) /\ p \o r \in Seq(V)
  BY Closed, Zenon
<1>2. (x \o y) \o w \in Seq(V) /\ w \o (p \o r) \in Seq(V)
  BY <1>1, Closed, Zenon
<1>3. ((x \o y) \o w) \o p \in Seq(V)
  BY <1>2, Closed, Zenon
<1>4. Regrouped((x \o y) \o w, p, r)
  BY <1>2, Associative, Zenon
<1>5. Regrouped(x \o y, w, p \o r)
  BY <1>1, Associative, Zenon
<1>6. Regrouped(x, y, w \o (p \o r))
  BY <1>2, Associative, Zenon
<1> QED BY <1>3, <1>4, <1>5, <1>6, Zenon DEF Regrouped, InFour

\* A row of parts, taken apart again from its front.
TakesApart(R, q, r) ==
  /\ R[0] = FlattenSeq(q) \o r /\ R[Len(q)] = r
  /\ \A k \in 0..(Len(q) - 1) : R[k] = q[k + 1] \o R[k + 1]

LEMMA PartsFollow ==
  ASSUME NEW B, NEW q \in Seq(Seq(B)), NEW r \in Seq(B)
  PROVE  \E R \in [0..Len(q) -> Seq(B)] : TakesApart(R, q, r)
<1>0. Len(q) \in Nat
  OBVIOUS
<1>3. \A s, t, u \in Seq(B) : (s \o t) \o u = s \o (t \o u)
  BY ConcatAssociative, SMTT(20)
<1>1. CASE q = <<>>
  <2>1. FlattenSeq(q) = <<>> /\ Len(q) = 0
    BY <1>1, FlattenType
  <2>2. FlattenSeq(q) \o r = r
    BY <2>1, ConcatEmptySeq
  <2> DEFINE R == [k \in 0..0 |-> r]
  <2>3. R \in [0..0 -> Seq(B)] /\ R[0] = r
    OBVIOUS
  <2>4. \A k \in 0..(0 - 1) : FALSE
    OBVIOUS
  <2> HIDE DEF R
  <2> QED BY <2>1, <2>2, <2>3, <2>4 DEF TakesApart
<1>2. CASE q # <<>>
  <2>0. Len(q) # 0
    BY <1>2, EmptySeq
  <2>1. PICK f \in [1..Len(q) -> Seq(B)] :
          /\ f[1] = q[1] /\ FlattenSeq(q) = f[Len(q)]
          /\ \A i \in 1..(Len(q) - 1) : f[i + 1] = f[i] \o q[i + 1]
    BY <1>2, FlattenSteps
  <2> DEFINE From(m, t) == \E R \in [0..m -> Seq(B)] :
               /\ R[0] = f[m] \o t /\ R[m] = t
               /\ \A k \in 0..(m - 1) : R[k] = q[k + 1] \o R[k + 1]
             S == {m \in Nat : m + 1 <= Len(q) => \A t \in Seq(B) : From(m + 1, t)}
  <2> HIDE DEF From
  <2>2. 0 \in S
    <3> SUFFICES ASSUME NEW t \in Seq(B) PROVE From(1, t)
      <4>1. 0 \in Nat /\ 0 + 1 = 1
        OBVIOUS
      <4> QED BY <4>1
    <3> DEFINE R == [k \in 0..1 |-> IF k = 0 THEN f[1] \o t ELSE t]
    <3>1. f[1] \o t \in Seq(B)
      <4>1. 1 \in 1..Len(q)
        BY <1>0, <2>0
      <4> QED BY <4>1, ConcatProperties
    <3>2. R \in [0..1 -> Seq(B)] /\ R[0] = f[1] \o t /\ R[1] = t
      BY <3>1
    <3>3. \A k \in 0..(1 - 1) : k = 0 /\ k + 1 = 1
      OBVIOUS
    <3> HIDE DEF R
    <3>4. \A k \in 0..(1 - 1) : R[k] = q[k + 1] \o R[k + 1]
      BY <2>1, <3>2, <3>3
    <3> QED BY <3>2, <3>4 DEF From
  <2>3. ASSUME NEW m \in Nat, m \in S PROVE m + 1 \in S
    <3>0. PICK n \in Nat : n = m + 1
      OBVIOUS
    <3> SUFFICES ASSUME n + 1 <= Len(q), NEW t \in Seq(B) PROVE From(n + 1, t)
      BY <3>0, Zenon
    <3>1. n \in 1..(Len(q) - 1) /\ n \in 1..Len(q) /\ n + 1 \in 1..Len(q) /\ n <= Len(q)
      BY <1>0, <3>0
    <3>2. q[n + 1] \in Seq(B) /\ f[n] \in Seq(B) /\ f[n + 1] = f[n] \o q[n + 1]
      BY <2>1, <3>1, ElementOfSeq
    <3>3. q[n + 1] \o t \in Seq(B)
      BY <3>2, ConcatProperties
    <3>a. (f[n] \o q[n + 1]) \o t = f[n] \o (q[n + 1] \o t)
      BY <1>3, <3>2, Zenon
    <3>4. PICK P \in [0..n -> Seq(B)] :
            /\ P[0] = f[n] \o (q[n + 1] \o t) /\ P[n] = q[n + 1] \o t
            /\ \A k \in 0..(n - 1) : P[k] = q[k + 1] \o P[k + 1]
      <4>1. \A u \in Seq(B) : From(n, u)
        BY <2>3, <3>0, <3>1
      <4>2. From(n, q[n + 1] \o t)
        BY <3>3, <4>1, Zenon
      <4> QED BY <4>2, Zenon DEF From
    <3> DEFINE R == [k \in 0..(n + 1) |-> IF k <= n THEN P[k] ELSE t]
    <3>5. /\ R \in [0..(n + 1) -> Seq(B)] /\ R[n + 1] = t
          /\ \A k \in 0..n : R[k] = P[k]
      OBVIOUS
    <3> HIDE DEF R
    <3>6. R[0] = f[n + 1] \o t
      <4>1. R[0] = P[0] /\ 0 \in 0..n
        BY <3>5
      <4> QED BY <3>2, <3>4, <3>a, <4>1, Zenon
    <3>7. ASSUME NEW k \in 0..((n + 1) - 1) PROVE R[k] = q[k + 1] \o R[k + 1]
      <4>1. CASE k = n
        <5>1. R[n] = P[n]
          BY <3>5
        <5> QED BY <3>4, <3>5, <4>1, <5>1, Zenon
      <4>2. CASE k # n
        <5>1. k \in 0..(n - 1) /\ k \in 0..n /\ k + 1 \in 0..n
          BY <4>2
        <5> QED BY <3>4, <3>5, <5>1, Zenon
      <4> QED BY <4>1, <4>2
    <3> QED BY <3>5, <3>6, <3>7, Zenon DEF From
  <2>4. From(Len(q), r)
    <3>1. Len(q) - 1 \in Nat /\ (Len(q) - 1) + 1 = Len(q) /\ Len(q) <= Len(q)
      BY <1>0, <2>0
    <3>2. Len(q) - 1 \in S
      <4> HIDE DEF S
      <4> QED BY <2>2, <2>3, <3>1, AllNaturals
    <3> QED BY <3>1, <3>2
  <2> QED BY <2>1, <2>4, Zenon DEF From, TakesApart
<1> QED BY <1>1, <1>2

LEMMA OneTaken ==
  ASSUME NEW S, NEW s \in Seq(S), NEW n \in Nat, n = Len(s)
  PROVE  /\ SubSeq(s, 1, 0) = <<>> /\ SubSeq(s, 1, n) = s
         /\ \A k \in 0..(n - 1) : Append(SubSeq(s, 1, k), s[k + 1]) = SubSeq(s, 1, k + 1)
<1>1. ASSUME NEW k \in 0..(n - 1) PROVE Append(SubSeq(s, 1, k), s[k + 1]) = SubSeq(s, 1, k + 1)
  <2>1. PICK m \in Nat : m = k + 1 /\ m \in 1..n /\ k \in Nat /\ k <= n /\ m <= n
    OBVIOUS
  <2>0. \A i \in Nat : i <= n => SubSeq(s, 1, i) \in Seq(S) /\ Len(SubSeq(s, 1, i)) = i /\ \A j \in 1..i : SubSeq(s, 1, i)[j] = s[j]
    BY Beginning
  <2>2. PICK a \in Seq(S) : a = SubSeq(s, 1, k) /\ Len(a) = k /\ \A j \in 1..k : a[j] = s[j]
    BY <2>0, <2>1, Zenon
  <2>3. PICK b \in Seq(S) : b = SubSeq(s, 1, m) /\ Len(b) = m /\ \A j \in 1..m : b[j] = s[j]
    BY <2>0, <2>1, Zenon
  <2>4. PICK e \in S : e = s[m]
    BY <2>1, ElementOfSeq
  <2>5. /\ Append(a, e) \in Seq(S) /\ Len(Append(a, e)) = m
        /\ \A j \in 1..k : Append(a, e)[j] = a[j]
        /\ Append(a, e)[m] = e
    BY <2>1, <2>2, AppendProperties
  <2>6. \A j \in 1..m : j \in 1..k \/ j = m
    BY <2>1
  <2>7. \A j \in 1..k : j \in 1..m
    BY <2>1
  <2>8. \A j \in 1..m : Append(a, e)[j] = b[j]
    BY <2>2, <2>3, <2>4, <2>5, <2>6, <2>7, Zenon
  <2>9. PICK c \in Seq(S) : c = Append(a, e) /\ Len(c) = m /\ \A j \in 1..m : c[j] = b[j]
    BY <2>5, <2>8, Zenon
  <2>10. c = b
    BY <2>3, <2>9, SeqEqual
  <2> QED BY <2>1, <2>2, <2>3, <2>4, <2>9, <2>10, Zenon
<1>2. SubSeq(s, 1, 0) = <<>>
  OBVIOUS
<1>3. SubSeq(s, 1, n) = s
  <2>1. PICK a \in Seq(S) : a = SubSeq(s, 1, n) /\ Len(a) = n /\ \A j \in 1..n : a[j] = s[j]
    BY Beginning
  <2> QED BY <2>1, SeqEqual
<1> QED BY <1>1, <1>2, <1>3

\* A text without flags.
PlainRow(t) == TextRow({}, t)

LEMMA PlainReads ==
  ASSUME NEW V, \A n \in Nat : Lead({}, n) \in V, NEW t \in Seq(V), NEW r \in Seq(V)
  PROVE  /\ PlainRow(t) \in Seq(V) /\ PlainRow(t) \o r \in Seq(V)
         /\ GetText(PlainRow(t) \o r) = At(r, t)
<1>1. Len(t) \in Nat
  OBVIOUS
<1>2. Lead({}, Len(t)) \in V
  BY <1>1
<1> QED BY <1>2, TextReads DEF PlainRow

\* GetMany takes as many texts off the row as were put there.
LEMMA TextsRead ==
  ASSUME NEW V, \A n \in Nat : Lead({}, n) \in V, NEW ts \in Seq(Seq(V)), NEW r \in Seq(V)
  PROVE  LET parts == FlattenSeq([i \in DOMAIN ts |-> PlainRow(ts[i])])
         IN /\ parts \in Seq(V) /\ <<Lead({}, Len(ts))>> \o (parts \o r) \in Seq(V)
            /\ GetMany(<<Lead({}, Len(ts))>> \o (parts \o r), GetText) = At(r, ts)
<1>0. PICK n \in Nat : n = Len(ts) /\ DOMAIN ts = 1..n
  OBVIOUS
<1>1. ASSUME NEW i \in 1..n, NEW u \in Seq(V)
      PROVE  /\ ts[i] \in Seq(V) /\ PlainRow(ts[i]) \in Seq(V)
             /\ GetText(PlainRow(ts[i]) \o u) = At(u, ts[i])
  <2>1. ts[i] \in Seq(V)
    BY <1>0, ElementOfSeq
  <2> QED BY <2>1, PlainReads
<1>2. PICK q \in Seq(Seq(V)) : q = [i \in DOMAIN ts |-> PlainRow(ts[i])] /\ Len(q) = n
  <2>1. \A i \in 1..n : PlainRow(ts[i]) \in Seq(V)
    BY <1>1
  <2>2. [i \in 1..n |-> PlainRow(ts[i])] \in Seq(Seq(V)) /\ Len([i \in 1..n |-> PlainRow(ts[i])]) = n
    BY <2>1
  <2> QED BY <1>0, <2>2
<1>3. \A i \in 1..n : q[i] = PlainRow(ts[i])
  BY <1>0, <1>2
<1>4. PICK flat \in Seq(V) : flat = FlattenSeq(q)
  BY FlattenType
<1>5. PICK row \in Seq(V) : row = flat \o r
  BY ConcatProperties
<1>6. PICK R \in [0..n -> Seq(V)] :
        R[0] = row /\ R[n] = r /\ \A k \in 0..(n - 1) : R[k] = q[k + 1] \o R[k + 1]
  <2>1. \E R \in [0..Len(q) -> Seq(V)] : TakesApart(R, q, r)
    BY PartsFollow
  <2> QED BY <1>2, <1>4, <1>5, <2>1, Zenon DEF TakesApart
<1> DEFINE Solves(g) ==
             g = [k \in 0..n |->
                    IF k = 0 THEN At(row, <<>>)
                    ELSE At(GetText(g[k - 1].rest).rest, Append(g[k - 1].v, GetText(g[k - 1].rest).v))]
           st == [k \in 0..n |-> At(R[k], SubSeq(ts, 1, k))]
<1>7. ASSUME NEW k \in 0..(n - 1)
      PROVE  At(GetText(st[k].rest).rest, Append(st[k].v, GetText(st[k].rest).v)) = st[k + 1]
  <2>1. k \in 0..n /\ k + 1 \in 0..n /\ k + 1 \in 1..n
    BY <1>0
  <2>2. st[k].rest = R[k] /\ st[k].v = SubSeq(ts, 1, k) /\ st[k + 1] = At(R[k + 1], SubSeq(ts, 1, k + 1))
    BY <2>1 DEF At
  <2>3. R[k] = PlainRow(ts[k + 1]) \o R[k + 1]
    BY <1>3, <1>6, <2>1
  <2>4. GetText(R[k]) = At(R[k + 1], ts[k + 1])
    <3>1. R[k + 1] \in Seq(V)
      BY <2>1
    <3> QED BY <1>1, <2>1, <2>3, <3>1, Zenon
  <2>5. At(R[k + 1], ts[k + 1]).rest = R[k + 1] /\ At(R[k + 1], ts[k + 1]).v = ts[k + 1]
    BY DEF At
  <2>6. Append(SubSeq(ts, 1, k), ts[k + 1]) = SubSeq(ts, 1, k + 1)
    BY <1>0, OneTaken
  <2> HIDE DEF st
  <2> QED BY <2>2, <2>4, <2>5, <2>6, Zenon
<1>8. st[0] = At(row, <<>>) /\ st[n] = At(r, ts)
  <2>1. 0 \in 0..n /\ n \in 0..n
    OBVIOUS
  <2>2. SubSeq(ts, 1, 0) = <<>> /\ SubSeq(ts, 1, n) = ts
    BY <1>0, OneTaken
  <2> QED BY <1>6, <2>1, <2>2, Zenon
<1>9. Solves(st)
  <2>1. ASSUME NEW k \in 0..n, k # 0
        PROVE  st[k] = At(GetText(st[k - 1].rest).rest, Append(st[k - 1].v, GetText(st[k - 1].rest).v))
    <3>1. PICK j \in 0..(n - 1) : j = k - 1 /\ j + 1 = k
      BY <2>1
    <3> HIDE DEF st
    <3> QED BY <1>7, <3>1, Zenon
  <2>2. st = [k \in 0..n |-> st[k]]
    OBVIOUS
  <2> HIDE DEF st
  <2> QED BY <1>8, <2>1, <2>2, Zenon
<1> HIDE DEF st
<1> DEFINE h == CHOOSE g : Solves(g)
<1>10. Solves(h)
  <2> HIDE DEF Solves
  <2> QED BY <1>9, Zenon
<1>11. GetMany(<<Lead({}, n)>> \o row, GetText) = h[n]
  <2>1. GetExtra(<<Lead({}, n)>> \o row) = At(row, Lead({}, n))
    BY ExtraReads
  <2>2. At(row, Lead({}, n)).rest = row /\ At(row, Lead({}, n)).v.n = n
    BY DEF At, Lead
  <2>3. PICK x : x = <<Lead({}, n)>> \o row
    OBVIOUS
  <2>4. GetExtra(x).v.n = n /\ GetExtra(x).rest = row
    BY <2>1, <2>2, <2>3, Zenon
  <2>5. GetMany(x, GetText) = h[n]
    BY <2>4, Zenon DEF GetMany
  <2> QED BY <2>3, <2>5, Zenon
<1> HIDE DEF h
<1> DEFINE S == {k \in Nat : k <= n => h[k] = st[k]}
<1>12. 0 \in S
  <2>1. 0 \in 0..n /\ h[0] = At(row, <<>>)
    BY <1>10
  <2> QED BY <1>8, <2>1
<1>13. ASSUME NEW k \in Nat, k \in S PROVE k + 1 \in S
  <2> SUFFICES ASSUME k + 1 <= n PROVE h[k + 1] = st[k + 1]
    OBVIOUS
  <2>1. k \in 0..(n - 1) /\ k + 1 \in 0..n /\ k + 1 # 0 /\ (k + 1) - 1 = k /\ k <= n
    BY <1>0
  <2>2. h[k] = st[k]
    BY <1>13, <2>1
  <2>3. h[k + 1] = At(GetText(h[(k + 1) - 1].rest).rest, Append(h[(k + 1) - 1].v, GetText(h[(k + 1) - 1].rest).v))
    BY <1>10, <2>1, Zenon
  <2> QED BY <1>7, <2>1, <2>2, <2>3, Zenon
<1>14. h[n] = st[n]
  <2>1. n <= n
    OBVIOUS
  <2>2. n \in S
    <3> HIDE DEF S
    <3> QED BY <1>12, <1>13, AllNaturals
  <2> QED BY <2>1, <2>2
<1>15. <<Lead({}, n)>> \o row \in Seq(V)
  BY ExtraReads
<1> QED BY <1>0, <1>2, <1>4, <1>5, <1>8, <1>11, <1>14, <1>15, Zenon

TagType(V) == [tag : Seq(V), content : Seq(V), more : Seq(Seq(V))]

LEMMA TagReads ==
  ASSUME NEW V, \A n \in Nat : Lead({}, n) \in V, NEW t \in TagType(V), NEW r \in Seq(V)
  PROVE  TagRow(t) \in Seq(V) /\ GetTag(TagRow(t) \o r) = At(r, t)
<1>c. \A u, v : At(u, v).rest = u /\ At(u, v).v = v
  BY DEF At
<1>d. \A n \in V : <<n>> \in Seq(V)
  OBVIOUS
<1>e. \A s \in Seq(V) : PlainRow(s) \in Seq(V) /\ \A u \in Seq(V) : GetText(PlainRow(s) \o u) = At(u, s)
  BY PlainReads
<1>1. PICK a \in Seq(V), b \in Seq(V), c \in Seq(Seq(V)) :
        a = t.tag /\ b = t.content /\ c = t.more /\ t = [tag |-> a, content |-> b, more |-> c]
  BY DEF TagType
<1>2. PICK n \in V : n = Lead({}, Len(c))
  <2>1. Len(c) \in Nat
    OBVIOUS
  <2> QED BY <2>1
<1>3. PICK p \in Seq(V) : p = FlattenSeq([i \in DOMAIN c |-> PlainRow(c[i])])
                          /\ <<n>> \o (p \o r) \in Seq(V) /\ GetMany(<<n>> \o (p \o r), GetText) = At(r, c)
  BY <1>2, TextsRead, Zenon
<1>4. PICK x \in Seq(V), y \in Seq(V), w \in Seq(V) :
        x = PlainRow(a) /\ y = PlainRow(b) /\ w = <<n>>
  BY <1>d, <1>e, Zenon
<1>5. TagRow(t) = ((x \o y) \o w) \o p
  BY <1>1, <1>2, <1>3, <1>4, Zenon DEF TagRow, PlainRow
<1>6. PICK z \in Seq(V) : z = w \o (p \o r)
  BY <1>3, <1>4, Zenon
<1>7. \A u \in Seq(V) : GetText(x \o u) = At(u, a) /\ GetText(y \o u) = At(u, b)
  BY <1>4, <1>e, Zenon
<1>8. TagRow(t) \in Seq(V) /\ TagRow(t) \o r = x \o (y \o z)
  <2>1. InFour(V, x, y, w, p, r)
    BY FourParts, Zenon
  <2> QED BY <1>5, <1>6, <2>1, Zenon DEF InFour
<1>9. PICK yz \in Seq(V) : yz = y \o z
  BY Closed, Zenon
<1>10. PICK row \in Seq(V) : row = x \o yz
  BY Closed, Zenon
<1>11. GetText(row) = At(yz, a) /\ GetText(yz) = At(z, b) /\ GetMany(z, GetText) = At(r, c)
  BY <1>3, <1>4, <1>6, <1>7, <1>9, <1>10, Zenon
<1>12. /\ GetText(row).rest = yz /\ GetText(row).v = a
       /\ GetText(yz).rest = z /\ GetText(yz).v = b
       /\ GetMany(z, GetText).rest = r /\ GetMany(z, GetText).v = c
  BY <1>11, <1>c, ZenonT(40)
<1>13. GetTag(row) = At(r, [tag |-> a, content |-> b, more |-> c])
  BY <1>12, Zenon DEF GetTag
<1> QED BY <1>1, <1>8, <1>9, <1>10, <1>13, Zenon

\* And as many tags.
LEMMA TagsRead ==
  ASSUME NEW V, \A n \in Nat : Lead({}, n) \in V, NEW ts \in Seq(TagType(V)), NEW r \in Seq(V)
  PROVE  LET parts == FlattenSeq([i \in DOMAIN ts |-> TagRow(ts[i])])
         IN /\ parts \in Seq(V) /\ <<Lead({}, Len(ts))>> \o (parts \o r) \in Seq(V)
            /\ GetMany(<<Lead({}, Len(ts))>> \o (parts \o r), GetTag) = At(r, ts)
<1>0. PICK n \in Nat : n = Len(ts) /\ DOMAIN ts = 1..n
  OBVIOUS
<1>1. ASSUME NEW i \in 1..n, NEW u \in Seq(V)
      PROVE  /\ ts[i] \in TagType(V) /\ TagRow(ts[i]) \in Seq(V)
             /\ GetTag(TagRow(ts[i]) \o u) = At(u, ts[i])
  <2>1. ts[i] \in TagType(V)
    BY <1>0, ElementOfSeq
  <2> QED BY <2>1, TagReads
<1>2. PICK q \in Seq(Seq(V)) : q = [i \in DOMAIN ts |-> TagRow(ts[i])] /\ Len(q) = n
  <2>1. \A i \in 1..n : TagRow(ts[i]) \in Seq(V)
    BY <1>1
  <2>2. [i \in 1..n |-> TagRow(ts[i])] \in Seq(Seq(V)) /\ Len([i \in 1..n |-> TagRow(ts[i])]) = n
    BY <2>1
  <2> QED BY <1>0, <2>2
<1>3. \A i \in 1..n : q[i] = TagRow(ts[i])
  BY <1>0, <1>2
<1>4. PICK flat \in Seq(V) : flat = FlattenSeq(q)
  BY FlattenType
<1>5. PICK row \in Seq(V) : row = flat \o r
  BY ConcatProperties
<1>6. PICK R \in [0..n -> Seq(V)] :
        R[0] = row /\ R[n] = r /\ \A k \in 0..(n - 1) : R[k] = q[k + 1] \o R[k + 1]
  <2>1. \E R \in [0..Len(q) -> Seq(V)] : TakesApart(R, q, r)
    BY PartsFollow
  <2> QED BY <1>2, <1>4, <1>5, <2>1, Zenon DEF TakesApart
<1> DEFINE Solves(g) ==
             g = [k \in 0..n |->
                    IF k = 0 THEN At(row, <<>>)
                    ELSE At(GetTag(g[k - 1].rest).rest, Append(g[k - 1].v, GetTag(g[k - 1].rest).v))]
           st == [k \in 0..n |-> At(R[k], SubSeq(ts, 1, k))]
<1>7. ASSUME NEW k \in 0..(n - 1)
      PROVE  At(GetTag(st[k].rest).rest, Append(st[k].v, GetTag(st[k].rest).v)) = st[k + 1]
  <2>1. k \in 0..n /\ k + 1 \in 0..n /\ k + 1 \in 1..n
    BY <1>0
  <2>2. st[k].rest = R[k] /\ st[k].v = SubSeq(ts, 1, k) /\ st[k + 1] = At(R[k + 1], SubSeq(ts, 1, k + 1))
    BY <2>1 DEF At
  <2>3. R[k] = TagRow(ts[k + 1]) \o R[k + 1]
    BY <1>3, <1>6, <2>1
  <2>4. GetTag(R[k]) = At(R[k + 1], ts[k + 1])
    <3>1. R[k + 1] \in Seq(V)
      BY <2>1
    <3> QED BY <1>1, <2>1, <2>3, <3>1, Zenon
  <2>5. At(R[k + 1], ts[k + 1]).rest = R[k + 1] /\ At(R[k + 1], ts[k + 1]).v = ts[k + 1]
    BY DEF At
  <2>6. Append(SubSeq(ts, 1, k), ts[k + 1]) = SubSeq(ts, 1, k + 1)
    BY <1>0, OneTaken
  <2> HIDE DEF st
  <2> QED BY <2>2, <2>4, <2>5, <2>6, Zenon
<1>8. st[0] = At(row, <<>>) /\ st[n] = At(r, ts)
  <2>1. 0 \in 0..n /\ n \in 0..n
    OBVIOUS
  <2>2. SubSeq(ts, 1, 0) = <<>> /\ SubSeq(ts, 1, n) = ts
    BY <1>0, OneTaken
  <2> QED BY <1>6, <2>1, <2>2, Zenon
<1>9. Solves(st)
  <2>1. ASSUME NEW k \in 0..n, k # 0
        PROVE  st[k] = At(GetTag(st[k - 1].rest).rest, Append(st[k - 1].v, GetTag(st[k - 1].rest).v))
    <3>1. PICK j \in 0..(n - 1) : j = k - 1 /\ j + 1 = k
      BY <2>1
    <3> HIDE DEF st
    <3> QED BY <1>7, <3>1, Zenon
  <2>2. st = [k \in 0..n |-> st[k]]
    OBVIOUS
  <2> HIDE DEF st
  <2> QED BY <1>8, <2>1, <2>2, Zenon
<1> HIDE DEF st
<1> DEFINE h == CHOOSE g : Solves(g)
<1>10. Solves(h)
  <2> HIDE DEF Solves
  <2> QED BY <1>9, Zenon
<1>11. GetMany(<<Lead({}, n)>> \o row, GetTag) = h[n]
  <2>1. GetExtra(<<Lead({}, n)>> \o row) = At(row, Lead({}, n))
    BY ExtraReads
  <2>2. At(row, Lead({}, n)).rest = row /\ At(row, Lead({}, n)).v.n = n
    BY DEF At, Lead
  <2>3. PICK x : x = <<Lead({}, n)>> \o row
    OBVIOUS
  <2>4. GetExtra(x).v.n = n /\ GetExtra(x).rest = row
    BY <2>1, <2>2, <2>3, Zenon
  <2>5. GetMany(x, GetTag) = h[n]
    BY <2>4, Zenon DEF GetMany
  <2> QED BY <2>3, <2>5, Zenon
<1> HIDE DEF h
<1> DEFINE S == {k \in Nat : k <= n => h[k] = st[k]}
<1>12. 0 \in S
  <2>1. 0 \in 0..n /\ h[0] = At(row, <<>>)
    BY <1>10
  <2> QED BY <1>8, <2>1
<1>13. ASSUME NEW k \in Nat, k \in S PROVE k + 1 \in S
  <2> SUFFICES ASSUME k + 1 <= n PROVE h[k + 1] = st[k + 1]
    OBVIOUS
  <2>1. k \in 0..(n - 1) /\ k + 1 \in 0..n /\ k + 1 # 0 /\ (k + 1) - 1 = k /\ k <= n
    BY <1>0
  <2>2. h[k] = st[k]
    BY <1>13, <2>1
  <2>3. h[k + 1] = At(GetTag(h[(k + 1) - 1].rest).rest, Append(h[(k + 1) - 1].v, GetTag(h[(k + 1) - 1].rest).v))
    BY <1>10, <2>1, Zenon
  <2> QED BY <1>7, <2>1, <2>2, <2>3, Zenon
<1>14. h[n] = st[n]
  <2>1. n <= n
    OBVIOUS
  <2>2. n \in S
    <3> HIDE DEF S
    <3> QED BY <1>12, <1>13, AllNaturals
  <2> QED BY <2>1, <2>2
<1>15. <<Lead({}, n)>> \o row \in Seq(V)
  BY ExtraReads
<1> QED BY <1>0, <1>2, <1>4, <1>5, <1>8, <1>11, <1>14, <1>15, Zenon

LEMMA TwoElements ==
  ASSUME NEW V, NEW a \in V, NEW b \in V
  PROVE  <<a, b>> \in Seq(V) /\ <<a>> \o <<b>> = <<a, b>>
<1>1. PICK w \in Seq(V) : w = <<a, b>> /\ Len(w) = 2 /\ w[1] = a /\ w[2] = b
  <2>1. <<a, b>> \in Seq(V) /\ Len(<<a, b>>) = 2 /\ <<a, b>>[1] = a /\ <<a, b>>[2] = b
    OBVIOUS
  <2> QED BY <2>1, Zenon
<1>2. PICK s \in Seq(V) : s = <<a>> /\ Len(s) = 1 /\ s[1] = a
  <2>1. <<a>> \in Seq(V) /\ Len(<<a>>) = 1 /\ <<a>>[1] = a
    OBVIOUS
  <2> QED BY <2>1, Zenon
<1>3. PICK u \in Seq(V) : u = Append(s, b) /\ Len(u) = 2 /\ u[1] = a /\ u[2] = b
  <2>1. /\ Append(s, b) \in Seq(V) /\ Len(Append(s, b)) = Len(s) + 1
        /\ \A i \in 1..Len(s) : Append(s, b)[i] = s[i]
        /\ Append(s, b)[Len(s) + 1] = b
    BY AppendProperties
  <2>2. Len(s) + 1 = 2 /\ 1 \in 1..Len(s)
    BY <1>2
  <2> QED BY <1>2, <2>1, <2>2, Zenon
<1>4. u = w
  <2>1. \A j \in 1..2 : j = 1 \/ j = 2
    OBVIOUS
  <2>2. \A j \in 1..2 : u[j] = w[j]
    BY <1>1, <1>3, <2>1, Zenon
  <2> QED BY <1>1, <1>3, <2>2, SeqEqual
<1>5. s \o <<b>> = Append(s, b)
  BY AppendIsConcat
<1> QED BY <1>1, <1>2, <1>3, <1>4, <1>5, Zenon

LEMMA ThreeAreOne ==
  ASSUME NEW V, NEW a \in V, NEW b \in V, NEW c \in V
  PROVE  <<a, b, c>> \in Seq(V) /\ <<a, b>> \o <<c>> = <<a, b, c>>
<1>1. PICK w \in Seq(V) : w = <<a, b, c>> /\ Len(w) = 3 /\ w[1] = a /\ w[2] = b /\ w[3] = c
  <2>1. <<a, b, c>> \in Seq(V) /\ Len(<<a, b, c>>) = 3 /\ <<a, b, c>>[1] = a /\ <<a, b, c>>[2] = b /\ <<a, b, c>>[3] = c
    OBVIOUS
  <2> QED BY <2>1, Zenon
<1>2. PICK s \in Seq(V) : s = <<a, b>> /\ Len(s) = 2 /\ s[1] = a /\ s[2] = b
  <2>1. <<a, b>> \in Seq(V) /\ Len(<<a, b>>) = 2 /\ <<a, b>>[1] = a /\ <<a, b>>[2] = b
    OBVIOUS
  <2> QED BY <2>1, Zenon
<1>3. PICK u \in Seq(V) : u = Append(s, c) /\ Len(u) = 3 /\ u[1] = a /\ u[2] = b /\ u[3] = c
  <2>1. /\ Append(s, c) \in Seq(V) /\ Len(Append(s, c)) = Len(s) + 1
        /\ \A i \in 1..Len(s) : Append(s, c)[i] = s[i]
        /\ Append(s, c)[Len(s) + 1] = c
    BY AppendProperties
  <2>2. Len(s) + 1 = 3 /\ 1 \in 1..Len(s) /\ 2 \in 1..Len(s)
    BY <1>2
  <2> QED BY <1>2, <2>1, <2>2, Zenon
<1>4. u = w
  <2>1. \A j \in 1..3 : j = 1 \/ j = 2 \/ j = 3
    OBVIOUS
  <2>2. \A j \in 1..3 : u[j] = w[j]
    BY <1>1, <1>3, <2>1, Zenon
  <2> QED BY <1>1, <1>3, <2>2, SeqEqual, ZenonT(40)
<1>5. s \o <<c>> = Append(s, c)
  BY AppendIsConcat
<1> QED BY <1>1, <1>2, <1>3, <1>4, <1>5, Zenon

InThree(V, a, b, c, s) ==
  <<a, b, c>> \in Seq(V) /\ <<a, b, c>> \o s = <<a>> \o (<<b>> \o (<<c>> \o s))

LEMMA ThreeElements ==
  ASSUME NEW V, NEW a \in V, NEW b \in V, NEW c \in V, NEW s \in Seq(V)
  PROVE  InThree(V, a, b, c, s)
<1>1. <<a>> \in Seq(V) /\ <<b>> \in Seq(V) /\ <<c>> \in Seq(V) /\ <<a, b, c>> \in Seq(V)
  OBVIOUS
<1>2. <<a, b, c>> = (<<a>> \o <<b>>) \o <<c>>
  <2>1. <<a>> \o <<b>> = <<a, b>>
    BY TwoElements
  <2>2. <<a, b>> \o <<c>> = <<a, b, c>>
    BY ThreeAreOne
  <2> QED BY <2>1, <2>2, Zenon
<1>3. <<a>> \o <<b>> \in Seq(V) /\ <<c>> \o s \in Seq(V)
  BY <1>1, Closed, Zenon
<1>4. Regrouped(<<a>> \o <<b>>, <<c>>, s)
  BY <1>1, <1>3, Associative, Zenon
<1>5. Regrouped(<<a>>, <<b>>, <<c>> \o s)
  BY <1>1, <1>3, Associative, Zenon
<1> QED BY <1>1, <1>2, <1>4, <1>5, Zenon DEF Regrouped, InThree

IsEvent(ev, words, a, b, kind, time, rows, hash, key, depth) ==
  ev = [content |-> words, nip97 |-> a, trusted |-> b, kind |-> kind, created_at |-> time,
        tags |-> rows, id |-> hash, author |-> key, ref_level |-> depth]

\* What the row of an event is made of.
HoldsRow(V, ev, words, a, b, kind, time, rows, hash, key, depth) ==
  /\ \A n \in Nat : Lead({}, n) \in V
  /\ words \in Seq(V) /\ rows \in Seq(TagType(V)) /\ hash \in V /\ key \in V /\ a \in BOOLEAN /\ b \in BOOLEAN
  /\ Lead({}, kind) \in V /\ Lead({}, time) \in V /\ Lead({}, depth) \in V /\ Lead(Flags(ev), Len(words)) \in V

ReadsBack(ev) == from_binary(EventToBinary(ev)) = ev

\* The two lists of an event's fields agree, field by field.
LEMMA EventReads ==
  ASSUME NEW V, NEW words, NEW a, NEW b, NEW kind, NEW time, NEW rows, NEW hash, NEW key, NEW depth, NEW ev,
         IsEvent(ev, words, a, b, kind, time, rows, hash, key, depth),
         HoldsRow(V, ev, words, a, b, kind, time, rows, hash, key, depth)
  PROVE  ReadsBack(ev)
<1>p. \A n \in Nat : Lead({}, n) \in V
  BY Zenon DEF HoldsRow
<1>q. words \in Seq(V) /\ rows \in Seq(TagType(V)) /\ hash \in V /\ key \in V /\ a \in BOOLEAN /\ b \in BOOLEAN
  BY Zenon DEF HoldsRow
<1>r. Lead({}, kind) \in V /\ Lead({}, time) \in V /\ Lead({}, depth) \in V /\ Lead(Flags(ev), Len(words)) \in V
  BY Zenon DEF HoldsRow
<1> USE <1>p, <1>q, <1>r
<1>0. \A u, v : At(u, v).rest = u /\ At(u, v).v = v
  BY DEF At
<1>1. /\ ev.content = words /\ ev.nip97 = a /\ ev.trusted = b /\ ev.kind = kind /\ ev.created_at = time
      /\ ev.tags = rows /\ ev.id = hash /\ ev.author = key /\ ev.ref_level = depth
  BY DEF IsEvent
<1>2. PICK n0 \in V, nk \in V, nt \in V, nr \in V, nd \in V, nw \in V :
        /\ n0 = Lead({}, 0) /\ nk = Lead({}, kind) /\ nt = Lead({}, time) /\ nr = Lead({}, Len(rows))
        /\ nd = Lead({}, depth) /\ nw = Lead(Flags(ev), Len(words))
  <2>1. 0 \in Nat /\ Len(rows) \in Nat
    OBVIOUS
  <2> QED BY <2>1
<1>a. n0.n = 0 /\ nk.n = kind /\ nt.n = time /\ nd.n = depth /\ nw.flags = Flags(ev)
  BY <1>2 DEF Lead
<1>3. PICK r1 \in Seq(V) : r1 = <<nd>> \o <<>> /\ GetExtra(r1) = At(<<>>, nd)
  <2>1. <<>> \in Seq(V)
    OBVIOUS
  <2> QED BY <2>1, ExtraReads, Zenon
<1>4. PICK r2 \in Seq(V) : r2 = <<key>> \o r1 /\ LoadBin(r2) = At(r1, key)
  BY ExtraReads, Zenon
<1>5. PICK r3 \in Seq(V) : r3 = <<hash>> \o r2 /\ LoadBin(r3) = At(r2, hash)
  BY ExtraReads, Zenon
<1>6. PICK flat \in Seq(V), r5 \in Seq(V) :
        /\ flat = FlattenSeq([i \in DOMAIN rows |-> TagRow(rows[i])])
        /\ r5 = <<nr>> \o (flat \o r3) /\ GetMany(r5, GetTag) = At(r3, rows)
  BY <1>2, TagsRead, Zenon
<1>7. PICK r6 \in Seq(V) : r6 = <<nt>> \o r5 /\ GetExtra(r6) = At(r5, nt)
  BY ExtraReads, Zenon
<1>8. PICK r7 \in Seq(V) : r7 = <<nk>> \o r6 /\ GetExtra(r7) = At(r6, nk)
  BY ExtraReads, Zenon
<1>9. PICK head \in Seq(V), r8 \in Seq(V) :
        head = TextRow(Flags(ev), words) /\ r8 = head \o r7 /\ GetText(r8) = At(r7, words) /\ GetExtra(r8).v = nw
  <2>1. \A f : Lead(f, Len(words)) \in V =>
          TextRow(f, words) \in Seq(V) /\ \A u \in Seq(V) :
            /\ TextRow(f, words) \o u \in Seq(V) /\ GetText(TextRow(f, words) \o u) = At(u, words)
            /\ GetExtra(TextRow(f, words) \o u).v = Lead(f, Len(words))
    <3> SUFFICES ASSUME NEW f, Lead(f, Len(words)) \in V, NEW u \in Seq(V)
                 PROVE  /\ TextRow(f, words) \in Seq(V)
                        /\ TextRow(f, words) \o u \in Seq(V) /\ GetText(TextRow(f, words) \o u) = At(u, words)
                        /\ GetExtra(TextRow(f, words) \o u).v = Lead(f, Len(words))
      BY <1>3, Zenon
    <3> QED BY TextReads
  <2> QED BY <1>2, <2>1, Zenon
<1>10. PICK r9 \in Seq(V) : r9 = <<n0>> \o r8 /\ GetExtra(r9) = At(r8, n0)
  BY ExtraReads, Zenon
<1>11. EventToBinary(ev) = r9
  <2>1. PICK l \in Seq(V), m \in Seq(V), e \in Seq(V) : l = <<n0>> /\ m = <<nk, nt, nr>> /\ e = <<hash, key, nd>>
    <3>1. <<n0>> \in Seq(V)
      OBVIOUS
    <3> QED BY <3>1, ThreeAreOne, Zenon
  <2>2. EventToBinary(ev) = (((l \o head) \o m) \o flat) \o e
    BY <1>1, <1>2, <1>6, <1>9, <2>1, Zenon DEF EventToBinary
  <2>3. e = r3
    <3>1. <<>> \in Seq(V)
      OBVIOUS
    <3>2. InThree(V, hash, key, nd, <<>>)
      BY <3>1, ThreeElements, Zenon
    <3>3. e \o <<>> = e
      BY ConcatEmptySeq, Zenon
    <3> QED BY <1>3, <1>4, <1>5, <2>1, <3>2, <3>3, Zenon DEF InThree
  <2>4. PICK s \in Seq(V) : s = flat \o e
    BY Closed, Zenon
  <2>5. m \o s = r7
    <3>1. InThree(V, nk, nt, nr, s)
      BY ThreeElements, Zenon
    <3> QED BY <1>6, <1>7, <1>8, <2>1, <2>3, <2>4, <3>1, Zenon DEF InThree
  <2>6. InFour(V, l, head, m, flat, e)
    BY FourParts, Zenon
  <2> QED BY <1>9, <1>10, <2>1, <2>2, <2>4, <2>5, <2>6, Zenon DEF InFour
<1>12. from_binary(r9) = EventFromBinary(r8)
  <2>1. GetExtra(r9).v.n = 0 /\ GetExtra(r9).rest = r8 /\ 0 # 1
    BY <1>0, <1>a, <1>10
  <2> QED BY <2>1, Zenon DEF from_binary
<1>13. /\ GetExtra(r8).v.flags = Flags(ev) /\ GetText(r8).rest = r7 /\ GetText(r8).v = words
       /\ GetExtra(r7).rest = r6 /\ GetExtra(r7).v.n = kind
       /\ GetExtra(r6).rest = r5 /\ GetExtra(r6).v.n = time
       /\ GetMany(r5, GetTag).rest = r3 /\ GetMany(r5, GetTag).v = rows
       /\ LoadBin(r3).rest = r2 /\ LoadBin(r3).v = hash
       /\ LoadBin(r2).rest = r1 /\ LoadBin(r2).v = key
       /\ GetExtra(r1).v.n = depth
  <2>1. GetExtra(r8).v.flags = Flags(ev) /\ GetText(r8).rest = r7 /\ GetText(r8).v = words
    <3>1. GetExtra(r8).v = nw /\ GetText(r8) = At(r7, words)
      BY <1>9
    <3> QED BY <1>0, <1>a, <3>1
  <2>2. GetExtra(r7).rest = r6 /\ GetExtra(r7).v.n = kind
    <3>1. GetExtra(r7) = At(r6, nk)
      BY <1>8
    <3> QED BY <1>0, <1>a, <3>1
  <2>3. GetExtra(r6).rest = r5 /\ GetExtra(r6).v.n = time
    <3>1. GetExtra(r6) = At(r5, nt)
      BY <1>7
    <3> QED BY <1>0, <1>a, <3>1
  <2>4. GetMany(r5, GetTag).rest = r3 /\ GetMany(r5, GetTag).v = rows
    <3>1. GetMany(r5, GetTag) = At(r3, rows)
      BY <1>6, Zenon
    <3> QED BY <1>0, <3>1, Zenon
  <2>5. LoadBin(r3).rest = r2 /\ LoadBin(r3).v = hash /\ LoadBin(r2).rest = r1 /\ LoadBin(r2).v = key
    <3>1. LoadBin(r3) = At(r2, hash) /\ LoadBin(r2) = At(r1, key)
      BY <1>4, <1>5
    <3> QED BY <1>0, <3>1
  <2>6. GetExtra(r1).v.n = depth
    <3>1. GetExtra(r1) = At(<<>>, nd)
      BY <1>3
    <3> QED BY <1>0, <1>a, <3>1
  <2> QED BY <2>1, <2>2, <2>3, <2>4, <2>5, <2>6, Zenon
<1>14. ("nip97" \in Flags(ev)) = a /\ ("trusted" \in Flags(ev)) = b
  BY <1>1 DEF Flags
<1>15. EventFromBinary(r8) =
         [content |-> words, nip97 |-> a, trusted |-> b, kind |-> kind, created_at |-> time,
          tags |-> rows, id |-> hash, author |-> key, ref_level |-> depth]
  BY <1>13, <1>14, Zenon DEF EventFromBinary
<1> QED BY <1>11, <1>12, <1>15, Zenon DEF IsEvent, ReadsBack

LEMMA FileReads ==
  ASSUME NEW V, NEW hash \in V, NEW data \in Seq(V), Lead({}, 1) \in V,
         NEW att, att = [id |-> hash, data |-> data]
  PROVE  from_binary(FileToBinary(att)) = att
<1>0. \A u, v : At(u, v).rest = u /\ At(u, v).v = v
  BY DEF At
<1>1. PICK n \in V : n = Lead({}, 1) /\ n.n = 1
  BY DEF Lead
<1>2. PICK r \in Seq(V) : r = <<hash>> \o data /\ LoadBin(r) = At(data, hash)
  BY ExtraReads, Zenon
<1>3. PICK w \in Seq(V) : w = <<n>> \o r /\ GetExtra(w) = At(r, n)
  BY ExtraReads, Zenon
<1>4. FileToBinary(att) = w
  <2>1. <<n>> \in Seq(V) /\ <<hash>> \in Seq(V)
    OBVIOUS
  <2>2. <<n>> \o <<hash>> = <<n, hash>>
    BY TwoElements
  <2>3. Regrouped(<<n>>, <<hash>>, data)
    BY <2>1, Associative, Zenon
  <2>4. att.id = hash /\ att.data = data
    OBVIOUS
  <2> QED BY <1>1, <1>2, <1>3, <2>2, <2>3, <2>4, Zenon DEF FileToBinary, Regrouped
<1>5. from_binary(w) = FileFromBinary(r)
  <2>1. GetExtra(w) = At(r, n)
    BY <1>3
  <2>2. GetExtra(w).v.n = 1 /\ GetExtra(w).rest = r
    BY <1>0, <1>1, <2>1
  <2> QED BY <2>2, Zenon DEF from_binary
<1>6. LoadBin(r).v = hash /\ LoadBin(r).rest = data
  <2>1. LoadBin(r) = At(data, hash)
    BY <1>2
  <2> QED BY <1>0, <2>1
<1> QED BY <1>4, <1>5, <1>6, Zenon DEF FileFromBinary

LEMMA MoreElements ==
  ASSUME NEW A, NEW B, A \subseteq B, NEW s \in Seq(A)
  PROVE  s \in Seq(B)
<1>1. PICK n \in Nat : s \in [1..n -> A]
  OBVIOUS
<1>2. s \in [1..n -> B]
  BY <1>1
<1> QED BY <1>2

LEMMA IsFunction ==
  ASSUME NEW S, NEW s \in Seq(S)
  PROVE  \E n \in Nat : s = [k \in 1..n |-> s[k]]
OBVIOUS

LEMMA TagParsed ==
  ASSUME NEW row, IsTag(row), row[2] \in Seq(ToSet(row[2])),
         \A v \in ToSet(row[2]) : AsText(v) \in Seq(Characters)
  PROVE  TagOf(row) \in TagType(Characters)
<1>1. PICK n \in Nat : n = Len(row[2]) /\ DOMAIN row[2] = 1..n /\ n >= 2
  BY DEF IsTag
<1>2. \A i \in 1..n : AsText(row[2][i]) \in Seq(Characters)
  BY <1>1 DEF ToSet
<1>3. \A i \in 1..2 : AsText(row[2][i]) = row[2][i][2] /\ i \in 1..n
  BY <1>1 DEF AsText, IsTag
<1>4. row[2][1][2] \in Seq(Characters) /\ row[2][2][2] \in Seq(Characters)
  <2>1. 1 \in 1..2 /\ 2 \in 1..2
    OBVIOUS
  <2> QED BY <1>2, <1>3, <2>1, Zenon
<1>5. [i \in 1..(Len(row[2]) - 2) |-> AsText(row[2][i + 2])] \in Seq(Seq(Characters))
  <2>a. n \in Nat /\ n >= 2
    BY <1>1, Zenon
  <2>0. PICK m \in Nat : m = n - 2
    BY <2>a
  <2>1. m = n - 2 /\ \A i \in 1..m : i + 2 \in 1..n
    BY <1>1, <2>0
  <2>2. [i \in 1..m |-> AsText(row[2][i + 2])] \in [1..m -> Seq(Characters)]
    BY <1>2, <2>1
  <2>3. [i \in 1..m |-> AsText(row[2][i + 2])] \in Seq(Seq(Characters))
    BY <2>2
  <2> QED BY <1>1, <2>1, <2>3
<1> QED BY <1>4, <1>5, Zenon DEF TagOf, TagType

\* What fromStructured lets through.
IsParsed(ev, words, kind, time, rows, hash, key) ==
  IsEvent(ev, words, FALSE, FALSE, kind, time, rows, hash, key, 0)

LEMMA AcceptedAre ==
  ASSUME CodecsTypeOK, NEW ev \in Accepted
  PROVE  /\ calc_id(ev) = ev.id
         /\ \E words \in Seq(Characters), rows \in Seq(TagType(Characters)) : \E kind, time, hash, key :
              IsParsed(ev, words, kind, time, rows, hash, key)
<1>1. PICK json \in PostedEvents, m \in Memory : WellTyped(json) /\ ev = Parsed(json, m) /\ calc_id(ev) = ev.id
  <2>1. posted # Nothing
    BY DEF Accepted
  <2>2. posted \in PostedEvents
    BY <2>1 DEF CodecsTypeOK
  <2>3. PICK m \in Memory : ev \in fromStructured(posted, m)
    BY <2>1, Zenon DEF Accepted
  <2>4. WellTyped(posted) /\ ev = Parsed(posted, m) /\ calc_id(ev) = ev.id
    BY <2>3 DEF fromStructured
  <2> QED BY <2>2, <2>4
<1>2. PICK words \in Seq(Characters) : words = json.content[2]
  BY <1>1, EventTextAssumption, Zenon
<1>3. PICK rows \in Seq(TagType(Characters)) :
        rows = IF json.tags = Absent THEN <<>> ELSE [i \in DOMAIN json.tags[2] |-> TagOf(json.tags[2][i])]
  <2>1. CASE json.tags = Absent
    <3>1. <<>> \in Seq(TagType(Characters))
      OBVIOUS
    <3> QED BY <2>1, <3>1, Zenon
  <2>2. CASE json.tags # Absent
    <3>1. PICK list : list = json.tags[2]
      OBVIOUS
    <3>2. /\ list \in Seq(ToSet(list))
          /\ \A row \in ToSet(list) :
               row[2] \in Seq(ToSet(row[2])) /\ \A v \in ToSet(row[2]) : AsText(v) \in Seq(Characters)
      BY <1>1, <2>2, <3>1, EventTextAssumption, Zenon
    <3>3. \A i \in DOMAIN list : IsTag(list[i])
      BY <1>1, <2>2, <3>1, Zenon DEF WellTyped
    <3>4. PICK n \in Nat : DOMAIN list = 1..n
      BY <3>2
    <3>5. ASSUME NEW i \in 1..n PROVE TagOf(list[i]) \in TagType(Characters)
      <4>1. list[i] \in ToSet(list)
        BY <3>4 DEF ToSet
      <4>2. PICK row : row = list[i]
        OBVIOUS
      <4> QED BY <3>2, <3>3, <3>4, <4>1, <4>2, TagParsed, Zenon
    <3>6. [i \in 1..n |-> TagOf(list[i])] \in Seq(TagType(Characters))
      BY <3>5
    <3> QED BY <2>2, <3>1, <3>4, <3>6, Zenon
  <2> QED BY <2>1, <2>2
<1>4. PICK kind, time, hash, key :
        kind = json.kind[2] /\ time = json.created_at[2]
        /\ hash = ReadHex(json.id[2], m.id) /\ key = ReadHex(json.pubkey[2], m.author)
  OBVIOUS
<1>5. IsParsed(ev, words, kind, time, rows, hash, key)
  BY <1>1, <1>2, <1>3, <1>4 DEF Parsed, IsParsed, IsEvent
<1> QED BY <1>1, <1>5, Zenon

\* Everything an event's row may hold.
HasRoom(V, hash, key, kind, time) ==
  /\ Characters \subseteq V /\ hash \in V /\ key \in V
  /\ \A f \in SUBSET {"nip97", "trusted"}, n \in Nat \cup {kind, time} : Lead(f, n) \in V

LEMMA RoomForAll ==
  ASSUME NEW hash, NEW key, NEW kind, NEW time
  PROVE  \E V : HasRoom(V, hash, key, kind, time)
<1> DEFINE Leads == [flags : SUBSET {"nip97", "trusted"}, n : Nat \cup {kind, time}]
           W == Characters \cup {hash, key} \cup Leads
<1>1. \A f \in SUBSET {"nip97", "trusted"}, n \in Nat \cup {kind, time} : Lead(f, n) \in Leads
  BY DEF Lead
<1> HIDE DEF Leads
<1>2. HasRoom(W, hash, key, kind, time)
  BY <1>1 DEF HasRoom
<1> HIDE DEF W
<1> QED BY <1>2, Zenon

\* Whatever the relay notes with an event that was let through, it comes back as it was.
LEMMA MarkedReads ==
  ASSUME CodecsTypeOK, NEW ev \in Accepted
  PROVE  /\ \A a \in BOOLEAN, b \in BOOLEAN, d \in 0..1 :
              LET x == Marked(ev, a, b, d)
              IN from_binary(EventToBinary(x)) = x
         /\ LET att == [id |-> ev.id, data |-> ev.content]
            IN from_binary(FileToBinary(att)) = att
<1>0. PICK words \in Seq(Characters), rows \in Seq(TagType(Characters)) :
        \E kind, time, hash, key : IsParsed(ev, words, kind, time, rows, hash, key)
  BY AcceptedAre, Zenon
<1>1. PICK kind, time, hash, key : IsParsed(ev, words, kind, time, rows, hash, key)
  BY <1>0, Zenon
<1>2. PICK V : /\ Characters \subseteq V /\ hash \in V /\ key \in V
               /\ \A f \in SUBSET {"nip97", "trusted"}, n \in Nat \cup {kind, time} : Lead(f, n) \in V
  <2>1. PICK V : HasRoom(V, hash, key, kind, time)
    BY RoomForAll, Zenon
  <2> QED BY <2>1, Zenon DEF HasRoom
<1>3. words \in Seq(V) /\ rows \in Seq(TagType(V))
  <2>1. words \in Seq(V) /\ \A s \in Seq(Characters) : s \in Seq(V)
    BY <1>2, MoreElements
  <2>2. Seq(Characters) \subseteq Seq(V)
    BY <2>1
  <2>3. \A s \in Seq(Seq(Characters)) : s \in Seq(Seq(V))
    BY <2>2, MoreElements
  <2>4. TagType(Characters) \subseteq TagType(V)
    BY <2>2, <2>3 DEF TagType
  <2> QED BY <2>1, <2>4, MoreElements
<1>4. /\ \A n \in Nat : Lead({}, n) \in V
      /\ Lead({}, kind) \in V /\ Lead({}, time) \in V
      /\ \A f \in SUBSET {"nip97", "trusted"} : Lead(f, Len(words)) \in V
  <2>1. Len(words) \in Nat
    OBVIOUS
  <2> QED BY <1>2, <2>1
<1>5. ASSUME NEW a \in BOOLEAN, NEW b \in BOOLEAN, NEW d \in 0..1
      PROVE  LET x == Marked(ev, a, b, d)
             IN from_binary(EventToBinary(x)) = x
  <2>1. PICK x : x = Marked(ev, a, b, d)
    OBVIOUS
  <2>2. IsEvent(x, words, a, b, kind, time, rows, hash, key, d)
    BY <1>1, <2>1 DEF IsParsed, IsEvent, Marked
  <2>3. Lead({}, d) \in V
    BY <1>4
  <2>4. Lead(Flags(x), Len(words)) \in V
    <3>1. Flags(x) \in SUBSET {"nip97", "trusted"}
      BY DEF Flags
    <3> QED BY <1>4, <3>1, Zenon
  <2>5. HoldsRow(V, x, words, a, b, kind, time, rows, hash, key, d)
    BY <1>2, <1>3, <1>4, <2>3, <2>4, Zenon DEF HoldsRow
  <2>6. ReadsBack(x)
    BY <2>2, <2>5, EventReads, Zenon
  <2> QED BY <2>1, <2>6, Zenon DEF ReadsBack
<1>6. LET att == [id |-> ev.id, data |-> ev.content] IN from_binary(FileToBinary(att)) = att
  <2>1. PICK att : att = [id |-> ev.id, data |-> ev.content]
    OBVIOUS
  <2>2. att = [id |-> hash, data |-> words] /\ Lead({}, 1) \in V
    BY <1>1, <1>4, <2>1 DEF IsParsed, IsEvent
  <2>3. from_binary(FileToBinary(att)) = att
    BY <1>2, <1>3, <2>2, FileReads
  <2> QED BY <2>1, <2>3, Zenon
<1> QED BY <1>5, <1>6

\* EventDocument::to_binary and from_binary, for events of any length and number of tags.
THEOREM RowsAreDocuments == Spec => []RowsKeepDocuments
<1>1. CodecsTypeOK => RowsKeepDocuments
  <2> SUFFICES ASSUME CodecsTypeOK, NEW ev \in Accepted
               PROVE  /\ \A a \in BOOLEAN, b \in BOOLEAN, d \in 0..1 :
                           LET x == Marked(ev, a, b, d) IN from_binary(EventToBinary(x)) = x
                      /\ LET att == [id |-> ev.id, data |-> ev.content]
                         IN from_binary(FileToBinary(att)) = att
    BY Zenon DEF RowsKeepDocuments
  <2> QED BY MarkedReads, Zenon
<1> QED BY <1>1, CodecsTyped, PTL

\* Event::fromStructured, the store, and Event::toStructured: whoever is served an event finds
\* its id to be that of what it says.
THEOREM ServedIsSigned == Spec => []ServedVerifies
<1>1. CodecsTypeOK => ServedVerifies
  <2> SUFFICES ASSUME CodecsTypeOK, NEW ev \in Accepted
               PROVE  LET served == toStructured(from_binary(EventToBinary(ev)))
                      IN served.id[2].of = ReceiversId(served)
    BY Zenon DEF ServedVerifies
  <2>1. calc_id(ev) = ev.id
    BY AcceptedAre
  <2>0. PICK words \in Seq(Characters), rows \in Seq(TagType(Characters)) :
          \E kind, time, hash, key : IsParsed(ev, words, kind, time, rows, hash, key)
    BY AcceptedAre, Zenon
  <2>2. PICK kind, time, hash, key : IsParsed(ev, words, kind, time, rows, hash, key)
    BY <2>0, Zenon
  <2>3. from_binary(EventToBinary(ev)) = ev
    <3>1. FALSE \in BOOLEAN /\ 0 \in 0..1
      OBVIOUS
    <3>2. \A a \in BOOLEAN, b \in BOOLEAN, d \in 0..1 :
            LET x == Marked(ev, a, b, d) IN from_binary(EventToBinary(x)) = x
      BY MarkedReads, Zenon
    <3>3. PICK x : x = Marked(ev, FALSE, FALSE, 0)
      OBVIOUS
    <3>4. IsEvent(x, words, FALSE, FALSE, kind, time, rows, hash, key, 0)
      BY <2>2, <3>3 DEF Marked, IsParsed, IsEvent
    <3>5. x = ev
      BY <2>2, <3>4, Zenon DEF IsParsed, IsEvent
    <3> QED BY <3>1, <3>2, <3>3, <3>5, Zenon
  <2>4. PICK served : served = toStructured(ev)
    OBVIOUS
  <2>5. /\ served.id[2].of = ev.id /\ served.pubkey[2].of = ev.author /\ served.content[2] = ev.content
        /\ served.created_at[2] = ev.created_at /\ served.kind[2] = ev.kind
        /\ served.tags[2] = [i \in DOMAIN ev.tags |-> Arr([k \in DOMAIN build_tags(ev)[i] |-> Str(build_tags(ev)[i][k])])]
    BY <2>4 DEF toStructured, Str, Num, Arr, Hex
  <2>6. ASSUME NEW i \in DOMAIN ev.tags
        PROVE  [k \in DOMAIN served.tags[2][i][2] |-> served.tags[2][i][2][k][2]] = build_tags(ev)[i]
    <3>1. served.tags[2][i][2] = [k \in DOMAIN build_tags(ev)[i] |-> Str(build_tags(ev)[i][k])]
      BY <2>5 DEF Arr
    <3>2. PICK n, row : n \in Nat /\ row = build_tags(ev)[i] /\ row = [k \in 1..n |-> row[k]]
      <4>1. PICK t \in TagType(Characters) : t = ev.tags[i]
        <5>1. ev.tags = rows
          BY <2>2 DEF IsParsed, IsEvent
        <5> QED BY <5>1
      <4>2. <<t.tag, t.content>> \in Seq(Seq(Characters)) /\ t.more \in Seq(Seq(Characters))
        BY DEF TagType
      <4>3. PICK row \in Seq(Seq(Characters)) : row = <<t.tag, t.content>> \o t.more
        BY <4>2, Closed, Zenon
      <4>4. PICK n \in Nat : row = [k \in 1..n |-> row[k]]
        BY IsFunction, Zenon
      <4>5. build_tags(ev)[i] = row
        BY <4>1, <4>3, Zenon DEF build_tags
      <4> QED BY <4>4, <4>5
    <3>3. DOMAIN row = 1..n
      BY <3>2
    <3>4. PICK w : w = served.tags[2][i][2]
      OBVIOUS
    <3>5. w = [k \in 1..n |-> Str(row[k])]
      BY <3>1, <3>2, <3>3, <3>4, Zenon
    <3>6. DOMAIN w = 1..n /\ \A k \in 1..n : w[k][2] = row[k]
      BY <3>5 DEF Str
    <3>7. [k \in DOMAIN w |-> w[k][2]] = row
      BY <3>2, <3>6
    <3> QED BY <3>2, <3>4, <3>7, Zenon
  <2>7. [i \in DOMAIN served.tags[2] |-> [k \in DOMAIN served.tags[2][i][2] |-> served.tags[2][i][2][k][2]]] = build_tags(ev)
    <3>1. DOMAIN served.tags[2] = DOMAIN ev.tags
      BY <2>5
    <3>2. build_tags(ev) = [i \in DOMAIN ev.tags |-> build_tags(ev)[i]]
      BY DEF build_tags
    <3> QED BY <2>6, <3>1, <3>2, Zenon
  <2>8. ReceiversId(served) = calc_id(ev)
    BY <2>5, <2>7, Zenon DEF ReceiversId, calc_id
  <2> QED BY <2>1, <2>3, <2>4, <2>5, <2>8, Zenon
<1> QED BY <1>1, CodecsTyped, PTL

-----------------------------------------------------------------------------
(* Keys as text.  polymod is linear, so that the checksum, which is what   *)
(* polymod makes of six zeros, takes itself away again.                    *)

LEMMA XorIs == \A a, b, x : x \in Xor(a, b) <=> (x \in a) # (x \in b)
BY DEF Xor, SymDiff

LEMMA NumberBits ==
  ASSUME NEW S \in SUBSET (0..4)
  PROVE  Number(S) \in 0..31 /\ Bits(Number(S), 5) = S
<1> DEFINE One(b) == IF b \in S THEN 2^b ELSE 0
<1>1. /\ One(0) = IF 0 \in S THEN 1 ELSE 0
      /\ One(1) = IF 1 \in S THEN 2 ELSE 0
      /\ One(2) = IF 2 \in S THEN 4 ELSE 0
      /\ One(3) = IF 3 \in S THEN 8 ELSE 0
      /\ One(4) = IF 4 \in S THEN 16 ELSE 0
      /\ One(5) = 0 /\ One(6) = 0 /\ One(7) = 0
  OBVIOUS
<1>2. Number(S) = One(0) + One(1) + One(2) + One(3) + One(4) + One(5) + One(6) + One(7)
  BY Zenon DEF Number
<1> HIDE DEF One
<1>3. PICK n : n = Number(S)
  OBVIOUS
<1>4. n \in 0..31
  BY <1>1, <1>2, <1>3
<1>5. /\ n % 2 = (IF 0 \in S THEN 1 ELSE 0)
      /\ (n \div 2) % 2 = (IF 1 \in S THEN 1 ELSE 0)
      /\ (n \div 4) % 2 = (IF 2 \in S THEN 1 ELSE 0)
      /\ (n \div 8) % 2 = (IF 3 \in S THEN 1 ELSE 0)
      /\ (n \div 16) % 2 = (IF 4 \in S THEN 1 ELSE 0)
  BY <1>1, <1>2, <1>3
<1>6. /\ n \div 2^0 = n /\ n \div 2^1 = n \div 2 /\ n \div 2^2 = n \div 4
      /\ n \div 2^3 = n \div 8 /\ n \div 2^4 = n \div 16
  BY <1>4
<1>7. \A b \in 0..4 : (n \div 2^b) % 2 = 1 <=> b \in S
  <2> SUFFICES ASSUME NEW b \in 0..4 PROVE (n \div 2^b) % 2 = 1 <=> b \in S
    OBVIOUS
  <2>1. b = 0 \/ b = 1 \/ b = 2 \/ b = 3 \/ b = 4
    OBVIOUS
  <2>2. /\ (n \div 2^0) % 2 = 1 <=> 0 \in S
        /\ (n \div 2^1) % 2 = 1 <=> 1 \in S
        /\ (n \div 2^2) % 2 = 1 <=> 2 \in S
        /\ (n \div 2^3) % 2 = 1 <=> 3 \in S
        /\ (n \div 2^4) % 2 = 1 <=> 4 \in S
    BY <1>5, <1>6
  <2> QED BY <2>1, <2>2, Zenon
<1>8. Bits(n, 5) = {b \in 0..4 : (n \div 2^b) % 2 = 1}
  BY DEF Bits
<1>9. Bits(n, 5) = S
  BY <1>7, <1>8
<1> QED BY <1>3, <1>4, <1>9

LEMMA NoBits == Bits(0, 5) = {}
<1>1. {} \in SUBSET (0..4)
  OBVIOUS
<1>2. Number({}) = 0
  BY DEF Number
<1> QED BY <1>1, <1>2, NumberBits

\* Words of 30 bits.
Words30 == SUBSET (0..29)

LEMMA GeneratorWords == \A i \in 1..5 : Generator[i] \in Words30
<1>1. \A n : Bits(n, 30) \in Words30
  BY DEF Bits, Words30
<1> QED BY <1>1 DEF Generator

\* What leaves the word at the top comes back as generators.
Top(chk, i) == IF 24 + i \in chk THEN Generator[i] ELSE {}
Shifted(chk) == {b + 5 : b \in {x \in chk : x < 25}}

LEMMA FeedIs ==
  ASSUME NEW chk, NEW v
  PROVE  Feed(chk, v) = Xor(Xor(Xor(Top(chk, 1), Top(chk, 2)), Xor(Top(chk, 3), Top(chk, 4))),
                            Xor(Top(chk, 5), Xor(Shifted(chk), Bits(v, 5))))
BY Zenon DEF Feed, Top, Shifted

LEMMA ShiftedIs ==
  ASSUME NEW chk \in Words30
  PROVE  \A x : x \in Shifted(chk) <=> x \in 5..29 /\ x - 5 \in chk
<1>1. \A b \in chk : b \in 0..29
  BY DEF Words30
<1>2. ASSUME NEW x, x \in Shifted(chk) PROVE x \in 5..29 /\ x - 5 \in chk
  <2>1. PICK b \in chk : b < 25 /\ x = b + 5
    BY <1>2 DEF Shifted
  <2> QED BY <1>1, <2>1
<1>3. ASSUME NEW x \in 5..29, x - 5 \in chk PROVE x \in Shifted(chk)
  <2>1. PICK b : b = x - 5
    OBVIOUS
  <2>2. b \in chk /\ b < 25 /\ x = b + 5
    BY <1>3, <2>1
  <2> QED BY <2>2 DEF Shifted
<1> QED BY <1>2, <1>3

LEMMA FeedType ==
  ASSUME NEW chk \in Words30, NEW v
  PROVE  Feed(chk, v) \in Words30
<1>1. \A i \in 1..5 : Top(chk, i) \in Words30
  BY GeneratorWords DEF Top, Words30
<1>2. Shifted(chk) \in Words30
  BY ShiftedIs DEF Words30
<1>3. Bits(v, 5) \in Words30
  BY DEF Bits, Words30
<1>4. \A a, b \in Words30 : Xor(a, b) \in Words30
  BY DEF Words30, Xor, SymDiff
<1>5. /\ Top(chk, 1) \in Words30 /\ Top(chk, 2) \in Words30 /\ Top(chk, 3) \in Words30
      /\ Top(chk, 4) \in Words30 /\ Top(chk, 5) \in Words30
  BY <1>1
<1> QED BY <1>2, <1>3, <1>4, <1>5, FeedIs, Zenon

\* One turn of the loop on the differences of two words and of two values.
LEMMA FeedLinear ==
  ASSUME NEW a \in Words30, NEW b \in Words30, NEW v
  PROVE  Feed(Xor(a, b), v) = Xor(Feed(a, 0), Feed(b, v))
<1>0. Xor(a, b) \in Words30
  BY DEF Words30, Xor, SymDiff
<1>1. ASSUME NEW x, NEW i PROVE x \in Top(Xor(a, b), i) <=> (x \in Top(a, i)) # (x \in Top(b, i))
  BY XorIs DEF Top
<1>2. ASSUME NEW x PROVE x \in Shifted(Xor(a, b)) <=> (x \in Shifted(a)) # (x \in Shifted(b))
  <2>1. x - 5 \in Xor(a, b) <=> (x - 5 \in a) # (x - 5 \in b)
    BY XorIs
  <2> QED BY <1>0, <2>1, ShiftedIs
<1>3. ASSUME NEW x PROVE x \in Feed(Xor(a, b), v) <=> x \in Xor(Feed(a, 0), Feed(b, v))
  <2> DEFINE In(c, w) ==
        ((((x \in Top(c, 1)) # (x \in Top(c, 2))) # ((x \in Top(c, 3)) # (x \in Top(c, 4))))
          # ((x \in Top(c, 5)) # ((x \in Shifted(c)) # (x \in Bits(w, 5)))))
  <2>1. \A c, w : x \in Feed(c, w) <=> In(c, w)
    <3> TAKE c, w
    <3>1. x \in Xor(Xor(Xor(Top(c, 1), Top(c, 2)), Xor(Top(c, 3), Top(c, 4))),
                            Xor(Top(c, 5), Xor(Shifted(c), Bits(w, 5)))) <=> In(c, w)
      BY XorIs
    <3> QED BY <3>1, FeedIs
  <2>2. x \notin Bits(0, 5)
    BY NoBits
  <2>3. In(Xor(a, b), v) <=> In(a, 0) # In(b, v)
    BY <1>1, <1>2, <2>2
  <2> QED BY <2>1, <2>3, XorIs
<1> QED BY <1>3

LEMMA PolySteps ==
  ASSUME NEW n \in Nat, NEW vs, DOMAIN vs = 1..n
  PROVE  \E T \in [0..n -> Words30] :
           /\ T[0] = {0}
           /\ \A m \in 0..(n - 1) : T[m + 1] = Feed(T[m], vs[m + 1])
           /\ polymod(vs) = T[n]
<1> DEFINE step == [x \in (1..n) \X Words30 |-> Feed(x[2], vs[x[1]])]
           Solves(g) == g = [s \in SUBSET (1..n) |->
                               IF s = {} THEN {0} ELSE Feed(g[s \ {Max(s)}], vs[Max(s)])]
<1>0. {0} \in Words30
  BY DEF Words30
<1>1. step \in [(1..n) \X Words30 -> Words30]
  <2>1. \A i \in 1..n, w \in Words30 : Feed(w, vs[i]) \in Words30
    BY FeedType
  <2> QED BY <2>1
<1>2. PICK g \in [SUBSET (1..n) -> Words30] : FoldsSteps(g, {0}, n, step)
  <2> HIDE DEF step
  <2> QED BY <1>0, <1>1, FoldExists
<1>3. Solves(g)
  <2>1. ASSUME NEW s \in SUBSET (1..n), s # {}
        PROVE  step[<<Max(s), g[s \ {Max(s)}]>>] = Feed(g[s \ {Max(s)}], vs[Max(s)])
    <3>1. s \in SUBSET (0..n)
      OBVIOUS
    <3>2. Max(s) \in 1..n
      BY <2>1, <3>1, MaxIs
    <3>3. g[s \ {Max(s)}] \in Words30
      BY <1>2
    <3> QED BY <3>2, <3>3
  <2> HIDE DEF step
  <2> QED BY <1>2, <2>1, Zenon DEF FoldsSteps
<1> HIDE DEF Solves
<1> DEFINE h == CHOOSE g1 : Solves(g1)
<1>4. Solves(h)
  BY <1>3, Zenon
<1>5. polymod(vs) = h[1..n]
  BY Zenon DEF polymod, FoldLeft, MapThenFoldSet, Solves
<1> HIDE DEF h
<1> DEFINE T == [m \in 0..n |-> h[1..m]]
<1>6. T[0] = {0}
  <2>1. 1..0 = {} /\ {} \in SUBSET (1..n) /\ 0 \in 0..n
    OBVIOUS
  <2>2. h[{}] = {0}
    BY <1>4, <2>1, Zenon DEF Solves
  <2> QED BY <2>1, <2>2
<1>7. ASSUME NEW m \in 0..(n - 1) PROVE T[m + 1] = Feed(T[m], vs[m + 1])
  <2>1. m \in Nat /\ m \in 0..n /\ m + 1 \in 0..n
    OBVIOUS
  <2>2. /\ 1..(m + 1) \in SUBSET (1..n) /\ 1..(m + 1) # {}
        /\ Max(1..(m + 1)) = m + 1 /\ (1..(m + 1)) \ {m + 1} = 1..m
    BY SegmentOf
  <2>3. h[1..(m + 1)] = Feed(h[(1..(m + 1)) \ {Max(1..(m + 1))}], vs[Max(1..(m + 1))])
    BY <1>4, <2>2, Zenon DEF Solves
  <2> QED BY <2>1, <2>2, <2>3
<1>8. T[n] = h[1..n] /\ T = [m \in 0..n |-> T[m]]
  OBVIOUS
<1> HIDE DEF T
<1>9. \A m \in 0..n : T[m] \in Words30
  <2> DEFINE S == {m \in Nat : m <= n => T[m] \in Words30}
  <2>1. 0 \in S
    BY <1>0, <1>6
  <2>2. ASSUME NEW m \in Nat, m \in S PROVE m + 1 \in S
    <3> SUFFICES ASSUME m + 1 <= n PROVE T[m + 1] \in Words30
      OBVIOUS
    <3>1. m <= n /\ m \in 0..(n - 1)
      OBVIOUS
    <3>2. T[m] \in Words30
      BY <2>2, <3>1
    <3> QED BY <1>7, <3>1, <3>2, FeedType
  <2> HIDE DEF S
  <2>3. \A m \in Nat : m \in S
    BY <2>1, <2>2, AllNaturals
  <2> QED BY <2>3 DEF S
<1>10. T \in [0..n -> Words30]
  BY <1>8, <1>9
<1> QED BY <1>5, <1>6, <1>7, <1>8, <1>10

\* The first j groups of five of a word of 30 bits.
Leading(mod, j) == {x \in 0..29 : x + 5 * (6 - j) \in mod}
GroupOf(mod, i) == Number({b - 5 * (6 - i) : b \in {x \in mod : x \div 5 = 6 - i}})

LEMMA GroupIs ==
  ASSUME NEW mod \in Words30, NEW i \in 1..6
  PROVE  GroupOf(mod, i) \in 0..31 /\ Bits(GroupOf(mod, i), 5) = {x \in 0..4 : x + 5 * (6 - i) \in mod}
<1> DEFINE S == {b - 5 * (6 - i) : b \in {x \in mod : x \div 5 = 6 - i}}
<1>1. \A b \in mod : b \in 0..29
  BY DEF Words30
<1>2. \A b \in 0..29 : b \div 5 = 6 - i <=> b - 5 * (6 - i) \in 0..4
  OBVIOUS
<1>3. S = {x \in 0..4 : x + 5 * (6 - i) \in mod}
  <2>1. ASSUME NEW x \in S PROVE x \in 0..4 /\ x + 5 * (6 - i) \in mod
    <3>1. PICK b \in mod : b \div 5 = 6 - i /\ x = b - 5 * (6 - i)
      OBVIOUS
    <3>2. x + 5 * (6 - i) = b
      BY <1>1, <3>1
    <3> QED BY <1>1, <1>2, <3>1, <3>2
  <2>2. ASSUME NEW x \in 0..4, x + 5 * (6 - i) \in mod PROVE x \in S
    <3>1. PICK b \in mod : b = x + 5 * (6 - i)
      BY <2>2
    <3>2. x = b - 5 * (6 - i)
      BY <3>1
    <3> QED BY <1>1, <1>2, <3>1, <3>2
  <2> QED BY <2>1, <2>2
<1>4. S \in SUBSET (0..4)
  BY <1>3
<1> HIDE DEF S
<1>5. Number(S) \in 0..31 /\ Bits(Number(S), 5) = S
  BY <1>4, NumberBits
<1>6. GroupOf(mod, i) = Number(S)
  BY Zenon DEF GroupOf, S
<1> QED BY <1>3, <1>5, <1>6

LEMMA LeadingGrows ==
  ASSUME NEW mod \in Words30, NEW j \in 0..5
  PROVE  Feed(Leading(mod, j), GroupOf(mod, j + 1)) = Leading(mod, j + 1)
<1> DEFINE P == Leading(mod, j)
           v == GroupOf(mod, j + 1)
<1>1. \A b \in mod : b \in 0..29
  BY DEF Words30
<1>2. P \in Words30 /\ \A x \in P : x \in 0..24
  BY <1>1 DEF Leading, Words30
<1>3. \A i \in 1..5 : Top(P, i) = {}
  BY <1>2 DEF Top
<1>4. j + 1 \in 1..6
  OBVIOUS
<1>5. Bits(v, 5) = {x \in 0..4 : x + 5 * (5 - j) \in mod}
  <2>1. 6 - (j + 1) = 5 - j
    OBVIOUS
  <2> QED BY <1>4, <2>1, GroupIs
<1>6. \A x : x \in Shifted(P) <=> x \in 5..29 /\ x - 5 \in P
  BY <1>2, ShiftedIs
<1> HIDE DEF v
<1>7. ASSUME NEW x PROVE x \in Feed(P, v) <=> (x \in Shifted(P)) # (x \in Bits(v, 5))
  <2>1. x \notin Top(P, 1) /\ x \notin Top(P, 2) /\ x \notin Top(P, 3) /\ x \notin Top(P, 4) /\ x \notin Top(P, 5)
    BY <1>3
  <2>2. x \in Xor(Xor(Xor(Top(P, 1), Top(P, 2)), Xor(Top(P, 3), Top(P, 4))),
                            Xor(Top(P, 5), Xor(Shifted(P), Bits(v, 5)))) <=> (x \in Shifted(P)) # (x \in Bits(v, 5))
    BY <2>1, XorIs
  <2> QED BY <2>2, FeedIs
<1>8. ASSUME NEW x PROVE x \in Leading(mod, j + 1) <=> x \in 0..29 /\ x + 5 * (5 - j) \in mod
  <2>1. 6 - (j + 1) = 5 - j
    OBVIOUS
  <2> QED BY <2>1 DEF Leading
<1>9. ASSUME NEW x PROVE x \in Shifted(P) <=> x \in 5..29 /\ x + 5 * (5 - j) \in mod
  <2>1. ASSUME x \in 5..29 PROVE x - 5 \in 0..29 /\ (x - 5) + 5 * (6 - j) = x + 5 * (5 - j)
    BY <2>1
  <2>2. x \in 5..29 => (x - 5 \in P <=> x + 5 * (5 - j) \in mod)
    BY <2>1 DEF Leading
  <2> QED BY <1>6, <2>2
<1>10. ASSUME NEW x PROVE x \in Feed(P, v) <=> x \in Leading(mod, j + 1)
  <2>1. x \in 0..29 <=> x \in 0..4 \/ x \in 5..29
    OBVIOUS
  <2>2. ~(x \in 0..4 /\ x \in 5..29)
    OBVIOUS
  <2> QED BY <1>5, <1>7, <1>8, <1>9, <2>1, <2>2
<1> QED BY <1>10 DEF v

ZeroGroups == [i \in 1..ChecksumLength |-> 0]
GroupsOf(mod) == [i \in 1..ChecksumLength |-> GroupOf(mod, i)]

IsJoined(n, x, c) ==
  /\ DOMAIN (x \o c) = 1..(n + 6)
  /\ \A m \in 0..(n - 1) : (x \o c)[m + 1] = x[m + 1]
  /\ \A j \in 0..5 : (x \o c)[(n + j) + 1] = c[j + 1]

LEMMA JoinedAt ==
  ASSUME NEW V, NEW n \in Nat, NEW x \in Seq(V), Len(x) = n, NEW c \in Seq(V), Len(c) = 6
  PROVE  IsJoined(n, x, c)
<1>a. /\ x \o c \in Seq(V) /\ Len(x \o c) = Len(x) + Len(c)
      /\ \A i \in 1..(Len(x) + Len(c)) : (x \o c)[i] = IF i <= Len(x) THEN x[i] ELSE c[i - Len(x)]
  BY ConcatProperties, Zenon
<1>1. x \o c \in Seq(V) /\ Len(x \o c) = n + 6
  BY <1>a, Zenon
<1>2. \A i \in 1..(n + 6) : (x \o c)[i] = IF i <= n THEN x[i] ELSE c[i - n]
  BY <1>a, Zenon
<1>b. DOMAIN (x \o c) = 1..(n + 6)
  BY <1>1
<1>3. \A j \in 0..5 : (n + j) + 1 \in 1..(n + 6) /\ ~((n + j) + 1 <= n) /\ ((n + j) + 1) - n = j + 1
  OBVIOUS
<1>4. \A m \in 0..(n - 1) : m + 1 \in 1..(n + 6) /\ m + 1 <= n
  OBVIOUS
<1>5. \A m \in 0..(n - 1) : (x \o c)[m + 1] = x[m + 1]
  BY <1>2, <1>4, Zenon
<1>6. \A j \in 0..5 : (x \o c)[(n + j) + 1] = c[j + 1]
  BY <1>2, <1>3, Zenon
<1> QED BY <1>b, <1>5, <1>6, Zenon DEF IsJoined

LEMMA LeadingIs ==
  ASSUME NEW mod \in Words30
  PROVE  /\ Leading(mod, 0) = {} /\ Leading(mod, 6) = mod
         /\ \A j : Leading(mod, j) \in Words30
<1>1. \A x \in mod : x \in 0..29
  BY DEF Words30
<1>2. Leading(mod, 0) = {}
  BY <1>1 DEF Leading
<1>3. Leading(mod, 6) = mod
  BY <1>1 DEF Leading
<1>4. \A j : Leading(mod, j) \in Words30
  BY DEF Leading, Words30
<1> QED BY <1>2, <1>3, <1>4

LEMMA XorTwice == /\ \A a : Xor(a, {}) = a
                  /\ \A a, b : Xor(a, Xor(a, b)) = b
                  /\ \A a, b \in Words30 : Xor(a, b) \in Words30
BY DEF Xor, SymDiff, Words30

LEMMA ZerosJoin ==
  ASSUME NEW V, \A v \in 0..31 : v \in V, NEW n \in Nat, NEW x \in Seq(V), Len(x) = n
  PROVE  \E z \in Seq(V) : z = ZeroGroups /\ Len(z) = 6 /\ (\A j \in 0..5 : z[j + 1] = 0) /\ IsJoined(n, x, z)
<1>1. PICK z \in Seq(V) : z = ZeroGroups /\ Len(z) = 6 /\ \A j \in 0..5 : z[j + 1] = 0
  <2>0. 0 \in 0..31
    OBVIOUS
  <2>1. ZeroGroups \in Seq(V) /\ Len(ZeroGroups) = 6 /\ \A j \in 0..5 : ZeroGroups[j + 1] = 0
    BY <2>0 DEF ZeroGroups, ChecksumLength
  <2> QED BY <2>1, Zenon
<1>2. IsJoined(n, x, z)
  BY <1>1, JoinedAt, Zenon
<1> QED BY <1>1, <1>2, Zenon

LEMMA ChecksumWord ==
  ASSUME NEW V, \A v \in 0..31 : v \in V, NEW n \in Nat, NEW x \in Seq(V), Len(x) = n,
         NEW constant \in Words30
  PROVE  Xor(polymod(x \o ZeroGroups), constant) \in Words30
<1>1. PICK z \in Seq(V) : z = ZeroGroups /\ IsJoined(n, x, z)
  BY ZerosJoin, Zenon
<1>2. DOMAIN (x \o z) = 1..(n + 6)
  BY <1>1, Zenon DEF IsJoined
<1>3. n + 6 \in Nat /\ n + 6 \in 0..(n + 6)
  OBVIOUS
<1>4. PICK U \in [0..(n + 6) -> Words30] :
        /\ U[0] = {0}
        /\ \A m \in 0..((n + 6) - 1) : U[m + 1] = Feed(U[m], (x \o z)[m + 1])
        /\ polymod(x \o z) = U[n + 6]
  BY <1>2, <1>3, PolySteps, Zenon
<1>5. U[n + 6] \in Words30
  BY <1>3
<1> QED BY <1>1, <1>4, <1>5, XorTwice, Zenon

LEMMA OneGroupMore ==
  ASSUME NEW mod \in Words30, NEW j \in 0..5, NEW u \in Words30
  PROVE  Feed(Xor(u, Leading(mod, j)), GroupOf(mod, j + 1)) = Xor(Feed(u, 0), Leading(mod, j + 1))
<1>1. Leading(mod, j) \in Words30
  BY LeadingIs, Zenon
<1>2. Feed(Xor(u, Leading(mod, j)), GroupOf(mod, j + 1))
        = Xor(Feed(u, 0), Feed(Leading(mod, j), GroupOf(mod, j + 1)))
  BY <1>1, FeedLinear
<1>3. Feed(Leading(mod, j), GroupOf(mod, j + 1)) = Leading(mod, j + 1)
  BY LeadingGrows
<1> QED BY <1>2, <1>3, Zenon

LEMMA UpToSix == \A j \in Nat : j + 1 <= 6 => j <= 6 /\ j \in 0..5
OBVIOUS

LEMMA SixMore ==
  \A n \in Nat, j \in 0..5 :
    n + j \in 0..((n + 6) - 1) /\ n + j \in 0..(n + 6) /\ n + (j + 1) = (n + j) + 1
OBVIOUS

LEMMA ChecksumCancels ==
  ASSUME NEW V, \A v \in 0..31 : v \in V, NEW n \in Nat, NEW x \in Seq(V), Len(x) = n,
         NEW constant \in Words30
  PROVE  polymod(x \o GroupsOf(Xor(polymod(x \o ZeroGroups), constant))) = constant
<1>1. PICK z \in Seq(V) : /\ z = ZeroGroups /\ Len(z) = 6 /\ \A j \in 0..5 : z[j + 1] = 0
                          /\ IsJoined(n, x, z)
  BY ZerosJoin, Zenon
<1>2. /\ DOMAIN (x \o z) = 1..(n + 6)
      /\ \A m \in 0..(n - 1) : (x \o z)[m + 1] = x[m + 1]
      /\ \A j \in 0..5 : (x \o z)[(n + j) + 1] = 0
  BY <1>1, Zenon DEF IsJoined
<1>3. PICK U \in [0..(n + 6) -> Words30] :
        /\ U[0] = {0}
        /\ \A m \in 0..((n + 6) - 1) : U[m + 1] = Feed(U[m], (x \o z)[m + 1])
        /\ polymod(x \o z) = U[n + 6]
  <2>1. n + 6 \in Nat
    OBVIOUS
  <2> QED BY <1>2, <2>1, PolySteps, Zenon
<1>4. PICK mod : mod = Xor(polymod(x \o z), constant)
  OBVIOUS
<1>5. mod \in Words30
  BY <1>1, <1>4, ChecksumWord, Zenon
<1>6. PICK c \in Seq(V) : c = GroupsOf(mod) /\ Len(c) = 6 /\ \A j \in 0..5 : c[j + 1] = GroupOf(mod, j + 1)
  <2>1. \A i \in 1..6 : GroupOf(mod, i) \in V
    BY <1>5, GroupIs, Zenon
  <2>2. GroupsOf(mod) \in Seq(V) /\ Len(GroupsOf(mod)) = 6 /\ \A j \in 0..5 : GroupsOf(mod)[j + 1] = GroupOf(mod, j + 1)
    BY <2>1 DEF GroupsOf, ChecksumLength
  <2> QED BY <2>2, Zenon
<1>7. /\ DOMAIN (x \o c) = 1..(n + 6)
      /\ \A m \in 0..(n - 1) : (x \o c)[m + 1] = x[m + 1]
      /\ \A j \in 0..5 : (x \o c)[(n + j) + 1] = GroupOf(mod, j + 1)
  <2>1. IsJoined(n, x, c)
    BY <1>6, JoinedAt, Zenon
  <2> QED BY <1>6, <2>1, Zenon DEF IsJoined
<1>8. PICK T \in [0..(n + 6) -> Words30] :
        /\ T[0] = {0}
        /\ \A m \in 0..((n + 6) - 1) : T[m + 1] = Feed(T[m], (x \o c)[m + 1])
        /\ polymod(x \o c) = T[n + 6]
  <2>1. n + 6 \in Nat
    OBVIOUS
  <2> QED BY <1>7, <2>1, PolySteps, Zenon
<1>9. T[n] = U[n]
  <2> DEFINE S == {m \in Nat : m <= n => T[m] = U[m]}
  <2>1. 0 \in S
    BY <1>3, <1>8
  <2>2. ASSUME NEW m \in Nat, m \in S PROVE m + 1 \in S
    <3> SUFFICES ASSUME m + 1 <= n PROVE T[m + 1] = U[m + 1]
      OBVIOUS
    <3>1. m <= n /\ m \in 0..(n - 1) /\ m \in 0..((n + 6) - 1)
      OBVIOUS
    <3>2. T[m] = U[m]
      BY <2>2, <3>1
    <3>3. T[m + 1] = Feed(T[m], x[m + 1]) /\ U[m + 1] = Feed(U[m], x[m + 1])
      BY <1>2, <1>3, <1>7, <1>8, <3>1, Zenon
    <3> QED BY <3>2, <3>3, Zenon
  <2> HIDE DEF S
  <2>3. n \in S
    BY <2>1, <2>2, AllNaturals
  <2> QED BY <2>3 DEF S
<1>10. ASSUME NEW j \in 0..5, T[n + j] = Xor(U[n + j], Leading(mod, j))
       PROVE  T[(n + j) + 1] = Xor(U[(n + j) + 1], Leading(mod, j + 1))
  <2>1. n + j \in 0..((n + 6) - 1) /\ n + j \in 0..(n + 6)
    BY SixMore, Zenon
  <2>2. T[(n + j) + 1] = Feed(T[n + j], GroupOf(mod, j + 1)) /\ U[(n + j) + 1] = Feed(U[n + j], 0)
    BY <1>2, <1>3, <1>7, <1>8, <2>1, Zenon
  <2>3. U[n + j] \in Words30
    BY <1>3, <2>1
  <2>4. Feed(Xor(U[n + j], Leading(mod, j)), GroupOf(mod, j + 1)) = Xor(Feed(U[n + j], 0), Leading(mod, j + 1))
    BY <1>5, <2>3, OneGroupMore, Zenon
  <2> QED BY <1>10, <2>2, <2>4, Zenon
<1>11. T[n + 6] = Xor(U[n + 6], Leading(mod, 6))
  <2> DEFINE S == {j \in Nat : j <= 6 => T[n + j] = Xor(U[n + j], Leading(mod, j))}
  <2>1. 0 \in S
    <3>1. n + 0 = n
      OBVIOUS
    <3>2. T[n + 0] = Xor(U[n + 0], Leading(mod, 0))
      BY <1>5, <1>9, <3>1, LeadingIs, XorTwice, Zenon
    <3> QED BY <3>2, Zenon
  <2>2. ASSUME NEW j \in Nat, j \in S PROVE j + 1 \in S
    <3> SUFFICES ASSUME j + 1 <= 6 PROVE T[n + (j + 1)] = Xor(U[n + (j + 1)], Leading(mod, j + 1))
      OBVIOUS
    <3>0. j <= 6 /\ j \in 0..5
      BY UpToSix, Zenon
    <3>1. j <= 6 /\ j \in 0..5 /\ n + (j + 1) = (n + j) + 1
      BY <3>0, SixMore, Zenon
    <3>2. T[n + j] = Xor(U[n + j], Leading(mod, j))
      BY <2>2, <3>1
    <3> QED BY <1>10, <3>1, <3>2, Zenon
  <2> HIDE DEF S
  <2>3. 6 \in Nat /\ 6 \in S
    BY <2>1, <2>2, AllNaturals
  <2> QED BY <2>3 DEF S
<1>12. Leading(mod, 6) = mod
  BY <1>5, LeadingIs, Zenon
<1>13. \A p : Xor(p, Xor(p, constant)) = constant
  BY XorTwice, Zenon
<1>14. polymod(x \o c) = constant
  BY <1>3, <1>4, <1>8, <1>11, <1>12, <1>13, Zenon
<1> QED BY <1>1, <1>4, <1>6, <1>14, Zenon

LEMMA CharsetIs ==
  \A v \in 0..31 : charset[v + 1] \in 33..126 /\ charset[v + 1] \notin 65..90 /\ charset[v + 1] # 49
BY DEF charset

LEMMA CharsetInjective ==
  \A v, w \in 0..31 : charset[v + 1] = charset[w + 1] => v = w
BY DEF charset

LEMMA LowerIs ==
  ASSUME NEW V, NEW n \in Nat, NEW s \in Seq(V), Len(s) = n, \A i \in 1..n : s[i] \notin 65..90
  PROVE  ToLower(s) = s
<1>1. s = [i \in 1..n |-> s[i]]
  OBVIOUS
<1> QED BY <1>1 DEF ToLower, Uppercase

\* What five bits are, and the constants of the two checksums.
Fives == 0..31
KnownConstants == {Bech32m, Bech32}

LEMMA CharsetReads ==
  ASSUME NEW n \in Nat, NEW vs \in Seq(Fives), Len(vs) = n
  PROVE  /\ ToCharset(vs) \in Seq((33..126) \ (65..90)) /\ Len(ToCharset(vs)) = n
         /\ \A i \in 1..n : ToCharset(vs)[i] = charset[vs[i] + 1]
         /\ FromCharset(ToCharset(vs)) = vs
<1>1. \A i \in 1..n : vs[i] \in 0..31
  BY ElementOfSeq DEF Fives
<1>2. ToCharset(vs) = [i \in 1..n |-> charset[vs[i] + 1]]
  BY DEF ToCharset
<1>a. \A i \in 1..n : charset[vs[i] + 1] \in (33..126) \ (65..90) /\ charset[vs[i] + 1] \notin 65..90
  <2>1. \A v \in 0..31 : charset[v + 1] \in (33..126) \ (65..90) /\ charset[v + 1] \notin 65..90
    BY CharsetIs, ZenonT(40)
  <2> QED BY <1>1, <2>1, ZenonT(40)
<1>3. ToCharset(vs) \in Seq((33..126) \ (65..90)) /\ Len(ToCharset(vs)) = n
  <2>1. PICK W : W = (33..126) \ (65..90)
    OBVIOUS
  <2>2. \A i \in 1..n : charset[vs[i] + 1] \in W
    BY <1>a, <2>1, SMT
  <2>3. ToCharset(vs) \in Seq(W) /\ Len(ToCharset(vs)) = n
    BY <1>2, <2>2
  <2> QED BY <2>1, <2>3, Zenon
<1>4. PICK s : s = ToCharset(vs)
  OBVIOUS
<1>5. ToLower(s) = s
  <2>1. \A i \in 1..n : s[i] \notin Uppercase
    <3>1. \A i \in 1..n : s[i] = charset[vs[i] + 1]
      BY <1>2, <1>4
    <3> QED BY <1>a, <3>1, ZenonT(40) DEF Uppercase
  <2> QED BY <1>2, <1>4, <2>1 DEF ToLower
<1>6. ASSUME NEW i \in 1..n PROVE (CHOOSE v \in 0..31 : charset[v + 1] = ToLower(s)[i]) = vs[i]
  <2>1. ToLower(s)[i] = charset[vs[i] + 1]
    BY <1>2, <1>4, <1>5
  <2>2. \A v \in 0..31 : charset[v + 1] = charset[vs[i] + 1] <=> v = vs[i]
    BY <1>1, CharsetInjective
  <2> QED BY <1>1, <2>1, <2>2
<1>7. FromCharset(s) = [i \in 1..n |-> vs[i]]
  <2>1. DOMAIN s = 1..n
    BY <1>2, <1>4
  <2>2. FromCharset(s) = [i \in 1..n |-> CHOOSE v \in 0..31 : charset[v + 1] = ToLower(s)[i]]
    BY <2>1, Zenon DEF FromCharset
  <2> QED BY <1>6, <2>2, Zenon
<1>8. vs = [i \in 1..n |-> vs[i]]
  OBVIOUS
<1> QED BY <1>2, <1>3, <1>4, <1>7, <1>8

Joins(w, a, b, k, l) ==
  /\ w = a \o b /\ Len(w) = k + l
  /\ \A i \in 1..(k + l) : w[i] = IF i <= k THEN a[i] ELSE b[i - k]

LEMMA JoinIs ==
  ASSUME NEW V, NEW k, NEW l, NEW a \in Seq(V), Len(a) = k, NEW b \in Seq(V), Len(b) = l
  PROVE  a \o b \in Seq(V) /\ Joins(a \o b, a, b, k, l)
<1>1. /\ a \o b \in Seq(V) /\ Len(a \o b) = Len(a) + Len(b)
      /\ \A i \in 1..(Len(a) + Len(b)) : (a \o b)[i] = IF i <= Len(a) THEN a[i] ELSE b[i - Len(a)]
  BY ConcatProperties, Zenon
<1> QED BY <1>1, Zenon DEF Joins

\* A text of bech32 and its two parts.
IsText(s, h, m, type, d) ==
  /\ Len(s) = h + 1 + m
  /\ SubSeq(s, 1, h) = type /\ SubSeq(s, h + 2, Len(s)) = d
  /\ \A i \in 1..h : s[i] = type[i]
  /\ s[h + 1] = 49
  /\ \A i \in (h + 2)..(h + 1 + m) : s[i] = d[i - (h + 1)]

LEMMA TextIs ==
  ASSUME NEW V, 49 \in V, NEW h \in Nat, NEW m \in Nat,
         NEW type \in Seq(V), Len(type) = h, NEW d \in Seq(V), Len(d) = m
  PROVE  (type \o <<49>>) \o d \in Seq(V) /\ IsText((type \o <<49>>) \o d, h, m, type, d)
<1>1. PICK o \in Seq(V) : o = <<49>> /\ Len(o) = 1 /\ o[1] = 49
  <2>1. <<49>> \in Seq(V) /\ Len(<<49>>) = 1 /\ <<49>>[1] = 49
    OBVIOUS
  <2> QED BY <2>1, Zenon
<1>a. PICK a \in Seq(V) : Joins(a, type, o, h, 1)
  BY <1>1, JoinIs, ZenonT(40)
<1>2. /\ a = type \o o /\ Len(a) = h + 1
      /\ \A i \in 1..(h + 1) : a[i] = IF i <= h THEN type[i] ELSE o[i - h]
  BY <1>a, Zenon DEF Joins
<1>b. PICK s \in Seq(V) : Joins(s, a, d, h + 1, m)
  BY <1>2, JoinIs, Zenon
<1>3. /\ s = a \o d /\ Len(s) = (h + 1) + m
      /\ \A i \in 1..((h + 1) + m) : s[i] = IF i <= h + 1 THEN a[i] ELSE d[i - (h + 1)]
  BY <1>b, Zenon DEF Joins
<1>4. SubSeq(s, (h + 1) + 1, Len(s)) = d
  <2>1. SubSeq(a \o d, Len(a) + 1, Len(a \o d)) = d
    BY DropIs, ZenonT(40)
  <2> QED BY <1>2, <1>3, <2>1, Zenon
<1>5. SubSeq(s, 1, h) = type
  <2>1. PICK r \in Seq(V) : r = o \o d
    BY Closed, Zenon
  <2>2. Regrouped(type, o, d)
    BY Associative, Zenon
  <2>3. s = type \o r
    BY <1>2, <1>3, <2>1, <2>2, Zenon DEF Regrouped
  <2> QED BY <2>3, DropIs, Zenon
<1>6. /\ (h + 1) + 1 = h + 2 /\ (h + 1) + m = h + 1 + m
      /\ h + 1 \in 1..(h + 1) /\ ~(h + 1 <= h) /\ (h + 1) - h = 1 /\ h + 1 \in 1..((h + 1) + m) /\ h + 1 <= h + 1
      /\ \A i \in 1..h : i \in 1..((h + 1) + m) /\ i <= h + 1 /\ i \in 1..(h + 1) /\ i <= h
      /\ \A i \in (h + 2)..(h + 1 + m) : i \in 1..((h + 1) + m) /\ ~(i <= h + 1)
  OBVIOUS
<1>7. s[h + 1] = 49
  <2>1. s[h + 1] = a[h + 1]
    BY <1>3, <1>6
  <2>2. a[h + 1] = o[(h + 1) - h]
    BY <1>2, <1>6
  <2> QED BY <1>1, <1>6, <2>1, <2>2, Zenon
<1>8. \A i \in 1..h : s[i] = type[i]
  BY ONLY <1>2, <1>3, <1>6, ZenonT(40)
<1>9. \A i \in (h + 2)..(h + 1 + m) : s[i] = d[i - (h + 1)]
  BY <1>3, <1>6, Zenon
<1>10. IsText(s, h, m, type, d)
  <2>1. Len(s) = h + 1 + m /\ SubSeq(s, h + 2, Len(s)) = d
    BY <1>3, <1>4, <1>6, Zenon
  <2> QED BY <1>5, <1>7, <1>8, <1>9, <2>1, Zenon DEF IsText
<1> QED BY <1>1, <1>2, <1>3, <1>10, Zenon

\* find_last_of finds the separator: there is none behind it.
LEMMA SeparatorIs ==
  ASSUME NEW V, NEW n \in Nat, NEW s \in Seq(V), Len(s) = n, NEW p \in 1..n,
         s[p] = 49, \A i \in (p + 1)..n : s[i] # 49
  PROVE  FindSeparator(s) = p
<1> DEFINE P == {i \in DOMAIN s : s[i] = Separator}
<1>1. DOMAIN s = 1..n
  OBVIOUS
<1>2. p \in P
  BY <1>1 DEF Separator
<1>3. \A i \in P : i \in Int /\ i <= p
  <2> SUFFICES ASSUME NEW i \in P, ~(i <= p) PROVE FALSE
    BY <1>1
  <2>1. i \in (p + 1)..n
    BY <1>1
  <2> QED BY <2>1 DEF Separator
<1>4. P \in SUBSET (0..n) /\ P # {}
  BY <1>1, <1>2
<1> HIDE DEF P
<1>5. Max(P) \in P /\ Max(P) >= p
  BY ONLY <1>2, <1>4, MaxIs, Zenon
<1>6. Max(P) = p
  <2>1. \A x \in Int : x <= p /\ x >= p => x = p
    OBVIOUS
  <2> QED BY <1>3, <1>5, <2>1, Zenon
<1> QED BY <1>6, Zenon DEF FindSeparator, P

\* Printable characters without capitals.
Plain7 == (33..126) \ (65..90)

LEMMA Plain7Is == /\ \A c \in Plain7 : c \in 33..126 /\ c \in 0..255 /\ c \notin 65..90 /\ c \in Int
                  /\ 49 \in Plain7
BY DEF Plain7

LEMMA PlainText ==
  ASSUME NEW n \in Nat, NEW s \in Seq(Plain7), Len(s) = n
  PROVE  ToLower(s) = s /\ \A i \in 1..n : s[i] \in Plain7 /\ s[i] \in 33..126
<1>1. \A i \in 1..n : s[i] \in Plain7
  BY ElementOfSeq
<1>2. \A i \in 1..n : s[i] \in 33..126 /\ s[i] \notin 65..90
  BY ONLY <1>1, SMT DEF Plain7
<1>3. ToLower(s) = s
  BY <1>2, LowerIs, Zenon
<1> QED BY <1>1, <1>2, <1>3, ZenonT(40)

LEMMA HrpExpands ==
  ASSUME NEW h \in Nat, NEW type \in Seq(Plain7), Len(type) = h
  PROVE  expandHrp(type) \in Seq(Int)
<1>1. \A i \in 1..h : type[i] \in Int
  BY ElementOfSeq, Plain7Is
<1>2. DOMAIN type = 1..h
  OBVIOUS
<1>3. PICK high : high = [i \in DOMAIN type |-> type[i] \div 32]
  OBVIOUS
<1>4. PICK low : low = [i \in DOMAIN type |-> type[i] % 32]
  OBVIOUS
<1>5. high \in Seq(Int) /\ low \in Seq(Int)
  BY <1>1, <1>2, <1>3, <1>4
<1>6. <<0>> \in Seq(Int)
  OBVIOUS
<1>7. high \o <<0>> \in Seq(Int)
  BY <1>5, <1>6, Closed, Zenon
<1>8. (high \o <<0>>) \o low \in Seq(Int)
  BY <1>5, <1>7, Closed, Zenon
<1>9. expandHrp(type) = (high \o <<0>>) \o low
  BY <1>3, <1>4, Zenon DEF expandHrp
<1> QED BY <1>8, <1>9, Zenon

LEMMA ConstantsAre == \A c \in KnownConstants : c \in Words30
BY DEF KnownConstants, Bech32m, Bech32, Bits, Words30

\* What is written with its checksum.
LEMMA ChecksumFits ==
  ASSUME NEW h \in Nat, NEW type \in Seq(Plain7), Len(type) = h,
         NEW g \in Nat, NEW vs \in Seq(Fives), Len(vs) = g, NEW constant \in KnownConstants
  PROVE  \E dp \in Seq(Fives) :
           /\ dp = vs \o createChecksum(type, vs, constant)
           /\ Len(dp) = g + 6 /\ SubSeq(dp, 1, g) = vs
           /\ polymod(expandHrp(type) \o dp) = constant
<1>1. PICK V : V = Int
  OBVIOUS
<1>2. PICK e \in Seq(V) : e = expandHrp(type)
  BY <1>1, HrpExpands, Zenon
<1>3. (\A v \in 0..31 : v \in V) /\ (\A v \in Fives : v \in V)
  BY <1>1 DEF Fives
<1>4. vs \in Seq(V)
  BY <1>3, MoreElements, Zenon
<1>5. PICK x \in Seq(V) : x = e \o vs
  BY <1>4, Closed, Zenon
<1>6. PICK n \in Nat : n = Len(x)
  OBVIOUS
<1>7. constant \in Words30
  BY ConstantsAre, Zenon
<1>8. PICK mod : mod = Xor(polymod(x \o ZeroGroups), constant)
  OBVIOUS
<1>9. polymod(x \o GroupsOf(mod)) = constant
  BY <1>3, <1>6, <1>7, <1>8, ChecksumCancels, Zenon
<1>10. mod \in Words30
  BY <1>3, <1>6, <1>7, <1>8, ChecksumWord, Zenon
<1>11. GroupsOf(mod) \in Seq(Fives) /\ Len(GroupsOf(mod)) = 6
  <2>1. \A i \in 1..6 : GroupOf(mod, i) \in Fives
    BY <1>10, GroupIs, Zenon DEF Fives
  <2> QED BY <2>1 DEF GroupsOf, ChecksumLength
<1>12. createChecksum(type, vs, constant) = GroupsOf(mod)
  BY <1>2, <1>5, <1>8, Zenon DEF createChecksum, GroupsOf, GroupOf, ZeroGroups
<1>13. PICK c \in Seq(Fives) : c = GroupsOf(mod) /\ Len(c) = 6
  BY <1>11, Zenon
<1>14. c \in Seq(V)
  BY <1>3, MoreElements, Zenon
<1>15. PICK dp \in Seq(Fives) : dp = vs \o c /\ Len(dp) = g + 6
  <2>1. vs \o c \in Seq(Fives) /\ Joins(vs \o c, vs, c, g, 6)
    BY <1>13, JoinIs, Zenon
  <2> QED BY <2>1, Zenon DEF Joins
<1>16. SubSeq(dp, 1, g) = vs
  <2>1. SubSeq(vs \o c, 1, Len(vs)) = vs
    BY DropIs, Zenon
  <2> QED BY <1>15, <2>1, Zenon
<1>17. Regrouped(e, vs, c)
  BY <1>4, <1>14, Associative, Zenon
<1>18. polymod(e \o dp) = constant
  BY <1>5, <1>9, <1>13, <1>15, <1>17, Zenon DEF Regrouped
<1> QED BY <1>2, <1>12, <1>13, <1>15, <1>16, <1>18, Zenon

IsEncoded(s, h, g, type, vs) ==
  s \in Seq(Plain7) /\ Len(s) = h + 1 + (g + 6) /\ decode(s) = Decoded(type, vs)

LEMMA CharsetHas == \A v \in 0..31 : charset[v + 1] \in ToSet(charset)
BY DEF charset, ToSet

LEMMA EncodedReads ==
  ASSUME NEW h \in Nat, NEW type \in Seq(Plain7), Len(type) = h, h >= 1,
         NEW g \in Nat, NEW vs \in Seq(Fives), Len(vs) = g, h + g <= 83,
         NEW constant \in KnownConstants
  PROVE  IsEncoded(encodeBasis(type, vs, constant), h, g, type, vs)
<1>1. ToLower(type) = type
  BY PlainText, Zenon
<1>2. PICK dp \in Seq(Fives) :
        /\ dp = vs \o createChecksum(type, vs, constant)
        /\ Len(dp) = g + 6 /\ SubSeq(dp, 1, g) = vs
        /\ polymod(expandHrp(type) \o dp) = constant
  BY ChecksumFits, ZenonT(40)
<1>3. PICK m \in Nat : m = g + 6
  OBVIOUS
<1>4. PICK d \in Seq(Plain7) :
        /\ d = ToCharset(dp) /\ Len(d) = m
        /\ \A i \in 1..m : d[i] = charset[dp[i] + 1]
        /\ FromCharset(d) = dp
  <2>1. /\ ToCharset(dp) \in Seq(Plain7) /\ Len(ToCharset(dp)) = m
        /\ \A i \in 1..m : ToCharset(dp)[i] = charset[dp[i] + 1]
        /\ FromCharset(ToCharset(dp)) = dp
    BY <1>2, <1>3, CharsetReads, Zenon DEF Plain7
  <2> QED BY <2>1, Zenon
<1>5. \A i \in 1..m : d[i] # 49 /\ d[i] \in ToSet(charset)
  <2>1. \A i \in 1..m : dp[i] \in 0..31
    BY <1>2, <1>3, ElementOfSeq DEF Fives
  <2>2. \A v \in 0..31 : charset[v + 1] # 49 /\ charset[v + 1] \in ToSet(charset)
    BY CharsetIs, CharsetHas, ZenonT(40)
  <2> QED BY <1>4, <2>1, <2>2, ZenonT(40)
<1>6. PICK s \in Seq(Plain7) : s = (type \o <<49>>) \o d /\ IsText(s, h, m, type, d)
  <2>1. 49 \in Plain7
    BY Plain7Is, Zenon
  <2> QED BY <1>4, <2>1, TextIs, Zenon
<1>7. Len(s) = h + 1 + m /\ DOMAIN s = 1..(h + 1 + m)
  BY <1>6 DEF IsText
<1>8. encodeBasis(type, vs, constant) = s
  <2>1. Len(type) \in 1..83 /\ ~(Len(type) + Len(vs) + 1 + 6 > 90)
    OBVIOUS
  <2> QED BY <1>1, <1>2, <1>4, <1>6, <2>1, Zenon DEF encodeBasis, Separator, ChecksumLength
<1>9. \A i \in 1..(h + 1 + m) : s[i] \in Plain7 /\ s[i] \in 33..126
  <2>1. h + 1 + m \in Nat
    OBVIOUS
  <2> QED BY <1>7, <2>1, PlainText, Zenon
<1>10. ToLower(s) = s
  <2>1. h + 1 + m \in Nat
    OBVIOUS
  <2> QED BY <1>7, <2>1, PlainText, Zenon
<1>11. FindSeparator(s) = h + 1
  <2>1. s[h + 1] = 49 /\ \A i \in (h + 2)..(h + 1 + m) : s[i] = d[i - (h + 1)]
    BY <1>6, Zenon DEF IsText
  <2>2. \A i \in (h + 2)..(h + 1 + m) : i - (h + 1) \in 1..m
    OBVIOUS
  <2>3. \A i \in ((h + 1) + 1)..(h + 1 + m) : s[i] # 49
    <3>1. (h + 1) + 1 = h + 2
      OBVIOUS
    <3>2. ASSUME NEW i \in (h + 2)..(h + 1 + m) PROVE s[i] # 49
      <4>1. PICK k \in 1..m : k = i - (h + 1)
        BY <2>2, Zenon
      <4> QED BY <1>5, <2>1, <4>1, ZenonT(40)
    <3> QED BY <3>1, <3>2, Zenon
  <2>4. h + 1 + m \in Nat /\ h + 1 \in 1..(h + 1 + m)
    OBVIOUS
  <2>5. PICK n \in Nat : n = h + 1 + m
    BY <2>4, Zenon
  <2>6. PICK p \in 1..n : p = h + 1
    BY <2>4, <2>5, Zenon
  <2>7. Len(s) = n /\ s[p] = 49 /\ \A i \in (p + 1)..n : s[i] # 49
    BY <1>7, <2>1, <2>3, <2>5, <2>6, Zenon
  <2>8. FindSeparator(s) = p
    <3>1. s[p] = 49 /\ Len(s) = n
      BY <2>7, Zenon
    <3>2. \A i \in (p + 1)..n : s[i] # 49
      BY <2>7, Zenon
    <3> QED BY ONLY s \in Seq(Plain7), n \in Nat, p \in 1..n, <3>1, <3>2, SeparatorIs, ZenonT(40)
  <2> QED BY <2>6, <2>8, Zenon
<1>12. SubSeq(s, 1, h) = type /\ DataChars(s) = d
  <2>1. (h + 1) + 1 = h + 2
    OBVIOUS
  <2>2. SubSeq(s, 1, h) = type /\ SubSeq(s, h + 2, Len(s)) = d
    BY <1>6, Zenon DEF IsText
  <2> QED BY <1>11, <2>1, <2>2, Zenon DEF DataChars
<1>13. WellFormed(s)
  <2>1. Len(s) \in 8..90
    BY <1>3, <1>7
  <2>2. ToSet(s) \subseteq 33..126
    BY <1>7, <1>9, ZenonT(40) DEF ToSet
  <2>3. Separator \in ToSet(s)
    <3>1. h + 1 \in 1..(h + 1 + m) /\ s[h + 1] = 49
      BY <1>6 DEF IsText
    <3> QED BY <1>7, <3>1 DEF ToSet, Separator
  <2> QED BY <1>10, <2>1, <2>2, <2>3, Zenon DEF WellFormed
<1>14. Readable(s)
  <2>1. FindSeparator(s) \in 2..84
    BY <1>11
  <2>2. Len(DataChars(s)) >= ChecksumLength
    BY <1>3, <1>4, <1>12 DEF ChecksumLength
  <2>3. ToLower(d) = d
    BY <1>4, PlainText, Zenon
  <2>4. ToSet(d) \subseteq ToSet(charset)
    <3>1. DOMAIN d = 1..m
      BY <1>4
    <3>2. ToSet(d) = {d[i] : i \in 1..m}
      BY <3>1 DEF ToSet
    <3> QED BY <1>5, <3>2
  <2> QED BY <1>12, <1>13, <2>1, <2>2, <2>3, <2>4, Zenon DEF Readable
<1>15. decode(s) = Decoded(type, vs)
  <2>1. ToLower(SubSeq(s, 1, FindSeparator(s) - 1)) = type
    <3>1. (h + 1) - 1 = h
      OBVIOUS
    <3> QED BY <1>1, <1>11, <1>12, <3>1, Zenon
  <2>2. FromCharset(DataChars(s)) = dp
    BY <1>4, <1>12, Zenon
  <2>3. SubSeq(dp, 1, Len(dp) - ChecksumLength) = vs
    <3>1. Len(dp) - 6 = g
      BY <1>2
    <3> QED BY <1>2, <3>1, Zenon DEF ChecksumLength
  <2>4. polymod(expandHrp(type) \o dp) \in {Bech32m, Bech32}
    BY <1>2 DEF KnownConstants
  <2> QED BY <1>14, <2>1, <2>2, <2>3, <2>4, Zenon DEF decode
<1> QED BY <1>3, <1>7, <1>8, <1>15, Zenon DEF IsEncoded

\* How many groups of five bits a key has.
FivesOfKey == (8 * KeySize + 4) \div 5

LEMMA TypeIs ==
  ASSUME NEW type \in Types
  PROVE  /\ type \in Seq(Plain7) /\ Len(type) \in Nat /\ Len(type) >= 1
         /\ FivesOfKey \in Nat /\ Len(type) + FivesOfKey <= 83
<1>1. type \in Seq(Plain7) /\ type # <<>> /\ Len(type) + FivesOfKey <= 83
  BY KeyTextAssumption, SMT DEF Plain7, FivesOfKey
<1>2. Len(type) \in Nat /\ Len(type) # 0
  BY <1>1, EmptySeq
<1>3. KeySize \in Nat
  BY KeyTextAssumption
<1>4. FivesOfKey \in Nat
  BY <1>3 DEF FivesOfKey
<1> QED BY <1>1, <1>2, <1>4

LEMMA KeyGroups ==
  ASSUME NEW key \in Keys
  PROVE  convert_bits(8, 5, key) \in Seq(Fives) /\ Len(convert_bits(8, 5, key)) = FivesOfKey
<1>1. KeySize \in Nat /\ key \in [1..KeySize -> 0..255]
  BY KeyTextAssumption
<1>2. Len(key) = KeySize
  BY <1>1
<1>3. PICK n \in Nat : n = FivesOfKey
  BY <1>1 DEF FivesOfKey
<1>4. Groups(Len(key) * 8, 8, 5) = n
  BY <1>1, <1>2, <1>3 DEF Groups, FivesOfKey
<1> DEFINE BitAt(k) == IF k < Len(key) * 8 THEN (key[(k \div 8) + 1] \div 2^(8 - 1 - (k % 8))) % 2 ELSE 0
           Group(g) == Number({b \in 0..4 : BitAt(g * 5 - 1 - b) = 1})
<1>5. ASSUME NEW g \in 1..n PROVE Group(g) \in Fives
  <2> HIDE DEF BitAt
  <2>1. {b \in 0..4 : BitAt(g * 5 - 1 - b) = 1} \in SUBSET (0..4)
    OBVIOUS
  <2> QED BY <2>1, NumberBits, Zenon DEF Fives
<1>6. convert_bits(8, 5, key) = [g \in 1..n |-> Group(g)]
  <2>1. 5 - 1 = 4
    OBVIOUS
  <2> QED BY <1>4, <2>1, Zenon DEF convert_bits
<1> HIDE DEF Group
<1>7. [g \in 1..n |-> Group(g)] \in Seq(Fives) /\ Len([g \in 1..n |-> Group(g)]) = n
  BY <1>5
<1> QED BY <1>3, <1>6, <1>7, Zenon

\* Whatever is sent, with either checksum.
LEMMA SentReads ==
  ASSUME NEW key \in Keys, NEW type \in Types, NEW constant \in KnownConstants
  PROVE  IsEncoded(encodeBasis(type, convert_bits(8, 5, key), constant),
                   Len(type), FivesOfKey, type, convert_bits(8, 5, key))
<1>1. PICK vs \in Seq(Fives) : vs = convert_bits(8, 5, key) /\ Len(vs) = FivesOfKey
  BY KeyGroups, Zenon
<1>2. /\ type \in Seq(Plain7) /\ Len(type) \in Nat /\ Len(type) >= 1
      /\ FivesOfKey \in Nat /\ Len(type) + FivesOfKey <= 83
  BY TypeIs, Zenon
<1>3. IsEncoded(encodeBasis(type, vs, constant), Len(type), FivesOfKey, type, vs)
  BY <1>1, <1>2, EncodedReads, Zenon
<1> QED BY <1>1, <1>3, Zenon

LEMMA WrittenIsText ==
  ASSUME NEW key \in Keys, NEW type \in Types
  PROVE  to_bech32(key, type) \in Seq(0..255)
<1>1. Bech32m \in KnownConstants
  BY DEF KnownConstants
<1>2. to_bech32(key, type) \in Seq(Plain7)
  BY <1>1, SentReads, Zenon DEF IsEncoded, to_bech32
<1>3. PICK W : W = 0..255
  OBVIOUS
<1>4. Plain7 \subseteq W
  BY <1>3 DEF Plain7
<1>5. to_bech32(key, type) \in Seq(W)
  BY <1>2, <1>4, MoreElements, Zenon
<1> QED BY <1>3, <1>5, Zenon

LEMMA PiecesAreText ==
  ASSUME NEW V, NEW s \in Seq(V), NEW a \in Nat, NEW b \in Nat, b <= Len(s), a >= 1
  PROVE  SubSeq(s, a, b) \in Seq(V)
<1>1. \A i \in a..b : i \in 1..Len(s)
  OBVIOUS
<1>2. \A i \in a..b : s[i] \in V
  BY <1>1, ElementOfSeq
<1> QED BY <1>2, SubSeqProperties

\* Slips are typed on a keyboard of bytes.
LEMMA SlipsAreText ==
  ASSUME NEW V, NEW s \in Seq(V)
  PROVE  /\ \A i \in DOMAIN s, c \in V : [s EXCEPT ![i] = c] \in Seq(V)
         /\ \A i \in 1..(Len(s) - 1) : [s EXCEPT ![i] = s[i + 1], ![i + 1] = s[i]] \in Seq(V)
         /\ \A i \in DOMAIN s : InsertAt(s, i, s[i]) \in Seq(V) /\ RemoveAt(s, i) \in Seq(V)
<1>1. PICK n \in Nat : n = Len(s) /\ DOMAIN s = 1..n
  OBVIOUS
<1>2. \A i \in 1..n : s[i] \in V
  BY <1>1, ElementOfSeq
<1>3. ASSUME NEW i \in 1..n, NEW c \in V PROVE [s EXCEPT ![i] = c] \in Seq(V)
  BY <1>1
<1>4. ASSUME NEW i \in 1..(n - 1) PROVE [s EXCEPT ![i] = s[i + 1], ![i + 1] = s[i]] \in Seq(V)
  <2>1. i \in 1..n /\ i + 1 \in 1..n
    OBVIOUS
  <2>2. s[i] \in V /\ s[i + 1] \in V
    BY <1>2, <2>1
  <2> QED BY <1>1, <2>1, <2>2
<1>5. ASSUME NEW i \in 1..n PROVE InsertAt(s, i, s[i]) \in Seq(V) /\ RemoveAt(s, i) \in Seq(V)
  <2>1. /\ SubSeq(s, 1, i - 1) \in Seq(V) /\ SubSeq(s, i, n) \in Seq(V) /\ SubSeq(s, i + 1, n) \in Seq(V)
    BY <1>1, PiecesAreText
  <2>2. <<s[i]>> \in Seq(V)
    BY <1>2
  <2>3. SubSeq(s, 1, i - 1) \o <<s[i]>> \in Seq(V)
    BY <2>1, <2>2, Closed, Zenon
  <2>4. (SubSeq(s, 1, i - 1) \o <<s[i]>>) \o SubSeq(s, i, n) \in Seq(V)
    BY <2>1, <2>3, Closed, Zenon
  <2>5. SubSeq(s, 1, i - 1) \o SubSeq(s, i + 1, n) \in Seq(V)
    BY <2>1, Closed, Zenon
  <2> QED BY <1>1, <2>4, <2>5, Zenon DEF InsertAt, RemoveAt
<1> QED BY <1>1, <1>3, <1>4, <1>5

LEMMA ShoutedIsText ==
  ASSUME NEW s \in Seq(0..255)
  PROVE  ToUpper(s) \in Seq(0..255)
<1>1. PICK n \in Nat : n = Len(s) /\ DOMAIN s = 1..n
  OBVIOUS
<1>2. \A i \in 1..n : s[i] \in 0..255
  BY <1>1, ElementOfSeq
<1>3. \A c \in 0..255 : (IF c \in Lowercase THEN c - 32 ELSE c) \in 0..255
  BY DEF Lowercase
<1>4. \A i \in 1..n : (IF s[i] \in Lowercase THEN s[i] - 32 ELSE s[i]) \in 0..255
  BY <1>2, <1>3
<1>5. ToUpper(s) = [i \in 1..n |-> IF s[i] \in Lowercase THEN s[i] - 32 ELSE s[i]]
  BY <1>1 DEF ToUpper
<1> QED BY <1>4, <1>5

\* What decode cut in two has no more and no less than the characters of the text.
WasDecoded(s, p, r) ==
  /\ p \in 1..Len(s) /\ s[p] = Separator /\ Len(s) >= 8 /\ Separator \in ToSet(s)
  /\ Len(s) - p >= 6 /\ Len(r.hrp) = p - 1 /\ Len(r.dp) = (Len(s) - p) - 6

LEMMA DecodeEnds ==
  ASSUME NEW s
  PROVE  decode(s).st \in {"throws", "invalid", "ok"}
BY DEF decode, Fails, Invalid, Decoded

LEMMA DecodedIs ==
  ASSUME NEW V, NEW s \in Seq(V), decode(s).st = "ok"
  PROVE  WasDecoded(s, FindSeparator(s), decode(s))
<1>1. PICK n \in Nat : n = Len(s) /\ DOMAIN s = 1..n
  OBVIOUS
<1>2. PICK p : p = FindSeparator(s)
  OBVIOUS
<1>3. Readable(s)
  BY DEF decode, Fails
<1>4. n >= 8 /\ Separator \in ToSet(s)
  BY <1>1, <1>3 DEF Readable, WellFormed
<1>5. p \in 1..n /\ s[p] = Separator
  <2> DEFINE P == {i \in DOMAIN s : s[i] = Separator}
  <2>1. P # {} /\ P \in SUBSET (0..n) /\ P \subseteq 1..n
    BY <1>1, <1>4 DEF ToSet
  <2>2. Max(P) \in P
    <3> HIDE DEF P
    <3> QED BY <2>1, MaxIs
  <2>3. p = Max(P)
    BY <1>2, Zenon DEF FindSeparator
  <2> QED BY <1>1, <2>2, <2>3
<1>6. PICK d : d = DataChars(s)
  OBVIOUS
<1>7. DOMAIN d = 1..(n - p) /\ Len(d) = n - p
  BY <1>1, <1>2, <1>5, <1>6 DEF DataChars
<1>8. n - p >= 6
  BY <1>3, <1>6, <1>7 DEF Readable, ChecksumLength
<1>9. PICK e : e = SubSeq(s, 1, p - 1)
  OBVIOUS
<1>10. DOMAIN e = 1..(p - 1) /\ Len(e) = p - 1
  BY <1>1, <1>5, <1>9
<1>11. Len(ToLower(e)) = p - 1
  BY <1>5, <1>10 DEF ToLower
<1>12. PICK f : f = FromCharset(d)
  OBVIOUS
<1>13. f = [i \in 1..(n - p) |-> (CHOOSE v \in 0..31 : charset[v + 1] = ToLower(d)[i])]
  BY <1>7, <1>12, Zenon DEF FromCharset
<1>14. Len(f) = n - p
  BY <1>1, <1>5, <1>8, <1>13
<1>15. Len(SubSeq(f, 1, (n - p) - 6)) = (n - p) - 6
  BY <1>1, <1>5, <1>8, <1>13
<1>16. decode(s) = Decoded(ToLower(e), SubSeq(f, 1, (n - p) - 6))
  <2>1. decode(s) \in {Invalid, Decoded(ToLower(e), SubSeq(f, 1, Len(f) - ChecksumLength))}
    BY <1>2, <1>3, <1>6, <1>9, <1>12, Zenon DEF decode
  <2>2. decode(s) # Invalid
    BY DEF Invalid
  <2> QED BY <1>14, <2>1, <2>2, Zenon DEF ChecksumLength
<1>17. decode(s).hrp = ToLower(e) /\ decode(s).dp = SubSeq(f, 1, (n - p) - 6)
  <2>1. PICK front, rest : front = ToLower(e) /\ rest = SubSeq(f, 1, (n - p) - 6)
    OBVIOUS
  <2>2. decode(s) = Decoded(front, rest)
    BY <1>16, <2>1, Zenon
  <2>3. decode(s).hrp = front /\ decode(s).dp = rest
    BY <2>2 DEF Decoded
  <2> QED BY <2>1, <2>3, Zenon
<1> QED BY <1>1, <1>2, <1>4, <1>5, <1>8, <1>11, <1>15, <1>17, Zenon DEF WasDecoded

\* The room that is made for a text.
LEMMA RoomIs ==
  ASSUME NEW V, NEW s \in Seq(V), Len(s) >= 8, Separator \in ToSet(s)
  PROVE  /\ FirstSeparator(s) \in 1..Len(s)
         /\ create_DecodedResult(s)
              = IF Len(s) - FirstSeparator(s) < 6 THEN None
                ELSE [hrplen |-> FirstSeparator(s) - 1, dplen |-> (Len(s) - FirstSeparator(s)) - 6]
<1>1. PICK n \in Nat : n = Len(s) /\ DOMAIN s = 1..n
  OBVIOUS
<1>2. PICK q : q = FirstSeparator(s)
  OBVIOUS
<1>3. q \in 1..n
  <2> DEFINE P == {i \in DOMAIN s : s[i] = Separator}
  <2>1. P # {} /\ P \in SUBSET Nat /\ P \subseteq 1..n
    BY <1>1 DEF ToSet
  <2>2. Min(P) \in P
    <3> HIDE DEF P
    <3> QED BY <2>1, MinIs
  <2>3. q = Min(P)
    BY <1>2, Zenon DEF FirstSeparator
  <2> QED BY <1>1, <2>1, <2>2, <2>3
<1>4. n - (q - 1) - 1 = n - q /\ n - (q - 1) - 1 - 6 = (n - q) - 6 /\ ~(n < 8)
  BY <1>1, <1>3
<1>5. create_DecodedResult(s) = IF n - q < 6 THEN None ELSE [hrplen |-> q - 1, dplen |-> (n - q) - 6]
  BY <1>1, <1>2, <1>4, Zenon DEF create_DecodedResult, ChecksumLength
<1> QED BY <1>1, <1>2, <1>3, <1>5, Zenon

LEMMA RoomIsNotNone ==
  ASSUME NEW h \in Nat, NEW d \in Nat
  PROVE  [hrplen |-> h, dplen |-> d] # None
<1>1. None \notin [hrplen : Nat, dplen : Nat]
  BY KeyTextAssumption, Zenon
<1> QED BY <1>1

\* Success, and what was allocated.
LEMMA SuccessFits ==
  ASSUME NEW V, NEW s \in Seq(V), bech32_decode(s) = "success"
  PROVE  create_DecodedResult(s) = [hrplen |-> Len(decode(s).hrp), dplen |-> Len(decode(s).dp)]
<1>1. PICK room : room = create_DecodedResult(s)
  OBVIOUS
<1>2. PICK r : r = decode(s)
  OBVIOUS
<1>3. room # None /\ r.st = "ok" /\ Fits(r, room)
  <2>1. r.st \in {"throws", "invalid", "ok"}
    BY <1>2, DecodeEnds
  <2> QED BY <1>1, <1>2, <2>1 DEF bech32_decode
<1>4. PICK n \in Nat : n = Len(s)
  OBVIOUS
<1>5. PICK p : p = FindSeparator(s)
  OBVIOUS
<1>6. /\ p \in 1..n /\ n >= 8 /\ Separator \in ToSet(s)
      /\ n - p >= 6 /\ Len(r.hrp) = p - 1 /\ Len(r.dp) = (n - p) - 6
  BY <1>2, <1>3, <1>4, <1>5, DecodedIs, Zenon DEF WasDecoded
<1>7. PICK q : q = FirstSeparator(s)
  OBVIOUS
<1>8. q \in 1..n /\ room = IF n - q < 6 THEN None ELSE [hrplen |-> q - 1, dplen |-> (n - q) - 6]
  BY <1>1, <1>4, <1>6, <1>7, RoomIs, Zenon
<1>9. room = [hrplen |-> q - 1, dplen |-> (n - q) - 6]
  BY <1>3, <1>8, Zenon
<1>10. p - 1 <= q - 1 /\ (n - p) - 6 <= (n - q) - 6
  BY <1>3, <1>6, <1>9 DEF Fits
<1>11. p = q
  BY <1>6, <1>8, <1>10
<1> QED BY <1>1, <1>2, <1>6, <1>9, <1>11, Zenon

LEMMA OneSeparatorSucceeds ==
  ASSUME NEW V, NEW s \in Seq(V), decode(s).st = "ok", FindSeparator(s) = FirstSeparator(s)
  PROVE  bech32_decode(s) = "success"
<1>1. PICK room : room = create_DecodedResult(s)
  OBVIOUS
<1>2. PICK r : r = decode(s)
  OBVIOUS
<1>4. PICK n \in Nat : n = Len(s)
  OBVIOUS
<1>5. PICK p : p = FindSeparator(s)
  OBVIOUS
<1>6. /\ p \in 1..n /\ n >= 8 /\ Separator \in ToSet(s)
      /\ n - p >= 6 /\ Len(r.hrp) = p - 1 /\ Len(r.dp) = (n - p) - 6
  BY <1>2, <1>4, <1>5, DecodedIs, Zenon DEF WasDecoded
<1>7. room = IF n - p < 6 THEN None ELSE [hrplen |-> p - 1, dplen |-> (n - p) - 6]
  BY <1>1, <1>4, <1>5, <1>6, RoomIs, Zenon
<1>8. room = [hrplen |-> p - 1, dplen |-> (n - p) - 6]
  BY <1>6, <1>7
<1>9. room # None
  <2>1. PICK a \in Nat, b \in Nat : a = p - 1 /\ b = (n - p) - 6
    BY <1>6
  <2> QED BY <1>8, <2>1, RoomIsNotNone, Zenon
<1>10. Fits(r, room)
  BY <1>6, <1>8 DEF Fits
<1> QED BY <1>1, <1>2, <1>9, <1>10 DEF bech32_decode

\* What is sent fits the string that is made for it, and is read back.
LEMMA SentFits ==
  ASSUME NEW key \in Keys, NEW type \in Types, NEW constant \in KnownConstants
  PROVE  LET values == convert_bits(8, 5, key)
             length == create_bstring(Len(type), Len(values))
         IN /\ bech32_encode(type, values, constant, length) = "success"
            /\ decode(encodeBasis(type, values, constant)) = Decoded(type, values)
<1>1. PICK vs \in Seq(Fives) : vs = convert_bits(8, 5, key) /\ Len(vs) = FivesOfKey
  BY KeyGroups, Zenon
<1>2. PICK h \in Nat, g \in Nat : h = Len(type) /\ g = FivesOfKey /\ h >= 1
  BY TypeIs, Zenon
<1>3. PICK s : s = encodeBasis(type, vs, constant)
  OBVIOUS
<1>4. s \in Seq(Plain7) /\ Len(s) = h + 1 + (g + 6) /\ decode(s) = Decoded(type, vs)
  BY <1>1, <1>2, <1>3, SentReads, Zenon DEF IsEncoded
<1>5. PICK l \in Nat : l = create_bstring(h, g) /\ l = h + 1 + (g + 6)
  BY <1>2 DEF create_bstring, compute_encoded_string_length, ChecksumLength
<1>6. l # None
  <2>1. None \notin Nat
    BY KeyTextAssumption, Zenon
  <2> QED BY <2>1
<1>7. s # <<>>
  <2>1. Len(<<>>) = 0
    OBVIOUS
  <2>2. h + 1 + (g + 6) # 0
    OBVIOUS
  <2> QED BY <1>4, <2>1, <2>2, Zenon
<1>8. ~(Len(s) > l)
  BY <1>4, <1>5
<1>9. bech32_encode(type, vs, constant, l) = "success"
  BY <1>3, <1>6, <1>7, <1>8 DEF bech32_encode
<1> QED BY <1>1, <1>2, <1>3, <1>4, <1>5, <1>9, Zenon

\* Whatever is written, mistyped, swapped, doubled, left out or shouted, a text is of bytes,
\* and the key it is of is one of the senders'.
THEOREM KeysTyped == Spec => []KeyTextTypeOK
<1>1. Init => KeyTextTypeOK
  BY DEF Init, KeyTextInit, KeyTextTypeOK
<1>2. KeyTextTypeOK /\ [Next]_codecVars => KeyTextTypeOK'
  <2> SUFFICES ASSUME KeyTextTypeOK, [Next]_codecVars PROVE KeyTextTypeOK'
    OBVIOUS
  <2>0. PICK V : V = 0..255
    OBVIOUS
  <2>a. text \in Seq(V)
    BY <2>0, Zenon DEF KeyTextTypeOK
  <2>1. ASSUME NEW key \in Keys, NEW type \in Types, Write(key, type) PROVE KeyTextTypeOK'
    <3>1. text' \in Seq(0..255)
      BY <2>1, WrittenIsText, Zenon DEF Write
    <3>2. sent' \in [key : Keys, type : Types]
      BY <2>1 DEF Write
    <3> QED BY <3>1, <3>2, Zenon DEF KeyTextTypeOK
  <2>2. ASSUME sent' = sent, text' \in Seq(V) PROVE KeyTextTypeOK'
    BY <2>0, <2>2, Zenon DEF KeyTextTypeOK
  <2>3. ASSUME NEW i \in DOMAIN text, NEW c \in Slips, Mistype(i, c) PROVE KeyTextTypeOK'
    <3>1. c \in V
      BY <2>0, KeyTextAssumption, Zenon
    <3> QED BY <2>a, <2>2, <2>3, <3>1, SlipsAreText, Zenon DEF Mistype, Slip, OnItsWay
  <2>4. ASSUME NEW i \in 1..(Len(text) - 1), Swap(i) PROVE KeyTextTypeOK'
    BY <2>a, <2>2, <2>4, SlipsAreText, Zenon DEF Swap, Slip, OnItsWay
  <2>5. ASSUME NEW i \in DOMAIN text, Double(i) \/ Leave(i) PROVE KeyTextTypeOK'
    BY <2>a, <2>2, <2>5, SlipsAreText, Zenon DEF Double, Leave, Slip, OnItsWay
  <2>6. ASSUME Shout PROVE KeyTextTypeOK'
    <3>1. ToUpper(text) \in Seq(0..255)
      BY <2>0, <2>a, ShoutedIsText, Zenon
    <3> QED BY <2>0, <2>2, <2>6, <3>1, Zenon DEF Shout, OnItsWay
  <2>7. ASSUME NEW type \in Types, Read(type) PROVE KeyTextTypeOK'
    BY <2>a, <2>2, <2>7, Zenon DEF Read
  <2>8. ASSUME UNCHANGED keyVars PROVE KeyTextTypeOK'
    <3>1. sent' = sent /\ text' = text
      BY <2>8 DEF keyVars
    <3> QED BY <2>a, <2>2, <3>1, Zenon
  <2>9. CASE KeyTextNext
    BY <2>1, <2>3, <2>4, <2>5, <2>6, <2>7, <2>9, Zenon DEF KeyTextNext
  <2>10. KeyTextNext \/ UNCHANGED keyVars
    BY Zenon DEF Next, codecVars
  <2> QED BY <2>8, <2>9, <2>10, Zenon
<1> QED BY <1>1, <1>2, PTL DEF Spec

\* The C bindings, for keys of any length: what is allocated is what is written.
THEOREM BindingsFit == Spec => []BindingExact
<1>1. KeyTextTypeOK => BindingExact
  <2> SUFFICES ASSUME KeyTextTypeOK, sent # None
      PROVE  LET r == decode(text)
                 room == create_DecodedResult(text)
                 values == convert_bits(8, 5, sent.key)
                 length == create_bstring(Len(sent.type), Len(values))
             IN /\ slips = 0 => \A constant \in {Bech32m, Bech32} :
                     /\ bech32_encode(sent.type, values, constant, length) = "success"
                     /\ decode(encodeBasis(sent.type, values, constant)) = Decoded(sent.type, values)
                /\ bech32_decode(text) = "success" =>
                     room = [hrplen |-> Len(r.hrp), dplen |-> Len(r.dp)]
                /\ r.st = "ok" /\ FindSeparator(text) = FirstSeparator(text) =>
                     bech32_decode(text) = "success"
    BY Zenon DEF BindingExact
  <2>1. sent.key \in Keys /\ sent.type \in Types
    BY DEF KeyTextTypeOK
  <2>2. PICK V : text \in Seq(V)
    BY Zenon DEF KeyTextTypeOK
  <2>3. \A constant \in {Bech32m, Bech32} :
          LET values == convert_bits(8, 5, sent.key)
              length == create_bstring(Len(sent.type), Len(values))
          IN /\ bech32_encode(sent.type, values, constant, length) = "success"
             /\ decode(encodeBasis(sent.type, values, constant)) = Decoded(sent.type, values)
    BY <2>1, SentFits, Zenon DEF KnownConstants
  <2> QED BY <2>2, <2>3, SuccessFits, OneSeparatorSucceeds, Zenon
<1> QED BY <1>1, KeysTyped, PTL

-----------------------------------------------------------------------------
(* Keys that come back.  Bit for bit, groups of five are the bytes they    *)
(* were made of; a text in capitals is read like the text it was.          *)

LEMMA ByteBits ==
  ASSUME NEW c \in 0..255
  PROVE  Number({b \in 0..7 : (c \div 2^b) % 2 = 1}) = c
<1> DEFINE S == {b \in 0..7 : (c \div 2^b) % 2 = 1}
           One(b) == IF b \in S THEN 2^b ELSE 0
<1>1. /\ One(0) = 1 * (c % 2)
      /\ One(1) = 2 * ((c \div 2) % 2)
      /\ One(2) = 4 * ((c \div 4) % 2)
      /\ One(3) = 8 * ((c \div 8) % 2)
  OBVIOUS
<1>2. /\ One(4) = 16 * ((c \div 16) % 2)
      /\ One(5) = 32 * ((c \div 32) % 2)
      /\ One(6) = 64 * ((c \div 64) % 2)
      /\ One(7) = 128 * ((c \div 128) % 2)
  OBVIOUS
<1>3. Number(S) = One(0) + One(1) + One(2) + One(3) + One(4) + One(5) + One(6) + One(7)
  BY Zenon DEF Number
<1> HIDE DEF One, S
<1>4. c = 1 * (c % 2) + 2 * ((c \div 2) % 2) + 4 * ((c \div 4) % 2) + 8 * ((c \div 8) % 2)
            + 16 * (c \div 16)
  OBVIOUS
<1>5. c \div 16 = ((c \div 16) % 2) + 2 * ((c \div 32) % 2) + 4 * ((c \div 64) % 2) + 8 * ((c \div 128) % 2)
  OBVIOUS
<1>6. Number(S) = c
  BY <1>1, <1>2, <1>3, <1>4, <1>5
<1> QED BY <1>6 DEF S

\* The bits of a key, the highest of each byte first.
KeyBit(key, k) ==
  IF k < KeySize * 8 THEN (key[(k \div 8) + 1] \div 2^(7 - (k % 8))) % 2 ELSE 0

LEMMA GroupBits ==
  ASSUME NEW key \in Keys, NEW g \in 1..FivesOfKey, NEW c \in 0..4
  PROVE  (convert_bits(8, 5, key)[g] \div 2^c) % 2 = 1 <=> KeyBit(key, (g * 5 - 1) - c) = 1
<1>1. KeySize \in Nat /\ key \in [1..KeySize -> 0..255]
  BY KeyTextAssumption
<1>2. Len(key) = KeySize
  BY <1>1
<1>3. PICK n \in Nat : n = FivesOfKey
  BY <1>1 DEF FivesOfKey
<1>4. Groups(Len(key) * 8, 8, 5) = n
  BY <1>1, <1>2, <1>3 DEF Groups, FivesOfKey
<1> DEFINE Set(x) == {b \in 0..4 : KeyBit(key, x * 5 - 1 - b) = 1}
<1>5. convert_bits(8, 5, key) = [x \in 1..n |-> Number(Set(x))]
  <2>1. 5 - 1 = 4 /\ 8 - 1 = 7
    OBVIOUS
  <2> QED BY <1>2, <1>4, <2>1, Zenon DEF convert_bits, KeyBit
<1>6. Set(g) \in SUBSET (0..4)
  OBVIOUS
<1>7. c \in Set(g) <=> KeyBit(key, (g * 5 - 1) - c) = 1
  OBVIOUS
<1> HIDE DEF Set
<1>8. convert_bits(8, 5, key)[g] = Number(Set(g))
  BY <1>3, <1>5
<1>9. Bits(Number(Set(g)), 5) = Set(g)
  BY <1>6, NumberBits, Zenon
<1>10. c \in Bits(Number(Set(g)), 5) <=> (Number(Set(g)) \div 2^c) % 2 = 1
  BY DEF Bits
<1> QED BY <1>7, <1>8, <1>9, <1>10, Zenon

LEMMA KeyBack ==
  ASSUME NEW key \in Keys
  PROVE  convert_bits(5, 8, convert_bits(8, 5, key)) = key
<1>1. KeySize \in Nat /\ key \in [1..KeySize -> 0..255]
  BY KeyTextAssumption
<1>2. PICK vs \in Seq(Fives) : vs = convert_bits(8, 5, key) /\ Len(vs) = FivesOfKey
  BY KeyGroups, Zenon
<1>3. PICK n \in Nat : n = FivesOfKey
  BY <1>1 DEF FivesOfKey
<1>4. 5 * n >= 8 * KeySize /\ 5 * n <= 8 * KeySize + 4
  BY <1>1, <1>3 DEF FivesOfKey
<1>5. Groups(Len(vs) * 5, 5, 8) = KeySize
  BY <1>1, <1>2, <1>3, <1>4 DEF Groups
<1> DEFINE BitAt(k) == IF k < Len(vs) * 5 THEN (vs[(k \div 5) + 1] \div 2^(4 - (k % 5))) % 2 ELSE 0
<1>6. convert_bits(5, 8, vs) = [j \in 1..KeySize |-> Number({b \in 0..7 : BitAt(j * 8 - 1 - b) = 1})]
  <2>1. 5 - 1 = 4 /\ 8 - 1 = 7
    OBVIOUS
  <2> QED BY <1>5, <2>1, Zenon DEF convert_bits
<1>7. ASSUME NEW j \in 1..KeySize, NEW b \in 0..7
      PROVE  BitAt(j * 8 - 1 - b) = 1 <=> (key[j] \div 2^b) % 2 = 1
  <2>1. PICK k \in Nat : k = j * 8 - 1 - b
    BY <1>1
  <2>2. PICK g : g = (k \div 5) + 1
    OBVIOUS
  <2>3. PICK c : c = 4 - (k % 5)
    OBVIOUS
  <2>4. k < KeySize * 8
    BY <1>1, <2>1
  <2>5. k < Len(vs) * 5 /\ g \in 1..FivesOfKey
    BY <1>1, <1>2, <1>3, <1>4, <2>2, <2>4
  <2>6. c \in 0..4 /\ (g * 5 - 1) - c = k
    BY <2>2, <2>3
  <2>7. (k \div 8) + 1 = j /\ 7 - (k % 8) = b
    BY <1>1, <2>1
  <2>8. BitAt(k) = (vs[g] \div 2^c) % 2
    BY <2>2, <2>3, <2>5, Zenon
  <2>9. (vs[g] \div 2^c) % 2 = 1 <=> KeyBit(key, k) = 1
    BY <1>2, <2>5, <2>6, GroupBits, Zenon
  <2>10. KeyBit(key, k) = (key[j] \div 2^b) % 2
    BY <2>4, <2>7, Zenon DEF KeyBit
  <2> QED BY <2>1, <2>8, <2>9, <2>10, Zenon
<1> HIDE DEF BitAt
<1>8. ASSUME NEW j \in 1..KeySize PROVE Number({b \in 0..7 : BitAt(j * 8 - 1 - b) = 1}) = key[j]
  <2>1. {b \in 0..7 : BitAt(j * 8 - 1 - b) = 1} = {b \in 0..7 : (key[j] \div 2^b) % 2 = 1}
    BY <1>7, Zenon
  <2>2. key[j] \in 0..255
    BY <1>1
  <2> QED BY <2>1, <2>2, ByteBits, Zenon
<1>9. convert_bits(5, 8, vs) = [j \in 1..KeySize |-> key[j]]
  BY <1>6, <1>8, Zenon
<1>10. [j \in 1..KeySize |-> key[j]] = key
  BY <1>1
<1> QED BY <1>2, <1>9, <1>10, Zenon

\* A character in capitals, and the character it was.
IsCapital(d, c) ==
  /\ d = 49 <=> c = 49
  /\ d \in 33..126 /\ d \notin Lowercase
  /\ (IF d \in Uppercase THEN d + 32 ELSE d) = c
  /\ (IF c \in Uppercase THEN c + 32 ELSE c) = c

\* A text in capitals, and the text it was.
IsShouted(u, s, n) ==
  Len(u) = n /\ DOMAIN u = 1..n /\ \A i \in 1..n : IsCapital(u[i], s[i])

LEMMA ShoutedIs ==
  ASSUME NEW n \in Nat, NEW s \in Seq(Plain7), Len(s) = n
  PROVE  IsShouted(ToUpper(s), s, n)
<1>1. \A c \in Plain7 : IsCapital(IF c \in Lowercase THEN c - 32 ELSE c, c)
  BY DEF Plain7, Lowercase, Uppercase, IsCapital
<1>2. \A i \in 1..n : s[i] \in Plain7
  BY ElementOfSeq
<1>3. PICK u : u = ToUpper(s)
  OBVIOUS
<1>4. u = [i \in 1..n |-> IF s[i] \in Lowercase THEN s[i] - 32 ELSE s[i]]
  <2>1. DOMAIN s = 1..n
    OBVIOUS
  <2> QED BY <1>3, <2>1, Zenon DEF ToUpper
<1>5. Len(u) = n /\ DOMAIN u = 1..n
  BY <1>4
<1>6. \A i \in 1..n : u[i] = IF s[i] \in Lowercase THEN s[i] - 32 ELSE s[i]
  BY <1>4
<1>7. \A i \in 1..n : IsCapital(u[i], s[i])
  BY <1>1, <1>2, <1>6, Zenon
<1> QED BY <1>3, <1>5, <1>7, Zenon DEF IsShouted

\* Pieces of a text in capitals, in lower case again.
AreAlike(y, x) ==
  ToLower(y) = ToLower(x) /\ DOMAIN y = DOMAIN x /\ Len(y) = Len(x)

LEMMA PiecesAlike ==
  ASSUME NEW n \in Nat, NEW s \in Seq(Plain7), Len(s) = n, NEW u, IsShouted(u, s, n),
         NEW a \in Nat, NEW b \in Nat, a >= 1, b <= n
  PROVE  AreAlike(SubSeq(u, a, b), SubSeq(s, a, b))
<1>1. PICK l : l = IF a <= b THEN (b - a) + 1 ELSE 0
  OBVIOUS
<1>2. l \in Nat /\ \A i \in 1..l : (a + i) - 1 \in 1..n
  BY <1>1
<1>3. PICK x : x = SubSeq(s, a, b)
  OBVIOUS
<1>4. x = [i \in 1..l |-> s[(a + i) - 1]]
  BY <1>1, <1>3
<1>5. PICK y : y = SubSeq(u, a, b)
  OBVIOUS
<1>6. y = [i \in 1..l |-> u[(a + i) - 1]]
  BY <1>1, <1>5
<1>7. \A i \in 1..l : IsCapital(y[i], x[i])
  <2>1. \A i \in 1..l : IsCapital(u[(a + i) - 1], s[(a + i) - 1])
    BY <1>2, Zenon DEF IsShouted
  <2> QED BY <1>4, <1>6, <2>1, Zenon
<1>8. /\ DOMAIN x = 1..l /\ DOMAIN y = 1..l /\ x = [i \in 1..l |-> x[i]]
      /\ Len(x) = l /\ Len(y) = l
  BY <1>2, <1>4, <1>6
<1>9. /\ \A i \in 1..l : (IF y[i] \in Uppercase THEN y[i] + 32 ELSE y[i]) = x[i]
      /\ \A i \in 1..l : (IF x[i] \in Uppercase THEN x[i] + 32 ELSE x[i]) = x[i]
  BY <1>7, Zenon DEF IsCapital
<1>10. ToLower(y) = x /\ ToLower(x) = x
  BY <1>8, <1>9, Zenon DEF ToLower
<1> QED BY <1>3, <1>5, <1>8, <1>10, Zenon DEF AreAlike

CharsetPlaces(low, places) == [i \in places |-> (CHOOSE v \in 0..31 : charset[v + 1] = low[i])]

LEMMA AlikeReads ==
  ASSUME NEW y, NEW x, AreAlike(y, x)
  PROVE  FromCharset(y) = FromCharset(x)
<1>1. \A z : FromCharset(z) = CharsetPlaces(ToLower(z), DOMAIN z)
  BY Zenon DEF FromCharset, CharsetPlaces
<1> QED BY <1>1, Zenon DEF AreAlike

LEMMA CapitalsRead ==
  ASSUME NEW n \in Nat, NEW s \in Seq(Plain7), Len(s) = n, decode(s).st = "ok"
  PROVE  decode(ToUpper(s)) = decode(s) /\ ToUpper(ToUpper(s)) = ToUpper(s)
<1>1. PICK u : u = ToUpper(s) /\ IsShouted(u, s, n)
  BY ShoutedIs, Zenon
<1>2. Len(u) = n /\ DOMAIN u = 1..n /\ DOMAIN s = 1..n
  BY <1>1 DEF IsShouted
<1>3. \A i \in 1..n : /\ u[i] = 49 <=> s[i] = 49
                      /\ u[i] \in 33..126 /\ u[i] \notin Lowercase
  BY <1>1, Zenon DEF IsShouted, IsCapital
<1>4. FindSeparator(u) = FindSeparator(s) /\ (Separator \in ToSet(u) <=> Separator \in ToSet(s))
  <2>1. {i \in DOMAIN u : u[i] = Separator} = {i \in DOMAIN s : s[i] = Separator}
    BY <1>2, <1>3 DEF Separator
  <2>2. Separator \in ToSet(u) <=> Separator \in ToSet(s)
    BY <1>2, <1>3 DEF ToSet, Separator
  <2> QED BY <2>1, <2>2, Zenon DEF FindSeparator
<1>5. PICK p : p = FindSeparator(s)
  OBVIOUS
<1>6. Readable(s)
  BY DEF decode, Fails
<1>7. WasDecoded(s, p, decode(s))
  BY <1>5, DecodedIs, Zenon
<1>8. /\ p + 1 \in Nat /\ p + 1 >= 1 /\ n <= n
      /\ 1 \in Nat /\ 1 >= 1 /\ p - 1 \in Nat /\ p - 1 <= n
  BY <1>7 DEF WasDecoded
<1>9. ToLower(SubSeq(u, 1, p - 1)) = ToLower(SubSeq(s, 1, p - 1))
  <2>1. AreAlike(SubSeq(u, 1, p - 1), SubSeq(s, 1, p - 1))
    BY <1>1, <1>8, PiecesAlike, Zenon
  <2> QED BY <2>1, Zenon DEF AreAlike
<1>10. PICK d, e : d = DataChars(s) /\ e = DataChars(u)
  OBVIOUS
<1>11. d = SubSeq(s, p + 1, n) /\ e = SubSeq(u, p + 1, n)
  BY <1>2, <1>4, <1>5, <1>10, Zenon DEF DataChars
<1>12. AreAlike(e, d)
  BY <1>1, <1>8, <1>11, PiecesAlike, Zenon
<1>13. FromCharset(e) = FromCharset(d) /\ ToLower(e) = ToLower(d) /\ Len(e) = Len(d)
  BY <1>12, AlikeReads, Zenon DEF AreAlike
<1>14. ToUpper(u) = u
  <2>1. u = [i \in 1..n |-> u[i]]
    BY <1>1, <1>2 DEF ToUpper
  <2> QED BY <1>2, <1>3, <2>1, Zenon DEF ToUpper
<1>15. ToSet(u) \subseteq 33..126
  <2>1. PICK V : V = 33..126
    OBVIOUS
  <2>2. \A i \in 1..n : u[i] \in V
    BY <1>3, <2>1, Zenon
  <2>3. ToSet(u) \subseteq V
    BY <1>2, <2>2 DEF ToSet
  <2> QED BY <2>1, <2>3
<1>16. Readable(u)
  <2>1. WellFormed(u)
    BY <1>2, <1>4, <1>6, <1>14, <1>15, ZenonT(40) DEF Readable, WellFormed
  <2> QED BY <1>4, <1>6, <1>10, <1>13, <2>1, Zenon DEF Readable
<1>17. decode(u) = decode(s)
  BY <1>4, <1>5, <1>6, <1>9, <1>10, <1>13, <1>16, Zenon DEF decode
<1> QED BY <1>1, <1>14, <1>17, Zenon

\* What was sent, as it is or in capitals, is read as what it is.
Sent == to_bech32(sent.key, sent.type)

LEMMA SentDecodes ==
  ASSUME NEW key \in Keys, NEW type \in Types
  PROVE  LET s == to_bech32(key, type)
         IN /\ decode(s) = Decoded(type, convert_bits(8, 5, key))
            /\ decode(ToUpper(s)) = decode(s) /\ ToUpper(ToUpper(s)) = ToUpper(s)
<1>1. PICK vs \in Seq(Fives) : vs = convert_bits(8, 5, key) /\ Len(vs) = FivesOfKey
  BY KeyGroups, Zenon
<1>2. /\ type \in Seq(Plain7) /\ Len(type) \in Nat /\ Len(type) >= 1
      /\ FivesOfKey \in Nat /\ Len(type) + FivesOfKey <= 83
  BY TypeIs, Zenon
<1>3. Bech32m \in KnownConstants
  BY DEF KnownConstants
<1>4. PICK s : s = to_bech32(key, type)
  OBVIOUS
<1>5. IsEncoded(s, Len(type), FivesOfKey, type, vs)
  BY <1>1, <1>3, <1>4, SentReads, Zenon DEF to_bech32
<1>6. decode(s) = Decoded(type, vs)
  BY <1>5, Zenon DEF IsEncoded
<1>7. PICK n \in Nat : n = Len(type) + 1 + (FivesOfKey + 6)
  BY <1>2
<1>8. s \in Seq(Plain7) /\ Len(s) = n
  BY <1>5, <1>7, Zenon DEF IsEncoded
<1>9. decode(s).st = "ok"
  BY <1>6 DEF Decoded
<1>10. decode(ToUpper(s)) = decode(s) /\ ToUpper(ToUpper(s)) = ToUpper(s)
  BY <1>8, <1>9, CapitalsRead, Zenon
<1> QED BY <1>1, <1>4, <1>6, <1>10, Zenon

\* What a reader of a type makes of a text that decodes.
ReadingOf(asked, key, type) ==
  IF asked = type THEN [st |-> "read", key |-> key, type |-> asked]
  ELSE [st |-> "refused", key |-> None, type |-> asked]

LEMMA ReadsAs ==
  ASSUME NEW key \in Keys, NEW type, NEW asked, NEW unset, NEW s,
         decode(s) = Decoded(type, convert_bits(8, 5, key))
  PROVE  from_bech32(s, asked, unset) = ReadingOf(asked, key, type)
<1>1. PICK r : r = decode(s)
  OBVIOUS
<1>2. PICK vs : vs = convert_bits(8, 5, key)
  OBVIOUS
<1>3. r.st = "ok" /\ r.hrp = type /\ r.dp = vs
  <2>1. r = Decoded(type, vs)
    BY <1>1, <1>2, Zenon
  <2> QED BY <2>1 DEF Decoded
<1>4. KeySize \in Nat /\ key \in [1..KeySize -> 0..255]
  BY KeyTextAssumption
<1>5. Filled(key, unset) = key
  <2>1. Len(key) = KeySize /\ \A i \in 1..KeySize : i <= KeySize
    BY <1>4
  <2>2. Filled(key, unset) = [i \in 1..KeySize |-> key[i]]
    BY <2>1, Zenon DEF Filled
  <2>3. [i \in 1..KeySize |-> key[i]] = key
    BY <1>4
  <2> QED BY <2>2, <2>3, Zenon
<1>6. Filled(convert_bits(5, 8, r.dp), unset) = key
  BY <1>2, <1>3, <1>5, KeyBack, Zenon
<1>7. CASE asked = type
  <2>1. from_bech32(s, asked, unset)
          = [st |-> "read", key |-> Filled(convert_bits(5, 8, r.dp), unset), type |-> asked]
    BY <1>1, <1>3, <1>7 DEF from_bech32
  <2> QED BY <1>6, <1>7, <2>1, Zenon DEF ReadingOf
<1>8. CASE asked # type
  BY <1>1, <1>3, <1>8 DEF from_bech32, ReadingOf
<1> QED BY <1>7, <1>8, Zenon

KeysInv ==
  /\ KeyTextTypeOK
  /\ slips \in Nat
  /\ sent = None => out = NotRead /\ slips = 0
  /\ slips = 0 /\ sent # None => text \in {Sent, ToUpper(Sent)}
  /\ KeysComeBack

LEMMA KeysInvHolds == Spec => []KeysInv
<1>1. Init => KeysInv
  BY DEF Init, KeyTextInit, KeysInv, KeyTextTypeOK, KeysComeBack, NotRead
<1>2. KeyTextTypeOK /\ KeyTextTypeOK' /\ KeysInv /\ [Next]_codecVars => KeysInv'
  <2> SUFFICES ASSUME KeyTextTypeOK, KeyTextTypeOK', KeysInv, [Next]_codecVars PROVE KeysInv'
    OBVIOUS
  <2>0. NotRead.st = "unread"
    BY DEF NotRead
  <2>1. ASSUME NEW key \in Keys, NEW type \in Types, Write(key, type) PROVE KeysInv'
    <3>1. /\ sent = None /\ out = NotRead /\ slips = 0 /\ out' = out /\ slips' = slips
          /\ sent' = [key |-> key, type |-> type] /\ text' = to_bech32(key, type)
      BY <2>1, Zenon DEF Write, KeysInv
    <3>2. sent'.key = key /\ sent'.type = type
      BY <3>1
    <3>3. text' = Sent'
      BY <3>1, <3>2, Zenon DEF Sent
    <3>4. KeysComeBack'
      BY <2>0, <3>1, Zenon DEF KeysComeBack
    <3>5. slips' \in Nat
      BY <3>1, Zenon DEF KeysInv
    <3> QED BY <3>1, <3>3, <3>4, <3>5, Zenon DEF KeysInv
  <2>2. ASSUME Slip PROVE KeysInv'
    <3>1. sent # None /\ out = NotRead /\ sent' = sent /\ out' = out /\ slips' = slips + 1
      BY <2>2, Zenon DEF Slip, OnItsWay
    <3>2. slips' \in Nat /\ slips' # 0
      BY <3>1 DEF KeysInv
    <3>3. KeysComeBack'
      BY <2>0, <3>1, Zenon DEF KeysComeBack
    <3> QED BY <3>1, <3>2, <3>3, Zenon DEF KeysInv
  <2>3. ASSUME Shout PROVE KeysInv'
    <3>1. /\ sent # None /\ out = NotRead /\ sent' = sent /\ out' = out
          /\ slips' = slips /\ text' = ToUpper(text)
      BY <2>3, Zenon DEF Shout, OnItsWay
    <3>2. KeysComeBack'
      BY <2>0, <3>1, Zenon DEF KeysComeBack
    <3>3. sent.key \in Keys /\ sent.type \in Types
      BY <3>1 DEF KeyTextTypeOK
    <3>4. ToUpper(ToUpper(Sent)) = ToUpper(Sent)
      BY <3>3, SentDecodes, Zenon DEF Sent
    <3>5. Sent' = Sent
      BY <3>1, Zenon DEF Sent
    <3>6. slips = 0 => text' \in {Sent, ToUpper(Sent)}
      <4>1. slips = 0 => text = Sent \/ text = ToUpper(Sent)
        BY <3>1 DEF KeysInv
      <4> QED BY <3>1, <3>4, <4>1, Zenon
    <3>7. slips' \in Nat
      BY <3>1, Zenon DEF KeysInv
    <3> QED BY <3>1, <3>2, <3>5, <3>6, <3>7, Zenon DEF KeysInv
  <2>4. ASSUME NEW type \in Types, Read(type) PROVE KeysInv'
    <3>1. PICK unset \in Unset :
            /\ sent # None /\ out' = from_bech32(text, type, unset)
            /\ sent' = sent /\ text' = text /\ slips' = slips
      BY <2>4, Zenon DEF Read
    <3>2. sent.key \in Keys /\ sent.type \in Types
      BY <3>1 DEF KeyTextTypeOK
    <3>3. Sent' = Sent
      BY <3>1, Zenon DEF Sent
    <3>4. ASSUME slips = 0
          PROVE  out' = ReadingOf(type, sent.key, sent.type)
      <4>1. text = Sent \/ text = ToUpper(Sent)
        BY <3>1, <3>4 DEF KeysInv
      <4>2. decode(text) = Decoded(sent.type, convert_bits(8, 5, sent.key))
        BY <3>2, <4>1, SentDecodes, Zenon DEF Sent
      <4>3. PICK key \in Keys, of \in Types : key = sent.key /\ of = sent.type
        BY <3>2, Zenon
      <4>4. from_bech32(text, type, unset) = ReadingOf(type, key, of)
        <5>1. decode(text) = Decoded(of, convert_bits(8, 5, key))
          BY <4>2, <4>3, Zenon
        <5> QED BY <5>1, ReadsAs, Zenon
      <4> QED BY <3>1, <4>3, <4>4, Zenon
    <3>5. KeysComeBack'
      <4> SUFFICES ASSUME slips = 0
                   PROVE  IF out'.type = sent'.type THEN out'.st = "read" /\ out'.key = sent'.key
                          ELSE out'.st = "refused"
        BY <3>1, Zenon DEF KeysComeBack
      <4>1. CASE type = sent.type
        <5>1. out' = [st |-> "read", key |-> sent.key, type |-> type]
          BY <3>4, <4>1, Zenon DEF ReadingOf
        <5>2. out'.st = "read" /\ out'.key = sent.key /\ out'.type = type
          BY <5>1
        <5> QED BY <3>1, <4>1, <5>2, Zenon
      <4>2. CASE type # sent.type
        <5>1. out' = [st |-> "refused", key |-> None, type |-> type]
          BY <3>4, <4>2, Zenon DEF ReadingOf
        <5>2. out'.st = "refused" /\ out'.type = type
          BY <5>1
        <5> QED BY <3>1, <4>2, <5>2, Zenon
      <4> QED BY <4>1, <4>2, Zenon
    <3> QED BY <3>1, <3>3, <3>5, Zenon DEF KeysInv
  <2>5. ASSUME UNCHANGED keyVars PROVE KeysInv'
    <3>1. sent' = sent /\ text' = text /\ slips' = slips /\ out' = out
      BY <2>5 DEF keyVars
    <3>2. Sent' = Sent /\ (KeysComeBack' <=> KeysComeBack)
      BY <3>1, Zenon DEF Sent, KeysComeBack
    <3> QED BY <3>1, <3>2, Zenon DEF KeysInv
  <2>6. CASE KeyTextNext
    BY <2>1, <2>2, <2>3, <2>4, <2>6, Zenon DEF KeyTextNext, Mistype, Swap, Double, Leave
  <2>7. KeyTextNext \/ UNCHANGED keyVars
    BY Zenon DEF Next, codecVars
  <2> QED BY <2>5, <2>6, <2>7, Zenon
<1> QED BY <1>1, <1>2, KeysTyped, PTL DEF Spec

\* Every key of any size comes back from the text it was written as, in either case of the
\* letters, and from_bech32 fills every byte of it, whatever was in memory before.
THEOREM KeysReturn == Spec => []KeysComeBack
<1>1. KeysInv => KeysComeBack
  BY DEF KeysInv
<1> QED BY <1>1, KeysInvHolds, PTL

-----------------------------------------------------------------------------
(* Slips in a key's text.  polymod is linear, so what it returns for two   *)
(* texts differs by what their groups differ in, each difference so many   *)
(* turns later (Late).  A turn without a difference loses nothing, so one  *)
(* difference never dies out; that two do not meet, nor become the         *)
(* difference of the two constants, is TwoWrongShow.                       *)

\* The lowest five bits of the generators.
LEMMA GeneratorsBegin ==
  /\ 0 \notin Generator[1] /\ 1 \in Generator[1] /\ 2 \notin Generator[1] /\ 3 \notin Generator[1] /\ 4 \in Generator[1]
  /\ 0 \in Generator[2] /\ 1 \notin Generator[2] /\ 2 \in Generator[2] /\ 3 \in Generator[2] /\ 4 \notin Generator[2]
  /\ 0 \notin Generator[3] /\ 1 \in Generator[3] /\ 2 \notin Generator[3] /\ 3 \in Generator[3] /\ 4 \in Generator[3]
  /\ 0 \in Generator[4] /\ 1 \notin Generator[4] /\ 2 \in Generator[4] /\ 3 \in Generator[4] /\ 4 \in Generator[4]
  /\ 0 \in Generator[5] /\ 1 \in Generator[5] /\ 2 \notin Generator[5] /\ 3 \notin Generator[5] /\ 4 \in Generator[5]
<1>1. \A n : \A b \in 0..29 : b \in Bits(n, 30) <=> (n \div 2^b) % 2 = 1
  BY DEF Bits
<1>2. 2^0 = 1 /\ 2^1 = 2 /\ 2^2 = 4 /\ 2^3 = 8 /\ 2^4 = 16
  OBVIOUS
<1>3. \A n : /\ 0 \in Bits(n, 30) <=> (n \div 1) % 2 = 1
             /\ 1 \in Bits(n, 30) <=> (n \div 2) % 2 = 1
             /\ 2 \in Bits(n, 30) <=> (n \div 4) % 2 = 1
             /\ 3 \in Bits(n, 30) <=> (n \div 8) % 2 = 1
             /\ 4 \in Bits(n, 30) <=> (n \div 16) % 2 = 1
  <2>1. 0 \in 0..29 /\ 1 \in 0..29 /\ 2 \in 0..29 /\ 3 \in 0..29 /\ 4 \in 0..29
    OBVIOUS
  <2> QED BY <1>1, <1>2, <2>1, SMT
<1>4. /\ Generator[1] = Bits(\h3b6a57b2, 30) /\ Generator[2] = Bits(\h26508e6d, 30)
      /\ Generator[3] = Bits(\h1ea119fa, 30) /\ Generator[4] = Bits(\h3d4233dd, 30)
      /\ Generator[5] = Bits(\h2a1462b3, 30)
  BY DEF Generator
<1> QED BY <1>3, <1>4

\* A turn of the loop loses nothing.
LEMMA FeedKeeps ==
  ASSUME NEW c \in Words30, Feed(c, 0) = {}
  PROVE  c = {}
<1> DEFINE T(i) == 24 + i \in c
<1>1. \A x : ~((((x \in Top(c, 1)) # (x \in Top(c, 2))) # ((x \in Top(c, 3)) # (x \in Top(c, 4))))
               # ((x \in Top(c, 5)) # ((x \in Shifted(c)) # (x \in Bits(0, 5)))))
  <2> TAKE x
  <2>1. x \notin Xor(Xor(Xor(Top(c, 1), Top(c, 2)), Xor(Top(c, 3), Top(c, 4))),
                     Xor(Top(c, 5), Xor(Shifted(c), Bits(0, 5))))
    BY FeedIs
  <2> QED BY <2>1, XorIs
<1>2. \A x : x \notin Bits(0, 5)
  BY NoBits
<1>3. \A x, i : x \in Top(c, i) <=> T(i) /\ x \in Generator[i]
  BY DEF Top
<1>4. \A x \in 0..4 : x \notin Shifted(c)
  BY ShiftedIs
<1> HIDE DEF T
<1>5. \A x : ~((((T(1) /\ x \in Generator[1]) # (T(2) /\ x \in Generator[2]))
                # ((T(3) /\ x \in Generator[3]) # (T(4) /\ x \in Generator[4])))
               # ((T(5) /\ x \in Generator[5]) # (x \in Shifted(c))))
  BY <1>1, <1>2, <1>3
<1>6. ~T(1) /\ ~T(2) /\ ~T(3) /\ ~T(4) /\ ~T(5)
  <2>1. 0 \in 0..4 /\ 1 \in 0..4 /\ 2 \in 0..4 /\ 3 \in 0..4 /\ 4 \in 0..4
    OBVIOUS
  <2>2. 0 \notin Shifted(c) /\ 1 \notin Shifted(c) /\ 2 \notin Shifted(c) /\ 3 \notin Shifted(c) /\ 4 \notin Shifted(c)
    BY <1>4, <2>1, Zenon
  <2>3. T(2) <=> T(4)
    BY <1>5, <2>2, GeneratorsBegin
  <2>4. ~T(5)
    BY <1>5, <2>2, <2>3, GeneratorsBegin
  <2>5. ~T(3)
    BY <1>5, <2>2, <2>3, GeneratorsBegin
  <2>6. ~T(1)
    BY <1>5, <2>2, <2>4, <2>5, GeneratorsBegin
  <2>7. ~T(4)
    BY <1>5, <2>2, <2>3, <2>4, <2>5, <2>6, GeneratorsBegin
  <2> QED BY <2>3, <2>4, <2>5, <2>6, <2>7
<1>7. 25 \notin c /\ 26 \notin c /\ 27 \notin c /\ 28 \notin c /\ 29 \notin c
  BY <1>6 DEF T
<1>8. \A x : x \notin Shifted(c)
  BY <1>5, <1>6
<1>9. ASSUME NEW b \in c PROVE FALSE
  <2>1. b \in 0..29
    BY DEF Words30
  <2>2. b \in 0..24
    BY <1>7, <2>1
  <2>3. b + 5 \in 5..29 /\ (b + 5) - 5 = b
    BY <2>2
  <2> QED BY <1>8, <2>3, ShiftedIs
<1> QED BY <1>9

\* Steps made again and again.
Repeats(f, b, step, n) == f = [k \in 0..n |-> IF k = 0 THEN b ELSE step[f[k - 1]]]

LEMMA IterationExists ==
  ASSUME NEW D, NEW b \in D, NEW step \in [D -> D], NEW n \in Nat
  PROVE  \E f \in [0..n -> D] : Repeats(f, b, step, n)
<1> DEFINE Iterates(f, m) == /\ f \in [0..m -> D]
                             /\ f[0] = b
                             /\ \A k \in 1..m : f[k] = step[f[k - 1]]
           S == {m \in Nat : \E f : Iterates(f, m)}
<1>1. 0 \in S
  <2> DEFINE f == [k \in 0..0 |-> b]
  <2>1. 0 \in 0..0 /\ \A k \in 1..0 : FALSE
    OBVIOUS
  <2>2. Iterates(f, 0)
    BY <2>1
  <2> QED BY <2>2
<1>2. ASSUME NEW m \in Nat, m \in S PROVE m + 1 \in S
  <2>1. PICK f : Iterates(f, m)
    BY <1>2
  <2> DEFINE h == [k \in 0..(m + 1) |-> IF k = m + 1 THEN step[f[m]] ELSE f[k]]
  <2>2. /\ \A k \in 0..(m + 1) : k # m + 1 => k \in 0..m
        /\ m + 1 # 0 /\ m \in 0..m /\ m # m + 1 /\ m \in 0..(m + 1) /\ 0 \in 0..(m + 1) /\ m + 1 \in 0..(m + 1)
        /\ \A k \in 1..(m + 1) : k \in 0..(m + 1) /\ k - 1 \in 0..(m + 1) /\ k - 1 # m + 1
        /\ \A k \in 1..(m + 1) : k # m + 1 => k \in 1..m
        /\ (m + 1) - 1 = m
    OBVIOUS
  <2>3. \A k \in 0..(m + 1) : h[k] = IF k = m + 1 THEN step[f[m]] ELSE f[k]
    OBVIOUS
  <2>4. (\A k \in 0..m : f[k] \in D) /\ step[f[m]] \in D
    BY <2>1, <2>2
  <2>5. h \in [0..(m + 1) -> D]
    BY <2>2, <2>4
  <2> HIDE DEF h
  <2>6. h[0] = b
    BY <2>1, <2>2, <2>3
  <2>7. ASSUME NEW k \in 1..(m + 1) PROVE h[k] = step[h[k - 1]]
    <3>1. CASE k = m + 1
      BY <2>2, <2>3, <3>1
    <3>2. CASE k # m + 1
      BY <2>1, <2>2, <2>3, <3>2
    <3> QED BY <3>1, <3>2
  <2>8. Iterates(h, m + 1)
    BY <2>5, <2>6, <2>7
  <2> HIDE DEF Iterates
  <2> QED BY <2>8
<1> HIDE DEF S
<1>3. n \in S
  BY <1>1, <1>2, AllNaturals
<1>4. PICK f : Iterates(f, n)
  BY <1>3 DEF S
<1>5. \A k \in 0..n : k # 0 => k \in 1..n
  OBVIOUS
<1>6. \A k \in 0..n : f[k] = IF k = 0 THEN b ELSE step[f[k - 1]]
  BY <1>4, <1>5
<1> QED BY <1>4, <1>6 DEF Repeats

\* Late turn by turn.
LEMMA LateSteps ==
  ASSUME NEW w \in Words30
  PROVE  /\ \A p \in 0..90 : Late(w)[p] \in Words30
         /\ Late(w)[0] = w
         /\ \A p \in 0..89 : Late(w)[p + 1] = Feed(Late(w)[p], 0)
<1> DEFINE step == [x \in Words30 |-> Feed(x, 0)]
           Solves(f) == f = [p \in 0..90 |-> IF p = 0 THEN w ELSE Feed(f[p - 1], 0)]
<1>1. step \in [Words30 -> Words30] /\ \A x \in Words30 : step[x] = Feed(x, 0)
  BY FeedType
<1>2. PICK f \in [0..90 -> Words30] : Repeats(f, w, step, 90)
  <2>1. 90 \in Nat
    OBVIOUS
  <2> HIDE DEF step
  <2> QED BY <1>1, <2>1, IterationExists, Zenon
<1> HIDE DEF step
<1>3. \A p \in 0..90 : p # 0 => p - 1 \in 0..90
  OBVIOUS
<1>4. Solves(f)
  BY <1>1, <1>2, <1>3 DEF Repeats
<1>5. Late(w) = CHOOSE g : Solves(g)
  BY DEF Late
<1> HIDE DEF Solves
<1>6. Solves(Late(w))
  BY <1>4, <1>5, Zenon
<1>7. PICK g : g = Late(w)
  OBVIOUS
<1>8. g = [p \in 0..90 |-> IF p = 0 THEN w ELSE Feed(g[p - 1], 0)]
  BY <1>6, <1>7, Zenon DEF Solves
<1>9. g[0] = w /\ \A p \in 0..89 : g[p + 1] = Feed(g[p], 0)
  <2>1. 0 \in 0..90 /\ \A p \in 0..89 : p + 1 \in 0..90 /\ p + 1 # 0 /\ (p + 1) - 1 = p
    OBVIOUS
  <2> QED BY <1>8, <2>1, Zenon
<1>10. \A p \in 0..90 : g[p] \in Words30
  <2> DEFINE S == {p \in Nat : p <= 90 => g[p] \in Words30}
  <2>1. 0 \in S
    BY <1>9
  <2>2. ASSUME NEW p \in Nat, p \in S PROVE p + 1 \in S
    <3> SUFFICES ASSUME p + 1 <= 90 PROVE g[p + 1] \in Words30
      OBVIOUS
    <3>1. p <= 90 /\ p \in 0..89
      OBVIOUS
    <3>2. g[p] \in Words30
      BY <2>2, <3>1
    <3> QED BY <1>9, <3>1, <3>2, FeedType
  <2> HIDE DEF S
  <2>3. \A p \in Nat : p \in S
    BY <2>1, <2>2, AllNaturals
  <2> QED BY <2>3 DEF S
<1> QED BY <1>7, <1>9, <1>10, Zenon

\* From nothing, a turn makes the value itself.
LEMMA EmptyFeeds == \A v : Feed({}, v) = Bits(v, 5)
<1>1. \A i : Top({}, i) = {}
  BY DEF Top
<1>2. Shifted({}) = {}
  BY DEF Shifted
<1>3. \A s : Xor({}, s) = s
  BY DEF Xor, SymDiff
<1>4. TAKE v
<1>5. Feed({}, v) = Xor(Xor(Xor({}, {}), Xor({}, {})), Xor({}, Xor({}, Bits(v, 5))))
  BY <1>1, <1>2, FeedIs, Zenon
<1> QED BY <1>3, <1>5, Zenon

\* A value is one more difference.
LEMMA FeedSplits ==
  ASSUME NEW c \in Words30, NEW v
  PROVE  Feed(c, v) = Xor(Feed(c, 0), Bits(v, 5))
<1>1. {} \in Words30 /\ Xor(c, {}) = c
  BY XorTwice DEF Words30
<1>2. Feed(Xor(c, {}), v) = Xor(Feed(c, 0), Feed({}, v))
  BY <1>1, FeedLinear
<1> QED BY <1>1, <1>2, EmptyFeeds, Zenon

LEMMA UpTo90 == \A p \in Nat : p + 1 <= 90 => p <= 90 /\ p \in 0..89 /\ p \in 0..90
OBVIOUS

\* Differences go their ways apart.
LEMMA LateLinear ==
  ASSUME NEW a \in Words30, NEW b \in Words30
  PROVE  \A p \in 0..90 : Late(Xor(a, b))[p] = Xor(Late(a)[p], Late(b)[p])
<1> DEFINE S == {p \in Nat : p <= 90 => Late(Xor(a, b))[p] = Xor(Late(a)[p], Late(b)[p])}
<1>1. Xor(a, b) \in Words30
  BY XorTwice, Zenon
<1>2. 0 \in S
  BY <1>1, LateSteps, Zenon
<1>3. ASSUME NEW p \in Nat, p \in S PROVE p + 1 \in S
  <2> SUFFICES ASSUME p + 1 <= 90 PROVE Late(Xor(a, b))[p + 1] = Xor(Late(a)[p + 1], Late(b)[p + 1])
    OBVIOUS
  <2>1. p <= 90 /\ p \in 0..89 /\ p \in 0..90
    BY UpTo90, SMT
  <2>2. Late(Xor(a, b))[p] = Xor(Late(a)[p], Late(b)[p])
    BY <1>3, <2>1
  <2>3. Late(a)[p] \in Words30 /\ Late(b)[p] \in Words30
    BY <2>1, LateSteps, Zenon
  <2>4. Feed(Xor(Late(a)[p], Late(b)[p]), 0) = Xor(Feed(Late(a)[p], 0), Feed(Late(b)[p], 0))
    BY <2>3, FeedLinear
  <2>5. /\ Late(Xor(a, b))[p + 1] = Feed(Late(Xor(a, b))[p], 0)
        /\ Late(a)[p + 1] = Feed(Late(a)[p], 0) /\ Late(b)[p + 1] = Feed(Late(b)[p], 0)
    BY <1>1, <2>1, LateSteps, SMT
  <2> QED BY <2>2, <2>4, <2>5, Zenon
<1> HIDE DEF S
<1>4. \A p \in Nat : p \in S
  BY <1>2, <1>3, AllNaturals
<1> QED BY <1>4 DEF S

\* A difference never dies out.
LEMMA LateKeeps ==
  ASSUME NEW w \in Words30, w # {}
  PROVE  \A p \in 0..90 : Late(w)[p] # {}
<1> DEFINE S == {p \in Nat : p <= 90 => Late(w)[p] # {}}
<1>2. 0 \in S
  BY LateSteps, Zenon
<1>3. ASSUME NEW p \in Nat, p \in S PROVE p + 1 \in S
  <2> SUFFICES ASSUME p + 1 <= 90 PROVE Late(w)[p + 1] # {}
    OBVIOUS
  <2>1. p <= 90 /\ p \in 0..89 /\ p \in 0..90
    BY UpTo90, SMT
  <2>2. Late(w)[p] # {}
    BY <1>3, <2>1
  <2>3. Late(w)[p] \in Words30 /\ Late(w)[p + 1] = Feed(Late(w)[p], 0)
    BY <2>1, LateSteps, Zenon
  <2> QED BY <2>2, <2>3, FeedKeeps, Zenon
<1> HIDE DEF S
<1>4. \A p \in Nat : p \in S
  BY <1>2, <1>3, AllNaturals
<1> QED BY <1>4 DEF S

\* Turns without a difference.
Quiet(D, from, to) == \A q \in from..(to - 1) : D[q + 1] = Feed(D[q], 0)

LEMMA QuietTurns ==
  ASSUME NEW m \in 0..90, NEW D \in [0..m -> Words30], NEW from \in 0..m, NEW to \in from..m,
         Quiet(D, from, to)
  PROVE  D[to] = Late(D[from])[to - from]
<1> DEFINE S == {p \in Nat : from + p <= to => D[from + p] = Late(D[from])[p]}
<1>1. D[from] \in Words30 /\ from + 0 = from
  OBVIOUS
<1>2. 0 \in S
  BY <1>1, LateSteps, Zenon
<1>3. ASSUME NEW p \in Nat, p \in S PROVE p + 1 \in S
  <2> SUFFICES ASSUME from + (p + 1) <= to PROVE D[from + (p + 1)] = Late(D[from])[p + 1]
    OBVIOUS
  <2>1. /\ from + p <= to /\ p \in 0..89 /\ from + p \in from..(to - 1) /\ from + (p + 1) = (from + p) + 1
    OBVIOUS
  <2>2. D[from + p] = Late(D[from])[p]
    BY <1>3, <2>1
  <2>3. D[(from + p) + 1] = Feed(D[from + p], 0)
    BY <2>1 DEF Quiet
  <2>4. Late(D[from])[p + 1] = Feed(Late(D[from])[p], 0)
    BY <1>1, <2>1, LateSteps, Zenon
  <2> QED BY <2>1, <2>2, <2>3, <2>4, Zenon
<1> HIDE DEF S
<1>4. \A p \in Nat : p \in S
  BY <1>2, <1>3, AllNaturals
<1>5. to - from \in Nat /\ from + (to - from) = to /\ from + (to - from) <= to
  OBVIOUS
<1>6. to - from \in S
  BY <1>4, <1>5
<1>7. D[from + (to - from)] = Late(D[from])[to - from]
  BY <1>5, <1>6 DEF S
<1> QED BY <1>5, <1>7, Zenon

\* Later and later again.
LEMMA LateOfLate ==
  ASSUME NEW w \in Words30, NEW p \in 0..90, NEW q \in 0..(90 - p)
  PROVE  Late(Late(w)[p])[q] = Late(w)[p + q]
<1>1. PICK D \in [0..90 -> Words30] : \A i \in 0..90 : D[i] = Late(w)[i]
  <2>1. \A i \in 0..90 : Late(w)[i] \in Words30
    BY LateSteps, Zenon
  <2> DEFINE E == [i \in 0..90 |-> Late(w)[i]]
  <2>2. E \in [0..90 -> Words30] /\ \A i \in 0..90 : E[i] = Late(w)[i]
    BY <2>1
  <2> HIDE DEF E
  <2> QED BY <2>2
<1>2. PICK to \in p..90 : to = p + q
  OBVIOUS
<1>3. Quiet(D, p, to)
  <2>1. \A i \in p..(to - 1) : i \in 0..89 /\ i \in 0..90 /\ i + 1 \in 0..90
    OBVIOUS
  <2>2. \A i \in 0..89 : Late(w)[i + 1] = Feed(Late(w)[i], 0)
    BY LateSteps, Zenon
  <2> QED BY <1>1, <2>1, <2>2, SMT DEF Quiet
<1>4. D[to] = Late(D[p])[to - p]
  <2>1. 90 \in 0..90
    OBVIOUS
  <2> QED BY <1>3, <2>1, QuietTurns, Zenon
<1>5. to - p = q /\ to \in 0..90
  BY <1>2
<1> QED BY <1>1, <1>2, <1>4, <1>5, Zenon

\* polymod's turns over a front and the groups behind it.
TurnsOver(T, x, a, n, m) ==
  /\ T \in [0..(n + m) -> Words30] /\ T[0] = {0}
  /\ \A k \in 0..(n - 1) : T[k + 1] = Feed(T[k], x[k + 1])
  /\ \A q \in 0..(m - 1) : T[(n + q) + 1] = Feed(T[n + q], a[q + 1])
  /\ polymod(x \o a) = T[n + m]

LEMMA TurnsOverBoth ==
  ASSUME NEW V, Fives \subseteq V, NEW n \in Nat, NEW x \in Seq(V), Len(x) = n,
         NEW m \in Nat, NEW a \in Seq(Fives), Len(a) = m
  PROVE  \E T : TurnsOver(T, x, a, n, m)
<1>1. a \in Seq(V)
  BY MoreElements, Zenon
<1>2. PICK w \in Seq(V) : w = x \o a /\ Joins(w, x, a, n, m)
  BY <1>1, JoinIs, Zenon
<1>3. DOMAIN w = 1..(n + m) /\ n + m \in Nat
  BY <1>2 DEF Joins
<1>4. PICK T \in [0..(n + m) -> Words30] :
        /\ T[0] = {0}
        /\ \A k \in 0..((n + m) - 1) : T[k + 1] = Feed(T[k], w[k + 1])
        /\ polymod(w) = T[n + m]
  BY <1>3, PolySteps, Zenon
<1>5. \A k \in 0..(n - 1) : k \in 0..((n + m) - 1) /\ k + 1 \in 1..(n + m) /\ k + 1 <= n
  OBVIOUS
<1>6. \A q \in 0..(m - 1) : /\ n + q \in 0..((n + m) - 1) /\ (n + q) + 1 \in 1..(n + m)
                            /\ ~((n + q) + 1 <= n) /\ ((n + q) + 1) - n = q + 1
  OBVIOUS
<1>7. \A k \in 0..(n - 1) : w[k + 1] = x[k + 1]
  BY <1>2, <1>5, Zenon DEF Joins
<1>8. \A q \in 0..(m - 1) : w[(n + q) + 1] = a[q + 1]
  BY <1>2, <1>6, SMT DEF Joins
<1>9. T[0] = {0} /\ polymod(x \o a) = T[n + m]
  BY <1>2, <1>4, Zenon
<1>10. \A k \in 0..(n - 1) : T[k + 1] = Feed(T[k], x[k + 1])
  BY <1>4, <1>5, <1>7, Zenon
<1>11. \A q \in 0..(m - 1) : T[(n + q) + 1] = Feed(T[n + q], a[q + 1])
  BY ONLY <1>4, <1>6, <1>8, Zenon
<1>12. TurnsOver(T, x, a, n, m)
  BY <1>9, <1>10, <1>11, Zenon DEF TurnsOver
<1> QED BY <1>12, Zenon

LEMMA TurnsDiffer ==
  ASSUME NEW t \in Words30, NEW u \in Words30, NEW v, NEW w
  PROVE  Xor(Feed(t, v), Feed(u, w)) = Xor(Feed(Xor(t, u), 0), Xor(Bits(v, 5), Bits(w, 5)))
<1>1. Feed(t, v) = Xor(Feed(t, 0), Bits(v, 5)) /\ Feed(u, w) = Xor(Feed(u, 0), Bits(w, 5))
  BY FeedSplits
<1>2. Feed(Xor(t, u), 0) = Xor(Feed(t, 0), Feed(u, 0))
  BY FeedLinear
<1>3. PICK a, b, c, d : a = Feed(t, 0) /\ b = Bits(v, 5) /\ c = Feed(u, 0) /\ d = Bits(w, 5)
  OBVIOUS
<1>4. Xor(Xor(a, b), Xor(c, d)) = Xor(Xor(a, c), Xor(b, d))
  BY DEF Xor, SymDiff
<1> QED BY <1>1, <1>2, <1>3, <1>4, Zenon

\* What two texts with one front and other groups differ in, turn by turn.
Diverge(D, x, a, b, m) ==
  /\ D \in [0..m -> Words30] /\ D[0] = {}
  /\ \A q \in 0..(m - 1) : D[q + 1] = Xor(Feed(D[q], 0), Xor(Bits(a[q + 1], 5), Bits(b[q + 1], 5)))
  /\ D[m] = Xor(polymod(x \o a), polymod(x \o b))

LEMMA Divergence ==
  ASSUME NEW V, Fives \subseteq V, NEW n \in Nat, NEW x \in Seq(V), Len(x) = n,
         NEW m \in Nat, NEW a \in Seq(Fives), Len(a) = m, NEW b \in Seq(Fives), Len(b) = m
  PROVE  \E D : Diverge(D, x, a, b, m)
<1>1. PICK T : TurnsOver(T, x, a, n, m)
  BY TurnsOverBoth, Zenon
<1>2. PICK U : TurnsOver(U, x, b, n, m)
  BY TurnsOverBoth, Zenon
<1>3. T[n] = U[n]
  <2> DEFINE S == {k \in Nat : k <= n => T[k] = U[k]}
  <2>1. 0 \in S
    BY <1>1, <1>2 DEF TurnsOver
  <2>2. ASSUME NEW k \in Nat, k \in S PROVE k + 1 \in S
    <3> SUFFICES ASSUME k + 1 <= n PROVE T[k + 1] = U[k + 1]
      OBVIOUS
    <3>1. k <= n /\ k \in 0..(n - 1)
      OBVIOUS
    <3>2. T[k] = U[k]
      BY <2>2, <3>1
    <3> QED BY <1>1, <1>2, <3>1, <3>2, SMT DEF TurnsOver
  <2> HIDE DEF S
  <2>3. n \in S
    BY <2>1, <2>2, AllNaturals
  <2> QED BY <2>3 DEF S
<1> DEFINE D == [q \in 0..m |-> Xor(T[n + q], U[n + q])]
<1>4. \A q \in 0..m : T[n + q] \in Words30 /\ U[n + q] \in Words30
  <2>1. \A q \in 0..m : n + q \in 0..(n + m)
    OBVIOUS
  <2> QED BY <1>1, <1>2, <2>1 DEF TurnsOver
<1>5. D \in [0..m -> Words30]
  <2>1. \A q \in 0..m : Xor(T[n + q], U[n + q]) \in Words30
    BY <1>4, XorTwice, Zenon
  <2> QED BY <2>1
<1>6. \A q \in 0..m : D[q] = Xor(T[n + q], U[n + q])
  OBVIOUS
<1> HIDE DEF D
<1>7. D[0] = {}
  <2>1. 0 \in 0..m /\ n + 0 = n
    OBVIOUS
  <2>2. \A s : Xor(s, s) = {}
    BY DEF Xor, SymDiff
  <2> QED BY <1>3, <1>6, <2>1, <2>2, Zenon
<1>8. ASSUME NEW q \in 0..(m - 1)
      PROVE  D[q + 1] = Xor(Feed(D[q], 0), Xor(Bits(a[q + 1], 5), Bits(b[q + 1], 5)))
  <2>1. q \in 0..m /\ q + 1 \in 0..m /\ n + (q + 1) = (n + q) + 1
    OBVIOUS
  <2>2. PICK t \in Words30 : t = T[n + q]
    BY <1>4, <2>1, Zenon
  <2>3. PICK u \in Words30 : u = U[n + q]
    BY <1>4, <2>1, Zenon
  <2>4. T[(n + q) + 1] = Feed(t, a[q + 1]) /\ U[(n + q) + 1] = Feed(u, b[q + 1])
    BY <1>1, <1>2, <2>2, <2>3, Zenon DEF TurnsOver
  <2>5. Xor(Feed(t, a[q + 1]), Feed(u, b[q + 1]))
          = Xor(Feed(Xor(t, u), 0), Xor(Bits(a[q + 1], 5), Bits(b[q + 1], 5)))
    BY TurnsDiffer
  <2> QED BY <1>6, <2>1, <2>2, <2>3, <2>4, <2>5, Zenon
<1>9. D[m] = Xor(polymod(x \o a), polymod(x \o b))
  <2>1. m \in 0..m
    OBVIOUS
  <2> QED BY <1>1, <1>2, <1>6, <2>1, Zenon DEF TurnsOver
<1> QED BY <1>5, <1>7, <1>8, <1>9, Zenon DEF Diverge

LEMMA NothingLate == \A p \in 0..90 : Late({})[p] = {}
<1> DEFINE S == {p \in Nat : p <= 90 => Late({})[p] = {}}
<1>1. {} \in Words30
  BY DEF Words30
<1>2. Feed({}, 0) = {}
  BY EmptyFeeds, NoBits
<1>3. 0 \in S
  BY <1>1, LateSteps, Zenon
<1>4. ASSUME NEW p \in Nat, p \in S PROVE p + 1 \in S
  <2> SUFFICES ASSUME p + 1 <= 90 PROVE Late({})[p + 1] = {}
    OBVIOUS
  <2>1. p <= 90 /\ p \in 0..89
    BY UpTo90, Zenon
  <2>2. Late({})[p] = {}
    BY <1>4, <2>1
  <2>3. Late({})[p + 1] = Feed(Late({})[p], 0)
    BY <1>1, <2>1, LateSteps, Zenon
  <2> QED BY <1>2, <2>2, <2>3, Zenon
<1> HIDE DEF S
<1>5. \A p \in Nat : p \in S
  BY <1>3, <1>4, AllNaturals
<1> QED BY <1>5 DEF S

\* What two groups differ in; what may be between two texts that are both accepted.
Fresh == SUBSET (0..4)
Between == Xor(Bech32m, Bech32)
Harmless == {{}, Between}

LEMMA WrongIs ==
  /\ \A w \in Fresh : w \in Words30
  /\ \A w \in Fresh : w # {} => \A p \in 1..90 : ~(Late(w)[p] \subseteq 0..4)
  /\ \A w \in Fresh : w # {} => \A p \in 0..90 : Late(w)[p] # Between
  /\ \A u, w \in Fresh : u # {} /\ w # {} =>
       \A p, q \in 0..90 : Xor(Late(u)[p], Between) # Late(w)[q]
<1> DEFINE wrong == (SUBSET (0..4)) \ {{}}
           traces == {Late(w)[turns] : w \in wrong, turns \in 0..90}
           between == Between
<1>4. /\ \A w \in wrong, p \in 1..90 : ~(Late(w)[p] \subseteq 0..4)
      /\ between \notin traces
      /\ \A x \in traces : Xor(x, between) \notin traces
  BY TwoWrongShow DEF Between
<1>5. \A w \in Fresh : w # {} => w \in wrong
  BY DEF Fresh
<1>6. \A w \in wrong, p \in 0..90 : Late(w)[p] \in traces
  OBVIOUS
<1>7. \A w \in Fresh : w \in Words30
  BY DEF Fresh, Words30
<1> HIDE DEF wrong, traces
<1> QED BY <1>4, <1>5, <1>6, <1>7, Zenon

LEMMA OneWrong ==
  ASSUME NEW w \in Fresh, w # {}, NEW p \in 0..90
  PROVE  Late(w)[p] \notin Harmless
<1>1. Late(w)[p] # {} /\ Late(w)[p] # Between
  BY WrongIs, LateKeeps, Zenon
<1> QED BY <1>1 DEF Harmless

LEMMA XorNone ==
  ASSUME NEW a, NEW b, Xor(a, b) = {}
  PROVE  a = b
BY DEF Xor, SymDiff

LEMMA XorTurned ==
  ASSUME NEW a, NEW b, NEW c, Xor(a, b) = c
  PROVE  Xor(a, c) = b
BY XorTwice, Zenon

LEMMA XorCancels ==
  /\ \A a : Xor({}, a) = a
  /\ \A a : Xor(a, a) = {}
<1>1. \A a : Xor({}, a) = a
  BY DEF Xor, SymDiff
<1>2. \A a : Xor(a, a) = {}
  BY DEF Xor, SymDiff
<1> QED BY <1>1, <1>2, Zenon

LEMMA TwoWrong ==
  ASSUME NEW u \in Fresh, NEW w \in Fresh, ~(u = {} /\ w = {}), NEW p \in 1..90, NEW q \in 0..(90 - p)
  PROVE  Late(Xor(Late(u)[p], w))[q] \notin Harmless
<1>1. /\ u \in Words30 /\ w \in Words30 /\ p \in 0..90 /\ q \in 0..90 /\ p + q \in 0..90
  <2>1. p \in 0..90 /\ q \in 0..90 /\ p + q \in 0..90
    OBVIOUS
  <2> QED BY <2>1, WrongIs, Zenon
<1>2. Late(u)[p] \in Words30 /\ Xor(Late(u)[p], w) \in Words30
  BY <1>1, LateSteps, XorTwice, Zenon
<1>3. CASE u = {}
  <2>1. Xor(Late(u)[p], w) = w
    BY <1>1, <1>3, NothingLate, XorCancels, Zenon
  <2> QED BY <1>1, <1>3, <2>1, OneWrong, Zenon
<1>4. CASE w = {}
  <2>1. Xor(Late(u)[p], w) = Late(u)[p]
    BY <1>4, XorTwice, Zenon
  <2>2. Late(Late(u)[p])[q] = Late(u)[p + q]
    BY <1>1, LateOfLate, Zenon
  <2>3. Late(u)[p + q] \notin Harmless
    BY <1>1, <1>4, OneWrong, Zenon
  <2> QED BY <2>1, <2>2, <2>3, Zenon
<1>5. CASE u # {} /\ w # {}
  <2>1. Late(Xor(Late(u)[p], w))[q] # {}
    <3>1. Xor(Late(u)[p], w) # {}
      <4>1. ~(Late(u)[p] \subseteq 0..4)
        BY <1>5, WrongIs, Zenon
      <4>2. Late(u)[p] # w
        BY <4>1 DEF Fresh
      <4> QED BY <4>2, XorNone, Zenon
    <3> QED BY <1>1, <1>2, <3>1, LateKeeps, Zenon
  <2>2. Late(Xor(Late(u)[p], w))[q] # Between
    <3>1. Late(Xor(Late(u)[p], w))[q] = Xor(Late(Late(u)[p])[q], Late(w)[q])
      BY <1>1, <1>2, LateLinear, ZenonT(40)
    <3>2. Late(Late(u)[p])[q] = Late(u)[p + q]
      BY <1>1, LateOfLate, Zenon
    <3>3. Xor(Late(u)[p + q], Between) # Late(w)[q]
      BY <1>1, <1>5, WrongIs, Zenon
    <3>4. PICK c, d : c = Late(u)[p + q] /\ d = Late(w)[q]
      OBVIOUS
    <3>5. Xor(c, d) # Between
      BY <3>3, <3>4, XorTurned, Zenon
    <3> QED BY <3>1, <3>2, <3>4, <3>5, Zenon
  <2> QED BY <2>1, <2>2 DEF Harmless
<1> QED BY <1>3, <1>4, <1>5, Zenon

\* Five bits tell a group.
LEMMA BitsTell == \A v, w \in Fives : Bits(v, 5) = Bits(w, 5) => v = w
<1>1. \A n \in Fives : \A b \in 0..4 : b \in Bits(n, 5) <=> (n \div 2^b) % 2 = 1
  BY DEF Bits
<1>2. 2^0 = 1 /\ 2^1 = 2 /\ 2^2 = 4 /\ 2^3 = 8 /\ 2^4 = 16
  OBVIOUS
<1>3. 0 \in 0..4 /\ 1 \in 0..4 /\ 2 \in 0..4 /\ 3 \in 0..4 /\ 4 \in 0..4
  OBVIOUS
<1>4. \A n \in Fives : /\ 0 \in Bits(n, 5) <=> (n \div 1) % 2 = 1
                       /\ 1 \in Bits(n, 5) <=> (n \div 2) % 2 = 1
                       /\ 2 \in Bits(n, 5) <=> (n \div 4) % 2 = 1
                       /\ 3 \in Bits(n, 5) <=> (n \div 8) % 2 = 1
                       /\ 4 \in Bits(n, 5) <=> (n \div 16) % 2 = 1
  BY <1>1, <1>2, <1>3, SMT
<1> TAKE v, w \in Fives
<1> HAVE Bits(v, 5) = Bits(w, 5)
<1>5. /\ (v \div 1) % 2 = 1 <=> (w \div 1) % 2 = 1
      /\ (v \div 2) % 2 = 1 <=> (w \div 2) % 2 = 1
      /\ (v \div 4) % 2 = 1 <=> (w \div 4) % 2 = 1
      /\ (v \div 8) % 2 = 1 <=> (w \div 8) % 2 = 1
      /\ (v \div 16) % 2 = 1 <=> (w \div 16) % 2 = 1
  BY <1>4, Zenon
<1> QED BY <1>5, SMTT(20) DEF Fives

\* What two texts differ in at a place.
Apart(a, b, k) == Xor(Bits(a[k], 5), Bits(b[k], 5))

\* Alike but for two places.
AlikeBut(a, b, m, i, j) == \A k \in 1..m : k # i /\ k # j => a[k] = b[k]

\* Groups that are alike but for two places, both accepted behind the same front, are the same.
LEMMA TwoErrors ==
  ASSUME NEW V, Fives \subseteq V, NEW n \in Nat, NEW x \in Seq(V), Len(x) = n,
         NEW m \in 0..90, NEW a \in Seq(Fives), Len(a) = m, NEW b \in Seq(Fives), Len(b) = m,
         NEW i \in 1..m, NEW j \in i..m, AlikeBut(a, b, m, i, j),
         polymod(x \o a) = Bech32m, polymod(x \o b) \in KnownConstants
  PROVE  a = b
<1>1. PICK D : Diverge(D, x, a, b, m)
  <2>1. m \in Nat
    OBVIOUS
  <2> QED BY <2>1, Divergence, Zenon
<1>2. \A k \in 1..m : a[k] \in Fives /\ b[k] \in Fives
  BY ElementOfSeq
<1>3. D \in [0..m -> Words30] /\ D[0] = {} /\ \A q \in 0..(m - 1) : D[q + 1] = Xor(Feed(D[q], 0), Apart(a, b, q + 1))
  BY <1>1, Zenon DEF Diverge, Apart
<1>4. D[m] \in Harmless
  <2>1. D[m] = Xor(Bech32m, Bech32m) \/ D[m] = Xor(Bech32m, Bech32)
    BY <1>1 DEF Diverge, KnownConstants
  <2> QED BY <2>1, XorCancels DEF Harmless, Between
<1>5. \A k \in 1..m : Apart(a, b, k) \in Fresh
  BY DEF Apart, Fresh, Bits, Xor, SymDiff
<1>6. \A k \in 1..m : k # i /\ k # j => Apart(a, b, k) = {}
  BY XorCancels, Zenon DEF Apart, AlikeBut
<1>7. \A q \in 0..(m - 1) : q + 1 # i /\ q + 1 # j => D[q + 1] = Feed(D[q], 0)
  <2>1. \A q \in 0..(m - 1) : q + 1 \in 1..m
    OBVIOUS
  <2> QED BY <1>3, <1>6, <2>1, XorTwice, Zenon
<1>8. PICK before \in 0..(m - 1) : before + 1 = i
  <2>1. i - 1 \in 0..(m - 1) /\ (i - 1) + 1 = i
    OBVIOUS
  <2> QED BY <2>1, Zenon
<1>9. PICK u \in Fresh : u = Apart(a, b, i)
  BY <1>5, Zenon
<1>10. PICK w \in Fresh : w = Apart(a, b, j)
  <2>1. j \in 1..m
    OBVIOUS
  <2> QED BY <1>5, <2>1, Zenon
<1>11. D[i] = u
  <2>1. before \in 0..m /\ 0 \in 0..m /\ before \in 0..90 /\ before - 0 = before
    OBVIOUS
  <2>2. \A q \in 0..(before - 1) : q \in 0..(m - 1) /\ q + 1 # i /\ q + 1 # j
    BY <1>8
  <2>3. D[before] = Late(D[0])[before - 0]
    <3>1. Quiet(D, 0, before)
      BY <1>7, <2>2, Zenon DEF Quiet
    <3>2. before \in 0..m /\ 0 \in 0..m
      BY <2>1
    <3> QED BY <1>3, <3>1, <3>2, QuietTurns, Zenon
  <2>4. D[before] = {}
    BY <1>3, <2>1, <2>3, NothingLate, Zenon
  <2>5. D[before + 1] = Xor(Feed({}, 0), u)
    BY <1>3, <1>8, <1>9, <2>4, Zenon
  <2> QED BY <1>8, <2>5, EmptyFeeds, NoBits, XorCancels, Zenon
<1>12. u \in Words30 /\ w \in Words30
  BY WrongIs, Zenon
<1>13. u = {} /\ w = {}
  <2>1. CASE i = j
    <3>1. i \in 0..m /\ m \in i..m /\ m - i \in 0..90
      OBVIOUS
    <3>2. \A q \in i..(m - 1) : q \in 0..(m - 1) /\ q + 1 # i /\ q + 1 # j
      BY <2>1
    <3>3. D[m] = Late(D[i])[m - i]
      <4>1. Quiet(D, i, m)
        BY <1>7, <3>2, Zenon DEF Quiet
      <4> QED BY <1>3, <3>1, <4>1, QuietTurns, Zenon
    <3> QED BY <1>4, <1>9, <1>10, <1>11, <2>1, <3>1, <3>3, OneWrong, Zenon
  <2>2. CASE i # j
    <3>1. PICK p \in 1..90 : i + p = j
      <4>1. j - i \in 1..90 /\ i + (j - i) = j
        BY <2>2
      <4> QED BY <4>1, Zenon
    <3>2. PICK q \in 0..(90 - p) : j + q = m
      <4>1. m - j \in 0..(90 - p) /\ j + (m - j) = m
        BY <3>1
      <4> QED BY <4>1, Zenon
    <3>3. PICK c \in i..m : c + 1 = j
      <4>1. j - 1 \in i..m /\ (j - 1) + 1 = j
        BY <2>2
      <4> QED BY <4>1, Zenon
    <3>4. /\ i \in 0..m /\ j \in 0..m /\ m \in j..m /\ c \in 0..(m - 1) /\ m - j = q
          /\ c - i \in 0..89 /\ (c - i) + 1 = p
      BY <3>1, <3>2, <3>3
    <3>5. D[c] = Late(u)[c - i]
      <4>1. \A r \in i..(c - 1) : r \in 0..(m - 1) /\ r + 1 # i /\ r + 1 # j
        BY <3>3
      <4>2. Quiet(D, i, c)
        BY <1>7, <4>1, Zenon DEF Quiet
      <4>3. D[c] = Late(D[i])[c - i]
        BY <1>3, <3>4, <4>2, QuietTurns, ZenonT(40)
      <4> QED BY <1>11, <4>3, Zenon
    <3>6. D[j] = Xor(Late(u)[p], w)
      <4>1. D[j] = Xor(Feed(Late(u)[c - i], 0), w)
        BY <1>3, <1>10, <3>3, <3>4, <3>5, Zenon
      <4>2. Feed(Late(u)[c - i], 0) = Late(u)[p]
        BY <1>12, <3>4, LateSteps, Zenon
      <4> QED BY <4>1, <4>2, Zenon
    <3>7. D[m] = Late(D[j])[q]
      <4>1. \A r \in j..(m - 1) : r \in 0..(m - 1) /\ r + 1 # i /\ r + 1 # j
        BY <2>2
      <4>2. Quiet(D, j, m)
        BY <1>7, <4>1, Zenon DEF Quiet
      <4>3. D[m] = Late(D[j])[m - j]
        BY <1>3, <3>4, <4>2, QuietTurns, ZenonT(40)
      <4> QED BY <3>4, <4>3, Zenon
    <3> QED BY <1>4, <3>6, <3>7, TwoWrong, Zenon
  <2> QED BY <2>1, <2>2, Zenon
<1>14. \A k \in 1..m : a[k] = b[k]
  <2> TAKE k \in 1..m
  <2>1. Apart(a, b, k) = {}
    BY <1>6, <1>9, <1>10, <1>13, Zenon
  <2>2. PICK v \in Fives, y \in Fives : v = a[k] /\ y = b[k]
    BY <1>2, Zenon
  <2>3. Xor(Bits(v, 5), Bits(y, 5)) = {}
    BY <2>1, <2>2, Zenon DEF Apart
  <2>4. Bits(v, 5) = Bits(y, 5)
    BY <2>3, XorNone, Zenon
  <2>5. v = y
    BY <2>4, BitsTell, Zenon
  <2> QED BY <2>2, <2>5, Zenon
<1> QED BY <1>14

\* Two wrong groups, wherever they are.
LEMMA TwoGroups ==
  ASSUME NEW V, Fives \subseteq V, NEW n \in Nat, NEW x \in Seq(V), Len(x) = n,
         NEW m \in 1..90, NEW a \in Seq(Fives), Len(a) = m, NEW b \in Seq(Fives), Len(b) = m,
         NEW i \in Int, NEW j \in Int, AlikeBut(a, b, m, i, j),
         polymod(x \o a) = Bech32m, polymod(x \o b) \in KnownConstants
  PROVE  a = b
<1>1. PICK p \in 1..m : p = IF i \in 1..m THEN i ELSE 1
  OBVIOUS
<1>2. PICK q \in 1..m : q = IF j \in 1..m THEN j ELSE 1
  OBVIOUS
<1>3. \A k \in 1..m : k # p /\ k # q => k # i /\ k # j
  BY <1>1, <1>2
<1>4. AlikeBut(a, b, m, p, q) /\ AlikeBut(a, b, m, q, p)
  BY <1>3, Zenon DEF AlikeBut
<1>5. m \in 0..90
  OBVIOUS
<1>6. CASE q \in p..m
  BY <1>4, <1>5, <1>6, TwoErrors, Zenon
<1>7. CASE p \in q..m
  BY <1>4, <1>5, <1>7, TwoErrors, Zenon
<1>8. q \in p..m \/ p \in q..m
  OBVIOUS
<1> QED BY <1>6, <1>7, <1>8, Zenon

\* A text as it was written: its groups, and the letters they became.
IsWritten(s, h, m, type, dp) ==
  /\ s \in Seq(Plain7) /\ Len(s) = h + 1 + m
  /\ \A k \in 1..h : s[k] = type[k]
  /\ s[h + 1] = 49
  /\ dp \in Seq(Fives) /\ Len(dp) = m
  /\ \A k \in 1..m : s[h + 1 + k] = charset[dp[k] + 1]
  /\ polymod(expandHrp(type) \o dp) = Bech32m

LEMMA Written ==
  ASSUME NEW h \in Nat, NEW type \in Seq(Plain7), Len(type) = h, h >= 1,
         NEW g \in Nat, NEW vs \in Seq(Fives), Len(vs) = g, h + g <= 83,
         NEW m \in Nat, m = g + 6
  PROVE  \E dp : IsWritten(encodeBasis(type, vs, Bech32m), h, m, type, dp) /\ SubSeq(dp, 1, g) = vs
<1>1. ToLower(type) = type
  BY PlainText, Zenon
<1>2. PICK dp \in Seq(Fives) :
        /\ dp = vs \o createChecksum(type, vs, Bech32m)
        /\ Len(dp) = m /\ SubSeq(dp, 1, g) = vs
        /\ polymod(expandHrp(type) \o dp) = Bech32m
  <2>1. PICK constant \in KnownConstants : constant = Bech32m
    BY DEF KnownConstants
  <2>2. PICK dp \in Seq(Fives) :
          /\ dp = vs \o createChecksum(type, vs, constant)
          /\ Len(dp) = g + 6 /\ SubSeq(dp, 1, g) = vs
          /\ polymod(expandHrp(type) \o dp) = constant
    BY ChecksumFits, ZenonT(40)
  <2> QED BY <2>1, <2>2, Zenon
<1>4. PICK d \in Seq(Plain7) :
        /\ d = ToCharset(dp) /\ Len(d) = m
        /\ \A i \in 1..m : d[i] = charset[dp[i] + 1]
  <2>1. /\ ToCharset(dp) \in Seq(Plain7) /\ Len(ToCharset(dp)) = m
        /\ \A i \in 1..m : ToCharset(dp)[i] = charset[dp[i] + 1]
    BY <1>2, CharsetReads, Zenon DEF Plain7
  <2> QED BY <2>1, Zenon
<1>6. PICK s \in Seq(Plain7) : s = (type \o <<49>>) \o d /\ IsText(s, h, m, type, d)
  <2>1. 49 \in Plain7
    BY Plain7Is, Zenon
  <2> QED BY <1>4, <2>1, TextIs, Zenon
<1>8. encodeBasis(type, vs, Bech32m) = s
  <2>1. Len(type) \in 1..83 /\ ~(Len(type) + Len(vs) + 1 + 6 > 90)
    OBVIOUS
  <2> QED BY <1>1, <1>2, <1>4, <1>6, <2>1, Zenon DEF encodeBasis, Separator, ChecksumLength
<1>9. \A k \in 1..m : s[h + 1 + k] = charset[dp[k] + 1]
  <2> TAKE k \in 1..m
  <2>1. h + 1 + k \in (h + 2)..(h + 1 + m) /\ (h + 1 + k) - (h + 1) = k
    OBVIOUS
  <2>2. PICK i \in (h + 2)..(h + 1 + m) : i = h + 1 + k /\ i - (h + 1) = k
    BY <2>1, Zenon
  <2>3. s[i] = d[i - (h + 1)]
    BY <1>6, Zenon DEF IsText
  <2> QED BY <1>4, <2>2, <2>3, Zenon
<1>10. IsWritten(s, h, m, type, dp)
  BY <1>2, <1>6, <1>9, Zenon DEF IsText, IsWritten
<1> QED BY <1>2, <1>8, <1>10, Zenon

\* A text as it is read.
IsReading(s, n, p, hrp, dp) ==
  /\ p \in 1..n /\ n <= 90 /\ n - p >= 6
  /\ s[p] = 49
  /\ Len(hrp) = p - 1 /\ \A k \in 1..(p - 1) : hrp[k] = ToLower(s)[k]
  /\ dp \in Seq(Fives) /\ Len(dp) = n - p
  /\ \A k \in 1..(n - p) : ToLower(s)[p + k] = charset[dp[k] + 1]
  /\ polymod(expandHrp(hrp) \o dp) \in KnownConstants
  /\ decode(s) = Decoded(hrp, SubSeq(dp, 1, (n - p) - 6))

LEMMA Reading ==
  ASSUME NEW n \in Nat, NEW s \in Seq(0..255), Len(s) = n, decode(s).st = "ok"
  PROVE  \E p, hrp, dp : IsReading(s, n, p, hrp, dp)
<1>1. PICK p : p = FindSeparator(s)
  OBVIOUS
<1>2. WasDecoded(s, p, decode(s))
  BY <1>1, DecodedIs, Zenon
<1>3. Readable(s)
  BY DEF decode, Fails
<1>4. p \in 1..n /\ n <= 90 /\ n - p >= 6 /\ s[p] = 49
  BY <1>2, <1>3 DEF WasDecoded, Readable, WellFormed, Separator
<1>5. PICK low : low = ToLower(s)
  OBVIOUS
<1>6. \A k \in 1..n : low[k] = IF s[k] \in Uppercase THEN s[k] + 32 ELSE s[k]
  BY <1>5 DEF ToLower
<1>7. PICK e : e = SubSeq(s, 1, p - 1)
  OBVIOUS
<1>8. DOMAIN e = 1..(p - 1) /\ \A k \in 1..(p - 1) : e[k] = s[k]
  BY <1>4, <1>7
<1>9. PICK hrp : hrp = ToLower(e)
  OBVIOUS
<1>10. Len(hrp) = p - 1 /\ \A k \in 1..(p - 1) : hrp[k] = low[k]
  <2>1. hrp = [k \in 1..(p - 1) |-> IF e[k] \in Uppercase THEN e[k] + 32 ELSE e[k]]
    BY <1>8, <1>9 DEF ToLower
  <2>2. Len(hrp) = p - 1
    BY <1>4, <2>1
  <2>3. \A k \in 1..(p - 1) : k \in 1..n
    BY <1>4
  <2>4. \A k \in 1..(p - 1) : hrp[k] = IF s[k] \in Uppercase THEN s[k] + 32 ELSE s[k]
    BY <1>8, <2>1
  <2> QED BY <1>6, <2>2, <2>3, <2>4, Zenon
<1>11. PICK d : d = DataChars(s)
  OBVIOUS
<1>12. PICK m \in Nat : m = n - p
  BY <1>4
<1>13. DOMAIN d = 1..m /\ \A k \in 1..m : d[k] = s[p + k]
  BY <1>1, <1>4, <1>11, <1>12 DEF DataChars
<1>14. ToLower(d) = [k \in 1..m |-> IF d[k] \in Uppercase THEN d[k] + 32 ELSE d[k]]
  BY <1>13 DEF ToLower
<1>15. \A k \in 1..m : ToLower(d)[k] = low[p + k]
  <2>1. \A k \in 1..m : p + k \in 1..n
    BY <1>4, <1>12
  <2>2. \A k \in 1..m : ToLower(d)[k] = IF s[p + k] \in Uppercase THEN s[p + k] + 32 ELSE s[p + k]
    BY <1>13, <1>14
  <2> QED BY <1>6, <2>1, <2>2, Zenon
<1>16. \A k \in 1..m : ToLower(d)[k] \in ToSet(charset)
  BY <1>3, <1>11, <1>14 DEF Readable, ToSet
<1>17. \A k \in 1..m : \E v \in 0..31 : charset[v + 1] = ToLower(d)[k]
  <2>1. DOMAIN charset = 1..32
    BY DEF charset
  <2>2. \A c \in ToSet(charset) : \E i \in 1..32 : charset[i] = c
    BY <2>1 DEF ToSet
  <2>3. \A i \in 1..32 : i - 1 \in 0..31 /\ (i - 1) + 1 = i
    OBVIOUS
  <2> TAKE k \in 1..m
  <2>4. PICK i \in 1..32 : charset[i] = ToLower(d)[k]
    BY <1>16, <2>2, Zenon
  <2>5. PICK v \in 0..31 : v + 1 = i
    BY <2>3, Zenon
  <2> QED BY <2>4, <2>5, Zenon
<1>18. PICK dp : dp = FromCharset(d)
  OBVIOUS
<1>19. dp = [k \in 1..m |-> CHOOSE v \in 0..31 : charset[v + 1] = ToLower(d)[k]]
  BY <1>13, <1>18, Zenon DEF FromCharset
<1>20. ASSUME NEW k \in 1..m PROVE dp[k] \in Fives /\ charset[dp[k] + 1] = low[p + k]
  <2>1. dp[k] = CHOOSE v \in 0..31 : charset[v + 1] = ToLower(d)[k]
    BY <1>19
  <2>2. \E v \in 0..31 : charset[v + 1] = ToLower(d)[k]
    BY <1>17, Zenon
  <2>3. dp[k] \in 0..31 /\ charset[dp[k] + 1] = ToLower(d)[k]
    BY <2>1, <2>2, Zenon
  <2> QED BY <1>15, <2>3, Zenon DEF Fives
<1>21. dp \in Seq(Fives) /\ Len(dp) = m
  <2> DEFINE value(k) == CHOOSE v \in 0..31 : charset[v + 1] = ToLower(d)[k]
  <2>0. dp = [k \in 1..m |-> value(k)]
    BY <1>19, Zenon
  <2> HIDE DEF value
  <2>1. DOMAIN dp = 1..m /\ dp = [k \in 1..m |-> dp[k]]
    BY <2>0
  <2>2. \A k \in 1..m : dp[k] \in Fives
    BY <1>20, Zenon
  <2> QED BY <2>1, <2>2
<1>22. decode(s) = IF polymod(expandHrp(hrp) \o dp) \in {Bech32m, Bech32}
                   THEN Decoded(hrp, SubSeq(dp, 1, Len(dp) - 6)) ELSE Invalid
  BY <1>1, <1>3, <1>7, <1>9, <1>11, <1>18, Zenon DEF decode, ChecksumLength
<1>23. polymod(expandHrp(hrp) \o dp) \in KnownConstants
  BY <1>22 DEF Invalid, KnownConstants
<1>24. decode(s) = Decoded(hrp, SubSeq(dp, 1, m - 6))
  BY <1>21, <1>22, <1>23, Zenon DEF KnownConstants
<1>25. IsReading(s, n, p, hrp, dp)
  BY <1>4, <1>5, <1>10, <1>12, <1>20, <1>21, <1>23, <1>24, Zenon DEF IsReading
<1> QED BY <1>25, Zenon

\* A human-readable part that is another type's but for two places is that type.
BothBut(s, t, i, j) == \A k \in (DOMAIN s \cap DOMAIN t) \ {i, j} : s[k] = t[k]

LEMMA SameType ==
  ASSUME TypesApart, NEW s \in Types, NEW t \in Types, NEW i \in Nat, NEW j \in Nat,
         BothBut(s, t, i, j)
  PROVE  s = t
<1> SUFFICES ASSUME s # t PROVE FALSE
  OBVIOUS
<1>1. \A a, b \in Nat : \E k \in (DOMAIN s \cap DOMAIN t) \ {a, b} : s[k] # t[k]
  BY DEF TypesApart
<1>2. PICK k \in (DOMAIN s \cap DOMAIN t) \ {i, j} : s[k] # t[k]
  BY <1>1, Zenon
<1> QED BY <1>2, Zenon DEF BothBut

\* What is read, and what was written: all letters but two are the same.
LEMMA SlipFound ==
  ASSUME TypesApart, NEW hrp \in Types, NEW type \in Types,
         NEW n \in Nat, NEW s \in Seq(0..255), Len(s) = n, NEW p, NEW a, IsReading(s, n, p, hrp, a),
         NEW h \in Nat, Len(type) = h, NEW m \in Nat, NEW w, NEW b, IsWritten(w, h, m, type, b),
         NEW i \in 1..n, NEW j \in 1..n, AlikeBut(ToLower(s), w, n, i, j), n = h + 1 + m
  PROVE  hrp = type /\ a = b /\ ToLower(s) = w
<1>1. type \in Seq(Plain7)
  BY TypeIs, Zenon
<1>2. p \in 1..n /\ Len(hrp) = p - 1 /\ \A k \in 1..(p - 1) : hrp[k] = ToLower(s)[k]
  BY Zenon DEF IsReading
<1>3. \A k \in 1..h : w[k] = type[k]
  BY Zenon DEF IsWritten
<1>4. hrp = type
  <2>1. hrp \in Seq(Plain7)
    BY TypeIs, Zenon
  <2>2. DOMAIN hrp = 1..(p - 1) /\ DOMAIN type = 1..h
    BY <1>1, <1>2, <2>1
  <2>3. \A k \in 1..(p - 1) : k \in 1..n
    BY <1>2
  <2>4. \A k \in (DOMAIN hrp \cap DOMAIN type) \ {i, j} : k \in 1..(p - 1) /\ k \in 1..h /\ k # i /\ k # j
    BY <2>2
  <2>5. BothBut(hrp, type, i, j)
    BY <1>2, <1>3, <2>3, <2>4, Zenon DEF AlikeBut, BothBut
  <2>6. i \in Nat /\ j \in Nat
    OBVIOUS
  <2> QED BY <2>5, <2>6, SameType, Zenon
<1>5. p = h + 1 /\ n - p = m /\ m \in 1..90
  <2>1. p - 1 = h
    BY <1>2, <1>4, Zenon
  <2>2. n <= 90 /\ n - p >= 6
    BY Zenon DEF IsReading
  <2> QED BY <1>2, <2>1, <2>2
<1>6. a \in Seq(Fives) /\ Len(a) = m /\ \A k \in 1..m : ToLower(s)[p + k] = charset[a[k] + 1]
  BY <1>5, Zenon DEF IsReading
<1>7. b \in Seq(Fives) /\ Len(b) = m /\ \A k \in 1..m : w[p + k] = charset[b[k] + 1]
  BY <1>5, Zenon DEF IsWritten
<1>8. \A k \in 1..m : a[k] \in Fives /\ b[k] \in Fives
  BY <1>6, <1>7, ElementOfSeq
<1>9. a = b
  <2>1. PICK x, y \in Int : x = i - p /\ y = j - p
    BY <1>2
  <2>2. ASSUME NEW k \in 1..m, k # x, k # y PROVE b[k] = a[k]
    <3>1. PICK l \in 1..n : l = p + k /\ l # i /\ l # j
      BY <1>2, <1>5, <2>1, <2>2
    <3>2. ToLower(s)[l] = w[l]
      BY <3>1, Zenon DEF AlikeBut
    <3>3. charset[a[k] + 1] = charset[b[k] + 1]
      BY <1>6, <1>7, <3>1, <3>2, Zenon
    <3> QED BY <1>8, <3>3, CharsetInjective, Zenon DEF Fives
  <2>3. AlikeBut(b, a, m, x, y)
    BY <2>2, Zenon DEF AlikeBut
  <2>4. PICK V : V = Int
    OBVIOUS
  <2>5. Fives \subseteq V
    BY <2>4 DEF Fives
  <2>6. PICK e \in Seq(V) : e = expandHrp(type)
    BY <1>1, <2>4, HrpExpands, Zenon
  <2>7. PICK l \in Nat : l = Len(e)
    OBVIOUS
  <2>8. polymod(e \o b) = Bech32m
    BY <2>6, Zenon DEF IsWritten
  <2>9. polymod(e \o a) \in KnownConstants
    BY <1>4, <2>6, Zenon DEF IsReading
  <2>10. b = a
    BY <1>5, <1>6, <1>7, <2>3, <2>5, <2>7, <2>8, <2>9, TwoGroups, Zenon
  <2> QED BY <2>10, Zenon
<1>10. \A k \in 1..n : ToLower(s)[k] = w[k]
  <2>1. ASSUME NEW k \in 1..n, k < p PROVE ToLower(s)[k] = w[k]
    <3>1. k \in 1..(p - 1) /\ k \in 1..h
      BY <1>2, <1>5, <2>1
    <3> QED BY <1>2, <1>3, <1>4, <3>1, Zenon
  <2>2. ToLower(s)[p] = w[p]
    <3>1. s[p] = 49
      BY Zenon DEF IsReading
    <3>2. ToLower(s)[p] = 49
      BY <1>2, <3>1 DEF ToLower, Uppercase
    <3>3. w[p] = 49
      BY <1>5, Zenon DEF IsWritten
    <3> QED BY <3>2, <3>3, Zenon
  <2>3. ASSUME NEW k \in 1..n, k > p PROVE ToLower(s)[k] = w[k]
    <3>1. PICK l \in 1..m : p + l = k
      <4>1. k - p \in 1..m /\ p + (k - p) = k
        BY <1>2, <1>5, <2>3
      <4> QED BY <4>1, Zenon
    <3> QED BY <1>6, <1>7, <1>9, <3>1, Zenon
  <2>4. \A k \in 1..n : k < p \/ k = p \/ k > p
    BY <1>2
  <2> QED BY <2>1, <2>2, <2>3, <2>4, Zenon
<1>11. ToLower(s) = w
  <2>1. PICK low : low = ToLower(s)
    OBVIOUS
  <2>2. low = [k \in 1..n |-> low[k]]
    BY <2>1 DEF ToLower
  <2>3. w \in Seq(Plain7) /\ Len(w) = n
    BY Zenon DEF IsWritten
  <2>4. w = [k \in 1..n |-> w[k]]
    BY <2>3
  <2> QED BY <1>10, <2>1, <2>2, <2>4, Zenon
<1> QED BY <1>4, <1>9, <1>11, Zenon

\* A text with up to two wrong letters that decodes for a type is the one that was written.
LEMMA NoSlipReads ==
  ASSUME TypesApart, NEW key \in Keys, NEW type \in Types, NEW s \in Seq(0..255),
         decode(s).st = "ok", decode(s).hrp \in Types, NearlyRight(s, to_bech32(key, type))
  PROVE  /\ ToLower(s) = to_bech32(key, type)
         /\ decode(s) = Decoded(type, convert_bits(8, 5, key))
<1>1. PICK n \in Nat : n = Len(s) /\ DOMAIN s = 1..n
  OBVIOUS
<1>2. PICK p, hrp, a : IsReading(s, n, p, hrp, a)
  BY <1>1, Reading, Zenon
<1>4. PICK h \in Nat, g \in Nat : /\ type \in Seq(Plain7) /\ Len(type) = h /\ h >= 1
                                  /\ g = FivesOfKey /\ h + g <= 83
  BY TypeIs, Zenon
<1>3. PICK vs \in Seq(Fives) : vs = convert_bits(8, 5, key) /\ Len(vs) = g
  BY <1>4, KeyGroups, Zenon
<1>5. PICK m \in Nat : m = g + 6
  OBVIOUS
<1>6. PICK w : w = to_bech32(key, type)
  OBVIOUS
<1>7. PICK b : IsWritten(w, h, m, type, b) /\ SubSeq(b, 1, g) = vs
  <2>1. \E b : IsWritten(encodeBasis(type, vs, Bech32m), h, m, type, b) /\ SubSeq(b, 1, g) = vs
    BY <1>3, <1>4, <1>5, Written, SMTT(60)
  <2> QED BY <1>3, <1>6, <2>1, Zenon DEF to_bech32
<1>8. n = h + 1 + m
  BY <1>1, <1>6, <1>7, Zenon DEF IsWritten, NearlyRight
<1>9. PICK i \in 1..n, j \in 1..n : AlikeBut(ToLower(s), w, n, i, j)
  <2>1. PICK i \in 1..n, j \in 1..n : \A k \in (1..n) \ {i, j} : ToLower(s)[k] = w[k]
    BY <1>1, <1>6, ZenonT(40) DEF NearlyRight
  <2>2. AlikeBut(ToLower(s), w, n, i, j)
    BY <2>1, Zenon DEF AlikeBut
  <2> QED BY <2>2, Zenon
<1>10. decode(s) = Decoded(hrp, SubSeq(a, 1, (n - p) - 6))
  BY <1>2, Zenon DEF IsReading
<1>11. hrp \in Types
  BY <1>10 DEF Decoded
<1>12. hrp = type /\ a = b /\ ToLower(s) = w
  BY <1>1, <1>2, <1>4, <1>7, <1>8, <1>9, <1>11, SlipFound, SMTT(60)
<1>13. (n - p) - 6 = g
  <2>1. Len(hrp) = p - 1 /\ p \in 1..n
    BY <1>2, Zenon DEF IsReading
  <2>2. p - 1 = h
    BY <1>4, <1>12, <2>1, Zenon
  <2> QED BY <1>5, <1>8, <2>1, <2>2
<1> QED BY <1>3, <1>6, <1>7, <1>10, <1>12, <1>13, Zenon

\* Only what decodes, and for the type that was asked, is read.
LEMMA OkIsRead ==
  ASSUME NEW s, NEW asked, NEW unset, from_bech32(s, asked, unset).st = "read"
  PROVE  decode(s).st = "ok" /\ decode(s).hrp = asked
<1>1. PICK r : r = decode(s)
  OBVIOUS
<1>2. r.st \in {"throws", "invalid", "ok"}
  BY <1>1, DecodeEnds, Zenon
<1>3. CASE r.st = "throws"
  BY <1>1, <1>3 DEF from_bech32
<1>4. CASE r.st = "invalid" \/ (r.st = "ok" /\ r.hrp # asked)
  BY <1>1, <1>4 DEF from_bech32
<1> QED BY <1>1, <1>2, <1>3, <1>4, Zenon

\* What was returned is what from_bech32 makes of the text.
ReadInv ==
  /\ KeyTextTypeOK
  /\ sent = None => out = NotRead
  /\ WrongLettersShow

LEMMA ReadInvHolds ==
  ASSUME TypesApart
  PROVE  Spec => []ReadInv
<1>1. Init => ReadInv
  BY DEF Init, KeyTextInit, ReadInv, KeyTextTypeOK, WrongLettersShow, NotRead
<1>2. KeyTextTypeOK /\ KeyTextTypeOK' /\ ReadInv /\ [Next]_codecVars => ReadInv'
  <2> SUFFICES ASSUME KeyTextTypeOK, KeyTextTypeOK', ReadInv, [Next]_codecVars PROVE ReadInv'
    OBVIOUS
  <2>0. NotRead.st # "read"
    BY DEF NotRead
  <2>1. ASSUME out' = NotRead PROVE ReadInv'
    BY <2>0, <2>1, Zenon DEF ReadInv, WrongLettersShow
  <2>2. ASSUME NEW key \in Keys, NEW type \in Types, Write(key, type) PROVE ReadInv'
    <3>1. out' = NotRead
      BY <2>2, Zenon DEF Write, ReadInv
    <3> QED BY <2>1, <3>1, Zenon
  <2>3. ASSUME OnItsWay PROVE ReadInv'
    <3>1. out' = NotRead
      BY <2>3, Zenon DEF OnItsWay
    <3> QED BY <2>1, <3>1, Zenon
  <2>4. ASSUME NEW type \in Types, Read(type) PROVE ReadInv'
    <3>1. PICK unset \in Unset :
            /\ sent # None /\ out' = from_bech32(text, type, unset)
            /\ sent' = sent /\ text' = text
      BY <2>4, Zenon DEF Read
    <3>2. PICK key \in Keys, of \in Types : key = sent.key /\ of = sent.type
      BY <3>1 DEF KeyTextTypeOK
    <3>3. PICK s \in Seq(0..255) : s = text
      BY Zenon DEF KeyTextTypeOK
    <3>4. ASSUME out'.st = "read", NearlyRight(s, to_bech32(key, of))
          PROVE  ToLower(s) = to_bech32(key, of) /\ out'.type = of /\ out'.key = key
      <4>1. decode(s).st = "ok" /\ decode(s).hrp = type
        BY <3>1, <3>3, <3>4, OkIsRead, Zenon
      <4>2. /\ ToLower(s) = to_bech32(key, of)
            /\ decode(s) = Decoded(of, convert_bits(8, 5, key))
        BY <3>4, <4>1, NoSlipReads, Zenon
      <4>3. out' = ReadingOf(type, key, of)
        BY <3>1, <3>3, <4>2, ReadsAs, Zenon
      <4>4. type = of
        BY <4>1, <4>2 DEF Decoded
      <4>5. out' = [st |-> "read", key |-> key, type |-> type]
        BY <4>3, <4>4, Zenon DEF ReadingOf
      <4>6. out'.key = key /\ out'.type = type
        BY <4>5
      <4> QED BY <4>2, <4>4, <4>6, Zenon
    <3>5. WrongLettersShow'
      BY <3>1, <3>2, <3>3, <3>4, Zenon DEF WrongLettersShow
    <3> QED BY <3>1, <3>5, Zenon DEF ReadInv
  <2>5. ASSUME UNCHANGED keyVars PROVE ReadInv'
    <3>1. sent' = sent /\ text' = text /\ out' = out
      BY <2>5 DEF keyVars
    <3> QED BY <3>1, Zenon DEF ReadInv, WrongLettersShow
  <2>6. CASE KeyTextNext
    BY <2>2, <2>3, <2>4, <2>6, Zenon DEF KeyTextNext, Mistype, Swap, Double, Leave, Shout, Slip
  <2>7. KeyTextNext \/ UNCHANGED keyVars
    BY Zenon DEF Next, codecVars
  <2> QED BY <2>5, <2>6, <2>7, Zenon
<1> QED BY <1>1, <1>2, KeysTyped, PTL DEF Spec

\* The types the relay reads, "npub", "nsec" and "note", are apart.
LEMMA RelayTypesApart ==
  ASSUME Types = {<<110, 112, 117, 98>>, <<110, 115, 101, 99>>, <<110, 111, 116, 101>>}
  PROVE  TypesApart
<1>1. \A s \in Types : DOMAIN s = 1..4
  OBVIOUS
<1>2. ASSUME NEW s \in Types, NEW t \in Types, s # t, NEW i \in Nat, NEW j \in Nat
      PROVE  \E k \in (DOMAIN s \cap DOMAIN t) \ {i, j} : s[k] # t[k]
  <2>1. s[2] # t[2] /\ s[3] # t[3] /\ s[4] # t[4]
    BY <1>2
  <2>2. \A k \in 2..4 : k \in DOMAIN s \cap DOMAIN t
    BY <1>1
  <2>3. PICK k \in 2..4 : k # i /\ k # j
    <3>1. 2 \in 2..4 /\ 3 \in 2..4 /\ 4 \in 2..4
      OBVIOUS
    <3>2. (2 # i /\ 2 # j) \/ (3 # i /\ 3 # j) \/ (4 # i /\ 4 # j)
      OBVIOUS
    <3> QED BY <3>1, <3>2, SMT
  <2>4. s[k] # t[k]
    <3>1. k = 2 \/ k = 3 \/ k = 4
      BY <2>3
    <3> QED BY <2>1, <3>1
  <2> QED BY <2>2, <2>3, <2>4
<1> QED BY <1>2 DEF TypesApart

\* decode refuses up to two wrong letters, wherever they are in a text of any key and type,
\* two neighbours swapped among them, whether the checksum, the key or the type is hit, and
\* whether or not the reader asks for the type that was written: the wrong values change what
\* polymod returns, and not from one accepted constant into the other.  That three places of
\* four tell the relay's types apart is RelayTypesApart.
THEOREM WrongLettersSeen ==
  ASSUME TypesApart
  PROVE  Spec => []WrongLettersShow
<1>1. ReadInv => WrongLettersShow
  BY DEF ReadInv
<1> QED BY <1>1, ReadInvHolds, PTL

-----------------------------------------------------------------------------
(* Texts in the report: between its quotes, a text that was escaped is     *)
(* read as what it was.                                                    *)

Readers(V) == [field : Seq(V), fields : Seq(Seq(V)), lines : Seq(Seq(Seq(V))),
               quoted : BOOLEAN, escaped : BOOLEAN]

LEMMA Appends ==
  ASSUME NEW V, NEW s \in Seq(V), NEW e \in V
  PROVE  Append(s, e) \in Seq(V)
OBVIOUS

LEMMA ReadType ==
  ASSUME NEW V, "\n" \in V, NEW r \in Readers(V), NEW c \in V
  PROVE  ReadToken(r, c) \in Readers(V)
<1>1. /\ r.field \in Seq(V) /\ r.fields \in Seq(Seq(V)) /\ r.lines \in Seq(Seq(Seq(V)))
      /\ r.quoted \in BOOLEAN /\ r.escaped \in BOOLEAN
  BY DEF Readers
<1>2. <<>> \in Seq(V) /\ <<>> \in Seq(Seq(V))
  OBVIOUS
<1>3. /\ Append(r.field, c) \in Seq(V) /\ Append(r.field, "\n") \in Seq(V)
      /\ Append(r.fields, r.field) \in Seq(Seq(V))
  BY <1>1, Appends, Zenon
<1>4. Append(r.lines, Append(r.fields, r.field)) \in Seq(Seq(Seq(V)))
  BY <1>1, <1>3, Appends, Zenon
<1>5. /\ [r EXCEPT !.escaped = FALSE, !.field = Append(@, IF c = "n" THEN "\n" ELSE c)] \in Readers(V)
      /\ [r EXCEPT !.escaped = TRUE] \in Readers(V)
      /\ [r EXCEPT !.quoted = ~@] \in Readers(V)
  BY <1>1, <1>3 DEF Readers
<1>6. /\ [r EXCEPT !.field = <<>>, !.fields = Append(@, r.field)] \in Readers(V)
      /\ [r EXCEPT !.field = Append(@, c)] \in Readers(V)
  BY <1>1, <1>2, <1>3 DEF Readers
<1>7. [r EXCEPT !.field = <<>>, !.fields = <<>>, !.lines = Append(@, Append(r.fields, r.field))] \in Readers(V)
  BY <1>1, <1>2, <1>4 DEF Readers
<1> QED BY <1>1, <1>5, <1>6, <1>7 DEF ReadToken

\* The states of a reader between tokens.
ReadsThrough(V, r, n, ts, T) ==
  /\ T \in [0..n -> Readers(V)] /\ T[0] = r
  /\ \A m \in 0..(n - 1) : T[m + 1] = ReadToken(T[m], ts[m + 1])
  /\ FoldLeft(ReadToken, r, ts) = T[n]

LEMMA ReadSteps ==
  ASSUME NEW V, "\n" \in V, NEW r \in Readers(V), NEW n \in Nat, NEW ts \in Seq(V), Len(ts) = n
  PROVE  \E T : ReadsThrough(V, r, n, ts, T)
<1> DEFINE step == [x \in (1..n) \X Readers(V) |-> ReadToken(x[2], ts[x[1]])]
           Solves(g) == g = [s \in SUBSET (1..n) |->
                               IF s = {} THEN r ELSE ReadToken(g[s \ {Max(s)}], ts[Max(s)])]
<1>0. DOMAIN ts = 1..n /\ \A i \in 1..n : ts[i] \in V
  BY ElementOfSeq
<1>1. step \in [(1..n) \X Readers(V) -> Readers(V)]
  <2>1. \A i \in 1..n, w \in Readers(V) : ReadToken(w, ts[i]) \in Readers(V)
    BY <1>0, ReadType
  <2> QED BY <2>1
<1>2. PICK g \in [SUBSET (1..n) -> Readers(V)] : FoldsSteps(g, r, n, step)
  <2> HIDE DEF step
  <2> QED BY <1>1, FoldExists
<1>3. Solves(g)
  <2>1. ASSUME NEW s \in SUBSET (1..n), s # {}
        PROVE  step[<<Max(s), g[s \ {Max(s)}]>>] = ReadToken(g[s \ {Max(s)}], ts[Max(s)])
    <3>1. s \in SUBSET (0..n)
      OBVIOUS
    <3>2. Max(s) \in 1..n
      BY <2>1, <3>1, MaxIs
    <3>3. g[s \ {Max(s)}] \in Readers(V)
      BY <1>2
    <3> QED BY <3>2, <3>3
  <2> HIDE DEF step
  <2> QED BY <1>2, <2>1, Zenon DEF FoldsSteps
<1> HIDE DEF Solves
<1> DEFINE h == CHOOSE g1 : Solves(g1)
<1>4. Solves(h)
  BY <1>3, Zenon
<1>5. FoldLeft(ReadToken, r, ts) = h[1..n]
  BY <1>0, Zenon DEF FoldLeft, MapThenFoldSet, Solves
<1> HIDE DEF h
<1> DEFINE T == [m \in 0..n |-> h[1..m]]
<1>6. T[0] = r
  <2>1. 1..0 = {} /\ {} \in SUBSET (1..n) /\ 0 \in 0..n
    OBVIOUS
  <2>2. h[{}] = r
    BY <1>4, <2>1, Zenon DEF Solves
  <2> QED BY <2>1, <2>2
<1>7. ASSUME NEW m \in 0..(n - 1) PROVE T[m + 1] = ReadToken(T[m], ts[m + 1])
  <2>1. m \in Nat /\ m \in 0..n /\ m + 1 \in 0..n
    OBVIOUS
  <2>2. /\ 1..(m + 1) \in SUBSET (1..n) /\ 1..(m + 1) # {}
        /\ Max(1..(m + 1)) = m + 1 /\ (1..(m + 1)) \ {m + 1} = 1..m
    BY SegmentOf
  <2>3. h[1..(m + 1)] = ReadToken(h[(1..(m + 1)) \ {Max(1..(m + 1))}], ts[Max(1..(m + 1))])
    BY <1>4, <2>2, Zenon DEF Solves
  <2> QED BY <2>1, <2>2, <2>3
<1>8. T[n] = h[1..n] /\ T = [m \in 0..n |-> T[m]]
  OBVIOUS
<1> HIDE DEF T
<1>9. \A m \in 0..n : T[m] \in Readers(V)
  <2> DEFINE S == {m \in Nat : m <= n => T[m] \in Readers(V)}
  <2>1. 0 \in S
    BY <1>6
  <2>2. ASSUME NEW m \in Nat, m \in S PROVE m + 1 \in S
    <3> SUFFICES ASSUME m + 1 <= n PROVE T[m + 1] \in Readers(V)
      OBVIOUS
    <3>1. m <= n /\ m \in 0..(n - 1) /\ m + 1 \in 1..n
      OBVIOUS
    <3>2. T[m] \in Readers(V) /\ ts[m + 1] \in V
      BY <1>0, <2>2, <3>1
    <3> QED BY <1>7, <3>1, <3>2, ReadType
  <2> HIDE DEF S
  <2>3. \A m \in Nat : m \in S
    BY <2>1, <2>2, AllNaturals
  <2> QED BY <2>3 DEF S
<1>10. T \in [0..n -> Readers(V)]
  BY <1>8, <1>9
<1> QED BY <1>5, <1>6, <1>7, <1>8, <1>10, Zenon DEF ReadsThrough

\* One token more.
LEMMA ReadMore ==
  ASSUME NEW V, "\n" \in V, NEW r \in Readers(V), NEW ts \in Seq(V), NEW c \in V
  PROVE  /\ FoldLeft(ReadToken, r, ts) \in Readers(V)
         /\ FoldLeft(ReadToken, r, Append(ts, c)) = ReadToken(FoldLeft(ReadToken, r, ts), c)
<1>1. PICK n \in Nat : n = Len(ts)
  OBVIOUS
<1>a. PICK T : ReadsThrough(V, r, n, ts, T)
  BY <1>1, ReadSteps, Zenon
<1>2. /\ T \in [0..n -> Readers(V)] /\ T[0] = r
      /\ \A m \in 0..(n - 1) : T[m + 1] = ReadToken(T[m], ts[m + 1])
      /\ FoldLeft(ReadToken, r, ts) = T[n]
  BY <1>a, Zenon DEF ReadsThrough
<1>3. PICK us \in Seq(V) : us = Append(ts, c) /\ Len(us) = n + 1 /\ us[n + 1] = c /\ \A m \in 1..n : us[m] = ts[m]
  <2>1. Append(ts, c) \in Seq(V)
    BY Appends, Zenon
  <2>2. Len(Append(ts, c)) = n + 1 /\ Append(ts, c)[n + 1] = c /\ \A m \in 1..n : Append(ts, c)[m] = ts[m]
    BY <1>1, AppendAt
  <2> QED BY <2>1, <2>2, Zenon
<1>4. n + 1 \in Nat /\ (n + 1) - 1 = n
  OBVIOUS
<1>b. PICK U : ReadsThrough(V, r, n + 1, us, U)
  BY <1>3, <1>4, ReadSteps, Zenon
<1>5. /\ U[0] = r
      /\ \A m \in 0..((n + 1) - 1) : U[m + 1] = ReadToken(U[m], us[m + 1])
      /\ FoldLeft(ReadToken, r, us) = U[n + 1]
  BY <1>b, Zenon DEF ReadsThrough
<1>6. U[n] = T[n]
  <2> DEFINE S == {m \in Nat : m <= n => U[m] = T[m]}
  <2>1. 0 \in S
    BY <1>2, <1>5
  <2>2. ASSUME NEW m \in Nat, m \in S PROVE m + 1 \in S
    <3> SUFFICES ASSUME m + 1 <= n PROVE U[m + 1] = T[m + 1]
      OBVIOUS
    <3>1. m \in 0..(n - 1) /\ m \in 0..((n + 1) - 1) /\ m + 1 \in 1..n /\ m <= n
      OBVIOUS
    <3>2. U[m] = T[m] /\ us[m + 1] = ts[m + 1]
      BY <1>3, <2>2, <3>1
    <3> QED BY <1>2, <1>5, <3>1, <3>2, Zenon
  <2> HIDE DEF S
  <2>3. n \in S
    BY <2>1, <2>2, AllNaturals
  <2>4. n <= n
    OBVIOUS
  <2> QED BY <2>3, <2>4 DEF S
<1>7. n \in 0..((n + 1) - 1) /\ n \in 0..n
  OBVIOUS
<1>8. U[n + 1] = ReadToken(T[n], c)
  BY <1>3, <1>5, <1>6, <1>7, Zenon
<1>9. T[n] \in Readers(V)
  BY <1>2, <1>7
<1> QED BY <1>2, <1>3, <1>5, <1>8, <1>9, Zenon

\* What is between quotes.
Specials == {"\n", "\"", "\\", "n"}
Quotable(V) == Specials \subseteq V
Quoting(r) == r.quoted = TRUE /\ r.escaped = FALSE
With(r, word) == [r EXCEPT !.field = r.field \o word]

LEMMA WithIs ==
  ASSUME NEW V, NEW r \in Readers(V), Quoting(r), NEW word \in Seq(V)
  PROVE  /\ With(r, word) \in Readers(V) /\ Quoting(With(r, word))
         /\ With(r, word).field = r.field \o word
<1>1. r.field \in Seq(V)
  BY DEF Readers
<1>2. r.field \o word \in Seq(V)
  BY <1>1, Closed, Zenon
<1> QED BY <1>2 DEF Readers, With, Quoting

LEMMA TwoMore ==
  ASSUME NEW V, NEW s \in Seq(V), NEW a \in V, NEW d \in V
  PROVE  s \o <<a, d>> = Append(Append(s, a), d) /\ Append(Append(s, a), d) \in Seq(V)
<1>1. PICK x \in Seq(V), y \in Seq(V) : x = <<a>> /\ y = <<d>> /\ x \o y = <<a, d>>
  <2>1. <<a>> \in Seq(V) /\ <<d>> \in Seq(V)
    OBVIOUS
  <2>2. <<a>> \o <<d>> = <<a, d>>
    BY TwoElements, Zenon
  <2> QED BY <2>1, <2>2, Zenon
<1>2. Append(s, a) \in Seq(V) /\ Append(s, a) = s \o x
  BY <1>1, AppendIsConcat
<1>3. PICK z \in Seq(V) : z = Append(s, a)
  BY <1>2, Zenon
<1>4. Append(z, d) \in Seq(V) /\ Append(z, d) = z \o y
  BY <1>1, AppendIsConcat
<1>5. Regrouped(s, x, y)
  BY Associative, Zenon
<1> QED BY <1>1, <1>2, <1>3, <1>4, <1>5, Zenon DEF Regrouped

\* A character, escaped if it needs to be.
LEMMA CharacterReads ==
  ASSUME NEW V, Quotable(V), NEW r \in Readers(V), NEW ts \in Seq(V), NEW c \in V,
         NEW q \in Readers(V), q = FoldLeft(ReadToken, r, ts), Quoting(q)
  PROVE  ts \o Escaped(c) \in Seq(V)
         /\ FoldLeft(ReadToken, r, ts \o Escaped(c)) = [q EXCEPT !.field = Append(q.field, c)]
<1>1. "\n" \in V /\ "\"" \in V /\ "\\" \in V /\ "n" \in V
  BY DEF Quotable, Specials
<1>2. \A d \in V : ts \o <<d>> = Append(ts, d) /\ Append(ts, d) \in Seq(V)
  OBVIOUS
<1>3. \A d \in V : ts \o <<"\\", d>> = Append(Append(ts, "\\"), d) /\ Append(Append(ts, "\\"), d) \in Seq(V)
  BY <1>1, TwoMore, Zenon
<1>4. \A d \in V : FoldLeft(ReadToken, r, Append(ts, d)) = ReadToken(q, d)
  BY <1>1, ReadMore, ZenonT(40)
<1>5. ReadToken(q, "\\") = [q EXCEPT !.escaped = TRUE]
  BY Zenon DEF ReadToken, Quoting
<1>6. \A d \in V : FoldLeft(ReadToken, r, Append(Append(ts, "\\"), d)) = ReadToken([q EXCEPT !.escaped = TRUE], d)
  <2>1. PICK us \in Seq(V) : us = Append(ts, "\\")
    BY <1>1, <1>2, Zenon
  <2>2. FoldLeft(ReadToken, r, us) = [q EXCEPT !.escaped = TRUE]
    BY <1>1, <1>4, <1>5, <2>1, Zenon
  <2>3. \A d \in V : FoldLeft(ReadToken, r, Append(us, d)) = ReadToken(FoldLeft(ReadToken, r, us), d)
    BY ONLY <1>1, ReadMore, ZenonT(40)
  <2> QED BY <2>1, <2>2, <2>3, Zenon
<1>7. \A d \in V : /\ ts \o <<"\\", d>> \in Seq(V)
                   /\ FoldLeft(ReadToken, r, ts \o <<"\\", d>>) = ReadToken([q EXCEPT !.escaped = TRUE], d)
  BY <1>3, <1>6, Zenon
<1>8. \A d \in V : ReadToken([q EXCEPT !.escaped = TRUE], d)
                     = [q EXCEPT !.field = Append(q.field, IF d = "n" THEN "\n" ELSE d)]
  BY ZenonT(40) DEF ReadToken, Quoting, Readers
<1>9. CASE c = "\n"
  <2>1. Escaped(c) = <<"\\", "n">>
    BY <1>9 DEF Escaped
  <2>2. (IF "n" = "n" THEN "\n" ELSE "n") = c
    BY <1>9
  <2> QED BY <1>1, <1>7, <1>8, <2>1, <2>2, Zenon
<1>10. CASE c \in {"\"", "\\"}
  <2>1. Escaped(c) = <<"\\", c>> /\ c # "n"
    BY <1>10 DEF Escaped
  <2>2. (IF c = "n" THEN "\n" ELSE c) = c
    BY <2>1
  <2> QED BY <1>1, <1>7, <1>8, <2>1, <2>2, Zenon
<1>11. CASE c \notin {"\n", "\"", "\\"}
  <2>1. Escaped(c) = <<c>>
    BY <1>11 DEF Escaped
  <2>2. ReadToken(q, c) = [q EXCEPT !.field = Append(q.field, c)]
    BY <1>11, Zenon DEF ReadToken, Quoting
  <2> QED BY <1>2, <1>4, <2>1, <2>2
<1> QED BY <1>9, <1>10, <1>11

Continues(r, ts, c, t) == FoldLeft(ReadToken, r, ts \o Escaped(c)) = [t EXCEPT !.field = Append(t.field, c)]

LEMMA ThenCharacter ==
  ASSUME NEW V, Quotable(V), NEW r \in Readers(V), NEW ts \in Seq(V), NEW c \in V,
         NEW q \in Readers(V), q = FoldLeft(ReadToken, r, ts), Quoting(q)
  PROVE  Continues(r, ts, c, q)
<1>1. FoldLeft(ReadToken, r, ts \o Escaped(c)) = [q EXCEPT !.field = Append(q.field, c)]
  BY CharacterReads
<1> QED BY <1>1, Zenon DEF Continues

LEMMA EscapedIs ==
  ASSUME NEW V, Quotable(V), NEW c \in V
  PROVE  Escaped(c) \in Seq(V) /\ Escaped(c) # <<>>
<1>1. "\n" \in V /\ "\"" \in V /\ "\\" \in V /\ "n" \in V
  BY DEF Quotable, Specials
<1>2. ASSUME NEW d \in V
      PROVE  <<d>> \in Seq(V) /\ <<"\\", d>> \in Seq(V)
  <2>1. <<d>> \in Seq(V)
    OBVIOUS
  <2>2. PICK b \in V : b = "\\"
    BY <1>1, Zenon
  <2>3. <<b, d>> \in Seq(V)
    BY TwoElements
  <2> QED BY <2>1, <2>2, <2>3, Zenon
<1>3. \A d : <<d>> # <<>> /\ <<"\\", d>> # <<>>
  OBVIOUS
<1> QED BY <1>1, <1>2, <1>3 DEF Escaped

\* What a reader has between quotes, after the first m characters of a text.
HasRead(V, r, q, word, m) ==
  /\ q \in Readers(V) /\ q = [r EXCEPT !.field = r.field \o SubSeq(word, 1, m)]

LEMMA WordReads ==
  ASSUME NEW V, Quotable(V), NEW r \in Readers(V), Quoting(r), NEW word \in Seq(V), word # <<>>
  PROVE  /\ render_escaped(word) \in Seq(V)
         /\ FoldLeft(ReadToken, r, render_escaped(word)) = [r EXCEPT !.field = r.field \o word]
<1>1. PICK n \in Nat : n = Len(word) /\ DOMAIN word = 1..n /\ n # 0
  BY EmptySeq
<1>2. PICK q \in Seq(Seq(V)) : /\ q = [i \in DOMAIN word |-> Escaped(word[i])]
                               /\ Len(q) = n /\ \A i \in 1..n : q[i] = Escaped(word[i])
  <2>1. \A i \in 1..n : word[i] \in V
    BY <1>1, ElementOfSeq
  <2>2. \A i \in 1..n : Escaped(word[i]) \in Seq(V)
    BY <2>1, EscapedIs
  <2>3. PICK p : p = [i \in 1..n |-> Escaped(word[i])]
    OBVIOUS
  <2>4. p \in Seq(Seq(V)) /\ Len(p) = n /\ \A i \in 1..n : p[i] = Escaped(word[i])
    BY <2>2, <2>3
  <2> QED BY <1>1, <2>3, <2>4, Zenon
<1>3. q # <<>>
  BY <1>1, <1>2, EmptySeq
<1>4. PICK f \in [1..n -> Seq(V)] :
        /\ f[1] = q[1]
        /\ \A i \in 1..(n - 1) : f[i + 1] = f[i] \o q[i + 1]
        /\ FlattenSeq(q) = f[n]
  <2>1. \E g \in [1..Len(q) -> Seq(V)] :
          /\ g[1] = q[1]
          /\ \A i \in 1..(Len(q) - 1) : g[i + 1] = g[i] \o q[i + 1]
          /\ FlattenSeq(q) = g[Len(q)]
    BY <1>3, FlattenSteps
  <2> QED BY <1>2, <2>1, Zenon
<1> DEFINE Fold(i) == FoldLeft(ReadToken, r, f[i])
<1>5. "\n" \in V /\ r.field \in Seq(V)
  BY DEF Quotable, Specials, Readers
<1>6. FoldLeft(ReadToken, r, <<>>) = r
  <2>1. <<>> \in Seq(V) /\ Len(<<>>) = 0
    OBVIOUS
  <2>2. PICK T : ReadsThrough(V, r, 0, <<>>, T)
    <3>1. 0 \in Nat
      OBVIOUS
    <3> QED BY <1>5, <2>1, <3>1, ReadSteps, Zenon
  <2> QED BY <2>2, Zenon DEF ReadsThrough
<1>7. \A i \in 1..n : word[i] \in V
  BY <1>1, ElementOfSeq
<1>8. ASSUME NEW i \in 1..n, NEW ts \in Seq(V), NEW t \in Readers(V), t = FoldLeft(ReadToken, r, ts),
             t = [r EXCEPT !.field = r.field \o SubSeq(word, 1, i - 1)]
      PROVE  FoldLeft(ReadToken, r, ts \o q[i]) = [r EXCEPT !.field = r.field \o SubSeq(word, 1, i)]
  <2>1. Quoting(t) /\ t.field = r.field \o SubSeq(word, 1, i - 1)
    BY <1>8 DEF Quoting, Readers
  <2>0. PICK c \in V : c = word[i] /\ q[i] = Escaped(c)
    BY <1>2, <1>7, Zenon
  <2>2. FoldLeft(ReadToken, r, ts \o q[i]) = [t EXCEPT !.field = Append(t.field, word[i])]
    <3>0. Quotable(V) /\ t = FoldLeft(ReadToken, r, ts) /\ Quoting(t)
      BY <1>8, <2>1, Zenon
    <3>1. FoldLeft(ReadToken, r, ts \o Escaped(c)) = [t EXCEPT !.field = Append(t.field, c)]
      <4>1. Continues(r, ts, c, t)
        BY <3>0, ThenCharacter, Zenon
      <4> QED BY <4>1, Zenon DEF Continues
    <3> QED BY <2>0, <3>1, Zenon
  <2>3. Append(t.field, word[i]) = r.field \o SubSeq(word, 1, i)
    <3>1. i - 1 \in 0..(n - 1) /\ (i - 1) + 1 = i
      OBVIOUS
    <3>2. PICK x \in Seq(V) : x = SubSeq(word, 1, i - 1)
      <4>1. 1 \in Nat /\ 1 >= 1 /\ i - 1 \in Nat /\ i - 1 <= Len(word)
        BY <1>1
      <4> QED BY <4>1, PiecesAreText, Zenon
    <3>3. PICK y \in Seq(V) : y = <<word[i]>>
      <4>1. <<c>> \in Seq(V)
        OBVIOUS
      <4> QED BY <2>0, <4>1, Zenon
    <3>4. SubSeq(word, 1, i) = x \o y
      <4>1. SubSeq(word, 1, i) = Append(SubSeq(word, 1, i - 1), word[i])
        BY <1>1, <3>1
      <4> QED BY <3>2, <3>3, <4>1, AppendIsConcat, SMTT(20)
    <3>5. t.field = r.field \o x /\ r.field \o x \in Seq(V)
      BY <1>5, <2>1, <3>2, Closed, Zenon
    <3>6. Append(r.field \o x, word[i]) = (r.field \o x) \o y
      BY <1>7, <3>3, <3>5, AppendIsConcat
    <3>7. Regrouped(r.field, x, y)
      BY <1>5, Associative, Zenon
    <3> QED BY <3>4, <3>5, <3>6, <3>7, Zenon DEF Regrouped
  <2> QED BY <1>8, <2>2, <2>3
<1> DEFINE Reads(i) == /\ Fold(i) \in Readers(V)
                       /\ Fold(i) = [r EXCEPT !.field = r.field \o SubSeq(word, 1, i)]
           S == {i \in Nat : i + 1 <= n => Reads(i + 1)}
<1>9. \A i \in 0..n : \A x : x = [r EXCEPT !.field = r.field \o SubSeq(word, 1, i)] => x \in Readers(V)
  <2> SUFFICES ASSUME NEW i \in 0..n PROVE [r EXCEPT !.field = r.field \o SubSeq(word, 1, i)] \in Readers(V)
    OBVIOUS
  <2>1. SubSeq(word, 1, i) \in Seq(V)
    <3>1. 1 \in Nat /\ 1 >= 1 /\ i \in Nat /\ i <= Len(word)
      BY <1>1
    <3> QED BY <3>1, PiecesAreText, Zenon
  <2>2. r.field \o SubSeq(word, 1, i) \in Seq(V)
    BY <1>5, <2>1, Closed, Zenon
  <2> QED BY <2>2 DEF Readers
<1>10. 0 \in S
  <2>0. 1 \in 1..n /\ 1 - 1 = 0 /\ 1 \in 0..n /\ 0 + 1 = 1
    BY <1>1
  <2>1. <<>> \in Seq(V)
    OBVIOUS
  <2>2. r = [r EXCEPT !.field = r.field \o SubSeq(word, 1, 0)]
    <3>1. SubSeq(word, 1, 0) = <<>>
      BY <1>1
    <3>2. r.field \o <<>> = r.field
      BY <1>5, ConcatEmptySeq
    <3>3. r = [r EXCEPT !.field = r.field]
      BY DEF Readers
    <3> QED BY <3>1, <3>2, <3>3, Zenon
  <2>3. FoldLeft(ReadToken, r, <<>> \o q[1]) = [r EXCEPT !.field = r.field \o SubSeq(word, 1, 1)]
    BY <1>6, <1>8, <2>0, <2>1, <2>2, Zenon
  <2>4. <<>> \o q[1] = f[1]
    <3>1. q[1] \in Seq(V)
      BY <1>1, <1>2, <2>0, ElementOfSeq
    <3> QED BY <1>4, <3>1, ConcatEmptySeq
  <2>5. Fold(1) = [r EXCEPT !.field = r.field \o SubSeq(word, 1, 1)]
    BY <2>3, <2>4, Zenon
  <2>6. Reads(1)
    BY <1>9, <2>0, <2>5, Zenon
  <2> HIDE DEF Reads
  <2> QED BY <2>0, <2>6
<1>11. ASSUME NEW i \in Nat, i \in S PROVE i + 1 \in S
  <2> SUFFICES ASSUME (i + 1) + 1 <= n PROVE Reads((i + 1) + 1)
    OBVIOUS
  <2>1. PICK k \in 1..n : k = (i + 1) + 1
    OBVIOUS
  <2>2. i + 1 <= n /\ k - 1 = i + 1 /\ i + 1 \in 1..n /\ i + 1 \in 1..(n - 1) /\ k \in 0..n
    BY <2>1
  <2>3. Reads(i + 1)
    <3> HIDE DEF Reads
    <3> QED BY <1>11, <2>2
  <2>4. PICK ts \in Seq(V) : ts = f[i + 1]
    BY <1>4, <2>2
  <2>5. f[k] = ts \o q[k]
    BY <1>4, <2>1, <2>2, <2>4
  <2>6. FoldLeft(ReadToken, r, ts \o q[k]) = [r EXCEPT !.field = r.field \o SubSeq(word, 1, k)]
    BY <1>8, <2>2, <2>3, <2>4, Zenon
  <2>7. Fold(k) = [r EXCEPT !.field = r.field \o SubSeq(word, 1, k)]
    BY <2>5, <2>6, Zenon
  <2> QED BY <1>9, <2>1, <2>2, <2>7, Zenon
<1> HIDE DEF Reads
<1>12. Reads(n)
  <2>1. n - 1 \in Nat /\ (n - 1) + 1 = n /\ n <= n
    BY <1>1
  <2>2. n - 1 \in S
    <3> HIDE DEF S
    <3> QED BY <1>10, <1>11, <2>1, AllNaturals
  <2> QED BY <2>1, <2>2
<1>13. SubSeq(word, 1, n) = word
  BY <1>1
<1>14. render_escaped(word) = f[n]
  BY <1>2, <1>4, Zenon DEF render_escaped
<1>15. f[n] \in Seq(V)
  BY <1>1, <1>4, SMTT(20)
<1> QED BY <1>12, <1>13, <1>14, <1>15, Zenon DEF Reads

LEMMA NothingRead ==
  ASSUME NEW V, Quotable(V), NEW r \in Readers(V)
  PROVE  FoldLeft(ReadToken, r, <<>>) = r
<1>1. "\n" \in V
  BY DEF Quotable, Specials
<1>2. <<>> \in Seq(V) /\ Len(<<>>) = 0 /\ 0 \in Nat
  OBVIOUS
<1>3. PICK T : ReadsThrough(V, r, 0, <<>>, T)
  BY <1>1, <1>2, ReadSteps, Zenon
<1> QED BY <1>3, Zenon DEF ReadsThrough

LEMMA AnyWordReads ==
  ASSUME NEW V, Quotable(V), NEW r \in Readers(V), Quoting(r), NEW word \in Seq(V)
  PROVE  /\ render_escaped(word) \in Seq(V)
         /\ FoldLeft(ReadToken, r, render_escaped(word)) = [r EXCEPT !.field = r.field \o word]
<1>1. CASE word # <<>>
  BY <1>1, WordReads, Zenon
<1>2. CASE word = <<>>
  <2>1. [i \in DOMAIN word |-> Escaped(word[i])] = <<>>
    BY <1>2
  <2>2. FlattenSeq(<<>>) = <<>>
    <3>1. <<>> \in Seq(Seq(V))
      OBVIOUS
    <3>2. Len(<<>>) = 0
      OBVIOUS
    <3> QED BY <3>2, Zenon DEF FlattenSeq
  <2>3. render_escaped(word) = <<>>
    BY <2>1, <2>2, Zenon DEF render_escaped
  <2>4. r.field \o <<>> = r.field /\ [r EXCEPT !.field = r.field] = r
    BY ConcatEmptySeq DEF Readers
  <2>5. <<>> \in Seq(V)
    OBVIOUS
  <2> QED BY <1>2, <2>3, <2>4, <2>5, NothingRead, Zenon
<1> QED BY <1>1, <1>2, Zenon

(* Whatever a label's value is, its quotes, backslashes and line feeds      *)
(* included, a reader that has passed the opening quote has that value and  *)
(* nothing else once it passes the closing one: no value ends its label, or *)
(* its line, early (the case table of render_escaped).                      *)
THEOREM LabelsReadBack ==
  ASSUME NEW V, Quotable(V), NEW r \in Readers(V), Quoting(r), NEW word \in Seq(V)
  PROVE  FoldLeft(ReadToken, r, render_escaped(word) \o <<"\"">>)
           = [r EXCEPT !.field = r.field \o word, !.quoted = FALSE]
<1>1. "\n" \in V /\ "\"" \in V
  BY DEF Quotable, Specials
<1>2. PICK q : q = With(r, word)
  OBVIOUS
<1>3. PICK ts \in Seq(V) : ts = render_escaped(word) /\ FoldLeft(ReadToken, r, ts) = q
  BY <1>2, AnyWordReads, Zenon DEF With
<1>4. ts \o <<"\"">> = Append(ts, "\"")
  <2>1. \A d \in V : ts \o <<d>> = Append(ts, d)
    OBVIOUS
  <2> QED BY <1>1, <2>1, Zenon
<1>5. FoldLeft(ReadToken, r, Append(ts, "\"")) = ReadToken(FoldLeft(ReadToken, r, ts), "\"")
  BY <1>1, ReadMore, Zenon
<1>6. q \in Readers(V) /\ Quoting(q)
  BY <1>2, WithIs, Zenon
<1>7. ReadToken(q, "\"") = [q EXCEPT !.quoted = FALSE]
  BY <1>6 DEF ReadToken, Quoting
<1>8. [q EXCEPT !.quoted = FALSE] = [r EXCEPT !.field = r.field \o word, !.quoted = FALSE]
  BY <1>2 DEF With, Readers
<1> QED BY <1>3, <1>4, <1>5, <1>7, <1>8, Zenon

-----------------------------------------------------------------------------
(* A sample's line in the report is read back whole: its name, its labels, *)
(* its value and its time, each a field of its own.                        *)

LEMMA EmptyIsText == \A V : <<>> \in Seq(V)
OBVIOUS
LEMMA TokenIsText == \A V : \A c \in V : <<c>> \in Seq(V)
OBVIOUS
LEMMA TokensOf == \A V, T : T \subseteq V => \A s \in Seq(T) : s \in Seq(V)
OBVIOUS

\* What ends a field, or is not read as part of one.
Cuts == {" ", "{", "=", ",", "}", "\n", "\"", "\\"}

\* The tokens the renderers write of their own.
Renderer == Signs \cup ToSet(Figures)
            \cup {"n", "_", "x", ".", "error", ":", "__empty__", "__empty", "info", "total", "created"}
Writable(V) == Renderer \subseteq V

\* A reader outside of quotes that has seen fields of a line.
Midline(f, fields) == [field |-> f, fields |-> fields, lines |-> <<>>, quoted |-> FALSE, escaped |-> FALSE]

\* What a reader makes of tokens, from one state to another.
Takes(V, r, ts, q) == ts \in Seq(V) /\ q \in Readers(V) /\ FoldLeft(ReadToken, r, ts) = q

LEMMA FiguresAre == ToSet(Figures) = {"0", "1", "2", "3", "4", "5", "6", "7", "8", "9"}
<1>1. DOMAIN Figures = 1..10
  BY DEF Figures
<1>2. \A i \in 1..10 : i = 1 \/ i = 2 \/ i = 3 \/ i = 4 \/ i = 5 \/ i = 6 \/ i = 7 \/ i = 8 \/ i = 9 \/ i = 10
  OBVIOUS
<1>3. /\ 1 \in 1..10 /\ 2 \in 1..10 /\ 3 \in 1..10 /\ 4 \in 1..10 /\ 5 \in 1..10
      /\ 6 \in 1..10 /\ 7 \in 1..10 /\ 8 \in 1..10 /\ 9 \in 1..10 /\ 10 \in 1..10
  OBVIOUS
<1>4. /\ Figures[1] = "0" /\ Figures[2] = "1" /\ Figures[3] = "2" /\ Figures[4] = "3" /\ Figures[5] = "4"
      /\ Figures[6] = "5" /\ Figures[7] = "6" /\ Figures[8] = "7" /\ Figures[9] = "8" /\ Figures[10] = "9"
  BY DEF Figures
<1>5. ToSet(Figures) = {Figures[i] : i \in 1..10}
  BY <1>1 DEF ToSet
<1> QED BY <1>2, <1>3, <1>4, <1>5

LEMMA WritableHas ==
  ASSUME NEW V, Writable(V)
  PROVE  /\ Quotable(V) /\ Cuts \subseteq V
         /\ "\n" \in V /\ "\"" \in V /\ " " \in V /\ "{" \in V /\ "," \in V /\ "=" \in V /\ "}" \in V
         /\ {"_", "x", "n", ".", "-", ":", "error", "__empty__", "__empty", "info", "total", "created"} \subseteq V \ Cuts
         /\ ToSet(Figures) \subseteq V \ Cuts
BY FiguresAre DEF Writable, Renderer, Signs, Quotable, Specials, Cuts

LEMMA MidlineType ==
  ASSUME NEW V, NEW f \in Seq(V), NEW fields \in Seq(Seq(V))
  PROVE  Midline(f, fields) \in Readers(V)
<1>1. <<>> \in Seq(Seq(Seq(V)))
  OBVIOUS
<1> QED BY <1>1 DEF Midline, Readers

LEMMA TakesNone ==
  ASSUME NEW V, "\n" \in V, NEW r \in Readers(V)
  PROVE  Takes(V, r, <<>>, r)
<1>1. <<>> \in Seq(V) /\ Len(<<>>) = 0 /\ 0 \in Nat
  OBVIOUS
<1>2. PICK T : ReadsThrough(V, r, 0, <<>>, T)
  BY <1>1, ReadSteps, Zenon
<1> QED BY <1>1, <1>2, Zenon DEF ReadsThrough, Takes

\* One text after another.
LEMMA TakesBoth ==
  ASSUME NEW V, "\n" \in V, NEW r \in Readers(V), NEW a, NEW b, NEW q, NEW p,
         Takes(V, r, a, q), Takes(V, q, b, p)
  PROVE  Takes(V, r, a \o b, p)
<1>1. a \in Seq(V) /\ b \in Seq(V) /\ q \in Readers(V) /\ p \in Readers(V)
      /\ FoldLeft(ReadToken, r, a) = q /\ FoldLeft(ReadToken, q, b) = p
  BY Zenon DEF Takes
<1>a. q \in Readers(V)
  BY <1>1
<1>2. PICK n \in Nat : n = Len(b)
  BY <1>1
<1>3. /\ SubSeq(b, 1, 0) = <<>> /\ SubSeq(b, 1, n) = b
      /\ \A k \in 0..(n - 1) : Append(SubSeq(b, 1, k), b[k + 1]) = SubSeq(b, 1, k + 1)
  BY <1>1, <1>2, OneTaken
<1> DEFINE S == {k \in Nat : k <= n => FoldLeft(ReadToken, r, a \o SubSeq(b, 1, k))
                                         = FoldLeft(ReadToken, q, SubSeq(b, 1, k))}
<1>4. 0 \in S
  <2>1. a \o <<>> = a
    BY <1>1, ConcatEmptySeq
  <2>2. FoldLeft(ReadToken, q, <<>>) = q
    BY <1>a, TakesNone, Zenon DEF Takes
  <2>3. 0 \in Nat
    OBVIOUS
  <2> QED BY <1>1, <1>3, <2>1, <2>2, <2>3
<1>5. ASSUME NEW k \in Nat, k \in S PROVE k + 1 \in S
  <2> SUFFICES ASSUME k + 1 <= n
               PROVE  FoldLeft(ReadToken, r, a \o SubSeq(b, 1, k + 1)) = FoldLeft(ReadToken, q, SubSeq(b, 1, k + 1))
    OBVIOUS
  <2>1. k <= n /\ k \in 0..(n - 1) /\ k + 1 \in 1..n
    BY <1>2
  <2>2. PICK c \in V : c = b[k + 1]
    <3>1. b[k + 1] \in V
      BY <1>1, <1>2, <2>1, ElementOfSeq
    <3> QED BY <3>1
  <2>3. PICK s \in Seq(V) : s = SubSeq(b, 1, k) /\ Append(s, c) = SubSeq(b, 1, k + 1)
    <3>1. SubSeq(b, 1, k) \in Seq(V)
      BY <1>1, <1>2, <2>1, Beginning
    <3> QED BY <1>3, <2>1, <2>2, <3>1, Zenon
  <2>4. FoldLeft(ReadToken, r, a \o s) = FoldLeft(ReadToken, q, s)
    BY <1>5, <2>1, <2>3
  <2>5. PICK t \in Seq(V) : t = a \o s
    BY <1>1, <2>3, Closed, Zenon
  <2>6. a \o Append(s, c) = Append(t, c)
    <3>1. <<c>> \in Seq(V)
      OBVIOUS
    <3>2. Append(s, c) = s \o <<c>> /\ Append(t, c) = t \o <<c>>
      BY AppendIsConcat
    <3>3. Regrouped(a, s, <<c>>)
      BY <1>1, <3>1, Associative, Zenon
    <3> QED BY <2>5, <3>2, <3>3, Zenon DEF Regrouped
  <2>7. FoldLeft(ReadToken, r, Append(t, c)) = ReadToken(FoldLeft(ReadToken, r, t), c)
    BY ReadMore, Zenon
  <2>8. FoldLeft(ReadToken, q, Append(s, c)) = ReadToken(FoldLeft(ReadToken, q, s), c)
    BY <1>a, ReadMore, ZenonT(40)
  <2> QED BY <2>3, <2>4, <2>5, <2>6, <2>7, <2>8, Zenon
<1>6. n \in S /\ n <= n
  <2> HIDE DEF S
  <2>1. n \in S
    BY <1>4, <1>5, AllNaturals
  <2> QED BY <2>1
<1>7. FoldLeft(ReadToken, r, a \o b) = FoldLeft(ReadToken, q, b)
  BY <1>3, <1>6
<1>8. a \o b \in Seq(V)
  BY <1>1, Closed, Zenon
<1> QED BY <1>1, <1>7, <1>8, Zenon DEF Takes

LEMMA TakesOne ==
  ASSUME NEW V, "\n" \in V, NEW r \in Readers(V), NEW c \in V
  PROVE  Takes(V, r, <<c>>, ReadToken(r, c))
<1>1. <<>> \in Seq(V) /\ <<c>> \in Seq(V) /\ Append(<<>>, c) = <<c>>
  OBVIOUS
<1>2. FoldLeft(ReadToken, r, <<>>) = r
  BY TakesNone, Zenon DEF Takes
<1>3. FoldLeft(ReadToken, r, Append(<<>>, c)) = ReadToken(FoldLeft(ReadToken, r, <<>>), c)
  BY <1>1, ReadMore, ZenonT(40)
<1>4. ReadToken(r, c) \in Readers(V)
  BY ReadType, Zenon
<1> QED BY <1>1, <1>2, <1>3, <1>4, Zenon DEF Takes

LEMMA PlainTaken ==
  ASSUME NEW V, Writable(V), NEW f \in Seq(V), NEW fields \in Seq(Seq(V)), NEW ts \in Seq(V \ Cuts)
  PROVE  Takes(V, Midline(f, fields), ts, Midline(f \o ts, fields))
<1>0. "\n" \in V /\ Midline(f, fields) \in Readers(V) /\ <<>> \in Seq(V)
  <2>1. "\n" \in V
    BY WritableHas
  <2>2. Midline(f, fields) \in Readers(V)
    BY MidlineType, Zenon
  <2>3. <<>> \in Seq(V)
    OBVIOUS
  <2> QED BY <2>1, <2>2, <2>3, Zenon
<1>1. PICK n \in Nat : n = Len(ts)
  OBVIOUS
<1>2. /\ SubSeq(ts, 1, 0) = <<>> /\ SubSeq(ts, 1, n) = ts
      /\ \A k \in 0..(n - 1) : Append(SubSeq(ts, 1, k), ts[k + 1]) = SubSeq(ts, 1, k + 1)
  BY <1>1, OneTaken
<1> DEFINE P(k) == Takes(V, Midline(f, fields), SubSeq(ts, 1, k), Midline(f \o SubSeq(ts, 1, k), fields))
           S == {k \in Nat : k <= n => P(k)}
<1> HIDE DEF P
<1>3. 0 \in S
  <2>1. f \o <<>> = f
    BY ConcatEmptySeq
  <2>2. P(0)
    BY <1>0, <1>2, <2>1, TakesNone, Zenon DEF P
  <2> QED BY <2>2
<1>4. ASSUME NEW k \in Nat, k \in S PROVE k + 1 \in S
  <2> SUFFICES ASSUME k + 1 <= n PROVE P(k + 1)
    OBVIOUS
  <2>1. k <= n /\ k \in 0..(n - 1) /\ k + 1 \in 1..n
    BY <1>1
  <2>2. PICK c \in V : c = ts[k + 1] /\ c \notin Cuts
    <3>1. ts[k + 1] \in V \ Cuts
      BY <1>1, <2>1, ElementOfSeq
    <3> QED BY <3>1
  <2>3. PICK s \in Seq(V) : s = SubSeq(ts, 1, k) /\ Append(s, c) = SubSeq(ts, 1, k + 1)
    <3>1. SubSeq(ts, 1, k) \in Seq(V \ Cuts)
      BY <1>1, <2>1, Beginning
    <3>2. SubSeq(ts, 1, k) \in Seq(V)
      BY <3>1
    <3> QED BY <1>2, <2>1, <2>2, <3>2, Zenon
  <2>4. Takes(V, Midline(f, fields), s, Midline(f \o s, fields))
    <3>1. P(k)
      BY <1>4, <2>1
    <3> QED BY <2>3, <3>1, Zenon DEF P
  <2>5. PICK t \in Seq(V) : t = f \o s
    BY <2>3, Closed, Zenon
  <2>6. Midline(t, fields) \in Readers(V)
    BY MidlineType, Zenon
  <2>7. ReadToken(Midline(t, fields), c) = Midline(Append(t, c), fields)
    BY <2>2 DEF ReadToken, Midline, Cuts
  <2>8. Takes(V, Midline(t, fields), <<c>>, Midline(Append(t, c), fields))
    BY <1>0, <2>6, <2>7, TakesOne, Zenon
  <2>9. Takes(V, Midline(f, fields), s \o <<c>>, Midline(Append(t, c), fields))
    BY <1>0, <2>4, <2>5, <2>8, TakesBoth, Zenon
  <2>10. s \o <<c>> = Append(s, c) /\ Append(t, c) = t \o <<c>>
    BY AppendIsConcat
  <2>11. t \o <<c>> = f \o Append(s, c)
    <3>1. <<c>> \in Seq(V)
      OBVIOUS
    <3>2. Regrouped(f, s, <<c>>)
      BY <3>1, Associative, Zenon
    <3> QED BY <2>5, <2>10, <3>2, Zenon DEF Regrouped
  <2> QED BY <2>3, <2>9, <2>10, <2>11, Zenon DEF P
<1>5. P(n)
  <2> HIDE DEF S
  <2>1. n \in S
    BY <1>3, <1>4, AllNaturals
  <2>2. n <= n
    OBVIOUS
  <2> QED BY <2>1, <2>2 DEF S
<1> QED BY <1>2, <1>5, Zenon DEF P

\* A sign that ends a field.
LEMMA FieldEnds ==
  ASSUME NEW V, Writable(V), NEW f \in Seq(V), NEW fields \in Seq(Seq(V)), NEW c \in {" ", "{", "=", ","}
  PROVE  Takes(V, Midline(f, fields), <<c>>, Midline(<<>>, Append(fields, f)))
<1>1. c \in V /\ "\n" \in V /\ Midline(f, fields) \in Readers(V)
  BY WritableHas, MidlineType
<1>2. ReadToken(Midline(f, fields), c) = Midline(<<>>, Append(fields, f))
  BY DEF ReadToken, Midline
<1> QED BY <1>1, <1>2, TakesOne, Zenon

\* What is written for a name or a key is read as one field.
LEMMA CleanedIs ==
  ASSUME NEW V, Writable(V), NEW name \in Seq(V), NEW dirty, Signs \subseteq dirty
  PROVE  [i \in DOMAIN name |-> IF name[i] \in dirty THEN "_" ELSE name[i]] \in Seq(V \ Cuts)
<1>1. PICK n \in Nat : n = Len(name) /\ DOMAIN name = 1..n
  OBVIOUS
<1>2. \A i \in 1..n : name[i] \in V
  BY <1>1, ElementOfSeq
<1>3. "_" \in V \ Cuts /\ Cuts \subseteq dirty
  BY WritableHas DEF Cuts, Signs
<1>4. \A i \in 1..n : (IF name[i] \in dirty THEN "_" ELSE name[i]) \in V \ Cuts
  BY <1>2, <1>3
<1>5. PICK p : p = [i \in 1..n |-> IF name[i] \in dirty THEN "_" ELSE name[i]]
  OBVIOUS
<1>6. p \in Seq(V \ Cuts)
  <2>1. p \in [1..n -> V \ Cuts]
    BY <1>4, <1>5
  <2> QED BY <2>1
<1> QED BY <1>1, <1>5, <1>6, Zenon

LEMMA KeyClean ==
  ASSUME NEW V, Writable(V), NEW name \in Seq(V)
  PROVE  render_attribute_key(name) \in Seq(V \ Cuts)
<1>1. "__empty" \in V \ Cuts /\ "n" \in V \ Cuts
  BY WritableHas
<1>2. <<"__empty">> \in Seq(V \ Cuts) /\ <<"n">> \in Seq(V \ Cuts) /\ <<>> \in Seq(V \ Cuts)
  BY <1>1
<1>3. [i \in DOMAIN name |-> IF name[i] \in Signs \cup {":"} THEN "_" ELSE name[i]] \in Seq(V \ Cuts)
  <2>1. Signs \subseteq Signs \cup {":"}
    OBVIOUS
  <2> QED BY <2>1, CleanedIs, Zenon
<1>4. (IF name[1] \in ToSet(Figures) THEN <<"n">> ELSE <<>>) \in Seq(V \ Cuts)
  BY <1>2, Zenon
<1>5. (IF name[1] \in ToSet(Figures) THEN <<"n">> ELSE <<>>)
        \o [i \in DOMAIN name |-> IF name[i] \in Signs \cup {":"} THEN "_" ELSE name[i]] \in Seq(V \ Cuts)
  BY <1>3, <1>4, Closed, Zenon
<1> QED BY <1>2, <1>5, Zenon DEF render_attribute_key

LEMMA IdentifierClean ==
  ASSUME NEW V, Writable(V), NEW name \in Seq(V)
  PROVE  render_metric_identifier(name) \in Seq(V \ Cuts)
<1>1. "x" \in V \ Cuts /\ "error" \in V \ Cuts /\ ":" \in V \ Cuts /\ "__empty__" \in V \ Cuts
  BY WritableHas
<1>2. <<"error", ":", "__empty__">> \in Seq(V \ Cuts) /\ <<"x">> \in Seq(V \ Cuts) /\ <<>> \in Seq(V \ Cuts)
  <2>1. <<"error", ":", "__empty__">> \in Seq(V \ Cuts)
    BY <1>1, ThreeAreOne, Zenon
  <2> QED BY <1>1, <2>1, TokenIsText, EmptyIsText, Zenon
<1>3. [i \in DOMAIN name |-> IF name[i] \in Signs THEN "_" ELSE name[i]] \in Seq(V \ Cuts)
  <2>1. Signs \subseteq Signs
    OBVIOUS
  <2> QED BY <2>1, CleanedIs, Zenon
<1>4. (IF name[1] \in Signs \cup ToSet(Figures) \cup {"_"} THEN <<"x">> ELSE <<>>) \in Seq(V \ Cuts)
  BY <1>2, Zenon
<1>5. (IF name[1] \in Signs \cup ToSet(Figures) \cup {"_"} THEN <<"x">> ELSE <<>>)
        \o [i \in DOMAIN name |-> IF name[i] \in Signs THEN "_" ELSE name[i]] \in Seq(V \ Cuts)
  BY <1>3, <1>4, Closed, Zenon
<1> QED BY <1>2, <1>5, Zenon DEF render_metric_identifier

LEMMA NameClean ==
  ASSUME NEW V, Writable(V), NEW def, def.identifier \in Seq(V), def.unit \in Seq(V)
  PROVE  render_metric_name(def) \in Seq(V \ Cuts)
<1>1. "_" \in V \ Cuts
  BY WritableHas
<1>2. <<"_">> \in Seq(V \ Cuts) /\ <<>> \in Seq(V \ Cuts)
  BY <1>1, TokenIsText, EmptyIsText, Zenon
<1>3. render_metric_identifier(def.identifier) \in Seq(V \ Cuts) /\ render_metric_identifier(def.unit) \in Seq(V \ Cuts)
  BY IdentifierClean, Zenon
<1>4. <<"_">> \o render_metric_identifier(def.unit) \in Seq(V \ Cuts)
  BY <1>2, <1>3, Closed, Zenon
<1>5. (IF def.unit = <<>> THEN <<>> ELSE <<"_">> \o render_metric_identifier(def.unit)) \in Seq(V \ Cuts)
  BY <1>2, <1>4, Zenon
<1> QED BY <1>3, <1>5, Closed, Zenon DEF render_metric_name

LEMMA SameReader ==
  ASSUME NEW V, NEW r \in Readers(V), NEW q \in Readers(V),
         r.field = q.field, r.fields = q.fields, r.lines = q.lines, r.quoted = q.quoted, r.escaped = q.escaped
  PROVE  r = q
BY DEF Readers

\* The quote that ends a text.
LEMMA QuoteCloses ==
  ASSUME NEW V, NEW f \in Seq(V), NEW fields \in Seq(Seq(V)), NEW p \in Readers(V),
         p = [field |-> f, fields |-> fields, lines |-> <<>>, quoted |-> TRUE, escaped |-> FALSE]
  PROVE  ReadToken(p, "\"") = Midline(f, fields)
<1>1. [p EXCEPT !.quoted = FALSE] \in Readers(V)
  BY DEF Readers
<1>2. Midline(f, fields) \in Readers(V)
  BY MidlineType, Zenon
<1>3. PICK q \in Readers(V) : q = [p EXCEPT !.quoted = FALSE]
  BY <1>1
<1>4. q.field = f /\ q.fields = fields /\ q.lines = <<>> /\ q.quoted = FALSE /\ q.escaped = FALSE
  BY <1>3
<1>5. PICK m \in Readers(V) : m = Midline(f, fields)
  BY <1>2
<1>6. m.field = f /\ m.fields = fields /\ m.lines = <<>> /\ m.quoted = FALSE /\ m.escaped = FALSE
  BY <1>5 DEF Midline
<1>7. m = q
  BY <1>4, <1>6, SameReader, Zenon
<1>8. ReadToken(p, "\"") = [p EXCEPT !.quoted = FALSE]
  BY DEF ReadToken
<1> QED BY <1>3, <1>5, <1>7, <1>8, Zenon

\* A label, with the sign before it.
LEMMA LabelTaken ==
  ASSUME NEW V, Writable(V), NEW f \in Seq(V), NEW fields \in Seq(Seq(V)), NEW sep \in {"{", ","},
         NEW key \in Seq(V \ Cuts), NEW word \in Seq(V)
  PROVE  Takes(V, Midline(f, fields),
               <<sep>> \o key \o <<"=", "\"">> \o render_escaped(word) \o <<"\"">>,
               Midline(word, Append(Append(fields, f), key)))
<1>1. "\n" \in V /\ "=" \in V /\ "\"" \in V /\ Quotable(V)
  BY WritableHas
<1>2. PICK r \in Readers(V) : r = Midline(f, fields)
  BY MidlineType, Zenon
<1>3. PICK one \in Seq(Seq(V)) : one = Append(fields, f)
  BY Appends, Zenon
<1>4. key \in Seq(V) /\ <<>> \in Seq(V)
  <2>1. V \ Cuts \subseteq V
    OBVIOUS
  <2> QED BY <2>1, TokensOf, EmptyIsText, Zenon
<1>5. PICK two \in Seq(Seq(V)) : two = Append(one, key)
  BY <1>4, Appends, Zenon
<1>6. Takes(V, r, <<sep>>, Midline(<<>>, one))
  <2>1. sep \in {" ", "{", "=", ","}
    OBVIOUS
  <2> QED BY <1>2, <1>3, <2>1, FieldEnds, Zenon
<1>7. Takes(V, Midline(<<>>, one), key, Midline(key, one))
  <2>1. Takes(V, Midline(<<>>, one), key, Midline(<<>> \o key, one))
    BY <1>4, PlainTaken, Zenon
  <2>2. <<>> \o key = key
    BY <1>4, ConcatEmptySeq
  <2> QED BY <2>1, <2>2, Zenon
<1>8. Takes(V, Midline(key, one), <<"=">>, Midline(<<>>, two))
  <2>1. "=" \in {" ", "{", "=", ","}
    OBVIOUS
  <2> QED BY <1>4, <1>5, <2>1, FieldEnds, Zenon
<1>9. PICK q \in Readers(V) : q = [Midline(<<>>, two) EXCEPT !.quoted = TRUE]
  <2>1. Midline(<<>>, two) \in Readers(V)
    BY <1>4, MidlineType, Zenon
  <2> QED BY <2>1 DEF Readers
<1>10. Takes(V, Midline(<<>>, two), <<"\"">>, q)
  <2>1. Midline(<<>>, two) \in Readers(V)
    BY <1>4, MidlineType, Zenon
  <2>2. ReadToken(Midline(<<>>, two), "\"") = q
    BY <1>9 DEF ReadToken, Midline
  <2> QED BY <1>1, <2>1, <2>2, TakesOne, Zenon
<1>11. Takes(V, Midline(key, one), <<"=", "\"">>, q)
  <2>1. Midline(key, one) \in Readers(V)
    BY <1>4, MidlineType, Zenon
  <2>2. Takes(V, Midline(key, one), <<"=">> \o <<"\"">>, q)
    BY <1>1, <1>8, <1>10, <2>1, TakesBoth, Zenon
  <2>3. <<"=">> \o <<"\"">> = <<"=", "\"">>
    BY <1>1, TwoElements, Zenon
  <2> QED BY <2>2, <2>3, Zenon
<1>12. PICK p \in Readers(V) : p = [q EXCEPT !.field = q.field \o word] /\ Takes(V, q, render_escaped(word), p)
  <2>1. Quoting(q)
    BY <1>9 DEF Quoting, Midline
  <2>2. [q EXCEPT !.field = q.field \o word] \in Readers(V)
    BY <2>1, WithIs, Zenon DEF With
  <2>3. render_escaped(word) \in Seq(V)
        /\ FoldLeft(ReadToken, q, render_escaped(word)) = [q EXCEPT !.field = q.field \o word]
    BY <1>1, <2>1, AnyWordReads, Zenon
  <2> QED BY <2>2, <2>3, Zenon DEF Takes
<1>13. Takes(V, p, <<"\"">>, Midline(word, two))
  <2>1. <<>> \o word = word
    BY ConcatEmptySeq
  <2>2. p = [field |-> word, fields |-> two, lines |-> <<>>, quoted |-> TRUE, escaped |-> FALSE]
    <3>1. q = [field |-> <<>>, fields |-> two, lines |-> <<>>, quoted |-> TRUE, escaped |-> FALSE]
      BY <1>9 DEF Midline
    <3>2. p = [field |-> <<>> \o word, fields |-> two, lines |-> <<>>, quoted |-> TRUE, escaped |-> FALSE]
      BY <1>12, <3>1
    <3> QED BY <2>1, <3>2, Zenon
  <2>3. ReadToken(p, "\"") = Midline(word, two)
    BY <2>2, QuoteCloses, Zenon
  <2> QED BY <1>1, <2>3, TakesOne, Zenon
<1>14. Takes(V, r, <<sep>> \o key, Midline(key, one))
  BY <1>1, <1>6, <1>7, TakesBoth, Zenon
<1>15. Takes(V, r, <<sep>> \o key \o <<"=", "\"">>, q)
  BY <1>1, <1>11, <1>14, TakesBoth, Zenon
<1>16. Takes(V, r, <<sep>> \o key \o <<"=", "\"">> \o render_escaped(word), p)
  BY <1>1, <1>12, <1>15, TakesBoth, Zenon
<1>17. Takes(V, r, <<sep>> \o key \o <<"=", "\"">> \o render_escaped(word) \o <<"\"">>, Midline(word, two))
  BY <1>1, <1>13, <1>16, TakesBoth, Zenon
<1> QED BY <1>2, <1>3, <1>5, <1>17, Zenon

\* Labels whose keys are written as they are.
Labels(V) == {l \in Seq(V) \X Seq(V) : render_attribute_key(l[1]) = l[1]}

\* A reader has those fields of a line, the last of them not ended yet.
HasFields(V, r, ts, line) ==
  \E f \in Seq(V), fields \in Seq(Seq(V)) : Takes(V, r, ts, Midline(f, fields)) /\ Append(fields, f) = line

LabelText(sep, key, word) ==
  <<sep>> \o render_attribute_key(key) \o <<"=", "\"">> \o render_escaped(word) \o <<"\"">>

LEMMA LabelAdds ==
  ASSUME NEW V, Writable(V), NEW r \in Readers(V), NEW ts, NEW line \in Seq(Seq(V)), HasFields(V, r, ts, line),
         NEW sep \in {"{", ","}, NEW key \in Seq(V), render_attribute_key(key) = key, NEW word \in Seq(V)
  PROVE  /\ LabelText(sep, key, word) \in Seq(V)
         /\ HasFields(V, r, ts \o LabelText(sep, key, word), line \o <<key, word>>)
<1>1. PICK f \in Seq(V), fields \in Seq(Seq(V)) : Takes(V, r, ts, Midline(f, fields)) /\ Append(fields, f) = line
  BY Zenon DEF HasFields
<1>2. key \in Seq(V \ Cuts)
  BY KeyClean, Zenon
<1>3. Takes(V, Midline(f, fields), LabelText(sep, key, word), Midline(word, Append(line, key)))
  BY <1>1, <1>2, LabelTaken, Zenon DEF LabelText
<1>4. Takes(V, r, ts \o LabelText(sep, key, word), Midline(word, Append(line, key)))
  <2>1. "\n" \in V
    BY WritableHas
  <2> QED BY <1>1, <1>3, <2>1, TakesBoth, Zenon
<1>5. Append(line, key) \in Seq(Seq(V))
  BY Appends, Zenon
<1>6. line \o <<key, word>> = Append(Append(line, key), word)
  <2>1. PICK B : B = Seq(V)
    OBVIOUS
  <2>2. line \in Seq(B) /\ key \in B /\ word \in B
    BY <2>1
  <2>3. line \o <<key, word>> = Append(Append(line, key), word) /\ Append(Append(line, key), word) \in Seq(B)
    BY <2>2, TwoMore
  <2> QED BY <2>3, Zenon
<1>7. LabelText(sep, key, word) \in Seq(V)
  BY <1>3, Zenon DEF Takes
<1> QED BY <1>4, <1>5, <1>6, <1>7, Zenon DEF HasFields

LEMMA PairIs ==
  ASSUME NEW S, NEW x \in S \X S
  PROVE  x[1] \in S /\ x[2] \in S /\ x = <<x[1], x[2]>> /\ x \in Seq(S)
<1>1. x[1] \in S /\ x[2] \in S /\ x = <<x[1], x[2]>>
  OBVIOUS
<1>2. <<x[1], x[2]>> \in Seq(S)
  BY <1>1, TwoElements, Zenon
<1> QED BY <1>1, <1>2, Zenon

\* The labels of a sample, and the braces.
LEMMA AttributesTaken ==
  ASSUME NEW V, Writable(V), NEW name \in Seq(V), NEW attrs \in Seq(Labels(V))
  PROVE  /\ FlattenSeq(attrs) \in Seq(Seq(V))
         /\ HasFields(V, Midline(name, <<>>), render_attributes(attrs), <<name>> \o FlattenSeq(attrs))
<1>1. /\ attrs \in Seq(Seq(V) \X Seq(V))
      /\ \A i \in DOMAIN attrs : render_attribute_key(attrs[i][1]) = attrs[i][1]
  <2>1. Labels(V) \subseteq Seq(V) \X Seq(V)
    BY DEF Labels
  <2>2. \A i \in DOMAIN attrs : attrs[i] \in Labels(V)
    BY ElementOfSeq
  <2>3. attrs \in Seq(Seq(V) \X Seq(V))
    BY <2>1, TokensOf, Zenon
  <2>4. \A l \in Labels(V) : render_attribute_key(l[1]) = l[1]
    BY Zenon DEF Labels
  <2> QED BY <2>2, <2>3, <2>4, Zenon
<1>2. PICK n \in Nat : n = Len(attrs) /\ DOMAIN attrs = 1..n
  BY <1>1
<1>3. PICK r \in Readers(V) : r = Midline(name, <<>>)
  <2>1. <<>> \in Seq(Seq(V))
    BY EmptyIsText, Zenon
  <2> QED BY <2>1, MidlineType, Zenon
<1>4. "\n" \in V /\ "}" \in V /\ "{" \in {"{", ","} /\ "," \in {"{", ","}
  BY WritableHas
<1>5. <<name>> \in Seq(Seq(V)) /\ Append(<<>>, name) = <<name>> /\ <<>> \in Seq(Seq(V)) /\ <<>> \in Seq(V)
  <2>1. Append(<<>>, name) = <<name>>
    OBVIOUS
  <2> QED BY <2>1, EmptyIsText, TokenIsText, Zenon
<1>6. HasFields(V, r, <<>>, <<name>>)
  <2>1. Takes(V, r, <<>>, r)
    BY <1>4, TakesNone, Zenon
  <2> QED BY <1>3, <1>5, <2>1, Zenon DEF HasFields
<1>7. CASE attrs = <<>>
  <2>1. render_attributes(attrs) = <<>>
    BY <1>7, Zenon DEF render_attributes
  <2>2. FlattenSeq(attrs) = <<>> /\ FlattenSeq(attrs) \in Seq(Seq(V))
    <3>1. <<>> \in Seq(Seq(Seq(V)))
      BY EmptyIsText, Zenon
    <3> QED BY <1>7, <3>1, FlattenType, Zenon
  <2>3. <<name>> \o <<>> = <<name>>
    BY <1>5, ConcatEmptySeq
  <2> QED BY <1>3, <1>6, <2>1, <2>2, <2>3, Zenon
<1>8. CASE attrs # <<>>
  <2>1. n # 0
    BY <1>1, <1>2, <1>8, EmptySeq
  <2>2. \A i \in 1..n : /\ attrs[i][1] \in Seq(V) /\ attrs[i][2] \in Seq(V)
                        /\ attrs[i] = <<attrs[i][1], attrs[i][2]>> /\ attrs[i] \in Seq(Seq(V))
    <3> TAKE i \in 1..n
    <3>1. attrs[i] \in Seq(V) \X Seq(V)
      BY <1>1, <1>2, ElementOfSeq
    <3> QED BY <3>1, PairIs, Zenon
  <2> DEFINE sep(i) == IF i = 1 THEN "{" ELSE ","
             label(i) == LabelText(sep(i), attrs[i][1], attrs[i][2])
  <2>3. \A i \in 1..n : sep(i) \in {"{", ","}
    OBVIOUS
  <2>4. ASSUME NEW i \in 1..n, NEW ts, NEW line \in Seq(Seq(V)), HasFields(V, r, ts, line)
        PROVE  label(i) \in Seq(V) /\ HasFields(V, r, ts \o label(i), line \o attrs[i])
    <3>1. PICK key \in Seq(V), word \in Seq(V) : key = attrs[i][1] /\ word = attrs[i][2] /\ attrs[i] = <<key, word>>
      BY <2>2
    <3>2. render_attribute_key(key) = key
      BY <1>1, <1>2, <3>1, Zenon
    <3>3. PICK c \in {"{", ","} : c = sep(i)
      BY <2>3, Zenon
    <3>4. /\ LabelText(c, key, word) \in Seq(V)
          /\ HasFields(V, r, ts \o LabelText(c, key, word), line \o <<key, word>>)
      BY <2>4, <3>2, LabelAdds, Zenon
    <3> QED BY <3>1, <3>3, <3>4, Zenon
  <2> HIDE DEF sep, label
  <2>5. PICK q \in Seq(Seq(V)) : /\ q = [i \in 1..n |-> label(i)] /\ Len(q) = n
                                 /\ \A i \in 1..n : q[i] = label(i)
    <3>1. \A i \in 1..n : label(i) \in Seq(V)
      BY <1>5, <1>6, <2>4, Zenon
    <3>2. PICK q : q = [i \in 1..n |-> label(i)]
      OBVIOUS
    <3>3. q \in Seq(Seq(V)) /\ Len(q) = n /\ \A i \in 1..n : q[i] = label(i)
      BY <3>1, <3>2
    <3> QED BY <3>2, <3>3, Zenon
  <2>6. q # <<>>
    BY <2>1, <2>5, EmptySeq
  <2>7. PICK f \in [1..n -> Seq(V)] :
          /\ f[1] = q[1] /\ FlattenSeq(q) = f[n]
          /\ \A i \in 1..(n - 1) : f[i + 1] = f[i] \o q[i + 1]
    <3>1. \E g \in [1..Len(q) -> Seq(V)] :
            /\ g[1] = q[1]
            /\ \A i \in 1..(Len(q) - 1) : g[i + 1] = g[i] \o q[i + 1]
            /\ FlattenSeq(q) = g[Len(q)]
      BY <2>6, FlattenSteps
    <3> QED BY <2>5, <3>1, ZenonT(40)
  <2>8. attrs \in Seq(Seq(Seq(V)))
    <3>1. Seq(V) \X Seq(V) \subseteq Seq(Seq(V))
      BY PairIs
    <3> QED BY <1>1, <3>1, TokensOf, Zenon
  <2>9. PICK h \in [1..n -> Seq(Seq(V))] :
          /\ h[1] = attrs[1] /\ FlattenSeq(attrs) = h[n]
          /\ \A i \in 1..(n - 1) : h[i + 1] = h[i] \o attrs[i + 1]
    BY <1>2, <1>8, <2>8, FlattenSteps
  <2> DEFINE P(i) == HasFields(V, r, f[i], <<name>> \o h[i])
             S == {i \in Nat : i + 1 <= n => P(i + 1)}
  <2> HIDE DEF P
  <2>10. 0 \in S
    <3>1. 1 \in 1..n /\ 0 + 1 = 1
      BY <2>1
    <3>2. HasFields(V, r, <<>> \o label(1), <<name>> \o attrs[1]) /\ label(1) \in Seq(V)
      BY <1>5, <1>6, <2>4, <3>1, Zenon
    <3>3. <<>> \o label(1) = label(1)
      BY <3>2, ConcatEmptySeq
    <3>4. P(1)
      BY <2>5, <2>7, <2>9, <3>1, <3>2, <3>3, Zenon DEF P
    <3> QED BY <3>1, <3>4
  <2>11. ASSUME NEW i \in Nat, i \in S PROVE i + 1 \in S
    <3> SUFFICES ASSUME (i + 1) + 1 <= n PROVE P((i + 1) + 1)
      OBVIOUS
    <3>1. PICK k \in 1..n : k = (i + 1) + 1
      OBVIOUS
    <3>2. PICK j \in 1..(n - 1) : j = i + 1 /\ j + 1 = k /\ j \in 1..n /\ j <= n
      BY <3>1
    <3>3. P(j)
      BY <2>11, <3>2
    <3>4. f[k] = f[j] \o label(k) /\ h[k] = h[j] \o attrs[k]
      BY <2>5, <2>7, <2>9, <3>1, <3>2
    <3>5. h[j] \in Seq(Seq(V)) /\ attrs[k] \in Seq(Seq(V))
      BY <2>2, <2>9, <3>2
    <3>6. <<name>> \o h[j] \in Seq(Seq(V))
      BY <1>5, <3>5, Closed, Zenon
    <3>7. HasFields(V, r, f[j] \o label(k), (<<name>> \o h[j]) \o attrs[k])
      BY <2>4, <3>3, <3>6, Zenon DEF P
    <3>8. Regrouped(<<name>>, h[j], attrs[k])
      BY <1>5, <3>5, Associative, Zenon
    <3>9. P(k)
      BY <3>4, <3>7, <3>8, Zenon DEF P, Regrouped
    <3> QED BY <3>1, <3>9, Zenon
  <2>12. P(n)
    <3>1. n - 1 \in Nat /\ (n - 1) + 1 = n /\ n <= n
      BY <2>1
    <3>2. n - 1 \in S
      <4> HIDE DEF S
      <4> QED BY <2>10, <2>11, <3>1, AllNaturals
    <3> QED BY <3>1, <3>2
  <2>13. PICK g \in Seq(V), fields \in Seq(Seq(V)) :
           Takes(V, r, f[n], Midline(g, fields)) /\ Append(fields, g) = <<name>> \o h[n]
    BY <2>12, Zenon DEF P, HasFields
  <2>14. Takes(V, Midline(g, fields), <<"}">>, Midline(g, fields))
    <3>1. Midline(g, fields) \in Readers(V)
      BY MidlineType, Zenon
    <3>2. ReadToken(Midline(g, fields), "}") = Midline(g, fields)
      BY DEF ReadToken, Midline
    <3> QED BY <1>4, <3>1, <3>2, TakesOne, Zenon
  <2>15. HasFields(V, r, f[n] \o <<"}">>, <<name>> \o h[n])
    <3>1. Takes(V, r, f[n] \o <<"}">>, Midline(g, fields))
      BY <1>4, <2>13, <2>14, TakesBoth, Zenon
    <3> QED BY <2>13, <3>1, Zenon DEF HasFields
  <2>16. render_attributes(attrs) = f[n] \o <<"}">>
    <3>1. render_attributes(attrs)
            = FlattenSeq([i \in DOMAIN attrs |-> LabelText(IF i = 1 THEN "{" ELSE ",", attrs[i][1], attrs[i][2])])
              \o <<"}">>
      BY <1>8, Zenon DEF render_attributes, LabelText
    <3>2. [i \in DOMAIN attrs |-> LabelText(IF i = 1 THEN "{" ELSE ",", attrs[i][1], attrs[i][2])] = q
      BY <1>2, <2>5, Zenon DEF label, sep
    <3> QED BY <2>7, <3>1, <3>2, Zenon
  <2>17. n \in 1..n
    BY <2>1
  <2> QED BY <1>3, <2>9, <2>15, <2>16, <2>17, Zenon
<1> QED BY <1>7, <1>8

\* A number's text has no sign that ends a field.
Digital == ToSet(Figures) \cup {".", "-"}
Writings == [left : Nat, text : Seq(Digital)]

LEMMA WriteType ==
  ASSUME NEW w \in Writings, NEW decimals \in Int
  PROVE  WriteDigit(w, decimals) \in Writings
<1>1. w.left \in Nat /\ w.text \in Seq(Digital)
  BY DEF Writings
<1>2. w.left \div 10 \in Nat /\ (w.left % 10) + 1 \in 1..10
  BY <1>1, SMTT(20)
<1>3. Figures[(w.left % 10) + 1] \in Digital
  <2>1. DOMAIN Figures = 1..10
    BY DEF Figures
  <2> QED BY <1>2, <2>1 DEF ToSet, Digital
<1>4. (IF decimals = 1 THEN <<".">> ELSE <<>>) \in Seq(Digital)
  <2>1. "." \in Digital
    BY DEF Digital
  <2> QED BY <2>1, TokenIsText, EmptyIsText, Zenon
<1>5. <<Figures[(w.left % 10) + 1]>> \in Seq(Digital)
  BY <1>3, TokenIsText, Zenon
<1>6. (IF decimals = 1 THEN <<".">> ELSE <<>>) \o <<Figures[(w.left % 10) + 1]>> \o w.text \in Seq(Digital)
  BY <1>1, <1>4, <1>5, Closed, Zenon
<1> QED BY <1>2, <1>6, Zenon DEF WriteDigit, Writings

LEMMA DigitsClean ==
  ASSUME NEW m \in Nat, NEW decimals \in Nat
  PROVE  to_string_helper(m, decimals) \in Seq(Digital)
<1>1. PICK n \in Nat : n = decimals + 20
  OBVIOUS
<1>2. PICK ts \in [1..n -> Int] : ts = Levels(decimals)
  <2>1. Levels(decimals) = [i \in 1..n |-> (decimals + 1) - i]
    BY <1>1, Zenon DEF Levels
  <2>2. PICK ts : ts = [i \in 1..n |-> (decimals + 1) - i]
    OBVIOUS
  <2>3. ts \in [1..n -> Int]
    BY <2>2
  <2> QED BY <2>1, <2>2, <2>3, Zenon
<1>3. PICK w \in Writings : w = [left |-> m, text |-> <<>>]
  <2>1. <<>> \in Seq(Digital)
    BY EmptyIsText, Zenon
  <2> QED BY <2>1 DEF Writings
<1> DEFINE step == [x \in (1..n) \X Writings |-> WriteDigit(x[2], ts[x[1]])]
           Solves(g) == g = [s \in SUBSET (1..n) |->
                               IF s = {} THEN w ELSE WriteDigit(g[s \ {Max(s)}], ts[Max(s)])]
<1>4. step \in [(1..n) \X Writings -> Writings]
  <2>1. \A i \in 1..n, x \in Writings : WriteDigit(x, ts[i]) \in Writings
    BY WriteType
  <2> QED BY <2>1
<1>5. PICK g \in [SUBSET (1..n) -> Writings] : FoldsSteps(g, w, n, step)
  <2> HIDE DEF step
  <2> QED BY <1>4, FoldExists
<1>6. Solves(g)
  <2>1. ASSUME NEW s \in SUBSET (1..n), s # {}
        PROVE  step[<<Max(s), g[s \ {Max(s)}]>>] = WriteDigit(g[s \ {Max(s)}], ts[Max(s)])
    <3>1. s \in SUBSET (0..n)
      OBVIOUS
    <3>2. Max(s) \in 1..n
      BY <2>1, <3>1, MaxIs
    <3>3. g[s \ {Max(s)}] \in Writings
      BY <1>5
    <3> QED BY <3>2, <3>3
  <2> HIDE DEF step
  <2> QED BY <1>5, <2>1, Zenon DEF FoldsSteps
<1> HIDE DEF Solves
<1> DEFINE h == CHOOSE g1 : Solves(g1)
<1>7. Solves(h)
  BY <1>6, Zenon
<1>8. DOMAIN ts = 1..n
  OBVIOUS
<1>9. FoldLeft(WriteDigit, w, ts) = h[1..n]
  BY <1>8, Zenon DEF FoldLeft, MapThenFoldSet, Solves
<1> HIDE DEF h
<1> DEFINE S == {k \in Nat : k <= n => h[1..k] \in Writings}
<1>10. 0 \in S
  <2>1. 1..0 = {} /\ {} \in SUBSET (1..n)
    OBVIOUS
  <2>2. h[{}] = w
    BY <1>7, <2>1, Zenon DEF Solves
  <2> QED BY <2>1, <2>2
<1>11. ASSUME NEW k \in Nat, k \in S PROVE k + 1 \in S
  <2> SUFFICES ASSUME k + 1 <= n PROVE h[1..(k + 1)] \in Writings
    OBVIOUS
  <2>1. k <= n /\ k \in 0..(n - 1) /\ k + 1 \in 1..n
    OBVIOUS
  <2>2. /\ 1..(k + 1) \in SUBSET (1..n) /\ 1..(k + 1) # {}
        /\ Max(1..(k + 1)) = k + 1 /\ (1..(k + 1)) \ {k + 1} = 1..k
    BY <2>1, SegmentOf
  <2>3. h[1..(k + 1)] = WriteDigit(h[(1..(k + 1)) \ {Max(1..(k + 1))}], ts[Max(1..(k + 1))])
    BY <1>7, <2>2, Zenon DEF Solves
  <2>4. h[1..(k + 1)] = WriteDigit(h[1..k], ts[k + 1])
    BY <2>2, <2>3
  <2>5. h[1..k] \in Writings /\ ts[k + 1] \in Int
    BY <1>11, <2>1
  <2>6. PICK x \in Writings, d \in Int : x = h[1..k] /\ d = ts[k + 1]
    BY <2>5
  <2>7. WriteDigit(x, d) \in Writings
    BY WriteType, Zenon
  <2> QED BY <2>4, <2>6, <2>7
<1>12. h[1..n] \in Writings
  <2> HIDE DEF S
  <2>1. n \in S
    BY <1>10, <1>11, AllNaturals
  <2>2. n <= n
    OBVIOUS
  <2> QED BY <2>1, <2>2 DEF S
<1>13. to_string_helper(m, decimals) = h[1..n].text
  BY <1>2, <1>3, <1>9, Zenon DEF to_string_helper
<1> QED BY <1>12, <1>13 DEF Writings

LEMMA DecimalClean ==
  ASSUME NEW V, Writable(V), Decimals \in Nat, NEW m \in Int
  PROVE  Decimal(m) \in Seq(V \ Cuts)
<1>1. Digital \subseteq V \ Cuts
  BY WritableHas DEF Digital
<1>2. Decimal(m) \in Seq(Digital)
  <2>0. "0" \in Digital /\ "." \in Digital /\ "-" \in Digital
    BY FiguresAre DEF Digital
  <2>1. CASE m = 0
    <3>1. (IF Decimals > 0 THEN <<".">> ELSE <<>>) \in Seq(Digital)
      BY <2>0, TokenIsText, EmptyIsText, Zenon
    <3>2. <<"0">> \in Seq(Digital)
      BY <2>0, TokenIsText, Zenon
    <3>3. [i \in 1..Decimals |-> "0"] \in Seq(Digital)
      <4>1. [i \in 1..Decimals |-> "0"] \in [1..Decimals -> Digital]
        BY <2>0
      <4> QED BY <4>1
    <3>4. <<"0">> \o (IF Decimals > 0 THEN <<".">> ELSE <<>>) \o [i \in 1..Decimals |-> "0"] \in Seq(Digital)
      BY <3>1, <3>2, <3>3, Closed, Zenon
    <3>5. Decimal(m) = <<"0">> \o (IF Decimals > 0 THEN <<".">> ELSE <<>>) \o [i \in 1..Decimals |-> "0"]
      BY <2>1 DEF Decimal
    <3> QED BY <3>4, <3>5, Zenon
  <2>2. CASE m < 0
    <3>1. -m \in Nat
      BY <2>2
    <3>2. to_string_helper(-m, Decimals) \in Seq(Digital) /\ <<"-">> \in Seq(Digital)
      BY <2>0, <3>1, DigitsClean, TokenIsText, Zenon
    <3>3. <<"-">> \o to_string_helper(-m, Decimals) \in Seq(Digital)
      BY <3>2, Closed, Zenon
    <3>4. Decimal(m) = <<"-">> \o to_string_helper(-m, Decimals)
      BY <2>2 DEF Decimal
    <3> QED BY <3>3, <3>4, Zenon
  <2>3. CASE m > 0
    <3>1. to_string_helper(m, Decimals) \in Seq(Digital)
      BY <2>3, DigitsClean
    <3>2. Decimal(m) = to_string_helper(m, Decimals)
      BY <2>3 DEF Decimal
    <3> QED BY <3>1, <3>2, Zenon
  <2> QED BY <2>1, <2>2, <2>3
<1> QED BY <1>1, <1>2, TokensOf, Zenon

\* A sample's line, read whole.
IsSample(def, suffix, attrs, value) ==
  FoldLeft(ReadToken, Unread, render_metric_point(def, suffix, attrs, value)).lines
    = <<<<render_metric_name(def) \o suffix>> \o FlattenSeq(attrs) \o <<value, Decimal(Now)>>>>

LEMMA LineTaken ==
  ASSUME NEW V, Writable(V), Decimals \in Nat, Now \in Int,
         NEW def, def.identifier \in Seq(V), def.unit \in Seq(V), NEW suffix \in Seq(V \ Cuts),
         NEW attrs \in Seq(Labels(V)), NEW value \in Seq(V \ Cuts)
  PROVE  IsSample(def, suffix, attrs, value)
<1>0. V \ Cuts \subseteq V /\ <<>> \in Seq(V) /\ <<>> \in Seq(Seq(V))
  <2>1. V \ Cuts \subseteq V
    OBVIOUS
  <2> QED BY <2>1, EmptyIsText, Zenon
<1>1. "\n" \in V /\ " " \in {" ", "{", "=", ","}
  BY WritableHas
<1>2. PICK name \in Seq(V \ Cuts) : name = render_metric_name(def) \o suffix
  <2>1. render_metric_name(def) \in Seq(V \ Cuts)
    BY NameClean, Zenon
  <2> QED BY <2>1, Closed, Zenon
<1>3. PICK time \in Seq(V \ Cuts) : time = Decimal(Now)
  BY DecimalClean, Zenon
<1>4. name \in Seq(V) /\ value \in Seq(V) /\ time \in Seq(V)
  BY <1>0, TokensOf, Zenon
<1>5. \A s \in Seq(V) : <<>> \o s = s
  BY ConcatEmptySeq
<1>6. PICK r \in Readers(V) : r = Midline(<<>>, <<>>)
  BY <1>0, MidlineType, Zenon
<1>7. r = Unread
  BY <1>6 DEF Unread, Midline
<1>8. PICK r1 \in Readers(V) : r1 = Midline(name, <<>>) /\ Takes(V, r, name, r1)
  <2>1. Takes(V, r, name, Midline(<<>> \o name, <<>>))
    BY <1>0, <1>6, PlainTaken, Zenon
  <2>2. Midline(name, <<>>) \in Readers(V)
    BY <1>0, <1>4, MidlineType, Zenon
  <2> QED BY <1>4, <1>5, <2>1, <2>2, Zenon
<1>9. PICK line \in Seq(Seq(V)) : line = <<name>> \o FlattenSeq(attrs) /\ HasFields(V, r1, render_attributes(attrs), line)
  <2>1. /\ FlattenSeq(attrs) \in Seq(Seq(V))
        /\ HasFields(V, Midline(name, <<>>), render_attributes(attrs), <<name>> \o FlattenSeq(attrs))
    BY <1>4, AttributesTaken, Zenon
  <2>2. <<name>> \in Seq(Seq(V))
    BY <1>4, TokenIsText, Zenon
  <2> QED BY <1>8, <2>1, <2>2, Closed, Zenon
<1>10. PICK f \in Seq(V), fields \in Seq(Seq(V)) :
         Takes(V, r1, render_attributes(attrs), Midline(f, fields)) /\ Append(fields, f) = line
  BY <1>9, Zenon DEF HasFields
<1>11. Takes(V, Midline(f, fields), <<" ">>, Midline(<<>>, line))
  BY <1>1, <1>10, FieldEnds, Zenon
<1>12. Takes(V, Midline(<<>>, line), value, Midline(value, line))
  <2>1. Takes(V, Midline(<<>>, line), value, Midline(<<>> \o value, line))
    BY <1>0, PlainTaken, Zenon
  <2> QED BY <1>4, <1>5, <2>1, Zenon
<1>13. PICK more \in Seq(Seq(V)) : more = Append(line, value)
  BY <1>4, Appends, Zenon
<1>14. Takes(V, Midline(value, line), <<" ">>, Midline(<<>>, more))
  BY <1>1, <1>4, <1>13, FieldEnds, Zenon
<1>15. Takes(V, Midline(<<>>, more), time, Midline(time, more))
  <2>1. Takes(V, Midline(<<>>, more), time, Midline(<<>> \o time, more))
    BY <1>0, PlainTaken, Zenon
  <2> QED BY <1>4, <1>5, <2>1, Zenon
<1>16. PICK p \in Readers(V) : p = ReadToken(Midline(time, more), "\n") /\ Takes(V, Midline(time, more), <<"\n">>, p)
  <2>1. Midline(time, more) \in Readers(V)
    BY <1>4, MidlineType, Zenon
  <2>2. ReadToken(Midline(time, more), "\n") \in Readers(V)
    BY <1>1, <2>1, ReadType, Zenon
  <2> QED BY <1>1, <2>1, <2>2, TakesOne, Zenon
<1>17. p.lines = <<Append(more, time)>>
  <2>1. ReadToken(Midline(time, more), "\n").lines = Append(<<>>, Append(more, time))
    BY DEF ReadToken, Midline
  <2>2. \A x : Append(<<>>, x) = <<x>>
    OBVIOUS
  <2> QED BY <1>16, <2>1, <2>2, Zenon
<1>18. Append(more, time) = line \o <<value, time>>
  <2>1. PICK B : B = Seq(V)
    OBVIOUS
  <2>2. line \in Seq(B) /\ value \in B /\ time \in B
    BY <1>4, <2>1
  <2>3. line \o <<value, time>> = Append(Append(line, value), time) /\ Append(Append(line, value), time) \in Seq(B)
    BY <2>2, TwoMore
  <2> QED BY <1>13, <2>3, Zenon
<1>19. Takes(V, r, name \o render_attributes(attrs), Midline(f, fields))
  BY <1>1, <1>8, <1>10, TakesBoth, Zenon
<1>20. Takes(V, r, name \o render_attributes(attrs) \o <<" ">>, Midline(<<>>, line))
  BY <1>1, <1>11, <1>19, TakesBoth, Zenon
<1>21. Takes(V, r, name \o render_attributes(attrs) \o <<" ">> \o value, Midline(value, line))
  BY <1>1, <1>12, <1>20, TakesBoth, Zenon
<1>22. Takes(V, r, name \o render_attributes(attrs) \o <<" ">> \o value \o <<" ">>, Midline(<<>>, more))
  BY <1>1, <1>14, <1>21, TakesBoth, Zenon
<1>23. Takes(V, r, name \o render_attributes(attrs) \o <<" ">> \o value \o <<" ">> \o time, Midline(time, more))
  BY <1>1, <1>15, <1>22, TakesBoth, Zenon
<1>24. Takes(V, r, name \o render_attributes(attrs) \o <<" ">> \o value \o <<" ">> \o time \o <<"\n">>, p)
  BY <1>1, <1>16, <1>23, TakesBoth, Zenon
<1>25. render_metric_point(def, suffix, attrs, value)
         = name \o render_attributes(attrs) \o <<" ">> \o value \o <<" ">> \o time \o <<"\n">>
  BY <1>2, <1>3, Zenon DEF render_metric_point
<1>26. FoldLeft(ReadToken, Unread, render_metric_point(def, suffix, attrs, value)) = p
  BY <1>7, <1>24, <1>25, Zenon DEF Takes
<1> QED BY <1>2, <1>3, <1>9, <1>17, <1>18, <1>26, Zenon DEF IsSample

LEMMA OnesFlatten ==
  ASSUME NEW B, NEW s \in Seq(B), NEW n \in Nat, n = Len(s)
  PROVE  FlattenSeq([i \in 1..n |-> <<s[i]>>]) = s
<1>1. \A i \in 1..n : s[i] \in B
  BY ElementOfSeq
<1>2. PICK q : q = [i \in 1..n |-> <<s[i]>>]
  OBVIOUS
<1>3. q \in Seq(Seq(B)) /\ Len(q) = n /\ \A i \in 1..n : q[i] = <<s[i]>>
  <2>1. \A i \in 1..n : <<s[i]>> \in Seq(B)
    BY <1>1, TokenIsText, Zenon
  <2> QED BY <1>2, <2>1
<1>4. CASE n = 0
  <2>1. q = <<>> /\ s = <<>>
    BY <1>3, <1>4, EmptySeq
  <2>2. FlattenSeq(q) = <<>>
    BY <1>3, <2>1, FlattenType, Zenon
  <2> QED BY <1>2, <2>1, <2>2, Zenon
<1>5. CASE n # 0
  <2>1. q # <<>>
    BY <1>3, <1>5, EmptySeq
  <2>2. PICK f \in [1..n -> Seq(B)] :
          /\ f[1] = q[1] /\ FlattenSeq(q) = f[n]
          /\ \A i \in 1..(n - 1) : f[i + 1] = f[i] \o q[i + 1]
    <3>1. \E g \in [1..Len(q) -> Seq(B)] :
            /\ g[1] = q[1]
            /\ \A i \in 1..(Len(q) - 1) : g[i + 1] = g[i] \o q[i + 1]
            /\ FlattenSeq(q) = g[Len(q)]
      BY <1>3, <2>1, FlattenSteps
    <3> QED BY <1>3, <3>1, Zenon
  <2>3. /\ SubSeq(s, 1, 0) = <<>> /\ SubSeq(s, 1, n) = s
        /\ \A k \in 0..(n - 1) : Append(SubSeq(s, 1, k), s[k + 1]) = SubSeq(s, 1, k + 1)
    BY OneTaken
  <2> DEFINE S == {i \in Nat : i + 1 <= n => f[i + 1] = SubSeq(s, 1, i + 1)}
  <2>4. 0 \in S
    <3>1. 1 \in 1..n /\ 0 \in 0..(n - 1) /\ 0 + 1 = 1
      BY <1>5
    <3>2. Append(<<>>, s[1]) = <<s[1]>>
      OBVIOUS
    <3>3. f[1] = SubSeq(s, 1, 1)
      BY <1>3, <2>2, <2>3, <3>1, <3>2, Zenon
    <3> QED BY <3>1, <3>3
  <2>5. ASSUME NEW i \in Nat, i \in S PROVE i + 1 \in S
    <3> SUFFICES ASSUME (i + 1) + 1 <= n PROVE f[(i + 1) + 1] = SubSeq(s, 1, (i + 1) + 1)
      OBVIOUS
    <3>1. PICK j \in 1..(n - 1) : j = i + 1
      OBVIOUS
    <3>2. j \in 0..(n - 1) /\ j \in 1..n /\ j + 1 \in 1..n /\ i + 1 <= n
      BY <3>1
    <3>3. f[j] = SubSeq(s, 1, j) /\ f[j] \in Seq(B)
      BY <2>2, <2>5, <3>1, <3>2
    <3>4. PICK e \in B : e = s[j + 1] /\ q[j + 1] = <<e>>
      BY <1>1, <1>3, <3>2
    <3>5. Append(f[j], e) = f[j] \o <<e>>
      BY <3>3, AppendIsConcat
    <3> QED BY <2>2, <2>3, <3>1, <3>2, <3>3, <3>4, <3>5, Zenon
  <2>6. f[n] = SubSeq(s, 1, n)
    <3>1. n - 1 \in Nat /\ (n - 1) + 1 = n /\ n <= n
      BY <1>5
    <3>2. n - 1 \in S
      <4> HIDE DEF S
      <4> QED BY <2>4, <2>5, <3>1, AllNaturals
    <3> QED BY <3>1, <3>2
  <2> QED BY <1>2, <2>2, <2>3, <2>6, Zenon
<1> QED BY <1>4, <1>5

\* What a point says, in parts that can be read back.
Sayable(V, m, parts) ==
  /\ m.point.def.identifier \in Seq(V) /\ m.point.def.unit \in Seq(V)
  /\ \A i \in DOMAIN parts :
       /\ parts[i].suffix \in Seq(V \ Cuts) /\ parts[i].value \in Seq(V \ Cuts)
       /\ m.point.attrs \o parts[i].extra \in Seq(Labels(V))

LEMMA PartsRead ==
  ASSUME NEW V, Writable(V), Decimals \in Nat, Now \in Int, NEW m, NEW P, NEW parts \in Seq(P),
         parts = render_value(m.point) \o Created(m.point, m.created), Sayable(V, m, parts)
  PROVE  ReadLines(render_metrics(m, FALSE)) = SamplesOf(m)
<1>1. PICK n \in Nat : n = Len(parts) /\ DOMAIN parts = 1..n
  OBVIOUS
<1> DEFINE line(i) == render_metric_point(m.point.def, parts[i].suffix, m.point.attrs \o parts[i].extra, parts[i].value)
           sample(i) == <<render_metric_name(m.point.def) \o parts[i].suffix>>
                        \o FlattenSeq(m.point.attrs \o parts[i].extra) \o <<parts[i].value, Decimal(Now)>>
<1>2. \A i \in 1..n : FoldLeft(ReadToken, Unread, line(i)).lines = <<sample(i)>>
  <2> TAKE i \in 1..n
  <2>0. PICK attrs : attrs = m.point.attrs \o parts[i].extra
    OBVIOUS
  <2>1. PICK suffix \in Seq(V \ Cuts), value \in Seq(V \ Cuts) :
          suffix = parts[i].suffix /\ value = parts[i].value /\ attrs \in Seq(Labels(V))
    BY <1>1, <2>0, Zenon DEF Sayable
  <2>2. PICK def : def = m.point.def /\ def.identifier \in Seq(V) /\ def.unit \in Seq(V)
    BY Zenon DEF Sayable
  <2>3. FoldLeft(ReadToken, Unread, render_metric_point(def, suffix, attrs, value)).lines
          = <<<<render_metric_name(def) \o suffix>> \o FlattenSeq(attrs) \o <<value, Decimal(Now)>>>>
    <3>1. def.identifier \in Seq(V) /\ def.unit \in Seq(V) /\ attrs \in Seq(Labels(V))
      BY <2>1, <2>2
    <3>2. IsSample(def, suffix, attrs, value)
      BY <3>1, LineTaken, Zenon
    <3> QED BY <3>2, Zenon DEF IsSample
  <2> QED BY <2>0, <2>1, <2>2, <2>3, Zenon
<1> HIDE DEF line, sample
<1>3. PICK w : w = [i \in 1..n |-> line(i)] /\ DOMAIN w = 1..n /\ \A i \in 1..n : w[i] = line(i)
  <2>1. PICK w : w = [i \in 1..n |-> line(i)]
    OBVIOUS
  <2>2. DOMAIN w = 1..n /\ \A i \in 1..n : w[i] = line(i)
    BY <2>1
  <2> QED BY <2>1, <2>2, Zenon
<1>4. render_metrics(m, FALSE) = w
  <2>1. render_metrics(m, FALSE) = <<>> \o w
    BY <1>1, <1>3, Zenon DEF render_metrics, line
  <2>2. w \in Seq({line(i) : i \in 1..n})
    BY <1>3
  <2> QED BY <2>1, <2>2, ConcatEmptySeq
<1>5. PICK s : s = [i \in 1..n |-> sample(i)] /\ \A i \in 1..n : s[i] = sample(i)
  <2>1. PICK s : s = [i \in 1..n |-> sample(i)]
    OBVIOUS
  <2>2. \A i \in 1..n : s[i] = sample(i)
    BY <2>1
  <2> QED BY <2>1, <2>2, Zenon
<1>6. SamplesOf(m) = s
  BY <1>1, <1>5, Zenon DEF SamplesOf, sample
<1>7. s \in Seq({sample(i) : i \in 1..n}) /\ Len(s) = n
  BY <1>5
<1>8. [i \in DOMAIN w |-> FoldLeft(ReadToken, Unread, w[i]).lines] = [i \in 1..n |-> <<s[i]>>]
  BY <1>2, <1>3, <1>5, Zenon
<1>9. FlattenSeq([i \in 1..n |-> <<s[i]>>]) = s
  BY <1>7, OnesFlatten, Zenon
<1> QED BY <1>4, <1>6, <1>8, <1>9, Zenon DEF ReadLines

\* Points of one number, or of none.
Metrics(V) == [type : {"gauge", "counter", "info"}, identifier : Seq(V), description : Seq(V), unit : Seq(V)]
Amounts(V) == [kind : {"number"}, text : Seq(V \ Cuts)] \cup [kind : {"info"}]
Points(V) == [def : Metrics(V), attrs : Seq(Labels(V)), value : Amounts(V)]

LEMMA PointReads ==
  ASSUME NEW V, Writable(V), Decimals \in Nat, Now \in Int, NEW m, m.point \in Points(V), m.created \in Int
  PROVE  ReadLines(render_metrics(m, FALSE)) = SamplesOf(m)
<1>1. PICK p \in Points(V) : p = m.point
  OBVIOUS
<1>2. p.def.identifier \in Seq(V) /\ p.def.unit \in Seq(V) /\ p.attrs \in Seq(Labels(V)) /\ p.value \in Amounts(V)
  BY DEF Points, Metrics
<1> DEFINE P == [suffix : Seq(V \ Cuts), extra : {<<>>}, value : Seq(V \ Cuts)]
<1>3. ASSUME NEW suffix \in Seq(V \ Cuts), NEW value \in Seq(V \ Cuts)
      PROVE  <<Part(suffix, <<>>, value)>> \in Seq(P)
  <2>1. Part(suffix, <<>>, value) \in P
    BY DEF Part
  <2> HIDE DEF P
  <2> QED BY <2>1, TokenIsText, Zenon
<1>4. /\ <<>> \in Seq(V \ Cuts) /\ <<"1">> \in Seq(V \ Cuts) /\ <<"_", "info">> \in Seq(V \ Cuts)
      /\ <<"_", "total">> \in Seq(V \ Cuts) /\ <<"_", "created">> \in Seq(V \ Cuts)
  <2>1. "1" \in V \ Cuts
    BY WritableHas, FiguresAre
  <2>2. "_" \in V \ Cuts /\ "info" \in V \ Cuts /\ "total" \in V \ Cuts /\ "created" \in V \ Cuts
    BY WritableHas
  <2> QED BY <2>1, <2>2, TwoElements, TokenIsText, EmptyIsText, ZenonT(40)
<1> HIDE DEF P
<1>5. render_value(p) \in Seq(P)
  <2>1. CASE p.value.kind = "info"
    <3>1. render_value(p) = <<Part(<<"_", "info">>, <<>>, <<"1">>)>>
      BY <2>1 DEF render_value
    <3> QED BY <1>3, <1>4, <3>1, Zenon
  <2>2. CASE p.value.kind = "number"
    <3>1. render_value(p) = <<Part(IF p.def.type = "counter" THEN <<"_", "total">> ELSE <<>>, <<>>, p.value.text)>>
      BY <2>2 DEF render_value
    <3>2. p.value.text \in Seq(V \ Cuts)
      BY <1>2, <2>2 DEF Amounts
    <3>3. (IF p.def.type = "counter" THEN <<"_", "total">> ELSE <<>>) \in Seq(V \ Cuts)
      BY <1>4, Zenon
    <3> QED BY <1>3, <3>1, <3>2, <3>3, Zenon
  <2>3. p.value.kind = "info" \/ p.value.kind = "number"
    BY <1>2 DEF Amounts
  <2> QED BY <2>1, <2>2, <2>3, Zenon
<1>6. Created(p, m.created) \in Seq(P)
  <2>1. Decimal(m.created) \in Seq(V \ Cuts)
    BY DecimalClean, Zenon
  <2>2. <<Part(<<"_", "created">>, <<>>, Decimal(m.created))>> \in Seq(P)
    BY <1>3, <1>4, <2>1, Zenon
  <2> QED BY <2>2, EmptyIsText, Zenon DEF Created
<1>7. PICK parts \in Seq(P) : parts = render_value(m.point) \o Created(m.point, m.created)
  BY <1>1, <1>5, <1>6, Closed, Zenon
<1>8. Sayable(V, m, parts)
  <2>1. ASSUME NEW i \in DOMAIN parts
        PROVE  /\ parts[i].suffix \in Seq(V \ Cuts) /\ parts[i].value \in Seq(V \ Cuts)
               /\ p.attrs \o parts[i].extra \in Seq(Labels(V))
    <3>1. parts[i] \in P
      BY ElementOfSeq
    <3>2. parts[i].suffix \in Seq(V \ Cuts) /\ parts[i].value \in Seq(V \ Cuts) /\ parts[i].extra = <<>>
      BY <3>1 DEF P
    <3>3. p.attrs \o <<>> = p.attrs
      BY <1>2, ConcatEmptySeq
    <3> QED BY <1>2, <3>2, <3>3, Zenon
  <2> QED BY <1>1, <1>2, <2>1, Zenon DEF Sayable
<1> QED BY <1>7, <1>8, PartsRead, Zenon

\* The names the readers give, and how numbers are written.
LabelKeys == {"level", "collection", "connID", "userAgent", "ident", "kind"}
SensorWords ==
  LabelKeys \cup
  {"nostr_database_level_size", "nostr_database_collection_size", "nostr_database_memory_usage",
   "nostr_database_events", "nostr_database_duplicated_posts", "nostr_client_info",
   "nostr_client_command_count", "nostr_client_query_count", "nostr_client_active_subscriptions",
   "nostr_client_error_count", "nostr_client_max_active_subscriptions", "nostr_client_post_events",
   "bytes", "uptime", "seconds", "Measure", "the", "up"}
Worded(V) == Writable(V) /\ SensorWords \subseteq V /\ \A n \in Int : ToString(n) \in V \ Cuts

LEMMA KeyStands ==
  ASSUME NEW key \in LabelKeys
  PROVE  render_attribute_key(<<key>>) = <<key>>
<1>1. key \notin Signs \cup {":"} /\ key \notin ToSet(Figures)
  BY FiguresAre DEF LabelKeys, Signs
<1>2. PICK name : name = <<key>> /\ name # <<>> /\ name[1] = key /\ DOMAIN name = 1..1 /\ name \in Seq({key})
  <2>1. <<key>> # <<>> /\ <<key>>[1] = key /\ DOMAIN <<key>> = 1..1 /\ <<key>> \in Seq({key})
    OBVIOUS
  <2> QED BY <2>1, Zenon
<1>3. [i \in DOMAIN name |-> IF name[i] \in Signs \cup {":"} THEN "_" ELSE name[i]] = name
  <2>1. \A i \in DOMAIN name : name[i] = key
    BY <1>2
  <2>2. \A i \in DOMAIN name : (IF name[i] \in Signs \cup {":"} THEN "_" ELSE name[i]) = name[i]
    BY <1>1, <2>1, Zenon
  <2>3. name = [i \in DOMAIN name |-> name[i]]
    BY <1>2
  <2> QED BY <2>2, <2>3, Zenon
<1>4. <<>> \o name = name
  BY <1>2, ConcatEmptySeq
<1> QED BY <1>1, <1>2, <1>3, <1>4, Zenon DEF render_attribute_key

LEMMA LabelIs ==
  ASSUME NEW V, Worded(V), NEW key \in LabelKeys, NEW value \in Seq(V)
  PROVE  Label(key, value) \in Labels(V)
<1>1. <<key>> \in Seq(V)
  <2>1. key \in V
    BY DEF Worded, SensorWords
  <2> QED BY <2>1, TokenIsText, Zenon
<1>2. PICK l \in Seq(V) \X Seq(V) : l = <<<<key>>, value>> /\ l[1] = <<key>>
  <2>1. \A a, b \in Seq(V) : <<a, b>> \in Seq(V) \X Seq(V) /\ <<a, b>>[1] = a
    OBVIOUS
  <2> QED BY <1>1, <2>1, Zenon
<1>3. l \in Labels(V)
  BY <1>2, KeyStands, Zenon DEF Labels
<1> QED BY <1>2, <1>3, Zenon DEF Label

LEMMA NumberIs ==
  ASSUME NEW V, Worded(V), NEW n \in Int
  PROVE  <<ToString(n)>> \in Seq(V) /\ Value(n) \in Amounts(V)
<1>1. ToString(n) \in V \ Cuts /\ ToString(n) \in V
  BY DEF Worded
<1>2. <<ToString(n)>> \in Seq(V) /\ <<ToString(n)>> \in Seq(V \ Cuts)
  BY <1>1, TokenIsText, Zenon
<1>3. PICK t \in Seq(V \ Cuts) : t = <<ToString(n)>>
  BY <1>2, Zenon
<1>4. [kind |-> "number", text |-> t] \in Amounts(V)
  BY DEF Amounts
<1> QED BY <1>2, <1>3, <1>4, Zenon DEF Value

LEMMA PointIs ==
  ASSUME NEW V, NEW def \in Metrics(V), NEW attrs \in Seq(Labels(V)), NEW value \in Amounts(V)
  PROVE  Point(def, attrs, value) \in Points(V)
BY DEF Point, Points

LEMMA MetricIs ==
  ASSUME NEW V, Worded(V), NEW name \in SensorWords, NEW type \in {"gauge", "info"}
  PROVE  /\ Metric(type, <<name>>, <<>>, <<>>) \in Metrics(V)
         /\ Gauge(name) \in Metrics(V) /\ Counter(name) \in Metrics(V)
<1>1. name \in V /\ "bytes" \in V
  BY DEF Worded, SensorWords
<1>2. <<name>> \in Seq(V) /\ <<"bytes">> \in Seq(V) /\ <<>> \in Seq(V)
  BY <1>1, TokenIsText, EmptyIsText, Zenon
<1>3. \A t \in {"gauge", "counter", "info"}, x, y, z \in Seq(V) : Metric(t, x, y, z) \in Metrics(V)
  BY DEF Metric, Metrics
<1>4. "gauge" \in {"gauge", "counter", "info"} /\ "counter" \in {"gauge", "counter", "info"}
      /\ type \in {"gauge", "counter", "info"}
  OBVIOUS
<1> QED BY <1>2, <1>3, <1>4, Zenon DEF Gauge, Counter

\* What the readers of the program's sensors are given: of a client, any name.
TableLines == [heading : BOOLEAN, number : Int]
OwnSensor(V, s) ==
  \/ /\ s.type = "client" /\ s.id \in Int /\ s.user_agent \in Seq(V) /\ s.ident \in Seq(V)
     /\ s.counters \in [1..5 -> Int] /\ s.kinds \in Seq([kind : Int, count : Int])
  \/ /\ s.type = "database" /\ s.tables \in Seq(TableLines) /\ s.memory \in Int
     /\ s.collections \in Seq([name : Seq(V), size : Int])
  \/ s.type = "storage" /\ s.rev \in Int
  \/ s.type = "stats" /\ s.duplicated_post \in Int

LEMMA ClientMetrics ==
  ASSUME NEW V, Worded(V)
  PROVE  DOMAIN client_metrics = 1..5 /\ \A i \in 1..5 : client_metrics[i] \in Metrics(V)
<1>1. DOMAIN client_metrics = 1..5
  BY DEF client_metrics
<1>2. /\ client_metrics[1] = Counter("nostr_client_command_count")
      /\ client_metrics[2] = Counter("nostr_client_query_count")
      /\ client_metrics[3] = Metric("gauge", <<"nostr_client_active_subscriptions">>, <<>>, <<>>)
      /\ client_metrics[4] = Counter("nostr_client_error_count")
      /\ client_metrics[5] = Metric("gauge", <<"nostr_client_max_active_subscriptions">>, <<>>, <<>>)
  BY DEF client_metrics
<1>3. \A name \in SensorWords : /\ Counter(name) \in Metrics(V)
                                /\ Metric("gauge", <<name>>, <<>>, <<>>) \in Metrics(V)
  BY MetricIs
<1>4. {"nostr_client_command_count", "nostr_client_query_count", "nostr_client_active_subscriptions",
       "nostr_client_error_count", "nostr_client_max_active_subscriptions"} \subseteq SensorWords
  BY DEF SensorWords
<1>5. /\ client_metrics[1] \in Metrics(V) /\ client_metrics[2] \in Metrics(V) /\ client_metrics[3] \in Metrics(V)
      /\ client_metrics[4] \in Metrics(V) /\ client_metrics[5] \in Metrics(V)
  <2> HIDE DEF client_metrics
  <2>1. /\ "nostr_client_command_count" \in SensorWords /\ "nostr_client_query_count" \in SensorWords
        /\ "nostr_client_active_subscriptions" \in SensorWords /\ "nostr_client_error_count" \in SensorWords
        /\ "nostr_client_max_active_subscriptions" \in SensorWords
    BY <1>4
  <2> QED BY <1>2, <1>3, <2>1, Zenon
<1>6. \A i \in 1..5 : i = 1 \/ i = 2 \/ i = 3 \/ i = 4 \/ i = 5
  OBVIOUS
<1> QED BY <1>1, <1>5, <1>6, Zenon

LEMMA RowOf ==
  ASSUME NEW S, NEW n \in Nat, NEW f, f = [i \in 1..n |-> f[i]], \A i \in 1..n : f[i] \in S
  PROVE  f \in Seq(S)
OBVIOUS

LEMMA ClientPoints ==
  ASSUME NEW V, Worded(V), NEW s, s.id \in Int, s.user_agent \in Seq(V), s.ident \in Seq(V),
         s.counters \in [1..5 -> Int], s.kinds \in Seq([kind : Int, count : Int])
  PROVE  Client(s) \in Seq(Points(V))
<1>1. PICK l \in Labels(V) : l = Label("connID", <<ToString(s.id)>>)
  <2>1. "connID" \in LabelKeys
    BY DEF LabelKeys
  <2>2. <<ToString(s.id)>> \in Seq(V)
    BY NumberIs, Zenon
  <2> QED BY <2>1, <2>2, LabelIs, Zenon
<1>2. PICK a \in Labels(V), b \in Labels(V) : a = Label("userAgent", s.user_agent) /\ b = Label("ident", s.ident)
  <2>1. "userAgent" \in LabelKeys /\ "ident" \in LabelKeys
    BY DEF LabelKeys
  <2> QED BY <2>1, LabelIs, Zenon
<1>3. PICK basic \in Seq(Labels(V)), extended \in Seq(Labels(V)) :
        /\ basic = <<Label("connID", <<ToString(s.id)>>)>>
        /\ extended = basic \o <<Label("userAgent", s.user_agent), Label("ident", s.ident)>>
  <2>1. PICK basic \in Seq(Labels(V)) : basic = <<l>>
    BY TokenIsText, Zenon
  <2>2. basic \o <<a, b>> \in Seq(Labels(V))
    <3>1. <<a, b>> \in Seq(Labels(V))
      BY TwoElements, Zenon
    <3> QED BY <3>1, Closed, Zenon
  <2> QED BY <1>1, <1>2, <2>1, <2>2, Zenon
<1>4. PICK info \in Points(V) :
        info = Point(Metric("info", <<"nostr_client_info">>, <<>>, <<>>), extended, [kind |-> "info"])
  <2>1. "nostr_client_info" \in SensorWords /\ "info" \in {"gauge", "info"}
    BY DEF SensorWords
  <2>2. Metric("info", <<"nostr_client_info">>, <<>>, <<>>) \in Metrics(V)
    BY <2>1, MetricIs, Zenon
  <2>3. [kind |-> "info"] \in Amounts(V)
    BY DEF Amounts
  <2> QED BY <2>2, <2>3, PointIs, Zenon
<1>5. PICK counted \in Seq(Points(V)) :
        counted = [i \in DOMAIN client_metrics |-> Point(client_metrics[i], basic, Value(s.counters[i]))]
  <2>1. ASSUME NEW i \in 1..5 PROVE Point(client_metrics[i], basic, Value(s.counters[i])) \in Points(V)
    <3>1. s.counters[i] \in Int
      OBVIOUS
    <3>2. Value(s.counters[i]) \in Amounts(V) /\ client_metrics[i] \in Metrics(V)
      BY <3>1, ClientMetrics, NumberIs, Zenon
    <3> QED BY <3>2, PointIs, Zenon
  <2>2. PICK f : f = [i \in 1..5 |-> Point(client_metrics[i], basic, Value(s.counters[i]))]
    OBVIOUS
  <2>3. \A i \in 1..5 : f[i] \in Points(V)
    BY <2>1, <2>2
  <2>4. f \in Seq(Points(V))
    BY <2>2, <2>3, RowOf
  <2> QED BY <2>2, <2>4, ClientMetrics, Zenon
<1>6. PICK posts \in Seq(Points(V)) :
        posts = [i \in DOMAIN s.kinds |->
                     Point(Counter("nostr_client_post_events"),
                           Append(basic, Label("kind", <<ToString(s.kinds[i].kind)>>)),
                           Value(s.kinds[i].count))]
  <2>0. PICK n \in Nat : DOMAIN s.kinds = 1..n /\ \A i \in 1..n : s.kinds[i] \in [kind : Int, count : Int]
    <3>1. Len(s.kinds) \in Nat /\ DOMAIN s.kinds = 1..Len(s.kinds)
      OBVIOUS
    <3> QED BY <3>1, ElementOfSeq, ZenonT(40)
  <2> DEFINE point(i) == Point(Counter("nostr_client_post_events"),
                               Append(basic, Label("kind", <<ToString(s.kinds[i].kind)>>)),
                               Value(s.kinds[i].count))
  <2>1. ASSUME NEW i \in 1..n PROVE point(i) \in Points(V)
    <3>1. PICK k \in Int, c \in Int : k = s.kinds[i].kind /\ c = s.kinds[i].count
      BY <2>0
    <3>2. "kind" \in LabelKeys /\ "nostr_client_post_events" \in SensorWords
      BY DEF LabelKeys, SensorWords
    <3>3. <<ToString(k)>> \in Seq(V) /\ Value(c) \in Amounts(V)
      BY NumberIs, Zenon
    <3>4. Label("kind", <<ToString(k)>>) \in Labels(V)
      BY <3>2, <3>3, LabelIs, Zenon
    <3>5. Append(basic, Label("kind", <<ToString(k)>>)) \in Seq(Labels(V))
      BY <3>4, Appends, Zenon
    <3>6. "gauge" \in {"gauge", "info"}
      OBVIOUS
    <3>7. Counter("nostr_client_post_events") \in Metrics(V)
      BY <3>2, <3>6, MetricIs, Zenon
    <3> QED BY <3>1, <3>3, <3>5, <3>7, PointIs, Zenon
  <2> HIDE DEF point
  <2>2. PICK f : f = [i \in 1..n |-> point(i)]
    OBVIOUS
  <2>3. \A i \in 1..n : f[i] \in Points(V)
    BY <2>1, <2>2
  <2>4. f \in Seq(Points(V))
    BY <2>2, <2>3, RowOf
  <2> QED BY <2>0, <2>2, <2>4, Zenon DEF point
<1>7. <<info>> \in Seq(Points(V))
  BY TokenIsText, Zenon
<1>8. (<<info>> \o counted) \o posts \in Seq(Points(V))
  BY <1>7, Closed, Zenon
<1>9. Client(s) = (<<info>> \o counted) \o posts
  BY <1>3, <1>4, <1>5, <1>6, Zenon DEF Client
<1> QED BY <1>8, <1>9, Zenon

\* The files of the levels, as they are read.
LevelReads(V) == [level : Int, size : Int, out : Seq(Points(V))]

LEMMA FlushType ==
  ASSUME NEW V, Worded(V), NEW read \in LevelReads(V)
  PROVE  Flush(read) \in Seq(Points(V))
<1>1. read.level \in Int /\ read.size \in Int /\ read.out \in Seq(Points(V))
  BY DEF LevelReads
<1>2. PICK l \in Labels(V) : l = Label("level", <<ToString(read.level)>>)
  <2>1. "level" \in LabelKeys
    BY DEF LabelKeys
  <2>2. <<ToString(read.level)>> \in Seq(V)
    BY <1>1, NumberIs, Zenon
  <2> QED BY <2>1, <2>2, LabelIs, Zenon
<1>3. PICK p \in Points(V) : p = Point(Gauge("nostr_database_level_size"), <<l>>, Value(read.size))
  <2>1. "nostr_database_level_size" \in SensorWords /\ "gauge" \in {"gauge", "info"}
    BY DEF SensorWords
  <2>2. Gauge("nostr_database_level_size") \in Metrics(V)
    BY <2>1, MetricIs, Zenon
  <2>3. Value(read.size) \in Amounts(V) /\ <<l>> \in Seq(Labels(V))
    BY <1>1, NumberIs, TokenIsText, Zenon
  <2> QED BY <2>2, <2>3, PointIs, Zenon
<1>4. Append(read.out, p) \in Seq(Points(V))
  BY <1>1, Appends, Zenon
<1> QED BY <1>1, <1>2, <1>3, <1>4, Zenon DEF Flush

LEMMA ReadTableType ==
  ASSUME NEW V, Worded(V), NEW read \in LevelReads(V), NEW line \in TableLines
  PROVE  ReadTable(read, line) \in LevelReads(V)
<1>1. line.heading \in BOOLEAN /\ line.number \in Int
  BY DEF TableLines
<1>2. Flush(read) \in Seq(Points(V))
  BY FlushType, Zenon
<1>3. [level |-> line.number, size |-> 0, out |-> Flush(read)] \in LevelReads(V)
  BY <1>1, <1>2 DEF LevelReads
<1>4. [read EXCEPT !.size = read.size + line.number] \in LevelReads(V)
  BY <1>1 DEF LevelReads
<1> QED BY <1>1, <1>3, <1>4 DEF ReadTable

LEMMA TablesType ==
  ASSUME NEW V, Worded(V), NEW lines \in Seq(TableLines)
  PROVE  Tables(lines) \in Seq(Points(V))
<1>1. PICK n \in Nat : n = Len(lines) /\ DOMAIN lines = 1..n /\ \A i \in 1..n : lines[i] \in TableLines
  <2>1. Len(lines) \in Nat /\ DOMAIN lines = 1..Len(lines)
    OBVIOUS
  <2> QED BY <2>1, ElementOfSeq, Zenon
<1> DEFINE D == LevelReads(V)
<1>2. PICK w \in D : w = [level |-> -1, size |-> 0, out |-> <<>>]
  <2>1. <<>> \in Seq(Points(V))
    BY EmptyIsText, Zenon
  <2>2. \A l, z \in Int, o \in Seq(Points(V)) : [level |-> l, size |-> z, out |-> o] \in LevelReads(V)
    BY DEF LevelReads
  <2>3. -1 \in Int /\ 0 \in Int
    OBVIOUS
  <2> QED BY <2>1, <2>2, <2>3, Zenon
<1> DEFINE step == [x \in (1..n) \X D |-> ReadTable(x[2], lines[x[1]])]
           Solves(g) == g = [s \in SUBSET (1..n) |->
                               IF s = {} THEN w ELSE ReadTable(g[s \ {Max(s)}], lines[Max(s)])]
<1> HIDE DEF D
<1>3. \A i \in 1..n, x \in D : ReadTable(x, lines[i]) \in D
  BY <1>1, ReadTableType DEF D
<1>4. step \in [(1..n) \X D -> D]
  BY <1>3
<1>5. PICK g \in [SUBSET (1..n) -> D] : FoldsSteps(g, w, n, step)
  <2> HIDE DEF step
  <2> QED BY <1>4, FoldExists
<1>6. Solves(g)
  <2>1. ASSUME NEW s \in SUBSET (1..n), s # {}
        PROVE  step[<<Max(s), g[s \ {Max(s)}]>>] = ReadTable(g[s \ {Max(s)}], lines[Max(s)])
    <3>1. s \in SUBSET (0..n)
      OBVIOUS
    <3>2. Max(s) \in 1..n
      BY <2>1, <3>1, MaxIs
    <3>3. g[s \ {Max(s)}] \in D
      BY <1>5
    <3> QED BY <3>2, <3>3
  <2> HIDE DEF step
  <2> QED BY <1>5, <2>1, Zenon DEF FoldsSteps
<1> HIDE DEF Solves
<1> DEFINE h == CHOOSE g1 : Solves(g1)
<1>7. Solves(h)
  BY <1>6, Zenon
<1>8. FoldLeft(ReadTable, w, lines) = h[1..n]
  BY <1>1, <1>7, Zenon DEF FoldLeft, MapThenFoldSet, Solves
<1> HIDE DEF h
<1> DEFINE S == {k \in Nat : k <= n => h[1..k] \in D}
<1>9. 0 \in S
  <2>1. 1..0 = {} /\ {} \in SUBSET (1..n)
    OBVIOUS
  <2>2. h[{}] = w
    BY <1>7, <2>1, Zenon DEF Solves
  <2> QED BY <2>1, <2>2
<1>10. ASSUME NEW k \in Nat, k \in S PROVE k + 1 \in S
  <2> SUFFICES ASSUME k + 1 <= n PROVE h[1..(k + 1)] \in D
    OBVIOUS
  <2>1. k <= n /\ k \in 0..(n - 1) /\ k + 1 \in 1..n
    OBVIOUS
  <2>2. /\ 1..(k + 1) \in SUBSET (1..n) /\ 1..(k + 1) # {}
        /\ Max(1..(k + 1)) = k + 1 /\ (1..(k + 1)) \ {k + 1} = 1..k
    BY <2>1, SegmentOf
  <2>3. h[1..(k + 1)] = ReadTable(h[(1..(k + 1)) \ {Max(1..(k + 1))}], lines[Max(1..(k + 1))])
    BY <1>7, <2>2, Zenon DEF Solves
  <2>4. PICK x \in D : x = h[1..k]
    BY <1>10, <2>1
  <2>5. h[1..(k + 1)] = ReadTable(x, lines[k + 1])
    BY <2>2, <2>3, <2>4
  <2> QED BY <1>3, <2>1, <2>5, Zenon
<1>11. h[1..n] \in D
  <2> HIDE DEF S
  <2>1. n \in S
    BY <1>9, <1>10, AllNaturals
  <2>2. n <= n
    OBVIOUS
  <2> QED BY <2>1, <2>2 DEF S
<1>12. Tables(lines) = Flush(h[1..n])
  BY <1>2, <1>8, Zenon DEF Tables
<1> QED BY <1>11, <1>12, FlushType, ZenonT(40) DEF D

LEMMA GaugePoint ==
  ASSUME NEW V, Worded(V), NEW name \in SensorWords, NEW attrs \in Seq(Labels(V)), NEW n \in Int
  PROVE  /\ Point(Gauge(name), attrs, Value(n)) \in Points(V)
         /\ Point(Counter(name), attrs, Value(n)) \in Points(V)
<1>1. Gauge(name) \in Metrics(V) /\ Counter(name) \in Metrics(V)
  <2>1. "gauge" \in {"gauge", "info"}
    OBVIOUS
  <2> QED BY <2>1, MetricIs, Zenon
<1>2. Value(n) \in Amounts(V)
  BY NumberIs, Zenon
<1> QED BY <1>1, <1>2, PointIs, Zenon

LEMMA DatabasePoints ==
  ASSUME NEW V, Worded(V), NEW s, s.tables \in Seq(TableLines), s.memory \in Int,
         s.collections \in Seq([name : Seq(V), size : Int])
  PROVE  Database(s) \in Seq(Points(V))
<1>0. /\ "nostr_database_collection_size" \in SensorWords /\ "nostr_database_memory_usage" \in SensorWords
      /\ "collection" \in LabelKeys /\ <<>> \in Seq(Labels(V))
  <2>1. /\ "nostr_database_collection_size" \in SensorWords /\ "nostr_database_memory_usage" \in SensorWords
        /\ "collection" \in LabelKeys
    BY DEF SensorWords, LabelKeys
  <2> QED BY <2>1, EmptyIsText, Zenon
<1>1. PICK n \in Nat : /\ DOMAIN s.collections = 1..n
                       /\ \A i \in 1..n : s.collections[i] \in [name : Seq(V), size : Int]
  <2>1. Len(s.collections) \in Nat /\ DOMAIN s.collections = 1..Len(s.collections)
    OBVIOUS
  <2> QED BY <2>1, ElementOfSeq
<1> DEFINE point(i) == Point(Gauge("nostr_database_collection_size"),
                             <<Label("collection", s.collections[i].name)>>, Value(s.collections[i].size))
<1>2. ASSUME NEW i \in 1..n PROVE point(i) \in Points(V)
  <2>1. PICK t \in Seq(V), z \in Int : t = s.collections[i].name /\ z = s.collections[i].size
    BY <1>1
  <2>2. Label("collection", t) \in Labels(V)
    BY <1>0, LabelIs, Zenon
  <2>3. <<Label("collection", t)>> \in Seq(Labels(V))
    BY <2>2, TokenIsText, Zenon
  <2> QED BY <1>0, <2>1, <2>3, GaugePoint, Zenon
<1> HIDE DEF point
<1>3. PICK f \in Seq(Points(V)) : f = [i \in 1..n |-> point(i)]
  <2>1. PICK f : f = [i \in 1..n |-> point(i)]
    OBVIOUS
  <2>2. \A i \in 1..n : f[i] \in Points(V)
    BY <1>2, <2>1
  <2>3. f \in Seq(Points(V))
    BY <2>1, <2>2, RowOf
  <2> QED BY <2>1, <2>3, Zenon
<1>4. PICK last \in Seq(Points(V)) : last = <<Point(Gauge("nostr_database_memory_usage"), <<>>, Value(s.memory))>>
  BY <1>0, GaugePoint, TokenIsText, Zenon
<1>5. Tables(s.tables) \in Seq(Points(V))
  BY TablesType, Zenon
<1>6. (Tables(s.tables) \o f) \o last \in Seq(Points(V))
  BY <1>5, Closed, Zenon
<1>7. Database(s) = (Tables(s.tables) \o f) \o last
  BY <1>1, <1>3, <1>4, Zenon DEF Database, point
<1> QED BY <1>6, <1>7, Zenon

LEMMA EmittedPoints ==
  ASSUME NEW V, Worded(V), NEW s, OwnSensor(V, s)
  PROVE  Emitted(s) \in Seq(Points(V))
<1>0. "nostr_database_events" \in SensorWords /\ "nostr_database_duplicated_posts" \in SensorWords
  BY DEF SensorWords
<1>1. <<>> \in Seq(Labels(V))
  BY EmptyIsText, Zenon
<1>2. CASE /\ s.type = "client" /\ s.id \in Int /\ s.user_agent \in Seq(V) /\ s.ident \in Seq(V)
           /\ s.counters \in [1..5 -> Int] /\ s.kinds \in Seq([kind : Int, count : Int])
  <2>1. Emitted(s) = Client(s)
    BY <1>2 DEF Emitted
  <2>2. Client(s) \in Seq(Points(V))
    BY <1>2, ClientPoints
  <2> QED BY <2>1, <2>2, Zenon
<1>3. CASE /\ s.type = "database" /\ s.tables \in Seq(TableLines) /\ s.memory \in Int
           /\ s.collections \in Seq([name : Seq(V), size : Int])
  <2>1. Emitted(s) = Database(s)
    BY <1>3 DEF Emitted
  <2>2. Database(s) \in Seq(Points(V))
    BY <1>3, DatabasePoints
  <2> QED BY <2>1, <2>2, Zenon
<1>4. CASE s.type = "storage" /\ s.rev \in Int
  <2>1. Emitted(s) = Storage(s)
    BY <1>4 DEF Emitted
  <2>2. Storage(s) \in Seq(Points(V))
    BY <1>0, <1>1, <1>4, GaugePoint, TokenIsText, Zenon DEF Storage
  <2> QED BY <2>1, <2>2, Zenon
<1>5. CASE s.type = "stats" /\ s.duplicated_post \in Int
  <2>1. Emitted(s) = SharedStats(s)
    BY <1>5 DEF Emitted
  <2>2. SharedStats(s) \in Seq(Points(V))
    BY <1>0, <1>1, <1>5, GaugePoint, TokenIsText, Zenon DEF SharedStats
  <2> QED BY <2>1, <2>2, Zenon
<1> QED BY <1>2, <1>3, <1>4, <1>5, Zenon DEF OwnSensor

LEMMA FiveElements ==
  ASSUME NEW V, NEW a \in V, NEW b \in V, NEW c \in V, NEW d \in V, NEW e \in V
  PROVE  <<a, b, c, d, e>> \in Seq(V)
OBVIOUS

LEMMA UptimePoint ==
  ASSUME NEW V, Worded(V), Decimals \in Nat, Start \in Int, Now \in Int
  PROVE  Uptime.point \in Points(V) /\ Uptime.created \in Int
<1>1. /\ "uptime" \in V /\ "seconds" \in V /\ "Measure" \in V /\ " " \in V /\ "the" \in V /\ "up" \in V
  BY WritableHas DEF Worded, SensorWords
<1>2. <<"uptime">> \in Seq(V) /\ <<"seconds">> \in Seq(V)
  BY <1>1, TokenIsText, Zenon
<1>3. <<"Measure", " ", "the", " ", "up">> \in Seq(V)
  BY <1>1, FiveElements, Zenon
<1>4. uptime_metric \in Metrics(V)
  <2>1. \A x, y, z \in Seq(V) : Metric("counter", x, y, z) \in Metrics(V)
    BY DEF Metric, Metrics
  <2> QED BY <1>2, <1>3, <2>1, Zenon DEF uptime_metric
<1>5. PICK t \in Seq(V \ Cuts) : t = Decimal(Now - Start)
  <2>1. Now - Start \in Int
    OBVIOUS
  <2> QED BY <2>1, DecimalClean, Zenon DEF Worded
<1>6. [kind |-> "number", text |-> t] \in Amounts(V)
  BY DEF Amounts
<1>7. Point(uptime_metric, <<>>, [kind |-> "number", text |-> t]) \in Points(V)
  BY <1>4, <1>6, PointIs, EmptyIsText, Zenon
<1>8. Uptime = [point |-> Point(uptime_metric, <<>>, [kind |-> "number", text |-> t]), created |-> Start]
  BY <1>5, Zenon DEF Uptime
<1> QED BY <1>7, <1>8

\* What a report is made of: the points of the program's sensors, and its own.
Told(V, m) ==
  \/ m = Uptime
  \/ m.created \in Int /\ \E s : OwnSensor(V, s) /\ m.point \in ToSet(Emitted(s))

\* Whatever the program's readers emit is read back from the lines written for it, as it was
\* emitted: one sample for each line, its name and suffix, its labels in their order with their
\* values, its number and the time of the report, whatever clients and collections are called.
THEOREM SamplesReadBack ==
  ASSUME NEW V, Worded(V), Decimals \in Nat, Start \in Int, Now \in Int, NEW m, Told(V, m)
  PROVE  ReadLines(render_metrics(m, FALSE)) = SamplesOf(m)
<1>1. m.point \in Points(V) /\ m.created \in Int
  <2>1. CASE m = Uptime
    BY <2>1, UptimePoint, Zenon
  <2>2. CASE m.created \in Int /\ \E s : OwnSensor(V, s) /\ m.point \in ToSet(Emitted(s))
    <3>1. PICK s : OwnSensor(V, s) /\ m.point \in ToSet(Emitted(s))
      BY <2>2
    <3>2. Emitted(s) \in Seq(Points(V))
      BY <3>1, EmittedPoints, Zenon
    <3>3. \A i \in DOMAIN Emitted(s) : Emitted(s)[i] \in Points(V)
      BY <3>2, ElementOfSeq
    <3>4. m.point \in Points(V)
      BY <3>1, <3>3 DEF ToSet
    <3> QED BY <2>2, <3>4
  <2> QED BY <2>1, <2>2, Zenon DEF Told
<1> QED BY <1>1, PointReads, Zenon DEF Worded

=============================================================================
