------------------------- MODULE FilterIndexProofs -------------------------
(***************************************************************************)
(* A query misses nothing: the candidates App::find_in_index collects from *)
(* the indexes include every event that Filter::test lets through, for     *)
(* every archive and every list of filters.                                *)
(***************************************************************************)
EXTENDS FilterIndex, TLAPS

\* Every selection of a filter holds each stored event the filter matches.
LEMMA MatchesAreFound ==
  ASSUME NEW docs, NEW f, NEW e \in docs, Wants(f, e)
  PROVE  FoundBy(docs, f, e)
<1> SUFFICES ASSUME NEW s \in Selections(docs, f)
             PROVE  e \in DOMAIN s
  BY DEF FoundBy
<1>0. Test(f, e) /\ KeyRange(f, e)
  BY DEF Wants, Test, KeyRange
<1>1. CASE f.ids # {} /\ s = ById(docs, f)
  BY <1>0, <1>1 DEF Test, ById
<1>2. CASE f.authors # {} /\ s = ByAuthor(docs, f)
  <2>1. PICK a \in f.authors : e.author \in a.match
    BY <1>0, <1>2 DEF Test
  <2>2. e \in OfAuthor(docs, f, a)
    BY <1>0, <2>1 DEF OfAuthor
  <2>3. e \in UNION {OfAuthor(docs, f, b) : b \in f.authors}
    BY <2>1, <2>2
  <2> QED BY <1>2, <2>3 DEF ByAuthor
<1>3. ASSUME NEW t \in f.tags, s = ByTag(docs, f, t)
      PROVE  e \in DOMAIN s
  <2>1. PICK x \in t.values : <<t.tag, x>> \in TagsOf(e)
    BY <1>0, <1>3 DEF Test
  <2>2. \E y \in TagsOf(e) : y[1] = t.tag /\ TagHash(y[2]) = TagHash(x)
    <3>1. <<t.tag, x>>[1] = t.tag /\ <<t.tag, x>>[2] = x
      OBVIOUS
    <3> QED BY <2>1, <3>1
  <2> QED BY <1>0, <1>3, <2>1, <2>2 DEF ByTag
<1>4. CASE f.kinds # {} /\ s = ByKind(docs, f)
  BY <1>0, <1>4 DEF Test, ByKind
<1>5. CASE NeedTime(f) /\ s = ByTime(docs, f)
  BY <1>0, <1>5 DEF ByTime
<1>6. CASE f.search # {} /\ s = ByText(docs, f)
  <2>1. PICK words \in f.search : \E w \in words : Rank(w, e) > 0
    BY <1>6 DEF Wants
  <2>2. {w \in UNION f.search : Rank(w, e) > 0} # {}
    BY <2>1
  <2> QED BY <1>6, <2>2 DEF ByText
<1> QED BY <1>1, <1>2, <1>3, <1>4, <1>5, <1>6 DEF Selections

\* App::find_in_index with Peer::on_req: no stored event that a filter of the request
\* matches is missing from the candidates, unless a filter without any criterion
\* turned the request into one for live events only.
THEOREM QueriesComplete ==
  ASSUME NEW docs, NEW flts
  PROVE  Complete(docs, flts)
<1> SUFFICES ASSUME ~Inverted(flts), NEW e \in Matching(docs, flts)
             PROVE  e \in DOMAIN find_in_index(docs, flts)
  BY DEF Complete
<1>1. PICK f \in flts : e \in docs /\ Wants(f, e)
  BY DEF Matching
<1>2. FoundBy(docs, f, e)
  BY <1>1, MatchesAreFound
<1> QED BY <1>1, <1>2 DEF find_in_index
=============================================================================
