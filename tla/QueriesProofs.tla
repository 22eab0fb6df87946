---------------------------- MODULE QueriesProofs ----------------------------
(***************************************************************************)
(* Queries, for any archive, filters and limits: nothing is missing, the   *)
(* page is as long as asked and newest first, and COUNT is never too low   *)
(* and exact where neither hashes collide nor time narrows half of the     *)
(* authors; of an inverted set nothing is sent or counted.                 *)
(***************************************************************************)
EXTENDS Queries, FilterIndexProofs, FiniteSetTheorems, WellFoundedInduction

THEOREM QueriesTyped == Spec => []TypeOK
<1>1. Init => TypeOK
  BY DEF Init, TypeOK
<1>2. TypeOK /\ [Next]_<<docs, flts>> => TypeOK'
  BY DEF TypeOK, Next, Store, Ask
<1> QED BY <1>1, <1>2, PTL DEF Spec

\* Whatever a REQ asks for, no stored event that matches is missing (find_in_index); an
\* inverted set stands for all items.
THEOREM NothingIsMissing == Spec => []CandidatesComplete
<1>1. CandidatesComplete
  BY QueriesComplete DEF CandidatesComplete
<1> QED BY <1>1, PTL

-----------------------------------------------------------------------------
(* COUNT.                                                                  *)

\* A candidate lies between since and until: a range asked was narrowed by time.
LEMMA CandidatesInTime ==
  ASSUME NEW D, NEW f, NEW e \in D, FoundBy(D, f, e), ~HalfNarrowed(f)
  PROVE  KeyRange(f, e)
<1>1. CASE f.since \cup f.until = {}
  BY <1>1 DEF KeyRange
<1>2. ASSUME NEW t \in f.tags PROVE KeyRange(f, e)
  <2>1. ByTag(D, f, t) \in Selections(D, f)
    BY <1>2 DEF Selections
  <2>2. e \in DOMAIN ByTag(D, f, t)
    BY <2>1 DEF FoundBy
  <2> QED BY <2>2 DEF ByTag
<1>3. CASE f.kinds # {}
  <2>1. e \in DOMAIN ByKind(D, f)
    BY <1>3 DEF FoundBy, Selections
  <2> QED BY <2>1 DEF ByKind
<1>4. CASE NeedTime(f)
  <2>1. e \in DOMAIN ByTime(D, f)
    BY <1>4 DEF FoundBy, Selections
  <2> QED BY <2>1 DEF ByTime
<1>5. CASE f.since \cup f.until # {} /\ f.tags = {} /\ f.kinds = {} /\ ~NeedTime(f)
  <2>1. f.authors # {} /\ \A a \in f.authors : a.full
    BY <1>5 DEF NeedTime, HalfNarrowed
  <2>2. e \in DOMAIN ByAuthor(D, f)
    BY <2>1 DEF FoundBy, Selections
  <2>3. PICK a \in f.authors : e \in OfAuthor(D, f, a)
    BY <2>2 DEF ByAuthor
  <2> QED BY <2>1, <2>3 DEF OfAuthor
<1> QED BY <1>1, <1>2, <1>3, <1>4, <1>5

\* Without colliding hashes a candidate has the tags the filter wants.
LEMMA CandidatesTagged ==
  ASSUME NEW D, NEW f, NEW e \in D, FoundBy(D, f, e), ~Collides(D, f), NEW t \in f.tags
  PROVE  \E x \in t.values : <<t.tag, x>> \in TagsOf(e)
<1>1. e \in DOMAIN ByTag(D, f, t)
  <2>1. ByTag(D, f, t) \in Selections(D, f)
    BY DEF Selections
  <2> QED BY <2>1 DEF FoundBy
<1>2. PICK x \in t.values, y \in TagsOf(e) : y[1] = t.tag /\ TagHash(y[2]) = TagHash(x)
  BY <1>1 DEF ByTag
<1>3. y[2] = x
  BY <1>2 DEF Collides
<1>4. y = <<y[1], y[2]>>
  <2>1. y = <<"e", e.target>> \/ y = <<"x", e.hash>>
    BY DEF TagsOf
  <2> QED BY <2>1
<1> QED BY <1>2, <1>3, <1>4

\* A filter has one search.
LEMMA OneSearch ==
  ASSUME QueriesAssumption, NEW F \in Requests \cup {{}}, NEW f \in F, NEW words \in f.search
  PROVE  f.search = {words}
BY DEF QueriesAssumption

LEMMA CandidatesMatch ==
  ASSUME QueriesAssumption, NEW F \in Requests \cup {{}}, NEW f \in F,
         NEW D, NEW e \in D, FoundBy(D, f, e), ~Collides(D, f), ~HalfNarrowed(f)
  PROVE  Wants(f, e)
<1>1. f.authors = {} \/ \E a \in f.authors : e.author \in a.match
  <2>1. f.authors # {} => e \in DOMAIN ByAuthor(D, f)
    BY DEF FoundBy, Selections
  <2> QED BY <2>1 DEF ByAuthor, OfAuthor
<1>2. f.ids = {} \/ \E i \in f.ids : e.id \in i.match
  <2>1. f.ids # {} => e \in DOMAIN ById(D, f)
    BY DEF FoundBy, Selections
  <2> QED BY <2>1 DEF ById
<1>3. f.kinds = {} \/ e.kind \in f.kinds
  <2>1. f.kinds # {} => e \in DOMAIN ByKind(D, f)
    BY DEF FoundBy, Selections
  <2> QED BY <2>1 DEF ByKind
<1>4. \A t \in f.tags : \E x \in t.values : <<t.tag, x>> \in TagsOf(e)
  BY CandidatesTagged
<1>5. KeyRange(f, e)
  BY CandidatesInTime
<1>6. ASSUME NEW words \in f.search PROVE \E w \in words : Rank(w, e) > 0
  <2>1. f.search = {words}
    BY <1>6, OneSearch
  <2>2. e \in DOMAIN ByText(D, f)
    BY <1>6 DEF FoundBy, Selections
  <2>3. PICK w \in UNION f.search : Rank(w, e) > 0
    BY <2>2 DEF ByText
  <2> QED BY <2>1, <2>3
<1> QED BY <1>1, <1>2, <1>3, <1>4, <1>5, <1>6 DEF Test, KeyRange, Wants

\* An inverted set has no members that could be sent or counted.
LEMMA InvertedIsEmpty ==
  ASSUME NEW D, NEW F, Inverted(F)
  PROVE  DOMAIN find_in_index(D, F) = {}
<1>1. find_in_index(D, F) = <<>>
  BY DEF find_in_index
<1> QED BY <1>1

\* All matches are counted, although on_count tests no event.
LEMMA CountsSuffice ==
  ASSUME TypeOK, ~Inverted(flts)
  PROVE  CountOf(docs, flts) >= Cardinality(Matching(docs, flts))
<1>1. DOMAIN find_in_index(docs, flts) = {d \in docs : \E f \in flts : FoundBy(docs, f, d)}
  BY DEF find_in_index
<1>2. Matching(docs, flts) \subseteq DOMAIN find_in_index(docs, flts)
  BY <1>1, MatchesAreFound DEF Matching
<1>3. IsFiniteSet(DOMAIN find_in_index(docs, flts))
  <2>1. DOMAIN find_in_index(docs, flts) \in SUBSET Events /\ IsFiniteSet(Events)
    BY <1>1, QueriesAssumption DEF TypeOK
  <2> QED BY <2>1, FS_Subset
<1>4. /\ Cardinality(Matching(docs, flts)) <= Cardinality(DOMAIN find_in_index(docs, flts))
      /\ Cardinality(Matching(docs, flts)) \in Nat
      /\ Cardinality(DOMAIN find_in_index(docs, flts)) \in Nat
  BY <1>2, <1>3, FS_Subset, FS_CardinalityType
<1> QED BY <1>4 DEF CountOf

\* Nothing but matches is counted, apart from the two cases CountExact names.
LEMMA CountsFit ==
  ASSUME TypeOK, ~Inverted(flts)
  PROVE  CountExact(docs, flts)
<1> SUFFICES ASSUME \A f \in flts : ~Collides(docs, f) /\ ~HalfNarrowed(f)
             PROVE  CountOf(docs, flts) = Cardinality(Matching(docs, flts))
  BY DEF CountExact
<1>1. DOMAIN find_in_index(docs, flts) = {d \in docs : \E f \in flts : FoundBy(docs, f, d)}
  BY DEF find_in_index
<1>2. ASSUME NEW d \in docs, NEW f \in flts PROVE FoundBy(docs, f, d) <=> Wants(f, d)
  BY <1>2, CandidatesMatch, MatchesAreFound, QueriesAssumption DEF TypeOK
<1>3. DOMAIN find_in_index(docs, flts) = Matching(docs, flts)
  BY <1>1, <1>2 DEF Matching
<1> QED BY <1>3 DEF CountOf

\* What on_count answers: 0 of an inverted set, otherwise never less than the number of
\* matches, and exactly that apart from the two cases CountExact names.
THEOREM CountsAreExact == Spec => []CountIsExact
<1>1. ASSUME TypeOK PROVE CountIsExact
  <2>1. CASE Inverted(flts)
    <3>1. CountOf(docs, flts) = 0
      BY <2>1, InvertedIsEmpty, FS_EmptySet DEF CountOf
    <3> QED BY <2>1, <3>1 DEF CountIsExact
  <2>2. CASE ~Inverted(flts)
    BY <1>1, <2>2, CountsSuffice, CountsFit DEF CountIsExact
  <2> QED BY <2>1, <2>2
<1> QED BY <1>1, QueriesTyped, PTL

-----------------------------------------------------------------------------
(* Pages.                                                                  *)

\* Min and Max of FiniteSetsExt on naturals.
LEMMA MinIs ==
  ASSUME NEW S \in SUBSET Nat, S # {}
  PROVE  Min(S) \in S /\ \A x \in S : Min(S) <= x
<1> DEFINE R == {p \in Nat \X Nat : p[1] < p[2]}
<1>1. IsWellFoundedOn(R, Nat)
  BY NatLessThanWellFounded DEF OpToRel
<1> HIDE DEF R
<1>2. PICK m \in S : \A y \in S : ~(<<y, m>> \in R)
  BY <1>1, WFMin
<1>3. ASSUME NEW y \in S PROVE m <= y
  <2>1. <<y, m>> \in Nat \X Nat /\ <<y, m>>[1] = y /\ <<y, m>>[2] = m
    OBVIOUS
  <2>2. ~(y < m)
    BY <1>2, <2>1 DEF R
  <2> QED BY <2>2
<1> QED BY <1>2, <1>3 DEF Min

LEMMA MaxIs ==
  ASSUME NEW n \in Nat, NEW S \in SUBSET (0..n), S # {}
  PROVE  Max(S) \in S /\ \A x \in S : Max(S) >= x
<1> DEFINE T == {n - x : x \in S}
<1>1. T \in SUBSET Nat /\ T # {}
  <2>1. \A x \in S : x \in Nat /\ x <= n
    OBVIOUS
  <2>2. \A x \in S : n - x \in Nat /\ n - x \in T
    BY <2>1
  <2> QED BY <2>2
<1>2. PICK m \in T : \A y \in T : m <= y
  BY <1>1, MinIs
<1>3. PICK x \in S : m = n - x
  BY <1>2
<1>4. \A y \in S : x >= y
  BY <1>2, <1>3
<1> QED BY <1>3, <1>4 DEF Max

\* The largest limit is the limit on the page; no limit at all is NoLimit.
LEMMA LimitIs ==
  ASSUME QueriesAssumption, NEW F \in Requests \cup {{}}
  PROVE  /\ Limit(F) \in Nat
         /\ \A f \in F : \A l \in f.limit : l \in Nat /\ l <= Limit(F)
         /\ \A f \in F : f.limit = {} => Limit(F) = NoLimit
<1>1. NoLimit \in Nat /\ \A f \in F : f.limit \subseteq 0..NoLimit
  BY DEF QueriesAssumption
<1>2. CASE \E f \in F : f.limit = {}
  BY <1>1, <1>2 DEF Limit
<1>3. CASE ~\E f \in F : f.limit = {}
  <2> DEFINE S == {0} \cup UNION {f.limit : f \in F}
  <2>1. S \in SUBSET (0..NoLimit) /\ S # {} /\ \A f \in F : f.limit \subseteq S
    BY <1>1
  <2>2. Limit(F) = Max(S)
    BY <1>3 DEF Limit
  <2> HIDE DEF S
  <2>3. Max(S) \in S /\ \A x \in S : Max(S) >= x
    BY <1>1, <2>1, MaxIs
  <2>4. Limit(F) \in Nat
    <3>1. Limit(F) \in S
      BY <2>2, <2>3
    <3>2. Limit(F) \in 0..NoLimit
      BY <2>1, <3>1
    <3> QED BY <1>1, <3>2
  <2>5. ASSUME NEW f \in F, NEW l \in f.limit PROVE l \in Nat /\ l <= Limit(F)
    <3>1. l \in S /\ l \in 0..NoLimit /\ Max(S) \in 0..NoLimit
      BY <1>1, <2>1, <2>3, <2>5
    <3>2. Max(S) >= l
      BY <2>3, <3>1
    <3> QED BY <1>1, <2>2, <3>1, <3>2
  <2> QED BY <1>3, <2>4, <2>5
<1> QED BY <1>2, <1>3

\* What on_req may send: the candidates that pass the test.
Passing(D, F) == {e \in DOMAIN find_in_index(D, F) : \E f \in F : Test(f, e)}

LEMMA PagesAre ==
  ASSUME TypeOK, ~Inverted(flts), NEW page \in Pages(docs, flts)
  PROVE  /\ page \subseteq Passing(docs, flts)
         /\ Matching(docs, flts) \subseteq Passing(docs, flts)
         /\ \A e \in Passing(docs, flts) : e \in docs /\ \E f \in flts : FoundBy(docs, f, e)
         /\ IsFiniteSet(docs) /\ IsFiniteSet(Passing(docs, flts)) /\ IsFiniteSet(page)
         /\ Cardinality(page) \in {Limit(flts), Cardinality(Passing(docs, flts))}
         /\ \A d \in page, e \in Passing(docs, flts) \ page :
              SentBefore(find_in_index(docs, flts), d, e)
<1>1. DOMAIN find_in_index(docs, flts) = {d \in docs : \E f \in flts : FoundBy(docs, f, d)}
  BY DEF find_in_index
<1>2. Matching(docs, flts) \subseteq Passing(docs, flts)
  BY <1>1, MatchesAreFound DEF Matching, Passing, Wants
<1>3. IsFiniteSet(docs)
  BY QueriesAssumption, FS_Subset DEF TypeOK
<1>4. Passing(docs, flts) \in SUBSET docs /\ page \in SUBSET Passing(docs, flts)
  BY <1>1 DEF Passing, Pages
<1>5. IsFiniteSet(Passing(docs, flts)) /\ IsFiniteSet(page)
  BY <1>3, <1>4, FS_Subset
<1>6. Cardinality(Passing(docs, flts)) \in Nat /\ Limit(flts) \in Nat
  BY <1>5, FS_CardinalityType, LimitIs, QueriesAssumption DEF TypeOK
<1>7. Cardinality(page) = Min({Limit(flts), Cardinality(Passing(docs, flts))})
  BY DEF Pages, Passing
<1>8. Cardinality(page) \in {Limit(flts), Cardinality(Passing(docs, flts))}
  <2> DEFINE S == {Limit(flts), Cardinality(Passing(docs, flts))}
  <2>1. S \in SUBSET Nat /\ S # {}
    BY <1>6
  <2> HIDE DEF S
  <2>2. Min(S) \in S
    BY <2>1, MinIs
  <2> QED BY <1>7, <2>2 DEF S
<1>9. \A d \in page, e \in Passing(docs, flts) \ page :
        SentBefore(find_in_index(docs, flts), d, e)
  BY DEF Pages, Passing
<1> QED BY <1>1, <1>2, <1>3, <1>4, <1>5, <1>8, <1>9 DEF Passing

\* The page is not shorter than what any filter asked for alone.
LEMMA LongEnough ==
  ASSUME TypeOK, ~Inverted(flts)
  PROVE  AsLongAsAsked(docs, flts)
<1> SUFFICES ASSUME NEW page \in Pages(docs, flts), NEW f \in flts
             PROVE  Cardinality(page) >= Min({Cardinality(Matching(docs, {f}))} \cup f.limit)
  BY DEF AsLongAsAsked
<1> DEFINE all == Passing(docs, flts)
           own == Matching(docs, {f})
           S   == {Cardinality(own)} \cup f.limit
<1>1. /\ IsFiniteSet(all) /\ own \in SUBSET all /\ own \in SUBSET docs /\ IsFiniteSet(docs)
      /\ Cardinality(page) \in {Limit(flts), Cardinality(all)}
  BY PagesAre DEF Matching
<1>2. /\ Cardinality(own) \in Nat /\ Cardinality(all) \in Nat /\ Cardinality(docs) \in Nat
      /\ Cardinality(own) <= Cardinality(all) /\ Cardinality(own) <= Cardinality(docs)
  BY <1>1, FS_Subset, FS_CardinalityType
<1>3. Cardinality(docs) <= NoLimit /\ NoLimit \in Nat
  <2>1. Cardinality(docs) <= Cardinality(Events) /\ Cardinality(Events) \in Nat
    BY QueriesAssumption, FS_Subset, FS_CardinalityType DEF TypeOK
  <2> QED BY <1>2, <2>1, QueriesAssumption
<1>4. /\ Limit(flts) \in Nat
      /\ \A l \in f.limit : l \in Nat /\ l <= Limit(flts)
      /\ f.limit = {} => Limit(flts) = NoLimit
  BY LimitIs, QueriesAssumption DEF TypeOK
<1>5. S \in SUBSET Nat /\ S # {} /\ Cardinality(own) \in S /\ f.limit \subseteq S
  BY <1>2, <1>4
<1> HIDE DEF all, own, S
<1>6. Min(S) \in Nat /\ Min(S) <= Cardinality(own) /\ \A l \in f.limit : Min(S) <= l
  BY <1>5, MinIs
<1>7. Cardinality(page) >= Min(S)
  <2>1. CASE Cardinality(page) = Cardinality(all)
    BY <1>2, <1>6, <2>1
  <2>2. CASE Cardinality(page) = Limit(flts) /\ f.limit = {}
    BY <1>2, <1>3, <1>4, <1>6, <2>2
  <2>3. CASE Cardinality(page) = Limit(flts) /\ f.limit # {}
    BY <1>4, <1>6, <2>3
  <2> QED BY <1>1, <2>1, <2>2, <2>3
<1> QED BY <1>7 DEF S, own

\* One value is its own maximum, in both parts.
LEMMA MergeOne ==
  ASSUME NEW n \in Int, NEW m \in Int
  PROVE  merge_relevance({<<n, m>>}) = <<n, m>>
<1>1. {v[1] : v \in {<<n, m>>}} = {n} /\ {v[2] : v \in {<<n, m>>}} = {m}
  OBVIOUS
<1>2. Max({n}) = n /\ Max({m}) = m
  BY DEF Max
<1> QED BY <1>1, <1>2 DEF merge_relevance

\* Where all ordering values are times, a candidate's value is its time.
LEMMA ValuesAreTimes ==
  ASSUME TypeOK, Plain(docs, flts), ~Inverted(flts), NEW e \in docs,
         \E f \in flts : FoundBy(docs, f, e)
  PROVE  find_in_index(docs, flts)[e] = Ordering(e.at)
<1> DEFINE V == {s[e] : s \in UNION {Selections(docs, f) :
                          f \in {g \in flts : FoundBy(docs, g, e)}}}
<1>1. find_in_index(docs, flts)[e] = merge_relevance(V)
  BY DEF find_in_index
<1>2. (e.at - Epoch) % Wrap \in Int
  BY QueriesAssumption DEF Plain
<1>3. ASSUME NEW f \in flts, FoundBy(docs, f, e), NEW s \in Selections(docs, f)
      PROVE  s[e] = Ordering(e.at)
  <2>1. e \in DOMAIN s /\ f.search = {}
    BY <1>3 DEF FoundBy, Plain
  <2>2. CASE s = ByAuthor(docs, f)
    <3> DEFINE A == {b \in f.authors : e \in OfAuthor(docs, f, b)}
               W == {IF a.full THEN Ordering(PubkeyAsTime(e.author)) ELSE Ordering(e.at) :
                       a \in A}
    <3>1. e \in UNION {OfAuthor(docs, f, a) : a \in f.authors}
      BY <2>1, <2>2 DEF ByAuthor
    <3>2. A # {} /\ \A a \in A : ~a.full
      BY <1>3, <3>1 DEF Plain
    <3>3. W = {Ordering(e.at)}
      BY <3>2
    <3>4. s[e] = merge_relevance(W)
      BY <2>2, <3>1 DEF ByAuthor
    <3> HIDE DEF W
    <3> QED BY <1>2, <3>3, <3>4, MergeOne DEF Ordering
  <2>3. CASE s = ById(docs, f)
    BY <2>1, <2>3 DEF ById
  <2>4. ASSUME NEW t \in f.tags, s = ByTag(docs, f, t) PROVE s[e] = Ordering(e.at)
    BY <2>1, <2>4 DEF ByTag
  <2>5. CASE s = ByKind(docs, f)
    BY <2>1, <2>5 DEF ByKind
  <2>6. CASE s = ByTime(docs, f)
    BY <2>1, <2>6 DEF ByTime
  <2> QED BY <1>3, <2>1, <2>2, <2>3, <2>4, <2>5, <2>6 DEF Selections
<1>4. \E f \in flts : FoundBy(docs, f, e) /\ Selections(docs, f) # {}
  <2>1. PICK f \in flts : FoundBy(docs, f, e)
    OBVIOUS
  <2>2. Selections({}, f) # {}
    BY <2>1 DEF Inverted
  <2>3. Selections(docs, f) # {}
    BY <2>2 DEF Selections
  <2> QED BY <2>1, <2>3
<1>5. V = {Ordering(e.at)}
  BY <1>3, <1>4
<1> HIDE DEF V
<1> QED BY <1>1, <1>2, <1>5, MergeOne DEF Ordering

LEMMA NewestFirst ==
  ASSUME TypeOK, Plain(docs, flts), ~Inverted(flts)
  PROVE  Newest(docs, flts)
<1> SUFFICES ASSUME NEW page \in Pages(docs, flts), NEW d \in page,
                    NEW e \in Matching(docs, flts) \ page
             PROVE  d.at >= e.at
  BY DEF Newest
<1>1. d \in Passing(docs, flts) /\ e \in Passing(docs, flts) \ page
  BY PagesAre
<1>2. ASSUME NEW x \in Passing(docs, flts)
      PROVE  find_in_index(docs, flts)[x] = <<0, x.at - Epoch>> /\ x.at \in Nat
  <2>1. x \in docs /\ \E f \in flts : FoundBy(docs, f, x)
    BY <1>2, PagesAre
  <2>2. Epoch \in Nat /\ Wrap \in Nat \ {0} /\ x.at \in Epoch..(Epoch + Wrap - 1)
    BY <2>1, QueriesAssumption DEF Plain
  <2>3. (x.at - Epoch) % Wrap = x.at - Epoch
    BY <2>2
  <2> QED BY <2>1, <2>2, <2>3, ValuesAreTimes DEF Ordering
<1>3. SentBefore(find_in_index(docs, flts), d, e)
  BY <1>1, PagesAre
<1>4. d.at - Epoch >= e.at - Epoch
  BY <1>1, <1>2, <1>3 DEF SentBefore
<1> QED BY <1>1, <1>2, <1>4, QueriesAssumption

\* A number of a finite range that is not smaller than any other is its maximum.
LEMMA TheMax ==
  ASSUME NEW n \in Nat, NEW S \in SUBSET (0..n), NEW m \in S, \A x \in S : m >= x
  PROVE  Max(S) = m
<1>1. \A x \in S : x \in Int
  OBVIOUS
<1>2. Max(S) \in S /\ Max(S) >= m /\ m >= Max(S)
  BY MaxIs
<1>3. Max(S) \in Int /\ m \in Int
  BY <1>1, <1>2
<1>4. \A x, y \in Int : x >= y /\ y >= x => x = y
  OBVIOUS
<1> QED BY <1>2, <1>3, <1>4, Zenon

\* What words find has their relevance; all other selections have none.
LEMMA TextIsRelevance ==
  ASSUME TypeOK, NEW f \in flts, NEW e \in docs, FoundBy(docs, f, e), f.search # {}
  PROVE  /\ ByText(docs, f) \in Selections(docs, f)
         /\ ByText(docs, f)[e][1] = Relevance(f, e)
         /\ Relevance(f, e) \in 0..256
<1> DEFINE All   == {Rank(w, e) : w \in UNION f.search}
           found == {w \in UNION f.search : Rank(w, e) > 0}
           Some  == {Rank(w, e) : w \in found}
<1>1. ByText(docs, f) \in Selections(docs, f)
  BY DEF Selections
<1>2. \A w \in UNION f.search : Rank(w, e) \in 0..256
  BY QueriesAssumption DEF TypeOK
<1>3. e \in DOMAIN ByText(docs, f)
  BY <1>1 DEF FoundBy
<1>4. found # {} /\ ByText(docs, f)[e][1] = Max(Some)
  BY <1>3 DEF ByText
<1>5. Some \in SUBSET (0..256) /\ Some # {}
  BY <1>2, <1>4
<1>6. {0} \cup All \in SUBSET (0..256)
  BY <1>2
<1>7. \A r \in All : r > 0 => r \in Some
  OBVIOUS
<1>8. Some \subseteq All
  OBVIOUS
<1> HIDE DEF All, Some
<1>9. Max(Some) \in Some /\ \A r \in Some : Max(Some) >= r
  <2>1. 256 \in Nat
    OBVIOUS
  <2> QED BY <1>5, <2>1, MaxIs
<1>10. \A r \in {0} \cup All : Max(Some) >= r
  <2>1. \A r \in {0} \cup All : r \in 0..256
    BY <1>6
  <2>2. Max(Some) \in 0..256
    BY <1>5, <1>9
  <2> QED BY <1>7, <1>9, <2>1, <2>2
<1>11. Max({0} \cup All) = Max(Some)
  <2> DEFINE S == {0} \cup All
  <2>1. S \in SUBSET (0..256) /\ Max(Some) \in S /\ \A r \in S : Max(Some) >= r
    BY <1>6, <1>8, <1>9, <1>10
  <2> HIDE DEF S
  <2>2. 256 \in Nat
    OBVIOUS
  <2> QED BY <2>1, <2>2, TheMax DEF S
<1>12. Relevance(f, e) = Max(Some)
  BY <1>11 DEF Relevance, All
<1> QED BY <1>1, <1>4, <1>5, <1>9, <1>12

LEMMA OthersAreIrrelevant ==
  ASSUME NEW D, NEW f, NEW e \in D, FoundBy(D, f, e),
         NEW s \in Selections(D, f), f.search = {} \/ s # ByText(D, f)
  PROVE  s[e][1] = 0
<1>1. e \in DOMAIN s
  BY DEF FoundBy
<1>2. CASE s = ByAuthor(D, f)
  <2> DEFINE A == {b \in f.authors : e \in OfAuthor(D, f, b)}
             W == {IF a.full THEN Ordering(PubkeyAsTime(e.author)) ELSE Ordering(e.at) : a \in A}
  <2>1. e \in UNION {OfAuthor(D, f, a) : a \in f.authors}
    BY <1>1, <1>2 DEF ByAuthor
  <2>2. A # {}
    BY <2>1
  <2>3. W # {} /\ \A v \in W : v[1] = 0
    <3>1. \A t : Ordering(t)[1] = 0
      BY DEF Ordering
    <3> QED BY <2>2, <3>1
  <2>4. s[e] = merge_relevance(W)
    BY <1>2, <2>1 DEF ByAuthor
  <2> HIDE DEF W
  <2>5. {v[1] : v \in W} = {0}
    BY <2>3
  <2>6. Max({0}) = 0
    BY DEF Max
  <2> QED BY <2>4, <2>5, <2>6 DEF merge_relevance
<1>3. CASE s = ById(D, f)
  BY <1>1, <1>3 DEF ById, Ordering
<1>4. ASSUME NEW t \in f.tags, s = ByTag(D, f, t) PROVE s[e][1] = 0
  BY <1>1, <1>4 DEF ByTag, Ordering
<1>5. CASE s = ByKind(D, f)
  BY <1>1, <1>5 DEF ByKind, Ordering
<1>6. CASE s = ByTime(D, f)
  BY <1>1, <1>6 DEF ByTime, Ordering
<1> QED BY <1>2, <1>3, <1>4, <1>5, <1>6 DEF Selections

\* The first part of a candidate's value is the relevance of the one filter's search.
LEMMA ValuesAreRelevances ==
  ASSUME TypeOK, NEW f, flts = {f}, f.search # {}, NEW e \in docs, FoundBy(docs, f, e)
  PROVE  find_in_index(docs, flts)[e][1] = Relevance(f, e) /\ Relevance(f, e) \in 0..256
<1> DEFINE V == {s[e] : s \in UNION {Selections(docs, g) :
                          g \in {h \in flts : FoundBy(docs, h, e)}}}
           N == {v[1] : v \in V}
<1>1. ~Inverted(flts)
  BY DEF Inverted, Selections
<1>2. find_in_index(docs, flts)[e] = merge_relevance(V)
  BY <1>1 DEF find_in_index
<1>3. UNION {Selections(docs, g) : g \in {h \in flts : FoundBy(docs, h, e)}} = Selections(docs, f)
  OBVIOUS
<1>4. /\ ByText(docs, f) \in Selections(docs, f)
      /\ ByText(docs, f)[e][1] = Relevance(f, e) /\ Relevance(f, e) \in 0..256
  BY TextIsRelevance
<1>5. V = {s[e] : s \in Selections(docs, f)}
  BY <1>3
<1> HIDE DEF V
<1>6. \A v \in V : v[1] = 0 \/ v[1] = Relevance(f, e)
  BY <1>4, <1>5, OthersAreIrrelevant
<1>7. \E v \in V : v[1] = Relevance(f, e)
  BY <1>4, <1>5
<1>8. N \in SUBSET (0..256) /\ Relevance(f, e) \in N /\ \A x \in N : Relevance(f, e) >= x
  <2>1. Relevance(f, e) \in N
    BY <1>7
  <2>2. \A x \in N : x = 0 \/ x = Relevance(f, e)
    BY <1>6
  <2> HIDE DEF N
  <2> QED BY <2>1, <2>2, <1>4
<1>9. merge_relevance(V)[1] = Max(N)
  BY DEF merge_relevance
<1> HIDE DEF N
<1>10. Max(N) = Relevance(f, e)
  <2>1. 256 \in Nat
    OBVIOUS
  <2> QED BY <1>8, <2>1, TheMax
<1> QED BY <1>2, <1>4, <1>9, <1>10

LEMMA MostRelevantFirst ==
  ASSUME TypeOK, NEW f, flts = {f}, f.search # {}
  PROVE  MostRelevant(docs, f)
<1> SUFFICES ASSUME NEW page \in Pages(docs, flts), NEW d \in page,
                    NEW e \in Matching(docs, flts) \ page
             PROVE  Relevance(f, d) >= Relevance(f, e)
  BY DEF MostRelevant
<1>1. ~Inverted(flts)
  BY DEF Inverted, Selections
<1>2. d \in Passing(docs, flts) /\ e \in Passing(docs, flts) \ page
  BY <1>1, PagesAre
<1>3. ASSUME NEW x \in Passing(docs, flts)
      PROVE  find_in_index(docs, flts)[x][1] = Relevance(f, x) /\ Relevance(f, x) \in 0..256
  <2>1. x \in docs /\ FoundBy(docs, f, x)
    BY <1>1, <1>3, PagesAre
  <2> QED BY <2>1, ValuesAreRelevances
<1>4. SentBefore(find_in_index(docs, flts), d, e)
  BY <1>1, <1>2, PagesAre
<1> DEFINE value == find_in_index(docs, flts)
<1>5. value[d][1] \in Int /\ value[e][1] \in Int /\ value[d][1] >= value[e][1]
  <2>1. value[d][1] \in 0..256 /\ value[e][1] \in 0..256
    BY <1>2, <1>3, SMTT(20)
  <2>2. value[d][1] > value[e][1] \/ value[d][1] = value[e][1]
    BY <1>4 DEF SentBefore
  <2>3. \A x, y \in 0..256 : x > y \/ x = y => x \in Int /\ y \in Int /\ x >= y
    OBVIOUS
  <2> HIDE DEF value
  <2> QED BY <2>1, <2>2, <2>3, Zenon
<1> QED BY <1>2, <1>3, <1>5

\* With an inverted set on_req sends EOSE and no event.
LEMMA InvertedSendsNothing ==
  ASSUME TypeOK, Inverted(flts)
  PROVE  Pages(docs, flts) = {{}}
<1>1. Passing(docs, flts) = {}
  BY InvertedIsEmpty DEF Passing
<1>2. Cardinality({}) = 0 /\ Limit(flts) \in Nat
  BY FS_EmptySet, LimitIs, QueriesAssumption DEF TypeOK
<1>3. Min({Limit(flts), Cardinality(Passing(docs, flts))}) = 0
  <2> DEFINE S == {Limit(flts), 0}
  <2>1. S \in SUBSET Nat /\ S # {} /\ 0 \in S
    BY <1>2
  <2> HIDE DEF S
  <2>2. Min(S) \in Nat /\ Min(S) <= 0
    BY <2>1, MinIs
  <2> QED BY <1>1, <1>2, <2>2 DEF S
<1>4. Pages(docs, flts) =
        {page \in SUBSET Passing(docs, flts) :
           /\ Cardinality(page) = Min({Limit(flts), Cardinality(Passing(docs, flts))})
           /\ \A d \in page, e \in Passing(docs, flts) \ page :
                SentBefore(find_in_index(docs, flts), d, e)}
  BY DEF Pages, Passing
<1> QED BY <1>1, <1>2, <1>3, <1>4

\* on_req sends nothing stored with an inverted set; otherwise no less than each filter asks
\* for, where the ordering values are times the newest events, and of one search the most
\* relevant ones.
THEOREM PagesAreNewest == Spec => []PageIsNewest
<1>1. ASSUME TypeOK PROVE PageIsNewest
  <2>1. CASE Inverted(flts)
    BY <1>1, <2>1, InvertedSendsNothing DEF PageIsNewest
  <2>2. CASE ~Inverted(flts)
    BY <1>1, <2>2, LongEnough, NewestFirst, MostRelevantFirst DEF PageIsNewest
  <2> QED BY <2>1, <2>2
<1> QED BY <1>1, QueriesTyped, PTL
=============================================================================
