--------------------------- MODULE WhitelistProofs ---------------------------
(***************************************************************************)
(* Proofs about Whitelist, for all users, events, connections, widths of   *)
(* the counters and bounds.                                                *)
(***************************************************************************)
EXTENDS Whitelist, FiniteSetTheorems, TLAPS

USE WhitelistAssumption

-----------------------------------------------------------------------------
(* Unsigned arithmetic.                                                    *)

LEMMA UniqueRemainder ==
  ASSUME NEW a \in Int, NEW b \in Int, NEW r \in 0..(Wrap - 1), NEW s \in 0..(Wrap - 1),
         Wrap * a + r = Wrap * b + s
  PROVE  r = s
<1>1. CASE a = b
  BY <1>1
<1>2. CASE a > b
  <2>1. a - b >= 1 /\ a - b \in Nat
    BY <1>2
  <2>2. Wrap * (a - b) >= Wrap
    BY <2>1
  <2>3. Wrap * (a - b) = Wrap * a - Wrap * b
    OBVIOUS
  <2> QED BY <2>2, <2>3
<1>3. CASE b > a
  <2>1. b - a >= 1 /\ b - a \in Nat
    BY <1>3
  <2>2. Wrap * (b - a) >= Wrap
    BY <2>1
  <2>3. Wrap * (b - a) = Wrap * b - Wrap * a
    OBVIOUS
  <2> QED BY <2>2, <2>3
<1> QED BY <1>1, <1>2, <1>3

LEMMA UnsignedRange == \A n \in Int : Unsigned(n) \in 0..(Wrap - 1)
BY DEF Unsigned

\* Wrapping a count before something is added or taken back changes nothing.
LEMMA UnsignedSum ==
  ASSUME NEW n \in Int, NEW c \in Int
  PROVE  Unsigned(Unsigned(n) + c) = Unsigned(n + c)
<1> DEFINE q == n \div Wrap
           m == Unsigned(n) + c
<1>1. /\ q \in Int /\ n % Wrap \in Int
      /\ n = Wrap * q + (n % Wrap)
  OBVIOUS
<1>2. m \in Int /\ n + c \in Int /\ n + c = m + Wrap * q
  BY <1>1 DEF Unsigned
<1> HIDE DEF q, m
<1>3. /\ m \div Wrap \in Int /\ m % Wrap \in 0..(Wrap - 1)
      /\ m = Wrap * (m \div Wrap) + (m % Wrap)
  BY <1>2
<1>4. /\ (n + c) \div Wrap \in Int /\ (n + c) % Wrap \in 0..(Wrap - 1)
      /\ n + c = Wrap * ((n + c) \div Wrap) + ((n + c) % Wrap)
  BY <1>2
<1>5. q \in Int
  BY <1>1 DEF q
<1>6. Wrap * ((m \div Wrap) + q) = Wrap * (m \div Wrap) + Wrap * q
  BY <1>3, <1>5
<1>7. Wrap * ((m \div Wrap) + q) + (m % Wrap) = Wrap * ((n + c) \div Wrap) + ((n + c) % Wrap)
  BY <1>2, <1>3, <1>4, <1>5, <1>6
<1>8. (m \div Wrap) + q \in Int
  BY <1>3, <1>5
<1>9. m % Wrap = (n + c) % Wrap
  BY <1>3, <1>4, <1>7, <1>8, UniqueRemainder
<1> QED BY <1>9 DEF Unsigned, m

-----------------------------------------------------------------------------
(* The inductive invariant.                                                *)

\* What was counted for a document would be taken back for it, and an event of
\* HomeKinds is always counted.
DocInv(d) ==
  /\ d.counted => Counts(d.ev)
  /\ d.counted /\ Counter(d) # "none" => d.ev.p \subseteq known
  /\ d.ev.kind \in HomeKinds => d.counted

WhitelistInv ==
  /\ TypeOK
  /\ IsFiniteSet(stored)
  /\ \A d \in stored : DocInv(d)
  /\ CountersExact
  /\ posted \subseteq known

Speaks(d, u, f) == d.counted /\ Counter(d) = f /\ u \in d.ev.p

\* A batch that puts the documents of new in place of those of gone keeps the
\* karma in step with the archive.
LEMMA KarmaFollows ==
  ASSUME WhitelistInv,
         NEW gone \in SUBSET stored, NEW new \in SUBSET Docs,
         IsFiniteSet(new), new \cap (stored \ gone) = {},
         \A d \in new : d.counted = Counts(d.ev),
         stored' = (stored \ gone) \cup new,
         UpdateKarma(gone, new)
  PROVE  /\ stored' \subseteq Docs /\ IsFiniteSet(stored')
         /\ home' \subseteq known' /\ known' \subseteq Users
         /\ count' \in [Users -> [Counters -> 0..(Wrap - 1)]]
         /\ posted' \subseteq Users /\ skewed' \subseteq Users
         /\ posted' \subseteq known'
         /\ \A d \in stored' : DocInv(d)'
         /\ CountersExact'
<1> DEFINE authors == {d.ev.author : d \in {n \in new : n.ev.kind \in HomeKinds}}
           tagged == UNION {d.ev.p : d \in {n \in new : Counts(n.ev) /\ Counter(n) # "none"}}
<1>1. /\ home' = home \cup authors
      /\ known' = known \cup authors \cup tagged
      /\ posted' = posted \cup authors
      /\ skewed' = skewed \cup UNION {d.ev.p : d \in {g \in gone : Counts(g.ev) /\ ~g.counted}}
      /\ count' = [u \in Users |-> [f \in Counters |->
                    Unsigned(count[u][f] - TakenBack(gone, u, f) + Added(new, u, f))]]
  BY DEF UpdateKarma
<1>2. stored \subseteq Docs /\ IsFiniteSet(stored) /\ IsFiniteSet(gone)
  BY FS_Subset DEF WhitelistInv, TypeOK
<1>3. \A d \in Docs : d.ev.author \in Users /\ d.ev.p \subseteq Users /\ d.ev.kind \in Kinds
  BY DEF Docs
<1>4. authors \subseteq Users /\ tagged \subseteq Users
  BY <1>3
<1>5. stored' \subseteq Docs /\ IsFiniteSet(stored')
  <2>1. IsFiniteSet(stored \ gone)
    BY <1>2, FS_Subset
  <2> QED BY <2>1, <1>2, FS_Union
<1>6. /\ home' \subseteq known' /\ known' \subseteq Users
      /\ posted' \subseteq Users /\ posted' \subseteq known'
  BY <1>1, <1>4 DEF WhitelistInv, TypeOK
<1>7. skewed' \subseteq Users
  BY <1>1, <1>2, <1>3 DEF WhitelistInv, TypeOK
<1>8. \A u \in Users, f \in Counters :
        /\ IsFiniteSet({d \in gone : Counter(d) = f /\ Counts(d.ev) /\ u \in d.ev.p \cap known})
        /\ IsFiniteSet({d \in new : Counter(d) = f /\ Counts(d.ev) /\ u \in d.ev.p})
        /\ TakenBack(gone, u, f) \in Nat /\ Added(new, u, f) \in Nat
        /\ count[u][f] \in Nat
  <2> SUFFICES ASSUME NEW u \in Users, NEW f \in Counters
               PROVE  /\ IsFiniteSet({d \in gone : Counter(d) = f /\ Counts(d.ev) /\ u \in d.ev.p \cap known})
                      /\ IsFiniteSet({d \in new : Counter(d) = f /\ Counts(d.ev) /\ u \in d.ev.p})
                      /\ TakenBack(gone, u, f) \in Nat /\ Added(new, u, f) \in Nat
                      /\ count[u][f] \in Nat
    OBVIOUS
  <2>1. IsFiniteSet({d \in gone : Counter(d) = f /\ Counts(d.ev) /\ u \in d.ev.p \cap known})
    BY <1>2, FS_Subset
  <2>2. IsFiniteSet({d \in new : Counter(d) = f /\ Counts(d.ev) /\ u \in d.ev.p})
    BY FS_Subset
  <2>3. count[u][f] \in Nat
    BY DEF WhitelistInv, TypeOK
  <2> QED BY <2>1, <2>2, <2>3, FS_CardinalityType DEF TakenBack, Added
<1>9. count' \in [Users -> [Counters -> 0..(Wrap - 1)]]
  <2>1. ASSUME NEW u \in Users, NEW f \in Counters
        PROVE  Unsigned(count[u][f] - TakenBack(gone, u, f) + Added(new, u, f)) \in 0..(Wrap - 1)
    <3>1. TakenBack(gone, u, f) \in Nat /\ Added(new, u, f) \in Nat /\ count[u][f] \in Nat
      BY <1>8
    <3>2. count[u][f] - TakenBack(gone, u, f) + Added(new, u, f) \in Int
      BY <3>1
    <3> QED BY <3>2, UnsignedRange
  <2> QED BY <2>1, <1>1
<1>10. \A d \in Docs : Counts(d.ev) => Counts(d.ev)'
  BY <1>1 DEF Counts
<1>11. ASSUME NEW d \in stored' PROVE DocInv(d)'
  <2>1. CASE d \in stored
    <3>1. DocInv(d) /\ (Counts(d.ev) => Counts(d.ev)')
      BY <2>1, <1>2, <1>10 DEF WhitelistInv
    <3>2. known \subseteq known'
      BY <1>1
    <3> QED BY <3>1, <3>2 DEF DocInv, Counter
  <2>2. CASE d \in new
    <3>1. d.counted = Counts(d.ev)
      BY <2>2
    <3>2. d.ev.kind \in HomeKinds => d.counted
      BY <3>1 DEF Counts
    <3>3. d.counted /\ Counter(d) # "none" => d.ev.p \subseteq tagged
      BY <2>2, <3>1
    <3>4. Counts(d.ev) => Counts(d.ev)'
      BY <2>2, <1>10
    <3>5. tagged \subseteq known'
      BY <1>1
    <3> QED BY <3>1, <3>2, <3>3, <3>4, <3>5 DEF DocInv, Counter
  <2> QED BY <2>1, <2>2
<1>12. ASSUME NEW u \in Users, NEW f \in Counters,
              f \in {"followers", "mentions"} \/ u \notin skewed'
       PROVE  count'[u][f] = Unsigned(Spoken(u, f)')
  <2> DEFINE A == {d \in stored : Speaks(d, u, f)}
             B == {d \in new : Speaks(d, u, f)}
             R == {d \in gone : Counter(d) = f /\ Counts(d.ev) /\ u \in d.ev.p \cap known}
             N == {d \in new : Counter(d) = f /\ Counts(d.ev) /\ u \in d.ev.p}
  <2>1. IsFiniteSet(A) /\ IsFiniteSet(B)
    BY <1>2, FS_Subset
  <2>2. count[u][f] = Unsigned(Cardinality(A))
    BY <1>1, <1>12 DEF WhitelistInv, CountersExact, Spoken, Speaks
  <2>3. B = N
    BY DEF Speaks
  <2>4. R = A \cap gone
    <3>1. ASSUME NEW d \in gone, Speaks(d, u, f) PROVE d \in R
      <4>1. f # "none"
        BY DEF Counters
      <4> QED BY <3>1, <4>1 DEF WhitelistInv, DocInv, Speaks
    <3>2. ASSUME NEW d \in R PROVE d.counted
      <4>1. CASE f \in {"followers", "mentions"}
        <5>1. d.ev.kind \in HomeKinds
          BY <4>1, <3>2 DEF Counter, HomeKinds
        <5> QED BY <3>2, <5>1 DEF WhitelistInv, DocInv
      <4>2. CASE u \notin skewed'
        <5>1. SUFFICES ASSUME ~d.counted PROVE FALSE
          OBVIOUS
        <5>2. u \in UNION {g.ev.p : g \in {x \in gone : Counts(x.ev) /\ ~x.counted}}
          BY <3>2, <5>1
        <5> QED BY <4>2, <5>2, <1>1
      <4> QED BY <4>1, <4>2, <1>12
    <3> QED BY <3>1, <3>2 DEF Speaks
  <2>5. Spoken(u, f)' = Cardinality((A \ gone) \cup B)
    <3>1. {d \in stored' : Speaks(d, u, f)} = (A \ gone) \cup B
      OBVIOUS
    <3>2. Spoken(u, f)' = Cardinality({d \in stored' : Speaks(d, u, f)})
      BY DEF Spoken, Speaks, Counter
    <3> QED BY <3>1, <3>2
  <2>6. /\ Cardinality(A \ gone) = Cardinality(A) - Cardinality(A \cap gone)
        /\ IsFiniteSet(A \ gone)
    BY <2>1, FS_Difference
  <2>7. Cardinality((A \ gone) \cup B) = Cardinality(A \ gone) + Cardinality(B)
    <3>1. (A \ gone) \cap B = {}
      OBVIOUS
    <3>2. Cardinality((A \ gone) \cup B)
            = Cardinality(A \ gone) + Cardinality(B) - Cardinality((A \ gone) \cap B)
      BY <2>1, <2>6, FS_Union
    <3>3. Cardinality(A \ gone) \in Nat /\ Cardinality(B) \in Nat
      BY <2>1, <2>6, FS_CardinalityType
    <3>4. Cardinality((A \ gone) \cap B) = 0
      BY <3>1, FS_EmptySet
    <3> QED BY <3>2, <3>3, <3>4
  <2>8. TakenBack(gone, u, f) = Cardinality(R) /\ Added(new, u, f) = Cardinality(N)
    BY DEF TakenBack, Added
  <2>9. /\ Cardinality(A) \in Nat /\ Cardinality(R) \in Nat /\ Cardinality(B) \in Nat
    BY <2>1, <1>8, <2>8, FS_CardinalityType
  <2> DEFINE x == Cardinality(A)
             y == Cardinality(R)
             z == Cardinality(B)
  <2>10. Spoken(u, f)' = x + (z - y)
    <3>1. Cardinality(A \ gone) = x - y
      BY <2>4, <2>6
    <3>2. Spoken(u, f)' = (x - y) + z
      BY <2>5, <2>7, <3>1
    <3> HIDE DEF x, y, z
    <3> QED BY <3>2, <2>9 DEF x, y, z
  <2>11. count'[u][f] = Unsigned(Unsigned(x) - y + z)
    BY <1>1, <2>2, <2>3, <2>8
  <2>12. Unsigned(x) \in Int
    BY <2>9, UnsignedRange
  <2>13. Unsigned(x) - y + z = Unsigned(x) + (z - y)
    BY <2>9, <2>12
  <2>14. Unsigned(Unsigned(x) + (z - y)) = Unsigned(x + (z - y))
    BY <2>9, UnsignedSum
  <2> QED BY <2>10, <2>11, <2>13, <2>14
<1>13. CountersExact'
  BY <1>12 DEF CountersExact, Unsigned
<1> QED BY <1>5, <1>6, <1>7, <1>9, <1>11, <1>13

\* What WhiteListIndexFn keeps of the archive, at every moment.
THEOREM WhitelistInvariant == Spec => []WhitelistInv
<1>1. Init => WhitelistInv
  <2> SUFFICES ASSUME Init PROVE WhitelistInv
    OBVIOUS
  <2>1. TypeOK
    BY DEF Init, TypeOK, Jobs, NoJob
  <2>2. \A u \in Users, f \in Counters : Spoken(u, f) = 0 /\ count[u][f] = 0
    BY FS_EmptySet DEF Init, Spoken
  <2>3. Unsigned(0) = 0
    BY DEF Unsigned
  <2> QED BY <2>1, <2>2, <2>3, FS_EmptySet DEF Init, WhitelistInv, CountersExact
<1>2. WhitelistInv /\ [Next]_vars => WhitelistInv'
  <2> SUFFICES ASSUME WhitelistInv, [Next]_vars PROVE WhitelistInv'
    OBVIOUS
  <2>1. ASSUME UNCHANGED <<stored, karma, history>>, TypeOK' PROVE WhitelistInv'
    BY <2>1 DEF karma, history, WhitelistInv, CountersExact, Spoken, DocInv, Counts,
                Counter, Unsigned
  <2>2. ASSUME NEW c \in Conns, NEW u \in Users, Authenticate(c, u) PROVE WhitelistInv'
    BY <2>1, <2>2 DEF Authenticate, WhitelistInv, TypeOK, karma, history
  <2>3. ASSUME NEW c \in Conns, NEW e \in Posts, NEW deletes \in BOOLEAN,
               Admit(c, e, deletes)
        PROVE  WhitelistInv'
    <3>1. Reason(c, e, deletes) \in Reasons
      BY <2>3 DEF Admit, Reason, Reasons
    <3>2. job' \in [Conns -> Jobs \cup {NoJob}]
      BY <2>3, <3>1 DEF Admit, WhitelistInv, TypeOK, Jobs
    <3>3. emptyDb' \in BOOLEAN
      BY <2>3 DEF Admit, LookAtDatabase, IsEmpty, WhitelistInv, TypeOK
    <3> QED BY <2>1, <2>3, <3>2, <3>3 DEF Admit, WhitelistInv, TypeOK, karma, history
  <2>4. ASSUME NEW c \in Conns, NEW e \in Posts, NEW deletes \in BOOLEAN,
               Block(c, e, deletes)
        PROVE  WhitelistInv'
    <3>1. emptyDb' \in BOOLEAN
      BY <2>4 DEF Block, LookAtDatabase, IsEmpty, WhitelistInv, TypeOK
    <3> QED BY <2>1, <2>4, <3>1 DEF Block, WhitelistInv, TypeOK, karma, history
  <2>5. ASSUME NEW c \in Conns, Publish(c) PROVE WhitelistInv'
    <3> DEFINE e == job[c].ev
               doc == [ev |-> e, trusted |-> job[c].trusted, counted |-> Counts(e)]
    <3>1. job' \in [Conns -> Jobs \cup {NoJob}] /\ UNCHANGED <<emptyDb, auth>>
      BY <2>5 DEF Publish, WhitelistInv, TypeOK
    <3>2. CASE Obsolete(e)
      <4>1. UNCHANGED <<stored, karma, history>>
        BY <2>5, <3>2 DEF Publish
      <4> QED BY <2>1, <3>1, <4>1 DEF WhitelistInv, TypeOK, karma, history
    <3>3. CASE ~Obsolete(e)
      <4>1. /\ stored' = (stored \ Slot(e)) \cup {doc}
            /\ UpdateKarma(Slot(e), {doc})
        BY <2>5, <3>3 DEF Publish
      <4>2. job[c] \in Jobs
        BY <2>5 DEF Publish, WhitelistInv, TypeOK
      <4>3. doc \in Docs /\ doc.ev = e /\ doc.counted = Counts(doc.ev)
        BY <4>2 DEF Docs, Jobs, Counts
      <4>5. {doc} \cap (stored \ Slot(e)) = {}
        BY <3>3, <4>3 DEF Obsolete, Slot, Docs
      <4>6. Slot(e) \in SUBSET stored /\ {doc} \in SUBSET Docs /\ IsFiniteSet({doc})
        BY <4>3, FS_Singleton DEF Slot
      <4>7. \A d \in {doc} : d.counted = Counts(d.ev)
        BY <4>3
      <4> HIDE DEF doc
      <4>8. /\ stored' \subseteq Docs /\ IsFiniteSet(stored')
            /\ home' \subseteq known' /\ known' \subseteq Users
            /\ count' \in [Users -> [Counters -> 0..(Wrap - 1)]]
            /\ posted' \subseteq Users /\ skewed' \subseteq Users
            /\ posted' \subseteq known'
            /\ \A d \in stored' : DocInv(d)'
            /\ CountersExact'
        BY <4>1, <4>5, <4>6, <4>7, KarmaFollows
      <4> QED BY <3>1, <4>8 DEF WhitelistInv, TypeOK
    <3> QED BY <3>2, <3>3
  <2>6. ASSUME NEW c \in Conns, Delete(c) PROVE WhitelistInv'
    <3> DEFINE gone == {d \in stored : d.ev = job[c].ev}
    <3>1. job' \in [Conns -> Jobs \cup {NoJob}] /\ UNCHANGED <<emptyDb, auth>>
      BY <2>6 DEF Delete, WhitelistInv, TypeOK
    <3>2. stored' = (stored \ gone) \cup {} /\ UpdateKarma(gone, {})
      BY <2>6 DEF Delete
    <3>3. /\ stored' \subseteq Docs /\ IsFiniteSet(stored')
          /\ home' \subseteq known' /\ known' \subseteq Users
          /\ count' \in [Users -> [Counters -> 0..(Wrap - 1)]]
          /\ posted' \subseteq Users /\ skewed' \subseteq Users
          /\ posted' \subseteq known'
          /\ \A d \in stored' : DocInv(d)'
          /\ CountersExact'
      <4>1. gone \in SUBSET stored /\ {} \in SUBSET Docs /\ IsFiniteSet({})
        BY FS_EmptySet
      <4> HIDE DEF gone
      <4> QED BY <3>2, <4>1, KarmaFollows
    <3> QED BY <3>1, <3>3 DEF WhitelistInv, TypeOK
  <2>7. ASSUME NEW c \in Conns, Disconnect(c) PROVE WhitelistInv'
    BY <2>1, <2>7 DEF Disconnect, WhitelistInv, TypeOK, karma, history
  <2>8. CASE Restart
    BY <2>1, <2>8 DEF Restart, WhitelistInv, TypeOK, karma, history
  <2>9. CASE UNCHANGED vars
    BY <2>1, <2>9 DEF vars, WhitelistInv, TypeOK, karma, history
  <2> QED BY <2>2, <2>3, <2>4, <2>5, <2>6, <2>7, <2>8, <2>9 DEF Next, Step
<1> QED BY <1>1, <1>2, PTL DEF Spec

\* The counters of the karma are those of the stored events, except where an
\* uncounted document was taken back.
THEOREM KarmaIsExact == Spec => []CountersExact
<1>1. WhitelistInv => CountersExact
  BY DEF WhitelistInv
<1> QED BY <1>1, WhitelistInvariant, PTL

\* Only Admit gives a connection something to commit.
LEMMA AdmittedBySomeone ==
  ASSUME WhitelistInv, Next, NEW c \in Conns, job[c] = NoJob, job'[c] # NoJob
  PROVE  \E e \in Posts, deletes \in BOOLEAN : Admit(c, e, deletes)
<1>1. PICK b \in Conns : Step(b) \/ Restart
  BY DEF Next
<1>2. ~Restart
  BY DEF Restart
<1>3. ~Publish(b) /\ ~Delete(b)
  BY DEF Publish, Delete, WhitelistInv, TypeOK
<1>4. PICK e \in Posts, deletes \in BOOLEAN : Admit(b, e, deletes)
  BY <1>1, <1>2, <1>3 DEF Step, Authenticate, Block, Disconnect
<1>5. b = c
  BY <1>4 DEF Admit, WhitelistInv, TypeOK
<1> QED BY <1>4, <1>5

\* The door over an empty database closes with the first event of HomeKinds.
THEOREM DoorStaysClosed == Spec => DoorCloses
<1>1. WhitelistInv /\ [Next]_vars
        => [\A c \in Conns : Admits(c, "empty") => posted = {}]_vars
  <2> SUFFICES ASSUME WhitelistInv, Next, NEW c \in Conns, Admits(c, "empty")
               PROVE  posted = {}
    OBVIOUS
  <2>1. job[c] = NoJob /\ job'[c] # NoJob /\ job'[c].why = "empty"
    BY DEF Admits
  <2>2. PICK e \in Posts, deletes \in BOOLEAN : Admit(c, e, deletes)
    BY <2>1, AdmittedBySomeone
  <2>3. Reason(c, e, deletes) = "empty"
    BY <2>1, <2>2 DEF Admit, WhitelistInv, TypeOK
  <2>4. IsEmpty
    BY <2>3 DEF Reason
  <2> QED BY <2>4 DEF IsEmpty, WhitelistInv
<1> QED BY <1>1, WhitelistInvariant, PTL DEF Spec, DoorCloses
-----------------------------------------------------------------------------
(* What a score is worth.                                                  *)

Busy == {c \in Conns : job[c] # NoJob}

\* Whoever stored an event of HomeKinds is a home user, and every document was
\* admitted once.
AdmissionInv ==
  /\ \A d \in stored : d.ev.kind \in HomeKinds => d.ev.author \in home
  /\ IsFiniteSet(Busy)
  /\ admitted \in Nat /\ admitted <= MaxPosts
  /\ Cardinality(stored) + Cardinality(Busy) <= admitted

\* A batch keeps residents residents and makes authors of HomeKinds some.
LEMMA ResidentsStay ==
  ASSUME WhitelistInv, AdmissionInv, NEW gone, NEW new,
         stored' = (stored \ gone) \cup new, UpdateKarma(gone, new)
  PROVE  \A d \in stored' : d.ev.kind \in HomeKinds => d.ev.author \in home'
<1>1. home' = home \cup {d.ev.author : d \in {n \in new : n.ev.kind \in HomeKinds}}
  BY DEF UpdateKarma
<1> QED BY <1>1 DEF AdmissionInv

\* Who leaves was busy.
LEMMA OneLess ==
  ASSUME WhitelistInv, AdmissionInv, NEW c \in Conns,
         job[c] # NoJob, job' = [job EXCEPT ![c] = NoJob]
  PROVE  /\ IsFiniteSet(Busy')
         /\ Cardinality(Busy') = Cardinality(Busy) - 1
         /\ Cardinality(Busy) \in Nat /\ Cardinality(stored) \in Nat
<1>1. Busy' = Busy \ {c} /\ c \in Busy
  BY DEF Busy, WhitelistInv, TypeOK
<1>2. IsFiniteSet(Busy) /\ IsFiniteSet(stored)
  BY DEF AdmissionInv, WhitelistInv
<1> QED BY <1>1, <1>2, FS_RemoveElement, FS_CardinalityType, FS_Subset

THEOREM AdmissionInvariant ==
  ASSUME MaxPosts \in Nat
  PROVE  Spec => []AdmissionInv
<1>1. Init => AdmissionInv
  <2> SUFFICES ASSUME Init PROVE AdmissionInv
    OBVIOUS
  <2>1. Busy = {} /\ stored = {} /\ admitted = 0
    BY DEF Init, Busy
  <2> QED BY <2>1, FS_EmptySet DEF AdmissionInv
<1>2. WhitelistInv /\ WhitelistInv' /\ AdmissionInv /\ [Next]_vars => AdmissionInv'
  <2> SUFFICES ASSUME WhitelistInv, WhitelistInv', AdmissionInv, [Next]_vars PROVE AdmissionInv'
    OBVIOUS
  <2>0. /\ Cardinality(stored) \in Nat /\ Cardinality(Busy) \in Nat
        /\ IsFiniteSet(stored) /\ IsFiniteSet(Busy)
    BY FS_CardinalityType DEF AdmissionInv, WhitelistInv
  <2>1. ASSUME UNCHANGED <<stored, home, job, admitted>> PROVE AdmissionInv'
    BY <2>1 DEF AdmissionInv, Busy
  <2>2. ASSUME NEW c \in Conns, NEW e \in Posts, NEW deletes \in BOOLEAN, Admit(c, e, deletes)
        PROVE  AdmissionInv'
    <3>1. /\ job[c] = NoJob /\ admitted < MaxPosts /\ admitted' = admitted + 1
          /\ stored' = stored /\ home' = home
      BY <2>2 DEF Admit, karma
    <3>2. job'[c].why # "none" /\ \A b \in Conns \ {c} : job'[b] = job[b]
      BY <2>2 DEF Admit, WhitelistInv, TypeOK
    <3>3. Busy' = Busy \cup {c} /\ c \notin Busy
      BY <3>1, <3>2 DEF Busy, NoJob
    <3>4. IsFiniteSet(Busy') /\ Cardinality(Busy') = Cardinality(Busy) + 1
      BY <2>0, <3>3, FS_AddElement
    <3> QED BY <2>0, <3>1, <3>4 DEF AdmissionInv
  <2>3. ASSUME NEW c \in Conns, Publish(c) PROVE AdmissionInv'
    <3> DEFINE e == job[c].ev
               doc == [ev |-> e, trusted |-> job[c].trusted, counted |-> Counts(e)]
    <3>1. /\ job[c] # NoJob /\ job' = [job EXCEPT ![c] = NoJob] /\ admitted' = admitted
      BY <2>3 DEF Publish
    <3>2. /\ IsFiniteSet(Busy') /\ Cardinality(Busy') = Cardinality(Busy) - 1
      BY <3>1, OneLess
    <3>3. CASE Obsolete(e)
      <4>1. stored' = stored /\ home' = home
        BY <2>3, <3>3 DEF Publish, karma
      <4> QED BY <2>0, <3>1, <3>2, <4>1 DEF AdmissionInv
    <3>4. CASE ~Obsolete(e)
      <4>1. stored' = (stored \ Slot(e)) \cup {doc} /\ UpdateKarma(Slot(e), {doc})
        BY <2>3, <3>4 DEF Publish
      <4> HIDE DEF doc
      <4>2. \A d \in stored' : d.ev.kind \in HomeKinds => d.ev.author \in home'
        BY <4>1, ResidentsStay
      <4>3. IsFiniteSet(stored \ Slot(e)) /\ Cardinality(stored \ Slot(e)) <= Cardinality(stored)
        BY <2>0, FS_Subset
      <4>4. Cardinality(stored') <= Cardinality(stored) + 1 /\ Cardinality(stored') \in Nat
        <5> DEFINE kept == stored \ Slot(e)
        <5>1. Cardinality(kept) \in Nat
          BY <4>3, FS_CardinalityType
        <5>2. IsFiniteSet(kept) /\ Cardinality(kept) <= Cardinality(stored) /\ stored' = kept \cup {doc}
          BY <4>1, <4>3
        <5> HIDE DEF kept
        <5>3. Cardinality(kept \cup {doc}) \in {Cardinality(kept), Cardinality(kept) + 1}
          BY <5>2, FS_AddElement
        <5> QED BY <2>0, <5>1, <5>2, <5>3
      <4> QED BY <2>0, <3>1, <3>2, <4>2, <4>4 DEF AdmissionInv
    <3> QED BY <3>3, <3>4
  <2>4. ASSUME NEW c \in Conns, Delete(c) PROVE AdmissionInv'
    <3> DEFINE gone == {d \in stored : d.ev = job[c].ev}
    <3>1. /\ job[c] # NoJob /\ job' = [job EXCEPT ![c] = NoJob] /\ admitted' = admitted
          /\ stored' = (stored \ gone) \cup {} /\ UpdateKarma(gone, {})
      BY <2>4 DEF Delete
    <3> HIDE DEF gone
    <3>2. /\ IsFiniteSet(Busy') /\ Cardinality(Busy') = Cardinality(Busy) - 1
      BY <3>1, OneLess
    <3>3. \A d \in stored' : d.ev.kind \in HomeKinds => d.ev.author \in home'
      BY <3>1, ResidentsStay
    <3>4. Cardinality(stored') <= Cardinality(stored) /\ Cardinality(stored') \in Nat
      BY <2>0, <3>1, FS_Subset, FS_CardinalityType
    <3> QED BY <2>0, <3>1, <3>2, <3>3, <3>4 DEF AdmissionInv
  <2>5. CASE Restart
    <3>1. Busy' = {} /\ UNCHANGED <<stored, home, admitted>>
      BY <2>5 DEF Restart, Busy, karma
    <3> QED BY <2>0, <3>1, FS_EmptySet DEF AdmissionInv
  <2>6. ASSUME NEW c \in Conns,
               \/ \E u \in Users : Authenticate(c, u)
               \/ \E e \in Posts, deletes \in BOOLEAN : Block(c, e, deletes)
               \/ Disconnect(c)
        PROVE  AdmissionInv'
    BY <2>1, <2>6 DEF Authenticate, Block, Disconnect, karma
  <2>7. CASE UNCHANGED vars
    BY <2>1, <2>7 DEF vars, karma
  <2> QED BY <2>2, <2>3, <2>4, <2>5, <2>6, <2>7 DEF Next, Step
<1> QED BY <1>1, <1>2, WhitelistInvariant, PTL DEF Spec

\* The score of a stranger of whom no resident speaks is nobody's invitation:
\* it is what the mutes leave of nothing.
LEMMA MutesDoNotInvite ==
  ASSUME MaxPosts \in Nat, 2 * MaxPosts <= Wrap, WhitelistInv, AdmissionInv,
         NEW u \in Users, u \notin skewed, get_score(u) > 0
  PROVE  Invited(u)
<1> SUFFICES ASSUME ~Invited(u) PROVE FALSE
  OBVIOUS
<1>1. u \notin home
  BY DEF Invited
<1>2. \A f \in {"followers", "mentions", "directmsgs"} : count[u][f] = 0
  <2> SUFFICES ASSUME NEW f \in {"followers", "mentions", "directmsgs"} PROVE count[u][f] = 0
    OBVIOUS
  <2>1. {d \in stored : d.counted /\ Counter(d) = f /\ u \in d.ev.p} = {}
    <3> SUFFICES ASSUME NEW d \in stored, d.counted, Counter(d) = f, u \in d.ev.p PROVE FALSE
      OBVIOUS
    <3>1. Counts(d.ev)
      BY DEF WhitelistInv, DocInv
    <3>2. d.ev.author \in home
      BY <3>1 DEF Counts, AdmissionInv
    <3> QED BY <3>2 DEF Invited
  <2>2. Spoken(u, f) = 0
    BY <2>1, FS_EmptySet DEF Spoken
  <2>3. count[u][f] = Unsigned(0)
    BY <2>2 DEF WhitelistInv, CountersExact, Counters
  <2> QED BY <2>3 DEF Unsigned
<1> DEFINE m == Spoken(u, "mutes")
<1>3. m \in Nat /\ 2 * m <= Wrap
  <2> DEFINE M == {d \in stored : d.counted /\ Counter(d) = "mutes" /\ u \in d.ev.p}
  <2>1. IsFiniteSet(stored) /\ M \subseteq stored
    BY DEF WhitelistInv
  <2>2. /\ Cardinality(M) \in Nat /\ Cardinality(stored) \in Nat
        /\ Cardinality(M) <= Cardinality(stored)
    BY <2>1, FS_Subset, FS_CardinalityType
  <2>3. Cardinality(Busy) \in Nat
    BY FS_CardinalityType DEF AdmissionInv
  <2>4. m = Cardinality(M)
    BY DEF Spoken
  <2> HIDE DEF M, m
  <2> QED BY <2>2, <2>3, <2>4 DEF AdmissionInv
<1>4. count[u]["mutes"] = Unsigned(m)
  BY DEF WhitelistInv, CountersExact, Counters
<1> HIDE DEF m
<1>5. Unsigned(m) = m
  <2>1. m < Wrap
    BY <1>3
  <2> QED BY <1>3, <2>1 DEF Unsigned
<1>6. get_score(u) = Signed(0 - m)
  <2>1. Least(2, count[u]["mentions"]) = 0 /\ Least(2, count[u]["directmsgs"]) = 0
    BY <1>2 DEF Least
  <2> QED BY <1>1, <1>2, <1>3, <1>4, <1>5, <2>1 DEF get_score
<1>7. CASE m = 0
  <2>1. Unsigned(0 - m) = 0
    BY <1>7 DEF Unsigned
  <2> QED BY <1>6, <2>1 DEF Signed
<1>8. CASE m > 0
  <2> DEFINE r == Unsigned(0 - m)
  <2>1. r = Wrap - m
    <3>1. /\ r \in 0..(Wrap - 1) /\ (0 - m) \div Wrap \in Int
          /\ 0 - m = Wrap * ((0 - m) \div Wrap) + r
      BY <1>3 DEF Unsigned
    <3> DEFINE q == (0 - m) \div Wrap
    <3> HIDE DEF q, r
    <3>2. Wrap * q + r = Wrap * (-1) + (Wrap - m)
      BY <1>3, <3>1 DEF q
    <3>3. Wrap - m \in 0..(Wrap - 1)
      BY <1>3, <1>8
    <3> QED BY <3>1, <3>2, <3>3, UniqueRemainder, SMTT(20) DEF q
  <2> HIDE DEF r
  <2>2. ~(r < Wrap \div 2)
    BY <1>3, <2>1
  <2>3. Signed(0 - m) = r - Wrap
    BY <2>2 DEF Signed, r
  <2> QED BY <1>3, <1>6, <1>8, <2>1, <2>3
<1> QED BY <1>3, <1>7, <1>8

\* check_whitelist admits by the score only whom a resident follows, mentions or
\* writes to, as long as the counters cannot go half round.
THEOREM ScoreIsAnInvitation ==
  ASSUME MaxPosts \in Nat, 2 * MaxPosts <= Wrap
  PROVE  Spec => InvitedByScore
<1>1. WhitelistInv /\ AdmissionInv /\ [Next]_vars
        => [\A c \in Conns : Admits(c, "score") =>
              Invited(job'[c].ev.author) \/ job'[c].ev.author \in skewed]_vars
  <2> SUFFICES ASSUME WhitelistInv, AdmissionInv, Next, NEW c \in Conns, Admits(c, "score"),
                      job'[c].ev.author \notin skewed
               PROVE  Invited(job'[c].ev.author)
    OBVIOUS
  <2>1. PICK e \in Posts, deletes \in BOOLEAN : Admit(c, e, deletes)
    BY AdmittedBySomeone DEF Admits
  <2>2. job'[c].ev = e /\ Reason(c, e, deletes) = "score"
    BY <2>1 DEF Admit, Admits, WhitelistInv, TypeOK
  <2>3. get_score(e.author) > 0 /\ e.author \in Users
    BY <2>2 DEF Reason
  <2> QED BY <2>2, <2>3, MutesDoNotInvite
<1> QED BY <1>1, WhitelistInvariant, AdmissionInvariant, PTL DEF Spec, InvitedByScore
=============================================================================
