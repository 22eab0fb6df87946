---------------------------- MODULE SessionProofs ----------------------------
(***************************************************************************)
(* Proofs about RateLimiter and about what Session makes of it, for all    *)
(* windows, limits and clocks.                                             *)
(***************************************************************************)
EXTENDS Session, TLAPS

-----------------------------------------------------------------------------
(* The limiter.                                                            *)

\* Whatever left the queue was pushed out by one of the next grants.
Outlived(i) ==
  \E j \in 1..Len(pushed) : i < j /\ j <= i + limit /\ pushed[i] < pushed[j] - window

RateInv ==
  /\ LimiterTypeOK
  /\ Len(pushed) - popped <= limit
  /\ \A i \in 1..popped : Outlived(i)

\* A call of test_and_add that finds the queue full has popped nothing.
LEMMA FullPopsNothing ==
  ASSUME RateInv, NEW h \in 0..Len(pushed), PopsTo(h), Full(h)
  PROVE  h = popped /\ Len(pushed) - popped = limit
<1>1. /\ Len(pushed) \in Nat /\ popped \in Nat /\ limit \in Nat /\ h \in Nat
      /\ h >= popped
  BY RateLimiterAssumption DEF RateInv, LimiterTypeOK, PopsTo
<1> QED BY <1>1 DEF RateInv, Full

\* The queue of test_and_add never holds more than the limit, and what left it
\* was outlived by a later grant: RateInv is an invariant.
THEOREM RateInvariant == LimiterSpec => []RateInv
<1>1. LimiterInit => RateInv
  BY RateLimiterAssumption
  DEF LimiterInit, RateInv, LimiterTypeOK, Outlived
<1>2. RateInv /\ [LimiterNext]_limiterVars => RateInv'
  <2> SUFFICES ASSUME RateInv, [LimiterNext]_limiterVars PROVE RateInv'
    OBVIOUS
  <2>0. /\ window \in Nat /\ limit \in Nat /\ now \in Nat
        /\ Len(pushed) \in Nat /\ popped \in Nat
        /\ pushed \in Seq(Nat)
    BY RateLimiterAssumption DEF RateInv, LimiterTypeOK
  <2>1. CASE Clock
    <3>1. now' \in Nat
      BY <2>1, RateLimiterAssumption DEF Clock
    <3> QED
      BY <2>1, <3>1
      DEF Clock, RateInv, LimiterTypeOK, options, Outlived
  <2>2. CASE Unlimited
    BY <2>2, <2>0
    DEF Unlimited, limiterVars, RateInv, LimiterTypeOK, options, Outlived
  <2>3. CASE Grant
    <3>1. PICK h \in 0..Len(pushed) : PopsTo(h) /\ ~Full(h) /\ popped' = h
      BY <2>3 DEF Grant
    <3>2. /\ pushed' = Append(pushed, now)
          /\ window' = window /\ limit' = limit /\ now' = now
      BY <2>3 DEF Grant, options
    <3>3. /\ Len(pushed') = Len(pushed) + 1 /\ pushed' \in Seq(Nat)
          /\ \A i \in 1..Len(pushed) : pushed'[i] = pushed[i]
          /\ pushed'[Len(pushed) + 1] = now
      BY <2>0, <3>2
    <3>4. LimiterTypeOK'
      BY <2>0, <3>1, <3>2, <3>3 DEF RateInv, LimiterTypeOK
    <3>5. (Len(pushed) - popped <= limit)'
      BY <2>0, <3>1, <3>2, <3>3 DEF Full
    <3>6. ASSUME NEW i \in 1..h PROVE Outlived(i)'
      <4>1. CASE i \in 1..popped
        <5>1. PICK j \in 1..Len(pushed) :
                i < j /\ j <= i + limit /\ pushed[i] < pushed[j] - window
          BY <4>1 DEF RateInv, Outlived
        <5>2. j \in 1..Len(pushed') /\ pushed'[j] = pushed[j] /\ pushed'[i] = pushed[i]
          BY <2>0, <3>1, <3>3, <5>1
        <5> QED BY <5>1, <5>2, <3>2 DEF Outlived
      <4>2. CASE i \in (popped + 1)..h
        <5> DEFINE j == Len(pushed) + 1
        <5>1. j \in 1..Len(pushed') /\ i \in 1..Len(pushed)
          BY <2>0, <3>1, <3>3, <4>2
        <5>2. i < j /\ j <= i + limit
          BY <2>0, <3>1, <4>2 DEF RateInv
        <5>3. pushed'[i] < pushed'[j] - window
          BY <2>0, <3>1, <3>3, <4>2, <5>1 DEF PopsTo, TooOld
        <5> QED BY <5>1, <5>2, <5>3, <3>2 DEF Outlived
      <4> QED BY <2>0, <3>1, <4>1, <4>2 DEF PopsTo
    <3> QED BY <3>1, <3>4, <3>5, <3>6 DEF RateInv
  <2>4. CASE Refuse
    <3>1. PICK h \in 0..Len(pushed) : PopsTo(h) /\ Full(h) /\ popped' = h
      BY <2>4 DEF Refuse
    <3>2. h = popped /\ Len(pushed) - popped = limit
      BY <3>1, FullPopsNothing
    <3>3. UNCHANGED <<window, limit, now, pushed, popped>>
      BY <2>4, <3>1, <3>2 DEF Refuse, options
    <3> QED BY <3>3 DEF RateInv, LimiterTypeOK, Outlived
  <2>5. CASE UNCHANGED limiterVars
    BY <2>5 DEF limiterVars, options, RateInv, LimiterTypeOK, Outlived
  <2> QED BY <2>1, <2>2, <2>3, <2>4, <2>5 DEF LimiterNext
<1> QED BY <1>1, <1>2, PTL DEF LimiterSpec

\* test_and_add bounds bursts, for every window, limit and clock.
THEOREM BurstsAreBounded == LimiterSpec => []BurstBounded
<1>1. RateInv => BurstBounded
  <2> SUFFICES ASSUME RateInv, NEW i \in 1..Len(pushed), NEW k \in 1..Len(pushed),
                      k = i + limit, \A j \in i..k : pushed[j] <= pushed[k]
               PROVE  pushed[k] - pushed[i] > window
    BY DEF BurstBounded
  <2>0. /\ window \in Nat /\ limit \in Nat /\ pushed \in Seq(Nat)
        /\ Len(pushed) \in Nat /\ popped \in Nat
    BY RateLimiterAssumption DEF RateInv, LimiterTypeOK
  <2>1. i \in 1..popped
    BY <2>0 DEF RateInv
  <2>2. PICK j \in 1..Len(pushed) :
          i < j /\ j <= i + limit /\ pushed[i] < pushed[j] - window
    BY <2>1 DEF RateInv, Outlived
  <2>3. pushed[j] <= pushed[k]
    BY <2>0, <2>2
  <2>4. pushed[i] \in Nat /\ pushed[j] \in Nat /\ pushed[k] \in Nat
    BY <2>0
  <2> QED BY <2>0, <2>2, <2>3, <2>4, SMTT(20)
<1> QED BY <1>1, RateInvariant, PTL

\* test_and_add refuses only when the limit is spent in the window.
THEOREM RefusalsAreDue == LimiterSpec => []RefusedWhenSpent
<1>1. RateInv => RefusedWhenSpent
  <2> SUFFICES ASSUME RateInv, NEW h \in 0..Len(pushed), PopsTo(h), Full(h)
               PROVE  /\ Len(pushed) >= limit
                      /\ limit > 0 => pushed[Len(pushed) - limit + 1] >= now - window
    BY DEF RefusedWhenSpent
  <2>1. h = popped /\ Len(pushed) - popped = limit
    BY FullPopsNothing
  <2>2. /\ window \in Nat /\ limit \in Nat /\ now \in Nat
        /\ Len(pushed) \in Nat /\ popped \in Nat /\ pushed \in Seq(Nat)
    BY RateLimiterAssumption DEF RateInv, LimiterTypeOK
  <2> QED BY <2>1, <2>2 DEF PopsTo, TooOld
<1> QED BY <1>1, RateInvariant, PTL

-----------------------------------------------------------------------------
(* A session is a behaviour of its limiter.                                *)

\* on_event_generic calls test_and_add at most once for a message, and nothing
\* else in the handlers touches the limiter.
THEOREM SessionLimits == Spec => LimiterSpec
<1>1. Init => LimiterInit
  BY DEF Init
<1>2. [Next]_vars => [LimiterNext]_limiterVars
  <2> SUFFICES ASSUME [Next]_vars PROVE [LimiterNext]_limiterVars
    OBVIOUS
  <2> USE DEF LimiterNext
  <2>1. ASSUME NEW name \in {"EVENT", "FILE"}, NEW e \in Events,
               \/ PostDuplicate(name, e) \/ PostLimited(name, e) \/ PostGranted(name, e)
        PROVE  [LimiterNext]_limiterVars
    BY <2>1 DEF PostDuplicate, PostLimited, PostGranted
  <2>2. CASE PostMalformed \/ BinaryUnsupported \/ AuthWithoutId
    BY <2>2 DEF PostMalformed, BinaryUnsupported, AuthWithoutId
  <2>3. ASSUME NEW data \in Contents,
               BinaryMismatch(data) \/ BinaryDuplicate(data) \/ BinaryMatched(data)
        PROVE  [LimiterNext]_limiterVars
    BY <2>3 DEF BinaryMismatch, BinaryDuplicate, BinaryMatched
  <2>4. ASSUME NEW a \in Auths, process_auth(a) PROVE [LimiterNext]_limiterVars
    BY <2>4 DEF process_auth
  <2>5. CASE Handler
    BY <2>5 DEF Handler, JudgeRefuses, JudgeEphemeral, JudgePasses, WhitelistBlocks,
                WhitelistPasses, Publish, PublishNothing, DeletionReplaces,
                DeletionNothing, FileRefused, FileContinue, Upload, UploadFails, Finish
  <2>6. CASE Close \/ Time
    BY <2>6 DEF Close, Time
  <2>7. CASE Others
    BY <2>7 DEF Others, OthersJudged, OthersPost
  <2>8. CASE UNCHANGED vars
    BY <2>8 DEF vars
  <2> QED BY <2>1, <2>2, <2>3, <2>4, <2>5, <2>6, <2>7, <2>8 DEF Next, Message
<1> QED BY <1>1, <1>2, PTL DEF Spec, LimiterSpec

-----------------------------------------------------------------------------
(* What a session stores and publishes is bounded.                         *)

InHand == {"judge", "whitelist", "verified"}

\* Grants that are still to be used: by the event in hand, by the announced one.
Owed == (IF pc \in InHand THEN 1 ELSE 0) + (IF fileEvent # None THEN 1 ELSE 0)

\* The last n grants are not older than post i.
PaidSince(i, n) ==
  n <= Len(pushed) /\ (n >= 1 => pushed[Len(pushed) - n + 1] >= posts[i])

HandInv ==
  /\ pc \in InHand \cup {"idle", "upload", "closed"}
  /\ pc \in InHand \cup {"upload"} =>
       "at" \in DOMAIN cmd /\ cmd.at \in Nat /\ (steady => cmd.at <= now)
  /\ pc \in InHand /\ window # 0 => Len(pushed) > 0 /\ pushed[Len(pushed)] = cmd.at
  /\ pc = "upload" =>
       fileEvent # None /\ (steady => \A j \in 1..Len(pushed) : pushed[j] <= cmd.at)

SteadyInv ==
  /\ steady \in BOOLEAN /\ posts \in Seq(Nat)
  /\ posts # <<>> => steady /\ window # 0
  /\ steady =>
       /\ \A j \in 1..Len(pushed) : pushed[j] <= now
       /\ \A j, l \in 1..Len(pushed) : j <= l => pushed[j] <= pushed[l]
       /\ \A i \in 1..Len(posts) : posts[i] <= now

PaidInv == \A i \in 1..Len(posts) : PaidSince(i, Len(posts) - i + Owed)

PostsInv == HandInv /\ SteadyInv /\ PaidInv /\ PostsBounded

Limited == RateInv /\ BurstBounded

LEMMA LimitedTypes ==
  ASSUME Limited
  PROVE  /\ window \in Nat /\ limit \in Nat /\ now \in Nat
         /\ pushed \in Seq(Nat) /\ Len(pushed) \in Nat
  BY RateLimiterAssumption DEF Limited, RateInv, LimiterTypeOK

\* What is paid by n grants is paid by fewer.
LEMMA Fewer ==
  ASSUME Limited, SteadyInv, steady, NEW i \in 1..Len(posts), NEW n \in Nat, NEW m \in 0..n,
         PaidSince(i, n)
  PROVE  PaidSince(i, m)
<1>1. CASE m = 0
  BY <1>1, LimitedTypes DEF PaidSince
<1>2. CASE m >= 1
  <2> DEFINE a == Len(pushed) - n + 1
             b == Len(pushed) - m + 1
  <2>1. a \in 1..Len(pushed) /\ b \in 1..Len(pushed) /\ a <= b
    BY <1>2, LimitedTypes DEF PaidSince
  <2>2. pushed[a] <= pushed[b] /\ pushed[a] >= posts[i]
    BY <1>2, <2>1 DEF SteadyInv, PaidSince
  <2>3. pushed[a] \in Nat /\ pushed[b] \in Nat
    <3> HIDE DEF a, b
    <3> QED BY <2>1, LimitedTypes, SMTT(20)
  <2>4. posts[i] \in Nat
    BY DEF SteadyInv
  <2> QED BY <1>2, <2>1, <2>2, <2>3, <2>4 DEF PaidSince
<1> QED BY <1>1, <1>2

LEMMA OwedType == Owed \in 0..2
  BY DEF Owed

\* Nothing is granted and nothing posted.
Quiet ==
  /\ UNCHANGED <<window, limit, now, pushed, steady, posts>>
  /\ Owed' <= Owed

LEMMA QuietKeeps ==
  ASSUME Limited, PostsInv, Quiet
  PROVE  SteadyInv' /\ PaidInv' /\ PostsBounded'
<1>1. SteadyInv' /\ PostsBounded'
  BY DEF Quiet, PostsInv, SteadyInv, PostsBounded
<1>2. ASSUME NEW i \in 1..Len(posts)
      PROVE  PaidSince(i, Len(posts) - i + Owed')
  <2>1. steady /\ Len(posts) \in Nat
    BY <1>2 DEF PostsInv, SteadyInv
  <2>2. PaidSince(i, Len(posts) - i + Owed)
    BY <1>2 DEF PostsInv, PaidInv
  <2>3. Owed \in 0..2 /\ Owed' \in 0..2 /\ Owed' <= Owed
    BY OwedType DEF Quiet, Owed
  <2>4. Len(posts) - i + Owed \in Nat
        /\ Len(posts) - i + Owed' \in 0..(Len(posts) - i + Owed)
    BY <2>1, <2>3
  <2> QED BY <2>1, <2>2, <2>4, Fewer DEF PostsInv
<1>3. PaidInv'
  BY <1>2 DEF PaidInv, PaidSince, Quiet
<1> QED BY <1>1, <1>3

\* test_and_add grants; the event is in hand, or refused for its work.
Granted ==
  /\ window' = window /\ limit' = limit /\ now' = now
  /\ pushed' = Append(pushed, now)
  /\ UNCHANGED <<steady, posts>>
  /\ Owed' <= Owed + 1

LEMMA GrantedKeeps ==
  ASSUME Limited, PostsInv, Granted
  PROVE  SteadyInv' /\ PaidInv' /\ PostsBounded'
<1>1. /\ Len(pushed') = Len(pushed) + 1 /\ pushed' \in Seq(Nat)
      /\ \A i \in 1..Len(pushed) : pushed'[i] = pushed[i]
      /\ pushed'[Len(pushed) + 1] = now
  BY LimitedTypes DEF Granted
<1>2. SteadyInv'
  <2>1. SUFFICES ASSUME steady
                 PROVE  /\ \A j \in 1..Len(pushed') : pushed'[j] <= now
                        /\ \A j, l \in 1..Len(pushed') : j <= l => pushed'[j] <= pushed'[l]
    BY DEF Granted, PostsInv, SteadyInv
  <2>2. ASSUME NEW j \in 1..Len(pushed') PROVE pushed'[j] <= now
    <3>1. CASE j = Len(pushed) + 1
      BY <3>1, <1>1, LimitedTypes
    <3>2. CASE j \in 1..Len(pushed)
      BY <3>2, <1>1, <2>1 DEF PostsInv, SteadyInv
    <3> QED BY <3>1, <3>2, <1>1, LimitedTypes
  <2>3. ASSUME NEW j \in 1..Len(pushed'), NEW l \in 1..Len(pushed'), j <= l
        PROVE  pushed'[j] <= pushed'[l]
    <3>1. CASE l = Len(pushed) + 1
      BY <3>1, <1>1, <2>2
    <3>2. CASE l \in 1..Len(pushed)
      <4>1. j \in 1..Len(pushed) /\ pushed[j] <= pushed[l]
        BY <3>2, <2>1, <2>3, LimitedTypes DEF PostsInv, SteadyInv
      <4> QED BY <3>2, <4>1, <1>1
    <3> QED BY <3>1, <3>2, <1>1, LimitedTypes
  <2> QED BY <2>2, <2>3
<1>3. ASSUME NEW i \in 1..Len(posts)
      PROVE  PaidSince(i, Len(posts) - i + Owed)' 
  <2>1. /\ steady /\ Len(posts) \in Nat /\ posts[i] \in Nat /\ posts[i] <= now
        /\ posts' = posts
    BY <1>3 DEF PostsInv, SteadyInv, Granted
  <2>2. Owed \in 0..2 /\ Owed' \in 0..2 /\ Owed' <= Owed + 1
    BY OwedType DEF Granted, Owed
  <2> DEFINE n == Len(posts) - i + Owed
             m == Len(posts) - i + Owed'
  <2>3. n \in Nat /\ m \in Nat /\ m <= n + 1
    BY <2>1, <2>2
  <2>4. PaidSince(i, n)
    BY <1>3 DEF PostsInv, PaidInv
  <2>5. m <= Len(pushed')
    BY <1>1, <2>3, <2>4, LimitedTypes DEF PaidSince
  <2>6. CASE m = 1
    BY <2>1, <2>5, <2>6, <1>1, LimitedTypes DEF PaidSince
  <2>7. CASE m = 0
    BY <2>1, <2>5, <2>7, <1>1, LimitedTypes DEF PaidSince
  <2>8. CASE m > 1
    <3>1. m - 1 \in 0..n
      BY <2>3, <2>8
    <3>2. PaidSince(i, m - 1)
      BY <3>1, <2>1, <2>3, <2>4, Fewer DEF PostsInv
    <3> HIDE DEF n, m
    <3>3. Len(pushed) - (m - 1) + 1 \in 1..Len(pushed)
          /\ Len(pushed') - m + 1 = Len(pushed) - (m - 1) + 1
      BY <3>2, <2>3, <2>8, <1>1, LimitedTypes DEF PaidSince
    <3>4. pushed[Len(pushed) - (m - 1) + 1] >= posts[i]
      BY <3>2, <2>8, <2>3 DEF PaidSince
    <3>5. pushed'[Len(pushed') - m + 1] >= posts'[i]
      BY <3>3, <3>4, <1>1, <2>1
    <3> USE DEF n, m
    <3> QED BY <3>5, <2>5, <2>1 DEF PaidSince
  <2> QED BY <2>3, <2>6, <2>7, <2>8
<1>4. PaidInv' /\ PostsBounded'
  BY <1>3 DEF PaidInv, Granted, PostsInv, PostsBounded
<1> QED BY <1>2, <1>4

\* The event in hand reaches the store or the subscribers and uses its grant.
Posted ==
  /\ UNCHANGED <<window, limit, now, pushed, steady>>
  /\ Post
  /\ pc \in InHand \cup {"upload"}
  /\ Owed >= 1 /\ Owed' <= Owed - 1

LEMMA PostedKeeps ==
  ASSUME Limited, PostsInv, Posted
  PROVE  SteadyInv' /\ PaidInv' /\ PostsBounded'
<1>1. CASE ~(window # 0 /\ steady)
  <2>1. posts = <<>> /\ posts' = <<>>
    BY <1>1 DEF Posted, Post, PostsInv, SteadyInv
  <2>2. Len(posts') = 0
    BY <2>1
  <2> QED
    BY <2>1, <2>2 DEF Posted, PostsInv, SteadyInv, PaidInv, PostsBounded
<1>2. CASE window # 0 /\ steady
  <2> DEFINE L == Len(pushed)
             N == Len(posts)
  <2>1. /\ posts' = Append(posts, cmd.at) /\ posts \in Seq(Nat) /\ N \in Nat /\ L \in Nat
        /\ cmd.at \in Nat /\ cmd.at <= now
    BY <1>2, LimitedTypes DEF Posted, Post, PostsInv, SteadyInv, HandInv
  <2>2. /\ Len(posts') = N + 1 /\ posts' \in Seq(Nat)
        /\ \A i \in 1..N : posts'[i] = posts[i]
        /\ posts'[N + 1] = cmd.at
    BY <2>1
  <2>3. SteadyInv'
    <3>1. ASSUME NEW i \in 1..Len(posts') PROVE posts'[i] <= now
      <4>1. CASE i = N + 1
        BY <4>1, <2>1, <2>2
      <4>2. CASE i \in 1..N
        BY <4>2, <1>2, <2>2 DEF PostsInv, SteadyInv
      <4> QED BY <4>1, <4>2, <2>1, <2>2
    <3> QED BY <3>1, <1>2, <2>2 DEF Posted, PostsInv, SteadyInv
  <2>4. Owed \in 1..2 /\ Owed' \in 0..(Owed - 1)
    BY OwedType DEF Posted, Owed
  <2>5. L >= 1 => pushed[L] <= cmd.at
    <3>1. CASE pc \in InHand
      BY <3>1, <1>2, <2>1, LimitedTypes DEF PostsInv, HandInv
    <3>2. CASE pc = "upload"
      BY <3>2, <1>2, <2>1 DEF PostsInv, HandInv
    <3> QED BY <3>1, <3>2 DEF Posted
  <2>6. ASSUME NEW i \in 1..N, NEW m \in 0..(N - i + Owed)
        PROVE  PaidSince(i, m)
    <3>1. N - i + Owed \in Nat
      BY <2>1, <2>4
    <3>2. PaidSince(i, N - i + Owed)
      BY DEF PostsInv, PaidInv
    <3> QED BY <1>2, <3>1, <3>2, Fewer DEF PostsInv
  <2>7. ASSUME NEW i \in 1..Len(posts')
        PROVE  PaidSince(i, Len(posts) - i + Owed)'
    <3>1. CASE i \in 1..N
      <4>1. N + 1 - i + Owed' \in 0..(N - i + Owed)
        BY <3>1, <2>1, <2>4
      <4>2. PaidSince(i, N + 1 - i + Owed')
        BY <3>1, <4>1, <2>6
      <4> QED BY <3>1, <4>2, <2>2 DEF PaidSince, Posted
    <3>2. CASE i = N + 1
      <4>1. N + 1 - i + Owed' = Owed'
        BY <3>2, <2>1, <2>4
      <4>2. CASE Owed' = 0
        BY <4>1, <4>2, <2>1, <2>2 DEF PaidSince, Posted
      <4>3. CASE Owed' # 0
        <5>1. Owed = 2 /\ Owed' = 1
          BY <4>3, <2>4
        <5>2. pc \in InHand
          BY <5>1 DEF Owed
        <5>3. L >= 1 /\ pushed[L] = cmd.at
          BY <5>2, <1>2, <2>1 DEF PostsInv, HandInv
        <5> QED BY <3>2, <4>1, <5>1, <5>3, <2>1, <2>2 DEF PaidSince, Posted
      <4> QED BY <4>2, <4>3
    <3> QED BY <3>1, <3>2, <2>1, <2>2
  <2>8. ASSUME NEW i \in 1..Len(posts'), NEW k \in 1..Len(posts'), k = i + limit + 1
        PROVE  posts'[k] - posts'[i] > window
    <3>1. CASE k \in 1..N
      <4>1. i \in 1..N
        BY <3>1, <2>8, <2>1, <2>2, LimitedTypes
      <4> QED BY <3>1, <4>1, <2>2, <2>8 DEF PostsInv, PostsBounded
    <3>2. CASE k = N + 1
      <4>1. i \in 1..N /\ N - i = limit
        BY <3>2, <2>8, <2>1, LimitedTypes
      <4>2. limit + 1 \in 0..(N - i + Owed)
        BY <4>1, <2>4, LimitedTypes
      <4>3. PaidSince(i, limit + 1)
        BY <4>1, <4>2, <2>6
      <4>4. /\ L - limit \in 1..L /\ L \in 1..L /\ L = (L - limit) + limit
            /\ pushed[L - limit] >= posts[i]
        <5>1. /\ limit + 1 <= L /\ limit + 1 >= 1
              /\ pushed[L - (limit + 1) + 1] >= posts[i]
          BY <4>3, LimitedTypes DEF PaidSince
        <5>2. L \in Nat /\ limit \in Nat
          BY LimitedTypes
        <5> HIDE DEF L
        <5>3. L - (limit + 1) + 1 = L - limit
          BY <5>2
        <5> QED BY <5>1, <5>2, <5>3
      <4>5. pushed[L] - pushed[L - limit] > window
        <5>1. \A j \in (L - limit)..L : pushed[j] <= pushed[L]
          BY <1>2, <4>4, LimitedTypes DEF PostsInv, SteadyInv
        <5> HIDE DEF L
        <5> QED BY <4>4, <5>1 DEF Limited, BurstBounded, L
      <4>6. pushed[L] \in Nat /\ pushed[L - limit] \in Nat /\ posts[i] \in Nat
        <5>1. \A j \in 1..L : pushed[j] \in Nat
          BY LimitedTypes
        <5>2. posts[i] \in Nat
          BY <4>1, <2>1
        <5> QED BY <4>4, <5>1, <5>2
      <4>7. posts'[k] = cmd.at /\ posts'[i] = posts[i] /\ pushed[L] <= cmd.at
        BY <3>2, <4>1, <4>4, <2>2, <2>5
      <4>8. pushed[L] - pushed[L - limit] <= cmd.at - posts[i]
        <5>1. cmd.at \in Nat /\ pushed[L - limit] >= posts[i] /\ pushed[L] <= cmd.at
          BY <4>4, <4>7, <2>1
        <5> QED BY <4>6, <5>1
      <4>9. cmd.at \in Nat /\ window \in Nat
        BY <2>1, LimitedTypes
      <4> HIDE DEF L
      <4> QED BY <4>5, <4>6, <4>7, <4>8, <4>9
    <3> QED BY <3>1, <3>2, <2>1, <2>2
  <2> QED BY <2>3, <2>7, <2>8 DEF PaidInv, PostsBounded, Posted
<1> QED BY <1>1, <1>2

\* The clock goes on, or is set back and the history is dropped.
LEMMA TimeKeeps ==
  ASSUME Limited, PostsInv, Time
  PROVE  PostsInv'
<1>1. /\ UNCHANGED <<window, limit, pushed, pc, cmd, fileEvent>> /\ now' \in Nat
      /\ steady' = (steady /\ now' > now)
      /\ posts' = IF steady' THEN posts ELSE <<>>
  BY RateLimiterAssumption DEF Time, Clock, options, place, upload
<1>2. HandInv'
  <2>1. ASSUME pc' \in InHand \cup {"upload"}
        PROVE  "at" \in DOMAIN cmd' /\ cmd'.at \in Nat /\ (steady' => cmd'.at <= now')
    <3>1. /\ "at" \in DOMAIN cmd /\ cmd.at \in Nat /\ (steady => cmd.at <= now)
          /\ cmd' = cmd
      BY <1>1, <2>1 DEF PostsInv, HandInv
    <3>2. (steady' => steady /\ now' > now) /\ now' \in Nat
      BY <1>1 DEF PostsInv, SteadyInv
    <3>3. steady' => cmd.at <= now'
      BY <3>1, <3>2, LimitedTypes
    <3> QED BY <3>1, <3>3
  <2>2. (pc = "upload" =>
          fileEvent # None /\ (steady => \A j \in 1..Len(pushed) : pushed[j] <= cmd.at))'
    BY <1>1 DEF PostsInv, HandInv
  <2>3. /\ (pc \in InHand \cup {"idle", "upload", "closed"})'
        /\ (pc \in InHand /\ window # 0 => Len(pushed) > 0 /\ pushed[Len(pushed)] = cmd.at)'
    BY <1>1 DEF PostsInv, HandInv, InHand
  <2> QED BY <2>1, <2>2, <2>3 DEF HandInv
<1>3. CASE steady'
  <2>1. steady /\ now' > now /\ posts' = posts
    BY <1>1, <1>3 DEF PostsInv, SteadyInv
  <2>2. SteadyInv'
    BY <1>1, <1>3, <2>1, LimitedTypes DEF PostsInv, SteadyInv
  <2>3. PaidInv' /\ PostsBounded'
    BY <1>1, <2>1 DEF PostsInv, PaidInv, PaidSince, Owed, PostsBounded
  <2> QED BY <1>2, <2>2, <2>3 DEF PostsInv
<1>4. CASE ~steady'
  BY <1>1, <1>2, <1>4 DEF PostsInv, SteadyInv, PaidInv, PostsBounded
<1> QED BY <1>3, <1>4

-----------------------------------------------------------------------------
(* The steps of a session.                                                 *)

\* A message is taken, answered or handed on without a grant.
LEMMA MessagesKeep ==
  ASSUME Limited, PostsInv, Message
  PROVE  PostsInv'
<1> USE DEF Take, Return, Continue, Cmd, HandInv, InHand, Owed, options, limiterVars,
            upload, Quiet
<1>0. RateInv /\ HandInv
  BY DEF Limited, PostsInv
<1>1. ASSUME NEW name \in {"EVENT", "FILE"}, NEW e \in Events, PostDuplicate(name, e)
      PROVE  PostsInv'
  <2>1. Quiet /\ HandInv'
    BY <1>0, <1>1 DEF PostDuplicate
  <2> QED BY <2>1, QuietKeeps DEF PostsInv
<1>2. ASSUME NEW name \in {"EVENT", "FILE"}, NEW e \in Events, PostLimited(name, e)
      PROVE  PostsInv'
  <2>1. Quiet /\ HandInv'
    BY <1>0, <1>2 DEF PostLimited, Refuse
  <2> QED BY <2>1, QuietKeeps DEF PostsInv
<1>3. ASSUME NEW name \in {"EVENT", "FILE"}, NEW e \in Events, PostGranted(name, e)
      PROVE  PostsInv'
  <2>1. CASE Unlimited
    <3>1. posts = <<>> /\ posts' = <<>> /\ window = 0
      BY <1>3, <2>1 DEF PostGranted, Unlimited, PostsInv, SteadyInv
    <3>2. HandInv'
      BY <1>0, <1>3, <2>1, <3>1, LimitedTypes DEF PostGranted, Unlimited, PostsInv, SteadyInv
    <3>3. SteadyInv' /\ PaidInv' /\ PostsBounded'
      BY <1>3, <2>1, <3>1 DEF PostGranted, Unlimited, PostsInv, SteadyInv, PaidInv, PostsBounded
    <3> QED BY <3>2, <3>3 DEF PostsInv
  <2>2. CASE Grant
    <3>1. Granted
      BY <1>3, <2>2 DEF PostGranted, Grant, Granted
    <3>2. pushed' # <<>> /\ Len(pushed') > 0 /\ pushed'[Len(pushed')] = now
      BY <3>1, LimitedTypes DEF Granted
    <3>3. HandInv'
      BY <1>0, <1>3, <2>2, <3>1, <3>2, LimitedTypes DEF PostGranted, Grant, Granted
    <3> QED BY <3>1, <3>3, GrantedKeeps DEF PostsInv
  <2> QED BY <1>3, <2>1, <2>2 DEF PostGranted
<1>4. CASE PostMalformed \/ BinaryUnsupported \/ AuthWithoutId
  <2>1. Quiet /\ HandInv'
    BY <1>0, <1>4 DEF PostMalformed, BinaryUnsupported, AuthWithoutId
  <2> QED BY <2>1, QuietKeeps DEF PostsInv
<1>5. ASSUME NEW data \in Contents, BinaryMismatch(data) \/ BinaryDuplicate(data)
      PROVE  PostsInv'
  <2>1. Quiet /\ HandInv'
    BY <1>0, <1>5 DEF BinaryMismatch, BinaryDuplicate, TakeBinary
  <2> QED BY <2>1, QuietKeeps DEF PostsInv
<1>6. ASSUME NEW data \in Contents, BinaryMatched(data)
      PROVE  PostsInv'
  <2>1. Quiet
    BY <1>0, <1>6 DEF BinaryMatched, TakeBinary
  <2>2. HandInv'
    BY <1>0, <1>6, LimitedTypes DEF BinaryMatched, TakeBinary, PostsInv, SteadyInv
  <2> QED BY <2>1, <2>2, QuietKeeps DEF PostsInv
<1>7. ASSUME NEW a \in Auths, process_auth(a)
      PROVE  PostsInv'
  <2>1. Quiet /\ HandInv'
    BY <1>0, <1>7 DEF process_auth
  <2> QED BY <2>1, QuietKeeps DEF PostsInv
<1> QED BY <1>1, <1>2, <1>3, <1>4, <1>5, <1>6, <1>7 DEF Message

\* The handler goes on: it posts, or uses its grant for nothing, or hands it
\* on to the announcement.
LEMMA HandlersKeep ==
  ASSUME Limited, PostsInv, Handler
  PROVE  PostsInv'
<1> USE DEF Finish, Continue, HandInv, InHand, Owed, options, limiterVars, upload
<1>0. HandInv
  BY DEF PostsInv
<1>1. CASE JudgeRefuses \/ WhitelistBlocks \/ PublishNothing \/ DeletionNothing \/ FileRefused
  <2>1. Quiet /\ HandInv'
    BY <1>0, <1>1 DEF Quiet, JudgeRefuses, WhitelistBlocks, PublishNothing, DeletionNothing,
                      FileRefused, FileEventAfterRefusal, Posting, Announcing
  <2> QED BY <2>1, QuietKeeps DEF PostsInv
<1>2. CASE JudgePasses \/ WhitelistPasses
  <2>1. cmd'.at = cmd.at /\ "at" \in DOMAIN cmd'
    BY <1>0, <1>2 DEF JudgePasses, WhitelistPasses
  <2>2. Quiet /\ HandInv'
    BY <1>0, <1>2, <2>1 DEF Quiet, JudgePasses, WhitelistPasses
  <2> QED BY <2>2, QuietKeeps DEF PostsInv
<1>3. CASE JudgeEphemeral \/ Publish \/ DeletionReplaces
  <2>1. Posted /\ HandInv'
    BY <1>0, <1>3 DEF Posted, JudgeEphemeral, Publish, DeletionReplaces, Posting
  <2> QED BY <2>1, PostedKeeps DEF PostsInv
<1>4. CASE FileContinue
  <2>1. Quiet /\ HandInv'
    BY <1>0, <1>4 DEF Quiet, FileContinue, Announcing
  <2> QED BY <2>1, QuietKeeps DEF PostsInv
<1>5. CASE Upload
  <2>1. Posted /\ HandInv'
    BY <1>0, <1>5 DEF Posted, Upload, FileEventAfterUpload
  <2> QED BY <2>1, PostedKeeps DEF PostsInv
<1>6. CASE UploadFails
  <2>1. Quiet /\ HandInv'
    BY <1>0, <1>6 DEF Quiet, UploadFails
  <2> QED BY <2>1, QuietKeeps DEF PostsInv
<1> QED BY <1>1, <1>2, <1>3, <1>4, <1>5, <1>6 DEF Handler

\* A connection gets at most limit + 1 events stored or published within a
\* window, for every window, limit and clock: the announced file in _file_event
\* is all it can save up.
THEOREM PostsAreBounded == Spec => []PostsBounded
<1>1. Init => PostsInv
  BY DEF Init, LimiterInit, PostsInv, HandInv, InHand, SteadyInv, PaidInv, PostsBounded
<1>2. Limited /\ PostsInv /\ [Next]_vars => PostsInv'
  <2> SUFFICES ASSUME Limited, PostsInv, [Next]_vars PROVE PostsInv'
    OBVIOUS
  <2>1. CASE Close \/ Others \/ UNCHANGED vars
    <3>1. Quiet /\ HandInv'
      BY <2>1 DEF Quiet, Close, Others, OthersJudged, OthersPost, vars, options, limiterVars,
                  upload, place, Owed, PostsInv, HandInv, InHand
    <3> QED BY <3>1, QuietKeeps DEF PostsInv
  <2> QED BY <2>1, MessagesKeep, HandlersKeep, TimeKeeps DEF Next
<1>3. Spec => []Limited
  BY SessionLimits, RateInvariant, BurstsAreBounded, PTL DEF Limited
<1>4. PostsInv => PostsBounded
  BY DEF PostsInv
<1> QED BY <1>1, <1>2, <1>3, <1>4, PTL DEF Spec

-----------------------------------------------------------------------------
(* Types.                                                                  *)

LEMMA CommandTypes ==
  ASSUME NEW name \in Commands, NEW e \in Events, NEW t \in BOOLEAN, now \in Nat
  PROVE  Cmd(name, e, t) \in Cmds /\ NoCmd \notin Cmds
  BY DEF Cmd, Cmds, NoCmd, Commands

LEMMA EventTypes ==
  ASSUME NEW e \in Events
  PROVE  /\ e.author \in Users /\ e.genuine \in BOOLEAN /\ e.work \in Nat
         /\ e.kind \in Kinds
  BY SessionAssumption DEF EventType

\* A step that touches only the message in hand keeps the types.
LEMMA StillTyped ==
  ASSUME TypeOK, LimiterTypeOK', rules' = rules, world' = world, upload' = upload,
         steady' = steady, posts' = posts,
         authent' \in BOOLEAN, auth_pubkey' \in Users \cup {None}, proved' \subseteq Users,
         replies' \in Nat, due' \in BOOLEAN, taken' \in 0..MaxCommands,
         \/ pc' \in {"idle", "closed"} /\ cmd' = NoCmd
         \/ pc' \in {"judge", "whitelist", "verified", "upload"} /\ cmd' \in Cmds
  PROVE  TypeOK'
<1>1. (IF pc \in {"idle", "closed"} THEN cmd = NoCmd ELSE cmd \in Cmds)'
  OBVIOUS
<1>2. pc' \in {"idle", "judge", "whitelist", "verified", "upload", "closed"}
  OBVIOUS
<1>3. /\ opt' \in Options /\ home' \subseteq Users /\ welcome' \subseteq welcomed'
      /\ welcomed' \subseteq Users /\ stored' \subseteq Events
      /\ fileEvent' \in Announcements \cup {None} /\ offered' \in Events \cup {None}
      /\ steady' \in BOOLEAN /\ posts' \in Seq(Nat)
  BY DEF TypeOK, rules, world, upload
<1> QED BY <1>1, <1>2, <1>3 DEF TypeOK

\* The types of a message's handlers: the first step.
LEMMA MessageTypes ==
  ASSUME TypeOK, LimiterTypeOK', Message
  PROVE  TypeOK'
<1>1. now \in Nat /\ MaxCommands \in Nat /\ taken \in 0..MaxCommands
  BY SessionAssumption DEF TypeOK, LimiterTypeOK
<1>2. ASSUME NEW asks \in BOOLEAN, Take(asks)
      PROVE  /\ pc = "idle" /\ cmd = NoCmd
             /\ due' \in BOOLEAN /\ taken' \in 0..MaxCommands
  BY <1>1, <1>2 DEF Take, TypeOK
<1>3. /\ authent \in BOOLEAN /\ auth_pubkey \in Users \cup {None} /\ proved \subseteq Users
  BY DEF TypeOK
<1>4. ASSUME NEW name \in {"EVENT", "FILE"}, NEW e \in Events,
             PostDuplicate(name, e) \/ PostLimited(name, e)
      PROVE  TypeOK'
  <2>1. /\ Take(TRUE) /\ Return
        /\ UNCHANGED <<rules, world, client, upload, steady, posts>>
    BY <1>4 DEF PostDuplicate, PostLimited
  <2> QED BY <1>2, <1>3, <2>1, StillTyped DEF Return, client
<1>5. ASSUME NEW name \in {"EVENT", "FILE"}, NEW e \in Events, PostGranted(name, e)
      PROVE  TypeOK'
  <2>1. Cmd(name, e, FALSE) \in Cmds
    BY <1>1, CommandTypes DEF Commands
  <2>2. \/ replies' = 1 /\ UNCHANGED <<pc, cmd>>
        \/ replies' = 0 /\ pc' = "judge" /\ cmd' = Cmd(name, e, FALSE)
    BY <1>5 DEF PostGranted, Return, Continue
  <2>3. Take(TRUE) /\ UNCHANGED <<rules, world, client, upload, steady, posts>>
    BY <1>5 DEF PostGranted
  <2>4. /\ replies' \in Nat
        /\ \/ pc' \in {"idle", "closed"} /\ cmd' = NoCmd
           \/ pc' \in {"judge", "whitelist", "verified", "upload"} /\ cmd' \in Cmds
    <3>1. pc = "idle" /\ cmd = NoCmd
      BY <1>2, <2>3
    <3>2. CASE replies' = 1 /\ UNCHANGED <<pc, cmd>>
      BY <3>1, <3>2
    <3>3. CASE replies' = 0 /\ pc' = "judge" /\ cmd' = Cmd(name, e, FALSE)
      BY <2>1, <3>3
    <3> QED BY <2>2, <3>2, <3>3
  <2> QED BY <1>2, <1>3, <2>3, <2>4, StillTyped DEF client
<1>6. CASE PostMalformed \/ BinaryUnsupported \/ AuthWithoutId
  <2>1. CASE PostMalformed
    BY <1>2, <1>3, <2>1, StillTyped DEF PostMalformed, Return, client
  <2>2. CASE BinaryUnsupported
    BY <1>2, <1>3, <2>2, StillTyped DEF BinaryUnsupported, client
  <2>3. CASE AuthWithoutId
    BY <1>2, <1>3, <2>3, StillTyped DEF AuthWithoutId, client
  <2> QED BY <1>6, <2>1, <2>2, <2>3
<1>7. ASSUME NEW data \in Contents, BinaryMismatch(data) \/ BinaryDuplicate(data)
      PROVE  TypeOK'
  <2>1. /\ Take(TRUE) /\ Return
        /\ UNCHANGED <<rules, world, client, upload, steady, posts>>
    BY <1>7 DEF BinaryMismatch, BinaryDuplicate, TakeBinary
  <2> QED BY <1>2, <1>3, <2>1, StillTyped DEF Return, client
<1>8. ASSUME NEW data \in Contents, BinaryMatched(data)
      PROVE  TypeOK'
  <2>1. fileEvent.ev \in Events /\ fileEvent.trusted \in BOOLEAN
    BY <1>8 DEF BinaryMatched, TakeBinary, Announcements, TypeOK
  <2>2. Cmd("binary", fileEvent.ev, fileEvent.trusted) \in Cmds
    <3>1. "binary" \in Commands
      BY DEF Commands
    <3> QED BY <1>1, <2>1, <3>1, CommandTypes
  <2> QED BY <1>2, <1>3, <1>8, <2>2, StillTyped DEF BinaryMatched, TakeBinary, Continue, client
<1>9. ASSUME NEW a \in Auths, process_auth(a) PROVE TypeOK'
  <2>1. a.author \in Users
    BY SessionAssumption DEF AuthType
  <2> QED BY <1>2, <1>3, <1>9, <2>1, StillTyped DEF process_auth, KeyAfterRefusal, Return
<1> QED BY <1>4, <1>5, <1>6, <1>7, <1>8, <1>9 DEF Message

\* The types of a message's handlers: the steps that follow.
LEMMA HandlerTypes ==
  ASSUME TypeOK, LimiterTypeOK', Handler
  PROVE  TypeOK'
<1> USE DEF TypeOK, Finish, Continue, limiterVars, rules, world, client, upload
<1>1. cmd \in Cmds
  BY DEF Handler, JudgeRefuses, JudgeEphemeral, JudgePasses, WhitelistBlocks,
         WhitelistPasses, Publish, PublishNothing, DeletionReplaces,
         DeletionNothing, FileRefused, FileContinue, Upload, UploadFails, Posting, Announcing
<1>2. /\ cmd.ev \in Events /\ cmd.trusted \in BOOLEAN /\ cmd.at \in Nat
      /\ cmd.ev.author \in Users
  BY <1>1, EventTypes DEF Cmds
<1>3. CASE JudgeRefuses \/ WhitelistBlocks \/ PublishNothing \/ DeletionNothing \/ FileRefused
  BY <1>3 DEF JudgeRefuses, WhitelistBlocks, PublishNothing, DeletionNothing, FileRefused,
              FileEventAfterRefusal
<1>4. CASE JudgePasses \/ WhitelistPasses
  <2>1. Trusted \in BOOLEAN
    BY DEF Trusted
  <2>2. [cmd EXCEPT !.trusted = Trusted] \in Cmds
    BY <1>1, <2>1 DEF Cmds
  <2> QED BY <1>1, <1>4, <2>2 DEF JudgePasses, WhitelistPasses
<1>5. CASE JudgeEphemeral \/ Publish \/ DeletionReplaces \/ Upload
  <2>1. posts' \in Seq(Nat)
    <3>1. Post /\ posts \in Seq(Nat)
      BY <1>5 DEF JudgeEphemeral, Publish, DeletionReplaces, Upload
    <3> QED BY <1>2, <3>1 DEF Post
  <2>2. AuthorsOf(cmd.ev) \subseteq Users
    BY <1>2 DEF AuthorsOf
  <2> QED
    BY <1>2, <1>5, <2>1, <2>2
    DEF JudgeEphemeral, Publish, DeletionReplaces, Upload, FileEventAfterUpload
<1>6. CASE FileContinue
  BY <1>2, <1>6 DEF FileContinue, Announcements
<1>7. CASE UploadFails
  BY <1>7 DEF UploadFails
<1> QED BY <1>3, <1>4, <1>5, <1>6, <1>7 DEF Handler

\* Peer's fields and the locals of its handlers have their types.
THEOREM TypesAreKept == Spec => []TypeOK
<1>1. Init => TypeOK
  <2> SUFFICES ASSUME Init PROVE TypeOK
    OBVIOUS
  <2>1. LimiterTypeOK
    BY RateLimiterAssumption DEF Init, LimiterInit, LimiterTypeOK
  <2>2. 0 \in 0..MaxCommands /\ taken = 0 /\ posts \in Seq(Nat)
    BY SessionAssumption DEF Init
  <2> QED BY <2>1, <2>2 DEF Init, TypeOK
<1>2. TypeOK /\ RateInv' /\ [Next]_vars => TypeOK'
  <2> SUFFICES ASSUME TypeOK, RateInv', [Next]_vars PROVE TypeOK'
    OBVIOUS
  <2>0. LimiterTypeOK'
    BY DEF RateInv
  <2>1. CASE Close
    BY <2>0, <2>1 DEF Close, TypeOK, rules, world, client, upload
  <2>2. CASE Time
    BY <2>0, <2>2 DEF Time, TypeOK, rules, world, client, upload, place
  <2>3. CASE Others
    BY <2>0, <2>3, SessionAssumption
    DEF Others, OthersJudged, OthersPost, TypeOK, rules, client, upload, place
  <2>4. CASE UNCHANGED vars
    BY <2>0, <2>4 DEF vars, TypeOK, rules, world, client, upload, place
  <2> QED BY <2>0, <2>1, <2>2, <2>3, <2>4, MessageTypes, HandlerTypes DEF Next
<1> QED BY <1>1, <1>2, SessionLimits, RateInvariant, PTL DEF Spec

-----------------------------------------------------------------------------
(* What a session stores and publishes was let in.                         *)

\* What on_event_generic has found out about an event that it hands on ...
Cleared(e) ==
  e.genuine /\ e.work >= opt.pow /\ ~opt.read_only /\ e.kind # "Ephemeral"

\* ... and about who answers for it: facts that stay.
Earned(trusted) == trusted => proved \cap home # {}

Backed(e, trusted) ==
  opt.whitelisting =>
    \/ trusted \/ e.author \in welcomed
    \/ e.kind = "Message" /\ e.to \in home

JudgedInv ==
  /\ authent => auth_pubkey \in proved
  /\ pc \in InHand => cmd.name \in {"EVENT", "FILE"}
  /\ pc = "judge" => cmd.ev.work >= opt.pow /\ ~cmd.trusted
  /\ pc \in {"whitelist", "verified"} => Cleared(cmd.ev) /\ Earned(cmd.trusted)
  /\ pc = "verified" => Backed(cmd.ev, cmd.trusted)
  /\ fileEvent # None =>
       /\ offered = fileEvent.ev
       /\ Cleared(fileEvent.ev) /\ Earned(fileEvent.trusted)
       /\ Backed(fileEvent.ev, fileEvent.trusted)
  /\ pc = "upload" =>
       /\ fileEvent # None /\ cmd.name = "binary"
       /\ cmd.ev = fileEvent.ev /\ cmd.trusted = fileEvent.trusted

\* Keys, home users and invitations are not taken back: welcomed keeps them.
Remembered ==
  /\ opt' = opt
  /\ proved \subseteq proved' /\ home \subseteq home' /\ welcomed \subseteq welcomed'

LEMMA StepsRemember ==
  ASSUME TypeOK, [Next]_vars
  PROVE  Remembered
<1> USE DEF Remembered, rules, world, client
<1>1. CASE Message
  BY <1>1 DEF Message, PostMalformed, PostDuplicate, PostLimited, PostGranted, BinaryUnsupported,
              BinaryMismatch, BinaryDuplicate, BinaryMatched, process_auth, AuthWithoutId
<1>2. CASE Handler
  BY <1>2 DEF Handler, JudgeRefuses, JudgeEphemeral, JudgePasses, WhitelistBlocks,
              WhitelistPasses, Publish, PublishNothing, DeletionReplaces,
              DeletionNothing, FileRefused, FileContinue, Upload, UploadFails, Finish
<1>3. CASE Close \/ Time \/ UNCHANGED vars
  BY <1>3 DEF Close, Time, vars
<1>4. CASE Others
  BY <1>4 DEF Others, OthersJudged, OthersPost
<1> QED BY <1>1, <1>2, <1>3, <1>4 DEF Next

\* What was found out stays true.
LEMMA FactsStay ==
  ASSUME Remembered, NEW e, NEW t
  PROVE  /\ Cleared(e) => Cleared(e)'
         /\ Earned(t) => Earned(t)'
         /\ Backed(e, t) => Backed(e, t)'
  BY DEF Remembered, Cleared, Earned, Backed

\* The steps that leave the announcement and the message in hand alone.
LEMMA IdleKeeps ==
  ASSUME JudgedInv, Remembered, UNCHANGED <<pc, cmd, fileEvent, offered>>,
         authent' => auth_pubkey' \in proved'
  PROVE  JudgedInv'
<1>1. ASSUME NEW e, NEW t
      PROVE  /\ Cleared(e) => Cleared(e)'
             /\ Earned(t) => Earned(t)'
             /\ Backed(e, t) => Backed(e, t)'
  BY FactsStay
<1>2. Cleared(cmd.ev) => Cleared(cmd.ev)'
  BY <1>1
<1>3. Earned(cmd.trusted) => Earned(cmd.trusted)'
  BY <1>1
<1>4. Backed(cmd.ev, cmd.trusted) => Backed(cmd.ev, cmd.trusted)'
  BY <1>1
<1>5. pc' = pc /\ cmd' = cmd /\ fileEvent' = fileEvent /\ offered' = offered /\ opt' = opt
  BY DEF Remembered
<1>6. /\ (authent => auth_pubkey \in proved)'
      /\ (pc \in InHand => cmd.name \in {"EVENT", "FILE"})'
      /\ (pc = "judge" => cmd.ev.work >= opt.pow /\ ~cmd.trusted)'
      /\ (pc = "upload" =>
            /\ fileEvent # None /\ cmd.name = "binary"
            /\ cmd.ev = fileEvent.ev /\ cmd.trusted = fileEvent.trusted)'
  BY <1>5 DEF JudgedInv
<1>7. (pc \in {"whitelist", "verified"} => Cleared(cmd.ev) /\ Earned(cmd.trusted))'
  BY <1>2, <1>3, <1>5 DEF JudgedInv
<1>8. (pc = "verified" => Backed(cmd.ev, cmd.trusted))'
  BY <1>4, <1>5 DEF JudgedInv
<1>9. (fileEvent # None =>
         /\ offered = fileEvent.ev
         /\ Cleared(fileEvent.ev) /\ Earned(fileEvent.trusted)
         /\ Backed(fileEvent.ev, fileEvent.trusted))'
  BY <1>1, <1>5 DEF JudgedInv
<1> QED BY <1>6, <1>7, <1>8, <1>9 DEF JudgedInv

\* A message is taken or answered.
LEMMA MessagesJudge ==
  ASSUME TypeOK, JudgedInv, Remembered, Message
  PROVE  JudgedInv'
<1> USE DEF Take, Return, Continue, client, upload
<1>1. authent => auth_pubkey \in proved
  BY DEF JudgedInv
<1>2. ASSUME NEW name \in {"EVENT", "FILE"}, NEW e \in Events,
             PostDuplicate(name, e) \/ PostLimited(name, e)
      PROVE  JudgedInv'
  BY <1>1, <1>2, IdleKeeps DEF PostDuplicate, PostLimited
<1>3. ASSUME NEW name \in {"EVENT", "FILE"}, NEW e \in Events, PostGranted(name, e)
      PROVE  JudgedInv'
  <2>1. CASE e.work < opt.pow
    BY <1>1, <1>3, <2>1, IdleKeeps DEF PostGranted
  <2>2. CASE ~(e.work < opt.pow)
    <3>1. /\ pc' = "judge" /\ cmd' = Cmd(name, e, FALSE)
          /\ UNCHANGED <<client, upload>> /\ opt' = opt
      BY <1>3, <2>2 DEF PostGranted, rules
    <3>2. e.work >= opt.pow
      <4>1. e.work \in Nat /\ opt.pow \in Nat
        BY EventTypes, SessionAssumption DEF TypeOK, OptionType
      <4> QED BY <2>2, <4>1
    <3>3. /\ cmd'.name = name /\ cmd'.ev = e /\ ~cmd'.trusted
      BY <3>1 DEF Cmd
    <3>4. fileEvent # None =>
            /\ Cleared(fileEvent.ev)' /\ Earned(fileEvent.trusted)'
            /\ Backed(fileEvent.ev, fileEvent.trusted)'
      <4>1. /\ Cleared(fileEvent.ev) => Cleared(fileEvent.ev)'
            /\ Earned(fileEvent.trusted) => Earned(fileEvent.trusted)'
            /\ Backed(fileEvent.ev, fileEvent.trusted)
                 => Backed(fileEvent.ev, fileEvent.trusted)'
        BY <3>1, FactsStay
      <4> QED BY <4>1 DEF JudgedInv
    <3> QED BY <1>1, <3>1, <3>2, <3>3, <3>4 DEF JudgedInv, InHand
  <2> QED BY <2>1, <2>2
<1>4. CASE PostMalformed \/ BinaryUnsupported \/ AuthWithoutId
  BY <1>1, <1>4, IdleKeeps DEF PostMalformed, BinaryUnsupported, AuthWithoutId
<1>5. ASSUME NEW data \in Contents, BinaryMismatch(data) \/ BinaryDuplicate(data)
      PROVE  JudgedInv'
  BY <1>1, <1>5, IdleKeeps DEF BinaryMismatch, BinaryDuplicate, TakeBinary
<1>6. ASSUME NEW data \in Contents, BinaryMatched(data)
      PROVE  JudgedInv'
  <2>1. /\ pc' = "upload" /\ cmd' = Cmd("binary", fileEvent.ev, fileEvent.trusted)
        /\ UNCHANGED <<client, upload>> /\ fileEvent # None
    BY <1>6 DEF BinaryMatched, TakeBinary
  <2>2. /\ Cleared(fileEvent.ev)' /\ Earned(fileEvent.trusted)'
        /\ Backed(fileEvent.ev, fileEvent.trusted)'
    <3>1. /\ Cleared(fileEvent.ev) => Cleared(fileEvent.ev)'
          /\ Earned(fileEvent.trusted) => Earned(fileEvent.trusted)'
          /\ Backed(fileEvent.ev, fileEvent.trusted)
               => Backed(fileEvent.ev, fileEvent.trusted)'
      BY <2>1, FactsStay
    <3> QED BY <2>1, <3>1 DEF JudgedInv
  <2> QED BY <1>1, <2>1, <2>2 DEF JudgedInv, InHand, Cmd
<1>7. ASSUME NEW a \in Auths, process_auth(a)
      PROVE  JudgedInv'
  BY <1>1, <1>7, IdleKeeps DEF process_auth, KeyAfterRefusal
<1> QED BY <1>2, <1>3, <1>4, <1>5, <1>6, <1>7 DEF Message

\* The handler goes on, hands the event to on_file, or ends.
LEMMA HandlersJudge ==
  ASSUME TypeOK, JudgedInv, Remembered, Handler
  PROVE  JudgedInv'
<1> USE DEF Continue, client, upload
<1>1. authent => auth_pubkey \in proved
  BY DEF JudgedInv
<1>2. /\ fileEvent # None /\ UNCHANGED fileEvent =>
           /\ Cleared(fileEvent.ev)' /\ Earned(fileEvent.trusted)'
           /\ Backed(fileEvent.ev, fileEvent.trusted)'
  <2> SUFFICES ASSUME fileEvent # None, UNCHANGED fileEvent
               PROVE  /\ Cleared(fileEvent.ev)' /\ Earned(fileEvent.trusted)'
                      /\ Backed(fileEvent.ev, fileEvent.trusted)'
    OBVIOUS
  <2>1. /\ Cleared(fileEvent.ev) => Cleared(fileEvent.ev)'
        /\ Earned(fileEvent.trusted) => Earned(fileEvent.trusted)'
        /\ Backed(fileEvent.ev, fileEvent.trusted)
             => Backed(fileEvent.ev, fileEvent.trusted)'
    BY FactsStay
  <2> QED BY <2>1 DEF JudgedInv
<1>3. CASE \/ JudgeRefuses \/ JudgeEphemeral \/ WhitelistBlocks \/ Publish \/ PublishNothing
           \/ DeletionReplaces \/ DeletionNothing \/ FileRefused
  <2>1. pc' = "idle" /\ UNCHANGED <<client, upload>>
    BY <1>3 DEF JudgeRefuses, JudgeEphemeral, WhitelistBlocks, Publish, PublishNothing,
                DeletionReplaces, DeletionNothing, FileRefused, FileEventAfterRefusal, Finish
  <2> QED BY <1>1, <1>2, <2>1 DEF JudgedInv, InHand
<1>4. CASE JudgePasses
  <2>1. /\ pc = "judge" /\ pc' = "whitelist" /\ UNCHANGED <<client, upload, opt, home>>
        /\ ~Unacceptable /\ cmd.ev.kind # "Ephemeral"
        /\ cmd' = [cmd EXCEPT !.trusted = Trusted]
    BY <1>4 DEF JudgePasses, rules, world
  <2>2. cmd \in Cmds
    BY <2>1 DEF TypeOK
  <2>3. cmd'.ev = cmd.ev /\ cmd'.name = cmd.name /\ cmd'.trusted = Trusted
    BY <2>1, <2>2 DEF Cmds
  <2>4. Cleared(cmd.ev)'
    BY <2>1, <2>3 DEF Cleared, Unacceptable, JudgedInv
  <2>5. Earned(cmd.trusted)'
    BY <1>1, <2>1, <2>3 DEF Earned, Trusted
  <2>6. cmd'.name \in {"EVENT", "FILE"}
    BY <2>1, <2>3 DEF JudgedInv, InHand
  <2> QED BY <1>1, <1>2, <2>1, <2>4, <2>5, <2>6 DEF JudgedInv
<1>5. CASE WhitelistPasses
  <2>1. /\ pc = "whitelist" /\ pc' = "verified" /\ cmd' = cmd
        /\ UNCHANGED <<client, upload, opt, home, welcome, welcomed>> /\ Admitted
    BY <1>5 DEF WhitelistPasses, rules, world
  <2>2. welcome \subseteq welcomed
    BY DEF TypeOK
  <2>3. Backed(cmd.ev, cmd.trusted)'
    BY <2>1, <2>2 DEF Backed, Admitted, Invited
  <2>4. Cleared(cmd.ev)' /\ Earned(cmd.trusted)' /\ cmd'.name \in {"EVENT", "FILE"}
    BY <2>1 DEF JudgedInv, Cleared, Earned, InHand
  <2> QED BY <1>1, <1>2, <2>1, <2>3, <2>4 DEF JudgedInv
<1>6. CASE FileContinue
  <2>1. /\ pc = "verified" /\ pc' = "idle"
        /\ fileEvent' = [ev |-> cmd.ev, trusted |-> cmd.trusted] /\ offered' = cmd.ev
        /\ UNCHANGED <<client, opt, home, welcomed>>
    BY <1>6 DEF FileContinue, Announcing, Finish, rules, world
  <2>2. /\ fileEvent'.ev = cmd.ev /\ fileEvent'.trusted = cmd.trusted
    BY <2>1
  <2>3. /\ Cleared(fileEvent.ev)' /\ Earned(fileEvent.trusted)'
        /\ Backed(fileEvent.ev, fileEvent.trusted)'
    BY <2>1, <2>2 DEF JudgedInv, Cleared, Earned, Backed
  <2> QED BY <1>1, <2>1, <2>2, <2>3 DEF JudgedInv, InHand
<1>7. CASE Upload
  <2>1. pc' = "idle" /\ UNCHANGED client /\ fileEvent' = None
    BY <1>7 DEF Upload, Finish, FileEventAfterUpload
  <2> QED BY <1>1, <2>1 DEF JudgedInv, InHand
<1>8. CASE UploadFails
  <2>1. pc' = "closed" /\ UNCHANGED client /\ fileEvent' = None
    BY <1>8 DEF UploadFails
  <2> QED BY <1>1, <2>1 DEF JudgedInv, InHand
<1> QED BY <1>3, <1>4, <1>5, <1>6, <1>7, <1>8 DEF Handler

\* What on_event_generic has found out about the event in hand and about the
\* announced one stays true: JudgedInv is an invariant.
THEOREM JudgementsHold == Spec => []JudgedInv
<1>1. Init => JudgedInv
  BY DEF Init, JudgedInv, InHand
<1>2. TypeOK /\ JudgedInv /\ [Next]_vars => JudgedInv'
  <2> SUFFICES ASSUME TypeOK, JudgedInv, [Next]_vars PROVE JudgedInv'
    OBVIOUS
  <2>1. Remembered
    BY StepsRemember
  <2>2. CASE Close
    BY <2>1, <2>2 DEF Close, client, upload, JudgedInv, InHand, Cleared, Earned, Backed, Remembered
  <2>3. CASE Time \/ Others \/ UNCHANGED vars
    <3>1. UNCHANGED <<pc, cmd, fileEvent, offered, authent, auth_pubkey, proved>>
      BY <2>3 DEF Time, Others, OthersJudged, OthersPost, vars, client, upload, place
    <3> QED BY <2>1, <3>1, IdleKeeps DEF JudgedInv
  <2> QED BY <2>1, <2>2, <2>3, MessagesJudge, HandlersJudge DEF Next
<1> QED BY <1>1, <1>2, TypesAreKept, PTL DEF Spec

\* An event that a connection gets stored or published is genuine, worth its
\* work and let in by a rule, for all keys, options and orders of events.
THEOREM PostsAreAdmitted == Spec => OnlyAdmitted
<1>1. TypeOK /\ JudgedInv /\ [Next]_vars =>
        [Posts =>
           /\ cmd.ev.genuine /\ cmd.ev.work >= opt.pow
           /\ \/ cmd.ev.kind = "Ephemeral"
              \/ /\ ~opt.read_only
                 /\ opt.whitelisting =>
                      \/ cmd.trusted \/ cmd.ev.author \in welcomed
                      \/ cmd.ev.kind = "Message" /\ cmd.ev.to \in home]_vars
  <2> SUFFICES ASSUME TypeOK, JudgedInv, Posts
               PROVE  /\ cmd.ev.genuine /\ cmd.ev.work >= opt.pow
                      /\ \/ cmd.ev.kind = "Ephemeral"
                         \/ /\ ~opt.read_only
                            /\ opt.whitelisting =>
                                 \/ cmd.trusted \/ cmd.ev.author \in welcomed
                                 \/ cmd.ev.kind = "Message" /\ cmd.ev.to \in home
    OBVIOUS
  <2>1. CASE JudgeEphemeral
    BY <2>1 DEF JudgeEphemeral, Unacceptable, JudgedInv
  <2>2. CASE Publish \/ DeletionReplaces
    BY <2>2 DEF Publish, DeletionReplaces, Posting, JudgedInv, Cleared, Backed
  <2>3. CASE Upload
    BY <2>3 DEF Upload, JudgedInv, Cleared, Backed
  <2> QED BY <2>1, <2>2, <2>3 DEF Posts
<1> QED BY <1>1, TypesAreKept, JudgementsHold, PTL DEF Spec, OnlyAdmitted

\* on_event_generic trusts only events of clients that have proved a home user's
\* key, for all keys and challenges.
THEOREM TrustNeedsProof == Spec => TrustIsProved
<1>1. TypeOK /\ JudgedInv /\ [Next]_vars =>
        [Posts /\ cmd.trusted => proved \cap home # {}]_vars
  <2> SUFFICES ASSUME TypeOK, JudgedInv, Posts, cmd.trusted
               PROVE  proved \cap home # {}
    OBVIOUS
  <2>1. CASE JudgeEphemeral
    BY <2>1 DEF JudgeEphemeral, JudgedInv
  <2>2. CASE Publish \/ DeletionReplaces
    BY <2>2 DEF Publish, DeletionReplaces, Posting, JudgedInv, Earned
  <2>3. CASE Upload
    BY <2>3 DEF Upload, JudgedInv, Earned
  <2> QED BY <2>1, <2>2, <2>3 DEF Posts
<1> QED BY <1>1, TypesAreKept, JudgementsHold, PTL DEF Spec, TrustIsProved

\* A binary message stores what was announced last, for all events.
THEOREM UploadsAreAnnounced == Spec => UploadIsTheAnnounced
<1>1. JudgedInv /\ [Next]_vars => [Posts /\ cmd.name = "binary" => cmd.ev = offered]_vars
  <2> SUFFICES ASSUME JudgedInv, Posts, cmd.name = "binary"
               PROVE  cmd.ev = offered
    OBVIOUS
  <2>1. ~(pc \in InHand)
    BY DEF JudgedInv
  <2>2. Upload
    BY <2>1 DEF Posts, Publish, DeletionReplaces, JudgeEphemeral, Posting, InHand
  <2> QED BY <2>2 DEF Upload, JudgedInv
<1> QED BY <1>1, JudgementsHold, PTL DEF Spec, UploadIsTheAnnounced
-----------------------------------------------------------------------------
(* One OK for each message.                                                *)

\* A handler that goes on owes an OK and has sent none.
AnswerInv ==
  /\ pc \in {"idle", "closed"} => replies = IF due THEN 1 ELSE 0
  /\ pc \notin {"idle", "closed"} => due /\ replies = 0

LEMMA MessagesAnswer ==
  ASSUME AnswerInv, Message
  PROVE  AnswerInv'
<1>1. CASE PostMalformed \/ BinaryUnsupported \/ AuthWithoutId
  BY <1>1 DEF PostMalformed, BinaryUnsupported, AuthWithoutId, Take, Return, AnswerInv
<1>2. ASSUME NEW name \in {"EVENT", "FILE"}, NEW e \in Events,
             PostDuplicate(name, e) \/ PostLimited(name, e) \/ PostGranted(name, e)
      PROVE  AnswerInv'
  BY <1>2 DEF PostDuplicate, PostLimited, PostGranted, Take, Return, Continue, AnswerInv
<1>3. ASSUME NEW data \in Contents,
             BinaryMismatch(data) \/ BinaryDuplicate(data) \/ BinaryMatched(data)
      PROVE  AnswerInv'
  BY <1>3 DEF BinaryMismatch, BinaryDuplicate, BinaryMatched, TakeBinary, Take, Return,
              Continue, AnswerInv
<1>4. ASSUME NEW a \in Auths, process_auth(a) PROVE AnswerInv'
  BY <1>4 DEF process_auth, Take, Return, AnswerInv
<1> QED BY <1>1, <1>2, <1>3, <1>4 DEF Message

LEMMA HandlersAnswer ==
  ASSUME AnswerInv, Handler
  PROVE  AnswerInv'
<1>1. CASE JudgePasses \/ WhitelistPasses
  BY <1>1 DEF JudgePasses, WhitelistPasses, Continue, AnswerInv
<1>2. CASE UploadFails
  BY <1>2 DEF UploadFails, Continue, AnswerInv
<1>3. CASE ~(JudgePasses \/ WhitelistPasses \/ UploadFails)
  <2>1. pc \in {"judge", "whitelist", "verified", "upload"} /\ Finish
    BY <1>3 DEF Handler, JudgeRefuses, JudgeEphemeral, WhitelistBlocks, Publish,
                PublishNothing, DeletionReplaces, DeletionNothing, FileRefused,
                FileContinue, Upload, Posting, Announcing
  <2> QED BY <2>1 DEF Finish, Continue, AnswerInv
<1> QED BY <1>1, <1>2, <1>3

\* Every message that asks for an OK gets exactly one when its handler ends, for
\* all events, options and orders of messages.
THEOREM AnswersAreSingle == Spec => []OneAnswer
<1>1. Init => AnswerInv
  BY DEF Init, AnswerInv
<1>2. AnswerInv => OneAnswer
  BY DEF AnswerInv, OneAnswer
<1>3. AnswerInv /\ [Next]_vars => AnswerInv'
  <2> SUFFICES ASSUME AnswerInv, [Next]_vars PROVE AnswerInv'
    OBVIOUS
  <2>1. CASE Close
    BY <2>1 DEF Close, AnswerInv
  <2>2. CASE Time \/ Others \/ UNCHANGED vars
    <3>1. UNCHANGED place
      BY <2>2 DEF Time, Others, OthersJudged, OthersPost, vars
    <3> QED BY <3>1 DEF place, AnswerInv
  <2> QED BY <2>1, <2>2, MessagesAnswer, HandlersAnswer DEF Next
<1> QED BY <1>1, <1>2, <1>3, PTL DEF Spec
=============================================================================
