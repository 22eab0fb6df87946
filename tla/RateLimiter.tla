----------------------------- MODULE RateLimiter -----------------------------
(***************************************************************************)
(* The rate limiter of one connection: RateLimiter::test_and_add, called   *)
(* by on_event_generic for every event it has parsed and does not find     *)
(* stored.  The queue _q holds pushed[popped + 1 .. Len(pushed)]: pushed   *)
(* is the history of granted calls, popped how many the queue has given    *)
(* up.  The times are readings of the system clock, which may be set back. *)
(***************************************************************************)
EXTENDS Integers, Sequences

CONSTANTS Windows,   \* configured window sizes, in ticks of the clock
          Limits,    \* configured limits
          LastTime,  \* bound on the clock
          MaxCalls   \* bound on granted calls

ASSUME RateLimiterAssumption ==
  Windows \subseteq Nat /\ Limits \subseteq Nat /\ LastTime \in Nat

VARIABLES
  window,  \* _window_size; 0 turns the limiter off
  limit,   \* _window_limit
  now,     \* what the system clock reads
  pushed,  \* granted calls, in order
  popped   \* how many of them have left the queue

options == <<window, limit>>
limiterVars == <<options, now, pushed, popped>>

LimiterTypeOK ==
  /\ window \in Windows /\ limit \in Limits
  /\ now \in Nat
  /\ pushed \in Seq(Nat)
  /\ popped \in 0..Len(pushed)

LimiterInit ==
  /\ window \in Windows /\ limit \in Limits
  /\ now = 0
  /\ pushed = <<>> /\ popped = 0

\* Time passes, or somebody sets the clock forward or back.
Clock ==
  /\ now' \in 0..LastTime /\ now' # now
  /\ UNCHANGED <<options, pushed, popped>>

\* Without a window every call is granted and none is remembered.
Unlimited ==
  /\ window = 0
  /\ UNCHANGED limiterVars

\* An entry that a call at this moment drops from the front of the queue.
TooOld(t) == t < now - window

\* Faulty variant: nothing is popped.
PopsTo_Nothing(h) == h = popped

\* The loop that pops the queue stops when h entries are gone.
PopsTo(h) ==
  /\ h \in popped..Len(pushed)
  /\ \A i \in (popped + 1)..h : TooOld(pushed[i])
  /\ h < Len(pushed) => ~TooOld(pushed[h + 1])

Full(h) == Len(pushed) - h >= limit

Grant ==
  /\ window # 0 /\ Len(pushed) < MaxCalls
  /\ \E h \in 0..Len(pushed) : PopsTo(h) /\ ~Full(h) /\ popped' = h
  /\ pushed' = Append(pushed, now)
  /\ UNCHANGED <<options, now>>

Refuse ==
  /\ window # 0
  /\ \E h \in 0..Len(pushed) : PopsTo(h) /\ Full(h) /\ popped' = h
  /\ UNCHANGED <<options, now, pushed>>

LimiterNext == Clock \/ Unlimited \/ Grant \/ Refuse

LimiterSpec == LimiterInit /\ [][LimiterNext]_limiterVars

-----------------------------------------------------------------------------
(* What the limiter is for.                                                *)

\* Two grants that are limit apart lie more than a window apart, whatever the
\* calls between them, unless the clock was set back between them:
\* test_and_add lets through a burst of limit events and then one for each
\* that leaves the window.
BurstBounded ==
  \A i, k \in 1..Len(pushed) :
    (/\ k = i + limit
     /\ \A j \in i..k : pushed[j] <= pushed[k])
    => pushed[k] - pushed[i] > window

\* At any moment test_and_add refuses only if the limit is spent in the window:
\* the limit-th grant counted from the last one is not older than the window.
RefusedWhenSpent ==
  \A h \in 0..Len(pushed) : PopsTo(h) /\ Full(h) =>
    /\ Len(pushed) >= limit
    /\ limit > 0 => pushed[Len(pushed) - limit + 1] >= now - window
=============================================================================
