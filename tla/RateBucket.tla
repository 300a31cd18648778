----------------------------- MODULE RateBucket -----------------------------
(***************************************************************************)
(* The three ways in which the hub's edge limits what a peer may do        *)
(* (crates/clipmesh-hub-edge/src/lib.rs): a bucket for every peer that     *)
(* keeps the part of a token earned so far (RateBucket, for connections    *)
(* and for HTTP requests), and two windows for every session that drop it  *)
(* (consume_message_token, for messages and for the publishes among them). *)
(*                                                                         *)
(* A request carries the time that its worker read before it asked the     *)
(* Tailscale daemon and waited for the request: it may be older than one   *)
(* that a request before it carried, also when no clock was set back.      *)
(*                                                                         *)
(* Rates are given as the time in which a token is earned.  A refill is    *)
(* computed in 64 bits and cast to 32: Word stands for 2^32.               *)
(***************************************************************************)
EXTENDS Integers

CONSTANTS
  Interval,      \* the time in which a bucket or window earns a token
  Burst,         \* the tokens it holds at most
  Word,          \* the values of a u32
  TimeMax,       \* bound: the last instant a request carries
  ForwardMax,    \* bound: how far the times move on, all in all
  SetBackMax     \* bound: how often a request carries an older time

ASSUME RateBucketAssumption ==
  /\ Interval \in Nat \ {0}
  /\ Burst \in Nat \ {0}
  /\ TimeMax \in Nat /\ ForwardMax \in Nat /\ SetBackMax \in Nat
  /\ Word \in Nat
  /\ TimeMax + Burst < Word

Unset == -1      \* a window starts at instant 0, decades before any message

VARIABLES
  attempts,      \* the bucket of a peer: [tokens, since, spent]
  messages,      \* the message window of a session
  publishes,     \* its publish window
  now,           \* the time that the last request carried
  forward,       \* how far those times moved on, all in all
  setBacks       \* how often a request carried an older time

bucketVars == <<attempts, messages, publishes, now, forward, setBacks>>

(* The least of two numbers; also of a refill and a bound.                 *)
AtMost(n, bound) == IF n <= bound THEN n ELSE bound

(* Division of i64 rounds towards zero, and the cast keeps 32 bits.        *)
Quotient(elapsed) ==
  IF elapsed >= 0 THEN elapsed \div Interval ELSE -((-elapsed) \div Interval)

Refill(since, t) == Quotient(t - since) % Word

(* Mutant: the time that has earned its tokens earns them again.           *)
KeptTwice(b, t) == [b EXCEPT !.tokens = AtMost(@ + Refill(b.since, t), Burst)]

(* RateBucket::take, but for taking the token: the fraction is kept unless *)
(* the bucket is full.                                                     *)
Kept(b, t) ==
  LET refill == Refill(b.since, t)
      tokens == AtMost(b.tokens + refill, Burst)
  IN  IF refill = 0 THEN b
      ELSE [b EXCEPT !.tokens = tokens,
                     !.since = IF tokens = Burst THEN t ELSE @ + refill * Interval]

(* The same in consume_message_token: the fraction is dropped.             *)
Dropped(b, t) ==
  IF b.since = Unset
    THEN [b EXCEPT !.tokens = Burst, !.since = t]
    ELSE LET refill == Refill(b.since, t)
         IN  IF refill = 0 THEN b
             ELSE [b EXCEPT !.tokens = AtMost(@ + refill, Burst), !.since = t]

Spend(b) ==
  IF b.tokens = 0 THEN b ELSE [b EXCEPT !.tokens = @ - 1, !.spent = @ + 1]

FullSince(t) == [tokens |-> Burst, since |-> t, spent |-> 0]

(* The first request of a peer makes its bucket; a session comes with its  *)
(* windows.                                                                *)
BucketInit ==
  /\ now \in 0..TimeMax
  /\ attempts = FullSince(now)
  /\ messages = FullSince(Unset)
  /\ publishes = FullSince(Unset)
  /\ forward = 0
  /\ setBacks = 0

Carries(t) ==
  /\ now' = t
  /\ forward' = forward + (IF t > now THEN t - now ELSE 0)
  /\ setBacks' = setBacks + (IF t < now THEN 1 ELSE 0)
  /\ forward' <= ForwardMax
  /\ setBacks' <= SetBackMax

(* consume_connection_attempt and consume_http_request.                    *)
Attempt(t) ==
  /\ Carries(t)
  /\ attempts' = Spend(Kept(attempts, t))
  /\ UNCHANGED <<messages, publishes>>

(* consume_message_token.  A publish that the second window refuses has    *)
(* spent a token of the first all the same.                                *)
Message(t, publish) ==
  LET topped == Dropped(messages, t)
  IN  /\ Carries(t)
      /\ messages' = Spend(topped)
      /\ publishes' = IF publish /\ topped.tokens > 0
                        THEN Spend(Dropped(publishes, t)) ELSE publishes
      /\ UNCHANGED attempts

BucketNext ==
  \E t \in 0..TimeMax :
    \/ Attempt(t)
    \/ \E publish \in BOOLEAN : Message(t, publish)

BucketSpec == BucketInit /\ [][BucketNext]_bucketVars

----------------------------------------------------------------------------
(* Whatever the times that requests carry, a peer is granted no more than  *)
(* a burst, a token for every interval that passed, and a burst for every  *)
(* request that carried an older time than the one before: that one makes  *)
(* the refill negative, and the cast makes it a full bucket.               *)
Earned(b) ==
  b.spent * Interval <= Burst * Interval * (1 + setBacks) + forward

GrantsAreEarned == Earned(attempts) /\ Earned(messages) /\ Earned(publishes)
=============================================================================
