---------------------------- MODULE RateLimiter ----------------------------
(***************************************************************************)
(* The token bucket of src/common/rate_limiter.h that the bridges of one    *)
(* proxy share.  async_wait and the timer's handler run under mutex_, so    *)
(* each is one step.  A second is TicksPerSecond ticks; the code's clock    *)
(* counts microseconds, and like the code's delay the one here is rounded   *)
(* down.  A handler the limiter lets go is posted to the io_context: it     *)
(* leaves `waiting` (or never enters it) and its owner runs it later.       *)
(***************************************************************************)
EXTENDS Integers, Sequences

CONSTANTS
    Users,            \* the bridge loops that ask for tokens
    Rates,            \* the bandwidth limits a proxy is configured with
    TicksPerSecond

ASSUME RateAssumption ==
    /\ TicksPerSecond \in Nat \ {0}
    /\ Rates \subseteq Nat \ {0}
    /\ \A r \in Rates : r % TicksPerSecond = 0
    /\ \E r \in Rates : \A s \in Rates : s <= r

VARIABLES
    rate,      \* bytes_per_sec_
    tokens,    \* tokens_
    elapsed,   \* ticks since last_update_, no more than fill the bucket
    timer,     \* ticks until timer_ expires, or Off
    waiting,   \* waiting_handlers_
    excess     \* history: the bytes let go beyond the limit, see NeverFaster

limiterVars == <<rate, tokens, elapsed, timer, waiting, excess>>

Off == -1

\* The largest limit the proxy is ever configured with.
TopRate == CHOOSE r \in Rates : \A s \in Rates : s <= r

Lesser(a, b) == IF a < b THEN a ELSE b

Greater(a, b) == IF a < b THEN b ELSE a

\* Mutated form: the bucket is not capped.
update_tokens_NoCap == tokens + elapsed * (rate \div TicksPerSecond)

\* What update_tokens leaves in tokens_.
update_tokens == Lesser(rate, tokens + elapsed * (rate \div TicksPerSecond))

\* The bytes the first k waiting handlers ask for.
Asked(q, k) ==
    LET sum[i \in 0..Len(q)] == IF i = 0 THEN 0 ELSE sum[i - 1] + q[i].bytes
    IN  sum[k]

\* The handlers schedule_timer's recursion lets go: the longest prefix of the
\* queue that the tokens pay for.
Served(q, t) ==
    CHOOSE k \in 0..Len(q) :
        /\ Asked(q, k) <= t
        /\ k = Len(q) \/ Asked(q, k + 1) > t

\* Mutated form: once it has served a handler it does not go on to the next.
schedule_timer_Once(q) ==
    LET t == update_tokens
        b == q[1].bytes
    IN  /\ elapsed' = 0
        /\ IF t >= b
           THEN /\ tokens' = t - b
                /\ waiting' = Tail(q)
                /\ timer' = Off
                /\ excess' = excess + b
           ELSE /\ tokens' = t
                /\ waiting' = q
                /\ timer' = ((b - t) * TicksPerSecond) \div rate
                /\ UNCHANGED excess
        /\ UNCHANGED rate

\* schedule_timer for the queue q: serves what it can and, when a handler is
\* left, sets the timer to the moment its tokens will be there.
schedule_timer(q) ==
    LET k    == Served(q, update_tokens)
        left == update_tokens - Asked(q, k)
    IN  /\ tokens' = left
        /\ elapsed' = 0
        /\ waiting' = SubSeq(q, k + 1, Len(q))
        /\ timer' = IF k = Len(q) THEN Off
                    ELSE ((q[k + 1].bytes - left) * TicksPerSecond) \div rate
        /\ excess' = excess + Asked(q, k)
        /\ UNCHANGED rate

\* Mutated form: a request that finds tokens overtakes the queue.
async_wait_passes_Overtaking(bytes) ==
    /\ update_tokens >= bytes
    /\ tokens' = update_tokens - bytes
    /\ elapsed' = 0
    /\ excess' = excess + bytes
    /\ UNCHANGED <<rate, timer, waiting>>

\* async_wait(bytes, handler) when the handler is posted at once.
async_wait_passes(bytes) ==
    /\ waiting = <<>>
    /\ update_tokens >= bytes
    /\ tokens' = update_tokens - bytes
    /\ elapsed' = 0
    /\ excess' = excess + bytes
    /\ UNCHANGED <<rate, timer, waiting>>

\* async_wait(bytes, handler) when the handler is queued; only the first of the
\* queue starts the timer.
async_wait_queues(u, bytes) ==
    /\ waiting # <<>> \/ update_tokens < bytes
    /\ LET q == Append(waiting, [user |-> u, bytes |-> bytes])
       IN  IF Len(q) = 1
           THEN schedule_timer(q)
           ELSE /\ waiting' = q
                /\ tokens' = update_tokens
                /\ elapsed' = 0
                /\ UNCHANGED <<rate, timer, excess>>

\* The timer's handler; it may run any time after the expiry.
TimerFires ==
    /\ timer = 0
    /\ schedule_timer(waiting)

\* set_rate: the proxy is registered again with another limit.  Neither the
\* tokens earned so far nor the running timer are brought up to date.
set_rate(r) ==
    /\ rate' = r
    /\ tokens' = Lesser(tokens, r)
    /\ UNCHANGED <<elapsed, timer, waiting, excess>>

Tick ==
    /\ elapsed' = Lesser(elapsed + 1, TicksPerSecond)
    /\ timer' = IF timer > 0 THEN timer - 1 ELSE timer
    /\ excess' = Greater(0, excess - TopRate \div TicksPerSecond)
    /\ UNCHANGED <<rate, tokens, waiting>>

LimiterInit ==
    /\ rate \in Rates
    /\ tokens = rate
    /\ elapsed = 0
    /\ timer = Off
    /\ waiting = <<>>
    /\ excess = 0

(***************************************************************************)
(* Properties.                                                             *)
(***************************************************************************)
LimiterTypeOK ==
    /\ rate \in Rates
    /\ tokens \in 0..rate
    /\ elapsed \in 0..TicksPerSecond
    /\ timer \in Nat \cup {Off}
    /\ waiting \in Seq([user : Users, bytes : Nat])
    /\ excess \in Nat

\* async_wait, schedule_timer and set_rate: however requests, timers and changes
\* of the limit interleave, the bytes let go in a window of any length are at most
\* what the largest limit allows over that window and one second more. `excess`
\* is the maximum, over the windows that end now, of the bytes let go less that
\* allowance: it grows by every request let go, shrinks with time, and is never
\* less than the empty window's 0. (Against the limit of the moment there is no
\* bound: set_rate does not settle the time before the change, which is credited
\* at the new limit.)
NeverFaster == excess <= TopRate

\* schedule_timer: a queued handler is never forgotten. While the queue is not
\* empty the timer is running, and it never runs for an empty queue.
TimerCoversQueue == (timer # Off) <=> (waiting # <<>>)
=============================================================================
