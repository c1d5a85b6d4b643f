----------------------------- MODULE HttpSource -----------------------------
(***************************************************************************)
(* The requests of an HTTPSource (sources/http/http.py): the cache lookup  *)
(* of get(), the circuit breaker around retry_async (core/retry.py), the   *)
(* throttle in front of every attempt, and the store of the response.      *)
(* fetch_batch() belongs to the user: it makes one request after another,  *)
(* or several together.  The upstream service is external and answers,     *)
(* fails in a way worth a retry, or refuses for good.  The clock is        *)
(* time.monotonic() in whole units.                                        *)
(***************************************************************************)
EXTENDS Naturals

CONSTANTS Settings,    \* the configurations to look at
          MaxCalls,    \* requests fetch_batch makes in all
          MaxTime      \* where the clock stops

VARIABLE hs

Callers == 1 .. hs.conf.callers
Never == MaxTime + 100     \* no time has come yet: the initial 0.0 and None

(* What the source may be built with.  callers is how many requests may be *)
(* made together; interval is 1 / requests_per_second, backoff the first   *)
(* delay, which doubles up to max_backoff; ttl is cache_ttl_seconds, 0 for *)
(* no cache.                                                               *)
Configs ==
    [callers : Nat \ {0}, breaker : BOOLEAN, failure_threshold : Nat, success_threshold : Nat,
     timeout : Nat, interval : Nat, max_attempts : Nat \ {0}, backoff : Nat, max_backoff : Nat,
     ttl : Nat]

Idle == [pc |-> "idle", attempt |-> 0, wake |-> 0, epoch |-> 0, body |-> 0]

Init ==
    \E c \in Settings :
           hs = [conf |-> c, now |-> 0, calls |-> 0,
                 call |-> [k \in 1 .. c.callers |-> Idle],
                 state |-> "closed",           \* CircuitState
                 failures |-> 0,               \* _failure_count
                 successes |-> 0,              \* _success_count
                 last_failure |-> Never,       \* _last_failure_time
                 last_request |-> Never,       \* _last_request_at
                 cache |-> [body |-> Never, at |-> Never],
                 opens |-> 0,                  \* times the breaker opened
                 row |-> 0,                    \* outcomes of one kind in a row
                 good |-> TRUE,                \* which kind
                 sent |-> Never]               \* when the last request went out

Tick == hs.now < MaxTime /\ hs' = [hs EXCEPT !.now = @ + 1]

Goto(s, k, pc) == [s EXCEPT !.call[k].pc = pc]
Finished(s, k) == [s EXCEPT !.call[k] = Idle]

-----------------------------------------------------------------------------
(* get(): the cache first.  An entry past its ttl is deleted.              *)
Fresh == hs.cache.at # Never /\ hs.now - hs.cache.at <= hs.conf.ttl
Get(k) ==
    /\ hs.call[k].pc = "idle"
    /\ hs.calls < MaxCalls
    /\ hs' = Goto([hs EXCEPT !.calls = @ + 1], k, IF hs.conf.ttl > 0 THEN "lookup" ELSE "gate")
Lookup(k) ==
    /\ hs.call[k].pc = "lookup"
    /\ \/ Fresh /\ hs' = Finished(hs, k)
       \/ ~Fresh /\ hs' = Goto([hs EXCEPT !.cache = [body |-> Never, at |-> Never]], k, "gate")

-----------------------------------------------------------------------------
(* AsyncCircuitBreaker.  The lock is never held over an await, so each of  *)
(* its sections is one step.                                               *)
ShouldAttemptReset ==
    hs.last_failure = Never \/ hs.now - hs.last_failure >= hs.conf.timeout

Admitted(s, k) == Goto([s EXCEPT !.call[k].epoch = s.opens, !.call[k].attempt = 1], k, "throttle")

Gate(k) ==
    /\ hs.call[k].pc = "gate"
    /\ \/ /\ ~hs.conf.breaker \/ hs.state # "open"
          /\ hs' = Admitted(hs, k)
       \/ /\ hs.conf.breaker /\ hs.state = "open" /\ ShouldAttemptReset
          /\ hs' = Admitted([hs EXCEPT !.state = "half_open"], k)
       \/ /\ hs.conf.breaker /\ hs.state = "open" /\ ~ShouldAttemptReset
          /\ hs' = Finished(hs, k)

(* The outcomes in the order the breaker learns of them.                   *)
Counted(s, good) == [s EXCEPT !.row = IF s.good = good THEN @ + 1 ELSE 1, !.good = good]

(* _on_success                                                             *)
OnSuccess(s) ==
    LET t == [s EXCEPT !.failures = 0, !.successes = IF s.state = "half_open" THEN @ + 1 ELSE @]
    IN IF s.state = "half_open" /\ t.successes >= s.conf.success_threshold
       THEN [t EXCEPT !.state = "closed", !.successes = 0]
       ELSE t

Trips(s, failures) ==
    \/ s.state = "closed" /\ failures >= s.conf.failure_threshold
    \/ s.state = "half_open"
Opened(s) == [s EXCEPT !.state = "open", !.opens = @ + 1]

(* _on_failure                                                             *)
OnFailure(s) ==
    LET t == [s EXCEPT !.failures = @ + 1, !.successes = 0, !.last_failure = s.now]
    IN IF Trips(s, t.failures) THEN Opened(t) ELSE t

Settled(good) ==
    IF ~hs.conf.breaker THEN hs
    ELSE IF good THEN OnSuccess(Counted(hs, TRUE)) ELSE OnFailure(Counted(hs, FALSE))

-----------------------------------------------------------------------------
(* retry_async around _do_request.                                         *)

(* Mutant of Wait: a wait one tick short.                                  *)
WaitsTooLittle ==
    IF hs.last_request = Never \/ hs.now - hs.last_request >= hs.conf.interval THEN 0
    ELSE hs.conf.interval - (hs.now - hs.last_request) - 1

(* _throttle: the wait is worked out before the sleep, _last_request_at is *)
(* set after it.                                                           *)
Wait == IF hs.last_request = Never \/ hs.now - hs.last_request >= hs.conf.interval THEN 0
        ELSE hs.conf.interval - (hs.now - hs.last_request)

Send(s, k) == Goto([s EXCEPT !.last_request = s.now, !.sent = s.now], k, "sent")

Throttle(k) ==
    /\ hs.call[k].pc = "throttle"
    /\ hs' = IF Wait = 0 THEN Send(hs, k)
             ELSE Goto([hs EXCEPT !.call[k].wake = hs.now + Wait], k, "sleep")
SleepEnds(k) ==
    /\ hs.call[k].pc = "sleep" /\ hs.now >= hs.call[k].wake
    /\ hs' = Send(hs, k)

(* client.request and raise_for_status.                                    *)
RespondsOk(k) ==
    /\ hs.call[k].pc = "sent"
    /\ hs' = IF hs.conf.ttl > 0
             THEN Goto([Settled(TRUE) EXCEPT !.call[k].body = hs.now], k, "store")
             ELSE Finished(Settled(TRUE), k)

(* RetryPolicy.should_retry: a RequestError, a 429 or a 5xx, while there   *)
(* are attempts left.                                                      *)
ShouldRetry(k) == hs.call[k].attempt < hs.conf.max_attempts

Delay(attempt) ==
    LET d == hs.conf.backoff * 2 ^ (attempt - 1)
    IN IF d < hs.conf.max_backoff THEN d ELSE hs.conf.max_backoff

Transient(k) ==
    /\ hs.call[k].pc = "sent"
    /\ hs' = IF ShouldRetry(k)
             THEN Goto([hs EXCEPT !.call[k].wake = hs.now + Delay(hs.call[k].attempt)], k, "backoff")
             ELSE Finished(Settled(FALSE), k)
Refused(k) == hs.call[k].pc = "sent" /\ hs' = Finished(Settled(FALSE), k)

BackoffEnds(k) ==
    /\ hs.call[k].pc = "backoff" /\ hs.now >= hs.call[k].wake
    /\ hs' = Goto([hs EXCEPT !.call[k].attempt = @ + 1], k, "throttle")

(* HttpCache.set in a thread of its own.                                   *)
Store(k) ==
    /\ hs.call[k].pc = "store"
    /\ hs' = Finished([hs EXCEPT !.cache = [body |-> hs.call[k].body, at |-> hs.now]], k)

(* CancelledError passes the breaker and the retries by.                   *)
Cancel(k) == hs.call[k].pc \in {"lookup", "sleep", "sent", "backoff"} /\ hs' = Finished(hs, k)

Ends == hs.now = MaxTime /\ UNCHANGED hs

Next ==
    \/ Tick \/ Ends
    \/ \E k \in Callers :
          \/ Get(k) \/ Lookup(k) \/ Gate(k) \/ Throttle(k) \/ SleepEnds(k) \/ RespondsOk(k)
          \/ Transient(k) \/ Refused(k) \/ BackoffEnds(k) \/ Store(k) \/ Cancel(k)

Spec == Init /\ [][Next]_hs

-----------------------------------------------------------------------------
(* The breaker opens after failure_threshold failures in a row and closes  *)
(* again after success_threshold successes in a row, in the order in which *)
(* it learns of the outcomes: results of calls from before it opened and   *)
(* failed probes in between never shorten either.                          *)
BreakerStep ==
    /\ hs.state = "closed" /\ hs'.state = "open" =>
          ~hs'.good /\ hs'.row >= hs.conf.failure_threshold
    /\ hs.state = "half_open" /\ hs'.state = "closed" =>
          hs'.good /\ hs'.row >= hs.conf.success_threshold
    /\ hs.state = "closed" => hs'.state # "half_open"

(* What goes out to the service: one caller's requests, retries included,  *)
(* keep the interval of the rate limit, nothing admitted while the breaker *)
(* is open goes out, and no call makes more than max_attempts.             *)
GoesOut(k) == hs.call[k].pc # "sent" /\ hs'.call[k].pc = "sent"
RequestStep ==
    \A k \in Callers : GoesOut(k) =>
        /\ hs.conf.callers = 1 /\ hs.sent # Never => hs.now - hs.sent >= hs.conf.interval
        /\ hs.state = "open" => hs.call[k].epoch < hs.opens
        /\ hs'.call[k].attempt <= hs.conf.max_attempts
=============================================================================
