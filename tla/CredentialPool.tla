--------------------------- MODULE CredentialPool ---------------------------
(***************************************************************************)
(* The credentials of a translation provider, shared by the threads of the *)
(* engine: KeyPool, the deadline of a request and the retries around it    *)
(* (providers.py).                                                         *)
(*                                                                         *)
(* The keys form a ring.  A key whose request was answered with 429 is     *)
(* parked for as long as the answer says.  A call takes the next free key, *)
(* waits when there is none, and gives up when its rate-limit failures or  *)
(* its other failures have used up their budgets, or the wait is too long. *)
(* A request that outlives its deadline goes on in a thread of its own.    *)
(* Times are what is left of them; Tick is one unit of time.               *)
(***************************************************************************)
EXTENDS Naturals, FiniteSets

CONSTANTS
  Keys,        \* the number of credentials
  Caller,      \* the threads that translate
  MaxAttempts, \* max_attempts of the provider
  MaxWait,     \* MAX_RATE_LIMIT_WAIT_SECONDS
  RetryAfter,  \* what an answer may say in Retry-After
  CallBound    \* calls made

ASSUME PoolAssumption ==
  /\ {Keys, MaxAttempts} \subseteq Nat \ {0} /\ RetryAfter \subseteq Nat

Key == 0 .. Keys - 1

VARIABLES
  cursor, \* where the pool looks first
  parked, \* for each key, what is left of its throttle
  call,   \* the call of each thread
  calls   \* calls made so far

poolVars == <<cursor, parked, call, calls>>

NoCall == [at |-> "idle", key |-> 0, rate |-> 0, transient |-> 0, wait |-> 0,
           live |-> 0, sent |-> 0]

PoolInit ==
  /\ cursor = 0 /\ parked = [k \in Key |-> 0]
  /\ call = [c \in Caller |-> NoCall] /\ calls = 0

\* A call that is over leaves nothing behind, and a key is the call's until
\* its answer is there.
Goes(c, to) ==
  call' = [call EXCEPT ![c] =
    IF to.at = "idle" THEN NoCall
    ELSE [to EXCEPT !.key = IF to.at \in {"send", "sent"} THEN @ ELSE 0]]

\* translate: a call of one chunk, with a deadline guard of its own.
Call(c) ==
  /\ call[c].at = "idle" /\ calls < CallBound
  /\ Goes(c, [NoCall EXCEPT !.at = "acquire"])
  /\ calls' = calls + 1
  /\ UNCHANGED <<cursor, parked>>

\* pool_size + max_attempts - 1
RateBudget == Keys + MaxAttempts - 1

\* A failure of the pool or of a key, one of the network or the service.
RateFailure(r, then) ==
  [r EXCEPT !.rate = @ + 1, !.at = IF r.rate + 1 >= RateBudget THEN "idle" ELSE then]

TransientFailure(r) ==
  [r EXCEPT !.transient = @ + 1, !.wait = r.transient + 1,
            !.at = IF r.transient + 1 >= MaxAttempts THEN "idle" ELSE "sleep"]

Free == {n \in Key : parked[(cursor + n) % Keys] = 0}

\* KeyPool.acquire: the first free key from the cursor on, or the time until
\* one is free.
Acquire(c) ==
  /\ call[c].at = "acquire"
  /\ \/ \E n \in Free :
        /\ \A m \in Free : n <= m
        /\ LET k == (cursor + n) % Keys IN
           /\ cursor' = (k + 1) % Keys
           /\ Goes(c, [call[c] EXCEPT !.at = "send", !.key = k])
     \/ /\ Free = {}
        /\ \E wait \in {parked[k] : k \in Key} :
             /\ \A k \in Key : wait <= parked[k]
             /\ LET r == RateFailure(call[c], "sleep") IN
                Goes(c, IF wait > MaxWait THEN [r EXCEPT !.at = "idle"] ELSE [r EXCEPT !.wait = wait])
        /\ UNCHANGED cursor
  /\ UNCHANGED <<parked, calls>>

\* before_request: while an earlier request of the call is alive no other is
\* sent, and the attempt counts as timed out.
Send(c) ==
  /\ call[c].at = "send"
  /\ Goes(c, IF call[c].live > 0 THEN TransientFailure(call[c])
             ELSE [call[c] EXCEPT !.at = "sent", !.live = 1, !.sent = @ + 1])
  /\ UNCHANGED <<cursor, parked, calls>>

\* A usable answer, or one that no retry can mend.
Answered(c) ==
  /\ call[c].at = "sent" /\ Goes(c, NoCall)
  /\ UNCHANGED <<cursor, parked, calls>>

\* A server error or a broken connection.
Broken(c) ==
  /\ call[c].at = "sent"
  /\ Goes(c, TransientFailure([call[c] EXCEPT !.live = @ - 1]))
  /\ UNCHANGED <<cursor, parked, calls>>

\* The deadline passes: the request goes on.
TimesOut(c) ==
  /\ call[c].at = "sent" /\ Goes(c, TransientFailure(call[c]))
  /\ UNCHANGED <<cursor, parked, calls>>

LateEnds(c) ==
  /\ call[c].live > (IF call[c].at = "sent" THEN 1 ELSE 0)
  /\ Goes(c, [call[c] EXCEPT !.live = @ - 1])
  /\ UNCHANGED <<cursor, parked, calls>>

\* Mutant: a later answer replaces what an earlier one said.
ParkAnew(k, d) == [parked EXCEPT ![k] = d]

\* report_rate_limit: of two answers the longer throttle counts.
Park(k, d) == [parked EXCEPT ![k] = IF @ < d THEN d ELSE @]

\* 429: the key is parked, and another one is tried at once.
Throttled(c) ==
  /\ call[c].at = "sent"
  /\ \E d \in RetryAfter : parked' = Park(call[c].key, d)
  /\ Goes(c, RateFailure([call[c] EXCEPT !.live = @ - 1], "acquire"))
  /\ UNCHANGED <<cursor, calls>>

Wakes(c) ==
  /\ call[c].at = "sleep" /\ call[c].wait = 0
  /\ Goes(c, [call[c] EXCEPT !.at = "acquire"])
  /\ UNCHANGED <<cursor, parked, calls>>

Less(n) == IF n = 0 THEN 0 ELSE n - 1

Tick ==
  /\ \/ \E k \in Key : parked[k] > 0
     \/ \E c \in Caller : call[c].at = "sleep" /\ call[c].wait > 0
  /\ parked' = [k \in Key |-> Less(parked[k])]
  /\ call' = [c \in Caller |-> [call[c] EXCEPT !.wait = Less(@)]]
  /\ UNCHANGED <<cursor, calls>>

CallStep(c) ==
  Acquire(c) \/ Send(c) \/ Answered(c) \/ Broken(c) \/ TimesOut(c) \/ Throttled(c) \/ Wakes(c)

PoolNext ==
  \/ \E c \in Caller : Call(c) \/ CallStep(c) \/ LateEnds(c)
  \/ Tick

PoolSpec == PoolInit /\ [][PoolNext]_poolVars

-----------------------------------------------------------------------------
(* Properties.                                                             *)

\* Whatever the answers and however many threads share the pool, a call never
\* has two requests alive, also when the first one was given up for lost, and
\* pays for no more requests than its two budgets allow.
RequestsAreBounded ==
  \A c \in Caller : call[c].live <= 1 /\ call[c].sent <= RateBudget + MaxAttempts - 1

\* A key that has to rest is not sent anything new: no answer that came late
\* and said less shortens its throttle, and no call takes it meanwhile.
ParkedKeysRest ==
  [][\A k \in Key :
       /\ parked'[k] >= Less(parked[k])
       /\ parked[k] > 0 => \A c \in Caller : Acquire(c) => call'[c].key # k \/ call'[c].at # "send"]_poolVars

\* Every call of a thread ends, with a translation or an error.
CallsEnd == \A c \in Caller : call[c].at # "idle" ~> call[c].at = "idle"
=============================================================================
