--------------------------- MODULE CompletionEngine ---------------------------
(***************************************************************************)
(* CompletionEngine of ml/mirage/deception/completion.py: the dispatcher   *)
(* that answers unknown shell commands from a language model.  Requests    *)
(* run on the threads of a ThreadingHTTPServer; each one holds the lock    *)
(* while it looks at the cache, the budgets and the breaker, releases it   *)
(* for the provider call and takes it again to record the result.          *)
(***************************************************************************)
EXTENDS Naturals, Sequences, FiniteSets

CONSTANTS
    Sessions, Commands, Outputs, Providers, Threads,
    None,             \* no cached output, no active provider
    MaxPerSession,    \* max_per_session
    RateLimit,        \* global_rate_limit
    RateWindow,       \* rate_window_s
    FailureThreshold, \* failure_threshold
    Cooldown,         \* cooldown_s
    SessionTTL,       \* session_ttl_s
    MaxTime,          \* bound: the clock
    MaxRequests       \* bound: requests that reach the provider

ASSUME EngineAssumption ==
    /\ None \notin Outputs /\ None \notin Providers
    /\ {MaxPerSession, RateLimit, RateWindow, FailureThreshold, Cooldown, SessionTTL} \subseteq Nat
    /\ FailureThreshold > 0
    /\ MaxTime \in Nat /\ MaxRequests \in Nat

VARIABLES
    now,          \* the monotonic clock
    active,       \* _active
    tracked,      \* keys of _sessions
    cache, spent, lastSeen,    \* the tracked sessions' _SessionState
    recent,       \* _recent_calls: the calls it has the time of, by their place in calls
    failures,     \* _consecutive_failures
    openUntil,    \* _circuit_open_until
    call,         \* the provider call each thread is waiting for
    calls,        \* history: every provider call, in order
    results       \* history: what calls came to, since the last switch of provider

state  == <<tracked, cache, spent, lastSeen>>
breaker == <<failures, openUntil>>
history == <<calls, results>>
vars   == <<now, active, state, recent, breaker, call, history>>

NoCall  == [on |-> FALSE, session |-> None, command |-> None]
NoCache == [c \in Commands |-> None]

Init ==
    /\ now = 0
    /\ active \in Providers \cup {None}
    /\ tracked = {}
    /\ cache = [s \in Sessions |-> NoCache]
    /\ spent = [s \in Sessions |-> 0]
    /\ lastSeen = [s \in Sessions |-> 0]
    /\ recent = {}
    /\ failures = 0 /\ openUntil = 0
    /\ call = [t \in Threads |-> NoCall]
    /\ calls = <<>>
    /\ results = <<>>

-----------------------------------------------------------------------------
(* complete, first critical section *)

\* _evict_stale keeps the sessions seen within the TTL.
Fresh == {s \in tracked : lastSeen[s] + SessionTTL >= now}

\* Mutant: an entry keeps the time it was created at.
EnterWithoutTouch(s) ==
    /\ tracked' = Fresh \cup {s}
    /\ lastSeen' = [lastSeen EXCEPT ![s] = IF s \in Fresh THEN @ ELSE now]
    /\ cache' = [x \in Sessions |-> IF x \in Fresh THEN cache[x] ELSE NoCache]

\* Stale sessions are evicted, the session is found or created, and touched.
Enter(s) ==
    /\ tracked' = Fresh \cup {s}
    /\ lastSeen' = [lastSeen EXCEPT ![s] = now]
    /\ cache' = [x \in Sessions |-> IF x \in Fresh THEN cache[x] ELSE NoCache]

\* What is left of the budgets once stale sessions are gone.
Spent == [x \in Sessions |-> IF x \in Fresh THEN spent[x] ELSE 0]

Cached(s, c) == s \in Fresh /\ cache[s][c] # None

\* _recent_calls, pruned to the window.
Recent == {i \in recent : calls[i].at + RateWindow > now}

Hit(s, c) ==
    /\ Cached(s, c)
    /\ Enter(s)
    /\ spent' = Spent
    /\ UNCHANGED <<now, active, recent, breaker, call, calls, results>>

\* No provider, the breaker is open, or the session's budget is spent.
Refuses(s) == active = None \/ now < openUntil \/ Spent[s] >= MaxPerSession

RefusedEarly(s, c) ==
    /\ ~Cached(s, c)
    /\ Refuses(s)
    /\ Enter(s)
    /\ spent' = Spent
    /\ UNCHANGED <<now, active, recent, breaker, call, history>>

RefusedByRate(s, c) ==
    /\ ~Cached(s, c)
    /\ ~Refuses(s)
    /\ Cardinality(Recent) >= RateLimit
    /\ Enter(s)
    /\ spent' = Spent
    /\ recent' = Recent
    /\ UNCHANGED <<now, active, breaker, call, history>>

\* Every guard passes: the call is paid for and made with the lock released.
StartCall(t, s, c) ==
    /\ ~call[t].on
    /\ Len(calls) < MaxRequests
    /\ ~Refuses(s)
    /\ Cardinality(Recent) < RateLimit
    /\ Enter(s)
    /\ spent' = [Spent EXCEPT ![s] = @ + 1]
    /\ recent' = Recent \cup {Len(calls) + 1}
    /\ call' = [call EXCEPT ![t] = [on |-> TRUE, session |-> s, command |-> c]]
    /\ calls' = Append(calls, [session |-> s, at |-> now])
    /\ UNCHANGED <<now, active, breaker, results>>

\* Mutant: the cache is consulted only when a call is not allowed.
CallWithoutCache(t, s, c) == StartCall(t, s, c)

Call(t, s, c) == ~Cached(s, c) /\ StartCall(t, s, c)

-----------------------------------------------------------------------------
(* complete, second critical section *)

Hangup(t) == call[t].on /\ call' = [call EXCEPT ![t] = NoCall]

Comes(t, failed) ==
    results' = Append(results, [failed |-> failed, at |-> now])

\* Mutant: the breaker opens at the threshold only, not past it.
CallFailsOpensOnce(t) ==
    /\ Hangup(t)
    /\ failures' = failures + 1
    /\ openUntil' = IF failures' = FailureThreshold THEN now + Cooldown ELSE openUntil
    /\ Comes(t, TRUE)
    /\ UNCHANGED <<now, active, state, recent, calls>>

\* The provider raises.  A failure of a provider that is no longer the active
\* one counts all the same.
CallFails(t) ==
    /\ Hangup(t)
    /\ failures' = failures + 1
    /\ openUntil' = IF failures' >= FailureThreshold THEN now + Cooldown ELSE openUntil
    /\ Comes(t, TRUE)
    /\ UNCHANGED <<now, active, state, recent, calls>>

\* A blank answer is a miss, but not a failure.
CallBlank(t) ==
    /\ Hangup(t)
    /\ failures' = 0
    /\ Comes(t, FALSE)
    /\ UNCHANGED <<now, active, state, recent, openUntil, calls>>

\* The answer is cached if the session is still tracked, and served.
CallReturns(t, o) ==
    /\ Hangup(t)
    /\ failures' = 0
    /\ cache' = IF call[t].session \in tracked
                THEN [cache EXCEPT ![call[t].session][call[t].command] = o]
                ELSE cache
    /\ Comes(t, FALSE)
    /\ UNCHANGED <<now, active, tracked, spent, lastSeen, recent, openUntil, calls>>

-----------------------------------------------------------------------------
\* set_active: an unknown name changes nothing.
SetActive(p) ==
    /\ active' = p
    /\ failures' = 0 /\ openUntil' = 0
    /\ results' = <<>>
    /\ UNCHANGED <<now, state, recent, call, calls>>

Tick ==
    /\ now < MaxTime
    /\ now' = now + 1
    /\ UNCHANGED <<active, state, recent, breaker, call, history>>

Request(s, c) ==
    \/ Hit(s, c) \/ RefusedEarly(s, c) \/ RefusedByRate(s, c)
    \/ \E t \in Threads : Call(t, s, c)

Answered(t) ==
    \/ CallFails(t) \/ CallBlank(t)
    \/ \E o \in Outputs : CallReturns(t, o)

Next ==
    \/ \E s \in Sessions, c \in Commands : Request(s, c)
    \/ \E t \in Threads : Answered(t)
    \/ \E p \in Providers : SetActive(p)
    \/ Tick

Spec == Init /\ [][Next]_vars

-----------------------------------------------------------------------------
(* Properties *)

\* Type invariant, with the limits the guards of complete keep.
TypeOK ==
    /\ now \in Nat
    /\ active \in Providers \cup {None}
    /\ tracked \subseteq Sessions
    /\ cache \in [Sessions -> [Commands -> Outputs \cup {None}]]
    /\ spent \in [Sessions -> 0 .. MaxPerSession]
    /\ lastSeen \in [Sessions -> 0 .. now]
    /\ recent \subseteq 1 .. Len(calls) /\ Cardinality(recent) <= RateLimit
    /\ failures \in Nat /\ openUntil \in Nat
    /\ call \in [Threads -> [on : BOOLEAN, session : Sessions \cup {None},
                            command : Commands \cup {None}]]
    /\ calls \in Seq([session : Sessions, at : 0 .. now])

\* The calls up to the i-th made within the last w ticks before it,
\* for the sessions in S.
CallsWithin(i, w, S) ==
    {j \in 1 .. i : calls[j].session \in S /\ calls[j].at + w > calls[i].at}

\* However requests, evictions and slow calls interleave, no window of
\* RateWindow ticks contains more than RateLimit provider calls.
RateBounded ==
    \A i \in 1 .. Len(calls) : Cardinality(CallsWithin(i, RateWindow, Sessions)) <= RateLimit

\* A session cannot escape its budget by being evicted: no window of SessionTTL
\* ticks contains more than MaxPerSession provider calls of one session.
SessionBudgetBounded ==
    \A i \in 1 .. Len(calls) :
        Cardinality(CallsWithin(i, SessionTTL + 1, {calls[i].session})) <= MaxPerSession

InFlight(s, c) == \E t \in Threads : call[t].on /\ call[t].session = s /\ call[t].command = c

Settled(s, c) == s \in tracked /\ cache[s][c] # None /\ ~InFlight(s, c)

\* Once a command has a cached answer and no call for it is under way, it keeps
\* that answer and is never generated again while its session is tracked.
AnswerSettles ==
    [][\A s \in Sessions, c \in Commands :
          Settled(s, c) =>
              \/ s \in tracked' /\ cache'[s][c] = cache[s][c] /\ ~InFlight(s, c)'
              \/ lastSeen[s] + SessionTTL < now]_vars

\* The last FailureThreshold calls to come back since the provider was chosen
\* have all failed, the last one less than Cooldown ago.
Sick ==
    /\ Len(results) >= FailureThreshold
    /\ \A i \in Len(results) - FailureThreshold + 1 .. Len(results) : results[i].failed
    /\ results[Len(results)].at + Cooldown > now

\* A provider that has just failed FailureThreshold times in a row is left alone
\* for Cooldown, also when it fails again after the first cooldown, and whatever
\* calls were already under way.
SickProviderRests == [][calls' # calls => ~Sick]_vars

\* No interleaving of calls under way with evictions exceeds the rate of all
\* sessions or the budget of one.
BudgetsHold == TypeOK /\ RateBounded /\ SessionBudgetBounded

=============================================================================
