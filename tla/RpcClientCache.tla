--------------------------- MODULE RpcClientCache ---------------------------
(***************************************************************************)
(* The decorator of packages/taquito-rpc/src/rpc-client-modules/           *)
(* rpc-cache.ts: every getter looks its key up in _cache, and on a miss    *)
(* sends the request, stores the PROMISE at once and arms a timer that     *)
(* removes the key.  A put has one identity: it names the request, the     *)
(* promise and the timer handle.                                           *)
(*                                                                         *)
(* Time is discrete.  The value of an answer is the instant at which the   *)
(* node computed it, so that comparing values compares chain states.       *)
(***************************************************************************)
EXTENDS Naturals

CONSTANTS
    Keys,       \* results of formatCacheKey
    Callers,    \* concurrent users of the client
    Ttl,        \* the ttl argument of the constructor
    Slack,      \* how late the event loop may run a timer
    MaxPuts,    \* bound on the requests sent
    MaxTime     \* bound on the instants at which calls and clears are made

ASSUME CacheAssumption ==
    /\ Ttl \in Nat \ {0}
    /\ Slack \in Nat
    /\ MaxPuts \in Nat
    /\ MaxTime \in Nat

VARIABLES
    now,        \* the clock
    cache,      \* _cache: key -> the put it holds, 0 when the key is absent
    made,       \* how many puts were made: they are 1..made
    puts,       \* the puts
    armed,      \* the puts whose setTimeout has not fired
    call        \* what each caller asked last, and the put that serves it

vars == <<now, cache, made, puts, armed, call>>

Handles == 1..MaxPuts

NoKey == "none"

Put == [key : Keys \cup {NoKey}, at : Nat,
        state : {"unused", "sent", "resolved", "rejected"},
        value : Nat, cleared : BOOLEAN]

Unused == [key |-> NoKey, at |-> 0, state |-> "unused", value |-> 0,
           cleared |-> FALSE]

CallRecord == [key : Keys \cup {NoKey}, at : Nat, on : 0..MaxPuts,
               returned : BOOLEAN]

Idle == [key |-> NoKey, at |-> 0, on |-> 0, returned |-> TRUE]

TypeOK ==
    /\ now \in Nat
    /\ cache \in [Keys -> 0..made]
    /\ made \in 0..MaxPuts
    /\ puts \in [Handles -> Put]
    /\ \A i \in 1..made : puts[i].key \in Keys
    /\ armed \subseteq 1..made
    /\ call \in [Callers -> CallRecord]
    /\ \A c \in Callers : call[c].on <= made

Init ==
    /\ now = 0
    /\ cache = [k \in Keys |-> 0]
    /\ made = 0
    /\ puts = [i \in Handles |-> Unused]
    /\ armed = {}
    /\ call = [c \in Callers |-> Idle]

-----------------------------------------------------------------------------
\* A promise put in the cache: the request is sent and the timer armed.
NewPut(k) == [key |-> k, at |-> now, state |-> "sent", value |-> 0,
              cleared |-> FALSE]

\* Mutated Has: a promise is shared only once it has settled.
Has_Settled(k) == cache[k] # 0 /\ puts[cache[k]].state # "sent"

Has(k) == cache[k] # 0

\* get: the caller is handed the promise already stored under the key.
Hit(c, k) ==
    /\ Has(k)
    /\ call' = [call EXCEPT ![c] = [key |-> k, at |-> now, on |-> cache[k],
                                    returned |-> FALSE]]
    /\ UNCHANGED <<cache, made, puts, armed>>

\* Mutated Miss: no timer is armed.
Miss_NoTimer(c, k) ==
    LET handle == made + 1
    IN  /\ ~Has(k)
        /\ handle <= MaxPuts
        /\ made' = handle
        /\ puts' = [puts EXCEPT ![handle] = NewPut(k)]
        /\ cache' = [cache EXCEPT ![k] = handle]
        /\ call' = [call EXCEPT ![c] = [key |-> k, at |-> now, on |-> handle,
                                        returned |-> FALSE]]
        /\ UNCHANGED armed

\* Mutated Miss: the entry is stored under the handle of the next put.
Miss_NextHandle(c, k) ==
    LET handle == made + 1
    IN  /\ ~Has(k)
        /\ handle <= MaxPuts
        /\ made' = handle
        /\ puts' = [puts EXCEPT ![handle] = NewPut(k)]
        /\ armed' = armed \cup {handle}
        /\ cache' = [cache EXCEPT ![k] = handle + 1]
        /\ call' = [call EXCEPT ![c] = [key |-> k, at |-> now, on |-> handle,
                                        returned |-> FALSE]]

\* put: the promise is stored before it settles, under a timer of its own.
Miss(c, k) ==
    LET handle == made + 1
    IN  /\ ~Has(k)
        /\ handle <= MaxPuts
        /\ made' = handle
        /\ puts' = [puts EXCEPT ![handle] = NewPut(k)]
        /\ armed' = armed \cup {handle}
        /\ cache' = [cache EXCEPT ![k] = handle]
        /\ call' = [call EXCEPT ![c] = [key |-> k, at |-> now, on |-> handle,
                                        returned |-> FALSE]]

Call(c, k) ==
    /\ call[c].returned
    /\ now <= MaxTime
    /\ Hit(c, k) \/ Miss(c, k)
    /\ UNCHANGED now

\* The node computes the answer now.
Answer(i) ==
    /\ puts[i].state = "sent"
    /\ puts' = [puts EXCEPT ![i].state = "resolved", ![i].value = now]
    /\ UNCHANGED <<now, cache, made, armed, call>>

\* The request fails; the rejected promise stays where it is.
Fail(i) ==
    /\ puts[i].state = "sent"
    /\ puts' = [puts EXCEPT ![i].state = "rejected"]
    /\ UNCHANGED <<now, cache, made, armed, call>>

\* Mutated Return: the caller reads the entry again when its request settles.
Return_FromCache(c) ==
    /\ ~call[c].returned
    /\ cache[call[c].key] = call[c].on
    /\ puts[call[c].on].state # "sent"
    /\ call' = [call EXCEPT ![c].returned = TRUE]
    /\ UNCHANGED <<now, cache, made, puts, armed>>

\* The await of a caller completes.
Return(c) ==
    /\ ~call[c].returned
    /\ puts[call[c].on].state # "sent"
    /\ call' = [call EXCEPT ![c].returned = TRUE]
    /\ UNCHANGED <<now, cache, made, puts, armed>>

Due(i) == puts[i].at + Ttl

\* Mutated TimerFires: a rejected promise is left in the cache.
TimerFires_KeepsRejected(i) ==
    /\ i \in armed
    /\ now >= Due(i)
    /\ armed' = armed \ {i}
    /\ cache' = IF puts[i].state = "rejected" THEN cache
                ELSE [cache EXCEPT ![puts[i].key] = 0]
    /\ UNCHANGED <<now, made, puts, call>>

\* remove: the timer drops whatever entry its key has at that moment.
TimerFires(i) ==
    /\ i \in armed
    /\ now >= Due(i)
    /\ armed' = armed \ {i}
    /\ cache' = [cache EXCEPT ![puts[i].key] = 0]
    /\ UNCHANGED <<now, made, puts, call>>

\* deleteAllCachedData: the entries go, their timers stay armed.
DeleteAll ==
    /\ now <= MaxTime
    /\ \E k \in Keys : Has(k)
    /\ cache' = [k \in Keys |-> 0]
    /\ puts' = [i \in Handles |->
                  [puts[i] EXCEPT !.cleared = @ \/ i \in {cache[k] : k \in Keys}]]
    /\ UNCHANGED <<now, made, armed, call>>

\* Time passes, but never beyond the lateness allowed to an armed timer.
Tick ==
    /\ now <= MaxTime + Ttl + Slack
    /\ \A i \in armed : now < Due(i) + Slack
    /\ now' = now + 1
    /\ UNCHANGED <<cache, made, puts, armed, call>>

Next ==
    \/ \E c \in Callers, k \in Keys : Call(c, k)
    \/ \E i \in 1..made : Answer(i) \/ Fail(i)
    \/ \E c \in Callers : Return(c)
    \/ \E i \in armed : TimerFires(i)
    \/ DeleteAll
    \/ Tick

Spec == Init /\ [][Next]_vars

\* The event loop keeps running due timers and settled awaits, time passes, and
\* every request sent to the node is settled in the end.
Fairness ==
    /\ WF_vars(Tick)
    /\ \A i \in Handles : WF_vars(i \in armed /\ TimerFires(i))
    /\ \A i \in Handles : WF_vars(i <= made /\ (Answer(i) \/ Fail(i)))
    /\ \A c \in Callers : WF_vars(Return(c))

FairSpec == Spec /\ Fairness

-----------------------------------------------------------------------------
(* Properties *)

\* An entry is held by a timer of its own that has not fired and is not overdue:
\* no interleaving of put, remove and deleteAllCachedData leaves an entry in
\* _cache that nothing will ever evict.
EntryHasOwnTimer ==
    \A k \in Keys : Has(k) =>
        /\ cache[k] \in armed
        /\ puts[cache[k]].key = k
        /\ now <= Due(cache[k]) + Slack

\* A caller is never served by a request older than the ttl (plus the lateness of
\* the event loop) at the instant it called, whether the promise it joins was
\* pending, resolved or rejected: stale data and stale failures are bounded.
BoundedStaleness ==
    \A c \in Callers : call[c].on # 0 =>
        /\ call[c].at <= Due(call[c].on) + Slack
        /\ puts[call[c].on].key = call[c].key
        /\ puts[call[c].on].state = "resolved" =>
              call[c].at <= puts[call[c].on].value + Ttl + Slack

\* The documented effect of the cache: once a request for a key is sent, the next
\* one is sent only after the ttl, or after deleteAllCachedData dropped the entry.
CachedForTtl ==
    \A i, j \in 1..made :
        i < j /\ puts[i].key = puts[j].key =>
            puts[i].cleared \/ puts[j].at >= Due(i)

\* What the code guarantees instead: a key no entry of which was ever cleared is
\* requested at most once per ttl.  (Only deleteAllCachedData leaves timers behind
\* that evict the entries stored after it.)
CachedForTtlUnlessCleared ==
    \A i, j \in 1..made :
        i < j /\ puts[i].key = puts[j].key =>
            \/ puts[j].at >= Due(i)
            \/ \E h \in 1..i : puts[h].key = puts[i].key /\ puts[h].cleared

\* A failed request does not stay in the cache: its entry is evicted in the end.
RejectionForgotten ==
    \A i \in Handles, k \in Keys :
        (cache[k] = i /\ puts[i].state = "rejected")
            ~> cache[k] # i

\* Every caller gets an answer or a failure in the end, also when the entry it
\* joined was evicted or cleared while its request was in flight.
EveryCallReturns == \A c \in Callers : ~call[c].returned ~> call[c].returned
=============================================================================
