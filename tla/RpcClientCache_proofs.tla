----------------------- MODULE RpcClientCache_proofs -----------------------
(***************************************************************************)
(* Proofs about RpcClientCache for every set of keys and callers, every    *)
(* ttl, lateness and bound.                                                *)
(***************************************************************************)
EXTENDS RpcClientCache, TLAPS

\* No put of the key of i was cleared, up to i itself.
NotCleared(i) ==
    \A h \in 1..i : puts[h].key = puts[i].key => ~puts[h].cleared

\* No armed timer is overdue by more than the lateness, and a timer that has
\* fired was due.
TimersOnTime ==
    /\ \A i \in armed : now <= Due(i) + Slack
    /\ \A i \in 1..made : i \notin armed => Due(i) <= now

\* Requests and answers are dated in the past, in that order.
PutsDated ==
    \A i \in 1..made :
        /\ puts[i].at <= now
        /\ puts[i].state = "resolved" => puts[i].at <= puts[i].value

\* The entry of a key is its latest put.
EntryIsLatest ==
    \A i \in 1..made : Has(puts[i].key) => i <= cache[puts[i].key]

\* As long as nothing of its key was cleared, an armed timer guards the entry
\* it was armed for.
ArmedGuardsEntry ==
    \A i \in armed : NotCleared(i) => cache[puts[i].key] = i

TimeInv == TypeOK /\ EntryHasOwnTimer /\ TimersOnTime /\ PutsDated

IndInv ==
    /\ TimeInv
    /\ BoundedStaleness
    /\ EntryIsLatest
    /\ ArmedGuardsEntry
    /\ CachedForTtlUnlessCleared
-----------------------------------------------------------------------------
LEMMA Handling ==
    ASSUME TypeOK
    PROVE  made \in Nat /\ 1..made \subseteq Handles /\ now \in Nat
  BY CacheAssumption DEF TypeOK, Handles

\* Settling a promise changes only its state and its value.
LEMMA SettleEffect ==
    ASSUME TypeOK, NEW i \in 1..made, Answer(i) \/ Fail(i)
    PROVE  /\ UNCHANGED <<now, cache, made, armed, call>>
           /\ puts' \in [Handles -> Put]
           /\ \A j \in 1..made :
                 /\ puts'[j].key = puts[j].key
                 /\ puts'[j].at = puts[j].at
                 /\ puts'[j].cleared = puts[j].cleared
                 /\ puts'[j].state = "resolved" =>
                       \/ puts'[j].value = now
                       \/ puts[j].state = "resolved" /\ puts'[j].value = puts[j].value
  <1> USE DEF Handles
  <1>1. puts[i] \in Put /\ i \in Handles /\ now \in Nat
    BY Handling DEF TypeOK
  <1>2. PICK s \in {"resolved", "rejected"}, v \in Nat :
           /\ puts' = [puts EXCEPT ![i] = [@ EXCEPT !.state = s, !.value = v]]
           /\ s = "resolved" => v = now
    <2>1. CASE Answer(i)
      BY <1>1, <2>1 DEF Answer, TypeOK
    <2>2. CASE Fail(i)
      <3>1. [puts[i] EXCEPT !.state = "rejected"]
              = [puts[i] EXCEPT !.state = "rejected", !.value = puts[i].value]
        BY <1>1 DEF Put
      <3>2. puts[i].value \in Nat
        BY <1>1 DEF Put
      <3> QED
        BY <2>2, <3>1, <3>2 DEF Fail, TypeOK
    <2> QED
      BY <2>1, <2>2
  <1>3. /\ puts'[i] = [puts[i] EXCEPT !.state = s, !.value = v]
        /\ \A j \in Handles : j # i => puts'[j] = puts[j]
    BY <1>1, <1>2 DEF TypeOK
  <1>4. /\ puts'[i] \in Put
        /\ puts'[i].key = puts[i].key /\ puts'[i].at = puts[i].at
        /\ puts'[i].cleared = puts[i].cleared
        /\ puts'[i].state = s /\ puts'[i].value = v
    BY <1>1, <1>3 DEF Put
  <1>5. puts' \in [Handles -> Put]
    BY <1>2, <1>3, <1>4 DEF TypeOK
  <1>6. UNCHANGED <<now, cache, made, armed, call>>
    BY DEF Answer, Fail
  <1>7. \A j \in 1..made : j \in Handles
    BY Handling
  <1> QED
    BY <1>2, <1>3, <1>4, <1>5, <1>6, <1>7

\* deleteAllCachedData touches the puts only by marking those it dropped.
LEMMA ClearEffect ==
    ASSUME TypeOK, DeleteAll
    PROVE  /\ cache' = [k \in Keys |-> 0]
           /\ UNCHANGED <<now, made, armed, call>>
           /\ puts' \in [Handles -> Put]
           /\ \A j \in Handles :
                 /\ puts'[j].key = puts[j].key
                 /\ puts'[j].at = puts[j].at
                 /\ puts'[j].state = puts[j].state
                 /\ puts'[j].value = puts[j].value
                 /\ puts[j].cleared => puts'[j].cleared
                 /\ (\E k \in Keys : cache[k] = j) => puts'[j].cleared
  <1>1. /\ cache' = [k \in Keys |-> 0]
        /\ UNCHANGED <<now, made, armed, call>>
    BY DEF DeleteAll
  <1>2. PICK gone : /\ puts' = [j \in Handles |->
                                  [puts[j] EXCEPT !.cleared = @ \/ j \in gone]]
                    /\ gone = {cache[k] : k \in Keys}
    BY DEF DeleteAll
  <1>3. ASSUME NEW j \in Handles
        PROVE  /\ puts'[j] \in Put
               /\ puts'[j].key = puts[j].key
               /\ puts'[j].at = puts[j].at
               /\ puts'[j].state = puts[j].state
               /\ puts'[j].value = puts[j].value
               /\ puts[j].cleared => puts'[j].cleared
               /\ j \in gone => puts'[j].cleared
    <2>1. puts[j] \in Put
      BY DEF TypeOK
    <2>2. (puts[j].cleared \/ j \in gone) \in BOOLEAN
      OBVIOUS
    <2>3. puts'[j] = [puts[j] EXCEPT !.cleared = puts[j].cleared \/ j \in gone]
      BY <1>2
    <2> QED
      BY <2>1, <2>2, <2>3 DEF Put
  <1>4. puts' \in [Handles -> Put]
    BY <1>2, <1>3
  <1> QED
    BY <1>1, <1>2, <1>3, <1>4

\* A miss appends a put and leaves the others alone.
LEMMA MissEffect ==
    ASSUME TypeOK, NEW c \in Callers, NEW k \in Keys, Call(c, k), Miss(c, k)
    PROVE  /\ made' = made + 1 /\ made + 1 \in Handles
           /\ armed' = armed \cup {made + 1}
           /\ cache' = [cache EXCEPT ![k] = made + 1]
           /\ now' = now
           /\ puts'[made + 1] = NewPut(k)
           /\ \A i \in 1..made : i \in Handles /\ puts'[i] = puts[i]
           /\ call' = [call EXCEPT ![c] = [key |-> k, at |-> now, on |-> made + 1,
                                           returned |-> FALSE]]
  BY CacheAssumption DEF Call, Miss, TypeOK, Handles

LEMMA InitType == Init => TypeOK
  BY CacheAssumption
     DEF Init, TypeOK, Idle, Unused, Handles, Put, CallRecord

\* One step per action: the types survive it.
LEMMA StepType == TypeOK /\ [Next]_vars => TypeOK'
  <1> SUFFICES ASSUME TypeOK, [Next]_vars
               PROVE  TypeOK'
    OBVIOUS
  <1> USE CacheAssumption DEF Handles
  <1>1. ASSUME NEW c \in Callers, NEW k \in Keys, Call(c, k)
        PROVE  TypeOK'
    <2>1. CASE Hit(c, k)
      <3>1. cache[k] \in 1..made
        BY <2>1 DEF Hit, Has, TypeOK
      <3>2. call' \in [Callers -> CallRecord]
        BY <1>1, <2>1, <3>1 DEF Hit, TypeOK, CallRecord
      <3>3. \A d \in Callers : call'[d].on <= made
        BY <1>1, <2>1, <3>1 DEF Hit, TypeOK
      <3> QED
        BY <1>1, <2>1, <3>2, <3>3 DEF Call, Hit, TypeOK
    <2>2. CASE Miss(c, k)
      <3>1. made + 1 \in Handles /\ made' = made + 1
        BY <2>2 DEF Miss, TypeOK
      <3>2. NewPut(k) \in Put /\ NewPut(k).key \in Keys
        BY DEF NewPut, Put, TypeOK
      <3>3. /\ puts' \in [Handles -> Put]
            /\ \A i \in 1..made' : puts'[i].key \in Keys
        BY <2>2, <3>1, <3>2 DEF Miss, TypeOK
      <3>4. cache' \in [Keys -> 0..made'] /\ armed' \subseteq 1..made'
        BY <2>2, <3>1 DEF Miss, TypeOK
      <3>5. call' \in [Callers -> CallRecord]
        BY <1>1, <2>2, <3>1 DEF Miss, TypeOK, CallRecord
      <3>6. \A d \in Callers : call'[d].on <= made'
        <4> TAKE d \in Callers
        <4>1. call[d].on \in Nat /\ call[d].on <= made
          BY DEF TypeOK, CallRecord
        <4>2. call'[d].on = call[d].on \/ call'[d].on = made + 1
          BY <1>1, <2>2 DEF Miss, TypeOK
        <4> QED
          BY <3>1, <4>1, <4>2 DEF TypeOK
      <3> QED
        BY <1>1, <3>1, <3>3, <3>4, <3>5, <3>6 DEF Call, TypeOK
    <2> QED
      BY <1>1, <2>1, <2>2 DEF Call
  <1>2. ASSUME NEW i \in 1..made, Answer(i) \/ Fail(i)
        PROVE  TypeOK'
    BY <1>2, SettleEffect DEF TypeOK
  <1>3. ASSUME NEW c \in Callers, Return(c)
        PROVE  TypeOK'
    BY <1>3 DEF Return, TypeOK, CallRecord
  <1>4. ASSUME NEW i \in armed, TimerFires(i)
        PROVE  TypeOK'
    BY <1>4 DEF TimerFires, TypeOK
  <1>5. ASSUME DeleteAll
        PROVE  TypeOK'
    <2>1. /\ cache' = [k \in Keys |-> 0]
          /\ UNCHANGED <<now, made, armed, call>>
          /\ puts' \in [Handles -> Put]
          /\ \A j \in Handles : puts'[j].key = puts[j].key
      BY <1>5, ClearEffect
    <2>2. made \in Nat /\ 1..made \subseteq Handles
      BY Handling
    <2> QED
      BY <2>1, <2>2 DEF TypeOK
  <1>6. ASSUME Tick
        PROVE  TypeOK'
    BY <1>6 DEF Tick, TypeOK
  <1>7. CASE UNCHANGED vars
    BY <1>7 DEF vars, TypeOK
  <1> QED
    BY <1>1, <1>2, <1>3, <1>4, <1>5, <1>6, <1>7 DEF Next

\* The cache, its puts, its timers and the calls keep their types.
THEOREM TypeCorrect == Spec => []TypeOK
  <1>1. Init => TypeOK
    BY InitType
  <1>2. TypeOK /\ [Next]_vars => TypeOK'
    BY StepType
  <1> QED
    BY <1>1, <1>2, PTL DEF Spec
-----------------------------------------------------------------------------
\* What each action does to the puts already made: a request keeps its key and
\* its date whatever happens.
LEMMA PutsStable ==
    ASSUME TypeOK, [Next]_vars
    PROVE  /\ made <= made'
           /\ \A i \in 1..made : /\ puts'[i].key = puts[i].key
                                 /\ puts'[i].at = puts[i].at
  <1> USE DEF Handles
  <1>1. ASSUME NEW c \in Callers, NEW k \in Keys, Call(c, k)
        PROVE  made <= made' /\ \A i \in 1..made : puts'[i] = puts[i]
    <2>1. made \in Nat
      BY DEF TypeOK
    <2>2. CASE Hit(c, k)
      BY <2>1, <2>2 DEF Hit
    <2>3. CASE Miss(c, k)
      BY <1>1, <2>1, <2>3, MissEffect
    <2> QED
      BY <1>1, <2>2, <2>3 DEF Call
  <1>2. ASSUME \/ \E c \in Callers : Return(c)
               \/ \E i \in armed : TimerFires(i)
               \/ Tick
               \/ UNCHANGED vars
        PROVE  made' = made /\ puts' = puts
    BY <1>2 DEF Return, TimerFires, Tick, vars
  <1>3. made \in Nat /\ 1..made \subseteq Handles
    BY Handling
  <1> QED
    BY <1>1, <1>2, <1>3, SettleEffect, ClearEffect DEF Next

LEMMA InitTime == Init => TimeInv
  BY InitType, CacheAssumption
     DEF Init, TimeInv, EntryHasOwnTimer, TimersOnTime, PutsDated, Has

\* An entry always has its own armed timer, no timer is overdue, and the dates
\* are in order: each action preserves the three together.
LEMMA StepTime == TimeInv /\ [Next]_vars => TimeInv'
  <1> SUFFICES ASSUME TimeInv, [Next]_vars
               PROVE  EntryHasOwnTimer' /\ TimersOnTime' /\ PutsDated'
    BY StepType DEF TimeInv
  <1> USE CacheAssumption DEF Handles, TimeInv
  <1> DEFINE Goal == EntryHasOwnTimer' /\ TimersOnTime' /\ PutsDated'
  <1>1. ASSUME NEW c \in Callers, NEW k \in Keys, Call(c, k)
        PROVE  Goal
    <2>1. CASE Hit(c, k)
      BY <1>1, <2>1
         DEF Call, Hit, EntryHasOwnTimer, TimersOnTime, PutsDated, Has, Due
    <2>2. CASE Miss(c, k)
      <3>1. /\ made' = made + 1 /\ made + 1 \in Handles
            /\ armed' = armed \cup {made + 1}
            /\ cache' = [cache EXCEPT ![k] = made + 1]
            /\ now' = now
        BY <1>1, <2>2, MissEffect
      <3>2. /\ puts'[made + 1] = NewPut(k)
            /\ \A i \in 1..made : puts'[i] = puts[i]
        BY <1>1, <2>2, MissEffect
      <3>3. TimersOnTime'
        BY <3>1, <3>2 DEF TimersOnTime, Due, NewPut, TypeOK
      <3>4. PutsDated'
        <4>1. now \in Nat /\ made \in Nat
          BY Handling
        <4>2. puts'[made + 1].at = now /\ puts'[made + 1].state = "sent"
          BY <3>2 DEF NewPut
        <4> QED
          BY <3>1, <3>2, <4>1, <4>2 DEF PutsDated
      <3>5. ASSUME NEW j \in Keys, cache'[j] # 0
            PROVE  /\ cache'[j] \in armed'
                   /\ puts'[cache'[j]].key = j
                   /\ now' <= puts'[cache'[j]].at + Ttl + Slack
        <4>1. CASE j = k
          BY <3>1, <3>2, <4>1 DEF NewPut, TypeOK
        <4>2. CASE j # k
          <5>1. cache'[j] = cache[j] /\ cache[j] \in 1..made
            BY <3>1, <3>5, <4>2 DEF TypeOK
          <5> QED
            BY <3>1, <3>2, <3>5, <5>1 DEF EntryHasOwnTimer, Has, Due
        <4> QED
          BY <4>1, <4>2
      <3> QED
        BY <3>3, <3>4, <3>5 DEF EntryHasOwnTimer, Has, Due
    <2> QED
      BY <1>1, <2>1, <2>2 DEF Call
  <1>2. ASSUME NEW i \in 1..made, Answer(i) \/ Fail(i)
        PROVE  Goal
    <2>1. /\ UNCHANGED <<now, cache, made, armed>>
          /\ \A j \in 1..made :
                /\ puts'[j].key = puts[j].key
                /\ puts'[j].at = puts[j].at
                /\ puts'[j].state = "resolved" =>
                      \/ puts'[j].value = now
                      \/ puts[j].state = "resolved" /\ puts'[j].value = puts[j].value
      BY <1>2, SettleEffect
    <2>2. EntryHasOwnTimer'
      BY <2>1 DEF EntryHasOwnTimer, Has, Due, TypeOK
    <2>3. TimersOnTime'
      BY <2>1 DEF TimersOnTime, Due, TypeOK
    <2>4. PutsDated'
      BY <2>1 DEF PutsDated
    <2> QED
      BY <2>2, <2>3, <2>4
  <1>3. ASSUME NEW c \in Callers, Return(c)
        PROVE  Goal
    BY <1>3 DEF Return, EntryHasOwnTimer, TimersOnTime, PutsDated, Has, Due
  <1>4. ASSUME NEW i \in armed, TimerFires(i)
        PROVE  Goal
    <2>1. EntryHasOwnTimer'
      BY <1>4 DEF TimerFires, EntryHasOwnTimer, Has, Due, TypeOK
    <2>2. TimersOnTime' /\ PutsDated'
      BY <1>4 DEF TimerFires, TimersOnTime, PutsDated, Due, TypeOK
    <2> QED
      BY <2>1, <2>2
  <1>5. ASSUME DeleteAll
        PROVE  Goal
    <2>1. 1..made \subseteq Handles
      BY Handling
    <2>2. \A j \in 1..made : /\ puts'[j].at = puts[j].at
                              /\ puts'[j].state = puts[j].state
                              /\ puts'[j].value = puts[j].value
      BY <1>5, <2>1, ClearEffect
    <2>3. /\ UNCHANGED <<now, made, armed>>
          /\ \A k \in Keys : cache'[k] = 0
      BY <1>5, ClearEffect
    <2>4. EntryHasOwnTimer'
      BY <2>3 DEF EntryHasOwnTimer, Has
    <2>5. TimersOnTime'
      BY <2>2, <2>3 DEF TimersOnTime, Due, TypeOK
    <2>6. PutsDated'
      BY <2>2, <2>3 DEF PutsDated
    <2> QED
      BY <2>4, <2>5, <2>6
  <1>6. ASSUME Tick
        PROVE  Goal
    <2>1. /\ now' = now + 1 /\ now \in Nat
          /\ UNCHANGED <<cache, made, puts, armed>>
          /\ \A i \in armed : now < Due(i) + Slack
      BY <1>6, Handling DEF Tick
    <2>2. \A i \in 1..made : i \in Handles /\ puts[i] \in Put
      BY Handling DEF TypeOK
    <2>3. \A i \in 1..made : puts[i].at \in Nat /\ Due(i) \in Nat
      BY <2>2 DEF Put, Due
    <2>4. \A i \in armed : i \in 1..made
      BY DEF TypeOK
    <2>5. TimersOnTime'
      BY <2>1, <2>3, <2>4 DEF TimersOnTime, Due
    <2>6. PutsDated'
      BY <2>1, <2>3 DEF PutsDated
    <2>7. EntryHasOwnTimer'
      BY <2>1, <2>5 DEF EntryHasOwnTimer, TimersOnTime, Has, Due
    <2> QED
      BY <2>5, <2>6, <2>7
  <1>7. CASE UNCHANGED vars
    BY <1>7 DEF vars, EntryHasOwnTimer, TimersOnTime, PutsDated, Has, Due
  <1> QED
    BY <1>1, <1>2, <1>3, <1>4, <1>5, <1>6, <1>7 DEF Next

\* No entry is ever left in _cache without a timer of its own that will evict it
\* on time, whatever deleteAllCachedData and stale timers do in between.
THEOREM EntriesExpire == Spec => []EntryHasOwnTimer
  <1>1. Init => TimeInv
    BY InitTime
  <1>2. TimeInv /\ [Next]_vars => TimeInv'
    BY StepTime
  <1>3. TimeInv => EntryHasOwnTimer
    BY DEF TimeInv
  <1> QED
    BY <1>1, <1>2, <1>3, PTL DEF Spec
-----------------------------------------------------------------------------
\* A call joins its request within the ttl: by the invariant on entries when it
\* hits, trivially when it misses.  Afterwards the answer can only be later.
LEMMA StepStale == TimeInv /\ BoundedStaleness /\ [Next]_vars => BoundedStaleness'
  <1> DEFINE Fresh(r, p) ==
        /\ r.at <= p.at + Ttl + Slack
        /\ p.key = r.key
        /\ p.state = "resolved" => r.at <= p.value + Ttl + Slack
  <1> SUFFICES ASSUME TimeInv, BoundedStaleness, [Next]_vars,
                      NEW d \in Callers, call'[d].on # 0
               PROVE  Fresh(call'[d], puts'[call'[d].on])
    BY DEF BoundedStaleness, Due
  <1> USE CacheAssumption DEF TimeInv
  <1>1. /\ made \in Nat /\ 1..made \subseteq Handles /\ now \in Nat
        /\ \A i \in 1..made : puts[i] \in Put
    BY Handling DEF TypeOK
  <1>2. ASSUME call[d].on # 0
        PROVE  Fresh(call[d], puts[call[d].on]) /\ call[d].on \in 1..made
    BY <1>2, <1>1 DEF BoundedStaleness, Due, TypeOK, CallRecord
  <1>3. ASSUME NEW c \in Callers, NEW k \in Keys, Call(c, k)
        PROVE  Fresh(call'[d], puts'[call'[d].on])
    <2>1. CASE Hit(c, k) /\ d = c
      <3>1. call'[d] = [key |-> k, at |-> now, on |-> cache[k], returned |-> FALSE]
        BY <2>1 DEF Hit, TypeOK
      <3>2. cache[k] \in 1..made /\ puts' = puts
        BY <2>1 DEF Hit, Has, TypeOK
      <3>3. puts[cache[k]].key = k /\ now <= puts[cache[k]].at + Ttl + Slack
        BY <2>1 DEF Hit, Has, EntryHasOwnTimer, Due
      <3>4. puts[cache[k]].state = "resolved" => puts[cache[k]].at <= puts[cache[k]].value
        BY <3>2 DEF PutsDated
      <3>5. puts[cache[k]].at \in Nat /\ puts[cache[k]].value \in Nat
        BY <1>1, <3>2 DEF Put
      <3> QED
        BY <1>1, <3>1, <3>2, <3>3, <3>4, <3>5
    <2>2. CASE Miss(c, k) /\ d = c
      <3>1. /\ puts'[made + 1] = NewPut(k)
            /\ call'[d] = [key |-> k, at |-> now, on |-> made + 1,
                           returned |-> FALSE]
        <4>1. puts'[made + 1] = NewPut(k)
          BY <1>3, <2>2, MissEffect
        <4>2. call'[c] = [key |-> k, at |-> now, on |-> made + 1,
                          returned |-> FALSE]
          BY <2>2 DEF Miss, TypeOK
        <4> QED
          BY <2>2, <4>1, <4>2
      <3> QED
        BY <1>1, <3>1 DEF NewPut
    <2>3. CASE d # c
      <3>1. call'[d] = call[d]
        BY <1>3, <2>3 DEF Call, Hit, Miss, TypeOK
      <3>2. puts'[call[d].on] = puts[call[d].on]
        <4>1. CASE Hit(c, k)
          BY <4>1 DEF Hit
        <4>2. CASE Miss(c, k)
          BY <1>2, <1>3, <3>1, <4>2, MissEffect
        <4> QED
          BY <1>3, <4>1, <4>2 DEF Call
      <3> QED
        BY <1>2, <3>1, <3>2
    <2> QED
      BY <1>3, <2>1, <2>2, <2>3 DEF Call
  <1>4. ASSUME NEW i \in 1..made, Answer(i) \/ Fail(i)
        PROVE  Fresh(call'[d], puts'[call'[d].on])
    <2>1. call'[d] = call[d]
      BY <1>4, SettleEffect
    <2>2. Fresh(call[d], puts[call[d].on]) /\ call[d].on \in 1..made
      BY <1>2, <2>1
    <2>3. call[d].on \in Handles /\ puts[call[d].on] \in Put /\ call[d].at \in Nat
      BY <1>1, <2>2 DEF TypeOK, CallRecord
    <2>4. puts[call[d].on].at \in Nat /\ puts[call[d].on].at <= now
      BY <2>2, <2>3 DEF PutsDated, Put
    <2>5. /\ puts'[call[d].on].key = puts[call[d].on].key
          /\ puts'[call[d].on].at = puts[call[d].on].at
          /\ puts'[call[d].on].state = "resolved" =>
                \/ puts'[call[d].on].value = now
                \/ /\ puts[call[d].on].state = "resolved"
                   /\ puts'[call[d].on].value = puts[call[d].on].value
      BY <1>4, <2>2, SettleEffect
    <2> QED
      BY <1>1, <2>1, <2>2, <2>3, <2>4, <2>5
  <1>5. ASSUME NEW c \in Callers, Return(c)
        PROVE  Fresh(call'[d], puts'[call'[d].on])
    <2>1. call[c] \in CallRecord
      BY DEF TypeOK
    <2>2. /\ call'[d].on = call[d].on
          /\ call'[d].at = call[d].at
          /\ call'[d].key = call[d].key
          /\ puts' = puts
      BY <1>5, <2>1 DEF Return, TypeOK, CallRecord
    <2> QED
      BY <1>2, <2>2
  <1>6. ASSUME DeleteAll
        PROVE  Fresh(call'[d], puts'[call'[d].on])
    <2>1. call' = call
      BY <1>6, ClearEffect
    <2>2. Fresh(call[d], puts[call[d].on]) /\ call[d].on \in Handles
      BY <1>1, <1>2, <2>1
    <2>3. /\ puts'[call[d].on].key = puts[call[d].on].key
          /\ puts'[call[d].on].at = puts[call[d].on].at
          /\ puts'[call[d].on].state = puts[call[d].on].state
          /\ puts'[call[d].on].value = puts[call[d].on].value
      BY <1>6, <2>2, ClearEffect
    <2> QED
      BY <2>1, <2>2, <2>3
  <1>7. ASSUME \/ \E i \in armed : TimerFires(i)
               \/ Tick
               \/ UNCHANGED vars
        PROVE  Fresh(call'[d], puts'[call'[d].on])
    <2>1. call' = call /\ puts' = puts
      BY <1>7 DEF TimerFires, Tick, vars
    <2> QED
      BY <1>2, <2>1
  <1> QED
    BY <1>3, <1>4, <1>5, <1>6, <1>7 DEF Next

\* No caller is ever answered by a request that was already older than the ttl
\* when it called, nor gets a chain state older than that.
THEOREM StalenessBounded == Spec => []BoundedStaleness
  <1>1. Init => TimeInv /\ BoundedStaleness
    BY InitTime DEF Init, BoundedStaleness, Idle
  <1>2. TimeInv /\ BoundedStaleness /\ [Next]_vars => TimeInv' /\ BoundedStaleness'
    BY StepTime, StepStale
  <1> QED
    BY <1>1, <1>2, PTL DEF Spec
-----------------------------------------------------------------------------
\* Which put an entry names, and which timers may touch it: preserved together.
LEMMA StepGuards ==
    TimeInv /\ EntryIsLatest /\ ArmedGuardsEntry /\ [Next]_vars
        => EntryIsLatest' /\ ArmedGuardsEntry'
  <1> SUFFICES ASSUME TimeInv, EntryIsLatest, ArmedGuardsEntry, [Next]_vars
               PROVE  EntryIsLatest' /\ ArmedGuardsEntry'
    OBVIOUS
  <1> USE CacheAssumption DEF TimeInv
  <1>1. /\ made \in Nat /\ 1..made \subseteq Handles
        /\ armed \subseteq 1..made
        /\ \A i \in 1..made : puts[i] \in Put /\ puts[i].key \in Keys
    BY Handling DEF TypeOK
  <1>2. ASSUME NEW c \in Callers, NEW k \in Keys, Call(c, k)
        PROVE  EntryIsLatest' /\ ArmedGuardsEntry'
    <2>1. CASE Hit(c, k)
      BY <2>1 DEF Hit, EntryIsLatest, ArmedGuardsEntry, NotCleared, Has
    <2>2. CASE Miss(c, k)
      <3>1. /\ made' = made + 1
            /\ armed' = armed \cup {made + 1}
            /\ cache' = [cache EXCEPT ![k] = made + 1]
            /\ puts'[made + 1] = NewPut(k)
            /\ \A i \in 1..made : puts'[i] = puts[i]
        BY <1>2, <2>2, MissEffect
      <3>2. /\ cache'[k] = made + 1
            /\ \A j \in Keys : j # k => cache'[j] = cache[j]
            /\ puts'[made + 1].key = k
            /\ cache[k] = 0
        BY <2>2, <3>1 DEF TypeOK, NewPut, Miss, Has
      <3>3. EntryIsLatest'
        BY <1>1, <3>1, <3>2 DEF EntryIsLatest, Has
      <3>4. ASSUME NEW i \in armed, NotCleared(i)'
            PROVE  cache'[puts'[i].key] = i
        <4>1. NotCleared(i)
          BY <1>1, <3>1, <3>4 DEF NotCleared
        <4>2. cache[puts[i].key] = i /\ i # 0
          BY <1>1, <4>1 DEF ArmedGuardsEntry
        <4>3. puts[i].key # k
          BY <3>2, <4>2
        <4> QED
          BY <1>1, <3>1, <3>2, <4>2, <4>3
      <3> QED
        BY <3>1, <3>2, <3>3, <3>4 DEF ArmedGuardsEntry
    <2> QED
      BY <1>2, <2>1, <2>2 DEF Call
  <1>3. ASSUME NEW n \in 1..made, Answer(n) \/ Fail(n)
        PROVE  EntryIsLatest' /\ ArmedGuardsEntry'
    <2>1. /\ UNCHANGED <<cache, made, armed>>
          /\ \A j \in 1..made : /\ puts'[j].key = puts[j].key
                                /\ puts'[j].cleared = puts[j].cleared
      BY <1>3, SettleEffect
    <2>2. \A i \in armed : NotCleared(i)' => NotCleared(i)
      BY <1>1, <2>1 DEF NotCleared
    <2> QED
      BY <1>1, <2>1, <2>2 DEF EntryIsLatest, ArmedGuardsEntry, Has
  <1>4. ASSUME NEW c \in Callers, Return(c)
        PROVE  EntryIsLatest' /\ ArmedGuardsEntry'
    BY <1>4 DEF Return, EntryIsLatest, ArmedGuardsEntry, NotCleared, Has
  <1>5. ASSUME NEW t \in armed, TimerFires(t)
        PROVE  EntryIsLatest' /\ ArmedGuardsEntry'
    <2>1. /\ armed' = armed \ {t}
          /\ cache' = [cache EXCEPT ![puts[t].key] = 0]
          /\ UNCHANGED <<made, puts>>
      BY <1>5 DEF TimerFires
    <2>2. EntryIsLatest'
      BY <1>1, <2>1 DEF EntryIsLatest, Has, TypeOK
    <2>3. ASSUME NEW i \in armed, i # t, NotCleared(i)
          PROVE  cache'[puts[i].key] = i
      <3>1. cache[puts[i].key] = i
        BY <2>3 DEF ArmedGuardsEntry
      <3>2. puts[t].key # puts[i].key
        <4> SUFFICES ASSUME puts[t].key = puts[i].key
                     PROVE  FALSE
          OBVIOUS
        <4>1. t <= i
          BY <1>1, <3>1 DEF EntryIsLatest, Has
        <4>2. NotCleared(t)
          BY <1>1, <2>3, <4>1 DEF NotCleared
        <4> QED
          BY <2>3, <3>1, <4>2 DEF ArmedGuardsEntry
      <3> QED
        BY <1>1, <2>1, <3>1, <3>2 DEF TypeOK
    <2> QED
      BY <2>1, <2>2, <2>3 DEF ArmedGuardsEntry, NotCleared
  <1>6. ASSUME DeleteAll
        PROVE  EntryIsLatest' /\ ArmedGuardsEntry'
    <2>1. /\ cache' = [k \in Keys |-> 0]
          /\ UNCHANGED <<made, armed>>
          /\ \A j \in Handles :
                /\ puts'[j].key = puts[j].key
                /\ puts[j].cleared => puts'[j].cleared
                /\ (\E k \in Keys : cache[k] = j) => puts'[j].cleared
      BY <1>6, ClearEffect
    <2>2. EntryIsLatest'
      BY <1>1, <2>1 DEF EntryIsLatest, Has
    <2>3. ASSUME NEW i \in armed, NotCleared(i)'
          PROVE  FALSE
      <3>1. NotCleared(i)
        BY <1>1, <2>1, <2>3 DEF NotCleared
      <3>2. cache[puts[i].key] = i
        BY <3>1 DEF ArmedGuardsEntry
      <3>3. puts'[i].cleared
        BY <1>1, <2>1, <3>2
      <3> QED
        BY <1>1, <2>3, <3>3 DEF NotCleared
    <2> QED
      BY <2>1, <2>2, <2>3 DEF ArmedGuardsEntry
  <1>7. ASSUME Tick \/ UNCHANGED vars
        PROVE  EntryIsLatest' /\ ArmedGuardsEntry'
    BY <1>7 DEF Tick, vars, EntryIsLatest, ArmedGuardsEntry, NotCleared, Has
  <1> QED
    BY <1>2, <1>3, <1>4, <1>5, <1>6, <1>7 DEF Next

\* A new request for a key finds the previous one timed out, unless something of
\* the key was cleared: an armed timer would still guard the entry.
LEMMA StepTtl == IndInv /\ [Next]_vars => CachedForTtlUnlessCleared'
  <1> SUFFICES ASSUME IndInv, [Next]_vars,
                      NEW i \in 1..made', NEW j \in 1..made', i < j,
                      puts'[i].key = puts'[j].key,
                      \A h \in 1..i : puts'[h].key = puts'[i].key
                                         => ~puts'[h].cleared
               PROVE  puts'[j].at >= puts'[i].at + Ttl
    BY DEF CachedForTtlUnlessCleared, Due
  <1> USE CacheAssumption DEF IndInv, TimeInv
  <1>1. /\ made \in Nat /\ 1..made \subseteq Handles /\ now \in Nat
        /\ \A h \in 1..made : puts[h] \in Put
    BY Handling DEF TypeOK
  <1>2. /\ made <= made'
        /\ \A h \in 1..made : puts'[h].key = puts[h].key /\ puts'[h].at = puts[h].at
    BY PutsStable
  <1>3. \A h \in 1..made : puts[h].cleared => puts'[h].cleared
    <2>1. ASSUME NEW n \in 1..made, Answer(n) \/ Fail(n)
          PROVE  \A h \in 1..made : puts[h].cleared => puts'[h].cleared
      BY <2>1, SettleEffect
    <2>2. ASSUME DeleteAll
          PROVE  \A h \in 1..made : puts[h].cleared => puts'[h].cleared
      BY <1>1, <2>2, ClearEffect
    <2>3. ASSUME NEW c \in Callers, NEW k \in Keys, Call(c, k)
          PROVE  \A h \in 1..made : puts[h].cleared => puts'[h].cleared
      <3>1. CASE Hit(c, k)
        BY <3>1 DEF Hit
      <3>2. CASE Miss(c, k)
        BY <2>3, <3>2, MissEffect
      <3> QED
        BY <2>3, <3>1, <3>2 DEF Call
    <2>4. ASSUME \/ \E c \in Callers : Return(c)
                 \/ \E t \in armed : TimerFires(t)
                 \/ Tick
                 \/ UNCHANGED vars
          PROVE  puts' = puts
      BY <2>4 DEF Return, TimerFires, Tick, vars
    <2> QED
      BY <2>1, <2>2, <2>3, <2>4 DEF Next
  <1>4. CASE j <= made
    <2>1. i \in 1..made /\ j \in 1..made
      BY <1>1, <1>4
    <2>2. \A h \in 1..i : h \in 1..made
      BY <1>1, <2>1
    <2>3. \A h \in 1..i : puts[h].key = puts[i].key => ~puts[h].cleared
      BY <1>2, <1>3, <2>1, <2>2
    <2>4. puts[j].at >= puts[i].at + Ttl
      BY <1>2, <2>1, <2>3 DEF CachedForTtlUnlessCleared, Due
    <2> QED
      BY <1>2, <2>1, <2>4
  <1>5. CASE j > made
    <2>1. PICK c \in Callers, k \in Keys : Call(c, k) /\ Miss(c, k)
      <3>1. made' # made
        BY <1>1, <1>5
      <3> QED
        BY <3>1, SettleEffect, ClearEffect
           DEF Next, vars, Call, Hit, Return, TimerFires, Tick
    <2>2. /\ made' = made + 1
          /\ puts'[made + 1] = NewPut(k)
          /\ \A h \in 1..made : puts'[h] = puts[h]
          /\ cache[k] = 0
      BY <2>1, MissEffect DEF Miss, Has
    <2>3. j = made + 1 /\ i \in 1..made
      BY <1>1, <1>5, <2>2
    <2>4. puts'[j].at = now /\ puts'[j].key = k
      BY <2>2, <2>3 DEF NewPut
    <2>5. puts[i].key = k
      BY <1>2, <2>3, <2>4
    <2>6. NotCleared(i)
      BY <1>1, <2>2, <2>3 DEF NotCleared
    <2>7. i \notin armed
      BY <2>2, <2>3, <2>5, <2>6 DEF ArmedGuardsEntry
    <2>8. Due(i) <= now
      BY <2>3, <2>7 DEF TimersOnTime
    <2>9. puts[i].at \in Nat
      BY <1>1, <2>3 DEF Put
    <2> QED
      BY <1>1, <1>2, <2>3, <2>4, <2>8, <2>9 DEF Due
  <1> QED
    BY <1>1, <1>2, <1>4, <1>5

\* Where nothing is ever cleared, the client asks the node for a key at most once
\* per ttl, whatever the callers do; a clear can only disturb keys it touched.
THEOREM RequestsAtMostOncePerTtl == Spec => []CachedForTtlUnlessCleared
  <1>1. Init => IndInv
    BY InitTime
       DEF Init, IndInv, BoundedStaleness, EntryIsLatest, ArmedGuardsEntry,
           CachedForTtlUnlessCleared, Idle
  <1>2. IndInv /\ [Next]_vars => IndInv'
    BY StepTime, StepStale, StepGuards, StepTtl DEF IndInv
  <1>3. IndInv => CachedForTtlUnlessCleared
    BY DEF IndInv
  <1> QED
    BY <1>1, <1>2, <1>3, PTL DEF Spec
=============================================================================
