------------------------ MODULE SendOperation_proofs ------------------------
(***************************************************************************)
(* Proofs about SendOperation, for any number of sends, operations in a    *)
(* batch, and foreign operations.  Known relates the estimates and limits  *)
(* of a send to the answers it got; Current says what its reads are worth  *)
(* as long as the account has not changed since it began.                  *)
(***************************************************************************)
EXTENDS SendOperation, SequenceTheorems, TLAPS

Revealing == {"reveal counter", "reveal simulation"}

Limited == {"last counter", "preapply", "injection", "done"}

Own(r) == r.limits = OwnLimits(r.size)

\* Whatever happens to the account.
Known(r) ==
    /\ r.pc = "idle" => r = Idle
    /\ r.pc = "revealed again?" /\ r.kind = "batch" =>
          r.estimates = Estimates(r.size, r.reveal)
    /\ r.pc \in Revealing => r.kind = "transfer"
    /\ r.pc \in {"revealed again?"} \cup Revealing /\ r.kind = "transfer" => Own(r)
    /\ r.pc \in Limited =>
          Own(r) \/ (r.kind = "batch" /\ r.disturbed /\ account.revealed)

\* As long as the account has not changed.
Current(r) ==
    ~r.disturbed =>
        /\ r.pc \in {"counter", "simulation", "last counter", "preapply", "injection"}
              => (r.reveal <=> ~account.revealed)
        /\ r.pc \in Revealing => r.reveal /\ ~account.revealed
        /\ r.pc = "revealed again?" /\ r.kind = "batch" =>
              (r.reveal <=> ~account.revealed)
        /\ r.pc \in {"simulation", "reveal simulation", "preapply", "injection"}
              => r.counter = account.counter
        /\ r.pc = "failed" => r.why \in {"request", "mempool"}

Typed(r) == r \in Send /\ Len(r.limits) \in {0, r.size}

SendInv == TypeOK /\ \A s \in Senders : Known(send[s]) /\ Current(send[s])
-----------------------------------------------------------------------------
(* Sequences of limits *)

LEMMA OwnLimitsType ==
    ASSUME NEW n \in 0..MaxOps
    PROVE  OwnLimits(n) \in Seq(0..MaxOps) /\ Len(OwnLimits(n)) = n
  <1>1. OwnLimits(n) \in [1..n -> 0..MaxOps]
    BY SendAssumption DEF OwnLimits
  <1> QED
    BY <1>1, SendAssumption, SeqDef, LenProperties DEF OwnLimits

LEMMA EstimatesType ==
    ASSUME NEW n \in 0..MaxOps, NEW reveal \in BOOLEAN
    PROVE  /\ Estimates(n, reveal) \in Seq(0..MaxOps)
           /\ reveal => Len(Estimates(n, reveal)) = n + 1
           /\ ~reveal => Len(Estimates(n, reveal)) = n
           /\ \A k \in 1..n : Estimates(n, reveal)[k + IF reveal THEN 1 ELSE 0] = k
  <1> DEFINE own == OwnLimits(n)
  <1>1. /\ own \in Seq(0..MaxOps) /\ Len(own) = n
        /\ \A k \in 1..n : own[k] = k
    BY OwnLimitsType DEF OwnLimits
  <1>2. <<0>> \in Seq(0..MaxOps) /\ Len(<<0>>) = 1
    BY SendAssumption
  <1> HIDE DEF own
  <1>3. /\ <<0>> \o own \in Seq(0..MaxOps)
        /\ Len(<<0>> \o own) = n + 1
        /\ \A k \in 1..n : (<<0>> \o own)[k + 1] = k
    BY <1>1, <1>2
  <1>4. CASE reveal
    BY <1>3, <1>4 DEF Estimates, own
  <1>5. CASE ~reveal
    BY <1>1, <1>5 DEF Estimates, own
  <1> QED
    BY <1>4, <1>5

\* What the batch takes from the estimates of its operations.
LEMMA TakenType ==
    ASSUME NEW e \in Seq(0..MaxOps), NEW n \in 0..MaxOps, NEW shift \in {0, 1},
           n + shift <= Len(e)
    PROVE  LET taken == [k \in 1..n |-> e[k + shift]]
           IN  taken \in Seq(0..MaxOps) /\ Len(taken) = n
  <1> DEFINE taken == [k \in 1..n |-> e[k + shift]]
  <1>1. taken \in [1..n -> 0..MaxOps]
    BY SendAssumption
  <1> QED
    BY <1>1, SendAssumption, SeqDef, LenProperties
-----------------------------------------------------------------------------
(* One send goes on *)

LEMMA GoesEffect ==
    ASSUME TypeOK, NEW s \in Senders, NEW new, Goes(s, new), Typed(new)
    PROVE  /\ send' \in [Senders -> Send]
           /\ send'[s] = new
           /\ \A t \in Senders : t # s => send'[t] = send[t]
           /\ \A t \in Senders : Len(send'[t].limits) \in {0, send'[t].size}
  BY DEF TypeOK, Goes, Typed

\* A step of a send that leaves the account alone keeps the invariant when what the
\* send becomes is known and current.
LEMMA GoesInv ==
    ASSUME SendInv, NEW s \in Senders, NEW new, Goes(s, new), Typed(new),
           account' = account, foreign' = foreign, pool' \in ManagerOperation,
           Known(new), Current(new)
    PROVE  SendInv'
  <1>1. TypeOK'
    BY GoesEffect DEF SendInv, TypeOK, AccountTypeOK
  <1>2. \A t \in Senders : Known(send'[t]) /\ Current(send'[t])
    BY GoesEffect DEF SendInv
  <1>3. \A t \in Senders : Known(send[t])' /\ Current(send[t])'
    BY <1>2 DEF Known, Current
  <1> QED
    BY <1>1, <1>3 DEF SendInv

LEMMA PreparedType ==
    ASSUME TypeOK, NEW s \in Senders
    PROVE  Prepared(s) \in ManagerOperation
  <1>1. send[s].counter \in Nat /\ send[s].reveal \in BOOLEAN /\ send[s].size \in 0..MaxOps
    BY DEF TypeOK, Send
  <1> QED
    BY <1>1, SendAssumption DEF Prepared, ManagerOperation

\* A send that is current has prepared what the node applies.
LEMMA PreparedApplies ==
    ASSUME SendInv, NEW s \in Senders, ~send[s].disturbed,
           send[s].pc \in {"simulation", "preapply", "injection"}
    PROVE  Applies(Prepared(s))
  BY DEF SendInv, Current, Prepared, Applies

LEMMA RevealApplies ==
    ASSUME SendInv, NEW s \in Senders, ~send[s].disturbed,
           send[s].pc = "reveal simulation"
    PROVE  Applies([Prepared(s) EXCEPT !.size = 0])
  BY DEF SendInv, Current, Prepared, Applies, Revealing

\* A failure that has a reason keeps the invariant.
LEMMA FailedInv ==
    ASSUME SendInv, NEW s \in Senders,
           NEW why \in {"request", "node", "estimates", "mempool"},
           why \in {"request", "mempool"} \/ send[s].disturbed
    PROVE  Typed(Failed(s, why)) /\ Known(Failed(s, why)) /\ Current(Failed(s, why))
  <1> DEFINE r == send[s]
             n == Failed(s, why)
  <1>1. r \in Send /\ Len(r.limits) \in {0, r.size}
    BY DEF SendInv, TypeOK
  <1>2. /\ n \in Send /\ n.limits = r.limits /\ n.size = r.size
        /\ n.pc = "failed" /\ n.why = why /\ n.disturbed = r.disturbed
    BY <1>1 DEF Failed, Send
  <1> HIDE DEF n
  <1>3. Typed(n)
    BY <1>1, <1>2 DEF Typed
  <1>4. Known(n)
    BY <1>2 DEF Known, Revealing, Limited
  <1>5. Current(n)
    BY <1>2 DEF Current, Revealing
  <1> QED
    BY <1>3, <1>4, <1>5 DEF n
-----------------------------------------------------------------------------
LEMMA InitInv == Init => SendInv
  <1> SUFFICES ASSUME Init
               PROVE  SendInv
    OBVIOUS
  <1>1. Typed(Idle)
    BY SendAssumption DEF Typed, Idle, Send
  <1>2. AccountTypeOK
    BY AccountAssumption DEF Init, AccountInit, AccountTypeOK, Account, NoOperation,
                             ManagerOperation
  <1>3. Known(Idle) /\ Current(Idle)
    BY DEF Idle, Known, Current, Revealing, Limited
  <1>4. \A s \in Senders : send[s] = Idle
    BY DEF Init
  <1> QED
    BY <1>1, <1>2, <1>3, <1>4 DEF SendInv, TypeOK, Init, Typed

\* What the account does to a send under way: only its disturbed flag changes.
LEMMA AccountInv == SendInv /\ AccountStep => SendInv'
  <1> SUFFICES ASSUME SendInv, AccountStep
               PROVE  SendInv'
    OBVIOUS
  <1>1. AccountTypeOK' /\ account'.revealed
    <2>1. /\ account.counter \in Nat /\ pool.size \in Nat /\ foreign \in 0..MaxForeign
          /\ pool \in ManagerOperation
      BY DEF SendInv, TypeOK, AccountTypeOK, Account, ManagerOperation
    <2>2. NoOperation \in ManagerOperation
      BY DEF NoOperation, ManagerOperation
    <2>3. CASE Bake
      <3>1. Length(pool) \in Nat
        BY <2>1 DEF Length
      <3> QED
        BY <2>1, <2>2, <2>3, <3>1 DEF Bake, AccountTypeOK, Account
    <2>4. CASE Foreign
      <3>1. foreign + 1 \in 0..MaxForeign
        BY <2>1, <2>4, AccountAssumption DEF Foreign
      <3>2. account.counter + (IF account.revealed THEN 1 ELSE 2) \in Nat
        BY <2>1
      <3> QED
        BY <2>2, <2>4, <3>1, <3>2 DEF Foreign, AccountTypeOK, Account
    <2> QED
      BY <2>3, <2>4 DEF AccountStep
  <1>2. \A s \in Senders :
           send'[s] = IF Running(s) THEN [send[s] EXCEPT !.disturbed = TRUE] ELSE send[s]
    BY DEF AccountStep
  <1>3. ASSUME NEW s \in Senders
        PROVE  /\ Typed(send'[s])
               /\ Known(send[s])'
               /\ Current(send[s])'
    <2> DEFINE r == send[s]
    <2>1. r \in Send /\ Len(r.limits) \in {0, r.size} /\ Known(r) /\ Current(r)
      BY DEF SendInv, TypeOK
    <2>2. CASE Running(s)
      <3>1. send'[s] = [r EXCEPT !.disturbed = TRUE]
        BY <1>2, <2>2
      <3>2. /\ send'[s] \in Send /\ send'[s].disturbed
            /\ send'[s].pc = r.pc /\ send'[s].kind = r.kind
            /\ send'[s].size = r.size /\ send'[s].reveal = r.reveal
            /\ send'[s].estimates = r.estimates /\ send'[s].limits = r.limits
        BY <2>1, <3>1 DEF Send
      <3>6. r.pc # "idle"
        BY <2>2 DEF Running
      <3> HIDE DEF r
      <3>3. Typed(send'[s])
        BY <2>1, <3>2 DEF Typed
      <3>4. Known(send[s])'
        BY <1>1, <2>1, <3>2, <3>6 DEF Known, Own
      <3>5. Current(send[s])'
        BY <3>2 DEF Current
      <3> QED
        BY <3>3, <3>4, <3>5
    <2>3. CASE ~Running(s)
      <3>1. send'[s] = r /\ r.pc \in {"idle", "done", "failed"}
        BY <1>2, <2>1, <2>3 DEF Running
      <3> QED
        BY <1>1, <2>1, <3>1 DEF Typed, Known, Current, Revealing, Limited
    <2> QED
      BY <2>2, <2>3
  <1>4. send' \in [Senders -> Send]
    BY <1>2, <1>3 DEF AccountStep, Typed
  <1> QED
    BY <1>1, <1>3, <1>4 DEF SendInv, TypeOK, Typed

\* A send begins: nothing is known of the account yet.
LEMMA BeginInv == \A s \in Senders : SendInv /\ Begin(s) => SendInv'
  <1> SUFFICES ASSUME NEW s \in Senders, SendInv, Begin(s)
               PROVE  SendInv'
    OBVIOUS
  <1> DEFINE r == send[s]
  <1>1. r \in Send /\ Len(r.limits) \in {0, r.size} /\ Known(r) /\ Current(r)
    BY DEF SendInv, TypeOK
  <1>2. account' = account /\ foreign' = foreign /\ pool' \in ManagerOperation
    BY  DEF Begin, accountVars, SendInv, TypeOK, AccountTypeOK
  <1>3. account.revealed \in BOOLEAN /\ account.counter \in Nat
    BY DEF SendInv, TypeOK, AccountTypeOK, Account
  <1>4. r = Idle /\ 1 \in 1..MaxOps /\ \A n \in 1..MaxOps : n \in 0..MaxOps
    <2>1. r.pc = "idle"
      BY DEF Begin
    <2>2. r = Idle
      BY <1>1, <2>1 DEF Known
    <2> QED
      BY <2>2, SendAssumption
  <1>5. ASSUME NEW m, NEW n \in 1..MaxOps, Goes(s, m), m \in Send, m.size = n,
               \/ m.pc = "revealed?" /\ m.limits = <<>>
               \/ m.pc = "revealed again?" /\ m.kind = "transfer" /\ m.limits = OwnLimits(n)
        PROVE  SendInv'
    <2>1. Typed(m)
      <3>1. Len(OwnLimits(n)) = n
        BY <1>4, OwnLimitsType
      <3> QED
        BY <1>5, <3>1 DEF Typed
    <2>2. Known(m) /\ Current(m)
      BY <1>5 DEF Known, Current, Own, Revealing, Limited
    <2> QED
      BY <1>2, <1>5, <2>1, <2>2, GoesInv
  <1>6. CASE Goes(s, [r EXCEPT !.pc = "revealed again?", !.kind = "transfer",
                               !.size = 1, !.limits = OwnLimits(1)])
    <2> DEFINE m == [r EXCEPT !.pc = "revealed again?", !.kind = "transfer",
                              !.size = 1, !.limits = OwnLimits(1)]
    <2>1. /\ m \in Send /\ m.pc = "revealed again?" /\ m.kind = "transfer"
          /\ m.size = 1 /\ m.limits = OwnLimits(1)
      <3>1. OwnLimits(1) \in Seq(0..MaxOps)
        BY <1>4, OwnLimitsType
      <3> QED
        BY <1>1, <1>4, <3>1 DEF Send
    <2> QED
      BY <1>4, <1>5, <1>6, <2>1
  <1>7. ASSUME NEW kind \in {"transfer", "batch"}, NEW n \in 1..MaxOps,
               Goes(s, [r EXCEPT !.pc = "revealed?", !.kind = kind, !.size = n])
        PROVE  SendInv'
    <2> DEFINE m == [r EXCEPT !.pc = "revealed?", !.kind = kind, !.size = n]
    <2>1. m \in Send /\ m.pc = "revealed?" /\ m.size = n /\ m.limits = <<>>
      <3>1. r.limits = <<>>
        <4>1. Idle.limits = <<>>
          BY DEF Idle
        <4> QED
          BY <1>4, <4>1
      <3> QED
        BY <1>1, <1>4, <3>1 DEF Send
    <2> QED
      BY <1>5, <1>7, <2>1
  <1> QED
    BY <1>4, <1>6, <1>7 DEF Begin
\* The estimator learns whether a reveal is needed.
LEMMA ReadRevealedInv == \A s \in Senders : SendInv /\ ReadRevealed(s) => SendInv'
  <1> SUFFICES ASSUME NEW s \in Senders, SendInv, ReadRevealed(s)
               PROVE  SendInv'
    OBVIOUS
  <1> DEFINE r == send[s]
  <1>1. r \in Send /\ Len(r.limits) \in {0, r.size} /\ Known(r) /\ Current(r)
    BY DEF SendInv, TypeOK
  <1>2. account' = account /\ foreign' = foreign /\ pool' \in ManagerOperation
    BY DEF ReadRevealed, accountVars, SendInv, TypeOK, AccountTypeOK
  <1>3. account.revealed \in BOOLEAN /\ account.counter \in Nat
    BY DEF SendInv, TypeOK, AccountTypeOK, Account
  <1> DEFINE m == [r EXCEPT !.pc = "counter", !.reveal = ~account.revealed]
  <1>4. /\ m \in Send /\ m.pc = "counter" /\ m.reveal = ~account.revealed
        /\ m.limits = r.limits /\ m.size = r.size
    BY <1>1, <1>3 DEF Send
  <1>5. Goes(s, m)
    BY DEF ReadRevealed
  <1> HIDE DEF m
  <1>6. Typed(m) /\ Known(m) /\ Current(m)
    BY <1>1, <1>4 DEF Typed, Known, Current, Revealing, Limited
  <1> QED
    BY <1>2, <1>5, <1>6, GoesInv

\* A counter is read: it is the one at the head.
LEMMA ReadCounterInv == \A s \in Senders : SendInv /\ ReadCounter(s) => SendInv'
  <1> SUFFICES ASSUME NEW s \in Senders, SendInv, ReadCounter(s)
               PROVE  SendInv'
    OBVIOUS
  <1> DEFINE r == send[s]
  <1>1. r \in Send /\ Len(r.limits) \in {0, r.size} /\ Known(r) /\ Current(r)
    BY DEF SendInv, TypeOK
  <1>2. account' = account /\ foreign' = foreign /\ pool' \in ManagerOperation
    BY DEF ReadCounter, accountVars, SendInv, TypeOK, AccountTypeOK
  <1>3. account.revealed \in BOOLEAN /\ account.counter \in Nat
    BY DEF SendInv, TypeOK, AccountTypeOK, Account
  <1>4. ASSUME NEW from, NEW to,
               \/ from = "counter" /\ to = "simulation"
               \/ from = "reveal counter" /\ to = "reveal simulation"
               \/ from = "last counter" /\ to = "preapply",
               r.pc = from,
               Goes(s, [r EXCEPT !.pc = to, !.counter = account.counter])
        PROVE  SendInv'
    <2> DEFINE m == [r EXCEPT !.pc = to, !.counter = account.counter]
    <2>1. /\ m \in Send /\ m.pc = to /\ m.counter = account.counter
          /\ m.limits = r.limits /\ m.size = r.size /\ m.reveal = r.reveal
          /\ m.kind = r.kind /\ m.disturbed = r.disturbed
      BY <1>1, <1>3, <1>4 DEF Send
    <2> HIDE DEF m
    <2>2. Typed(m)
      BY <1>1, <2>1 DEF Typed
    <2>3. Known(m)
      BY <1>1, <1>4, <2>1 DEF Known, Own, Revealing, Limited
    <2>4. Current(m)
      BY <1>1, <1>4, <2>1 DEF Current, Revealing
    <2> QED
      BY <1>2, <1>4, <2>2, <2>3, <2>4, GoesInv DEF m
  <1>5. PICK step \in {<<"counter", "simulation">>, <<"reveal counter", "reveal simulation">>,
                       <<"last counter", "preapply">>} :
           /\ r.pc = step[1]
           /\ Goes(s, [r EXCEPT !.pc = step[2], !.counter = account.counter])
    BY DEF ReadCounter
  <1>6. \/ step[1] = "counter" /\ step[2] = "simulation"
        \/ step[1] = "reveal counter" /\ step[2] = "reveal simulation"
        \/ step[1] = "last counter" /\ step[2] = "preapply"
    <2>1. CASE step = <<"counter", "simulation">>
      BY <2>1
    <2>2. CASE step = <<"reveal counter", "reveal simulation">>
      BY <2>2
    <2>3. CASE step = <<"last counter", "preapply">>
      BY <2>3
    <2> QED
      BY <2>1, <2>2, <2>3
  <1> QED
    BY <1>4, <1>5, <1>6

\* The estimates are known by the operations they are for.
LEMMA SimulateInv == \A s \in Senders : SendInv /\ Simulate(s) => SendInv'
  <1> SUFFICES ASSUME NEW s \in Senders, SendInv, Simulate(s)
               PROVE  SendInv'
    OBVIOUS
  <1> DEFINE r == send[s]
  <1>1. r \in Send /\ Len(r.limits) \in {0, r.size} /\ Known(r) /\ Current(r)
    BY DEF SendInv, TypeOK
  <1>2. account' = account /\ foreign' = foreign /\ pool' \in ManagerOperation
    BY DEF Simulate, accountVars, SendInv, TypeOK, AccountTypeOK
  <1>3. account.revealed \in BOOLEAN /\ account.counter \in Nat
    BY DEF SendInv, TypeOK, AccountTypeOK, Account
  <1>4. r.pc = "simulation" /\ r.size \in 0..MaxOps /\ r.reveal \in BOOLEAN
    BY <1>1 DEF Simulate, Send
  <1>5. CASE ~Applies(Prepared(s))
    <2>1. r.disturbed
      BY <1>4, <1>5, PreparedApplies
    <2>2. Goes(s, Failed(s, "node"))
      BY <1>5 DEF Simulate
    <2> QED
      BY <1>2, <2>1, <2>2, FailedInv, GoesInv
  <1>6. CASE Applies(Prepared(s)) /\ r.kind = "batch"
    <2> DEFINE m == [r EXCEPT !.pc = "revealed again?",
                              !.estimates = Estimates(r.size, r.reveal)]
    <2>1. Estimates(r.size, r.reveal) \in Seq(0..MaxOps)
      BY <1>4, EstimatesType
    <2>2. /\ m \in Send /\ m.pc = "revealed again?" /\ m.kind = "batch"
          /\ m.estimates = Estimates(m.size, m.reveal)
          /\ m.limits = r.limits /\ m.size = r.size /\ m.reveal = r.reveal
          /\ m.disturbed = r.disturbed
      BY <1>1, <1>6, <2>1 DEF Send
    <2>3. Goes(s, m)
      BY <1>6 DEF Simulate
    <2> HIDE DEF m
    <2>4. Typed(m) /\ Known(m)
      BY <1>1, <2>2 DEF Typed, Known, Revealing, Limited
    <2>5. Current(m)
      BY <1>1, <1>4, <2>2 DEF Current, Revealing
    <2> QED
      BY <1>2, <2>3, <2>4, <2>5, GoesInv
  <1>7. CASE Applies(Prepared(s)) /\ r.kind # "batch"
    <2> DEFINE m == [r EXCEPT !.pc = "revealed again?", !.limits = OwnLimits(r.size)]
    <2>1. OwnLimits(r.size) \in Seq(0..MaxOps) /\ Len(OwnLimits(r.size)) = r.size
      BY <1>4, OwnLimitsType
    <2>2. /\ m \in Send /\ m.pc = "revealed again?" /\ m.kind # "batch"
          /\ m.size = r.size /\ m.limits = OwnLimits(r.size)
      BY <1>1, <1>7, <2>1 DEF Send
    <2>3. Goes(s, m)
      BY <1>7 DEF Simulate
    <2> HIDE DEF m
    <2>4. Typed(m) /\ Known(m)
      BY <2>1, <2>2 DEF Typed, Known, Own, Revealing, Limited
    <2>5. Current(m)
      BY <2>2 DEF Current, Revealing
    <2> QED
      BY <1>2, <2>3, <2>4, <2>5, GoesInv
  <1> QED
    BY <1>5, <1>6, <1>7

\* The reveal is estimated by itself.
LEMMA SimulateRevealInv == \A s \in Senders : SendInv /\ SimulateReveal(s) => SendInv'
  <1> SUFFICES ASSUME NEW s \in Senders, SendInv, SimulateReveal(s)
               PROVE  SendInv'
    OBVIOUS
  <1> DEFINE r == send[s]
  <1>1. r \in Send /\ Len(r.limits) \in {0, r.size} /\ Known(r) /\ Current(r)
    BY DEF SendInv, TypeOK
  <1>2. account' = account /\ foreign' = foreign /\ pool' \in ManagerOperation
    BY DEF SimulateReveal, accountVars, SendInv, TypeOK, AccountTypeOK
  <1>3. account.revealed \in BOOLEAN /\ account.counter \in Nat
    BY DEF SendInv, TypeOK, AccountTypeOK, Account
  <1>4. r.pc = "reveal simulation"
    BY DEF SimulateReveal
  <1>5. CASE ~Applies([Prepared(s) EXCEPT !.size = 0])
    <2>1. r.disturbed
      BY <1>4, <1>5, RevealApplies
    <2>2. Goes(s, Failed(s, "node"))
      BY <1>5 DEF SimulateReveal
    <2> QED
      BY <1>2, <2>1, <2>2, FailedInv, GoesInv
  <1>6. CASE Applies([Prepared(s) EXCEPT !.size = 0])
    <2> DEFINE m == [r EXCEPT !.pc = "last counter"]
    <2>1. /\ m \in Send /\ m.pc = "last counter" /\ m.kind = r.kind
          /\ m.limits = r.limits /\ m.size = r.size /\ m.reveal = r.reveal
          /\ m.disturbed = r.disturbed
      BY <1>1 DEF Send
    <2>2. Goes(s, m)
      BY <1>6 DEF SimulateReveal
    <2> HIDE DEF m
    <2>3. Typed(m) /\ Known(m)
      BY <1>1, <1>4, <2>1 DEF Typed, Known, Own, Revealing, Limited
    <2>4. Current(m)
      BY <1>1, <1>4, <2>1 DEF Current, Revealing
    <2> QED
      BY <1>2, <2>2, <2>3, <2>4, GoesInv
  <1> QED
    BY <1>5, <1>6

\* The status read again decides on the reveal and, in a batch, on the shift.
LEMMA ReadRevealedAgainInv == \A s \in Senders : SendInv /\ ReadRevealedAgain(s) => SendInv'
  <1> SUFFICES ASSUME NEW s \in Senders, SendInv, ReadRevealedAgain(s)
               PROVE  SendInv'
    OBVIOUS
  <1> DEFINE r == send[s]
  <1>1. r \in Send /\ Len(r.limits) \in {0, r.size} /\ Known(r) /\ Current(r)
    BY DEF SendInv, TypeOK
  <1>2. account' = account /\ foreign' = foreign /\ pool' \in ManagerOperation
    BY DEF ReadRevealedAgain, accountVars, SendInv, TypeOK, AccountTypeOK
  <1>3. account.revealed \in BOOLEAN /\ account.counter \in Nat
    BY DEF SendInv, TypeOK, AccountTypeOK, Account
  <1>4. r.pc = "revealed again?" /\ r.size \in 0..MaxOps
    BY <1>1 DEF ReadRevealedAgain, Send
  <1>5. CASE RevealTransfer(s)
    <2> DEFINE m == [r EXCEPT !.reveal = ~account.revealed,
                              !.pc = IF account.revealed THEN "last counter"
                                     ELSE "reveal counter"]
    <2>1. /\ m \in Send /\ m.reveal = ~account.revealed
          /\ m.pc = IF account.revealed THEN "last counter" ELSE "reveal counter"
          /\ m.kind = "transfer" /\ m.size = r.size /\ m.limits = r.limits
      BY <1>1, <1>3, <1>5 DEF RevealTransfer, Send
    <2>2. Goes(s, m)
      BY <1>5 DEF RevealTransfer
    <2>3. Own(r)
      BY <1>1, <1>4, <1>5 DEF Known, RevealTransfer
    <2> HIDE DEF m
    <2>4. Typed(m) /\ Known(m)
      BY <1>1, <2>1, <2>3 DEF Typed, Known, Own, Revealing, Limited
    <2>5. Current(m)
      BY <2>1 DEF Current, Revealing
    <2> QED
      BY <1>2, <2>2, <2>4, <2>5, GoesInv
  <1>6. CASE RevealBatch(s)
    <2> DEFINE shift == IF account.revealed THEN 0 ELSE 1
               taken == [k \in 1..r.size |-> r.estimates[k + shift]]
               m == [r EXCEPT !.pc = "last counter", !.reveal = ~account.revealed,
                              !.limits = taken]
    <2>1. /\ r.kind = "batch" /\ r.reveal \in BOOLEAN
          /\ r.estimates = Estimates(r.size, r.reveal)
      BY <1>1, <1>4, <1>6 DEF RevealBatch, Known, Send
    <2>2. /\ r.estimates \in Seq(0..MaxOps)
          /\ r.reveal => Len(r.estimates) = r.size + 1
          /\ ~r.reveal => Len(r.estimates) = r.size
          /\ \A k \in 1..r.size : r.estimates[k + IF r.reveal THEN 1 ELSE 0] = k
      <3> DEFINE n == r.size
                 reveal == r.reveal
      <3>1. n \in 0..MaxOps /\ reveal \in BOOLEAN
        BY <1>4, <2>1
      <3>2. r.estimates = Estimates(n, reveal)
        BY <2>1
      <3> HIDE DEF n, reveal
      <3>3. /\ r.estimates \in Seq(0..MaxOps)
            /\ reveal => Len(r.estimates) = n + 1
            /\ ~reveal => Len(r.estimates) = n
            /\ \A k \in 1..n : r.estimates[k + IF reveal THEN 1 ELSE 0] = k
        BY <3>1, <3>2, EstimatesType
      <3> QED
        BY <3>3 DEF n, reveal
    <2>3. ~r.disturbed => (r.reveal <=> ~account.revealed)
      BY <1>1, <1>4, <2>1 DEF Current
    <2>4. /\ r.size \in Nat
          /\ account.revealed => shift = 0
          /\ ~account.revealed => shift = 1
      <3>1. r.size \in Nat
        <4>1. r.size \in 0..MaxOps /\ MaxOps \in Nat
          BY <1>4, SendAssumption
        <4> HIDE DEF r
        <4> QED
          BY <4>1
      <3>2. CASE account.revealed
        BY <3>1, <3>2
      <3>3. CASE ~account.revealed
        BY <3>1, <3>3
      <3> QED
        BY <3>2, <3>3
    <2>5. CASE r.size + shift > Len(r.estimates)
      <3>1. r.disturbed
        <4> HIDE DEF shift
        <4> QED
          BY <2>2, <2>3, <2>5, <2>4
      <3>2. Goes(s, Failed(s, "estimates"))
        BY <1>6, <2>5 DEF RevealBatch
      <3> QED
        BY <1>2, <3>1, <3>2, FailedInv, GoesInv
    <2>6. CASE ~(r.size + shift > Len(r.estimates))
      <3>1. Goes(s, m)
        BY <1>6, <2>6 DEF RevealBatch
      <3>2. r.size + shift <= Len(r.estimates) /\ shift \in {0, 1}
        BY <2>2, <2>6, <2>4
      <3>3. taken \in Seq(0..MaxOps) /\ Len(taken) = r.size
        <4> HIDE DEF shift
        <4> QED
          BY <1>4, <2>2, <3>2, TakenType
      <3>4. taken = OwnLimits(r.size) \/ (r.disturbed /\ account.revealed)
        <4>1. CASE r.reveal <=> ~account.revealed
          <5>1. \A k \in 1..r.size : r.estimates[k + shift] = k
            BY <2>2, <4>1
          <5> QED
            BY <5>1 DEF OwnLimits
        <4>2. CASE ~(r.reveal <=> ~account.revealed)
          <5>1. r.disturbed
            BY <2>3, <4>2
          <5>2. account.revealed
            <6> HIDE DEF shift
            <6> QED
              BY <2>2, <2>6, <2>4, <4>2
          <5> QED
            BY <5>1, <5>2
        <4> QED
          BY <4>1, <4>2
      <3> HIDE DEF taken, shift
      <3>5. /\ m \in Send /\ m.pc = "last counter" /\ m.reveal = ~account.revealed
            /\ m.kind = "batch" /\ m.size = r.size /\ m.limits = taken
            /\ m.disturbed = r.disturbed
        BY <1>1, <1>3, <2>1, <3>3 DEF Send
      <3> HIDE DEF m
      <3>6. Typed(m)
        BY <3>3, <3>5 DEF Typed
      <3>7. Known(m)
        BY <3>4, <3>5 DEF Known, Own, Revealing, Limited
      <3>8. Current(m)
        BY <3>5 DEF Current, Revealing
      <3> QED
        BY <1>2, <3>1, <3>6, <3>7, <3>8, GoesInv
    <2> QED
      BY <2>5, <2>6
  <1> QED
    BY <1>5, <1>6 DEF ReadRevealedAgain

\* What is current is applied with its own limits, so the node has no objection.
LEMMA PreapplyInv == \A s \in Senders : SendInv /\ Preapply(s) => SendInv'
  <1> SUFFICES ASSUME NEW s \in Senders, SendInv, Preapply(s)
               PROVE  SendInv'
    OBVIOUS
  <1> DEFINE r == send[s]
  <1>1. r \in Send /\ Len(r.limits) \in {0, r.size} /\ Known(r) /\ Current(r)
    BY DEF SendInv, TypeOK
  <1>2. account' = account /\ foreign' = foreign /\ pool' \in ManagerOperation
    BY DEF Preapply, accountVars, SendInv, TypeOK, AccountTypeOK
  <1>3. account.revealed \in BOOLEAN /\ account.counter \in Nat
    BY DEF SendInv, TypeOK, AccountTypeOK, Account
  <1>4. r.pc = "preapply"
    BY DEF Preapply
  <1>5. CASE Goes(s, [r EXCEPT !.pc = "injection"])
    <2> DEFINE m == [r EXCEPT !.pc = "injection"]
    <2>1. /\ m \in Send /\ m.pc = "injection" /\ m.kind = r.kind
          /\ m.limits = r.limits /\ m.size = r.size /\ m.reveal = r.reveal
          /\ m.counter = r.counter /\ m.disturbed = r.disturbed
      BY <1>1 DEF Send
    <2> HIDE DEF m
    <2>2. Typed(m) /\ Known(m)
      BY <1>1, <1>4, <2>1 DEF Typed, Known, Own, Revealing, Limited
    <2>3. Current(m)
      BY <1>1, <1>4, <2>1 DEF Current, Revealing
    <2> QED
      BY <1>2, <1>5, <2>2, <2>3, GoesInv DEF m
  <1>6. ASSUME NEW why \in {"estimates", "node"}, Goes(s, Failed(s, why)),
               ~Applies(Prepared(s)) \/ r.limits # OwnLimits(r.size)
        PROVE  SendInv'
    <2>1. r.disturbed
      BY <1>1, <1>4, <1>6, PreparedApplies DEF Known, Own, Limited
    <2> QED
      BY <1>2, <1>6, <2>1, FailedInv, GoesInv
  <1> QED
    BY <1>5, <1>6 DEF Preapply

\* The mempool takes what is current unless another operation waits there.
LEMMA InjectInv == \A s \in Senders : SendInv /\ Inject(s) => SendInv'
  <1> SUFFICES ASSUME NEW s \in Senders, SendInv, Inject(s)
               PROVE  SendInv'
    OBVIOUS
  <1> DEFINE r == send[s]
  <1>1. r \in Send /\ Len(r.limits) \in {0, r.size} /\ Known(r) /\ Current(r)
    BY DEF SendInv, TypeOK
  <1>2. account' = account /\ foreign' = foreign /\ pool' \in ManagerOperation
    BY PreparedType DEF Inject, accountVars, SendInv, TypeOK, AccountTypeOK
  <1>3. account.revealed \in BOOLEAN /\ account.counter \in Nat
    BY DEF SendInv, TypeOK, AccountTypeOK, Account
  <1>4. r.pc = "injection"
    BY DEF Inject
  <1>5. CASE Takes(Prepared(s))
    <2> DEFINE m == [r EXCEPT !.pc = "done"]
    <2>1. /\ m \in Send /\ m.pc = "done" /\ m.kind = r.kind
          /\ m.limits = r.limits /\ m.size = r.size /\ m.disturbed = r.disturbed
      BY <1>1 DEF Send
    <2>2. Goes(s, m)
      BY <1>5 DEF Inject
    <2> HIDE DEF m
    <2>3. Typed(m) /\ Known(m)
      BY <1>1, <1>4, <2>1 DEF Typed, Known, Own, Revealing, Limited
    <2>4. Current(m)
      BY <2>1 DEF Current, Revealing
    <2> QED
      BY <1>2, <2>2, <2>3, <2>4, GoesInv
  <1>6. CASE ~Takes(Prepared(s))
    <2> DEFINE why == IF pool # NoOperation THEN "mempool" ELSE "node"
    <2>1. why = "mempool" \/ r.disturbed
      BY <1>4, <1>6, PreparedApplies DEF Takes
    <2>2. Goes(s, Failed(s, why))
      BY <1>6 DEF Inject
    <2>3. why \in {"request", "node", "estimates", "mempool"}
      OBVIOUS
    <2> HIDE DEF why
    <2> QED
      BY <1>2, <2>1, <2>2, <2>3, FailedInv, GoesInv
  <1> QED
    BY <1>5, <1>6

\* A failing request has a reason of its own.
LEMMA RequestFailsInv == \A s \in Senders : SendInv /\ RequestFails(s) => SendInv'
  <1> SUFFICES ASSUME NEW s \in Senders, SendInv, RequestFails(s)
               PROVE  SendInv'
    OBVIOUS
  <1> DEFINE r == send[s]
  <1>1. r \in Send /\ Len(r.limits) \in {0, r.size} /\ Known(r) /\ Current(r)
    BY DEF SendInv, TypeOK
  <1>2. account' = account /\ foreign' = foreign /\ pool' \in ManagerOperation
    BY DEF RequestFails, accountVars, SendInv, TypeOK, AccountTypeOK
  <1>3. account.revealed \in BOOLEAN /\ account.counter \in Nat
    BY DEF SendInv, TypeOK, AccountTypeOK, Account
  <1>4. Goes(s, Failed(s, "request"))
    BY DEF RequestFails
  <1> QED
    BY <1>2, <1>4, FailedInv, GoesInv

-----------------------------------------------------------------------------
\* One step per action.
LEMMA StepInv == SendInv /\ [Next]_vars => SendInv'
  <1> SUFFICES ASSUME SendInv, [Next]_vars
               PROVE  SendInv'
    OBVIOUS
  <1>1. CASE AccountStep
    BY <1>1, AccountInv
  <1>2. ASSUME NEW s \in Senders, SendStep(s)
        PROVE  SendInv'
    BY <1>2, BeginInv, ReadRevealedInv, ReadCounterInv, SimulateInv, ReadRevealedAgainInv,
       SimulateRevealInv, PreapplyInv, InjectInv, RequestFailsInv DEF SendStep
  <1>3. CASE UNCHANGED vars
    BY <1>3 DEF vars, SendInv, TypeOK, AccountTypeOK, Known, Current
  <1> QED
    BY <1>1, <1>2, <1>3 DEF Next

LEMMA AlwaysInv == Spec => []SendInv
  BY InitInv, StepInv, PTL DEF Spec

\* The types of the account, the mempool and the sends are invariant, however many
\* sends there are: an operation has no limits or one for each of its contents.
THEOREM TypeCorrect == Spec => []TypeOK
  <1>1. SendInv => TypeOK
    BY DEF SendInv
  <1> QED
    BY <1>1, AlwaysInv, PTL

\* A send fails only for a reason outside of it: the counter, the revealed status
\* and the estimates that the pipeline reads one after the other fit together
\* whenever the account stays as it is.
THEOREM PipelineFits == Spec => []UndisturbedSendSucceeds
  <1>1. SendInv => UndisturbedSendSucceeds
    BY DEF SendInv, Current, UndisturbedSendSucceeds
  <1> QED
    BY <1>1, AlwaysInv, PTL

\* Every operation is sent with the limits estimated for it, except in a batch
\* whose account was revealed between the estimate and the second look at it.
THEOREM LimitsAreOwn == Spec => []LimitsFitUnlessRevealed
  <1>1. SendInv => LimitsFitUnlessRevealed
    BY DEF SendInv, Known, Own, Limited, LimitsFitUnlessRevealed
  <1> QED
    BY <1>1, AlwaysInv, PTL

-----------------------------------------------------------------------------
(* The sends of a toolkit among themselves *)

\* While no other client has used the account and no send is done, nothing waits in the
\* mempool, no send was disturbed, and none was turned away by the mempool.
Quiet ==
    foreign = 0 /\ (\A s \in Senders : send[s].pc # "done") =>
        /\ pool = NoOperation
        /\ \A s \in Senders : ~send[s].disturbed /\ send[s].why # "mempool"

\* Only a send that is done puts something into the mempool, one that is done stays so, and
\* a send's own step does not disturb it.
LEMMA SendStepEffect ==
    ASSUME SendInv, NEW s \in Senders, SendStep(s)
    PROVE  /\ foreign' = foreign /\ send[s].pc # "done"
           /\ \A t \in Senders : t # s => send'[t] = send[t]
           /\ send'[s].disturbed = send[s].disturbed
           /\ send'[s].why = "mempool" => send[s].why = "mempool" \/ pool # NoOperation
           /\ pool' = pool \/ send'[s].pc = "done"
  <1> DEFINE r == send[s]
  <1>1. send \in [Senders -> Send] /\ r \in Send
    BY DEF SendInv, TypeOK
  <1>2. \A new : Goes(s, new) =>
           send'[s] = new /\ \A t \in Senders : t # s => send'[t] = send[t]
    BY <1>1 DEF Goes
  <1>3. \A why : LET new == Failed(s, why)
                 IN  new.disturbed = r.disturbed /\ new.why = why /\ new.pc = "failed"
    BY <1>1 DEF Failed, Send
  <1>4. CASE Begin(s)
    <2>1. r.pc # "done" /\ pool' = pool /\ foreign' = foreign
      BY <1>4 DEF Begin, accountVars
    <2>2. CASE \E limits : Goes(s, [r EXCEPT !.pc = "revealed again?", !.kind = "transfer",
                                           !.size = 1, !.limits = limits])
      <3>1. PICK limits : Goes(s, [r EXCEPT !.pc = "revealed again?", !.kind = "transfer",
                                            !.size = 1, !.limits = limits])
        BY <2>2
      <3> DEFINE new == [r EXCEPT !.pc = "revealed again?", !.kind = "transfer",
                                  !.size = 1, !.limits = limits]
      <3>2. new.disturbed = r.disturbed /\ new.why = r.why
        BY <1>1 DEF Send
      <3> QED
        BY <3>1, <3>2, <2>1, <1>2
    <2>3. CASE \E kind, n : Goes(s, [r EXCEPT !.pc = "revealed?", !.kind = kind, !.size = n])
      <3>1. PICK kind, n : Goes(s, [r EXCEPT !.pc = "revealed?", !.kind = kind, !.size = n])
        BY <2>3
      <3> DEFINE new == [r EXCEPT !.pc = "revealed?", !.kind = kind, !.size = n]
      <3>2. new.disturbed = r.disturbed /\ new.why = r.why
        BY <1>1 DEF Send
      <3> QED
        BY <3>1, <3>2, <2>1, <1>2
    <2> QED
      BY <2>2, <2>3, <1>4 DEF Begin
  <1>5. CASE ReadRevealed(s)
    BY <1>1, <1>5 DEF ReadRevealed, Goes, accountVars, Send
  <1>6. CASE ReadCounter(s)
    <2>1. PICK step \in {<<"counter", "simulation">>, <<"reveal counter", "reveal simulation">>,
                         <<"last counter", "preapply">>} :
             r.pc = step[1]
             /\ Goes(s, [r EXCEPT !.pc = step[2], !.counter = account.counter])
      BY <1>6 DEF ReadCounter
    <2>2. r.pc # "done" /\ pool' = pool /\ foreign' = foreign
      <3>1. step[1] # "done"
        <4>1. CASE step = <<"counter", "simulation">>
          BY <4>1
        <4>2. CASE step = <<"reveal counter", "reveal simulation">>
          BY <4>2
        <4>3. CASE step = <<"last counter", "preapply">>
          BY <4>3
        <4> QED
          BY <4>1, <4>2, <4>3
      <3>2. UNCHANGED accountVars
        BY <1>6 DEF ReadCounter
      <3> QED
        BY <3>1, <3>2, <2>1 DEF accountVars
    <2> DEFINE new == [r EXCEPT !.pc = step[2], !.counter = account.counter]
    <2>3. new.disturbed = r.disturbed /\ new.why = r.why
      BY <1>1 DEF Send
    <2>4. Goes(s, new)
      BY <2>1
    <2> HIDE DEF new
    <2> QED
      BY <2>2, <2>3, <2>4, <1>2
  <1>7. CASE Simulate(s)
    BY <1>1, <1>7 DEF Simulate, Goes, Failed, accountVars, Send
  <1>8. CASE ReadRevealedAgain(s)
    <2>1. r.pc # "done" /\ pool' = pool /\ foreign' = foreign
      BY <1>8 DEF ReadRevealedAgain, accountVars
    <2>2. CASE RevealTransfer(s)
      BY <2>1, <2>2, <1>1 DEF RevealTransfer, Goes, Send
    <2>3. CASE RevealBatch(s) /\ Goes(s, Failed(s, "estimates"))
      BY <2>1, <2>3, <1>2, <1>3
    <2>4. CASE RevealBatch(s) /\ ~Goes(s, Failed(s, "estimates"))
      <3>1. PICK limits : Goes(s, [r EXCEPT !.pc = "last counter", !.reveal = ~account.revealed,
                                            !.limits = limits])
        BY <2>4 DEF RevealBatch
      <3> QED
        BY <3>1, <2>1, <1>1 DEF Goes, Send
    <2> QED
      BY <2>2, <2>3, <2>4, <1>8 DEF ReadRevealedAgain
  <1>9. CASE SimulateReveal(s)
    BY <1>1, <1>9 DEF SimulateReveal, Goes, Failed, accountVars, Send
  <1>10. CASE Preapply(s)
    <2>1. r.pc # "done" /\ pool' = pool /\ foreign' = foreign
      BY <1>10 DEF Preapply, accountVars
    <2>2. CASE Goes(s, [r EXCEPT !.pc = "injection"])
      BY <2>1, <2>2, <1>1 DEF Goes, Send
    <2>3. CASE \E why \in {"estimates", "node"} : Goes(s, Failed(s, why))
      BY <2>1, <2>3, <1>2, <1>3
    <2> QED
      BY <2>2, <2>3, <1>10 DEF Preapply
  <1>11. CASE Inject(s)
    <2>1. r.pc # "done" /\ foreign' = foreign
      BY <1>11 DEF Inject
    <2>2. CASE Takes(Prepared(s))
      <3>1. Goes(s, [r EXCEPT !.pc = "done"])
        BY <2>2, <1>11 DEF Inject
      <3> QED
        BY <3>1, <2>1, <1>1 DEF Goes, Send
    <2>3. CASE ~Takes(Prepared(s))
      <3>1. pool' = pool /\ Goes(s, Failed(s, IF pool # NoOperation THEN "mempool" ELSE "node"))
        BY <2>3, <1>11 DEF Inject
      <3> QED
        BY <3>1, <2>1, <1>2, <1>3
    <2> QED
      BY <2>2, <2>3
  <1>12. CASE RequestFails(s)
    BY <1>1, <1>12 DEF RequestFails, Goes, Failed, Running, accountVars, Send
  <1> QED
    BY <1>4, <1>5, <1>6, <1>7, <1>8, <1>9, <1>10, <1>11, <1>12 DEF SendStep

\* A step keeps it, for the first send that reaches the mempool finds it empty.
LEMMA QuietInv == SendInv /\ Quiet /\ [Next]_vars => Quiet'
  <1> SUFFICES ASSUME SendInv, Quiet, [Next]_vars,
                      foreign' = 0, \A s \in Senders : send'[s].pc # "done"
               PROVE  /\ pool' = NoOperation
                      /\ \A s \in Senders : ~send'[s].disturbed /\ send'[s].why # "mempool"
    BY DEF Quiet
  <1>1. CASE AccountStep
    <2>1. \A s \in Senders : send'[s].pc = send[s].pc
      BY <1>1 DEF AccountStep, SendInv, TypeOK, Send
    <2>2. foreign \in Nat
      BY AccountAssumption DEF SendInv, TypeOK, AccountTypeOK
    <2>3. ~Foreign
      BY <2>2 DEF Foreign
    <2>4. Bake /\ foreign = 0
      BY <2>3, <1>1 DEF AccountStep, Bake
    <2> QED
      BY <2>1, <2>4 DEF Quiet, Bake
  <1>2. ASSUME NEW s \in Senders, SendStep(s)
        PROVE  /\ pool' = NoOperation
               /\ \A t \in Senders : ~send'[t].disturbed /\ send'[t].why # "mempool"
    <2>1. foreign = 0 /\ \A t \in Senders : send[t].pc # "done"
      BY <1>2, SendStepEffect
    <2>2. pool = NoOperation /\ \A t \in Senders : ~send[t].disturbed /\ send[t].why # "mempool"
      BY <2>1 DEF Quiet
    <2>3. pool' = NoOperation
      BY <2>2, <1>2, SendStepEffect
    <2>4. ~send'[s].disturbed /\ send'[s].why # "mempool"
      BY <2>2, <1>2, SendStepEffect
    <2>5. \A t \in Senders : t # s => send'[t] = send[t]
      BY <1>2, SendStepEffect
    <2> QED
      BY <2>2, <2>3, <2>4, <2>5
  <1>3. CASE UNCHANGED vars
    BY <1>3 DEF vars, Quiet
  <1> QED
    BY <1>1, <1>2, <1>3 DEF Next

\* Sends of one toolkit never all turn each other away: unless a request fails or another
\* client uses the account, one gets in.  The first that reaches the mempool finds it
\* empty, and nothing has changed since it read the counter.
THEOREM OneGetsIn == Spec => []SomebodyGetsIn
  <1>1. Init => Quiet
    <2>1. ASSUME Init, NEW s \in Senders
          PROVE  send[s].disturbed = FALSE /\ send[s].why = ""
      BY <2>1 DEF Init, Idle
    <2> QED
      BY <2>1 DEF Init, AccountInit, Quiet
  <1>2. SendInv /\ Quiet => SomebodyGetsIn
    <2> SUFFICES ASSUME SendInv, Quiet, foreign = 0,
                        \A s \in Senders : send[s].pc \in {"done", "failed"}
                                             /\ send[s].why # "request",
                        NEW t \in Senders, \A s \in Senders : send[s].pc # "done"
                 PROVE  FALSE
      BY DEF SomebodyGetsIn
    <2>1. send[t].pc = "failed" /\ send[t].why # "request"
      OBVIOUS
    <2>2. ~send[t].disturbed /\ send[t].why # "mempool"
      BY DEF Quiet
    <2> QED
      BY <2>1, <2>2 DEF SendInv, Current
  <1> QED
    BY <1>1, <1>2, AlwaysInv, QuietInv, PTL DEF Spec
=============================================================================
