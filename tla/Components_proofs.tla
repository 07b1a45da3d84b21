--------------------------- MODULE Components_proofs --------------------------
(* Proofs about the components that work alone, for every value of the constants.  *)
(* Of each component: its inductive invariant, the type invariant with what has to *)
(* be added to it for the property to be kept by a step, the lemma that a step     *)
(* keeps it, and then the theorem that states the property.                        *)
EXTENDS PrepareProvider, ToolkitContext, WalletAccount, BigMapReads, MetadataViews,
        LedgerSigner, ObservableSubscription, SaplingTransaction, SaplingTree, Estimates,
        MichelineForging, Sums_proofs, SequenceTheorems, TLAPS

-----------------------------------------------------------------------------
(* PrepareProvider *)

\* The call is reading the counter of the head.
Pending(p) == prepare[p].pc \in {"head counter", "answered"}

\* The call has prepared its operation, or has failed.
Ended(p) == prepare[p].pc \in {"prepared", "submitted", "failed"}

\* The counter n comes right behind those that another call has used.
Behind(p, n) ==
    \E q \in Preparers \ {p} : Ended(q) /\ n = prepare[q].op.counter + Length(prepare[q].op)

\* What a call knows: the counters are its own until another call has used them, and
\* what it has read of the account is true until the account changes.
Known(p) ==
    LET r == prepare[p]
    IN  /\ Pending(p) /\ ~r.overlapped => counters = 0
        /\ ~r.disturbed =>
              /\ r.kind = "reveal" /\ r.pc \in {"reveal", "head counter", "answered", "prepared"}
                    => ~account.revealed
              /\ r.pc \in {"head counter", "answered", "prepared"} =>
                    (r.op.reveal <=> \/ r.kind = "reveal"
                                     \/ r.kind \in {"manager", "batch"} /\ ~account.revealed)
              /\ r.pc \in {"answered", "prepared"} => r.head = account.counter
        /\ r.pc = "prepared" /\ Counted(p) =>
              \/ r.op.counter = r.head + 1
              \/ r.overlapped /\ r.op.counter > r.head /\ Behind(p, r.op.counter)

\* The counters are the last of what one of the calls has prepared.
CountersKnown ==
    counters # 0 => \E q \in Preparers :
                       /\ Ended(q)
                       /\ counters = prepare[q].op.counter + Length(prepare[q].op) - 1

\* The inductive invariant.
PrepareInv == PrepareTypeOK /\ CountersKnown /\ \A p \in Preparers : Known(p)

\* What has been prepared stays.
Lasting == \A q \in Preparers : Ended(q) => Ended(q)' /\ prepare'[q].op = prepare[q].op

\* The length, the counter and the size of a manager operation are natural numbers.
LEMMA LengthType ==
    ASSUME NEW o \in ManagerOperation
    PROVE  Length(o) \in Nat /\ o.counter \in Nat /\ o.size \in Nat
  <1>1. o.size \in Nat /\ o.counter \in Nat
    BY DEF ManagerOperation
  <1>2. CASE o.reveal
    BY <1>1, <1>2 DEF Length
  <1>3. CASE ~o.reveal
    BY <1>1, <1>3 DEF Length
  <1> QED
    BY <1>1, <1>2, <1>3

\* getFee counts on from the larger one of the counters and the head's.
LEMMA FirstCounterIsNext ==
    ASSUME NEW head \in Nat, counters \in Nat
    PROVE  LET first == FirstCounter(head)
           IN  /\ first \in Nat \ {0} /\ first > head
               /\ first = counters + 1 \/ first = head + 1
               /\ counters = 0 => first = head + 1
  BY DEF FirstCounter, Larger

\* What one call has prepared remains a reason for the counter of another.
LEMMA BehindStays ==
    ASSUME NEW p \in Preparers, NEW n, Lasting, Behind(p, n)
    PROVE  Behind(p, n)'
  BY DEF Behind, Lasting, Length

\* So what is known of the counters remains true while they are unchanged.
LEMMA CountersStay ==
    ASSUME CountersKnown, Lasting, counters' \in {counters, 0}
    PROVE  CountersKnown'
  BY DEF CountersKnown, Lasting, Length

\* What a call knows remains true when only another call has moved.
LEMMA KnownStays ==
    ASSUME NEW q \in Preparers, Known(q), Lasting, account' = account,
           prepare'[q] = prepare[q],
           counters' \in {counters, 0} \/ ~Pending(q) \/ prepare[q].overlapped
    PROVE  Known(q)'
  <1>1. ASSUME Behind(q, prepare[q].op.counter)
        PROVE  Behind(q, prepare[q].op.counter)'
    BY <1>1, BehindStays
  <1>2. prepare'[q].op.counter = prepare[q].op.counter
    OBVIOUS
  <1>3. Behind(q, prepare[q].op.counter) => Behind(q, prepare[q].op.counter)'
    BY <1>1
  <1> QED
    BY <1>3 DEF Known, Pending, Counted

\* A step of one call that uses no counter: the others know what they knew.
LEMMA PrepareOne ==
    ASSUME PrepareInv, NEW p \in Preparers, NEW new \in Prepare, Prepares(p, new),
           AccountTypeOK', account' = account, counters' \in {counters, 0},
           Ended(p) => new.pc \in {"prepared", "submitted", "failed"} /\ new.op = prepare[p].op,
           prepare'[p] = new /\ Lasting => Known(p)'
    PROVE  PrepareInv'
  <1>1. /\ prepare' \in [Preparers -> Prepare] /\ prepare'[p] = new
        /\ \A q \in Preparers \ {p} : prepare'[q] = prepare[q]
    BY DEF PrepareInv, PrepareTypeOK, Prepares
  <1>2. Lasting
    BY <1>1 DEF Lasting, Ended
  <1>3. \A q \in Preparers : Known(q)'
    BY <1>1, <1>2, KnownStays DEF PrepareInv
  <1>4. PrepareTypeOK'
    BY <1>1 DEF PrepareInv, PrepareTypeOK
  <1> QED
    BY <1>2, <1>3, <1>4, CountersStay DEF PrepareInv

\* A step keeps the invariant.
LEMMA PrepareStep == PrepareInv /\ [PrepareNext]_prepareVars => PrepareInv'
  <1> SUFFICES ASSUME PrepareInv, [PrepareNext]_prepareVars
               PROVE  PrepareInv'
    OBVIOUS
  <1>0. /\ counters \in Nat /\ account.counter \in Nat /\ account.revealed \in BOOLEAN
        /\ AccountTypeOK /\ prepare \in [Preparers -> Prepare]
        /\ \A p \in Preparers : prepare[p] \in Prepare /\ Known(p)
    BY DEF PrepareInv, PrepareTypeOK, AccountTypeOK, Account
  <1>a. ASSUME UNCHANGED accountVars
        PROVE  AccountTypeOK' /\ account' = account
    BY <1>0, <1>a DEF accountVars, AccountTypeOK
  <1>1. ASSUME PrepareAccountStep
        PROVE  PrepareInv'
    <2>1. AccountTypeOK'
      <3>1. ASSUME Bake PROVE AccountTypeOK'
        <4>1. Length(pool) \in Nat
          BY <1>0 DEF AccountTypeOK, ManagerOperation, Length
        <4>2. account'.counter \in Nat
          BY <1>0, <3>1, <4>1 DEF Bake
        <4> QED
          BY <1>0, <3>1, <4>1 DEF Bake, AccountTypeOK, Account, ManagerOperation, NoOperation
      <3>2. ASSUME Foreign PROVE AccountTypeOK'
        BY <1>0, <3>2, AccountAssumption
        DEF Foreign, AccountTypeOK, Account, ManagerOperation, NoOperation
      <3> QED
        BY <1>1, <3>1, <3>2 DEF PrepareAccountStep
    <2>2. \A q \in Preparers :
             prepare'[q] = IF prepare[q].pc = "idle" THEN prepare[q]
                           ELSE [prepare[q] EXCEPT !.disturbed = TRUE]
      BY <1>1 DEF PrepareAccountStep
    <2>3. \A q \in Preparers :
             /\ prepare'[q] \in Prepare /\ prepare'[q].pc = prepare[q].pc
             /\ prepare'[q].op = prepare[q].op /\ prepare'[q].head = prepare[q].head
             /\ prepare'[q].kind = prepare[q].kind
             /\ prepare'[q].overlapped = prepare[q].overlapped
             /\ prepare[q].pc # "idle" => prepare'[q].disturbed = TRUE
      BY <1>0, <2>2, ZenonT(60) DEF Prepare
    <2>4. Lasting /\ counters' = counters
      BY <1>1, <2>3 DEF Lasting, Ended, PrepareAccountStep
    <2>5. ASSUME NEW q \in Preparers
          PROVE  Known(q)'
      <3>1. \A n : Behind(q, n) => Behind(q, n)'
        BY <2>4, BehindStays
      <3>2. CASE prepare[q].pc = "idle"
        BY <2>3, <3>2 DEF Known, Pending
      <3>3. CASE prepare[q].pc # "idle"
        <4>1. /\ prepare'[q].disturbed = TRUE
              /\ prepare'[q].overlapped = prepare[q].overlapped
              /\ prepare'[q].pc = prepare[q].pc /\ prepare'[q].kind = prepare[q].kind
              /\ prepare'[q].op = prepare[q].op /\ prepare'[q].head = prepare[q].head
          BY <2>3, <3>3
        <4>2. Pending(q)' /\ ~prepare'[q].overlapped => counters' = 0
          BY <1>0, <2>4, <4>1 DEF Known, Pending
        <4>3. ASSUME prepare'[q].pc = "prepared", Counted(q)'
              PROVE  \/ prepare'[q].op.counter = prepare'[q].head + 1
                     \/ /\ prepare'[q].overlapped
                        /\ prepare'[q].op.counter > prepare'[q].head
                        /\ Behind(q, prepare[q].op.counter)'
          BY <1>0, <3>1, <4>1, <4>3 DEF Known, Counted
        <4> QED
          BY <4>1, <4>2, <4>3 DEF Known
      <3> QED
        BY <3>2, <3>3
    <2>6. prepare' \in [Preparers -> Prepare]
      BY <1>1, <2>3 DEF PrepareAccountStep
    <2> QED
      BY <1>0, <2>1, <2>4, <2>5, <2>6, CountersStay DEF PrepareInv, PrepareTypeOK
  <1>2. ASSUME NEW p \in Preparers, BeginPrepare(p)
        PROVE  PrepareInv'
    <2>1. PICK kind \in Kinds, n \in 1..MaxBatch :
             Prepares(p, [prepare[p] EXCEPT
                !.kind = kind,
                !.op.size = IF kind = "reveal" THEN 0 ELSE n,
                !.pc = IF kind \in {"manager", "batch", "reveal"} THEN "estimate"
                       ELSE "reveal"])
      BY <1>2 DEF BeginPrepare
    <2> DEFINE new == [prepare[p] EXCEPT
                !.kind = kind,
                !.op.size = IF kind = "reveal" THEN 0 ELSE n,
                !.pc = IF kind \in {"manager", "batch", "reveal"} THEN "estimate"
                       ELSE "reveal"]
    <2>2. /\ new \in Prepare /\ new.kind = kind
          /\ new.pc = IF kind \in {"manager", "batch", "reveal"} THEN "estimate" ELSE "reveal"
      <3>1. n \in Nat /\ (IF kind = "reveal" THEN 0 ELSE n) \in Nat
        BY PrepareAssumption
      <3> QED
        BY <1>0, <3>1, ZenonT(60) DEF Prepare, ManagerOperation
    <2>3. Prepares(p, new)
      BY <2>1
    <2> HIDE DEF new
    <2>4. prepare[p].pc = "idle" /\ counters' = counters /\ UNCHANGED accountVars
      BY <1>2 DEF BeginPrepare
    <2>5. prepare'[p] = new => Known(p)'
      BY <2>2 DEF Known, Pending
    <2> QED
      BY <1>a, <2>2, <2>3, <2>4, <2>5, PrepareOne DEF Ended
  <1>3. ASSUME NEW p \in Preparers, EstimateAnswered(p)
        PROVE  PrepareInv'
    <2>1. PICK pc \in {"failed", "reveal"} :
             /\ Prepares(p, [prepare[p] EXCEPT !.pc = pc])
             /\ pc = "reveal" => prepare[p].kind # "reveal" \/ ~account.revealed
      BY <1>3 DEF EstimateAnswered
    <2> DEFINE new == [prepare[p] EXCEPT !.pc = pc]
    <2>2. new \in Prepare /\ new.pc = pc /\ new.kind = prepare[p].kind
      BY <1>0 DEF Prepare
    <2> HIDE DEF new
    <2>3. prepare[p].pc = "estimate" /\ counters' = counters /\ UNCHANGED accountVars
      BY <1>3 DEF EstimateAnswered
    <2>4. prepare'[p] = new => Known(p)'
      BY <1>a, <2>1, <2>2, <2>3 DEF Known, Pending
    <2>5. Prepares(p, new)
      BY <2>1 DEF new
    <2> QED
      BY <1>a, <2>2, <2>3, <2>4, <2>5, PrepareOne DEF Ended
  <1>4. ASSUME NEW p \in Preparers, ClearCounters(p)
        PROVE  PrepareInv'
    <2> DEFINE reveals == prepare[p].kind = "reveal" \/ RevealAdded(p) \/ RevealLeads(p)
               new == [prepare[p] EXCEPT !.op.reveal = reveals, !.pc = "head counter"]
    <2>1. /\ new \in Prepare /\ new.pc = "head counter" /\ new.kind = prepare[p].kind
          /\ new.op.reveal = reveals /\ new.disturbed = prepare[p].disturbed
      BY <1>0, ZenonT(60) DEF Prepare, ManagerOperation
    <2>2. Prepares(p, new) /\ prepare[p].pc = "reveal" /\ counters' = 0 /\ UNCHANGED accountVars
      BY <1>4 DEF ClearCounters
    <2> HIDE DEF new
    <2>3. prepare'[p] = new => Known(p)'
      BY <1>0, <1>a, <2>1, <2>2 DEF Known, Pending, RevealAdded, RevealLeads
    <2> QED
      BY <1>a, <2>1, <2>2, <2>3, PrepareOne DEF Ended
  <1>5. ASSUME NEW p \in Preparers, HeadCounterServed(p)
        PROVE  PrepareInv'
    <2> DEFINE new == [prepare[p] EXCEPT !.head = account.counter, !.pc = "answered"]
    <2>1. /\ new \in Prepare /\ new.pc = "answered" /\ new.kind = prepare[p].kind
          /\ new.op = prepare[p].op /\ new.disturbed = prepare[p].disturbed
          /\ new.overlapped = prepare[p].overlapped /\ new.head = account.counter
      BY <1>0 DEF Prepare
    <2>2. /\ Prepares(p, new) /\ prepare[p].pc = "head counter" /\ counters' = counters
          /\ UNCHANGED accountVars
      BY <1>5 DEF HeadCounterServed
    <2> HIDE DEF new
    <2>3. prepare'[p] = new => Known(p)'
      BY <1>0, <1>a, <2>1, <2>2 DEF Known, Pending
    <2> QED
      BY <1>a, <2>1, <2>2, <2>3, PrepareOne DEF Ended
  <1>6. ASSUME NEW p \in Preparers, ConstructContents(p), Counted(p)
        PROVE  PrepareInv'
    <2>0. PICK first \in Nat \ {0} :
             /\ first = FirstCounter(prepare[p].head)
             /\ prepare[p].head \in Nat /\ first > prepare[p].head
             /\ first = counters + 1 \/ first = prepare[p].head + 1
             /\ counters = 0 => first = prepare[p].head + 1
      <3>1. prepare[p].head \in Nat
        BY <1>0 DEF Prepare
      <3> QED
        BY <1>0, <3>1, FirstCounterIsNext
    <2>a. PICK new : new = [prepare[p] EXCEPT !.op.counter = first, !.pc = "prepared"]
      OBVIOUS
    <2>1. /\ new \in Prepare /\ new.pc = "prepared" /\ new.kind = prepare[p].kind
          /\ new.op.counter = first /\ new.op.reveal = prepare[p].op.reveal
          /\ new.op.size = prepare[p].op.size
          /\ new.head = prepare[p].head /\ new.disturbed = prepare[p].disturbed
          /\ new.overlapped = prepare[p].overlapped
      <3>1. /\ prepare[p] \in Prepare /\ prepare[p].op \in ManagerOperation
            /\ first \in Nat
        BY <1>0, <2>0 DEF Prepare
      <3>2. PICK op : op = [prepare[p].op EXCEPT !.counter = first]
        OBVIOUS
      <3>3. /\ op \in ManagerOperation /\ op.counter = first
            /\ op.reveal = prepare[p].op.reveal /\ op.size = prepare[p].op.size
        BY <3>1, <3>2 DEF ManagerOperation
      <3>4. new = [prepare[p] EXCEPT !.op = op, !.pc = "prepared"]
        BY <2>a, <3>1, <3>2 DEF Prepare
      <3> QED
        BY <3>1, <3>3, <3>4 DEF Prepare
    <2>2. /\ prepare[p].pc = "answered" /\ UNCHANGED accountVars
          /\ counters' = first + Length(prepare[p].op) - 1
          /\ \A q \in Preparers : prepare'[q] =
                 IF q = p THEN new
                 ELSE IF prepare[q].pc \in {"head counter", "answered"}
                 THEN [prepare[q] EXCEPT !.overlapped = TRUE] ELSE prepare[q]
          /\ prepare' = [q \in Preparers |-> prepare'[q]]
      BY <1>6, <2>0, <2>a DEF ConstructContents
    <2>3. Length(new.op) = Length(prepare[p].op) /\ Length(new.op) \in Nat
      <3>1. new.op \in ManagerOperation
        BY <2>1 DEF Prepare
      <3>2. new.op.size = prepare[p].op.size /\ new.op.reveal = prepare[p].op.reveal
        BY <2>1
      <3> QED
        BY <3>1, <3>2, LengthType DEF Length
    <2>4. \A q \in Preparers \ {p} :
             /\ prepare'[q] \in Prepare /\ prepare'[q].pc = prepare[q].pc
             /\ prepare'[q].op = prepare[q].op /\ prepare'[q].head = prepare[q].head
             /\ prepare'[q].kind = prepare[q].kind
             /\ prepare'[q].disturbed = prepare[q].disturbed
             /\ Pending(q) => prepare'[q].overlapped = TRUE
             /\ ~Pending(q) => prepare'[q] = prepare[q]
      <3> SUFFICES ASSUME NEW q \in Preparers \ {p}
                   PROVE  /\ prepare'[q] \in Prepare /\ prepare'[q].pc = prepare[q].pc
                          /\ prepare'[q].op = prepare[q].op
                          /\ prepare'[q].head = prepare[q].head
                          /\ prepare'[q].kind = prepare[q].kind
                          /\ prepare'[q].disturbed = prepare[q].disturbed
                          /\ Pending(q) => prepare'[q].overlapped = TRUE
                          /\ ~Pending(q) => prepare'[q] = prepare[q]
        OBVIOUS
      <3>1. CASE Pending(q)
        <4>1. prepare'[q] = [prepare[q] EXCEPT !.overlapped = TRUE]
          BY <2>2, <3>1 DEF Pending
        <4> QED
          BY <1>0, <3>1, <4>1 DEF Prepare
      <3>2. CASE ~Pending(q)
        <4>1. prepare'[q] = prepare[q]
          BY <2>2, <3>2 DEF Pending
        <4> QED
          BY <1>0, <3>2, <4>1
      <3> QED
        BY <3>1, <3>2
    <2>5. Lasting
      BY <2>1, <2>2, <2>4 DEF Lasting, Ended
    <2>6. ASSUME NEW q \in Preparers \ {p}
          PROVE  Known(q)'
      <3>1. CASE Pending(q)
        <4>1. /\ prepare'[q].overlapped = TRUE /\ account' = account
              /\ prepare'[q].disturbed = prepare[q].disturbed
              /\ prepare'[q].pc = prepare[q].pc /\ prepare'[q].kind = prepare[q].kind
              /\ prepare'[q].op = prepare[q].op /\ prepare'[q].head = prepare[q].head
          BY <1>a, <2>2, <2>4, <3>1
        <4>2. prepare'[q].pc # "prepared"
          BY <3>1, <4>1 DEF Pending
        <4> QED
          BY <1>0, <4>1, <4>2 DEF Known, Pending
      <3>2. CASE ~Pending(q)
        BY <1>0, <1>a, <2>2, <2>4, <2>5, <3>2, KnownStays
      <3> QED
        BY <3>1, <3>2
    <2>7. Known(p)'
      <3>1. prepare'[p] = new
        BY <2>2
      <3>2. \/ first = prepare[p].head + 1
            \/ /\ prepare[p].overlapped
               /\ Behind(p, first)'
        <4>1. SUFFICES ASSUME first # prepare[p].head + 1
                       PROVE  prepare[p].overlapped /\ Behind(p, first)'
          OBVIOUS
        <4>2. counters # 0 /\ first = counters + 1
          BY <2>0, <4>1
        <4>3. prepare[p].overlapped
          BY <1>0, <2>2, <4>2 DEF Known, Pending
        <4>4. PICK q \in Preparers :
                 Ended(q) /\ counters = prepare[q].op.counter + Length(prepare[q].op) - 1
          BY <4>2 DEF PrepareInv, CountersKnown
        <4>5. prepare[q].op.counter \in Nat /\ Length(prepare[q].op) \in Nat
          <5>1. prepare[q].op \in ManagerOperation
            BY <1>0 DEF Prepare
          <5> QED
            BY <5>1, LengthType
        <4>6. q # p /\ first = prepare[q].op.counter + Length(prepare[q].op)
          <5>1. ~Ended(p)
            BY <2>2 DEF Ended
          <5>2. q # p
            BY <4>4, <5>1, Zenon
          <5>3. PICK a \in Nat, b \in Nat :
                   a = prepare[q].op.counter /\ b = Length(prepare[q].op)
            BY <4>5
          <5>4. counters = a + (b - 1)
            BY <4>4, <5>3
          <5>5. first = a + b
            BY <4>2, <5>4
          <5> QED
            BY <5>2, <5>3, <5>5
        <4>7. Behind(p, first)
          BY <4>4, <4>6 DEF Behind
        <4> QED
          BY <2>5, <4>3, <4>7, BehindStays
      <3> QED
        <4>1. /\ ~Pending(p)' /\ prepare'[p].op.counter = first
              /\ prepare'[p].op.reveal = prepare[p].op.reveal
              /\ prepare'[p].head = prepare[p].head /\ prepare'[p].kind = prepare[p].kind
              /\ prepare'[p].pc = "prepared" /\ account' = account
              /\ prepare'[p].disturbed = prepare[p].disturbed
              /\ prepare'[p].overlapped = prepare[p].overlapped
          BY <1>a, <2>1, <2>2, <3>1 DEF Pending
        <4>2. \/ prepare'[p].op.counter = prepare'[p].head + 1
              \/ /\ prepare'[p].overlapped /\ prepare'[p].op.counter > prepare'[p].head
                 /\ Behind(p, prepare[p].op.counter)'
          BY <2>0, <3>2, <4>1
        <4>3. ~prepare'[p].disturbed =>
                 /\ prepare'[p].kind = "reveal" => ~account'.revealed
                 /\ (prepare'[p].op.reveal <=>
                        \/ prepare'[p].kind = "reveal"
                        \/ prepare'[p].kind \in {"manager", "batch"} /\ ~account'.revealed)
                 /\ prepare'[p].head = account'.counter
          BY <1>0, <2>2, <4>1 DEF Known
        <4> QED
          BY <4>1, <4>2, <4>3 DEF Known
    <2>8. CountersKnown' /\ counters' \in Nat
      <3>0. \A len \in Nat : first + len - 1 \in Nat
        OBVIOUS
      <3>1. counters' = new.op.counter + Length(new.op) - 1 /\ counters' \in Nat
        <4>1. counters' = first + Length(new.op) - 1
          BY <2>2, <2>3
        <4> QED
          BY <2>1, <2>3, <3>0, <4>1
      <3>2. prepare'[p] = new
        BY <2>2
      <3>3. Ended(p)' /\ Length(prepare[p].op)' = Length(new.op)
        BY <2>1, <3>2 DEF Ended, Length
      <3> QED
        BY <3>1, <3>2, <3>3 DEF CountersKnown
    <2>9. PrepareTypeOK'
      <3>1. \A q \in Preparers : prepare'[q] \in Prepare
        BY <2>1, <2>2, <2>4
      <3> QED
        BY <1>a, <2>2, <2>8, <3>1 DEF PrepareTypeOK
    <2> QED
      BY <2>6, <2>7, <2>8, <2>9 DEF PrepareInv
  <1>7. ASSUME NEW p \in Preparers, ConstructContents(p), ~Counted(p)
        PROVE  PrepareInv'
    <2> DEFINE new == [prepare[p] EXCEPT !.pc = "prepared"]
    <2>1. /\ new \in Prepare /\ new.pc = "prepared" /\ new.kind = prepare[p].kind
          /\ new.op = prepare[p].op /\ new.disturbed = prepare[p].disturbed
          /\ new.head = prepare[p].head
      BY <1>0 DEF Prepare
    <2>2. /\ Prepares(p, new) /\ prepare[p].pc = "answered" /\ counters' = counters
          /\ UNCHANGED accountVars
      BY <1>7 DEF ConstructContents
    <2> HIDE DEF new
    <2>3. prepare'[p] = new => Known(p)'
      BY <1>0, <1>7, <1>a, <2>1, <2>2 DEF Known, Pending, Counted
    <2> QED
      BY <1>a, <2>1, <2>2, <2>3, PrepareOne DEF Ended
  <1>8. ASSUME NEW p \in Preparers, Submit(p) \/ PrepareFails(p)
        PROVE  PrepareInv'
    <2>1. PICK pc \in {"submitted", "failed"} : Prepares(p, [prepare[p] EXCEPT !.pc = pc])
      BY <1>8 DEF Submit, PrepareFails
    <2> DEFINE new == [prepare[p] EXCEPT !.pc = pc]
    <2>2. new \in Prepare /\ new.pc \in {"submitted", "failed"} /\ new.op = prepare[p].op
      BY <1>0 DEF Prepare
    <2>3. Prepares(p, new)
      BY <2>1
    <2> HIDE DEF new
    <2>4. AccountTypeOK' /\ account' = account /\ counters' = counters
      <3>1. prepare[p].op \in ManagerOperation
        BY <1>0 DEF Prepare
      <3>2. pool' \in {pool, prepare[p].op} /\ UNCHANGED <<account, foreign, counters>>
        BY <1>8 DEF Submit, PrepareFails, accountVars
      <3> QED
        BY <1>0, <3>1, <3>2 DEF AccountTypeOK
    <2>5. prepare'[p] = new => Known(p)'
      BY <2>2 DEF Known, Pending
    <2> QED
      BY <2>2, <2>3, <2>4, <2>5, PrepareOne
  <1>9. CASE UNCHANGED prepareVars
    BY <1>9, ZenonT(60) DEF prepareVars, PrepareInv, PrepareTypeOK, AccountTypeOK, CountersKnown, Known,
                Pending, Counted, Behind, Ended
  <1> QED
    BY <1>1, <1>2, <1>3, <1>4, <1>5, <1>6, <1>7, <1>8, <1>9 DEF PrepareNext

\* The invariant holds in every state.
LEMMA PrepareInvariant == PrepareSpec => []PrepareInv
  <1>1. PrepareInit => PrepareInv
    <2> SUFFICES ASSUME PrepareInit
                 PROVE  PrepareInv
      OBVIOUS
    <2>1. AccountTypeOK
      BY AccountAssumption
      DEF PrepareInit, AccountInit, AccountTypeOK, Account, NoOperation, ManagerOperation
    <2>2. \A p \in Preparers : prepare[p] \in Prepare /\ prepare[p].pc = "idle"
      BY DEF PrepareInit, Prepare, Kinds, NoOperation, ManagerOperation
    <2>3. prepare \in [Preparers -> Prepare] /\ counters = 0
      BY <2>2 DEF PrepareInit
    <2> QED
      BY <2>1, <2>2, <2>3 DEF PrepareInv, PrepareTypeOK, CountersKnown, Known, Pending
  <1> QED
    BY <1>1, PrepareStep, PTL DEF PrepareSpec

\* The account, the counters of the provider and what its calls have prepared have their
\* types, however the calls share the counters.
THEOREM PrepareTypeCorrect == PrepareSpec => []PrepareTypeOK
  <1>1. PrepareInv => PrepareTypeOK
    BY DEF PrepareInv
  <1> QED
    BY <1>1, PrepareInvariant, PTL

\* However the calls of the provider interleave, for any number of them: the counters of
\* what is prepared continue the head's or those of another prepared operation, and what
\* nobody disturbed can be applied.
THEOREM PreparedCanBeApplied == PrepareSpec => []PreparedContentsFit
  <1>1. PrepareInv => PreparedContentsFit
    <2> SUFFICES ASSUME PrepareInv, NEW p \in Preparers, prepare[p].pc = "prepared", Counted(p)
                 PROVE  /\ CountersContinue(p)
                        /\ ~prepare[p].overlapped /\ ~prepare[p].disturbed =>
                              (Applies(prepare[p].op) <=>
                                  account.revealed \/ prepare[p].kind # "contractCall")
      BY DEF PreparedContentsFit
    <2>1. Known(p) /\ prepare[p] \in Prepare /\ account.revealed \in BOOLEAN
      BY DEF PrepareInv, PrepareTypeOK, AccountTypeOK, Account
    <2>2. CountersContinue(p)
      BY <2>1 DEF Known, CountersContinue, Behind
    <2>3. ASSUME ~prepare[p].overlapped, ~prepare[p].disturbed
          PROVE  Applies(prepare[p].op) <=>
                    account.revealed \/ prepare[p].kind # "contractCall"
      <3>1. prepare[p].op.counter = account.counter + 1
        BY <2>1, <2>3 DEF Known
      <3>2. /\ prepare[p].kind = "reveal" => ~account.revealed
            /\ prepare[p].op.reveal <=>
                  \/ prepare[p].kind = "reveal"
                  \/ prepare[p].kind \in {"manager", "batch"} /\ ~account.revealed
        BY <2>1, <2>3 DEF Known
      <3> QED
        BY <3>1, <3>2 DEF Applies, Counted
    <2> QED
      BY <2>2, <2>3
  <1> QED
    BY <1>1, PrepareInvariant, PTL

-----------------------------------------------------------------------------
(* ToolkitContext *)

\* What the options of a setter give is a provider.
LEMMA OptionsType ==
    ASSUME NEW services \in Options
    PROVE  \A s \in DOMAIN services : services[s] \in Provider
  BY DEF Options, Provider

\* A setter of services leaves the rpc and the reads alone.
LEMMA WithServicesEffect ==
    ASSUME NEW context \in Context, NEW services \in Options
    PROVE  LET n == WithServices(context, services)
           IN  /\ n \in Context
               /\ n.rpc = context.rpc /\ n.read = context.read
               /\ n.service = [s \in Services |-> IF s \in DOMAIN services THEN services[s]
                                                  ELSE context.service[s]]
  <1> DEFINE new == [s \in Services |-> IF s \in DOMAIN services THEN services[s]
                                        ELSE context.service[s]]
  <1>1. new \in [Services -> Provider]
    BY OptionsType DEF Context
  <1>2. WithServices(context, services) = [context EXCEPT !.service = new]
    BY DEF WithServices, Context
  <1> HIDE DEF new
  <1>3. LET n == WithServices(context, services)
        IN n \in Context /\ n.rpc = context.rpc /\ n.read = context.read /\ n.service = new
    BY <1>1, <1>2 DEF Context
  <1> QED
    BY <1>3 DEF new

\* A setter of the reads leaves the rpc and the services alone.
LEMMA WithReadEffect ==
    ASSUME NEW context \in Context, NEW reads \in {"custom", "none"}
    PROVE  LET n == WithRead(context, reads)
           IN  /\ n \in Context
               /\ n.rpc = context.rpc /\ n.service = context.service
               /\ n.read = IF reads = "none" THEN context.rpc ELSE "custom"
  <1>1. context.rpc \in Provider \ {"default"} /\ "custom" \in Provider \ {"default"}
    BY ToolkitAssumption DEF Context, Provider
  <1> QED
    BY <1>1 DEF WithRead, Context

\* A setter of the rpc leaves the reads and the services alone.
LEMMA WithRpcEffect ==
    ASSUME NEW context \in Context, NEW rpc \in Nodes \cup {"none"}
    PROVE  LET n == WithRpc(context, rpc)
           IN  /\ n \in Context
               /\ n.read = context.read /\ n.service = context.service
               /\ n.rpc = IF rpc = "none" THEN context.rpc ELSE rpc
  BY DEF WithRpc, Context

\* The inductive invariant.
ToolkitInv == ToolkitTypeOK /\ ProvidersAgree

\* What is common to all setters: the copies stay, and whatever was moved is marked.
LEMMA ConfiguredAgrees ==
    ASSUME ToolkitInv, Configure,
           toolkit' \in Context, given' \in [Services -> Provider], adrift' \in BOOLEAN,
           toolkit'.service = given',
           toolkit'.read \in {toolkit'.rpc, "custom"} \/ adrift',
           copy' = Moved(toolkit'.rpc)
    PROVE  ToolkitInv'
  <1>1. settings' \in 0..MaxSettings
    BY ToolkitAssumption DEF Configure, ToolkitInv, ToolkitTypeOK
  <1>2. ASSUME NEW o \in Operations
        PROVE  /\ copy'[o].sent = copy[o].sent /\ copy'[o].context = copy[o].context
               /\ copy'[o].moved = (copy[o].moved \/ toolkit'.rpc # toolkit.rpc)
               /\ copy'[o] \in [sent : BOOLEAN, context : Context, moved : BOOLEAN]
    <2>1. copy'[o] = [copy[o] EXCEPT !.moved = @ \/ toolkit'.rpc # toolkit.rpc]
      BY DEF Moved
    <2>2. copy[o] \in [sent : BOOLEAN, context : Context, moved : BOOLEAN]
      BY DEF ToolkitInv, ToolkitTypeOK
    <2> QED
      BY <2>1, <2>2
  <1>3. copy' \in [Operations -> [sent : BOOLEAN, context : Context, moved : BOOLEAN]]
    BY <1>2 DEF Moved
  <1>4. ASSUME NEW o \in Operations
        PROVE  CopySeesOneNode(o)'
    <2>1. CopySeesOneNode(o)
      BY DEF ToolkitInv, ProvidersAgree
    <2> QED
      BY <1>2, <2>1 DEF CopySeesOneNode, HeadsOf
  <1> QED
    BY <1>1, <1>3, <1>4 DEF ToolkitInv, ToolkitTypeOK, ProvidersAgree, ReadsFollowRpc

\* To set the rpc that is set already moves no copy of the context.
LEMMA NotMoved ==
    ASSUME ToolkitInv
    PROVE  copy = Moved(toolkit.rpc)
  <1>1. \A o \in Operations : copy[o] = [copy[o] EXCEPT !.moved = @ \/ toolkit.rpc # toolkit.rpc]
    BY DEF ToolkitInv, ToolkitTypeOK
  <1> QED
    BY <1>1 DEF ToolkitInv, ToolkitTypeOK, Moved

\* The invariant holds initially.
LEMMA ToolkitInitial == ToolkitInit => ToolkitInv
  <1> SUFFICES ASSUME ToolkitInit
               PROVE  ToolkitInv
    OBVIOUS
  <1>1. PICK n \in Nodes : toolkit = [rpc |-> n, read |-> n, proto |-> FALSE,
                                      service |-> [s \in Services |-> "default"]]
    BY DEF ToolkitInit
  <1>2. n # "default" /\ n \in Provider /\ "default" \in Provider
    BY ToolkitAssumption DEF Provider
  <1>3. toolkit \in Context /\ toolkit.read = toolkit.rpc /\ toolkit.service = given
        /\ given \in [Services -> Provider]
    BY <1>1, <1>2 DEF ToolkitInit, Context
  <1>4. \A o \in Operations :
            /\ copy[o] \in [sent : BOOLEAN, context : Context, moved : BOOLEAN]
            /\ ~copy[o].sent
    BY <1>3 DEF ToolkitInit
  <1>5. ToolkitTypeOK
    <2>1. copy \in [Operations -> [sent : BOOLEAN, context : Context, moved : BOOLEAN]]
      BY <1>4 DEF ToolkitInit
    <2>2. adrift \in BOOLEAN
      BY DEF ToolkitInit
    <2>3. settings \in 0..MaxSettings
      BY ToolkitAssumption DEF ToolkitInit
    <2> QED
      BY <1>3, <2>1, <2>2, <2>3 DEF ToolkitTypeOK
  <1> QED
    BY <1>3, <1>4, <1>5 DEF ToolkitInv, ProvidersAgree, ReadsFollowRpc, CopySeesOneNode

\* A step keeps the invariant.
LEMMA ToolkitStep == ToolkitInv /\ [ToolkitNext]_toolkitVars => ToolkitInv'
  <1> SUFFICES ASSUME ToolkitInv, [ToolkitNext]_toolkitVars
               PROVE  ToolkitInv'
    OBVIOUS
  <1>0. /\ toolkit \in Context /\ given \in [Services -> Provider] /\ adrift \in BOOLEAN
        /\ toolkit.service = given
        /\ toolkit.read \in {toolkit.rpc, "custom"} \/ adrift
    BY DEF ToolkitInv, ToolkitTypeOK, ProvidersAgree, ReadsFollowRpc
  <1>1. ASSUME Configure, NEW rpc \in Nodes, SetRpcProvider(rpc)
        PROVE  ToolkitInv'
    <2>1. rpc # "none"
      BY ToolkitAssumption
    <2>2. toolkit' \in Context /\ toolkit'.rpc = rpc /\ toolkit'.service = toolkit.service
      BY <1>0, <1>1, <2>1, WithRpcEffect DEF SetRpcProvider
    <2> QED
      BY <1>0, <1>1, <2>2, ConfiguredAgrees DEF SetRpcProvider
  <1>2. ASSUME Configure, NEW reads \in {"custom", "none"}, SetReadProvider(reads)
        PROVE  ToolkitInv'
    <2>1. /\ toolkit' \in Context /\ toolkit'.rpc = toolkit.rpc
          /\ toolkit'.service = toolkit.service /\ toolkit'.read \in {toolkit'.rpc, "custom"}
      BY <1>0, <1>2, WithReadEffect DEF SetReadProvider
    <2> QED
      BY <1>0, <1>2, <2>1, NotMoved, ConfiguredAgrees DEF SetReadProvider
  <1>3. ASSUME Configure, NEW services \in Options, SetServiceProvider(services)
        PROVE  ToolkitInv'
    <2>1. /\ toolkit' \in Context /\ toolkit'.rpc = toolkit.rpc /\ toolkit'.read = toolkit.read
          /\ toolkit'.service = Given(services)
      BY <1>0, <1>3, WithServicesEffect DEF SetServiceProvider, Given
    <2>2. Given(services) \in [Services -> Provider]
      BY <2>1 DEF Context
    <2> QED
      BY <1>0, <1>3, <2>1, <2>2, NotMoved, ConfiguredAgrees DEF SetServiceProvider
  <1>4. ASSUME Configure, NEW rpc \in Nodes \cup {"none"}, NEW reads \in {"custom", "none"},
               NEW services \in Options, NEW proto \in BOOLEAN,
               SetProvider(rpc, reads, services, proto)
        PROVE  ToolkitInv'
    <2>1. PICK a \in Context : /\ a = WithRpc(toolkit, rpc)
                               /\ a.service = toolkit.service
      BY <1>0, WithRpcEffect
    <2>2. PICK b \in Context : /\ b = WithServices(a, services)
                               /\ b.service = Given(services)
      BY <1>0, <2>1, WithServicesEffect DEF Given
    <2>3. PICK d \in Context : /\ d = WithRead(b, reads)
                               /\ d.service = Given(services)
                               /\ d.read \in {d.rpc, "custom"}
      BY <2>2, WithReadEffect
    <2>4. toolkit' = [d EXCEPT !.proto = proto]
      BY <1>4, <2>1, <2>2, <2>3 DEF SetProvider
    <2>5. /\ toolkit' \in Context /\ toolkit'.service = Given(services)
          /\ toolkit'.read \in {toolkit'.rpc, "custom"}
          /\ Given(services) \in [Services -> Provider]
      BY <2>3, <2>4 DEF Context
    <2> QED
      BY <1>4, <2>5, ConfiguredAgrees DEF SetProvider
  <1>5. ASSUME NEW o \in Operations, SendOperation(o)
        PROVE  ToolkitInv'
    <2>1. copy' = [copy EXCEPT ![o] = [sent |-> TRUE, context |-> toolkit, moved |-> adrift]]
      BY <1>5 DEF SendOperation
    <2>2. UNCHANGED <<toolkit, given, adrift, settings>>
      BY <1>5 DEF SendOperation
    <2>3. copy' \in [Operations -> [sent : BOOLEAN, context : Context, moved : BOOLEAN]]
      BY <1>0, <2>1 DEF ToolkitInv, ToolkitTypeOK
    <2>4. ASSUME NEW q \in Operations
          PROVE  CopySeesOneNode(q)'
      <3>1. CASE q = o
        <4>1. /\ copy'[q].context = toolkit /\ copy'[q].moved = adrift
          BY <2>1, <3>1 DEF ToolkitInv, ToolkitTypeOK
        <4>2. "stream" \in Services /\ toolkit.service["stream"] \in Provider
          BY <1>0, ToolkitAssumption DEF Context
        <4> QED
          BY <1>0, <2>2, <4>1, <4>2 DEF CopySeesOneNode, HeadsOf, Provider
      <3>2. CASE q # o
        <4>1. copy'[q] = copy[q] /\ CopySeesOneNode(q)
          BY <2>1, <3>2 DEF ToolkitInv, ToolkitTypeOK, ProvidersAgree
        <4> QED
          BY <2>2, <4>1 DEF CopySeesOneNode, HeadsOf
      <3> QED
        BY <3>1, <3>2
    <2> QED
      BY <1>0, <2>2, <2>3, <2>4
      DEF ToolkitInv, ToolkitTypeOK, ProvidersAgree, ReadsFollowRpc
  <1>6. CASE UNCHANGED toolkitVars
    BY <1>6 DEF toolkitVars, ToolkitInv, ToolkitTypeOK, ProvidersAgree, ReadsFollowRpc,
                CopySeesOneNode, HeadsOf
  <1> QED
    BY <1>1, <1>2, <1>3, <1>4, <1>5, <1>6 DEF ToolkitNext, Configure

\* Whatever setters were called, the context of a toolkit and those of the operations
\* that it has sent have a provider for each service.
THEOREM ToolkitTypeCorrect == ToolkitSpec => []ToolkitTypeOK
  <1>1. ToolkitInv => ToolkitTypeOK
    BY DEF ToolkitInv
  <1> QED
    BY <1>1, ToolkitInitial, ToolkitStep, PTL DEF ToolkitSpec

\* Through every order of the setters of a toolkit, for any nodes, services and
\* operations: what was given stays in use, and what was not given agrees on one node,
\* in the toolkit and in the copies of its context.
THEOREM DefaultsFollow == ToolkitSpec => []ProvidersAgree
  <1>1. ToolkitInv => ProvidersAgree
    BY DEF ToolkitInv
  <1> QED
    BY <1>1, ToolkitInitial, ToolkitStep, PTL DEF ToolkitSpec
-----------------------------------------------------------------------------
(* WalletAccount *)

\* What is fresh is the active account, until the command is done with it.
Fitting(c) ==
    /\ command[c].pc \in {"idle", "params", "asked"} => ~command[c].fresh
    /\ command[c].pc \in {"told", "mapped", "checked"} /\ command[c].fresh
          => command[c].delegate = active
    /\ command[c].pc = "done" /\ command[c].kind = "registerDelegate" /\ command[c].fresh
          => command[c].delegate = command[c].source

\* The screen is there for a command that shows it.
Shows(c) ==
    /\ command[c].kind # "refetch"
    /\ command[c].pc \in {"params", "asked", "told", "mapped", "checked", "not sent"}

\* The inductive invariant.
WalletInv ==
    /\ WalletTypeOK
    /\ pkhFresh => pkh = active
    /\ \A c \in Commands : Fitting(c)
    /\ screen => \E c \in Commands : Shows(c)

\* A step of one command: the others stay as they are.
LEMMA CommandStep ==
    ASSUME WalletInv, NEW c \in Commands, NEW new \in Command,
           command' = [command EXCEPT ![c] = new],
           UNCHANGED <<active, permitted, switches>>,
           pkh' \in Accounts \cup {NoAccount}, pkhFresh' \in BOOLEAN, screen' \in BOOLEAN,
           pkhFresh' => pkh' = active,
           Fitting(c)',
           \/ screen' = FALSE
           \/ Shows(c)'
           \/ screen' = screen /\ (Shows(c) => Shows(c)')
    PROVE  WalletInv'
  <1>1. /\ command' \in [Commands -> Command] /\ command'[c] = new
        /\ \A d \in Commands : d # c => command'[d] = command[d]
    BY DEF WalletInv, WalletTypeOK
  <1>2. WalletTypeOK'
    BY <1>1 DEF WalletInv, WalletTypeOK
  <1>3. \A d \in Commands : Fitting(d)'
    BY <1>1 DEF WalletInv, Fitting
  <1>4. screen' => \E d \in Commands : Shows(d)'
    BY <1>1 DEF WalletInv, Shows
  <1> QED
    BY <1>2, <1>3, <1>4 DEF WalletInv

\* The same for a step that leaves what the toolkit keeps, and the screen or hides it.
LEMMA KeepingStep ==
    ASSUME WalletInv, NEW c \in Commands, NEW new \in Command,
           command' = [command EXCEPT ![c] = new],
           UNCHANGED <<active, permitted, switches>>,
           UNCHANGED <<pkh, pkhFresh>>,
           Fitting(c)',
           \/ screen' = FALSE
           \/ screen' = TRUE /\ Shows(c)'
           \/ screen' = screen /\ (Shows(c) => Shows(c)')
    PROVE  WalletInv'
  <1>1. pkh' \in Accounts \cup {NoAccount} /\ pkhFresh' \in BOOLEAN
    BY DEF WalletInv, WalletTypeOK
  <1>2. pkhFresh' => pkh' = active
    <2>1. pkhFresh => pkh = active
      BY DEF WalletInv
    <2> QED
      BY <2>1, Zenon
  <1>3. screen' \in BOOLEAN
    <2>1. screen \in BOOLEAN
      BY DEF WalletInv, WalletTypeOK
    <2> QED
      BY <2>1
  <1> QED
    BY <1>1, <1>2, <1>3, CommandStep

\* A step keeps the invariant.
LEMMA WalletStep == WalletInv /\ [WalletNext]_walletVars => WalletInv'
  <1> SUFFICES ASSUME WalletInv, [WalletNext]_walletVars
               PROVE  WalletInv'
    OBVIOUS
  <1>0. /\ command \in [Commands -> Command] /\ active \in Accounts \cup {NoAccount}
        /\ pkh \in Accounts \cup {NoAccount} /\ pkhFresh \in BOOLEAN /\ screen \in BOOLEAN
        /\ switches \in Nat /\ (pkhFresh => pkh = active)
        /\ \A c \in Commands : command[c] \in Command /\ Fitting(c)
    BY DEF WalletInv, WalletTypeOK
  <1>1. CASE SwitchAccount
    <2>1. ASSUME NEW c \in Commands
          PROVE  /\ command'[c] \in Command
                 /\ Fitting(c)'
                 /\ Shows(c) => Shows(c)'
      <3>1. CASE command[c].pc = "done"
        BY <1>0, <1>1, <3>1 DEF SwitchAccount, Fitting, Shows
      <3>2. CASE command[c].pc # "done"
        <4>1. /\ command'[c] = [command[c] EXCEPT !.fresh = FALSE]
              /\ command[c] \in Command
          BY <1>0, <1>1, <3>2 DEF SwitchAccount
        <4>2. /\ command'[c] \in Command /\ command'[c].pc = command[c].pc
              /\ command'[c].kind = command[c].kind /\ ~command'[c].fresh
          BY <4>1 DEF Command
        <4> QED
          BY <4>2 DEF Fitting, Shows
      <3> QED
        BY <3>1, <3>2
    <2>2. command' \in [Commands -> Command]
      BY <1>1, <2>1 DEF SwitchAccount
    <2>3. /\ permitted' \in BOOLEAN /\ active' \in Accounts \cup {NoAccount}
          /\ pkhFresh' = FALSE /\ pkh' = pkh /\ screen' = screen
      BY <1>0, <1>1 DEF SwitchAccount
    <2>4. switches' \in 0..MaxSwitches
      <3>1. switches < MaxSwitches /\ switches' = switches + 1
        BY <1>1 DEF SwitchAccount
      <3>2. switches \in Nat /\ MaxSwitches \in Nat
        BY <1>0, WalletAssumption
      <3> QED
        BY <3>1, <3>2
    <2> QED
      BY <2>1, <2>2, <2>3, <2>4 DEF WalletInv, WalletTypeOK
  <1>2. ASSUME NEW c \in Commands, NEW kind \in CommandKinds, BeginCommand(c, kind)
        PROVE  WalletInv'
    <2> DEFINE new == [command[c] EXCEPT !.kind = kind,
                                  !.pc = IF kind = "refetch" THEN "asked" ELSE "params"]
    <2>1. command' = [command EXCEPT ![c] = new]
      BY <1>0, <1>2 DEF BeginCommand
    <2>2. /\ new \in Command /\ new.kind = kind /\ ~new.fresh
          /\ new.pc = IF kind = "refetch" THEN "asked" ELSE "params"
      BY <1>0, <1>2 DEF BeginCommand, Command, Fitting
    <2> HIDE DEF new
    <2>3. command'[c] = new /\ ~Shows(c)
      BY <1>0, <1>2, <2>1 DEF BeginCommand, Shows
    <2>0. UNCHANGED <<active, permitted, pkh, pkhFresh, switches>>
      BY <1>2 DEF BeginCommand
    <2>4. Fitting(c)'
      BY <2>2, <2>3 DEF Fitting
    <2>5. CASE kind = "refetch"
      <3>1. screen' = screen
        <4>1. screen' = (screen \/ FALSE)
          BY <1>2, <2>5 DEF BeginCommand
        <4> QED
          BY <1>0, <4>1
      <3> QED
        BY <1>0, <2>0, <2>1, <2>2, <2>3, <2>4, <3>1, KeepingStep
    <2>6. CASE kind # "refetch"
      <3>1. Shows(c)'
        BY <2>2, <2>3, <2>6 DEF Shows
      <3>2. screen' = TRUE
        BY <1>2, <2>6 DEF BeginCommand
      <3> QED
        BY <1>0, <2>0, <2>1, <2>2, <2>4, <3>1, <3>2, KeepingStep
    <2> QED
      BY <2>5, <2>6
  <1>3. ASSUME NEW c \in Commands, TransferParams(c) \/ DelegateParams(c)
        PROVE  WalletInv'
    <2>1. PICK new :
             /\ command' = [command EXCEPT ![c] = new]
             /\ \/ /\ new = [command[c] EXCEPT !.pc = "mapped"]
                   /\ screen' = screen
                \/ /\ new = [command[c] EXCEPT !.pc = "failed"]
                   /\ screen' = FALSE
                \/ /\ new = [command[c] EXCEPT !.pc = "asked"]
                   /\ screen' = screen
                \/ /\ new = [command[c] EXCEPT !.pc = "mapped", !.delegate = pkh,
                                               !.fresh = pkhFresh]
                   /\ screen' = screen
      BY <1>0, <1>3 DEF TransferParams, DelegateParams
    <2>2. command[c].pc = "params" /\ command[c].kind # "refetch"
          /\ UNCHANGED <<active, permitted, pkh, pkhFresh, switches>>
      BY <1>3 DEF TransferParams, DelegateParams
    <2>3. /\ new \in Command /\ new.kind = command[c].kind
          /\ new.pc \in {"mapped", "failed", "asked"}
          /\ new.pc = "failed" => screen' = FALSE
          /\ new.pc # "failed" => screen' = screen
          /\ \/ new.fresh = FALSE
             \/ new.fresh = pkhFresh /\ new.delegate = pkh /\ new.pc = "mapped"
      BY <1>0, <2>1, <2>2 DEF Command, Fitting
    <2>4. command'[c] = new
      BY <1>0, <2>1
    <2>5. Fitting(c)'
      <3>1. CASE new.fresh = FALSE
        BY <2>3, <2>4, <3>1 DEF Fitting
      <3>2. CASE new.fresh = pkhFresh /\ new.delegate = pkh /\ new.pc = "mapped"
        <4>1. new.fresh => pkh = active
          <5>1. (pkhFresh => pkh = active) /\ new.fresh = pkhFresh
            <6>1. pkhFresh => pkh = active
              BY DEF WalletInv
            <6> QED
              BY <3>2, <6>1, Zenon
          <5> QED
            BY <5>1, Zenon
        <4>2. active' = active
          BY <2>2
        <4> QED
          BY <2>4, <3>2, <4>1, <4>2 DEF Fitting
      <3> QED
        BY <2>3, <3>1, <3>2
    <2>6. CASE new.pc = "failed"
      BY <1>0, <2>1, <2>2, <2>3, <2>5, <2>6, KeepingStep
    <2>7. CASE new.pc # "failed"
      <3>1. Shows(c)'
        BY <2>2, <2>3, <2>4, <2>7 DEF Shows
      <3> QED
        BY <1>0, <2>1, <2>2, <2>3, <2>5, <2>7, <3>1, KeepingStep
    <2> QED
      BY <2>6, <2>7
  <1>4. ASSUME NEW c \in Commands, PkhRead(c)
        PROVE  WalletInv'
    <2>1. PICK new :
             /\ command' = [command EXCEPT ![c] = new]
             /\ \/ /\ new = [command[c] EXCEPT !.pc = "failed"]
                   /\ screen' = (screen /\ command[c].kind = "refetch")
                \/ /\ new = [command[c] EXCEPT !.pc = "told", !.delegate = active,
                                               !.fresh = TRUE]
                   /\ screen' = screen
      BY <1>0, <1>4 DEF PkhRead
    <2>2. command[c].pc = "asked" /\ UNCHANGED <<active, permitted, pkh, pkhFresh, switches>>
      BY <1>4 DEF PkhRead
    <2>3. /\ new \in Command /\ new.kind = command[c].kind /\ new.pc \in {"failed", "told"}
          /\ new.pc = "failed" => screen' = (screen /\ command[c].kind = "refetch")
          /\ new.pc # "failed" => screen' = screen /\ new.delegate = active
      BY <1>0, <2>1 DEF Command
    <2>4. command'[c] = new
      BY <1>0, <2>1
    <2>5. Fitting(c)'
      BY <2>2, <2>3, <2>4 DEF Fitting
    <2>6. CASE new.pc = "failed"
      <3>1. CASE command[c].kind = "refetch"
        <4>1. screen' = screen
          <5>1. screen' = (screen /\ TRUE)
            BY <2>3, <2>6, <3>1
          <5> QED
            BY <1>0, <5>1
        <4>2. ~Shows(c)
          BY <3>1 DEF Shows
        <4> QED
          BY <1>0, <2>1, <2>2, <2>3, <2>5, <4>1, <4>2, KeepingStep
      <3>2. CASE command[c].kind # "refetch"
        <4>1. screen' = FALSE
          <5>1. screen' = (screen /\ FALSE)
            BY <2>3, <2>6, <3>2
          <5> QED
            BY <1>0, <5>1
        <4> QED
          BY <1>0, <2>1, <2>2, <2>3, <2>5, <4>1, KeepingStep
      <3> QED
        BY <3>1, <3>2
    <2>7. CASE new.pc = "told"
      <3>1. screen' = screen
        BY <2>3, <2>7
      <3>2. Shows(c) => Shows(c)'
        BY <2>3, <2>4, <2>7 DEF Shows
      <3> QED
        BY <1>0, <2>1, <2>2, <2>3, <2>5, <3>1, <3>2, KeepingStep
    <2> QED
      BY <2>3, <2>6, <2>7
  <1>5. ASSUME NEW c \in Commands, PkhKept(c)
        PROVE  WalletInv'
    <2>1. PICK new :
             /\ command' = [command EXCEPT ![c] = new]
             /\ new = [command[c] EXCEPT !.delegate = pkh', !.pc =
                          IF command[c].kind = "refetch" THEN "done" ELSE "mapped"]
      BY <1>0, <1>5 DEF PkhKept
    <2>2. /\ command[c].pc = "told" /\ pkh' = command[c].delegate
          /\ pkhFresh' = command[c].fresh
          /\ UNCHANGED <<active, permitted, screen, switches>>
      BY <1>5 DEF PkhKept
    <2>3. /\ new \in Command /\ new.kind = command[c].kind
          /\ new.delegate = command[c].delegate /\ new.fresh = command[c].fresh
          /\ new.pc = IF command[c].kind = "refetch" THEN "done" ELSE "mapped"
          /\ command[c].delegate \in Accounts \cup {NoAccount} /\ command[c].fresh \in BOOLEAN
      BY <1>0, <2>1, <2>2 DEF Command
    <2>4. command'[c] = new
      BY <1>0, <2>1
    <2>5. Fitting(c)' /\ (pkhFresh' => pkh' = active)
      BY <1>0, <2>2, <2>3, <2>4 DEF Fitting
    <2>6. Shows(c) => Shows(c)'
      BY <2>3, <2>4 DEF Shows
    <2> QED
      BY <1>0, <2>1, <2>2, <2>3, <2>5, <2>6, CommandStep
  <1>6. ASSUME NEW c \in Commands, AccountChecked(c)
        PROVE  WalletInv'
    <2>1. PICK new :
             /\ command' = [command EXCEPT ![c] = new]
             /\ \/ new = [command[c] EXCEPT !.pc = "checked"]
                \/ new = [command[c] EXCEPT !.pc = "not sent"]
      BY <1>0, <1>6 DEF AccountChecked
    <2>2. /\ command[c].pc = "mapped"
          /\ UNCHANGED <<active, permitted, pkh, pkhFresh, screen, switches>>
      BY <1>6 DEF AccountChecked
    <2>3. /\ new \in Command /\ new.kind = command[c].kind /\ new.fresh = command[c].fresh
          /\ new.delegate = command[c].delegate /\ new.pc \in {"checked", "not sent"}
      BY <1>0, <2>1 DEF Command
    <2>4. command'[c] = new
      BY <1>0, <2>1
    <2>5. Fitting(c)'
      BY <1>0, <2>2, <2>3, <2>4 DEF Fitting
    <2>6. Shows(c) => Shows(c)'
      BY <2>3, <2>4 DEF Shows
    <2> QED
      BY <1>0, <2>1, <2>2, <2>3, <2>5, <2>6, KeepingStep
  <1>7. ASSUME NEW c \in Commands, OperationRequested(c)
        PROVE  WalletInv'
    <2>1. PICK new :
             /\ command' = [command EXCEPT ![c] = new]
             /\ \/ /\ new = [command[c] EXCEPT !.pc = "done", !.source = active]
                   /\ screen' = FALSE
                \/ /\ new = [command[c] EXCEPT !.pc = "failed"]
                   /\ screen' = FALSE
                \/ /\ new = [command[c] EXCEPT !.pc = "not sent"]
                   /\ screen' = screen
      BY <1>0, <1>7 DEF OperationRequested
    <2>2. command[c].pc = "checked" /\ UNCHANGED <<active, permitted, pkh, pkhFresh, switches>>
      BY <1>7 DEF OperationRequested
    <2>3. /\ new \in Command /\ new.kind = command[c].kind /\ new.fresh = command[c].fresh
          /\ new.delegate = command[c].delegate /\ new.pc \in {"done", "failed", "not sent"}
          /\ new.pc = "done" => new.source = active
          /\ new.pc # "not sent" => screen' = FALSE
          /\ new.pc = "not sent" => screen' = screen
      BY <1>0, <2>1 DEF Command
    <2>4. command'[c] = new
      BY <1>0, <2>1
    <2>5. Fitting(c)'
      BY <1>0, <2>2, <2>3, <2>4 DEF Fitting
    <2>6. CASE new.pc # "not sent"
      BY <1>0, <2>1, <2>2, <2>3, <2>5, <2>6, KeepingStep
    <2>7. CASE new.pc = "not sent"
      <3>1. Shows(c) => Shows(c)'
        BY <2>3, <2>4, <2>7 DEF Shows
      <3> QED
        BY <1>0, <2>1, <2>2, <2>3, <2>5, <2>7, <3>1, KeepingStep
    <2> QED
      BY <2>6, <2>7
  <1>8. CASE UNCHANGED walletVars
    BY <1>8 DEF walletVars, WalletInv, WalletTypeOK, Fitting, Shows
  <1> QED
    BY <1>1, <1>2, <1>3, <1>4, <1>5, <1>6, <1>7, <1>8 DEF WalletNext

\* The invariant holds in every state.
LEMMA WalletInvariant == WalletSpec => []WalletInv
  <1>1. WalletInit => WalletInv
    <2> SUFFICES ASSUME WalletInit
                 PROVE  WalletInv
      OBVIOUS
    <2>1. \A c \in Commands : /\ command[c] \in Command /\ command[c].pc = "idle"
                               /\ command[c].fresh = FALSE
      BY DEF WalletInit, Command, CommandKinds
    <2>2. command \in [Commands -> Command] /\ pkhFresh = FALSE /\ screen = FALSE
      BY <2>1 DEF WalletInit
    <2>3. WalletTypeOK
      <3>1. switches \in 0..MaxSwitches
        BY WalletAssumption DEF WalletInit
      <3>2. /\ active \in Accounts \cup {NoAccount} /\ pkh \in Accounts \cup {NoAccount}
            /\ permitted \in BOOLEAN /\ pkhFresh \in BOOLEAN /\ screen \in BOOLEAN
        BY DEF WalletInit
      <3> QED
        BY <2>2, <3>1, <3>2 DEF WalletTypeOK
    <2> QED
      BY <2>1, <2>2, <2>3 DEF WalletInv, Fitting
  <1> QED
    BY <1>1, WalletStep, PTL DEF WalletSpec

\* What the wallet knows of its account, and what each command has asked for, have their
\* types through all switches of the account.
THEOREM WalletTypeCorrect == WalletSpec => []WalletTypeOK
  <1>1. WalletInv => WalletTypeOK
    BY DEF WalletInv
  <1> QED
    BY <1>1, WalletInvariant, PTL

\* For any accounts and commands: who registers as a delegate registers himself, unless
\* the active account has changed since the public key hash was read.
THEOREM DelegateIsSource == WalletSpec => []RegistersItself
  <1>1. WalletInv => RegistersItself
    BY DEF WalletInv, Fitting, RegistersItself
  <1> QED
    BY <1>1, WalletInvariant, PTL

\* The screen of the wallet goes away with the last command that shows it.
THEOREM ScreenGoesAway == WalletSpec => []ScreenCloses
  <1>1. WalletInv => ScreenCloses
    BY DEF WalletInv, Shows, ScreenCloses
  <1> QED
    BY <1>1, WalletInvariant, PTL

-----------------------------------------------------------------------------
(* BigMapReads *)

\* One block was chosen for all the requests.
Fixed == read.block > 0 \/ LevelIsRead(read.keys, read.block)

\* The requests have been made, or are being made.
Reading == read.pc \in {"level", "round", "done"}

\* The values are there round by round, and all of them come from the block of the level,
\* or from some block if there is but one of them.
RoundsKnown ==
    /\ read.block \in Nat \/ read.block = Undefined
    /\ read.pc \in {"idle", "level"} => read.position = 0
    /\ Reading => DOMAIN read.values = DOMAIN read.keys
    /\ read.pc = "level" => /\ LevelIsRead(read.keys, read.block)
                            /\ \A i \in DOMAIN read.keys : read.values[i] = Undefined
    /\ read.pc = "round" => \A i \in DOMAIN read.keys :
                               i <= read.position => read.values[i] # Undefined
    /\ read.pc = "round" /\ ~Fixed => read.level \in {0, Undefined}
    /\ read.pc = "done" => \A i \in DOMAIN read.keys : read.values[i] # Undefined

\* While no block was replaced, the values read so far are those of one block.
OneBlockKnown ==
    read.pc \in {"round", "done"} /\ ~reorganised =>
        /\ Fixed => /\ read.level \in DOMAIN bigMap
                    /\ read.block > 0 => read.level = read.block
                    /\ \A i \in DOMAIN read.keys : read.values[i] # Undefined =>
                          read.values[i] = bigMap[read.level][read.keys[i]]
        /\ ~Fixed => \A i \in DOMAIN read.keys : read.values[i] # Undefined =>
                        \E l \in DOMAIN bigMap : read.values[i] = bigMap[l][read.keys[i]]

\* The values of the keys in a block.
Values == [BigMapKeys -> 0..MaxMapBlocks]

\* The inductive invariant.
BigMapInv ==
    /\ BigMapTypeOK /\ Len(bigMap) # 0
    /\ RoundsKnown /\ OneBlockKnown

\* A step keeps the invariant.
LEMMA BigMapStep == BigMapInv /\ [BigMapNext]_bigMapVars => BigMapInv'
  <1> SUFFICES ASSUME BigMapInv, [BigMapNext]_bigMapVars
               PROVE  BigMapInv'
    OBVIOUS
  <1>0. /\ bigMap \in Seq(Values) /\ Len(bigMap) \in Nat \ {0} /\ DOMAIN bigMap = 1..Len(bigMap)
        /\ baked \in 1..MaxMapBlocks /\ reorganised \in BOOLEAN /\ rewraps \in BOOLEAN
        /\ read \in Read /\ RoundsKnown /\ OneBlockKnown
    BY DEF BigMapInv, BigMapTypeOK, Values
  <1>1. ASSUME NEW keys \in KeyLists, NEW block \in {Undefined} \cup 0..Len(bigMap),
               GetValues(keys, block)
        PROVE  BigMapInv'
    <2>1. PICK n \in 1..MaxKeys : keys \in [1..n -> BigMapKeys]
      BY DEF KeyLists
    <2>2. /\ n \in Nat \ {0} /\ keys \in Seq(BigMapKeys) /\ DOMAIN keys = 1..n /\ Len(keys) = n
          /\ block \in Int
      BY <1>0, <2>1, BigMapAssumption DEF Undefined
    <2>3. PICK pc \in {"level", "round"} :
             pc = IF LevelIsRead(keys, block) THEN "level" ELSE "round"
      OBVIOUS
    <2>4. PICK vals : vals = [i \in DOMAIN keys |-> Undefined]
      OBVIOUS
    <2>5. vals \in Seq(Int) /\ DOMAIN vals = DOMAIN keys
          /\ \A i \in DOMAIN keys : vals[i] = Undefined
      BY <2>2, <2>4 DEF Undefined
    <2>6. /\ read' = [read EXCEPT !.keys = keys, !.block = block, !.level = block,
                                  !.values = vals, !.pc = pc]
          /\ read.pc = "idle" /\ UNCHANGED <<bigMap, baked, reorganised, rewraps>>
      BY <1>1, <2>3, <2>4 DEF GetValues
    <2>7. /\ read' \in Read /\ read'.keys = keys /\ read'.block = block /\ read'.level = block
          /\ read'.values = vals /\ read'.pc = pc
      BY <1>0, <2>2, <2>5, <2>6 DEF Read
    <2>8. RoundsKnown'
      <3>1. Undefined # 0
        BY DEF Undefined
      <3>2. \A i \in DOMAIN keys : ~(i <= 0)
        BY <2>2
      <3>3. read'.position = 0
        BY <1>0, <2>6 DEF Read, RoundsKnown
      <3>4. block \in Nat \/ block = Undefined
        BY <1>0
      <3>5. pc = "round" /\ ~(block > 0) => block \in {0, Undefined}
        BY <3>4 DEF Undefined
      <3>6. pc = "round" /\ ~(Fixed)' => block \in {0, Undefined}
        BY <2>7, <3>5 DEF Fixed
      <3> QED
        BY <2>3, <2>5, <2>6, <2>7, <3>1, <3>2, <3>3, <3>4, <3>6 DEF RoundsKnown, Reading
    <2>9. OneBlockKnown'
      <3>1. CASE pc = "level"
        BY <2>7, <3>1 DEF OneBlockKnown
      <3>2. CASE pc = "round"
        <4>1. ~LevelIsRead(keys, block)
          BY <2>3, <3>2
        <4>2. block > 0 => block \in DOMAIN bigMap
          BY <1>0, <2>2 DEF Undefined
        <4>3. (Fixed)' <=> block > 0
          BY <2>7, <4>1 DEF Fixed, LevelIsRead
        <4> QED
          BY <2>5, <2>6, <2>7, <4>2, <4>3 DEF OneBlockKnown
      <3> QED
        BY <3>1, <3>2
    <2> QED
      BY <1>0, <2>6, <2>7, <2>8, <2>9 DEF BigMapInv, BigMapTypeOK, Values
  <1>2. CASE LevelAnswered
    <2>1. /\ read.pc = "level" /\ read' = [read EXCEPT !.level = Len(bigMap), !.pc = "round"]
          /\ UNCHANGED <<bigMap, baked, reorganised, rewraps>>
      BY <1>2 DEF LevelAnswered
    <2>2. /\ read' \in Read /\ read'.pc = "round" /\ read'.keys = read.keys
          /\ read'.block = read.block /\ read'.level = Len(bigMap)
          /\ read'.values = read.values /\ read'.position = read.position
      <3>1. PICK l : l = Len(bigMap)
        OBVIOUS
      <3>2. l \in Int
        BY <1>0, <3>1
      <3>3. read' = [read EXCEPT !.level = l, !.pc = "round"]
        BY <2>1, <3>1
      <3> QED
        BY <1>0, <3>1, <3>2, <3>3 DEF Read
    <2>3. LevelIsRead(read.keys, read.block) /\ ~(read.block > 0)
      BY <1>0, <2>1 DEF RoundsKnown, LevelIsRead, Undefined
    <2>4. /\ DOMAIN read.values = DOMAIN read.keys
          /\ \A i \in DOMAIN read.keys : read.values[i] = Undefined
      BY <1>0, <2>1 DEF RoundsKnown, Reading
    <2>5. RoundsKnown'
      <3>1. \A i \in DOMAIN read.keys : ~(i <= read.position)
        <4>1. read.position = 0 /\ DOMAIN read.keys = 1..Len(read.keys)
          BY <1>0, <2>1 DEF RoundsKnown, Read
        <4> QED
          BY <4>1
      <3>2. (Fixed)'
        BY <2>2, <2>3 DEF Fixed
      <3> QED
        BY <1>0, <2>1, <2>2, <2>4, <3>1, <3>2 DEF RoundsKnown, Reading
    <2>6. OneBlockKnown'
      BY <1>0, <2>1, <2>2, <2>3, <2>4 DEF OneBlockKnown, Fixed, LevelIsRead
    <2> QED
      BY <1>0, <2>1, <2>2, <2>5, <2>6 DEF BigMapInv, BigMapTypeOK, Values
  <1>3. ASSUME NEW i \in 1..MaxKeys, ValueAnswered(i)
        PROVE  BigMapInv'
    <2> DEFINE value == IF BlockOf(read.level) \in DOMAIN bigMap
                        THEN bigMap[BlockOf(read.level)][read.keys[i]] ELSE 0
               after == Answer(i)
               position == read.position + BatchSize
    <2>1. /\ read.pc = "round" /\ i \in DOMAIN read.keys /\ read.values[i] = Undefined
          /\ i > read.position /\ i <= position
          /\ UNCHANGED <<bigMap, baked, reorganised, rewraps>>
      BY <1>3 DEF ValueAnswered, Round
    <2>2. /\ DOMAIN read.keys = 1..Len(read.keys) /\ Len(read.keys) \in Nat
          /\ read.keys \in Seq(BigMapKeys) /\ DOMAIN read.values = DOMAIN read.keys
          /\ read.values \in Seq(Int) /\ read.position \in Nat /\ position \in Nat
      BY <1>0, <2>1, BigMapAssumption DEF Read, RoundsKnown, Reading
    <2>3. value \in Nat /\ value # Undefined
      <3>1. BlockOf(read.level) \in DOMAIN bigMap =>
               bigMap[BlockOf(read.level)][read.keys[i]] \in 0..MaxMapBlocks
        <4>1. read.keys[i] \in BigMapKeys
          BY <2>1, <2>2
        <4>2. \A b \in DOMAIN bigMap : bigMap[b] \in [BigMapKeys -> 0..MaxMapBlocks]
          BY <1>0 DEF Values
        <4> QED
          BY <4>1, <4>2
      <3> QED
        BY <3>1, BigMapAssumption DEF Undefined
    <2>4. PICK vals : vals = [read.values EXCEPT ![i] = value]
      OBVIOUS
    <2>5. /\ vals \in Seq(Int) /\ DOMAIN vals = DOMAIN read.keys /\ vals[i] = value
          /\ \A j \in DOMAIN read.keys : j # i => vals[j] = read.values[j]
      <3> HIDE DEF value
      <3> QED
        BY <2>1, <2>2, <2>3, <2>4
    <2>6. after = IF value = 0 /\ rewraps THEN [read EXCEPT !.pc = "failed"]
                  ELSE [read EXCEPT !.values = vals]
      BY <1>0, <2>4 DEF Answer, Read
    <2> HIDE DEF value
    <2>7. CASE value = 0 /\ rewraps
      <3>1. read' = [read EXCEPT !.pc = "failed"]
        BY <1>0, <1>3, <2>6, <2>7 DEF ValueAnswered, Read
      <3>2. read' \in Read /\ read'.pc = "failed" /\ read'.block = read.block
        BY <1>0, <3>1 DEF Read
      <3> QED
        BY <1>0, <2>1, <3>2 DEF BigMapInv, BigMapTypeOK, Values, RoundsKnown, OneBlockKnown, Reading
    <2>8. CASE ~(value = 0 /\ rewraps)
      <3>1. PICK over \in BOOLEAN : over <=> \A j \in Round : vals[j] # Undefined
        OBVIOUS
      <3>2. PICK new \in Read :
               /\ read' = new /\ new.keys = read.keys /\ new.block = read.block
               /\ new.level = read.level /\ new.values = vals
               /\ \/ ~over /\ new.pc = "round" /\ new.position = read.position
                  \/ /\ over /\ new.position = position
                     /\ new.pc = IF position < Len(read.keys) THEN "round" ELSE "done"
        <4>1. after \in Read /\ after.pc = "round" /\ after.values = vals
              /\ after.keys = read.keys /\ after.block = read.block
              /\ after.level = read.level /\ after.position = read.position
          BY <1>0, <2>1, <2>5, <2>6, <2>8 DEF Read
        <4>2. read' = IF ~over THEN after
                      ELSE [after EXCEPT !.position = position,
                              !.pc = IF position < Len(read.keys) THEN "round" ELSE "done"]
          BY <1>3, <3>1, <4>1 DEF ValueAnswered
        <4> HIDE DEF after, position
        <4>3. CASE ~over
          <5>1. read' = after
            BY <4>2, <4>3
          <5> QED
            BY <4>1, <4>3, <5>1
        <4>4. CASE over
          <5>1. PICK pc \in {"round", "done"} :
                   pc = IF position < Len(read.keys) THEN "round" ELSE "done"
            OBVIOUS
          <5>2. read' = [after EXCEPT !.position = position, !.pc = pc]
            BY <4>2, <4>4, <5>1
          <5>3. /\ read' \in Read /\ read'.keys = read.keys /\ read'.block = read.block
                /\ read'.level = read.level /\ read'.values = vals
                /\ read'.position = position /\ read'.pc = pc
            BY <2>2, <4>1, <5>2 DEF Read
          <5> QED
            BY <4>4, <5>1, <5>3
        <4> QED
          BY <4>3, <4>4
      <3>3. RoundsKnown'
        <4>1. over => \A j \in DOMAIN read.keys : j <= position => vals[j] # Undefined
          <5>1. ASSUME over, NEW j \in DOMAIN read.keys, j <= position
                PROVE  vals[j] # Undefined
            <6>1. CASE j > read.position
              BY <2>2, <3>1, <5>1, <6>1 DEF Round
            <6>2. CASE j <= read.position
              <7>1. j # i
                BY <2>1, <2>2, <6>2
              <7> QED
                BY <1>0, <2>1, <2>5, <6>2, <7>1 DEF RoundsKnown
            <6> QED
              BY <2>2, <6>1, <6>2
          <5> QED
            BY <5>1
        <4>2. \A j \in DOMAIN read.keys : j <= read.position => vals[j] # Undefined
          BY <1>0, <2>1, <2>3, <2>5 DEF RoundsKnown
        <4>3. over /\ ~(position < Len(read.keys)) =>
                 \A j \in DOMAIN read.keys : vals[j] # Undefined
          BY <2>2, <4>1
        <4> HIDE DEF position
        <4>4. /\ read.block \in Nat \/ read.block = Undefined
              /\ ~Fixed => read.level \in {0, Undefined}
          BY <1>0, <2>1 DEF RoundsKnown
        <4>5. (Fixed)' <=> Fixed
          BY <3>2 DEF Fixed
        <4> QED
          BY <2>1, <2>5, <3>2, <4>1, <4>2, <4>3, <4>4, <4>5 DEF RoundsKnown, Reading
      <3>4. OneBlockKnown'
        <4>1. SUFFICES ASSUME ~reorganised
                       PROVE  OneBlockKnown'
          BY <2>1 DEF OneBlockKnown
        <4>2. (Fixed)' <=> Fixed
          BY <3>2 DEF Fixed
        <4>3. BlockOf(read.level) \in DOMAIN bigMap => value = bigMap[BlockOf(read.level)][read.keys[i]]
          BY DEF value
        <4>4. CASE Fixed
          <5>1. /\ read.level \in DOMAIN bigMap /\ (read.block > 0 => read.level = read.block)
                /\ \A j \in DOMAIN read.keys : read.values[j] # Undefined =>
                      read.values[j] = bigMap[read.level][read.keys[j]]
            BY <1>0, <2>1, <4>1, <4>4 DEF OneBlockKnown
          <5>2. BlockOf(read.level) = read.level
            BY <1>0, <5>1 DEF BlockOf, Undefined
          <5>3. \A j \in DOMAIN read.keys : vals[j] # Undefined =>
                   vals[j] = bigMap[read.level][read.keys[j]]
            BY <2>5, <4>3, <5>1, <5>2
          <5> QED
            BY <2>1, <3>2, <4>2, <4>4, <5>1, <5>3 DEF OneBlockKnown
        <4>5. CASE ~Fixed
          <5>1. \A j \in DOMAIN read.keys : read.values[j] # Undefined =>
                   \E l \in DOMAIN bigMap : read.values[j] = bigMap[l][read.keys[j]]
            BY <1>0, <2>1, <4>1, <4>5 DEF OneBlockKnown
          <5>2. BlockOf(read.level) \in DOMAIN bigMap
            BY <1>0, <2>1, <4>5 DEF RoundsKnown, BlockOf
          <5> QED
            BY <2>1, <2>5, <3>2, <4>2, <4>3, <4>5, <5>1, <5>2, SMTT(60) DEF OneBlockKnown
        <4> QED
          BY <4>4, <4>5
      <3> QED
        BY <1>0, <2>1, <3>2, <3>3, <3>4 DEF BigMapInv, BigMapTypeOK, Values
    <2> QED
      BY <2>7, <2>8
  <1>4. CASE ReadFails
    <2>1. /\ read' = [read EXCEPT !.pc = "failed", !.unanswered = TRUE]
          /\ UNCHANGED <<bigMap, baked, reorganised, rewraps>>
      BY <1>4 DEF ReadFails
    <2>2. read' \in Read /\ read'.pc = "failed"
      BY <1>0, <2>1 DEF Read
    <2> QED
      BY <1>0, <2>1, <2>2 DEF BigMapInv, BigMapTypeOK, Values, RoundsKnown, OneBlockKnown,
                              Reading
  <1>5. CASE MapBlock
    <2>a. PICK set \in SUBSET BigMapKeys, removed \in SUBSET BigMapKeys, replaces \in BOOLEAN :
             /\ replaces => Len(bigMap) > 1
             /\ LET branch == IF replaces THEN SubSeq(bigMap, 1, Len(bigMap) - 1) ELSE bigMap
                IN  bigMap' = Append(branch,
                       [k \in BigMapKeys |-> IF k \in set THEN baked + 1
                                             ELSE IF k \in removed THEN 0
                                             ELSE branch[Len(branch)][k]])
             /\ reorganised' = (reorganised \/ (replaces /\ read.pc # "idle"))
      BY <1>5 DEF MapBlock
    <2>b. PICK branch : branch = IF replaces THEN SubSeq(bigMap, 1, Len(bigMap) - 1) ELSE bigMap
      OBVIOUS
    <2>c. branch \in Seq(Values) /\ Len(branch) \in Nat \ {0}
      <3>1. CASE replaces
        BY <1>0, <2>a, <2>b, <3>1
      <3>2. CASE ~replaces
        BY <1>0, <2>b, <3>2
      <3> QED
        BY <3>1, <3>2
    <2>d. PICK vals : vals = [k \in BigMapKeys |-> IF k \in set THEN baked + 1
                                             ELSE IF k \in removed THEN 0
                                             ELSE branch[Len(branch)][k]]
      OBVIOUS
    <2>e. baked + 1 \in 0..MaxMapBlocks /\ 0 \in 0..MaxMapBlocks
      BY <1>0, <1>5, BigMapAssumption DEF MapBlock
    <2>f. branch[Len(branch)] \in [BigMapKeys -> 0..MaxMapBlocks]
      BY <2>c DEF Values
    <2>g. vals \in Values
      BY <2>d, <2>e, <2>f DEF Values
    <2>h. bigMap' = Append(branch, vals)
      BY <2>a, <2>b, <2>d
    <2>1. /\ bigMap' = Append(branch, vals)
          /\ branch = IF replaces THEN SubSeq(bigMap, 1, Len(bigMap) - 1) ELSE bigMap
          /\ reorganised' = (reorganised \/ (replaces /\ read.pc # "idle"))
          /\ replaces => Len(bigMap) > 1
      BY <2>a, <2>b, <2>h
    <2>2. branch \in Seq(Values) /\ Len(branch) \in Nat
      <3>1. CASE replaces
        BY <1>0, <2>1, <3>1
      <3>2. CASE ~replaces
        BY <1>0, <2>1, <3>2
      <3> QED
        BY <3>1, <3>2
    <2>3. /\ bigMap' \in Seq(Values) /\ Len(bigMap') # 0 /\ DOMAIN bigMap' = 1..(Len(branch) + 1)
          /\ \A l \in 1..Len(branch) : bigMap'[l] = branch[l]
      BY <2>1, <2>2, <2>g
    <2>4. /\ baked' \in 1..MaxMapBlocks /\ reorganised' \in BOOLEAN
          /\ UNCHANGED <<rewraps, read>>
      BY <1>0, <1>5, <2>1, BigMapAssumption DEF MapBlock
    <2>5. OneBlockKnown'
      <3>1. SUFFICES ASSUME read.pc \in {"round", "done"}, ~reorganised'
                     PROVE  OneBlockKnown'
        BY <2>4 DEF OneBlockKnown
      <3>2. ~reorganised /\ ~replaces
        BY <2>1, <3>1
      <3>3. \A l \in DOMAIN bigMap : l \in DOMAIN bigMap' /\ bigMap'[l] = bigMap[l]
        BY <1>0, <2>1, <2>3, <3>2
      <3> QED
        BY <1>0, <2>4, <3>1, <3>2, <3>3 DEF OneBlockKnown, Fixed
    <2>6. RoundsKnown'
      BY <1>0, <2>4 DEF RoundsKnown, Reading, Fixed
    <2> QED
      BY <1>0, <2>3, <2>4, <2>5, <2>6 DEF BigMapInv, BigMapTypeOK, Values
  <1>6. CASE UNCHANGED bigMapVars
    BY <1>6 DEF bigMapVars, BigMapInv, BigMapTypeOK, RoundsKnown, OneBlockKnown, Reading, Fixed
  <1> QED
    BY <1>1, <1>2, <1>3, <1>4, <1>5, <1>6 DEF BigMapNext

\* The invariant holds in every state.
LEMMA BigMapInvariant == BigMapSpec => []BigMapInv
  <1>1. BigMapInit => BigMapInv
    <2> SUFFICES ASSUME BigMapInit
                 PROVE  BigMapInv
      OBVIOUS
    <2>1. 1 \in 0..MaxMapBlocks /\ 1 \in 1..MaxMapBlocks
      BY BigMapAssumption
    <2>2. PICK vals : vals = [k \in BigMapKeys |-> 1]
      OBVIOUS
    <2>3. vals \in Values /\ bigMap = <<vals>>
      BY <2>1, <2>2 DEF BigMapInit, Values
    <2>4. bigMap \in Seq(Values) /\ Len(bigMap) = 1
      BY <2>3
    <2>5. read \in Read /\ read.pc = "idle" /\ read.position = 0 /\ read.block = Undefined
      BY DEF BigMapInit, Read, Undefined
    <2>6. RoundsKnown /\ OneBlockKnown
      BY <2>5 DEF RoundsKnown, OneBlockKnown, Reading
    <2>7. BigMapTypeOK
      BY <2>1, <2>4, <2>5 DEF BigMapInit, BigMapTypeOK, Values
    <2> QED
      BY <2>4, <2>6, <2>7 DEF BigMapInv
  <1> QED
    BY <1>1, BigMapStep, PTL DEF BigMapSpec

\* The big map, its blocks and what a call has read of them have their types, also after
\* the last block was replaced.
THEOREM BigMapTypeCorrect == BigMapSpec => []BigMapTypeOK
  <1>1. BigMapInv => BigMapTypeOK
    BY DEF BigMapInv
  <1> QED
    BY <1>1, BigMapInvariant, PTL

\* For any keys, sizes of a round and blocks in between: the values of a call are those of
\* one block, unless the node has reorganised or the block is 0.
THEOREM ValuesAreOfOneBlock == BigMapSpec => []ValuesOfOneBlock
  <1>1. BigMapInv => ValuesOfOneBlock
    <2> SUFFICES ASSUME BigMapInv, read.pc = "done"
                 PROVE  ~reorganised /\ (read.block # 0 \/ Len(read.keys) = 1) => OfOneBlock
      BY DEF ValuesOfOneBlock
    <2>1. RoundsKnown /\ OneBlockKnown /\ read \in Read /\ bigMap \in Seq(Values) /\ Len(bigMap) # 0
      BY DEF BigMapInv, BigMapTypeOK, Values
    <2>2. ASSUME ~reorganised, read.block # 0 \/ Len(read.keys) = 1
          PROVE  OfOneBlock
      <3>1. \A i \in DOMAIN read.keys : read.values[i] # Undefined
        BY <2>1 DEF RoundsKnown
      <3>2. CASE Fixed
        <4>1. /\ read.level \in DOMAIN bigMap
              /\ read.block > 0 => read.level = read.block
              /\ \A i \in DOMAIN read.keys : read.values[i] = bigMap[read.level][read.keys[i]]
          BY <2>1, <2>2, <3>1, <3>2 DEF OneBlockKnown
        <4> QED
          BY <4>1 DEF OfOneBlock
      <3>3. CASE ~Fixed
        <4>1. Len(read.keys) = 1 /\ ~(read.block > 0)
          <5>1. read.block \in Nat \/ read.block = Undefined
            BY <2>1 DEF RoundsKnown
          <5>2. ~(read.block > 0) /\ (Len(read.keys) = 1 \/ read.block # Undefined)
            BY <3>3 DEF Fixed, LevelIsRead
          <5>3. read.block # Undefined => read.block = 0
            BY <5>1, <5>2
          <5> QED
            BY <2>2, <5>2, <5>3
        <4>2. DOMAIN read.keys = {1}
          BY <2>1, <4>1 DEF Read
        <4>3. PICK l \in DOMAIN bigMap : read.values[1] = bigMap[l][read.keys[1]]
          BY <2>1, <2>2, <3>1, <3>3, <4>2 DEF OneBlockKnown
        <4> QED
          BY <4>1, <4>2, <4>3 DEF OfOneBlock
      <3> QED
        BY <3>2, <3>3
    <2> QED
      BY <2>2
  <1> QED
    BY <1>1, BigMapInvariant, PTL

-----------------------------------------------------------------------------
(* MetadataViews *)

\* What holds of a call, whatever the others do: its reads are in order, and the first one
\* to send a code has put its own reads into it.
Sees(u) ==
    LET r == user[u]
    IN  /\ r.pc \in {"idle", "fetch", "storage", "balance"} => r.sent = Fresh
        /\ r.pc \in {"storage", "balance"} => r.view \in DOMAIN codes /\ r.begin <= viewHead
        /\ r.pc = "balance" => r.begin <= r.storage /\ r.storage <= viewHead
        /\ r.sent # Fresh /\ r.first =>
              /\ r.begin <= r.storage /\ r.storage <= r.sent.top
              /\ r.sent.cdr = IF hasParameter THEN 0 ELSE 1

\* The inductive invariant.
MetadataInv == MetadataTypeOK /\ \A u \in Users : Sees(u)

\* No code goes away.
CodesLast == DOMAIN codes \subseteq DOMAIN codes'

\* What holds of a call remains true when only another call has moved.
LEMMA SeesStays ==
    ASSUME MetadataInv, NEW u \in Users, user'[u] = user[u], CodesLast,
           viewHead' \in Nat, viewHead <= viewHead', hasParameter' = hasParameter
    PROVE  Sees(u)'
  <1>1. /\ user[u].begin \in Nat /\ user[u].storage \in Nat /\ viewHead \in Nat
        /\ Sees(u)
    BY ViewAssumption DEF MetadataInv, MetadataTypeOK, User
  <1>2. user[u].begin <= viewHead => user[u].begin <= viewHead'
    BY <1>1
  <1>3. user[u].storage <= viewHead => user[u].storage <= viewHead'
    BY <1>1
  <1>4. user[u].view \in DOMAIN codes => user[u].view \in DOMAIN codes'
    BY DEF CodesLast
  <1> QED
    BY <1>1, <1>2, <1>3, <1>4 DEF Sees

\* A step of one call that leaves the codes alone, or adds a fresh one.
LEMMA MetadataOne ==
    ASSUME MetadataInv, NEW u \in Users, NEW new \in User, user' = [user EXCEPT ![u] = new],
           codes' = codes \/ codes' = Append(codes, Fresh),
           envelope' \in 0..Len(codes'), views' \in 0..Len(codes'),
           UNCHANGED <<viewHead, hasParameter>>,
           user'[u] = new => Sees(u)'
    PROVE  MetadataInv'
  <1>0. codes \in Seq(Code) /\ Fresh \in Code /\ viewHead \in Nat
    BY ViewAssumption DEF MetadataInv, MetadataTypeOK, Code, Fresh
  <1>1. codes' \in Seq(Code) /\ CodesLast
    <2>1. CASE codes' = codes
      BY <1>0, <2>1 DEF CodesLast
    <2>2. CASE codes' = Append(codes, Fresh)
      <3>1. /\ codes' \in Seq(Code) /\ DOMAIN codes' = 1..(Len(codes) + 1)
            /\ DOMAIN codes = 1..Len(codes) /\ Len(codes) \in Nat
        BY <1>0, <2>2
      <3> QED
        BY <3>1 DEF CodesLast
    <2> QED
      BY <2>1, <2>2
  <1>2. /\ user' \in [Users -> User] /\ user'[u] = new
        /\ \A w \in Users \ {u} : user'[w] = user[w]
    BY DEF MetadataInv, MetadataTypeOK
  <1>3. \A w \in Users : Sees(w)'
    <2>1. viewHead' \in Nat /\ viewHead <= viewHead'
      BY <1>0
    <2> QED
      BY <1>1, <1>2, <2>1, SeesStays
  <1>4. MetadataTypeOK'
    BY <1>1, <1>2 DEF MetadataInv, MetadataTypeOK
  <1> QED
    BY <1>1, <1>3, <1>4 DEF MetadataInv

\* A step keeps the invariant.
LEMMA MetadataStep == MetadataInv /\ [MetadataNext]_metadataVars => MetadataInv'
  <1> SUFFICES ASSUME MetadataInv, [MetadataNext]_metadataVars
               PROVE  MetadataInv'
    OBVIOUS
  <1>0. /\ viewHead \in Nat \ {0} /\ codes \in Seq(Code) /\ Len(codes) \in Nat
        /\ DOMAIN codes = 1..Len(codes)
        /\ envelope \in 0..Len(codes) /\ views \in 0..Len(codes)
        /\ hasParameter \in BOOLEAN /\ user \in [Users -> User]
        /\ \A u \in Users : user[u] \in User /\ Sees(u)
    BY ViewAssumption DEF MetadataInv, MetadataTypeOK
  <1>1. CASE ViewBlock
    <2>1. /\ viewHead' \in 1..MaxViewHead /\ viewHead' \in Nat /\ viewHead <= viewHead'
          /\ UNCHANGED <<hasParameter, codes, envelope, views, user>>
      BY <1>0, <1>1, ViewAssumption DEF ViewBlock
    <2>2. CodesLast
      BY <2>1 DEF CodesLast
    <2>3. \A u \in Users : Sees(u)'
      BY <2>1, <2>2, SeesStays
    <2> QED
      BY <2>1, <2>3 DEF MetadataInv, MetadataTypeOK
  <1>2. ASSUME NEW u \in Users, NEW wants \in {"metadata", "view"}, GetViews(u, wants)
        PROVE  MetadataInv'
    <2>0. /\ user[u].pc = "idle" /\ user[u].sent = Fresh
          /\ UNCHANGED <<viewHead, hasParameter, codes, envelope>>
      BY <1>0, <1>2 DEF GetViews, Sees
    <2>1. CASE envelope = 0 \/ wants = "metadata"
      <3>1. PICK pc \in {"fetch", "done"} :
               /\ user' = [user EXCEPT ![u].wants = wants, ![u].pc = pc]
               /\ UNCHANGED views
        BY <1>2, <2>1 DEF GetViews
      <3>2. PICK new : new = [user[u] EXCEPT !.wants = wants, !.pc = pc]
        OBVIOUS
      <3>3. new \in User /\ new.pc \in {"fetch", "done"} /\ new.sent = Fresh
        BY <1>0, <2>0, <3>2 DEF User
      <3>4. user' = [user EXCEPT ![u] = new]
        BY <1>0, <3>1, <3>2
      <3>5. user'[u] = new => Sees(u)'
        BY <3>3 DEF Sees
      <3> QED
        BY <1>0, <2>0, <3>1, <3>3, <3>4, <3>5, MetadataOne
    <2>2. CASE envelope # 0 /\ wants = "view"
      <3>1. /\ views' = (IF views # 0 THEN views ELSE envelope)
            /\ user' = [user EXCEPT ![u].wants = wants, ![u].view = views',
                            ![u].begin = viewHead, ![u].pc = "storage"]
        BY <1>2, <2>2 DEF GetViews
      <3>2. PICK new : new = [user[u] EXCEPT !.wants = wants, !.view = views',
                                             !.begin = viewHead, !.pc = "storage"]
        OBVIOUS
      <3>3. views' \in DOMAIN codes /\ views' \in Nat
        BY <1>0, <2>2, <3>1
      <3>4. /\ new \in User /\ new.pc = "storage" /\ new.sent = Fresh /\ new.view = views'
            /\ new.begin = viewHead
        BY <1>0, <2>0, <3>2, <3>3 DEF User
      <3>5. user' = [user EXCEPT ![u] = new]
        BY <1>0, <3>1, <3>2
      <3>6. user'[u] = new => Sees(u)'
        BY <1>0, <2>0, <3>3, <3>4 DEF Sees
      <3>7. views' \in 0..Len(codes') /\ envelope' \in 0..Len(codes')
        BY <1>0, <2>0, <3>3
      <3> QED
        BY <2>0, <3>4, <3>5, <3>6, <3>7, MetadataOne
    <2> QED
      BY <1>0, <2>1, <2>2
  <1>3. ASSUME NEW u \in Users, MetadataFetched(u)
        PROVE  MetadataInv'
    <2>0. /\ user[u].pc = "fetch" /\ user[u].sent = Fresh /\ codes' = Append(codes, Fresh)
          /\ envelope' = Len(codes') /\ UNCHANGED <<viewHead, hasParameter>>
          /\ Len(codes') = Len(codes) + 1 /\ DOMAIN codes' = 1..(Len(codes) + 1)
      BY <1>0, <1>3 DEF MetadataFetched, Sees
    <2>1. CASE user[u].wants = "metadata"
      <3>1. user' = [user EXCEPT ![u].pc = "done"] /\ UNCHANGED views
        BY <1>3, <2>1 DEF MetadataFetched
      <3>2. PICK new : new = [user[u] EXCEPT !.pc = "done"]
        OBVIOUS
      <3>3. new \in User /\ new.pc = "done" /\ new.sent = Fresh
        BY <1>0, <2>0, <3>2 DEF User
      <3>4. user' = [user EXCEPT ![u] = new]
        BY <1>0, <3>1, <3>2
      <3>5. user'[u] = new => Sees(u)'
        BY <3>3 DEF Sees
      <3>6. envelope' \in 0..Len(codes') /\ views' \in 0..Len(codes')
        BY <1>0, <2>0, <3>1
      <3> QED
        BY <2>0, <3>3, <3>4, <3>5, <3>6, MetadataOne
    <2>2. CASE user[u].wants # "metadata"
      <3>1. /\ views' = Len(codes')
            /\ user' = [user EXCEPT ![u].view = Len(codes'), ![u].begin = viewHead,
                                    ![u].pc = "storage"]
        BY <1>3, <2>2 DEF MetadataFetched
      <3>2. PICK new : new = [user[u] EXCEPT !.view = Len(codes'), !.begin = viewHead,
                                             !.pc = "storage"]
        OBVIOUS
      <3>3. Len(codes') \in Nat /\ Len(codes') \in DOMAIN codes'
        BY <1>0, <2>0
      <3>4. /\ new \in User /\ new.pc = "storage" /\ new.sent = Fresh
            /\ new.view = Len(codes') /\ new.begin = viewHead
        BY <1>0, <2>0, <3>2, <3>3, ZenonT(60) DEF User
      <3>5. user' = [user EXCEPT ![u] = new]
        BY <1>0, <3>1, <3>2
      <3>6. user'[u] = new => Sees(u)'
        BY <1>0, <2>0, <3>3, <3>4 DEF Sees
      <3>7. envelope' \in 0..Len(codes') /\ views' \in 0..Len(codes')
        BY <2>0, <3>1, <3>3
      <3> QED
        BY <2>0, <3>4, <3>5, <3>6, <3>7, MetadataOne
    <2> QED
      BY <2>1, <2>2
  <1>4. ASSUME NEW u \in Users, StorageRead(u)
        PROVE  MetadataInv'
    <2>1. PICK new : new = [user[u] EXCEPT !.storage = viewHead, !.pc = "balance"]
      OBVIOUS
    <2>2. /\ new \in User /\ new.pc = "balance" /\ new.sent = user[u].sent
          /\ new.storage = viewHead /\ new.begin = user[u].begin /\ new.view = user[u].view
      BY <1>0, <2>1 DEF User
    <2>3. /\ user[u].pc = "storage" /\ user' = [user EXCEPT ![u] = new]
          /\ UNCHANGED <<viewHead, hasParameter, codes, envelope, views>>
      BY <1>0, <1>4, <2>1 DEF StorageRead
    <2>4. user'[u] = new => Sees(u)'
      BY <1>0, <2>2, <2>3 DEF Sees
    <2> QED
      BY <1>0, <2>2, <2>3, <2>4, MetadataOne
  <1>5. ASSUME NEW u \in Users, ContextRead(u)
        PROVE  MetadataInv'
    <2> DEFINE view == user[u].view
    <2>1. /\ user[u].pc = "balance" /\ view \in DOMAIN codes /\ codes[view] \in Code
          /\ user[u].begin <= user[u].storage /\ user[u].storage <= viewHead
      BY <1>0, <1>5 DEF ContextRead, Sees
    <2>2. PICK code : code = WithCdr(Adapted(codes[view], viewHead))
      OBVIOUS
    <2>3. /\ code \in Code
          /\ codes[view] = Fresh =>
                code.top = viewHead /\ code.cdr = IF hasParameter THEN 0 ELSE 1
      <3>1. PICK adapted : adapted = Adapted(codes[view], viewHead)
        OBVIOUS
      <3>2. /\ adapted \in Code /\ adapted.cdr = codes[view].cdr
            /\ codes[view].top = 0 => adapted.top = viewHead
        BY <1>0, <2>1, <3>1 DEF Adapted, Code
      <3>3. /\ code \in Code /\ code.top = adapted.top
            /\ code.cdr = IF hasParameter THEN adapted.cdr ELSE adapted.cdr + 1
        BY <2>2, <3>1, <3>2 DEF WithCdr, Code
      <3>4. Fresh.cdr = 0 /\ Fresh.top = 0
        BY DEF Fresh
      <3> QED
        BY <3>2, <3>3, <3>4
    <2>4. PICK new : new = [user[u] EXCEPT !.sent = code, !.pc = "run",
                                           !.first = codes[view] = Fresh]
      OBVIOUS
    <2>5. /\ new \in User /\ new.pc = "run" /\ new.sent = code /\ new.view = view
          /\ new.begin = user[u].begin /\ new.storage = user[u].storage
          /\ new.first = (codes[view] = Fresh)
      BY <1>0, <2>3, <2>4 DEF User
    <2>6. /\ user' = [user EXCEPT ![u] = new] /\ codes' = [codes EXCEPT ![view] = code]
          /\ UNCHANGED <<viewHead, hasParameter, envelope, views>>
      BY <1>0, <1>5, <2>2, <2>4 DEF ContextRead
    <2>7. /\ codes' \in Seq(Code) /\ Len(codes') = Len(codes) /\ DOMAIN codes' = DOMAIN codes
          /\ codes'[view] = code
          /\ \A v \in DOMAIN codes : v # view => codes'[v] = codes[v]
      BY <1>0, <2>1, <2>3, <2>6
    <2>8. CodesLast
      BY <2>7 DEF CodesLast
    <2>9. /\ user' \in [Users -> User] /\ user'[u] = new
          /\ \A w \in Users \ {u} : user'[w] = user[w]
      BY <1>0, <2>5, <2>6
    <2>10. Sees(u)'
      <3>1. /\ user'[u].pc = "run" /\ user'[u].sent = code /\ user'[u].view = view
            /\ user'[u].begin = user[u].begin /\ user'[u].storage = user[u].storage
            /\ user'[u].first <=> codes[view] = Fresh
        BY <2>5, <2>9
      <3>2. user'[u].first => /\ user'[u].begin <= user'[u].storage
                              /\ user'[u].storage <= user'[u].sent.top
                              /\ user'[u].sent.cdr = IF hasParameter' THEN 0 ELSE 1
        BY <2>1, <2>3, <2>6, <3>1
      <3> QED
        BY <3>1, <3>2 DEF Sees
    <2>11. \A w \in Users \ {u} : Sees(w)'
      BY <1>0, <2>6, <2>8, <2>9, SeesStays
    <2>12. MetadataTypeOK'
      BY <1>0, <2>6, <2>7, <2>9 DEF MetadataTypeOK, MetadataInv
    <2> QED
      BY <2>10, <2>11, <2>12 DEF MetadataInv
  <1>6. ASSUME NEW u \in Users, ViewRun(u) \/ MetadataRequestFails(u)
        PROVE  MetadataInv'
    <2>1. PICK pc \in {"done", "failed"} :
             user' = [user EXCEPT ![u].pc = pc]
      BY <1>6 DEF ViewRun, MetadataRequestFails
    <2>2. PICK new : new = [user[u] EXCEPT !.pc = pc]
      OBVIOUS
    <2>3. /\ new \in User /\ new.pc = pc /\ new.sent = user[u].sent /\ new.view = user[u].view
          /\ new.begin = user[u].begin /\ new.storage = user[u].storage
          /\ new.first = user[u].first
      BY <1>0, <2>2 DEF User
    <2>4. /\ user' = [user EXCEPT ![u] = new]
          /\ UNCHANGED <<viewHead, hasParameter, codes, envelope, views>>
      BY <1>0, <1>6, <2>1, <2>2 DEF ViewRun, MetadataRequestFails
    <2>5. ASSUME user'[u] = new
          PROVE  Sees(u)'
      BY <1>0, <2>3, <2>4, <2>5 DEF Sees
    <2> QED
      BY <1>0, <2>3, <2>4, <2>5, MetadataOne
  <1>7. CASE UNCHANGED metadataVars
    BY <1>7 DEF metadataVars, MetadataInv, MetadataTypeOK, Sees
  <1> QED
    BY <1>1, <1>2, <1>3, <1>4, <1>5, <1>6, <1>7 DEF MetadataNext

\* The invariant holds in every state.
LEMMA MetadataInvariant == MetadataSpec => []MetadataInv
  <1>1. MetadataInit => MetadataInv
    <2> SUFFICES ASSUME MetadataInit
                 PROVE  MetadataInv
      OBVIOUS
    <2>1. \A u \in Users : user[u] \in User /\ user[u].pc = "idle" /\ user[u].sent = Fresh
      BY DEF MetadataInit, User, Fresh, Code
    <2>2. codes \in Seq(Code) /\ Len(codes) = 0 /\ DOMAIN codes = {}
      BY DEF MetadataInit
    <2>3. MetadataTypeOK
      <3>1. viewHead \in 1..MaxViewHead
        BY ViewAssumption DEF MetadataInit
      <3>2. user \in [Users -> User] /\ hasParameter \in BOOLEAN
        BY <2>1 DEF MetadataInit
      <3>3. envelope \in 0..Len(codes) /\ views \in 0..Len(codes)
        BY <2>2 DEF MetadataInit
      <3> QED
        BY <2>2, <3>1, <3>2, <3>3 DEF MetadataTypeOK
    <2> QED
      BY <2>1, <2>2, <2>3 DEF MetadataInv, Sees
  <1> QED
    BY <1>1, MetadataStep, PTL DEF MetadataSpec

\* The code that the metadata and each view refer to is one of those that exist, and the
\* calls have their types.
THEOREM MetadataTypeCorrect == MetadataSpec => []MetadataTypeOK
  <1>1. MetadataInv => MetadataTypeOK
    BY DEF MetadataInv
  <1> QED
    BY <1>1, MetadataInvariant, PTL

\* For any number of calls and blocks: the first execution of the code of a view runs with
\* values of its own reads, in their order, and takes its argument as it should.
THEOREM FirstExecutionIsFaithful == MetadataSpec => []FirstExecutionIsCurrent
  <1>1. MetadataInv => FirstExecutionIsCurrent
    BY DEF MetadataInv, Sees, Executed, FirstExecutionIsCurrent
  <1> QED
    BY <1>1, MetadataInvariant, PTL

-----------------------------------------------------------------------------
(* LedgerSigner *)

\* The chunks of a message, up to the i-th one.
Chunked(m, i) == SubSeq(m, 1, Smaller(i * MAX_CHUNK_SIZE, Len(m)))

\* The chunks cover the message, and without the last one they do not.
LEMMA ChunkCountCovers ==
    ASSUME NEW n \in Nat \ {0}
    PROVE  /\ ChunkCount(n) \in Nat \ {0}
           /\ ChunkCount(n) * MAX_CHUNK_SIZE >= n
           /\ (ChunkCount(n) - 1) * MAX_CHUNK_SIZE < n
  <1> DEFINE k == ChunkCount(n)
             s == MAX_CHUNK_SIZE
  <1>1. s \in Nat \ {0}
    BY LedgerAssumption
  <1>2. k = (n + s - 1) \div s
    BY DEF ChunkCount
  <1>3. k \in Nat /\ k * s <= n + s - 1 /\ n + s - 1 < (k + 1) * s
    <2> HIDE DEF k, s
    <2> QED
      BY <1>1, <1>2, SMT
  <1>4. (k + 1) * s = k * s + s /\ (k - 1) * s = k * s - s /\ k * s \in Nat
    <2> HIDE DEF k, s
    <2> QED
      BY <1>1, <1>3, SMT
  <1>5. k * s >= n /\ (k - 1) * s < n
    <2> HIDE DEF k, s
    <2> QED
      BY <1>1, <1>3, <1>4, SMT
  <1>6. k # 0
    <2> HIDE DEF k, s
    <2> QED
      BY <1>1, <1>3, <1>5, SMT
  <1> QED
    BY <1>3, <1>5, <1>6

\* The next chunk goes behind the ones before.
LEMMA NextChunk ==
    ASSUME NEW S, NEW m \in Seq(S), NEW i \in Nat \ {0}, (i - 1) * MAX_CHUNK_SIZE <= Len(m)
    PROVE  /\ Chunk(m, i) \in Seq(S)
           /\ Chunked(m, i - 1) \o Chunk(m, i) = Chunked(m, i)
  <1>1. MAX_CHUNK_SIZE \in Nat \ {0} /\ Len(m) \in Nat
    BY LedgerAssumption
  <1>2. PICK a, b : a = (i - 1) * MAX_CHUNK_SIZE /\ b = Smaller(i * MAX_CHUNK_SIZE, Len(m))
    OBVIOUS
  <1>3. a \in Nat /\ i * MAX_CHUNK_SIZE = a + MAX_CHUNK_SIZE
    BY <1>1, <1>2, SMT
  <1>4. b \in Nat /\ a <= b /\ b <= Len(m)
    BY <1>1, <1>2, <1>3 DEF Smaller
  <1>5. Smaller((i - 1) * MAX_CHUNK_SIZE, Len(m)) = a
    BY <1>1, <1>2, <1>3 DEF Smaller
  <1>6. SubSeq(m, 1, a) \o SubSeq(m, a + 1, b) = SubSeq(m, 1, b)
    <2>1. 1 \in 1..(Len(m) + 1) /\ a \in (1 - 1)..Len(m) /\ b \in a..Len(m)
      BY <1>1, <1>3, <1>4
    <2> QED
      BY <2>1, ConcatAdjacentSubSeq
  <1>7. SubSeq(m, a + 1, b) \in Seq(S)
    BY <1>1, <1>3, <1>4
  <1> QED
    BY <1>2, <1>5, <1>6, <1>7 DEF Chunked, Chunk

\* The last chunk makes the message complete, and before it there is more to come.
LEMMA AllChunks ==
    ASSUME NEW S, NEW m \in Seq(S), m # <<>>
    PROVE  /\ Chunked(m, ChunkCount(Len(m))) = m
           /\ Chunked(m, 0) = <<>>
           /\ \A i \in Nat : i <= ChunkCount(Len(m)) /\ i # 0 =>
                 (i - 1) * MAX_CHUNK_SIZE <= Len(m)
  <1>0. Len(m) \in Nat \ {0} /\ MAX_CHUNK_SIZE \in Nat \ {0}
    BY LedgerAssumption
  <1>1. PICK k \in Nat \ {0} :
           k = ChunkCount(Len(m)) /\ k * MAX_CHUNK_SIZE >= Len(m)
              /\ (k - 1) * MAX_CHUNK_SIZE < Len(m)
    BY <1>0, ChunkCountCovers
  <1>2. Smaller(k * MAX_CHUNK_SIZE, Len(m)) = Len(m)
    BY <1>0, <1>1, SMT DEF Smaller
  <1>3. SubSeq(m, 1, Len(m)) = m
    OBVIOUS
  <1>4. Smaller(0 * MAX_CHUNK_SIZE, Len(m)) = 0 /\ SubSeq(m, 1, 0) = <<>>
    BY <1>0 DEF Smaller
  <1>5. ASSUME NEW i \in Nat, i <= k, i # 0
        PROVE  (i - 1) * MAX_CHUNK_SIZE <= Len(m)
    <2>1. (i - 1) * MAX_CHUNK_SIZE <= (k - 1) * MAX_CHUNK_SIZE
      <3>1. PICK x \in Nat, y \in Nat : x = i - 1 /\ y = k - 1 /\ x <= y
        <4>1. i - 1 \in Nat /\ k - 1 \in Nat /\ i - 1 <= k - 1
          BY <1>1, <1>5
        <4> QED
          BY <4>1
      <3>2. PICK d \in Nat : y = x + d
        BY <3>1
      <3>3. y * MAX_CHUNK_SIZE = x * MAX_CHUNK_SIZE + d * MAX_CHUNK_SIZE
        BY <1>0, <3>2, SMT
      <3>4. PICK p \in Nat, q \in Nat : p = x * MAX_CHUNK_SIZE /\ q = d * MAX_CHUNK_SIZE
        BY <1>0, SMT
      <3>5. p <= y * MAX_CHUNK_SIZE
        BY <3>3, <3>4
      <3> QED
        BY <3>1, <3>4, <3>5
    <2>2. (i - 1) * MAX_CHUNK_SIZE \in Nat /\ (k - 1) * MAX_CHUNK_SIZE \in Nat
      <3>1. i - 1 \in Nat /\ k - 1 \in Nat
        BY <1>1, <1>5
      <3>2. \A x, y \in Nat : x * y \in Nat
        BY SMT
      <3> QED
        BY <1>0, <3>1, <3>2
    <2> QED
      BY <1>0, <1>1, <2>1, <2>2
  <1> QED
    BY <1>1, <1>2, <1>3, <1>4, <1>5 DEF Chunked

-----------------------------------------------------------------------------
\* The call is sending its chunks.
Going(c) == signing[c].pc \in {"next", "sent"}

\* A call that nobody has interrupted finds its chunks on the device.
Signs(c) ==
    LET s == signing[c]
    IN  /\ s.pc = "idle" => s.sent = 0
        /\ Going(c) => s.length # 0 /\ s.sent <= ChunkCount(s.length)
        /\ s.pc = "sent" <=> transport = c
        /\ Going(c) /\ s.alone /\ s.sent # 0 => device = Chunked(Message(c), s.sent - 1)
        /\ s.pc = "done" /\ s.alone => s.signature = Message(c)

\* The inductive invariant.
LedgerInv == LedgerTypeOK /\ \A c \in Signings : Signs(c)

\* The message of a call is a sequence of bytes, of its length.
LEMMA MessageType ==
    ASSUME NEW c \in Signings, signing[c].length \in 0..MaxBytes
    PROVE  Message(c) \in Seq(Byte) /\ Len(Message(c)) = signing[c].length
  <1>1. signing[c].length \in Nat /\ MaxBytes \in Nat
    BY LedgerAssumption
  <1>2. \A i \in 1..signing[c].length : <<c, i>> \in Byte
    BY <1>1 DEF Byte
  <1> QED
    BY <1>1, <1>2 DEF Message

\* The calls that a step leaves alone.
LEMMA SignsStays ==
    ASSUME LedgerInv, NEW d \in Signings, signing'[d] = signing[d], device' = device,
           transport' = transport \/ (transport # d /\ transport' # d)
    PROVE  Signs(d)'
  BY DEF LedgerInv, Signs, Going, Message

\* The calls that a request of another one interrupts.
LEMMA SignsInterrupted ==
    ASSUME LedgerInv, NEW d \in Signings, transport # d, transport' # d,
           signing'[d] = IF signing[d].sent > 0 /\ signing[d].pc \in {"next", "sent"}
                         THEN [signing[d] EXCEPT !.alone = FALSE] ELSE signing[d]
    PROVE  Signs(d)' /\ signing'[d] \in Signing
  <1>0. signing[d] \in Signing /\ Signs(d)
    BY DEF LedgerInv, LedgerTypeOK
  <1>1. CASE signing[d].sent > 0 /\ signing[d].pc \in {"next", "sent"}
    <2>0. signing'[d] = [signing[d] EXCEPT !.alone = FALSE]
      BY <1>1
    <2>1. /\ signing'[d] \in Signing /\ signing'[d].alone = FALSE
          /\ signing'[d].pc = signing[d].pc /\ signing'[d].length = signing[d].length
          /\ signing'[d].sent = signing[d].sent
      BY <1>0, <2>0 DEF Signing
    <2> QED
      BY <1>0, <1>1, <2>1 DEF Signs, Going
  <1>2. CASE ~(signing[d].sent > 0 /\ signing[d].pc \in {"next", "sent"})
    <2>1. signing'[d] = signing[d]
      BY <1>2
    <2>2. ~(Going(d) /\ signing[d].sent # 0)
      <3>1. signing[d].sent \in Nat
        BY <1>0 DEF Signing
      <3> QED
        BY <1>2, <3>1 DEF Going
    <2> QED
      BY <1>0, <2>1, <2>2 DEF Signs, Going, Message
  <1> QED
    BY <1>1, <1>2

\* A step keeps the invariant.
LEMMA LedgerStep == LedgerInv /\ [LedgerNext]_ledgerVars => LedgerInv'
  <1> SUFFICES ASSUME LedgerInv, [LedgerNext]_ledgerVars
               PROVE  LedgerInv'
    OBVIOUS
  <1>0. /\ LedgerTypeOK /\ signing \in [Signings -> Signing]
        /\ transport \in Signings \cup KeyCalls \cup {NoCall}
        /\ \A c \in Signings : signing[c] \in Signing /\ Signs(c)
        /\ Signings \cap KeyCalls = {}
    BY LedgerAssumption DEF LedgerInv, LedgerTypeOK
  <1>1. ASSUME NEW c \in Signings, BeginSigning(c) \/ SendChunk(c)
        PROVE  LedgerInv'
    <2>1. PICK new \in Signing :
             /\ signing' = [signing EXCEPT ![c] = new]
             /\ UNCHANGED <<device, keyCall, publicKey>>
             /\ \/ /\ signing[c].pc = "idle" /\ new.pc = "next" /\ new.length \in 1..MaxBytes
                   /\ new.sent = signing[c].sent /\ transport' = transport
                \/ /\ signing[c].pc = "next" /\ new = [signing[c] EXCEPT !.pc = "sent"]
                   /\ transport = NoCall /\ transport' = c
                \/ /\ signing[c].pc = "next" /\ new.pc = "failed"
                   /\ transport' = transport
      <3>1. CASE BeginSigning(c)
        <4>1. PICK n \in 1..MaxBytes :
                 signing' = [signing EXCEPT ![c].pc = "next", ![c].length = n]
          BY <3>1 DEF BeginSigning
        <4>2. n \in 0..MaxBytes
          BY LedgerAssumption
        <4>3. PICK new : new = [signing[c] EXCEPT !.pc = "next", !.length = n]
          OBVIOUS
        <4>4. /\ new \in Signing /\ new.pc = "next" /\ new.length = n
              /\ new.sent = signing[c].sent
          BY <1>0, <4>2, <4>3 DEF Signing
        <4>5. signing' = [signing EXCEPT ![c] = new]
          BY <1>0, <4>1, <4>3
        <4> QED
          BY <3>1, <4>4, <4>5 DEF BeginSigning
      <3>2. CASE SendChunk(c)
        <4>1. \A pc \in {"sent", "failed"} :
                 [signing[c] EXCEPT !.pc = pc] \in Signing
                 /\ [signing[c] EXCEPT !.pc = pc].pc = pc
          BY <1>0 DEF Signing
        <4>2. \A pc : [signing EXCEPT ![c].pc = pc]
                         = [signing EXCEPT ![c] = [signing[c] EXCEPT !.pc = pc]]
          BY <1>0
        <4> QED
          BY <3>2, <4>1, <4>2 DEF SendChunk
      <3> QED
        BY <1>1, <3>1, <3>2
    <2>2. /\ signing' \in [Signings -> Signing] /\ signing'[c] = new
          /\ \A d \in Signings \ {c} : signing'[d] = signing[d]
          /\ transport' \in Signings \cup KeyCalls \cup {NoCall}
      BY <1>0, <2>1
    <2>3. \A d \in Signings \ {c} : transport' = transport \/ (transport # d /\ transport' # d)
      BY <2>1, NoCallAssumption DEF NoCall
    <2>4. \A d \in Signings \ {c} : Signs(d)'
      BY <2>1, <2>2, <2>3, SignsStays
    <2>5. Signs(c)'
      <3>1. CASE signing[c].pc = "idle"
        <4>1. /\ new.pc = "next" /\ new.length \in 1..MaxBytes /\ new.sent = 0
              /\ transport' = transport /\ transport # c
          BY <1>0, <2>1, <3>1 DEF Signs
        <4>2. new.length \in Nat \ {0} /\ ChunkCount(new.length) \in Nat \ {0}
          BY <4>1, LedgerAssumption, ChunkCountCovers
        <4>3. 0 <= ChunkCount(new.length)
          BY <4>2
        <4> QED
          BY <2>2, <4>1, <4>2, <4>3 DEF Signs, Going
      <3>2. CASE signing[c].pc = "next" /\ new = [signing[c] EXCEPT !.pc = "sent"]
        <4>1. /\ new.pc = "sent" /\ new.length = signing[c].length /\ new.sent = signing[c].sent
              /\ new.alone = signing[c].alone /\ transport' = c
          BY <1>0, <2>1, <3>2 DEF Signing
        <4>2. Message(c)' = Message(c)
          BY <2>2, <4>1 DEF Message
        <4> QED
          BY <1>0, <2>1, <2>2, <3>2, <4>1, <4>2 DEF Signs, Going
      <3>3. CASE signing[c].pc = "next" /\ new.pc = "failed" /\ transport' = transport
        <4>1. transport' # c
          BY <1>0, <3>3 DEF Signs
        <4> QED
          BY <2>2, <3>3, <4>1 DEF Signs, Going
      <3> QED
        BY <2>1, <3>1, <3>2, <3>3
    <2>6. LedgerTypeOK'
      BY <1>0, <2>1, <2>2 DEF LedgerTypeOK
    <2> QED
      BY <2>4, <2>5, <2>6 DEF LedgerInv
  <1>2. ASSUME NEW c \in Signings, DeviceAnswers(c)
        PROVE  LedgerInv'
    <2> DEFINE chunk == Chunk(Message(c), signing[c].sent)
               next == [signing[c] EXCEPT !.pc = "next", !.sent = @ + 1]
               m == Message(c)
               n == signing[c].length
    <2>0. /\ transport = c /\ transport' = NoCall /\ signing[c].pc = "sent"
          /\ UNCHANGED <<keyCall, publicKey>>
          /\ n \in 1..MaxBytes /\ n \in Nat \ {0} /\ signing[c].sent \in Nat
          /\ signing[c].sent <= ChunkCount(n)
      <3>1. n \in 0..MaxBytes /\ signing[c].sent \in Nat
        BY <1>0 DEF Signing
      <3>2. /\ transport = c /\ transport' = NoCall /\ signing[c].pc = "sent"
            /\ UNCHANGED <<keyCall, publicKey>>
        BY <1>0, <1>2 DEF DeviceAnswers, Signs
      <3>3. n # 0 /\ signing[c].sent <= ChunkCount(n)
        BY <1>0, <3>2 DEF Signs, Going
      <3> QED
        BY <3>1, <3>2, <3>3, LedgerAssumption
    <2>1. m \in Seq(Byte) /\ Len(m) = n /\ m # <<>>
      BY <2>0, MessageType
    <2>2. ASSUME signing[c].sent # 0
          PROVE  /\ chunk \in Seq(Byte)
                 /\ Chunked(m, signing[c].sent - 1) \o chunk = Chunked(m, signing[c].sent)
      <3>1. (signing[c].sent - 1) * MAX_CHUNK_SIZE <= Len(m)
        BY <2>0, <2>1, <2>2, AllChunks
      <3> QED
        BY <2>0, <2>1, <2>2, <3>1, NextChunk
    <2>3. /\ next \in Signing /\ next.pc = "next" /\ next.sent = signing[c].sent + 1
          /\ next.length = n /\ next.alone = signing[c].alone
      <3>1. PICK k \in Nat : k = signing[c].sent + 1
        BY <2>0
      <3>2. next = [signing[c] EXCEPT !.pc = "next", !.sent = k]
        BY <1>0, <3>1 DEF Signing
      <3> HIDE DEF next
      <3> QED
        BY <1>0, <3>1, <3>2 DEF Signing
    <2>4. PICK new \in Signing :
             /\ signing' = [Interrupted(c) EXCEPT ![c] = new]
             /\ new.length = n /\ new.alone = signing[c].alone /\ new.sent \in Nat
             /\ \/ /\ signing[c].sent = 0 /\ device' = <<>> /\ new.pc = "next" /\ new.sent = 1
                \/ /\ signing[c].sent # 0 /\ device \in Seq(Byte) /\ new.pc = "next"
                   /\ device' = device \o chunk /\ new.sent = signing[c].sent + 1
                   /\ signing[c].sent # ChunkCount(n)
                \/ /\ signing[c].sent # 0 /\ device \in Seq(Byte) /\ new.pc = "done"
                   /\ new.signature = device \o chunk /\ signing[c].sent = ChunkCount(n)
                   /\ device' = NoSession
                \/ new.pc = "failed" /\ device' \in {device, NoSession}
      <3>0. device \in Seq(Byte) \cup {NoSession}
        BY <1>0 DEF LedgerTypeOK
      <3>1. CASE signing[c].sent = 0
        <4>1. device' = <<>> /\ signing' = [Interrupted(c) EXCEPT ![c] = next]
          BY <1>2, <3>1 DEF DeviceAnswers
        <4>2. next.sent = 1 /\ 1 \in Nat
          BY <2>3, <3>1
        <4> HIDE DEF next
        <4> QED
          BY <2>3, <3>1, <4>1, <4>2
      <3>2. CASE signing[c].sent # 0 /\ device = NoSession
        <4>1. device' = device /\ signing' = [Interrupted(c) EXCEPT ![c].pc = "failed"]
          BY <1>2, <3>2 DEF DeviceAnswers
        <4>2. signing' = [Interrupted(c) EXCEPT ![c] = [signing[c] EXCEPT !.pc = "failed"]]
          BY <4>1 DEF Interrupted
        <4>3. PICK new : new = [signing[c] EXCEPT !.pc = "failed"]
          OBVIOUS
        <4>4. /\ new \in Signing /\ new.pc = "failed" /\ new.length = n
              /\ new.alone = signing[c].alone /\ new.sent \in Nat
          BY <1>0, <4>3 DEF Signing
        <4> QED
          BY <4>1, <4>2, <4>3, <4>4
      <3>3. CASE signing[c].sent # 0 /\ device # NoSession /\ IsLast(c)
        <4>1. PICK answer \in {[next EXCEPT !.pc = "done", !.signature = device \o chunk],
                               [next EXCEPT !.pc = "failed"]} :
                 signing' = [Interrupted(c) EXCEPT ![c] = answer]
          BY <1>2, <3>3 DEF DeviceAnswers
        <4>2. device' = NoSession /\ device \in Seq(Byte) /\ device \o chunk \in Seq(Byte)
          BY <1>2, <2>2, <3>0, <3>3 DEF DeviceAnswers
        <4>3. signing[c].sent = ChunkCount(n)
          BY <3>3 DEF IsLast
        <4>4. /\ answer \in Signing /\ answer.length = n /\ answer.alone = signing[c].alone
              /\ answer.sent \in Nat
              /\ \/ answer.pc = "done" /\ answer.signature = device \o chunk
                 \/ answer.pc = "failed"
          <5> HIDE DEF next
          <5> QED
            BY <2>0, <2>3, <4>1, <4>2 DEF Signing
        <4> QED
          BY <3>3, <4>1, <4>2, <4>3, <4>4
      <3>4. CASE signing[c].sent # 0 /\ device # NoSession /\ ~IsLast(c)
        <4>1. device' = device \o chunk /\ signing' = [Interrupted(c) EXCEPT ![c] = next]
          BY <1>2, <3>4 DEF DeviceAnswers
        <4>2. signing[c].sent # ChunkCount(n) /\ device \in Seq(Byte)
          BY <3>0, <3>4 DEF IsLast
        <4>3. next.sent \in Nat
          BY <2>0, <2>3
        <4> HIDE DEF next
        <4> QED
          BY <2>3, <3>4, <4>1, <4>2, <4>3
      <3> QED
        BY <3>1, <3>2, <3>3, <3>4
    <2>5. /\ signing'[c] = new
          /\ \A d \in Signings \ {c} : signing'[d] =
                IF signing[d].sent > 0 /\ signing[d].pc \in {"next", "sent"}
                THEN [signing[d] EXCEPT !.alone = FALSE] ELSE signing[d]
          /\ signing' = [d \in Signings |-> signing'[d]]
      BY <2>4 DEF Interrupted
    <2>6. \A d \in Signings \ {c} : Signs(d)' /\ signing'[d] \in Signing
      <3> SUFFICES ASSUME NEW d \in Signings \ {c}
                   PROVE  Signs(d)' /\ signing'[d] \in Signing
        OBVIOUS
      <3>1. transport # d /\ transport' # d
        BY <2>0, NoCallAssumption DEF NoCall
      <3> QED
        BY <2>5, <3>1, SignsInterrupted
    <2>7. device' \in Seq(Byte) \cup {NoSession}
      <3>1. device \in Seq(Byte) \cup {NoSession} /\ <<>> \in Seq(Byte)
        BY <1>0 DEF LedgerTypeOK
      <3>2. signing[c].sent # 0 /\ device \in Seq(Byte) => device \o chunk \in Seq(Byte)
        <4> HIDE DEF chunk
        <4> QED
          BY <2>2
      <3> HIDE DEF chunk
      <3> QED
        BY <2>4, <3>1, <3>2
    <2>8. Message(c)' = m
      BY <2>4, <2>5 DEF Message
    <2> HIDE DEF chunk, next, m, n
    <2>9. transport' # c /\ new.pc \in {"next", "done", "failed"}
      BY <2>0, <2>4, NoCallAssumption DEF NoCall
    <2>10. new.alone /\ signing[c].sent # 0 =>
              /\ device = Chunked(m, signing[c].sent - 1)
              /\ device \o chunk = Chunked(m, signing[c].sent)
      BY <1>0, <2>0, <2>2, <2>4 DEF Signs, Going, m
    <2>11. new.pc = "next" =>
              /\ new.length # 0 /\ new.sent <= ChunkCount(new.length)
              /\ new.alone => device' = Chunked(m, new.sent - 1)
      <3>1. ChunkCount(n) \in Nat \ {0}
        BY <2>0, ChunkCountCovers DEF n
      <3>2. CASE signing[c].sent = 0 /\ device' = <<>> /\ new.sent = 1
        <4>1. new.sent - 1 = 0
          BY <3>2
        <4> QED
          BY <2>0, <2>1, <2>4, <3>1, <3>2, <4>1, AllChunks
      <3>3. CASE /\ signing[c].sent # 0 /\ device' = device \o chunk
                 /\ new.sent = signing[c].sent + 1 /\ signing[c].sent # ChunkCount(n)
        <4>1. new.sent - 1 = signing[c].sent /\ new.sent <= ChunkCount(n)
          BY <2>0, <3>1, <3>3 DEF n
        <4> QED
          BY <2>0, <2>4, <2>10, <3>3, <4>1
      <3> QED
        BY <2>4, <3>2, <3>3
    <2>12. new.pc = "done" /\ new.alone => new.signature = m
      <3>1. Chunked(m, ChunkCount(n)) = m
        BY <2>1, AllChunks
      <3> QED
        BY <2>4, <2>10, <3>1
    <2>13. Signs(c)'
      BY <2>5, <2>8, <2>9, <2>11, <2>12 DEF Signs, Going
    <2>14. LedgerTypeOK'
      <3>1. signing' \in [Signings -> Signing]
        BY <2>4, <2>5, <2>6
      <3> QED
        BY <1>0, <2>0, <2>7, <3>1 DEF LedgerTypeOK
    <2> QED
      BY <2>6, <2>13, <2>14 DEF LedgerInv
  <1>3. ASSUME NEW k \in KeyCalls, AskKey(k)
        PROVE  LedgerInv'
    <2>1. /\ UNCHANGED <<device, signing, publicKey>>
          /\ keyCall' \in [KeyCalls -> {"idle", "sent", "done", "failed"}]
          /\ transport' = transport \/ (transport = NoCall /\ transport' = k)
      <3>1. UNCHANGED <<device, signing, publicKey>>
        BY <1>3 DEF AskKey
      <3>2. \E pc \in {"done", "sent", "failed"} : keyCall' = [keyCall EXCEPT ![k] = pc]
        BY <1>3 DEF AskKey
      <3>3. keyCall' \in [KeyCalls -> {"idle", "sent", "done", "failed"}]
        BY <1>0, <3>2 DEF LedgerTypeOK
      <3>4. transport' = transport \/ (transport = NoCall /\ transport' = k)
        BY <1>3, Zenon DEF AskKey
      <3> QED
        BY <3>1, <3>3, <3>4
    <2>2. \A d \in Signings : transport' = transport \/ (transport # d /\ transport' # d)
      BY <1>0, <2>1, NoCallAssumption DEF NoCall
    <2>3. \A d \in Signings : Signs(d)'
      BY <2>1, <2>2, SignsStays
    <2> QED
      BY <1>0, <2>1, <2>3 DEF LedgerInv, LedgerTypeOK
  <1>4. ASSUME NEW k \in KeyCalls, KeyAnswered(k)
        PROVE  LedgerInv'
    <2>1. /\ transport = k /\ transport' = NoCall /\ device' \in {device, NoSession}
          /\ signing' = Interrupted(k) /\ publicKey' \in BOOLEAN
          /\ keyCall' \in [KeyCalls -> {"idle", "sent", "done", "failed"}]
      BY <1>0, <1>4 DEF KeyAnswered, LedgerTypeOK
    <2>2. \A d \in Signings : d # k /\ transport # d /\ transport' # d
      BY <1>0, <2>1, NoCallAssumption DEF NoCall
    <2>3. \A d \in Signings : signing'[d] =
              IF signing[d].sent > 0 /\ signing[d].pc \in {"next", "sent"}
              THEN [signing[d] EXCEPT !.alone = FALSE] ELSE signing[d]
      BY <2>1, <2>2 DEF Interrupted
    <2>4. \A d \in Signings : Signs(d)' /\ signing'[d] \in Signing
      BY <2>2, <2>3, SignsInterrupted
    <2>5. signing' \in [Signings -> Signing]
      BY <2>1, <2>4 DEF Interrupted
    <2> QED
      BY <1>0, <2>1, <2>4, <2>5 DEF LedgerInv, LedgerTypeOK
  <1>5. CASE UNCHANGED ledgerVars
    BY <1>5 DEF ledgerVars, LedgerInv, LedgerTypeOK, Signs, Going, Message
  <1> QED
    BY <1>1, <1>2, <1>3, <1>4, <1>5 DEF LedgerNext

\* The invariant holds in every state.
LEMMA LedgerInvariant == LedgerSpec => []LedgerInv
  <1>1. LedgerInit => LedgerInv
    <2> SUFFICES ASSUME LedgerInit
                 PROVE  LedgerInv
      OBVIOUS
    <2>1. \A c \in Signings : /\ signing[c] \in Signing /\ signing[c].pc = "idle"
                               /\ signing[c].sent = 0
      <3>1. 0 \in 0..MaxBytes /\ <<>> \in Seq(Byte)
        BY LedgerAssumption
      <3> QED
        BY <3>1 DEF LedgerInit, Signing
    <2>2. signing \in [Signings -> Signing] /\ transport = NoCall
      BY <2>1 DEF LedgerInit
    <2>3. \A c \in Signings : transport # c
      BY <2>2, NoCallAssumption DEF NoCall
    <2>4. LedgerTypeOK
      BY <2>2 DEF LedgerInit, LedgerTypeOK
    <2> QED
      BY <2>1, <2>3, <2>4 DEF LedgerInv, Signs, Going
  <1> QED
    BY <1>1, LedgerStep, PTL DEF LedgerSpec

\* What the device holds are bytes or no session, and the transport, the signings and the
\* reads of the public key have their types.
THEOREM LedgerTypeCorrect == LedgerSpec => []LedgerTypeOK
  <1>1. LedgerInv => LedgerTypeOK
    BY DEF LedgerInv
  <1> QED
    BY <1>1, LedgerInvariant, PTL

\* For every length of a message, every size of a chunk and any number of calls: what the
\* device signs is the message, if no request of another call got in between.
THEOREM AloneSignsMessage == LedgerSpec => []SignatureIsOfMessage
  <1>1. LedgerInv => SignatureIsOfMessage
    BY DEF LedgerInv, Signs, SignatureIsOfMessage
  <1> QED
    BY <1>1, LedgerInvariant, PTL

-----------------------------------------------------------------------------
(* ObservableSubscription *)

\* The fields of a dispatch: the values in it are not needed.
DispatchFields == {"event", "pos", "start", "heard", "added", "removed"}

\* The dispatches under way are a sequence of records, and after an error of the stream
\* the only ones left are of it.
SubscriptionInv ==
    /\ \E S : dispatches \in Seq(S)
    /\ \A i \in DOMAIN dispatches : DOMAIN dispatches[i] = DispatchFields
    /\ subscription = "failed" =>
           \A i \in DOMAIN dispatches : dispatches[i].event = "error"

\* A dispatch that begins is a record of its event.
LEMMA BegunEffect ==
    ASSUME NEW event
    PROVE  DOMAIN Begun(event) = DispatchFields /\ Begun(event).event = event
  BY DEF Begun, DispatchFields

\* A change of the listeners is noted in the dispatches: they stay what they are.
LEMMA NotedEffect ==
    ASSUME SubscriptionInv, NEW event, NEW l, NEW wasRemoved,
           dispatches' = Noted(event, l, wasRemoved)
    PROVE  /\ \E S : dispatches' \in Seq(S)
           /\ DOMAIN dispatches' = DOMAIN dispatches
           /\ Len(dispatches') = Len(dispatches)
           /\ \A i \in DOMAIN dispatches :
                  DOMAIN dispatches'[i] = DispatchFields
                  /\ dispatches'[i].event = dispatches[i].event
  <1>1. PICK S : dispatches \in Seq(S)
    BY DEF SubscriptionInv
  <1>2. DOMAIN dispatches = 1..Len(dispatches) /\ Len(dispatches) \in Nat
    BY <1>1
  <1>3. DOMAIN dispatches' = DOMAIN dispatches
    BY DEF Noted
  <1>4. ASSUME NEW i \in DOMAIN dispatches
        PROVE  /\ DOMAIN dispatches'[i] = DispatchFields
               /\ dispatches'[i].event = dispatches[i].event
    <2>1. DOMAIN dispatches[i] = DispatchFields
      BY DEF SubscriptionInv
    <2> DEFINE d == dispatches[i]
               removed == d.removed \/ wasRemoved
               added == IF wasRemoved THEN d.added ELSE d.added \cup {l}
               start == IF wasRemoved THEN d.start \ {l} ELSE d.start
    <2>2. dispatches'[i] = IF d.event # event THEN d
                           ELSE [d EXCEPT !.removed = removed,
                                          !.added = added, !.start = start]
      BY DEF Noted
    <2> HIDE DEF removed, added, start
    <2> QED
      BY <2>1, <2>2 DEF DispatchFields
  <1>5. dispatches' \in Seq({dispatches'[i] : i \in 1..Len(dispatches)})
    <2>1. dispatches' = [i \in 1..Len(dispatches) |-> dispatches'[i]]
      BY <1>2 DEF Noted
    <2> DEFINE D == dispatches'
               T == {D[i] : i \in 1..Len(dispatches)}
    <2>2. \A i \in 1..Len(dispatches) : D[i] \in T
      OBVIOUS
    <2>3. D \in [1..Len(dispatches) -> T]
      BY <2>1, <2>2
    <2> HIDE DEF T
    <2>4. D \in Seq(T)
      BY <1>2, <2>3
    <2> QED
      BY <2>4 DEF T
  <1>6. Len(dispatches') = Len(dispatches)
    BY <1>2, <1>3, <1>5
  <1> QED
    BY <1>3, <1>4, <1>5, <1>6

\* A step keeps the invariant, and once the stream or the subscription has ended no
\* dispatch begins but that of the error.
LEMMA SubscriptionStep ==
    ASSUME SubscriptionInv, [SubscriptionNext]_subscriptionVars
    PROVE  /\ SubscriptionInv'
           /\ subscription # "live" =>
                \A i \in DOMAIN dispatches' :
                    /\ i > Len(dispatches) => dispatches'[i].event = "error"
                    /\ subscription = "failed" => dispatches'[i].event = "error"
  <1> DEFINE Final == subscription # "live" =>
                \A i \in DOMAIN dispatches' :
                    /\ i > Len(dispatches) => dispatches'[i].event = "error"
                    /\ subscription = "failed" => dispatches'[i].event = "error"
  <1>0. PICK S : dispatches \in Seq(S)
    BY DEF SubscriptionInv
  <1>1. ASSUME NEW event \in Events, NEW l \in Listeners, On(event, l) \/ Off(event, l)
        PROVE  SubscriptionInv' /\ Final
    <2>1. /\ subscription' = subscription
          /\ dispatches' = Noted(event, l, FALSE) \/ dispatches' = Noted(event, l, TRUE)
      BY <1>1 DEF On, Off
    <2>2. /\ \E T : dispatches' \in Seq(T)
          /\ DOMAIN dispatches' = DOMAIN dispatches
          /\ \A i \in DOMAIN dispatches :
                  DOMAIN dispatches'[i] = DispatchFields
                  /\ dispatches'[i].event = dispatches[i].event
      <3>1. CASE dispatches' = Noted(event, l, FALSE)
        BY <3>1, NotedEffect
      <3>2. CASE dispatches' = Noted(event, l, TRUE)
        BY <3>2, NotedEffect
      <3> QED
        BY <2>1, <3>1, <3>2
    <2> QED
      BY <1>0, <2>1, <2>2 DEF SubscriptionInv
  <1>2. ASSUME CallListener PROVE SubscriptionInv' /\ Final
    <2> DEFINE n == Len(dispatches)
               d == dispatches[n]
    <2>1. /\ dispatches # <<>> /\ subscription' = subscription
          /\ dispatches' = [dispatches EXCEPT ![n] = [d EXCEPT !.pos = d.pos + 1,
                                !.heard = Append(d.heard, listening[d.event][d.pos + 1])]]
      BY <1>2 DEF CallListener, Innermost
    <2>2. n \in DOMAIN dispatches
      BY <1>0, <2>1
    <2>3. DOMAIN dispatches'[n] = DispatchFields /\ dispatches'[n].event = d.event
      BY <2>1, <2>2 DEF SubscriptionInv, DispatchFields
    <2>4. dispatches' \in Seq(S \cup {dispatches'[n]})
      <3> DEFINE x == dispatches'[n]
      <3>1. dispatches' = [dispatches EXCEPT ![n] = x]
        BY <2>1, <2>2
      <3> HIDE DEF x
      <3>2. [dispatches EXCEPT ![n] = x] \in Seq(S \cup {x})
        BY <1>0, <2>2
      <3> QED
        BY <3>1, <3>2 DEF x
    <2>5. /\ DOMAIN dispatches' = DOMAIN dispatches
          /\ \A i \in DOMAIN dispatches \ {n} : dispatches'[i] = dispatches[i]
      BY <2>1
    <2> HIDE DEF n, d
    <2>6. \A i \in DOMAIN dispatches :
              DOMAIN dispatches'[i] = DispatchFields
              /\ dispatches'[i].event = dispatches[i].event
      BY <2>3, <2>5 DEF SubscriptionInv, d
    <2> QED
      BY <1>0, <2>1, <2>4, <2>5, <2>6 DEF SubscriptionInv
  <1>3. ASSUME DispatchEnds PROVE SubscriptionInv' /\ Final
    <2>1. dispatches # <<>> /\ subscription' = subscription
      BY <1>3 DEF DispatchEnds
    <2>2. CASE dispatches' = <<Begun("error")>>
      <3>1. /\ DOMAIN dispatches' = {1} /\ dispatches'[1] = Begun("error")
            /\ dispatches' \in Seq({Begun("error")})
        BY <2>2
      <3> QED
        BY <2>1, <3>1, BegunEffect DEF SubscriptionInv
    <2>3. CASE dispatches' = SubSeq(dispatches, 1, Len(dispatches) - 1)
      <3>1. /\ dispatches' \in Seq(S)
            /\ \A i \in DOMAIN dispatches' : /\ i \in DOMAIN dispatches
                                             /\ i <= Len(dispatches)
                                             /\ dispatches'[i] = dispatches[i]
        BY <1>0, <2>1, <2>3
      <3> QED
        BY <1>0, <2>1, <3>1 DEF SubscriptionInv
    <2> QED
      BY <1>3, <2>2, <2>3 DEF DispatchEnds
  <1>4. ASSUME HeadArrives PROVE SubscriptionInv' /\ Final
    <2>1. /\ subscription = "live" /\ subscription' = "live"
          /\ dispatches' = <<Begun("data")>>
      BY <1>4 DEF HeadArrives
    <2>2. /\ DOMAIN dispatches' = {1} /\ dispatches'[1] = Begun("data")
          /\ dispatches' \in Seq({Begun("data")})
      BY <2>1
    <2> QED
      BY <2>1, <2>2, BegunEffect, ZenonT(60) DEF SubscriptionInv
  <1>5. ASSUME StreamFails PROVE SubscriptionInv' /\ Final
    <2>1. subscription = "live" /\ dispatches' = <<Begun("error")>>
      BY <1>5 DEF StreamFails
    <2>2. /\ DOMAIN dispatches' = {1} /\ dispatches'[1] = Begun("error")
          /\ dispatches' \in Seq({Begun("error")})
      BY <2>1
    <2>3. \A i \in DOMAIN dispatches' : /\ DOMAIN dispatches'[i] = DispatchFields
                                        /\ dispatches'[i].event = "error"
      BY <2>2, BegunEffect
    <2>4. SubscriptionInv'
      BY <2>2, <2>3 DEF SubscriptionInv
    <2> QED
      BY <2>1, <2>4
  <1>6. ASSUME Close PROVE SubscriptionInv' /\ Final
    <2>1. /\ subscription = "live" /\ subscription' = "closed"
          /\ dispatches' = Append(dispatches, Begun("close"))
      BY <1>6 DEF Close
    <2> DEFINE b == Begun("close")
    <2>2. DOMAIN b = DispatchFields
      BY BegunEffect
    <2> HIDE DEF b
    <2>3. /\ dispatches' \in Seq(S \cup {b})
          /\ \A i \in DOMAIN dispatches' :
                 \/ dispatches'[i] = b
                 \/ i \in DOMAIN dispatches /\ dispatches'[i] = dispatches[i]
      <3>1. dispatches' = Append(dispatches, b)
        BY <2>1 DEF b
      <3> QED
        BY <1>0, <3>1
    <2> QED
      BY <2>1, <2>2, <2>3 DEF SubscriptionInv
  <1>7. CASE UNCHANGED subscriptionVars
    BY <1>0, <1>7 DEF subscriptionVars, SubscriptionInv
  <1> QED
    BY <1>1, <1>2, <1>3, <1>4, <1>5, <1>6, <1>7 DEF SubscriptionNext

\* The end of a subscription is final: after an error or a close of the user no block and
\* no further close is dispatched to the listeners.
THEOREM SubscriptionEnds == SubscriptionSpec => EndIsFinal
<1>1. SubscriptionInit => SubscriptionInv
  <2>1. SUFFICES ASSUME SubscriptionInit PROVE SubscriptionInv
    OBVIOUS
  <2>2. dispatches = <<>> /\ dispatches \in Seq({})
    BY <2>1 DEF SubscriptionInit
  <2> QED
    BY <2>1, <2>2 DEF SubscriptionInit, SubscriptionInv
<1>2. SubscriptionInv /\ [SubscriptionNext]_subscriptionVars => SubscriptionInv'
  BY SubscriptionStep
<1>3. SubscriptionInv /\ [SubscriptionNext]_subscriptionVars =>
          [subscription # "live" =>
              \A i \in DOMAIN dispatches' :
                  /\ i > Len(dispatches) => dispatches'[i].event = "error"
                  /\ subscription = "failed" => dispatches'[i].event = "error"
          ]_subscriptionVars
  BY SubscriptionStep
<1> QED
  BY <1>1, <1>2, <1>3, PTL DEF SubscriptionSpec, EndIsFinal

\* The iterator of d has called the listeners of its event one after the other, as long as
\* none was removed.
InStep(d) ==
    /\ Len(d.heard) = d.pos
    /\ ~d.removed =>
          /\ d.pos <= Len(listening[d.event])
          /\ \A j \in 1..d.pos : d.heard[j] = listening[d.event][j]
          /\ d.start \subseteq Arrays!Range(listening[d.event])

\* The inductive invariant for what is called.
ListenersInv == SubscriptionTypeOK /\ \A i \in DOMAIN dispatches : InStep(dispatches[i])

\* The array without its first l.
LEMMA SplicedType ==
    ASSUME NEW s \in Seq(Listeners), NEW l
    PROVE  Arrays!RemoveFirst(s, l) \in Seq(Listeners)
<1>1. CASE ~\E i \in 1..Len(s) : s[i] = l
  BY <1>1 DEF Arrays!RemoveFirst
<1>2. CASE \E i \in 1..Len(s) : s[i] = l
  <2> DEFINE I == {i \in 1..Len(s) : s[i] = l}
             k == Arrays!Min(I)
  <2>1. Arrays!RemoveFirst(s, l) = Arrays!RemoveAt(s, k)
    BY <1>2 DEF Arrays!RemoveFirst, Arrays!SelectInSeq
  <2>2. k \in 1..Len(s)
    <3>1. \E i \in I : \A j \in I : i <= j
      <4>1. I \subseteq Nat /\ I # {}
        BY <1>2
      <4> HIDE DEF I
      <4> QED
        BY <4>1, LeastNatural
    <3> QED
      BY <3>1 DEF Arrays!Min
  <2> HIDE DEF k
  <2>3. /\ SubSeq(s, 1, k - 1) \in Seq(Listeners)
        /\ SubSeq(s, k + 1, Len(s)) \in Seq(Listeners)
    BY <2>2
  <2>4. Arrays!RemoveAt(s, k) \in Seq(Listeners)
    BY <2>3 DEF Arrays!RemoveAt
  <2> QED
    BY <2>1, <2>4
<1> QED
  BY <1>1, <1>2

\* A dispatch that begins has called nobody yet.
LEMMA BegunInStep ==
    ASSUME SubscriptionTypeOK, NEW event \in Events
    PROVE  Begun(event) \in Dispatch /\ InStep(Begun(event))
<1> DEFINE b == Begun(event)
<1>1. listening[event] \in Seq(Listeners)
  BY DEF SubscriptionTypeOK
<1>2. Arrays!Range(listening[event]) \subseteq Listeners
  BY <1>1 DEF Arrays!Range
<1>3. b \in Dispatch
  BY <1>2 DEF Begun, Dispatch
<1>4. /\ b.event = event /\ b.pos = 0 /\ b.heard = <<>>
      /\ b.start = Arrays!Range(listening[event])
  BY DEF Begun
<1>5. Len(b.heard) = 0 /\ Len(listening[event]) \in Nat
  BY <1>1, <1>4
<1> HIDE DEF b
<1>6. InStep(b)
  BY <1>4, <1>5 DEF InStep
<1> QED
  BY <1>3, <1>6 DEF b

\* The only dispatch under way is one that begins.
LEMMA OneBegun ==
    ASSUME ListenersInv, NEW event \in Events, dispatches' = <<Begun(event)>>,
           listening' = listening, source' \in {"live", "dead"},
           subscription' \in {"live", "closed", "failed"}, retries' \in BOOLEAN,
           changes' \in 0..MaxChanges, heads' \in 0..MaxHeads
    PROVE  ListenersInv'
<1> DEFINE b == Begun(event)
<1>1. b \in Dispatch /\ InStep(b)
  BY BegunInStep DEF ListenersInv
<1>2. InStep(b)'
  <2>1. b' = b
    BY DEF Begun
  <2> QED
    BY <1>1, <2>1 DEF InStep
<1> HIDE DEF b
<1>3. /\ dispatches' \in Seq(Dispatch)
      /\ \A i \in DOMAIN dispatches' : dispatches'[i] = b
  BY <1>1 DEF b
<1>4. \A i \in DOMAIN dispatches' : InStep(dispatches[i])'
  BY <1>1, <1>3 DEF InStep
<1> QED
  BY <1>3, <1>4 DEF ListenersInv, SubscriptionTypeOK

\* A dispatch stays in step while the arrays stay as they are.
LEMMA InStepStays ==
    ASSUME listening' = listening, NEW i, NEW d, dispatches'[i] = d, InStep(d)
    PROVE  InStep(dispatches[i])'
  BY DEF InStep

\* A step keeps the invariant.
LEMMA ListenersStep == ListenersInv /\ [SubscriptionNext]_subscriptionVars => ListenersInv'
<1> SUFFICES ASSUME ListenersInv, [SubscriptionNext]_subscriptionVars
             PROVE  ListenersInv'
  OBVIOUS
<1>8. /\ dispatches \in Seq(Dispatch) /\ listening \in [Events -> Seq(Listeners)]
      /\ DOMAIN dispatches = 1..Len(dispatches) /\ Len(dispatches) \in Nat
      /\ \A i \in DOMAIN dispatches : dispatches[i] \in Dispatch /\ InStep(dispatches[i])
  BY DEF ListenersInv, SubscriptionTypeOK
<1>9. /\ source \in {"live", "dead"} /\ subscription \in {"live", "closed", "failed"}
       /\ retries \in BOOLEAN /\ changes \in 0..MaxChanges /\ heads \in 0..MaxHeads
       /\ MaxChanges \in Nat /\ MaxHeads \in Nat
  BY SubscriptionAssumption DEF ListenersInv, SubscriptionTypeOK
<1>1. ASSUME NEW event \in Events, NEW l \in Listeners, On(event, l) \/ Off(event, l)
      PROVE  ListenersInv'
  <2> DEFINE array == listening[event]
  <2>1. \/ /\ dispatches' = Noted(event, l, FALSE)
           /\ listening' = [listening EXCEPT ![event] = Append(array, l)]
        \/ /\ dispatches' = Noted(event, l, TRUE)
           /\ listening' = [listening EXCEPT ![event] = Arrays!RemoveFirst(array, l)]
    BY <1>1 DEF On, Off
  <2>2. /\ source' = source /\ subscription' = subscription /\ retries' = retries
        /\ heads' = heads /\ changes' \in 0..MaxChanges
    <3>1. changes < MaxChanges /\ changes' = changes + 1
      BY <1>1 DEF On, Off
    <3>2. changes' \in 0..MaxChanges
      BY <1>9, <3>1
    <3> QED
      BY <1>1, <3>2 DEF On, Off
  <2>3. array \in Seq(Listeners)
    BY <1>8
  <2>4. listening' \in [Events -> Seq(Listeners)]
    <3>1. Append(array, l) \in Seq(Listeners) /\ Arrays!RemoveFirst(array, l) \in Seq(Listeners)
      BY <2>3, SplicedType
    <3> QED
      BY <1>8, <2>1, <3>1
  <2>5. ASSUME NEW i \in DOMAIN dispatches, NEW removed \in BOOLEAN,
               dispatches' = Noted(event, l, removed),
               ~removed => listening' = [listening EXCEPT ![event] = Append(array, l)],
               removed => listening' = [listening EXCEPT ![event] = Arrays!RemoveFirst(array, l)]
        PROVE  dispatches'[i] \in Dispatch /\ InStep(dispatches[i])'
    <3> DEFINE d == dispatches[i]
               e == dispatches'[i]
    <3>1. d \in Dispatch /\ InStep(d)
      BY <1>8
    <3>2. CASE d.event # event
      <4>1. e = d
        BY <2>5, <3>2 DEF Noted
      <4>2. listening'[d.event] = listening[d.event]
        BY <1>8, <2>5, <3>1, <3>2 DEF Dispatch
      <4> QED
        BY <3>1, <4>1, <4>2 DEF InStep
    <3>3. CASE d.event = event
      <4> DEFINE isRemoved == d.removed \/ removed
                 added == IF removed THEN d.added ELSE d.added \cup {l}
                 start == IF removed THEN d.start \ {l} ELSE d.start
      <4>1. e = [d EXCEPT !.removed = isRemoved, !.added = added, !.start = start]
        BY <2>5, <3>3 DEF Noted
      <4>2. /\ isRemoved \in BOOLEAN /\ added \subseteq Listeners /\ start \subseteq Listeners
            /\ ~removed => isRemoved = d.removed /\ start = d.start
            /\ removed => isRemoved
        BY <3>1 DEF Dispatch
      <4> HIDE DEF d, isRemoved, added, start
      <4>3. /\ e \in Dispatch
            /\ e.event = d.event /\ e.pos = d.pos /\ e.heard = d.heard
            /\ e.removed = isRemoved /\ e.start = start
        BY <3>1, <4>1, <4>2 DEF Dispatch
      <4>4. CASE removed
        BY <3>1, <4>2, <4>3, <4>4 DEF InStep
      <4>5. CASE ~removed
        <5>1. listening'[event] = Append(array, l)
          BY <1>8, <2>5, <4>5
        <5>2. /\ Len(Append(array, l)) = Len(array) + 1 /\ Len(array) \in Nat
              /\ \A j \in 1..Len(array) : Append(array, l)[j] = array[j]
              /\ Arrays!Range(array) \subseteq Arrays!Range(Append(array, l))
          BY <2>3 DEF Arrays!Range
        <5>3. d.pos \in Nat
          BY <3>1 DEF Dispatch
        <5> QED
          BY <3>1, <3>3, <4>2, <4>3, <4>5, <5>1, <5>2, <5>3 DEF InStep
      <4> QED
        BY <4>3, <4>4, <4>5
    <3> QED
      BY <3>2, <3>3
  <2>6. \A i \in DOMAIN dispatches : dispatches'[i] \in Dispatch /\ InStep(dispatches[i])'
    BY <2>1, <2>5
  <2>7. DOMAIN dispatches' = 1..Len(dispatches)
    BY <1>8, <2>1 DEF Noted
  <2>8. dispatches' \in Seq(Dispatch)
    <3>1. dispatches' = [i \in 1..Len(dispatches) |-> dispatches'[i]]
      BY <1>8, <2>1 DEF Noted
    <3>2. dispatches' \in [1..Len(dispatches) -> Dispatch]
      BY <1>8, <2>6, <3>1
    <3> QED
      BY <1>8, <3>2
  <2> QED
    BY <1>8, <1>9, <2>2, <2>4, <2>6, <2>7, <2>8 DEF ListenersInv, SubscriptionTypeOK
<1>2. ASSUME CallListener PROVE ListenersInv'
  <2> DEFINE n == Len(dispatches)
             d == dispatches[n]
             l == listening[d.event][d.pos + 1]
             e == [d EXCEPT !.pos = d.pos + 1, !.heard = Append(d.heard, l)]
  <2>1. /\ dispatches # <<>> /\ d.pos < Len(listening[d.event])
        /\ dispatches' = [dispatches EXCEPT ![n] = e]
        /\ listening' = listening /\ source' = source /\ subscription' = subscription
        /\ retries' = retries /\ changes' = changes /\ heads' = heads
    BY <1>2 DEF CallListener, Innermost
  <2>2. n \in DOMAIN dispatches /\ d \in Dispatch /\ InStep(d)
    BY <1>8, <2>1
  <2>3. /\ d.event \in Events /\ d.pos \in Nat /\ d.heard \in Seq(Listeners)
        /\ listening[d.event] \in Seq(Listeners)
    BY <1>8, <2>2 DEF Dispatch
  <2>4. l \in Listeners
    BY <2>1, <2>3
  <2>5. /\ Append(d.heard, l) \in Seq(Listeners)
        /\ Len(Append(d.heard, l)) = Len(d.heard) + 1
        /\ Append(d.heard, l)[Len(d.heard) + 1] = l
        /\ \A j \in 1..Len(d.heard) : Append(d.heard, l)[j] = d.heard[j]
    BY <2>3, <2>4
  <2> HIDE DEF l, d
  <2>6. /\ e.event = d.event /\ e.pos = d.pos + 1 /\ e.heard = Append(d.heard, l)
        /\ e.start = d.start /\ e.removed = d.removed /\ e \in Dispatch
    <3> DEFINE heard == Append(d.heard, l)
               pos == d.pos + 1
    <3>1. heard \in Seq(Listeners) /\ pos \in Nat
      BY <2>3, <2>5
    <3> HIDE DEF heard, pos
    <3>2. e = [d EXCEPT !.pos = pos, !.heard = heard]
      BY DEF heard, pos
    <3>3. /\ e.event = d.event /\ e.pos = pos /\ e.heard = heard
          /\ e.start = d.start /\ e.removed = d.removed /\ e \in Dispatch
      BY <2>2, <3>1, <3>2 DEF Dispatch
    <3> QED
      BY <3>3 DEF heard, pos
  <2> HIDE DEF e
  <2>7. InStep(e)
    <3>1. Len(d.heard) = d.pos
      BY <2>2 DEF InStep
    <3>2. ASSUME ~d.removed, NEW j \in 1..(d.pos + 1)
          PROVE  Append(d.heard, l)[j] = listening[d.event][j]
      <4>1. CASE j = d.pos + 1
        BY <2>5, <3>1, <4>1 DEF l
      <4>2. CASE j \in 1..d.pos
        <5>1. d.heard[j] = listening[d.event][j]
          BY <2>2, <3>2, <4>2 DEF InStep
        <5> QED
          BY <2>5, <3>1, <4>2, <5>1
      <4>3. j = d.pos + 1 \/ j \in 1..d.pos
        BY <2>3
      <4> QED
        BY <4>1, <4>2, <4>3
    <3>3. Len(listening[d.event]) \in Nat
      BY <2>3
    <3>4. Len(e.heard) = e.pos
      BY <2>5, <2>6, <3>1
    <3>5. e.pos <= Len(listening[e.event])
      BY <2>1, <2>3, <2>6, <3>3 DEF d
    <3>6. ~e.removed => \A j \in 1..e.pos : e.heard[j] = listening[e.event][j]
      BY <2>6, <3>2
    <3>7. ~e.removed => e.start \subseteq Arrays!Range(listening[e.event])
      BY <2>2, <2>6 DEF InStep
    <3> QED
      BY <2>6, <3>4, <3>5, <3>6, <3>7 DEF InStep
  <2>8. dispatches' \in Seq(Dispatch) /\ DOMAIN dispatches' = DOMAIN dispatches
    BY <1>8, <2>1, <2>2, <2>6
  <2>9. \A i \in DOMAIN dispatches' : InStep(dispatches[i])'
    <3> SUFFICES ASSUME NEW i \in DOMAIN dispatches'
                 PROVE  InStep(dispatches[i])'
      OBVIOUS
    <3>1. CASE i = n
      <4>1. dispatches'[i] = e
        BY <2>1, <2>2, <3>1
      <4> QED
        BY <2>1, <2>7, <4>1, InStepStays
    <3>2. CASE i # n
      <4>1. dispatches'[i] = dispatches[i] /\ InStep(dispatches[i])
        BY <1>8, <2>1, <2>8, <3>2
      <4> QED
        BY <2>1, <4>1, InStepStays
    <3> QED
      BY <3>1, <3>2
  <2> QED
    BY <1>8, <1>9, <2>1, <2>8, <2>9 DEF ListenersInv, SubscriptionTypeOK
<1>3. ASSUME DispatchEnds PROVE ListenersInv'
  <2>1. /\ dispatches # <<>>
        /\ listening' = listening /\ source' = source /\ subscription' = subscription
        /\ retries' = retries /\ changes' = changes /\ heads' = heads
    BY <1>3 DEF DispatchEnds
  <2>2. CASE dispatches' = <<Begun("error")>>
    BY <1>8, <1>9, <2>1, <2>2, OneBegun DEF Events
  <2>3. CASE dispatches' = SubSeq(dispatches, 1, Len(dispatches) - 1)
    <3>1. /\ dispatches' \in Seq(Dispatch)
          /\ \A i \in DOMAIN dispatches' : i \in DOMAIN dispatches
                                           /\ dispatches'[i] = dispatches[i]
      BY <1>8, <2>1, <2>3
    <3>2. \A i \in DOMAIN dispatches' : InStep(dispatches[i])'
      <4> SUFFICES ASSUME NEW i \in DOMAIN dispatches'
                   PROVE  InStep(dispatches[i])'
        OBVIOUS
      <4>1. dispatches'[i] = dispatches[i] /\ InStep(dispatches[i])
        BY <1>8, <3>1
      <4> QED
        BY <2>1, <4>1, InStepStays
    <3> QED
      BY <1>8, <1>9, <2>1, <3>1, <3>2 DEF ListenersInv, SubscriptionTypeOK
  <2> QED
    BY <1>3, <2>2, <2>3 DEF DispatchEnds
<1>4. ASSUME HeadArrives PROVE ListenersInv'
  <2>1. /\ dispatches' = <<Begun("data")>> /\ heads' \in 0..MaxHeads
        /\ listening' = listening /\ source' = source /\ subscription' = subscription
        /\ retries' = retries /\ changes' = changes
    BY <1>4, <1>9 DEF HeadArrives
  <2> QED
    BY <1>8, <1>9, <2>1, OneBegun DEF Events
<1>5. ASSUME StreamFails PROVE ListenersInv'
  <2>1. /\ dispatches' = <<Begun("error")>> /\ heads' = heads
        /\ listening' = listening /\ source' = "dead" /\ subscription' = "failed"
        /\ retries' = retries /\ changes' = changes
    BY <1>5 DEF StreamFails
  <2> QED
    BY <1>8, <1>9, <2>1, OneBegun DEF Events
<1>6. ASSUME Close PROVE ListenersInv'
  <2> DEFINE b == Begun("close")
  <2>1. /\ dispatches' = Append(dispatches, b) /\ heads' = heads
        /\ listening' = listening /\ source' = source /\ subscription' = "closed"
        /\ retries' = retries /\ changes' = changes
    BY <1>6 DEF Close
  <2>2. b \in Dispatch /\ InStep(b)
    BY BegunInStep DEF ListenersInv, Events
  <2> HIDE DEF b
  <2>3. /\ dispatches' \in Seq(Dispatch)
        /\ \A i \in DOMAIN dispatches' :
               \/ dispatches'[i] = b
               \/ i \in DOMAIN dispatches /\ dispatches'[i] = dispatches[i]
    BY <1>8, <2>1, <2>2
  <2>4. \A i \in DOMAIN dispatches' : InStep(dispatches[i])'
    <3> SUFFICES ASSUME NEW i \in DOMAIN dispatches'
                 PROVE  InStep(dispatches[i])'
      OBVIOUS
    <3>1. CASE dispatches'[i] = b
      BY <2>1, <2>2, <3>1, InStepStays
    <3>2. CASE i \in DOMAIN dispatches /\ dispatches'[i] = dispatches[i]
      <4>1. InStep(dispatches[i])
        BY <1>8, <3>2
      <4> QED
        BY <2>1, <3>2, <4>1, InStepStays
    <3> QED
      BY <2>3, <3>1, <3>2
  <2> QED
    BY <1>8, <1>9, <2>1, <2>3, <2>4 DEF ListenersInv, SubscriptionTypeOK
<1>7. CASE UNCHANGED subscriptionVars
  BY <1>7 DEF subscriptionVars, ListenersInv, SubscriptionTypeOK, InStep
<1> QED
  BY <1>1, <1>2, <1>3, <1>4, <1>5, <1>6, <1>7 DEF SubscriptionNext

\* The invariant holds at the start and every step keeps it.
LEMMA ListenersInvariant == SubscriptionSpec => []ListenersInv
<1>1. SubscriptionInit => ListenersInv
  BY SubscriptionAssumption DEF SubscriptionInit, ListenersInv, SubscriptionTypeOK
<1> QED
  BY <1>1, ListenersStep, PTL DEF SubscriptionSpec

\* The types of the listeners and of the dispatches under way are invariant.
THEOREM SubscriptionTypeCorrect == SubscriptionSpec => []SubscriptionTypeOK
  BY ListenersInvariant, PTL DEF ListenersInv

\* For any number of listeners and changes: as long as no listener is removed, a dispatch
\* calls those that were registered when it began, each as often as it is registered.
THEOREM ListenersAreCalled == SubscriptionSpec => []CalledAsRegistered
<1>1. ListenersInv => CalledAsRegistered
  <2> SUFFICES ASSUME ListenersInv, NEW i \in DOMAIN dispatches, ~dispatches[i].removed
               PROVE  LET d == dispatches[i]
                      IN  /\ d.pos >= Len(listening[d.event]) =>
                                d.start \subseteq Arrays!Range(d.heard)
                          /\ \A l \in Listeners :
                                Times(d.heard, l) <= Times(listening[d.event], l)
    BY DEF CalledAsRegistered
  <2> DEFINE d == dispatches[i]
             array == listening[d.event]
  <2>1. d \in Dispatch /\ InStep(d)
    BY DEF ListenersInv, SubscriptionTypeOK
  <2>2. /\ d.heard \in Seq(Listeners) /\ array \in Seq(Listeners) /\ d.pos \in Nat
    BY <2>1 DEF Dispatch, ListenersInv, SubscriptionTypeOK
  <2>3. /\ Len(d.heard) = d.pos /\ d.pos <= Len(array) /\ Len(array) \in Nat
        /\ \A j \in 1..d.pos : d.heard[j] = array[j]
        /\ d.start \subseteq Arrays!Range(array)
        /\ DOMAIN d.heard = 1..d.pos /\ DOMAIN array = 1..Len(array)
    BY <2>1, <2>2 DEF InStep
  <2> HIDE DEF d, array
  <2>4. d.pos >= Len(array) => d.start \subseteq Arrays!Range(d.heard)
    BY <2>2, <2>3 DEF Arrays!Range
  <2>5. ASSUME NEW l \in Listeners
        PROVE  Times(d.heard, l) <= Times(array, l)
    <3> DEFINE A == {j \in DOMAIN d.heard : d.heard[j] = l}
               B == {j \in DOMAIN array : array[j] = l}
    <3>1. A \subseteq B
      BY <2>2, <2>3
    <3>2. IsFiniteSet(B)
      <4>1. IsFiniteSet(1..Len(array))
        BY <2>3, FS_Interval
      <4> QED
        BY <2>3, <4>1, FS_Subset
    <3>3. Cardinality(A) <= Cardinality(B)
      <4> HIDE DEF A, B
      <4> QED
        BY <3>1, <3>2, FS_Subset
    <3> QED
      BY <3>3 DEF Times
  <2> QED
    BY <2>4, <2>5 DEF d, array
<1> QED
  BY <1>1, ListenersInvariant, PTL

-----------------------------------------------------------------------------
(* SaplingTransaction *)

\* The fields of a call's record: the values in it are not needed.
TxFields == {"pc", "kind", "amounts", "root", "inputs", "treeRoot", "outputs", "balance",
             "disturbed"}

\* What a call that nobody disturbed has read still is so; one that spends nothing does
\* not depend on it.
Undisturbed(t) ==
    LET r == tx[t]
    IN  /\ DOMAIN r = TxFields
        /\ r.pc \in {"idle", "notes"} => r.inputs = {}
        /\ r.pc \in {"notes", "tree", "built"} /\ r.disturbed # TRUE =>
              /\ r.root = Len(notes)
              /\ r.inputs \cap nullified = {}
              /\ r.pc = "built" /\ r.inputs # {} => r.treeRoot = r.root
        /\ r.pc = "refused" => r.disturbed = TRUE /\ r.inputs # {}

\* The inductive invariant.
SaplingInv == DOMAIN tx = Transactions /\ \A t \in Transactions : Undisturbed(t)

\* A step of one call that leaves the pool alone keeps the invariant if the call does.
LEMMA SaplingOne ==
    ASSUME SaplingInv, NEW t \in Transactions, NEW new,
           notes' = notes, nullified' = nullified, Becomes(t, new),
           Undisturbed(t)'
    PROVE  SaplingInv'
  <1>1. \A u \in Transactions \ {t} : tx'[u] = tx[u]
    BY DEF Becomes, SaplingInv
  <1>2. DOMAIN tx' = Transactions
    BY DEF Becomes, SaplingInv
  <1>3. ASSUME NEW u \in Transactions PROVE Undisturbed(u)'
    <2>1. CASE u = t
      BY <2>1
    <2>2. CASE u # t
      BY <1>1, <2>2 DEF Undisturbed, SaplingInv
    <2> QED
      BY <2>1, <2>2
  <1> QED
    BY <1>2, <1>3 DEF SaplingInv

\* What grows the pool notes it in the calls under way.
LEMMA SaplingGrows ==
    ASSUME SaplingInv, DOMAIN tx' = Transactions,
           \A u \in Transactions :
               \/ tx'[u] = IF tx[u].pc \in {"notes", "tree", "built"}
                           THEN [tx[u] EXCEPT !.disturbed = TRUE] ELSE tx[u]
               \/ tx'[u] = [tx[u] EXCEPT !.pc = "accepted"]
    PROVE  SaplingInv'
  <1>1. ASSUME NEW u \in Transactions PROVE Undisturbed(u)'
    <2>0. Undisturbed(u)
      BY DEF SaplingInv
    <2>1. CASE tx'[u] = [tx[u] EXCEPT !.pc = "accepted"]
      <3>2. DOMAIN tx'[u] = TxFields /\ tx'[u].pc = "accepted"
        BY <2>0, <2>1 DEF Undisturbed, TxFields
      <3> QED
        BY <3>2 DEF Undisturbed
    <2>2. CASE /\ tx'[u] # [tx[u] EXCEPT !.pc = "accepted"]
              /\ tx[u].pc \in {"notes", "tree", "built"}
      <3>1. tx'[u] = [tx[u] EXCEPT !.disturbed = TRUE]
        BY <2>2
      <3>2. /\ DOMAIN tx'[u] = TxFields /\ tx'[u].pc = tx[u].pc
            /\ tx'[u].inputs = tx[u].inputs /\ tx'[u].disturbed = TRUE
        BY <2>0, <3>1 DEF Undisturbed, TxFields
      <3> QED
        BY <2>0, <2>2, <3>2 DEF Undisturbed
    <2>3. CASE /\ tx'[u] # [tx[u] EXCEPT !.pc = "accepted"]
              /\ tx[u].pc \notin {"notes", "tree", "built"}
      <3>1. tx'[u] = tx[u]
        BY <2>3
      <3> QED
        BY <2>0, <2>3, <3>1 DEF Undisturbed
    <2> QED
      BY <2>1, <2>2, <2>3
  <1> QED
    BY <1>1 DEF SaplingInv

\* What the first read makes of the call: the record has the fields it had.
LEMMA RootEffect ==
    ASSUME NEW t, ReadRoot(t)
    PROVE  \E kind, amounts : Becomes(t, [tx[t] EXCEPT
                !.kind = kind, !.amounts = amounts, !.root = Len(notes),
                !.outputs = IF kind = "unshielded" THEN <<>>
                            ELSE [i \in DOMAIN amounts |->
                                    [owner |-> "other", value |-> amounts[i]]],
                !.balance = IF kind = "shielded" THEN -Total(amounts) ELSE 0,
                !.pc = IF kind = "shielded" THEN "built" ELSE "notes"])
  BY ZenonT(60) DEF ReadRoot

\* A step keeps the invariant.
LEMMA SaplingStep == SaplingInv /\ [SaplingNext]_saplingVars => SaplingInv'
<1>0. SUFFICES ASSUME SaplingInv, [SaplingNext]_saplingVars PROVE SaplingInv'
  OBVIOUS
<1>1. ASSUME OthersAdd PROVE SaplingInv'
  <2>1. /\ DOMAIN tx' = Transactions
        /\ \A u \in Transactions :
               tx'[u] = IF tx[u].pc \in {"notes", "tree", "built"}
                        THEN [tx[u] EXCEPT !.disturbed = TRUE] ELSE tx[u]
    BY <1>1 DEF OthersAdd
  <2> QED
    BY <1>0, <2>1, SaplingGrows
<1>2. ASSUME NEW t \in Transactions, ReadRoot(t) PROVE SaplingInv'
  <2>1. /\ tx[t].pc = "idle" /\ DOMAIN tx[t] = TxFields /\ tx[t].inputs = {}
        /\ tx[t].pc # "refused" /\ DOMAIN tx = Transactions
    BY <1>0, <1>2 DEF ReadRoot, SaplingInv, Undisturbed
  <2>2. PICK kind, amounts : Becomes(t, [tx[t] EXCEPT
                !.kind = kind, !.amounts = amounts, !.root = Len(notes),
                !.outputs = IF kind = "unshielded" THEN <<>>
                            ELSE [i \in DOMAIN amounts |->
                                    [owner |-> "other", value |-> amounts[i]]],
                !.balance = IF kind = "shielded" THEN -Total(amounts) ELSE 0,
                !.pc = IF kind = "shielded" THEN "built" ELSE "notes"])
    BY <1>2, RootEffect
  <2> DEFINE outputs == IF kind = "unshielded" THEN <<>>
                        ELSE [i \in DOMAIN amounts |->
                                [owner |-> "other", value |-> amounts[i]]]
             balance == IF kind = "shielded" THEN -Total(amounts) ELSE 0
             pc == IF kind = "shielded" THEN "built" ELSE "notes"
             new == [tx[t] EXCEPT !.kind = kind, !.amounts = amounts,
                         !.root = Len(notes), !.outputs = outputs,
                         !.balance = balance, !.pc = pc]
  <2>3. Becomes(t, new)
    BY <2>2, Zenon
  <2>4. pc \in {"built", "notes"}
    OBVIOUS
  <2> HIDE DEF outputs, balance, pc
  <2>5. /\ DOMAIN new = TxFields /\ new.pc = pc
        /\ new.root = Len(notes) /\ new.inputs = {}
    BY <2>1 DEF TxFields
  <2>6. notes' = notes /\ nullified' = nullified
    BY <1>2 DEF ReadRoot
  <2> HIDE DEF new
  <2>7. tx'[t] = new
    BY <2>1, <2>3 DEF Becomes
  <2>8. Undisturbed(t)'
    BY <2>4, <2>5, <2>6, <2>7 DEF Undisturbed
  <2> QED
    BY <1>0, <2>3, <2>6, <2>8, SaplingOne
<1>3. ASSUME NEW t \in Transactions, ReadNotes(t) PROVE SaplingInv'
  <2>1. /\ tx[t].pc = "notes" /\ DOMAIN tx = Transactions /\ Undisturbed(t)
        /\ notes' = notes /\ nullified' = nullified
    BY <1>0, <1>3 DEF ReadNotes, SaplingInv
  <2> DEFINE chosen == Selected(Total(tx[t].amounts))
  <2>2. chosen \cap nullified = {}
    BY DEF Selected, Unspent
  <2>3. PICK new : /\ Becomes(t, new)
                   /\ \/ new = [tx[t] EXCEPT !.pc = "failed"]
                      \/ new = [tx[t] EXCEPT !.inputs = chosen, !.pc = "tree"]
    BY <1>3 DEF ReadNotes
  <2>4. tx'[t] = new
    BY <2>1, <2>3 DEF Becomes
  <2> HIDE DEF chosen
  <2>5. CASE new = [tx[t] EXCEPT !.pc = "failed"]
    <3>1. DOMAIN new = TxFields /\ new.pc = "failed"
      BY <2>1, <2>5 DEF Undisturbed, TxFields
    <3>2. Undisturbed(t)'
      BY <2>4, <3>1 DEF Undisturbed
    <3> QED
      BY <1>0, <2>1, <2>3, <3>2, SaplingOne
  <2>6. CASE new = [tx[t] EXCEPT !.inputs = chosen, !.pc = "tree"]
    <3>1. /\ DOMAIN new = TxFields /\ new.pc = "tree" /\ new.inputs = chosen
          /\ new.root = tx[t].root /\ new.disturbed = tx[t].disturbed
      BY <2>1, <2>6 DEF Undisturbed, TxFields
    <3>2. Undisturbed(t)'
      BY <2>1, <2>2, <2>4, <3>1 DEF Undisturbed
    <3> QED
      BY <1>0, <2>1, <2>3, <3>2, SaplingOne
  <2> QED
    BY <2>3, <2>5, <2>6
<1>4. ASSUME NEW t \in Transactions, ReadTree(t) PROVE SaplingInv'
  <2>1. /\ tx[t].pc = "tree" /\ DOMAIN tx = Transactions /\ Undisturbed(t)
        /\ notes' = notes /\ nullified' = nullified
    BY <1>0, <1>4 DEF ReadTree, SaplingInv
  <2>2. PICK outputs, balance, new :
             /\ Becomes(t, new)
             /\ \/ new = [tx[t] EXCEPT !.pc = "failed"]
                \/ new = [tx[t] EXCEPT !.treeRoot = Len(notes), !.outputs = outputs,
                                       !.balance = balance, !.pc = "built"]
    BY <1>4 DEF ReadTree
  <2>3. tx'[t] = new
    BY <2>1, <2>2 DEF Becomes
  <2>4. CASE new = [tx[t] EXCEPT !.pc = "failed"]
    <3>1. DOMAIN new = TxFields /\ new.pc = "failed"
      BY <2>1, <2>4 DEF Undisturbed, TxFields
    <3>2. Undisturbed(t)'
      BY <2>3, <3>1 DEF Undisturbed
    <3> QED
      BY <1>0, <2>1, <2>2, <3>2, SaplingOne
  <2>5. CASE new = [tx[t] EXCEPT !.treeRoot = Len(notes), !.outputs = outputs,
                                 !.balance = balance, !.pc = "built"]
    <3>1. /\ DOMAIN new = TxFields /\ new.pc = "built" /\ new.inputs = tx[t].inputs
          /\ new.root = tx[t].root /\ new.disturbed = tx[t].disturbed
          /\ new.treeRoot = Len(notes)
      BY <2>1, <2>5 DEF Undisturbed, TxFields
    <3>2. Undisturbed(t)'
      BY <2>1, <2>3, <3>1 DEF Undisturbed
    <3> QED
      BY <1>0, <2>1, <2>2, <3>2, SaplingOne
  <2> QED
    BY <2>2, <2>4, <2>5
<1>5. ASSUME NEW t \in Transactions, Submitted(t) PROVE SaplingInv'
  <2>1. tx[t].pc = "built" /\ DOMAIN tx = Transactions /\ Undisturbed(t)
    BY <1>0, <1>5 DEF Submitted, SaplingInv
  <2>2. CASE Valid(t)
    <3>1. tx' = [Disturbed(t) EXCEPT ![t].pc = "accepted"]
      BY <1>5, <2>2 DEF Submitted
    <3>2. /\ DOMAIN tx' = Transactions
          /\ \A u \in Transactions \ {t} :
                 tx'[u] = IF tx[u].pc \in {"notes", "tree", "built"}
                          THEN [tx[u] EXCEPT !.disturbed = TRUE] ELSE tx[u]
          /\ tx'[t] = [tx[t] EXCEPT !.pc = "accepted"]
      BY <3>1 DEF Disturbed
    <3> QED
      BY <1>0, <3>2, SaplingGrows
  <2>3. CASE ~Valid(t)
    <3> DEFINE new == [tx[t] EXCEPT !.pc = "refused"]
    <3>1. Becomes(t, new) /\ notes' = notes /\ nullified' = nullified
      BY <1>5, <2>3 DEF Submitted
    <3>2. tx[t].inputs # {} /\ tx[t].disturbed = TRUE
      BY <2>1, <2>3 DEF Valid, Undisturbed
    <3>3. tx'[t] = new
      BY <2>1, <3>1 DEF Becomes
    <3>4. /\ DOMAIN new = TxFields /\ new.pc = "refused"
          /\ new.inputs = tx[t].inputs /\ new.disturbed = tx[t].disturbed
      BY <2>1 DEF Undisturbed, TxFields
    <3> HIDE DEF new
    <3>5. Undisturbed(t)'
      BY <3>2, <3>3, <3>4 DEF Undisturbed
    <3> QED
      BY <1>0, <3>1, <3>5, SaplingOne
  <2> QED
    BY <2>2, <2>3
<1>6. CASE UNCHANGED saplingVars
  BY <1>0, <1>6 DEF saplingVars, SaplingInv, Undisturbed
<1> QED
  BY <1>0, <1>1, <1>2, <1>3, <1>4, <1>5, <1>6 DEF SaplingNext

\* A transaction of the shielded pool is refused only if the pool has changed since its
\* root was read, and one that spends nothing never is.
THEOREM UndisturbedTransactions == SaplingSpec => []UndisturbedIsAccepted
<1>1. SaplingInit => SaplingInv
  <2>1. SUFFICES ASSUME SaplingInit PROVE SaplingInv
    OBVIOUS
  <2>2. DOMAIN tx = Transactions
    BY <2>1 DEF SaplingInit
  <2>3. ASSUME NEW t \in Transactions PROVE Undisturbed(t)
    <3>1. tx[t] = [pc |-> "idle", kind |-> "shielded", amounts |-> <<>>, root |-> 0,
                inputs |-> {}, treeRoot |-> 0, outputs |-> <<>>, balance |-> 0,
                disturbed |-> FALSE]
      BY <2>1 DEF SaplingInit
    <3>2. DOMAIN tx[t] = TxFields /\ tx[t].pc = "idle" /\ tx[t].inputs = {}
      BY <3>1 DEF TxFields
    <3> QED
      BY <3>2 DEF Undisturbed
  <2> QED
    BY <2>2, <2>3 DEF SaplingInv
<1>2. SaplingInv => UndisturbedIsAccepted
  BY DEF SaplingInv, Undisturbed, UndisturbedIsAccepted
<1> QED
  BY <1>1, <1>2, SaplingStep, PTL DEF SaplingSpec

\* The values of a list of notes, their sum, and the sum of amounts.
LEMMA ValuesType ==
    ASSUME NEW list \in Seq(Note)
    PROVE  /\ DOMAIN list = 1..Len(list) /\ IsFiniteSet(DOMAIN list)
           /\ DOMAIN NoteValues(list) = DOMAIN list
           /\ \A i \in DOMAIN list : NoteValues(list)[i] = list[i].value /\ list[i].value \in Nat
           /\ Total(NoteValues(list)) \in Nat
<1>1. DOMAIN list = 1..Len(list) /\ Len(list) \in Nat
  OBVIOUS
<1>2. IsFiniteSet(DOMAIN list)
  BY <1>1, FS_Interval
<1>3. \A i \in DOMAIN list : list[i] \in Note
  OBVIOUS
<1>4. /\ DOMAIN NoteValues(list) = DOMAIN list
      /\ \A i \in DOMAIN list : NoteValues(list)[i] = list[i].value /\ list[i].value \in Nat
  BY <1>3 DEF NoteValues, Note
<1>5. Total(NoteValues(list)) \in Nat
  BY <1>2, <1>4, SumNatural DEF Total, SumAll
<1> QED
  BY <1>1, <1>2, <1>4, <1>5

\* Amounts add up to a natural number.
LEMMA TotalType ==
    ASSUME NEW amounts \in Seq(0..MaxAmount)
    PROVE  Total(amounts) \in Nat
<1>1. DOMAIN amounts = 1..Len(amounts) /\ Len(amounts) \in Nat
  OBVIOUS
<1>2. IsFiniteSet(DOMAIN amounts)
  BY <1>1, FS_Interval
<1>3. \A i \in DOMAIN amounts : amounts[i] \in Nat
  BY SaplingAssumption
<1> QED
  BY <1>2, <1>3, SumNatural DEF Total, SumAll

\* The outputs that pay the amounts have their total.
LEMMA PaidTotal ==
    ASSUME NEW amounts \in Seq(0..MaxAmount)
    PROVE  LET paid == [i \in DOMAIN amounts |-> [owner |-> "other", value |-> amounts[i]]]
           IN  paid \in Seq(Note) /\ Total(NoteValues(paid)) = Total(amounts)
<1> DEFINE paid == [i \in DOMAIN amounts |-> [owner |-> "other", value |-> amounts[i]]]
<1>1. DOMAIN amounts = 1..Len(amounts) /\ Len(amounts) \in Nat
      /\ \A i \in DOMAIN amounts : amounts[i] \in Nat
  BY SaplingAssumption
<1>2. paid \in [1..Len(amounts) -> Note]
  BY <1>1 DEF Note
<1>3. paid \in Seq(Note)
  BY <1>1, <1>2
<1>4. NoteValues(paid) = [i \in DOMAIN amounts |-> amounts[i]]
  BY DEF NoteValues
<1>5. NoteValues(paid) = amounts
  BY <1>4
<1> QED
  BY <1>3, <1>5

\* A note more adds its value.
LEMMA TotalOfAppended ==
    ASSUME NEW list \in Seq(Note), NEW n \in Note
    PROVE  /\ list \o <<n>> \in Seq(Note)
           /\ Total(NoteValues(list \o <<n>>)) = Total(NoteValues(list)) + n.value
<1> DEFINE more == list \o <<n>>
           k == Len(list) + 1
<1>1. /\ more \in Seq(Note) /\ Len(more) = k /\ Len(list) \in Nat
      /\ \A i \in 1..Len(list) : more[i] = list[i]
      /\ more[k] = n
  OBVIOUS
<1> HIDE DEF more
<1>2. DOMAIN list = 1..Len(list) /\ DOMAIN more = (1..Len(list)) \cup {k} /\ k \notin 1..Len(list)
  BY <1>1
<1>3. /\ IsFiniteSet(DOMAIN list) /\ DOMAIN NoteValues(more) = DOMAIN more
      /\ DOMAIN NoteValues(list) = DOMAIN list
      /\ \A i \in DOMAIN more : NoteValues(more)[i] = more[i].value /\ NoteValues(more)[i] \in Int
      /\ \A i \in DOMAIN list : NoteValues(list)[i] = list[i].value /\ NoteValues(list)[i] \in Int
  BY <1>1, ValuesType
<1>4. SumOver(NoteValues(more), DOMAIN more) = SumOver(NoteValues(more), DOMAIN list) + NoteValues(more)[k]
  BY <1>2, <1>3, SumWithOneMore
<1>5. SameOn(NoteValues(list), NoteValues(more), DOMAIN list)
  BY <1>1, <1>2, <1>3 DEF SameOn
<1>6. SumOver(NoteValues(list), DOMAIN list) = SumOver(NoteValues(more), DOMAIN list)
  BY <1>3, <1>5, SumSame
<1>7. NoteValues(more)[k] = n.value
  BY <1>1, <1>2, <1>3
<1> QED
  BY <1>1, <1>3, <1>4, <1>6, <1>7 DEF Total, SumAll, more

\* What notes are worth does not change when the pool grows.
LEMMA ValueStays ==
    ASSUME NEW old \in Seq(Note), NEW new \in Seq(Note), NEW positions,
           positions \subseteq DOMAIN old,
           \A i \in DOMAIN old : i \in DOMAIN new /\ new[i] = old[i]
    PROVE  /\ SumOver(NoteValues(old), positions) = SumOver(NoteValues(new), positions)
           /\ SumOver(NoteValues(old), positions) \in Nat
<1>1. IsFiniteSet(positions)
  BY ValuesType, FS_Subset
<1>2. \A i \in positions : NoteValues(old)[i] \in Nat
  BY ValuesType
<1>3. SameOn(NoteValues(old), NoteValues(new), positions)
  BY ValuesType DEF SameOn
<1> QED
  BY <1>1, <1>2, <1>3, SumSame, SumNatural

\* What goes in comes out, as the kind of the transaction says.
Conserved(r) ==
    /\ ValueOf(r.inputs) = r.balance + Total(NoteValues(r.outputs))
    /\ r.balance = CASE r.kind = "shielded" -> -Total(r.amounts)
                     [] r.kind = "unshielded" -> Total(r.amounts)
                     [] r.kind = "sapling" -> 0

\* What is known of a call before its transaction is built: the outputs pay its amounts,
\* unless they leave the pool, and the inputs suffice for them.
Accounted(r) ==
    /\ r.inputs \subseteq DOMAIN notes
    /\ r.pc \in {"idle", "notes"} => r.inputs = {}
    /\ r.pc \in {"notes", "tree"} =>
          /\ r.kind # "shielded"
          /\ Total(NoteValues(r.outputs)) =
                IF r.kind = "unshielded" THEN 0 ELSE Total(r.amounts)
    /\ r.pc = "tree" => ValueOf(r.inputs) >= Total(r.amounts)
    /\ r.pc \in {"built", "accepted", "refused"} => Conserved(r)

\* The inductive invariant for what is conserved.
ConservesInv == SaplingTypeOK /\ \A t \in Transactions : Accounted(tx[t])

\* Notes of the pool are worth a natural number.
LEMMA ValueOfType ==
    ASSUME SaplingTypeOK, NEW positions, positions \subseteq DOMAIN notes
    PROVE  ValueOf(positions) \in Nat
  BY ValueStays DEF SaplingTypeOK, ValueOf

\* No notes are worth nothing.
LEMMA ValueOfNone ==
    ASSUME SaplingTypeOK
    PROVE  ValueOf({}) = 0
  BY SumOfNone DEF ValueOf

\* A step of one call that leaves the pool alone.
LEMMA AccountedOne ==
    ASSUME ConservesInv, NEW t \in Transactions, NEW new \in Tx, Becomes(t, new), Accounted(new),
           notes' = notes, nullified' = nullified, others' = others
    PROVE  ConservesInv'
<1>1. tx' = [tx EXCEPT ![t] = new] /\ tx \in [Transactions -> Tx]
  BY DEF Becomes, ConservesInv, SaplingTypeOK
<1>2. tx' \in [Transactions -> Tx] /\ \A u \in Transactions : Accounted(tx'[u])
  BY <1>1 DEF ConservesInv
<1>3. \A u \in Transactions : Accounted(tx[u])'
  BY <1>2 DEF Accounted, Conserved, ValueOf
<1> QED
  BY <1>2, <1>3 DEF ConservesInv, SaplingTypeOK

\* A call whose transaction is made of the same in a pool that has grown.
LEMMA AccountedGrows ==
    ASSUME SaplingTypeOK, NEW r \in Tx, Accounted(r), NEW q \in Tx,
           notes' \in Seq(Note),
           \A i \in DOMAIN notes : i \in DOMAIN notes' /\ notes'[i] = notes[i],
           q.kind = r.kind, q.amounts = r.amounts, q.inputs = r.inputs,
           q.outputs = r.outputs, q.balance = r.balance,
           q.pc = r.pc \/ (r.pc = "built" /\ q.pc = "accepted")
    PROVE  /\ q.inputs \subseteq DOMAIN notes'
           /\ q.pc \in {"idle", "notes"} => q.inputs = {}
           /\ q.pc \in {"notes", "tree"} =>
                 /\ q.kind # "shielded"
                 /\ Total(NoteValues(q.outputs)) =
                       IF q.kind = "unshielded" THEN 0 ELSE Total(q.amounts)
           /\ SumOver(NoteValues(notes'), q.inputs) = ValueOf(r.inputs)
           /\ q.pc = "tree" => ValueOf(r.inputs) >= Total(q.amounts)
           /\ q.pc \in {"built", "accepted", "refused"} => Conserved(r)
<1>1. SumOver(NoteValues(notes), r.inputs) = SumOver(NoteValues(notes'), r.inputs)
  BY ValueStays DEF SaplingTypeOK, Accounted
<1> QED
  BY <1>1 DEF Accounted, ValueOf

\* What disturbing a call, or settling its transaction, leaves as it was.
LEMMA OnlySettled ==
    ASSUME NEW r \in Tx, NEW q,
           \/ q = IF r.pc \in {"notes", "tree", "built"}
                  THEN [r EXCEPT !.disturbed = TRUE] ELSE r
           \/ r.pc = "built" /\ q = [r EXCEPT !.pc = "accepted"]
    PROVE  /\ q.kind = r.kind /\ q.amounts = r.amounts /\ q.inputs = r.inputs
           /\ q.outputs = r.outputs /\ q.balance = r.balance
           /\ (q.pc = r.pc) \/ (r.pc = "built" /\ q.pc = "accepted")
           /\ q \in Tx
<1>1. CASE q = [r EXCEPT !.disturbed = TRUE]
  BY <1>1 DEF Tx
<1>2. CASE q = r
  BY <1>2
<1>3. CASE r.pc = "built" /\ q = [r EXCEPT !.pc = "accepted"]
  BY <1>3 DEF Tx
<1> QED
  BY <1>1, <1>2, <1>3

\* A pool that has grown, in which calls are disturbed or settled.
LEMMA ConservesGrows ==
    ASSUME ConservesInv, notes' \in Seq(Note), nullified' \subseteq DOMAIN notes',
           others' \in 0..MaxNotes, tx' \in [Transactions -> Tx],
           \A i \in DOMAIN notes : i \in DOMAIN notes' /\ notes'[i] = notes[i],
           \A u \in Transactions :
               \/ tx'[u] = IF tx[u].pc \in {"notes", "tree", "built"}
                           THEN [tx[u] EXCEPT !.disturbed = TRUE] ELSE tx[u]
               \/ tx[u].pc = "built" /\ tx'[u] = [tx[u] EXCEPT !.pc = "accepted"]
    PROVE  ConservesInv'
<1>1. ASSUME NEW u \in Transactions
      PROVE  Accounted(tx[u])'
  <2> DEFINE r == tx[u]
             q == tx'[u]
  <2>1. r \in Tx /\ q \in Tx /\ Accounted(r)
    BY DEF ConservesInv, SaplingTypeOK
  <2>2. /\ q.kind = r.kind /\ q.amounts = r.amounts /\ q.inputs = r.inputs
        /\ q.outputs = r.outputs /\ q.balance = r.balance
        /\ (q.pc = r.pc) \/ (r.pc = "built" /\ q.pc = "accepted")
    BY <2>1, OnlySettled
  <2>3. /\ q.inputs \subseteq DOMAIN notes'
        /\ q.pc \in {"idle", "notes"} => q.inputs = {}
        /\ q.pc \in {"notes", "tree"} =>
              /\ q.kind # "shielded"
              /\ Total(NoteValues(q.outputs)) =
                    IF q.kind = "unshielded" THEN 0 ELSE Total(q.amounts)
        /\ SumOver(NoteValues(notes'), q.inputs) = ValueOf(r.inputs)
        /\ q.pc = "tree" => ValueOf(r.inputs) >= Total(q.amounts)
        /\ q.pc \in {"built", "accepted", "refused"} => Conserved(r)
    BY <2>1, <2>2, AccountedGrows DEF ConservesInv
  <2>4. SumOver(NoteValues(notes'), q.inputs) = ValueOf(tx[u].inputs)'
    BY DEF ValueOf
  <2>5. Conserved(r) => SumOver(NoteValues(notes'), q.inputs) = q.balance + Total(NoteValues(q.outputs))
    <3>1. Conserved(r) => ValueOf(r.inputs) = r.balance + Total(NoteValues(r.outputs))
      BY DEF Conserved
    <3>2. SumOver(NoteValues(notes'), q.inputs) = ValueOf(r.inputs)
      BY <2>3
    <3>3. q.balance + Total(NoteValues(q.outputs)) = r.balance + Total(NoteValues(r.outputs))
      BY <2>2
    <3> QED
      BY <3>1, <3>2, <3>3
  <2>6. Conserved(r) => q.balance = CASE q.kind = "shielded" -> -Total(q.amounts)
                                      [] q.kind = "unshielded" -> Total(q.amounts)
                                      [] q.kind = "sapling" -> 0
    BY <2>2 DEF Conserved
  <2>7. Conserved(r) => Conserved(tx[u])'
    BY <2>4, <2>5, <2>6 DEF Conserved
  <2>8. q.pc = "tree" => ValueOf(tx[u].inputs)' >= Total(tx[u].amounts)'
    <3>1. q.pc = "tree" => ValueOf(r.inputs) >= Total(q.amounts)
      BY <2>3
    <3>2. ValueOf(tx[u].inputs)' = ValueOf(r.inputs)
      BY <2>3, <2>4
    <3> QED
      BY <3>1, <3>2
  <2> HIDE DEF r
  <2> QED
    BY <2>3, <2>7, <2>8 DEF Accounted
<1> QED
  BY <1>1 DEF ConservesInv, SaplingTypeOK
\* Others add to the pool.
LEMMA OthersAddConserves ==
  ASSUME ConservesInv, OthersAdd
  PROVE  ConservesInv'
<1>1. PICK owner \in {"me", "other"}, value \in 1..MaxAmount :
         notes' = Append(notes, [owner |-> owner, value |-> value])
  BY DEF OthersAdd
<1> DEFINE n == [owner |-> owner, value |-> value]
<1>2. n \in Note /\ notes \in Seq(Note)
  BY SaplingAssumption DEF Note, ConservesInv, SaplingTypeOK
<1> HIDE DEF n
<1>3. /\ notes' \in Seq(Note)
      /\ \A i \in DOMAIN notes : i \in DOMAIN notes' /\ notes'[i] = notes[i]
  BY <1>1, <1>2 DEF n
<1>4. nullified' \subseteq DOMAIN notes'
  BY <1>3 DEF OthersAdd, ConservesInv, SaplingTypeOK
<1>5. others' \in 0..MaxNotes
  BY SaplingAssumption DEF OthersAdd, ConservesInv, SaplingTypeOK
<1>6. \A u \in Transactions :
         tx'[u] = IF tx[u].pc \in {"notes", "tree", "built"}
                  THEN [tx[u] EXCEPT !.disturbed = TRUE] ELSE tx[u]
  BY DEF OthersAdd
<1>7. tx' \in [Transactions -> Tx]
  <2>1. \A u \in Transactions : tx[u] \in Tx
    BY DEF ConservesInv, SaplingTypeOK
  <2>2. \A u \in Transactions : tx'[u] \in Tx
    BY <1>6, <2>1, OnlySettled
  <2>3. tx' = [u \in Transactions |-> tx'[u]]
    BY DEF OthersAdd
  <2> QED
    BY <2>2, <2>3
<1> QED
  BY <1>3, <1>4, <1>5, <1>6, <1>7, ConservesGrows

\* A transaction is submitted: its notes come into the pool, or nothing happens.
LEMMA SubmittedConserves ==
    ASSUME ConservesInv, NEW t \in Transactions, Submitted(t)
    PROVE  ConservesInv'
<1>0. tx[t] \in Tx /\ Accounted(tx[t]) /\ tx[t].pc = "built"
      /\ tx \in [Transactions -> Tx] /\ notes \in Seq(Note)
  BY DEF ConservesInv, SaplingTypeOK, Submitted
<1>1. CASE Valid(t)
  <2>1. /\ notes' = notes \o tx[t].outputs
        /\ nullified' = nullified \cup tx[t].inputs
        /\ tx' = [Disturbed(t) EXCEPT ![t].pc = "accepted"]
        /\ others' = others
    BY <1>1 DEF Submitted
  <2>2. tx[t].outputs \in Seq(Note) /\ tx[t].inputs \subseteq DOMAIN notes
    BY <1>0 DEF Tx, Accounted
  <2>3. /\ notes' \in Seq(Note)
        /\ \A i \in DOMAIN notes : i \in DOMAIN notes' /\ notes'[i] = notes[i]
    BY <1>0, <2>1, <2>2
  <2>4. nullified' \subseteq DOMAIN notes'
    BY <2>1, <2>2, <2>3 DEF ConservesInv, SaplingTypeOK
  <2>5. others' \in 0..MaxNotes
    BY <2>1 DEF ConservesInv, SaplingTypeOK
  <2>6. \A u \in Transactions :
           \/ tx'[u] = IF tx[u].pc \in {"notes", "tree", "built"}
                       THEN [tx[u] EXCEPT !.disturbed = TRUE] ELSE tx[u]
           \/ tx[u].pc = "built" /\ tx'[u] = [tx[u] EXCEPT !.pc = "accepted"]
    BY <1>0, <2>1 DEF Disturbed
  <2>7. tx' \in [Transactions -> Tx]
    <3>1. \A u \in Transactions : tx'[u] \in Tx
      <4> SUFFICES ASSUME NEW u \in Transactions
                   PROVE  tx'[u] \in Tx
        OBVIOUS
      <4>1. tx[u] \in Tx
        BY <1>0
      <4> QED
        BY <2>6, <4>1, OnlySettled
    <3>2. tx' = [u \in Transactions |-> tx'[u]]
      BY <2>1 DEF Disturbed
    <3> QED
      BY <3>1, <3>2
  <2> QED
    BY <2>3, <2>4, <2>5, <2>6, <2>7, ConservesGrows
<1>2. CASE ~Valid(t)
  <2> DEFINE new == [tx[t] EXCEPT !.pc = "refused"]
  <2>1. Becomes(t, new) /\ notes' = notes /\ nullified' = nullified /\ others' = others
    BY <1>2 DEF Submitted
  <2>2. new \in Tx /\ new.pc = "refused" /\ new.inputs = tx[t].inputs
        /\ new.kind = tx[t].kind /\ new.amounts = tx[t].amounts
        /\ new.outputs = tx[t].outputs /\ new.balance = tx[t].balance
    BY <1>0 DEF Tx
  <2> HIDE DEF new
  <2>3. Accounted(new)
    BY <1>0, <2>2 DEF Accounted, Conserved
  <2> QED
    BY <2>1, <2>2, <2>3, AccountedOne
<1> QED
  BY <1>1, <1>2
\* The root is read, and a shielded transaction is complete: what it pays comes from
\* the balance.
LEMMA ReadRootConserves ==
  ASSUME ConservesInv, NEW t \in Transactions, ReadRoot(t)
  PROVE  ConservesInv'
<1>1. PICK kind \in {"shielded", "unshielded", "sapling"}, amounts \in Amounts :
         /\ kind = "unshielded" => Len(amounts) = 1
         /\ Becomes(t, [tx[t] EXCEPT
               !.kind = kind, !.amounts = amounts, !.root = Len(notes),
               !.outputs = IF kind = "unshielded" THEN <<>>
                           ELSE [i \in DOMAIN amounts |->
                                   [owner |-> "other", value |-> amounts[i]]],
               !.balance = IF kind = "shielded" THEN -Total(amounts) ELSE 0,
               !.pc = IF kind = "shielded" THEN "built" ELSE "notes"])
  BY DEF ReadRoot
<1> DEFINE paid == [i \in DOMAIN amounts |-> [owner |-> "other", value |-> amounts[i]]]
           outputs == IF kind = "unshielded" THEN <<>> ELSE paid
           balance == IF kind = "shielded" THEN -Total(amounts) ELSE 0
           root == Len(notes)
           new == [tx[t] EXCEPT !.kind = kind, !.amounts = amounts, !.root = root,
                      !.outputs = outputs, !.balance = balance,
                      !.pc = IF kind = "shielded" THEN "built" ELSE "notes"]
<1>2. Becomes(t, new) /\ notes' = notes /\ nullified' = nullified /\ others' = others
  BY <1>1 DEF ReadRoot
<1>3. tx[t] \in Tx /\ Accounted(tx[t]) /\ tx[t].pc = "idle" /\ notes \in Seq(Note)
  BY DEF ConservesInv, SaplingTypeOK, ReadRoot
<1>4. amounts \in Seq(0..MaxAmount)
  <2>1. CASE \E a \in 0..MaxAmount : amounts = <<a>>
    BY <2>1
  <2>2. CASE \E a, b \in 1..MaxAmount : amounts = <<a, b>>
    <3>1. PICK a, b \in 1..MaxAmount : amounts = <<a, b>>
      BY <2>2
    <3>2. a \in 0..MaxAmount /\ b \in 0..MaxAmount
      BY SaplingAssumption
    <3> QED
      BY <3>1, <3>2
  <2> QED
    BY <2>1, <2>2 DEF Amounts
<1>5. Total(amounts) \in Nat
  BY <1>4, TotalType
<1>6. paid \in Seq(Note) /\ Total(NoteValues(paid)) = Total(amounts)
  BY <1>4, PaidTotal
<1>7. <<>> \in Seq(Note) /\ Total(NoteValues(<<>>)) = 0
  <2>1. DOMAIN NoteValues(<<>>) = {}
    BY DEF NoteValues
  <2> QED
    BY <2>1, SumOfNone DEF Total, SumAll
<1>8. /\ outputs \in Seq(Note) /\ balance \in Int /\ root \in Nat
      /\ Total(NoteValues(outputs)) = IF kind = "unshielded" THEN 0 ELSE Total(amounts)
      /\ kind = "shielded" => balance = -Total(amounts)
  BY <1>3, <1>5, <1>6, <1>7
<1> HIDE DEF outputs, balance, root, paid
<1>9. /\ new \in Tx
      /\ new.kind = kind /\ new.amounts = amounts /\ new.inputs = tx[t].inputs
      /\ new.outputs = outputs /\ new.balance = balance
      /\ new.pc = IF kind = "shielded" THEN "built" ELSE "notes"
  BY <1>3, <1>4, <1>8 DEF Tx
<1> HIDE DEF new
<1>10. new.inputs = {} /\ ValueOf(new.inputs) = 0
  BY <1>3, <1>9, ValueOfNone DEF Accounted, ConservesInv
<1>11. kind = "shielded" => Conserved(new)
  BY <1>5, <1>8, <1>9, <1>10 DEF Conserved
<1>12. Accounted(new)
  BY <1>8, <1>9, <1>10, <1>11 DEF Accounted
<1> QED
  BY <1>2, <1>9, <1>12, AccountedOne

\* The notes to spend are read: they suffice, or the call fails.
LEMMA ReadNotesConserves ==
    ASSUME ConservesInv, NEW t \in Transactions, ReadNotes(t)
    PROVE  ConservesInv'
<1> DEFINE total == Total(tx[t].amounts)
           inputs == Selected(total)
           poor == ValueOf(inputs) < total
           failed == [tx[t] EXCEPT !.pc = "failed"]
           chosen == [tx[t] EXCEPT !.inputs = inputs, !.pc = "tree"]
<1>1. /\ Becomes(t, IF poor THEN failed ELSE chosen)
      /\ notes' = notes /\ nullified' = nullified /\ others' = others
  BY DEF ReadNotes
<1>2. tx[t] \in Tx /\ Accounted(tx[t]) /\ tx[t].pc = "notes" /\ notes \in Seq(Note)
  BY DEF ConservesInv, SaplingTypeOK, ReadNotes
<1>3. inputs \subseteq DOMAIN notes /\ inputs \subseteq Nat
  BY <1>2 DEF Selected, Unspent
<1>4. ValueOf(inputs) \in Nat /\ total \in Nat
  <2>1. tx[t].amounts \in Seq(0..MaxAmount)
    BY <1>2 DEF Tx
  <2> HIDE DEF inputs
  <2> QED
    BY <1>3, <2>1, ValueOfType, TotalType DEF ConservesInv
<1> HIDE DEF inputs, total
<1>5. CASE poor
  <2>1. /\ failed \in Tx /\ failed.pc = "failed" /\ failed.inputs = tx[t].inputs
    BY <1>2 DEF Tx
  <2>2. Accounted(failed)
    BY <1>2, <2>1 DEF Accounted
  <2> QED
    BY <1>1, <1>5, <2>1, <2>2, AccountedOne
<1>6. CASE ~poor
  <2>1. /\ chosen \in Tx /\ chosen.pc = "tree" /\ chosen.inputs = inputs
        /\ chosen.kind = tx[t].kind /\ chosen.amounts = tx[t].amounts
        /\ chosen.outputs = tx[t].outputs
    BY <1>2, <1>3 DEF Tx
  <2>2. ValueOf(inputs) >= Total(tx[t].amounts)
    BY <1>4, <1>6 DEF total
  <2> HIDE DEF chosen
  <2>3. Accounted(chosen)
    BY <1>2, <1>3, <2>1, <2>2 DEF Accounted
  <2> QED
    BY <1>1, <1>6, <2>1, <2>3, AccountedOne
<1> QED
  BY <1>5, <1>6

\* The tree is read and the transaction is built: the change makes up the difference
\* of inputs and amounts, or there is none and the inputs are the outputs.
LEMMA ReadTreeConserves ==
    ASSUME ConservesInv, NEW t \in Transactions, ReadTree(t)
    PROVE  ConservesInv'
<1> DEFINE r == tx[t]
           total == Total(r.amounts)
           value == ValueOf(r.inputs)
           paid == Total(NoteValues(r.outputs))
           change == Change(r.inputs, paid, total)
           outputs == r.outputs \o change
           balance == value - Total(NoteValues(outputs))
           root == Len(notes)
           failed == [r EXCEPT !.pc = "failed"]
           built == [r EXCEPT !.treeRoot = root, !.outputs = outputs,
                              !.balance = balance, !.pc = "built"]
<1>1. /\ Becomes(t, IF notes = <<>> THEN failed ELSE built)
      /\ notes' = notes /\ nullified' = nullified /\ others' = others
  BY DEF ReadTree
<1>2. r \in Tx /\ Accounted(r) /\ r.pc = "tree" /\ notes \in Seq(Note)
  BY DEF ConservesInv, SaplingTypeOK, ReadTree
<1>3. /\ r.outputs \in Seq(Note) /\ r.amounts \in Seq(0..MaxAmount)
      /\ r.inputs \subseteq DOMAIN notes
      /\ r.kind \in {"unshielded", "sapling"}
      /\ paid = IF r.kind = "unshielded" THEN 0 ELSE total
      /\ value >= total
  BY <1>2 DEF Tx, Accounted
<1>4. value \in Nat /\ total \in Nat /\ paid \in Nat
  BY <1>3, ValueOfType, TotalType, ValuesType DEF ConservesInv
<1>5. /\ outputs \in Seq(Note)
      /\ Total(NoteValues(outputs)) = IF r.kind = "unshielded" THEN value - total ELSE value
  <2>1. CASE value > paid
    <3> DEFINE n == [owner |-> "me", value |-> value - total]
    <3>1. change = <<n>>
      BY <2>1 DEF Change
    <3>2. n \in Note /\ n.value = value - total
      BY <1>3, <1>4 DEF Note
    <3> HIDE DEF n, value, total, paid, change
    <3>3. outputs \in Seq(Note) /\ Total(NoteValues(outputs)) = paid + (value - total)
      BY <1>3, <3>1, <3>2, TotalOfAppended DEF paid
    <3> QED
      BY <1>3, <1>4, <3>3
  <2>2. CASE ~(value > paid)
    <3>1. change = <<>>
      BY <2>2 DEF Change
    <3> HIDE DEF change
    <3>2. outputs = r.outputs
      BY <1>3, <3>1
    <3> HIDE DEF outputs, value, total, r
    <3>3. value <= paid
      BY <1>4, <2>2
    <3> HIDE DEF paid
    <3>4. paid = IF r.kind = "unshielded" THEN value - total ELSE value
      BY <1>3, <1>4, <3>3
    <3> QED
      BY <1>3, <3>2, <3>4 DEF paid
  <2> QED
    BY <2>1, <2>2
<1> HIDE DEF outputs, change, value, total, paid
<1>6. /\ balance \in Int /\ root \in Nat
      /\ value = balance + Total(NoteValues(outputs))
      /\ balance = IF r.kind = "unshielded" THEN total ELSE 0
  <2> DEFINE T == Total(NoteValues(outputs))
  <2>1. T = IF r.kind = "unshielded" THEN value - total ELSE value
    BY <1>5
  <2>2. root \in Nat
    BY <1>2
  <2>3. balance = value - T
    OBVIOUS
  <2> HIDE DEF T, balance, r
  <2>4. balance \in Int /\ value = balance + T
        /\ balance = IF r.kind = "unshielded" THEN total ELSE 0
    BY <1>4, <2>1, <2>3
  <2> QED
    BY <2>2, <2>4 DEF T
<1> HIDE DEF balance, root
<1>7. CASE notes = <<>>
  <2>1. /\ failed \in Tx /\ failed.pc = "failed" /\ failed.inputs = r.inputs
    BY <1>2 DEF Tx
  <2>2. Accounted(failed)
    BY <1>3, <2>1 DEF Accounted
  <2> QED
    BY <1>1, <1>7, <2>1, <2>2, AccountedOne
<1>8. CASE notes # <<>>
  <2>1. /\ built \in Tx /\ built.pc = "built" /\ built.inputs = r.inputs
        /\ built.kind = r.kind /\ built.amounts = r.amounts
        /\ built.outputs = outputs /\ built.balance = balance
    BY <1>2, <1>5, <1>6 DEF Tx
  <2> HIDE DEF built
  <2>2. /\ ValueOf(built.inputs) = built.balance + Total(NoteValues(built.outputs))
        /\ built.balance = IF built.kind = "unshielded" THEN Total(built.amounts) ELSE 0
        /\ built.kind \in {"unshielded", "sapling"}
    BY <1>3, <1>6, <2>1 DEF value, total
  <2>3. Conserved(built)
    BY <2>2 DEF Conserved
  <2>4. Accounted(built)
    BY <1>3, <2>1, <2>3 DEF Accounted
  <2> QED
    BY <1>1, <1>8, <2>1, <2>4, AccountedOne
<1> QED
  BY <1>7, <1>8

\* The invariant holds at the start and every step keeps it.
LEMMA ConservesInvariant == SaplingSpec => []ConservesInv
<1>1. SaplingInit => ConservesInv
  <2> SUFFICES ASSUME SaplingInit
               PROVE  ConservesInv
    OBVIOUS
  <2>1. SaplingTypeOK
    BY SaplingAssumption DEF SaplingInit, SaplingTypeOK, Tx
  <2>2. \A t \in Transactions : tx[t].pc = "idle" /\ tx[t].inputs = {}
    BY DEF SaplingInit
  <2> QED
    BY <2>1, <2>2 DEF ConservesInv, Accounted
<1>2. ConservesInv /\ [SaplingNext]_saplingVars => ConservesInv'
  <2> SUFFICES ASSUME ConservesInv, [SaplingNext]_saplingVars
               PROVE  ConservesInv'
    OBVIOUS
  <2>1. CASE SaplingNext
    BY <2>1, OthersAddConserves, SubmittedConserves, ReadRootConserves,
       ReadNotesConserves, ReadTreeConserves DEF SaplingNext
  <2>2. CASE UNCHANGED saplingVars
    BY <2>2 DEF saplingVars, ConservesInv, SaplingTypeOK, Accounted, Conserved, ValueOf
  <2> QED
    BY <2>1, <2>2
<1> QED
  BY <1>1, <1>2, PTL DEF SaplingSpec

\* Types of the pool and of the calls.
THEOREM SaplingTypeCorrect == SaplingSpec => []SaplingTypeOK
  BY ConservesInvariant, PTL DEF ConservesInv

\* createSaplingTx neither makes nor loses tokens: the inputs of every transaction are its
\* outputs, the change and its balance, whatever happens to the pool between the reads.
THEOREM TokensAreConserved == SaplingSpec => []ConservesValue
<1>1. ConservesInv => ConservesValue
  BY DEF ConservesInv, Accounted, Conserved, ConservesValue
<1> QED
  BY <1>1, ConservesInvariant, PTL

-----------------------------------------------------------------------------
(* Estimates *)

\* Rounding up a fraction of whole numbers gives no less than it.
LEMMA CeilDivIsAbove ==
    ASSUME NEW a \in Nat
    PROVE  /\ CeilDiv(a, 1000) \in Nat /\ 1000 * CeilDiv(a, 1000) >= a
           /\ 1000 * CeilDiv(a, 1000) < a + 1000
           /\ CeilDiv(a, 10000) \in Nat /\ 10000 * CeilDiv(a, 10000) >= a
  BY SMT DEF CeilDiv

\* A batch's share of the block, once for each of its operations and once more.
LEMMA SharesFit ==
    ASSUME NEW block \in Nat, NEW n \in Nat
    PROVE  /\ block \div (n + 1) \in Nat
           /\ n * (block \div (n + 1)) + block \div (n + 1) <= block
<1> DEFINE q == block \div (n + 1)
<1>1. q \in Nat /\ (n + 1) * q <= block
  BY SMT
<1>2. (n + 1) * q = n * q + q
  BY <1>1, SMT
<1> QED
  BY <1>1, <1>2

\* If the block has the gas of a reveal for every operation and one more, each share has.
LEMMA ShareIsEnough ==
    ASSUME NEW block \in Nat, NEW n \in Nat, block >= 1100 * (n + 1)
    PROVE  block \div (n + 1) >= 1100
  BY SMT

\* Less gas for each of them fits as well.
LEMMA LessFits ==
    ASSUME NEW n \in Nat, NEW a \in Nat, NEW b \in Nat, a <= b
    PROVE  n * a <= n * b
  BY SMT

\* The types, for all constants.
THEOREM EstimatesTypeCorrect == EstimatesSpec => []EstimatesTypeOK
<1> USE EstimateAssumption
<1>1. EstimatesInit => EstimatesTypeOK
  BY DEF EstimatesInit, EstimatesTypeOK
<1>2. EstimatesTypeOK /\ [EstimatesNext]_estimateVars => EstimatesTypeOK'
  <2> SUFFICES ASSUME EstimatesTypeOK, [EstimatesNext]_estimateVars
               PROVE  EstimatesTypeOK'
    OBVIOUS
  <2>1. ASSUME NEW c \in Content, AddOperation(c)
        PROVE  EstimatesTypeOK'
    <3>1. contents' = Append(contents, c) /\ UNCHANGED <<batched, unrevealed>>
      BY <2>1 DEF AddOperation
    <3>2. contents' \in Seq(Content) /\ Len(contents') = Len(contents) + 1
      BY <3>1 DEF EstimatesTypeOK
    <3>3. Len(contents) < MaxOperations \/ Len(contents) < 1
      BY <2>1 DEF AddOperation
    <3>4. Len(contents) \in Nat
      BY DEF EstimatesTypeOK
    <3> QED
      BY <3>1, <3>2, <3>3, <3>4 DEF EstimatesTypeOK
  <2>2. CASE UNCHANGED estimateVars
    BY <2>2 DEF EstimatesTypeOK, estimateVars
  <2> QED
    BY <2>1, <2>2 DEF EstimatesNext
<1> QED
  BY <1>1, <1>2, PTL DEF EstimatesSpec

\* The defaults of ajustGasForBatchOperation leave room for the reveal, for every batch
\* and every limit of the protocol.
THEOREM DefaultsFit == EstimatesSpec => []DefaultGasFitsBlock
<1>1. EstimatesTypeOK => DefaultGasFitsBlock
  <2> SUFFICES ASSUME EstimatesTypeOK, contents # <<>>,
                      HardGasBlock >= DEFAULT_GAS_REVEAL * (Len(contents) + 1)
               PROVE  Len(contents) * DefaultGas(Len(contents)) + DEFAULT_GAS_REVEAL
                          <= HardGasBlock
    BY DEF DefaultGasFitsBlock
  <2> DEFINE n == Len(contents)
             q == HardGasBlock \div (n + 1)
             g == DefaultGas(n)
  <2>1. n \in Nat /\ n # 0 /\ HardGasBlock \in Nat /\ HardGasOperation \in Nat
    BY EstimateAssumption DEF EstimatesTypeOK
  <2>2. q \in Nat /\ n * q + q <= HardGasBlock
    BY <2>1, SharesFit
  <2>3. q >= 1100
    BY <2>1, ShareIsEnough DEF DEFAULT_GAS_REVEAL
  <2>4. g \in Nat /\ g <= q
    BY <2>1, <2>2 DEF DefaultGas, LowerOf
  <2>5. n * g <= n * q
    BY <2>1, <2>2, <2>4, LessFits
  <2>6. n * g \in Nat /\ n * q \in Nat
    BY <2>1, <2>2, <2>4, SMT
  <2> HIDE DEF n, q, g
  <2>7. n * g + 1100 <= HardGasBlock
    BY <2>1, <2>2, <2>3, <2>5, <2>6, SMT
  <2> QED
    BY <2>7 DEF n, g, DEFAULT_GAS_REVEAL
<1> QED
  BY <1>1, EstimatesTypeCorrect, PTL

\* The suggested fee of one operation pays for its bytes with the signature, for a fee of
\* three bytes more than simulated, and for the gas limit it is sent with, whatever the
\* operation consumes and however long it is.
THEOREM SuggestedFeeOfOne ==
    ASSUME NEW milligas \in Nat, NEW bytes \in Nat
    PROVE  10 * SuggestedFee(milligas, bytes, 1)
               >= 10 * MINIMAL_FEE_MUTEZ + 10 * (bytes + 64 + 3) + GasLimit(milligas)
<1> DEFINE total == 1 * (milligas + 1000 * 100) + 10000 * bytes
<1>1. total \in Nat /\ total = milligas + 100000 + 10000 * bytes
  OBVIOUS
<1>2. CeilDiv(total, 10000) \in Nat /\ 10000 * CeilDiv(total, 10000) >= total
  BY <1>1, CeilDivIsAbove
<1>3. CeilDiv(milligas, 1000) \in Nat /\ 1000 * CeilDiv(milligas, 1000) < milligas + 1000
  BY CeilDivIsAbove
<1>4. SuggestedFee(milligas, bytes, 1) = 200 + CeilDiv(total, 10000)
  BY DEF SuggestedFee, OperationFee, MINIMAL_FEE_MUTEZ, GAS_BUFFER
<1> HIDE DEF total
<1>5. 10 * (200 + CeilDiv(total, 10000))
          >= 1000 + 10 * (bytes + 67) + CeilDiv(milligas, 1000) + 100
  BY <1>1, <1>2, <1>3, SMT
<1> QED
  BY <1>3, <1>4, <1>5 DEF GasLimit, MINIMAL_FEE_MUTEZ, GAS_BUFFER

\* Rounding up a fraction, for every divisor.
LEMMA CeilDivBounds ==
    ASSUME NEW a \in Nat, NEW b \in Nat \ {0}
    PROVE  /\ CeilDiv(a, b) \in Nat
           /\ b * CeilDiv(a, b) >= a
           /\ b * CeilDiv(a, b) < a + b
<1> DEFINE d == a + b - 1
           q == d \div b
<1>1. d \in Nat
  OBVIOUS
<1>2. q \in Nat /\ b * q <= d /\ d < b * q + b
  <2> HIDE DEF d
  <2>1. q \in Nat /\ d = b * q + (d % b) /\ d % b \in 0..(b - 1)
    BY <1>1, SMT
  <2>2. b * q \in Nat
    BY <2>1, SMT
  <2> QED
    BY <1>1, <2>1, <2>2
<1>3. CeilDiv(a, b) = q
  BY DEF CeilDiv
<1> HIDE DEF q
<1>4. b * q \in Nat
  BY <1>2, SMT
<1> QED
  BY <1>2, <1>3, <1>4

\* A positive factor can be cancelled.
LEMMA CancelFactor ==
    ASSUME NEW n \in Nat \ {0}, NEW x \in Int, NEW y \in Int, n * x >= n * y
    PROVE  x >= y
<1> SUFFICES ASSUME x < y
             PROVE  FALSE
  OBVIOUS
<1> DEFINE d == y - x
<1>1. d \in Nat /\ d >= 1 /\ y = x + d
  OBVIOUS
<1> HIDE DEF d
<1>2. n * y = n * x + n * d
  BY <1>1, SMT
<1>3. n * d >= n
  BY <1>1, SMT
<1>4. n * x \in Int /\ n * d \in Int
  BY <1>1, SMT
<1> QED
  BY <1>2, <1>3, <1>4

\* A number takes one to four bytes.
LEMMA WidthType ==
    ASSUME NEW k \in Nat
    PROVE  Width(k) \in 1..4
  BY DEF Width

\* A hundred more takes at most a byte more.
LEMMA WidthGrows ==
    ASSUME NEW a \in Nat, NEW b \in Nat, a <= b + 100
    PROVE  Width(a) <= Width(b) + 1
  BY DEF Width
\* One of n fees pays for the own gas and a share of the bytes, k is its constant part; it
\* pays for less than a mutez more if it is alone.
Pays(fee, milligas, bytes, n, k) ==
    (10000 * n) * (fee - k) >= n * milligas + 10000 * bytes

JustPays(fee, milligas, bytes, k) ==
    10000 * (fee - k) < milligas + 10000 * bytes + 10000

\* What n fees add up to pays for the gas of all and the bytes once.
AllPay(fees, milligas, bytes, n, k) ==
    10000 * (fees - n * k) >= milligas + 10000 * bytes

\* Fees that each pay for the own gas and a share of the bytes pay for all gas and all bytes.
LEMMA SharesAddUp ==
    ASSUME NEW n \in Nat \ {0}, NEW bytes \in Nat, NEW k \in Nat, NEW f, NEW m,
           \A i \in 1..n : f[i] \in Int /\ m[i] \in Nat
               /\ Pays(f[i], m[i], bytes, n, k)
    PROVE  AllPay(SumOver(f, 1..n), SumOver(m, 1..n), bytes, n, k)
<1> DEFINE S == 1..n
           c == 10000 * bytes
           g == [i \in S |-> f[i] - k]
           negative == [i \in S |-> -k]
           u == [i \in S |-> (10000 * n) * g[i]]
           v == [i \in S |-> n * m[i]]
           w == [i \in S |-> c]
           vw == [i \in S |-> v[i] + w[i]]
           F == SumOver(f, S)
           M == SumOver(m, S)
<1>1. IsFiniteSet(S) /\ Cardinality(S) = n /\ c \in Nat /\ 10000 * n \in Int
  BY FS_Interval
<1>2. \A i \in S : /\ f[i] \in Int /\ m[i] \in Int /\ -k \in Int
                   /\ g[i] = f[i] - k /\ g[i] = f[i] + negative[i] /\ g[i] \in Int
                   /\ negative[i] = -k
  OBVIOUS
<1>3. \A i \in S : (10000 * n) * g[i] >= n * m[i] + c
  BY DEF Pays
<1> HIDE DEF c, g, negative
<1>4. \A i \in S : n * m[i] \in Int /\ (10000 * n) * g[i] \in Int
  BY <1>1, <1>2, SMT
<1>5. \A i \in S : /\ u[i] = (10000 * n) * g[i] /\ u[i] \in Int
                   /\ v[i] = n * m[i] /\ v[i] \in Int /\ w[i] = c /\ w[i] \in Int
                   /\ vw[i] = v[i] + w[i] /\ vw[i] \in Int /\ vw[i] <= u[i]
  BY <1>1, <1>3, <1>4
<1> HIDE DEF u, v, w, vw, S
<1>6. SumOver(vw, S) <= SumOver(u, S)
  BY <1>1, <1>5, SumAtMost
<1>7. SumOver(vw, S) = SumOver(v, S) + SumOver(w, S)
  BY <1>1, <1>5, SumOfBoth
<1>8. SumOver(v, S) = n * M
  BY <1>1, <1>2, <1>5, SumTimes
<1>9. SumOver(w, S) = n * c
  BY <1>1, <1>5, SumOfSame
<1>10. SumOver(u, S) = (10000 * n) * SumOver(g, S)
  <2> DEFINE N == 10000 * n
  <2>1. \A i \in S : g[i] \in Int /\ u[i] = N * g[i]
    BY <1>2, <1>5
  <2>2. N \in Int
    BY <1>1
  <2> HIDE DEF N
  <2>3. SumOver(u, S) = N * SumOver(g, S)
    BY <1>1, <2>1, <2>2, SumTimes
  <2> QED
    BY <2>3 DEF N
<1>11. SumOver(g, S) = F + SumOver(negative, S)
  <2>1. \A i \in S : f[i] \in Int /\ negative[i] \in Int /\ g[i] = f[i] + negative[i]
    BY <1>2
  <2> QED
    BY <1>1, <2>1, SumOfBoth
<1>12. SumOver(negative, S) = n * (-k)
  <2> DEFINE j == -k
  <2>1. j \in Int /\ \A i \in S : negative[i] = j
    BY <1>2
  <2> HIDE DEF j
  <2>2. SumOver(negative, S) = n * j
    BY <1>1, <2>1, SumOfSame
  <2> QED
    BY <2>2 DEF j
<1>13. F \in Int /\ M \in Int
  BY <1>1, <1>2, SumType
<1> HIDE DEF F, M
<1> DEFINE d == F - n * k
<1>14. SumOver(g, S) = d /\ d \in Int /\ n * k \in Nat
  <2>1. n * (-k) = -(n * k) /\ n * k \in Nat
    BY SMT
  <2> QED
    BY <1>11, <1>12, <1>13, <2>1
<1> HIDE DEF d
<1>15. n * (10000 * d) >= n * (M + c)
  <2>1. (10000 * n) * d = n * (10000 * d)
    BY <1>14, SMT
  <2>2. n * (M + c) = n * M + n * c
    BY <1>1, <1>13, SMT
  <2> QED
    BY <1>6, <1>7, <1>8, <1>9, <1>10, <1>14, <2>1, <2>2
<1>16. 10000 * d >= M + c
  BY <1>1, <1>13, <1>14, <1>15, CancelFactor
<1> QED
  BY <1>16 DEF AllPay, d, c, F, M, S
\* The inductive invariant: every simulation has succeeded with the limit it was given.
EstimatesInv ==
  /\ EstimatesTypeOK
  /\ \A i \in DOMAIN contents : contents[i].milligas <= 1000 * SimulatedGas(i)

\* What the operations of a batch have, one by one.
MilligasOf == [i \in DOMAIN contents |-> contents[i].milligas]
SentOf == [i \in DOMAIN contents |-> SentGas(i)]
GrownOf(fees) == [i \in DOMAIN contents |-> Width(fees[i]) + Width(SentGas(i))]
SimulatedOf == [i \in DOMAIN contents |-> 1 + Width(SimulatedGas(i))]

\* The number of operations.
LEMMA Batch ==
    ASSUME EstimatesTypeOK, contents # <<>>
    PROVE  /\ Len(contents) \in Nat \ {0} /\ DOMAIN contents = 1..Len(contents)
           /\ IsFiniteSet(DOMAIN contents) /\ Cardinality(DOMAIN contents) = Len(contents)
           /\ \A i \in DOMAIN contents :
                 contents[i].milligas \in Nat /\ contents[i].size \in Nat
                     /\ contents[i].gas \in Nat
<1>1. Len(contents) \in Nat \ {0} /\ DOMAIN contents = 1..Len(contents)
      /\ \A i \in DOMAIN contents : contents[i] \in Content
  BY DEF EstimatesTypeOK
<1>2. \A i \in DOMAIN contents :
         contents[i].milligas \in Nat /\ contents[i].size \in Nat /\ contents[i].gas \in Nat
  BY <1>1, EstimateAssumption DEF Content
<1>3. IsFiniteSet(1..Len(contents)) /\ Cardinality(1..Len(contents)) = Len(contents)
  BY <1>1, FS_Interval
<1> QED
  BY <1>1, <1>2, <1>3

\* The default gas of an operation is a natural number.
LEMMA DefaultGasType ==
    ASSUME NEW n \in Nat
    PROVE  DefaultGas(n) \in Nat
<1>1. HardGasBlock \in Nat /\ HardGasOperation \in Nat
  BY EstimateAssumption
<1>2. HardGasBlock \div (n + 1) \in Nat
  BY <1>1, SharesFit
<1> QED
  BY <1>1, <1>2 DEF DefaultGas, LowerOf

\* The limit an operation is sent with is that of its estimate or less, and at most a byte
\* longer than the one of its simulation.
LEMMA OneOperation ==
    ASSUME EstimatesInv, EstimatedGas, NEW i \in DOMAIN contents
    PROVE  /\ SentGas(i) \in Nat /\ SimulatedGas(i) \in Nat
           /\ 1000 * SentGas(i) <= contents[i].milligas + 100999
           /\ 1000 * SentGas(i) >= contents[i].milligas
           /\ Width(SentGas(i)) <= Width(SimulatedGas(i)) + 1
           /\ Width(SentGas(i)) \in 1..4 /\ Width(SimulatedGas(i)) \in 1..4
<1> DEFINE m == contents[i].milligas
           g == contents[i].gas
           limit == GasLimit(m)
           default == DefaultGas(NumberOfOps)
<1>1. m \in Nat /\ g \in Nat /\ Len(contents) \in Nat /\ g <= limit
  <2>1. contents # <<>>
    BY DEF EstimatesInv, EstimatesTypeOK
  <2> QED
    BY <2>1, Batch DEF EstimatesInv, EstimatedGas
<1>2. default \in Nat
  BY <1>1, DefaultGasType DEF NumberOfOps
<1>3. /\ limit \in Nat /\ 1000 * limit >= m + 100000 /\ 1000 * limit <= m + 100999
  <2> DEFINE c == CeilDiv(m, 1000)
  <2>1. c \in Nat /\ 1000 * c >= m /\ 1000 * c < m + 1000
    <3>1. m \in Nat
      BY <1>1
    <3> HIDE DEF m
    <3> QED
      BY <3>1, CeilDivIsAbove
  <2>2. limit = c + 100
    BY DEF GasLimit, GAS_BUFFER
  <2> HIDE DEF c, limit, m
  <2> QED
    BY <1>1, <2>1, <2>2
<1>4. m <= 1000 * SimulatedGas(i)
  BY DEF EstimatesInv
<1>5. /\ SimulatedGas(i) = IF g # 0 THEN g ELSE default
      /\ SentGas(i) = IF g # 0 THEN g ELSE limit
  BY DEF SimulatedGas, SentGas
<1> HIDE DEF m, g, limit, default
<1>6. SentGas(i) \in Nat /\ SimulatedGas(i) \in Nat
  BY <1>1, <1>2, <1>3, <1>5
<1>7. 1000 * SentGas(i) <= m + 100999 /\ 1000 * SentGas(i) >= m
  BY <1>1, <1>2, <1>3, <1>4, <1>5
<1>8. SentGas(i) <= SimulatedGas(i) + 100
  BY <1>1, <1>2, <1>3, <1>4, <1>5
<1>9. Width(SentGas(i)) <= Width(SimulatedGas(i)) + 1
  BY <1>6, <1>8, WidthGrows
<1> QED
  BY <1>6, <1>7, <1>9, WidthType DEF m

\* What the fee of an operation is beyond its base and its ten for the buffer.
LEMMA FeeIsAbove ==
    ASSUME NEW milligas \in Nat, NEW bytes \in Nat, NEW n \in Nat \ {0}, NEW base \in Nat,
           NEW k \in Nat, k = base + 10
    PROVE  /\ OperationFee(milligas, bytes, n, base) \in Nat
           /\ Pays(OperationFee(milligas, bytes, n, base), milligas, bytes, n, k)
           /\ n = 1 => JustPays(OperationFee(milligas, bytes, n, base), milligas, bytes, k)
<1> DEFINE d == 10000 * n
           a == n * (milligas + 100000) + 10000 * bytes
           c == CeilDiv(a, d)
<1>1. d \in Nat \ {0}
  OBVIOUS
<1>2. n * (milligas + 100000) = n * milligas + n * 100000 /\ n * milligas \in Nat
  BY SMT
<1>3. a \in Nat /\ a = n * milligas + n * 100000 + 10000 * bytes
  BY <1>2
<1>4. OperationFee(milligas, bytes, n, base) = base + c
  BY DEF OperationFee, GAS_BUFFER
<1> HIDE DEF a
<1>5. c \in Nat /\ d * c >= a /\ d * c < a + d
  <2> HIDE DEF d
  <2> QED
    BY <1>1, <1>3, CeilDivBounds
<1> HIDE DEF c
<1>6. d * ((base + c) - (base + 10)) = d * c - d * 10
  <2>1. (base + c) - (base + 10) = c - 10
    BY <1>5
  <2> HIDE DEF d
  <2>2. d * (c - 10) = d * c - d * 10
    BY <1>1, <1>5, SMT
  <2> QED
    BY <2>1, <2>2
<1>7. d * c \in Int /\ d * 10 = n * 100000
  BY <1>1, <1>5, SMT
<1>8. d * ((base + c) - (base + 10)) >= n * milligas + 10000 * bytes
  BY <1>2, <1>3, <1>5, <1>6, <1>7
<1>9. n = 1 => 10000 * ((base + c) - (base + 10)) < milligas + 10000 * bytes + 10000
  <2> SUFFICES ASSUME n = 1
               PROVE  10000 * ((base + c) - (base + 10)) < milligas + 10000 * bytes + 10000
    OBVIOUS
  <2> QED
    BY <1>3, <1>5
<1> QED
  BY <1>4, <1>5, <1>8, <1>9 DEF Pays, JustPays
\* The sums over the operations.
LEMMA BatchSums ==
  ASSUME EstimatesInv, EstimatedGas, contents # <<>>, NEW fees,
         \A i \in DOMAIN contents : fees[i] \in Nat
  PROVE  /\ SumAll(MilligasOf) \in Nat /\ SumAll(SentOf) \in Nat
         /\ SumAll(GrownOf(fees)) \in Nat /\ SumAll(SimulatedOf) \in Nat
         /\ 1000 * SumAll(SentOf) <= SumAll(MilligasOf) + 100999 * Len(contents)
         /\ 1000 * SumAll(SentOf) >= SumAll(MilligasOf)
         /\ SumAll(GrownOf(fees)) <= SumAll(SimulatedOf) + 4 * Len(contents)
         /\ SumAll(SimulatedOf) <= SumAll(GrownOf(fees)) + 3 * Len(contents)
<1> DEFINE S == DOMAIN contents
           n == Len(contents)
           m == MilligasOf
           sent == SentOf
           grown == GrownOf(fees)
           old == SimulatedOf
           scaled == [i \in S |-> 1000 * sent[i]]
           limits == [i \in S |-> m[i] + 100999]
           most == [i \in S |-> old[i] + 4]
           least == [i \in S |-> grown[i] + 3]
<1>1. /\ IsFiniteSet(S) /\ Cardinality(S) = n /\ n \in Nat
      /\ \A i \in S : contents[i].milligas \in Nat
  BY Batch DEF EstimatesInv
<1>2. DOMAIN m = S /\ DOMAIN sent = S /\ DOMAIN grown = S /\ DOMAIN old = S
  BY DEF MilligasOf, SentOf, GrownOf, SimulatedOf
<1>3. \A i \in S :
         /\ m[i] \in Nat /\ sent[i] \in Nat /\ grown[i] \in Nat /\ old[i] \in Nat
         /\ 1000 * sent[i] <= m[i] + 100999 /\ 1000 * sent[i] >= m[i]
         /\ grown[i] <= old[i] + 4 /\ old[i] <= grown[i] + 3
  <2> SUFFICES ASSUME NEW i \in S
               PROVE  /\ m[i] \in Nat /\ sent[i] \in Nat /\ grown[i] \in Nat /\ old[i] \in Nat
                      /\ 1000 * sent[i] <= m[i] + 100999 /\ 1000 * sent[i] >= m[i]
                      /\ grown[i] <= old[i] + 4 /\ old[i] <= grown[i] + 3
    OBVIOUS
  <2>1. /\ m[i] = contents[i].milligas /\ sent[i] = SentGas(i)
        /\ grown[i] = Width(fees[i]) + Width(SentGas(i))
        /\ old[i] = 1 + Width(SimulatedGas(i))
    BY DEF MilligasOf, SentOf, GrownOf, SimulatedOf
  <2>2. Width(fees[i]) \in 1..4
    BY WidthType
  <2>3. /\ SentGas(i) \in Nat
        /\ 1000 * SentGas(i) <= contents[i].milligas + 100999
        /\ 1000 * SentGas(i) >= contents[i].milligas
        /\ Width(SentGas(i)) <= Width(SimulatedGas(i)) + 1
        /\ Width(SentGas(i)) \in 1..4 /\ Width(SimulatedGas(i)) \in 1..4
    BY OneOperation
  <2> DEFINE g == contents[i].milligas
             s == SentGas(i)
             wf == Width(fees[i])
             ws == Width(SentGas(i))
             wo == Width(SimulatedGas(i))
  <2>4. g \in Nat /\ s \in Nat /\ wf \in 1..4 /\ ws \in 1..4 /\ wo \in 1..4
    BY <1>1, <2>2, <2>3
  <2>5. 1000 * s <= g + 100999 /\ 1000 * s >= g /\ ws <= wo + 1
    BY <2>3
  <2>6. m[i] = g /\ sent[i] = s /\ grown[i] = wf + ws /\ old[i] = 1 + wo
    BY <2>1
  <2> HIDE DEF m, sent, grown, old, g, s, wf, ws, wo
  <2> QED
    BY <2>4, <2>5, <2>6
<1> HIDE DEF m, sent, grown, old, S, n
<1>4. /\ \A i \in S : scaled[i] = 1000 * sent[i] /\ scaled[i] \in Int
      /\ \A i \in S : m[i] \in Int /\ limits[i] = m[i] + 100999 /\ limits[i] \in Int
      /\ \A i \in S : old[i] \in Int /\ most[i] = old[i] + 4 /\ most[i] \in Int
      /\ \A i \in S : grown[i] \in Int /\ least[i] = grown[i] + 3 /\ least[i] \in Int
      /\ \A i \in S : scaled[i] <= limits[i] /\ m[i] <= scaled[i]
                     /\ grown[i] <= most[i] /\ old[i] <= least[i]
  BY <1>3
<1> HIDE DEF scaled, limits, most, least
<1>5. /\ SumOver(m, S) \in Nat /\ SumOver(sent, S) \in Nat
      /\ SumOver(grown, S) \in Nat /\ SumOver(old, S) \in Nat
  BY <1>1, <1>3, SumNatural
<1>6. SumOver(scaled, S) = 1000 * SumOver(sent, S)
  <2>1. \A i \in S : sent[i] \in Int /\ scaled[i] = 1000 * sent[i]
    BY <1>3, <1>4
  <2> QED
    BY <1>1, <2>1, SumTimes
<1>7. SumOver(limits, S) = SumOver(m, S) + n * 100999
  <2>1. \A i \in S : m[i] \in Int /\ limits[i] = m[i] + 100999
    BY <1>4
  <2> QED
    BY <1>1, <2>1, SumPlusSame
<1>8. SumOver(most, S) = SumOver(old, S) + n * 4
  <2>1. \A i \in S : old[i] \in Int /\ most[i] = old[i] + 4
    BY <1>4
  <2> QED
    BY <1>1, <2>1, SumPlusSame
<1>9. SumOver(least, S) = SumOver(grown, S) + n * 3
  <2>1. \A i \in S : grown[i] \in Int /\ least[i] = grown[i] + 3
    BY <1>4
  <2> QED
    BY <1>1, <2>1, SumPlusSame
<1>10. /\ SumOver(scaled, S) <= SumOver(limits, S)
       /\ SumOver(m, S) <= SumOver(scaled, S)
       /\ SumOver(grown, S) <= SumOver(most, S)
       /\ SumOver(old, S) <= SumOver(least, S)
  <2>1. /\ \A i \in S : scaled[i] \in Int /\ limits[i] \in Int /\ scaled[i] <= limits[i]
        /\ \A i \in S : m[i] \in Int /\ scaled[i] \in Int /\ m[i] <= scaled[i]
        /\ \A i \in S : grown[i] \in Int /\ most[i] \in Int /\ grown[i] <= most[i]
        /\ \A i \in S : old[i] \in Int /\ least[i] \in Int /\ old[i] <= least[i]
    BY <1>3, <1>4
  <2> QED
    BY <1>1, <2>1, SumAtMost
<1>11. /\ SumAll(m) = SumOver(m, S) /\ SumAll(sent) = SumOver(sent, S)
       /\ SumAll(grown) = SumOver(grown, S) /\ SumAll(old) = SumOver(old, S)
  BY <1>2 DEF SumAll
<1>12. /\ 1000 * SumAll(sent) <= SumAll(m) + 100999 * n
       /\ 1000 * SumAll(sent) >= SumAll(m)
       /\ SumAll(grown) <= SumAll(old) + 4 * n
       /\ SumAll(old) <= SumAll(grown) + 3 * n
  BY <1>1, <1>5, <1>6, <1>7, <1>8, <1>9, <1>10, <1>11
<1> QED
  BY <1>5, <1>11, <1>12 DEF m, sent, grown, old, n
\* The fees of a batch with a base, what they sum up to, and whether they suffice with
\* that of a reveal.
FeesOf(base) ==
  [i \in 1..Len(contents) |->
      OperationFee(contents[i].milligas, OpBytes, Len(contents), base)]

RevealFee(base) == OperationFee(RevealMilligas, OP_SIZE_REVEAL \div 2, 1, base)

Suffice(base) ==
    10 * (SumAll(FeesOf(base)) + IF unrevealed THEN RevealFee(base) ELSE 0)
        >= NodeMinimum(FeesOf(base), RevealFee(base))

\* Both fees are the one fee with different bases.
LEMMA SufficeIs ==
    /\ FeesSuffice(SuggestedFee) <=> Suffice(200)
    /\ FeesSuffice(MinimalFee) <=> Suffice(100)
<1>1. FeesSuffice(SuggestedFee) <=> Suffice(200)
  BY DEF FeesSuffice, SuggestedFee, Suffice, FeesOf, RevealFee, MINIMAL_FEE_MUTEZ
<1>2. FeesSuffice(MinimalFee) <=> Suffice(100)
  BY DEF FeesSuffice, MinimalFee, Suffice, FeesOf, RevealFee, MINIMAL_FEE_MUTEZ
<1> QED
  BY <1>1, <1>2

\* A reveal: its fee, and the gas limit that the node asks to be paid.
LEMMA RevealIs ==
    ASSUME NEW base \in Nat
    PROVE  RevealFee(base) = base + 174 /\ GasLimit(RevealMilligas) = 1100
<1>1. RevealFee(base) = base + 174
  <2>1. CeilDiv(1 * (1000000 + 1000 * 100) + 10000 * (128 \div 2), 10000 * 1) = 174
    BY SMT DEF CeilDiv
  <2> QED
    BY <2>1 DEF RevealFee, OperationFee, RevealMilligas, OP_SIZE_REVEAL, GAS_BUFFER
<1>2. CeilDiv(1000000, 1000) = 1000
  BY SMT DEF CeilDiv
<1>3. GasLimit(RevealMilligas) = 1100
  BY <1>2 DEF GasLimit, RevealMilligas, GAS_BUFFER
<1> QED
  BY <1>1, <1>3

\* The bytes of an operation are a natural number.
LEMMA OpBytesType ==
    ASSUME EstimatesTypeOK, contents # <<>>
    PROVE  OpBytes \in Nat
<1> DEFINE sizes == [i \in DOMAIN contents |-> contents[i].size]
<1>1. IsFiniteSet(DOMAIN contents) /\ \A i \in DOMAIN contents : sizes[i] \in Nat
  BY Batch
<1>2. DOMAIN sizes = DOMAIN contents
  OBVIOUS
<1> HIDE DEF sizes
<1>3. SumAll(sizes) \in Nat
  BY <1>1, <1>2, SumNatural DEF SumAll
<1>4. OpBytes = 32 + SumAll(sizes) + IF unrevealed THEN OP_SIZE_REVEAL \div 2 ELSE 0
  BY DEF OpBytes, sizes
<1>5. OP_SIZE_REVEAL \div 2 = 64
  BY SMT DEF OP_SIZE_REVEAL
<1> QED
  BY <1>3, <1>4, <1>5

\* The fees of a batch pay for its gas and its bytes once, and that of a single operation
\* for less than a mutez more.
Paid(base) ==
    LET fees == SumAll(FeesOf(base))
        n == Len(contents)
    IN  /\ \A i \in DOMAIN contents : FeesOf(base)[i] \in Nat
        /\ fees \in Nat
        /\ AllPay(fees, SumAll(MilligasOf), OpBytes, n, base + 10)
        /\ n = 1 => JustPays(fees, SumAll(MilligasOf), OpBytes, base + 10)

\* This holds for every base.
LEMMA FeesAddUp ==
    ASSUME EstimatesInv, contents # <<>>, NEW base \in Nat
    PROVE  Paid(base)
<1> DEFINE n == Len(contents)
           f == FeesOf(base)
           m == MilligasOf
           bytes == OpBytes
           k == base + 10
<1>0. k \in Nat /\ k = base + 10
  OBVIOUS
<1> HIDE DEF k
<1>1. /\ n \in Nat \ {0} /\ DOMAIN contents = 1..n /\ IsFiniteSet(DOMAIN contents)
      /\ \A i \in DOMAIN contents : contents[i].milligas \in Nat
  BY Batch DEF EstimatesInv
<1>2. bytes \in Nat
  BY OpBytesType DEF EstimatesInv
<1>3. DOMAIN f = 1..n /\ DOMAIN m = 1..n
  BY <1>1 DEF FeesOf, MilligasOf
<1>4. \A i \in 1..n :
         /\ m[i] = contents[i].milligas
         /\ f[i] = OperationFee(contents[i].milligas, bytes, n, base)
  BY <1>1 DEF FeesOf, MilligasOf
<1>5. \A i \in 1..n :
         /\ f[i] \in Nat /\ m[i] \in Nat
         /\ Pays(f[i], m[i], bytes, n, k)
         /\ n = 1 => JustPays(f[i], m[i], bytes, k)
  <2> SUFFICES ASSUME NEW i \in 1..n
               PROVE  /\ f[i] \in Nat /\ m[i] \in Nat
                      /\ Pays(f[i], m[i], bytes, n, k)
                      /\ n = 1 => JustPays(f[i], m[i], bytes, k)
    OBVIOUS
  <2> DEFINE g == contents[i].milligas
  <2>1. g \in Nat /\ m[i] = g /\ f[i] = OperationFee(g, bytes, n, base)
    BY <1>1, <1>4
  <2> HIDE DEF g, f, m, n, bytes
  <2> QED
    <3> DEFINE fee == OperationFee(g, bytes, n, base)
    <3>1. fee \in Nat /\ Pays(fee, g, bytes, n, k) /\ (n = 1 => JustPays(fee, g, bytes, k))
      BY <1>0, <1>1, <1>2, <2>1, FeeIsAbove, Zenon
    <3>2. f[i] = fee /\ m[i] = g
      BY <2>1
    <3> HIDE DEF fee
    <3> QED
      BY <2>1, <3>1, <3>2
<1> HIDE DEF n, f, m, bytes
<1>6. AllPay(SumOver(f, 1..n), SumOver(m, 1..n), bytes, n, k)
  <2>1. \A i \in 1..n : f[i] \in Int /\ m[i] \in Nat /\ Pays(f[i], m[i], bytes, n, k)
    BY <1>5
  <2>2. n \in Nat \ {0}
    BY <1>1
  <2> QED
    BY <1>0, <1>2, <2>1, <2>2, SharesAddUp, Zenon
<1>7. SumAll(f) = SumOver(f, 1..n) /\ SumAll(m) = SumOver(m, 1..n) /\ SumAll(f) \in Nat
  BY <1>1, <1>3, <1>5, SumNatural DEF SumAll
<1>8. n = 1 => JustPays(SumAll(f), SumAll(m), bytes, k)
  <2> SUFFICES ASSUME n = 1
               PROVE  JustPays(SumAll(f), SumAll(m), bytes, k)
    OBVIOUS
  <2>1. 1..n = {1} /\ f[1] \in Int /\ m[1] \in Int
    BY <1>5
  <2>2. SumAll(f) = f[1] /\ SumAll(m) = m[1]
    BY <1>7, <2>1, SumOfOne
  <2> QED
    BY <1>5, <2>1, <2>2
<1> QED
  BY <1>0, <1>1, <1>5, <1>6, <1>7, <1>8 DEF Paid, n, f, m, bytes

\* For both bases the fees are natural numbers.
LEMMA FeesAreNat ==
    ASSUME EstimatesInv, contents # <<>>, NEW base \in {100, 200}
    PROVE  \A i \in DOMAIN contents : FeesOf(base)[i] \in Nat
<1>1. base \in Nat
  OBVIOUS
<1> QED
  BY <1>1, FeesAddUp DEF Paid

\* The gas and the growth of n operations stay near what was simulated.
SumsWithin(n, M, G, grown, old) ==
    /\ 1000 * G <= M + 100999 * n /\ 1000 * G >= M
    /\ grown <= old + 4 * n /\ old <= grown + 3 * n

\* The fees of a base, with that of a reveal, are what the node asks for.
Enough(fees, bytes, grown, old, gas, base, reveal) ==
    10 * (fees + IF reveal THEN base + 174 ELSE 0)
        >= 1000 + 10 * (bytes + grown - old + 64) + gas + IF reveal THEN 1100 ELSE 0

\* What the node asks for, with the fees of a base.
LEMMA MinimumIs ==
    ASSUME EstimatesInv, EstimatedGas, contents # <<>>, NEW base \in {100, 200}
    PROVE  Suffice(base) <=>
              Enough(SumAll(FeesOf(base)), OpBytes, SumAll(GrownOf(FeesOf(base))),
                     SumAll(SimulatedOf), SumAll(SentOf), base, unrevealed)
<1> DEFINE bytes == OpBytes
           grown == SumAll(GrownOf(FeesOf(base)))
           old == SumAll(SimulatedOf)
           G == SumAll(SentOf)
           W == IF unrevealed THEN Width(RevealFee(base)) - Width(374) ELSE 0
           R == IF unrevealed THEN GasLimit(RevealMilligas) ELSE 0
           minimum == NodeMinimum(FeesOf(base), RevealFee(base))
<1>1. RevealFee(base) = base + 174 /\ GasLimit(RevealMilligas) = 1100
  BY RevealIs
<1>2. W = 0 /\ R = IF unrevealed THEN 1100 ELSE 0
  BY <1>1 DEF Width
<1>3. minimum = 10 * MINIMAL_FEE_MUTEZ + 10 * (bytes + grown + W - old + 64) + (G + R)
  BY DEF NodeMinimum, GrownOf, SimulatedOf, SentOf
<1>4. grown \in Nat /\ old \in Nat /\ G \in Nat /\ bytes \in Nat
  <2>1. \A i \in DOMAIN contents : FeesOf(base)[i] \in Nat
    BY FeesAreNat
  <2>2. OpBytes \in Nat
    BY OpBytesType DEF EstimatesInv
  <2> HIDE DEF EstimatesInv
  <2> QED
    BY <2>1, <2>2, BatchSums
<1> HIDE DEF bytes, grown, old, G, W, R, minimum
<1>5. minimum = 1000 + 10 * (bytes + grown - old + 64) + G + IF unrevealed THEN 1100 ELSE 0
  BY <1>2, <1>3, <1>4 DEF MINIMAL_FEE_MUTEZ
<1> QED
  BY <1>1, <1>5 DEF Suffice, Enough, bytes, grown, old, G, minimum

\* The bounds together: two fees pay for the bytes that the simulation did not see, and
\* so do the fee of a reveal and one with the second base, but not one of the minimal fees.
LEMMA CoverMinimum ==
    ASSUME EstimatesInv, EstimatedGas, contents # <<>>
    PROVE  Suffice(200) /\ (Suffice(100) <=> Len(contents) > 1 \/ unrevealed)
<1>1. ASSUME NEW base \in {100, 200}
      PROVE  Suffice(base) <=> base = 200 \/ Len(contents) > 1 \/ unrevealed
  <2> DEFINE n == Len(contents)
             M == SumAll(MilligasOf)
             G == SumAll(SentOf)
             grown == SumAll(GrownOf(FeesOf(base)))
             old == SumAll(SimulatedOf)
             fees == SumAll(FeesOf(base))
             bytes == OpBytes
             k == base + 10
  <2>1. n \in Nat \ {0} /\ bytes \in Nat /\ unrevealed \in BOOLEAN
    BY Batch, OpBytesType DEF EstimatesInv, EstimatesTypeOK
  <2>2. \A i \in DOMAIN contents : FeesOf(base)[i] \in Nat
    BY FeesAreNat
  <2>3. /\ M \in Nat /\ G \in Nat /\ grown \in Nat /\ old \in Nat
        /\ SumsWithin(n, M, G, grown, old)
    BY <2>2, BatchSums DEF SumsWithin
  <2>4. /\ fees \in Nat
        /\ AllPay(fees, M, bytes, n, k)
        /\ n = 1 => JustPays(fees, M, bytes, k)
        /\ k \in Nat /\ k = base + 10
    <3>1. base \in Nat /\ k \in Nat /\ k = base + 10
      OBVIOUS
    <3>2. Paid(base)
      BY <3>1, FeesAddUp
    <3> QED
      BY <3>1, <3>2 DEF Paid
  <2>5. Suffice(base) <=> Enough(fees, bytes, grown, old, G, base, unrevealed)
    BY MinimumIs
  <2> HIDE DEF n, M, G, grown, old, fees, bytes, k
  <2>6. Enough(fees, bytes, grown, old, G, base, unrevealed)
            <=> base = 200 \/ n > 1 \/ unrevealed
    <3> DEFINE more == 10 * (bytes + grown - old + 64) + G
    <3>1. /\ 1000 * G <= M + 100999 * n /\ 1000 * G >= M
          /\ grown <= old + 4 * n /\ old <= grown + 3 * n
      BY <2>3 DEF SumsWithin
    <3>2. CASE base = 200
      <4>1. 10000 * (fees - n * 210) >= M + 10000 * bytes
        BY <2>4, <3>2 DEF AllPay
      <4>2. 10 * fees >= 1000 + more
        BY <2>1, <2>3, <2>4, <3>1, <4>1, SMTT(30)
      <4> QED
        BY <2>1, <2>3, <2>4, <3>2, <4>2 DEF Enough
    <3>3. CASE base = 100
      <4>1. 10000 * (fees - n * 110) >= M + 10000 * bytes
        BY <2>4, <3>3 DEF AllPay
      <4>2. n > 1 => 10 * fees >= 1000 + more
        BY <2>1, <2>3, <2>4, <3>1, <4>1, SMTT(30)
      <4>3. 10 * (fees + 274) >= 1000 + more + 1100
        BY <2>1, <2>3, <2>4, <3>1, <4>1, SMTT(30)
      <4>4. n = 1 => ~(10 * fees >= 1000 + more)
        <5>1. n = 1 => 10000 * (fees - 110) < M + 10000 * bytes + 10000
          BY <2>4, <3>3 DEF JustPays
        <5> QED
          BY <2>1, <2>3, <2>4, <3>1, <5>1, SMTT(30)
      <4> QED
        BY <2>1, <2>3, <2>4, <3>3, <4>2, <4>3, <4>4 DEF Enough
    <3> QED
      BY <3>2, <3>3
  <2> QED
    BY <2>5, <2>6 DEF n
<1> QED
  BY <1>1

\* The simulations succeed: the invariant holds at the start and every step keeps it.
LEMMA EstimatesInvariant == EstimatesSpec => []EstimatesInv
<1>1. EstimatesInit => EstimatesInv
  BY EstimateAssumption DEF EstimatesInit, EstimatesTypeOK, EstimatesInv
<1>2. EstimatesTypeOK' /\ EstimatesInv /\ [EstimatesNext]_estimateVars => EstimatesInv'
  <2> SUFFICES ASSUME EstimatesTypeOK', EstimatesInv, [EstimatesNext]_estimateVars
               PROVE  EstimatesInv'
    OBVIOUS
  <2>1. ASSUME NEW c \in Content, AddOperation(c)
        PROVE  EstimatesInv'
    BY <2>1 DEF AddOperation, EstimatesInv, SimulatedGas, NumberOfOps
  <2>2. CASE UNCHANGED estimateVars
    BY <2>2 DEF estimateVars, EstimatesInv, EstimatesTypeOK, SimulatedGas, NumberOfOps
  <2> QED
    BY <2>1, <2>2 DEF EstimatesNext
<1> QED
  BY <1>1, <1>2, EstimatesTypeCorrect, PTL DEF EstimatesSpec

\* The suggested fees of every batch cover what the node asks for, and the minimal fees do
\* if there are two of them, with the reveal, for all sizes, gas and limits.
THEOREM FeesSufficeForAll == EstimatesSpec => []FeesCoverMinimum
<1>1. EstimatesInv => FeesCoverMinimum
  BY CoverMinimum, SufficeIs DEF FeesCoverMinimum
<1> QED
  BY <1>1, EstimatesInvariant, PTL

\* The minimal fee of a single operation of a revealed account never covers it, whatever
\* its size, gas and limit.
THEOREM MinimalFeeFallsShort ==
    EstimatesSpec =>
        [](Len(contents) = 1 /\ ~unrevealed /\ EstimatedGas => ~FeesSuffice(MinimalFee))
<1>1. EstimatesInv => (Len(contents) = 1 /\ ~unrevealed /\ EstimatedGas
                         => ~FeesSuffice(MinimalFee))
  <2> SUFFICES ASSUME EstimatesInv, Len(contents) = 1, ~unrevealed, EstimatedGas
               PROVE  ~FeesSuffice(MinimalFee)
    OBVIOUS
  <2>1. contents # <<>> /\ ~(Len(contents) > 1)
    OBVIOUS
  <2> QED
    BY <2>1, CoverMinimum, SufficeIs
<1> QED
  BY <1>1, EstimatesInvariant, PTL

-----------------------------------------------------------------------------
(* SaplingTree *)

\* The hashes of empty subtrees, each from the one below.  Here and below, that a recursive
\* definition is met: there is a function that meets it up to n, for more and more n.
LEMMA UncommittedIs ==
    \A height \in 0..Height :
        Uncommitted[height] =
            IF height = 0 THEN <<"uncommitted">>
            ELSE MerkleHash(height - 1, Uncommitted[height - 1], Uncommitted[height - 1])
  <1> DEFINE Is(g, n) ==
               g = [height \in 0..n |-> IF height = 0 THEN <<"uncommitted">>
                                        ELSE MerkleHash(height - 1, g[height - 1], g[height - 1])]
             Good == {n \in Nat : \E g : Is(g, n)}
  <1>1. 0 \in Good
    <2>1. Is([height \in 0..0 |-> <<"uncommitted">>], 0)
      OBVIOUS
    <2> QED
      BY <2>1
  <1>2. ASSUME NEW n \in Nat, n \in Good
        PROVE  n + 1 \in Good
    <2>1. PICK g : Is(g, n)
      BY <1>2
    <2> DEFINE h == [height \in 0..(n + 1) |-> IF height = n + 1 THEN MerkleHash(n, g[n], g[n])
                                               ELSE g[height]]
    <2>2. Is(h, n + 1)
      BY <2>1
    <2> HIDE DEF Is
    <2> QED
      BY <2>2
  <1>3. Nat \subseteq Good
    <2> HIDE DEF Good
    <2> QED
      BY <1>1, <1>2, AllNaturals
  <1>4. PICK g : Is(g, Height)
    BY <1>3, TreeAssumption
  <1>5. Is(Uncommitted, Height)
    BY <1>4 DEF Uncommitted
  <1> QED
    BY <1>5, Zenon

\* Each row from the one below.
LEMMA RowIs ==
    \A height \in 0..Height :
        Row[height] = IF height = 0 THEN Commitments
                      ELSE Parents(Row[height - 1], height - 1)
  <1> DEFINE Is(g, n) == g = [height \in 0..n |-> IF height = 0 THEN Commitments
                                                  ELSE Parents(g[height - 1], height - 1)]
             Good == {n \in Nat : \E g : Is(g, n)}
  <1>1. 0 \in Good
    <2>1. Is([height \in 0..0 |-> Commitments], 0)
      OBVIOUS
    <2> QED
      BY <2>1
  <1>2. ASSUME NEW n \in Nat, n \in Good
        PROVE  n + 1 \in Good
    <2>1. PICK g : Is(g, n)
      BY <1>2
    <2> DEFINE h == [height \in 0..(n + 1) |-> IF height = n + 1 THEN Parents(g[n], n)
                                               ELSE g[height]]
    <2>2. Is(h, n + 1)
      BY <2>1
    <2> HIDE DEF Is
    <2> QED
      BY <2>2
  <1>3. Nat \subseteq Good
    <2> HIDE DEF Good
    <2> QED
      BY <1>1, <1>2, AllNaturals
  <1>4. PICK g : Is(g, Height)
    BY <1>3, TreeAssumption
  <1>5. Is(Row, Height)
    BY <1>4 DEF Row
  <1> QED
    BY <1>5, Zenon

\* The hashes of the whole tree, each row from the one below.
LEMMA HashesIs ==
    \A height \in 0..Height :
        Hashes[height] =
            IF height = 0 THEN LeafHashes ELSE HashesAbove(Hashes[height - 1], height)
  <1> DEFINE Is(g, n) == g = [height \in 0..n |-> IF height = 0 THEN LeafHashes
                                                  ELSE HashesAbove(g[height - 1], height)]
             Good == {n \in Nat : \E g : Is(g, n)}
  <1>1. 0 \in Good
    <2>1. Is([height \in 0..0 |-> LeafHashes], 0)
      OBVIOUS
    <2> QED
      BY <2>1
  <1>2. ASSUME NEW n \in Nat, n \in Good
        PROVE  n + 1 \in Good
    <2>1. PICK g : Is(g, n)
      BY <1>2
    <2> DEFINE h == [height \in 0..(n + 1) |-> IF height = n + 1 THEN HashesAbove(g[n], n + 1)
                                               ELSE g[height]]
    <2>2. Is(h, n + 1)
      BY <2>1
    <2> HIDE DEF Is
    <2> QED
      BY <2>2
  <1>3. Nat \subseteq Good
    <2> HIDE DEF Good
    <2> QED
      BY <1>1, <1>2, AllNaturals
  <1>4. PICK g : Is(g, Height)
    BY <1>3, TreeAssumption
  <1>5. Is(Hashes, Height)
    BY <1>4 DEF Hashes
  <1> QED
    BY <1>5, Zenon

\* The call behind one that is made as the one of that depth.
Deeper(call, depth) == Descended(call, Height - depth + 1)

\* Each call of getNeighbouringHashes from the one that makes it.
LEMMA DescentIs ==
    ASSUME NEW position, NEW tree
    PROVE  LET call == Descent(position, tree)
           IN  /\ call[0] = [position |-> position, tree |-> tree, acc |-> <<>>]
               /\ \A n \in Nat : n < Height => call[n + 1] = Deeper(call[n], n + 1)
  <1> DEFINE First == [position |-> position, tree |-> tree, acc |-> <<>>]
             Is(g, n) == g = [depth \in 0..n |->
                                 IF depth = 0 THEN First
                                 ELSE Deeper(g[depth - 1], depth)]
             Good == {n \in Nat : \E g : Is(g, n)}
  <1>1. 0 \in Good
    <2> HIDE DEF First
    <2>1. Is([depth \in 0..0 |-> First], 0)
      OBVIOUS
    <2> QED
      BY <2>1
  <1>2. ASSUME NEW n \in Nat, n \in Good
        PROVE  n + 1 \in Good
    <2> HIDE DEF First
    <2>1. PICK g : Is(g, n)
      BY <1>2
    <2> DEFINE h == [depth \in 0..(n + 1) |->
                        IF depth = n + 1 THEN Deeper(g[n], n + 1) ELSE g[depth]]
    <2>2. Is(h, n + 1)
      BY <2>1
    <2> HIDE DEF Is
    <2> QED
      BY <2>2
  <1>3. Nat \subseteq Good
    <2> HIDE DEF Good
    <2> QED
      BY <1>1, <1>2, AllNaturals
  <1>4. PICK g : Is(g, Height)
    BY <1>3, TreeAssumption
  <1>5. Is(Descent(position, tree), Height)
    BY <1>4 DEF Descent, Deeper
  <1> HIDE DEF First
  <1> DEFINE call == Descent(position, tree)
  <1>6. \A depth \in 0..Height :
            call[depth] = IF depth = 0 THEN First ELSE Deeper(call[depth - 1], depth)
    BY <1>5, Zenon
  <1> HIDE DEF call
  <1>7. call[0] = First /\ \A n \in Nat : n < Height => call[n + 1] = Deeper(call[n], n + 1)
    BY <1>6, TreeAssumption
  <1> QED
    BY <1>7 DEF call, First

\* The hash that a bit of the position and a sibling lead to.
Upward(position, path, below, height) ==
    IF (position \div TwoTo[height - 1]) % 2 = 0
    THEN MerkleHash(height - 1, below, path[height])
    ELSE MerkleHash(height - 1, path[height], below)

\* Each hash on the way up from the one below.
LEMMA UpwardsIs ==
    ASSUME NEW position, NEW path
    PROVE  LET up == Upwards(position, path)
           IN  /\ up[0] = Leaf(position + 1)[2]
               /\ \A n \in Nat : n < Height => up[n + 1] = Upward(position, path, up[n], n + 1)
  <1> DEFINE First == Leaf(position + 1)[2]
             Is(g, n) == g = [height \in 0..n |->
                                 IF height = 0 THEN First
                                 ELSE Upward(position, path, g[height - 1], height)]
             Good == {n \in Nat : \E g : Is(g, n)}
  <1>1. 0 \in Good
    <2> HIDE DEF First
    <2>1. Is([height \in 0..0 |-> First], 0)
      OBVIOUS
    <2> QED
      BY <2>1
  <1>2. ASSUME NEW n \in Nat, n \in Good
        PROVE  n + 1 \in Good
    <2> HIDE DEF First
    <2>1. PICK g : Is(g, n)
      BY <1>2
    <2> DEFINE h == [height \in 0..(n + 1) |->
                        IF height = n + 1 THEN Upward(position, path, g[n], n + 1) ELSE g[height]]
    <2>2. Is(h, n + 1)
      BY <2>1
    <2> HIDE DEF Is
    <2> QED
      BY <2>2
  <1>3. Nat \subseteq Good
    <2> HIDE DEF Good
    <2> QED
      BY <1>1, <1>2, AllNaturals
  <1>4. PICK g : Is(g, Height)
    BY <1>3, TreeAssumption
  <1>5. Is(Upwards(position, path), Height)
    BY <1>4 DEF Upwards, Upward
  <1> HIDE DEF First
  <1> DEFINE up == Upwards(position, path)
  <1>6. \A height \in 0..Height :
            up[height] = IF height = 0 THEN First ELSE Upward(position, path, up[height - 1], height)
    BY <1>5, Zenon
  <1> HIDE DEF up
  <1>7. /\ up[0] = First
        /\ \A n \in Nat : n < Height => up[n + 1] = Upward(position, path, up[n], n + 1)
    BY <1>6, TreeAssumption
  <1> QED
    BY <1>7 DEF up, First

\* The powers are positive, and double.
LEMMA TwoToType ==
    /\ TwoTo[0] = 1
    /\ \A h \in 0..Height : TwoTo[h] \in Nat \ {0}
    /\ \A h \in 1..Height : TwoTo[h] = 2 * TwoTo[h - 1]
  <1>1. \A h \in 1..Height : h - 1 \in Nat /\ (h - 1) + 1 = h
    BY TreeAssumption
  <1> QED
    BY <1>1, PowersOfTwo, TreeAssumption

\* A function on 1..n is a sequence of that length.
IsRow(f, n) == f = [i \in 1..n |-> f[i]]

LEMMA RowLength ==
    ASSUME NEW n \in Nat, NEW f, IsRow(f, n)
    PROVE  Len(f) = n
  <1>1. f \in Seq({f[i] : i \in 1..n})
    BY DEF IsRow
  <1> QED
    BY <1>1 DEF IsRow

\* The children of the node i of the row above.
LeftOf(leaves, i) == leaves[2 * i - 1]
RightOf(leaves, i) == IF 2 * i <= Len(leaves) THEN leaves[2 * i] ELSE NoTree

HashOfBoth(leaves, i, height) ==
    MerkleHash(height, GetMerkleHash(LeftOf(leaves, i), height),
               GetMerkleHash(RightOf(leaves, i), height))

\* A row is a sequence, and the row above it pairs its nodes.
LEMMA ParentsAre ==
    ASSUME NEW leaves, NEW height, NEW m \in Nat, m = (Len(leaves) + 1) \div 2
    PROVE  /\ Len(Parents(leaves, height)) = m
           /\ IsRow(Parents(leaves, height), m)
           /\ \A i \in 1..m :
                 Parents(leaves, height)[i] =
                     Node(LeftOf(leaves, i), RightOf(leaves, i), HashOfBoth(leaves, i, height))
  <1> DEFINE p == Parents(leaves, height)
  <1>2. DOMAIN PairNodes(leaves) = 1..m
    BY DEF PairNodes
  <1>3. IsRow(p, m)
    BY <1>2 DEF Parents, IsRow
  <1>4. Len(p) = m
    BY <1>3, RowLength
  <1>5. \A i \in 1..m : PairNodes(leaves)[i] = <<LeftOf(leaves, i), RightOf(leaves, i)>>
    BY DEF PairNodes, LeftOf, RightOf
  <1> QED
    BY <1>2, <1>3, <1>4, <1>5 DEF Parents, HashOfBoth

\* The nodes of a row have the hashes of the pool, and what is missing from it is empty.
RowFits(h) ==
    LET n == Len(Row[h])
    IN  /\ n \in Nat /\ n <= TwoTo[Height - h]
        /\ IsRow(Row[h], n)
        /\ \A i \in 1..n : Row[h][i] # NoTree /\ Row[h][i][2] = Hashes[h][i]
        /\ \A i \in (n + 1)..TwoTo[Height - h] : Hashes[h][i] = Uncommitted[h]

\* What getMerkleHash gives of the children of a node.
LEMMA ChildHashes ==
    ASSUME NEW h, RowFits(h), NEW most \in Nat, most = TwoTo[Height - h],
           NEW i \in Nat, 2 * i - 1 \in 1..Len(Row[h]), 2 * i <= most
    PROVE  /\ GetMerkleHash(LeftOf(Row[h], i), h) = Hashes[h][2 * i - 1]
           /\ GetMerkleHash(RightOf(Row[h], i), h) = Hashes[h][2 * i]
  <1>1. Len(Row[h]) \in Nat /\ 2 * i \in Nat
    BY DEF RowFits
  <1>2. GetMerkleHash(LeftOf(Row[h], i), h) = Hashes[h][2 * i - 1]
    BY DEF RowFits, GetMerkleHash, LeftOf
  <1>3. CASE 2 * i <= Len(Row[h])
    <2>1. 2 * i \in 1..Len(Row[h])
      BY <1>1, <1>3
    <2> QED
      BY <1>2, <1>3, <2>1 DEF RowFits, GetMerkleHash, RightOf
  <1>4. CASE ~(2 * i <= Len(Row[h]))
    <2>1. 2 * i \in (Len(Row[h]) + 1)..most
      BY <1>1, <1>4
    <2> QED
      BY <1>2, <1>4, <2>1 DEF RowFits, GetMerkleHash, RightOf
  <1> QED
    BY <1>3, <1>4

\* The first row are the commitments.
LEMMA FirstRowFits ==
    ASSUME TreeTypeOK
    PROVE  RowFits(0) /\ Len(Row[0]) = size
  <1>1. size \in Nat /\ size <= TwoTo[Height]
    BY TwoToType, TreeAssumption DEF TreeTypeOK
  <1>2. Row[0] = [i \in 1..size |-> Leaf(i)]
    BY RowIs, TreeAssumption DEF Commitments
  <1>3. IsRow(Row[0], size)
    BY <1>2 DEF IsRow
  <1>4. Len(Row[0]) = size
    BY <1>1, <1>3, RowLength
  <1>5. \A i \in 1..TwoTo[Height] :
            Hashes[0][i] = IF i <= size THEN Leaf(i)[2] ELSE Uncommitted[0]
    <2>1. Hashes[0] = LeafHashes
      BY HashesIs, TreeAssumption
    <2> QED
      BY <2>1 DEF LeafHashes
  <1>6. \A i \in 1..size : Row[0][i] = Leaf(i) /\ Leaf(i) # NoTree
    BY <1>2 DEF Leaf, NoTree
  <1>7. TwoTo[Height] \in Nat /\ Height - 0 = Height
    BY TwoToType, TreeAssumption
  <1> QED
    BY <1>1, <1>3, <1>4, <1>5, <1>6, <1>7 DEF RowFits

\* What the row h + 1 is made of.
LEMMA NextRow ==
    ASSUME NEW h \in Nat, h < Height
    PROVE  /\ Row[h + 1] = Parents(Row[h], h)
           /\ Uncommitted[h + 1] = MerkleHash(h, Uncommitted[h], Uncommitted[h])
           /\ Hashes[h + 1] = HashesAbove(Hashes[h], h + 1)
           /\ Height - h \in 1..Height /\ Height - h - 1 = Height - (h + 1)
           /\ TwoTo[Height - h] = 2 * TwoTo[Height - (h + 1)]
           /\ TwoTo[Height - h] \in Nat \ {0} /\ TwoTo[Height - (h + 1)] \in Nat \ {0}
  <1>1. h + 1 \in 0..Height /\ h + 1 # 0 /\ h + 1 - 1 = h
    BY TreeAssumption
  <1>2. Height - h \in 1..Height /\ Height - h - 1 = Height - (h + 1)
        /\ Height - (h + 1) \in 0..Height
    BY TreeAssumption
  <1> QED
    BY <1>1, <1>2, RowIs, UncommittedIs, HashesIs, TwoToType

\* Half of a number of nodes.
LEMMA HalfOf ==
    ASSUME NEW n \in Nat, NEW half \in Nat \ {0}, n <= 2 * half
    PROVE  LET m == (n + 1) \div 2
           IN  m \in Nat /\ m <= half /\ 2 * m >= n /\ 2 * m <= n + 1
  OBVIOUS

\* And so does every row above.
LEMMA NextRowFits ==
    ASSUME NEW h \in Nat, h < Height, RowFits(h)
    PROVE  RowFits(h + 1) /\ Len(Row[h + 1]) = (Len(Row[h]) + 1) \div 2
  <1> DEFINE n == Len(Row[h])
             m == (n + 1) \div 2
             half == TwoTo[Height - (h + 1)]
             below == Row[h]
  <1>1. /\ Row[h + 1] = Parents(below, h)
        /\ Uncommitted[h + 1] = MerkleHash(h, Uncommitted[h], Uncommitted[h])
        /\ Hashes[h + 1] = HashesAbove(Hashes[h], h + 1)
        /\ TwoTo[Height - h] = 2 * half /\ half \in Nat \ {0}
    BY NextRow
  <1>2. n \in Nat /\ n <= 2 * half
    BY <1>1 DEF RowFits
  <1>3. m \in Nat /\ m <= half /\ 2 * m >= n /\ 2 * m <= n + 1
    BY <1>1, <1>2, HalfOf
  <1>4. /\ Len(Row[h + 1]) = m
        /\ IsRow(Row[h + 1], m)
        /\ \A i \in 1..m :
              Row[h + 1][i] = Node(LeftOf(below, i), RightOf(below, i), HashOfBoth(below, i, h))
    <2> DEFINE p == Parents(below, h)
    <2>1. /\ Len(p) = m
          /\ IsRow(p, m)
          /\ \A i \in 1..m :
                p[i] = Node(LeftOf(below, i), RightOf(below, i), HashOfBoth(below, i, h))
      BY <1>3, ParentsAre
    <2> QED
      BY <1>1, <2>1
  <1>5. ASSUME NEW i \in 1..half
        PROVE  Hashes[h + 1][i] = MerkleHash(h, Hashes[h][2 * i - 1], Hashes[h][2 * i])
    <2>1. h + 1 - 1 = h
      OBVIOUS
    <2> QED
      BY <1>1, <1>5, <2>1 DEF HashesAbove
  <1>6. ASSUME NEW i \in 1..m
        PROVE  Row[h + 1][i] # NoTree /\ Row[h + 1][i][2] = Hashes[h + 1][i]
    <2>1. i \in Nat /\ 2 * i - 1 \in 1..n /\ 2 * i <= 2 * half /\ i \in 1..half
      <3> HIDE DEF n, m, half
      <3> QED
        BY <1>1, <1>2, <1>3
    <2>2. /\ GetMerkleHash(LeftOf(below, i), h) = Hashes[h][2 * i - 1]
          /\ GetMerkleHash(RightOf(below, i), h) = Hashes[h][2 * i]
      BY <1>1, <2>1, ChildHashes
    <2>3. HashOfBoth(below, i, h) = Hashes[h + 1][i]
      BY <1>5, <2>1, <2>2 DEF HashOfBoth
    <2>4. Row[h + 1][i] = Node(LeftOf(below, i), RightOf(below, i), Hashes[h + 1][i])
      BY <1>4, <2>3
    <2> QED
      BY <2>4 DEF Node, NoTree
  <1>7. ASSUME NEW i \in (m + 1)..half
        PROVE  Hashes[h + 1][i] = Uncommitted[h + 1]
    <2>1. /\ 2 * i - 1 \in (n + 1)..(2 * half) /\ 2 * i \in (n + 1)..(2 * half)
          /\ i \in 1..half
      <3> HIDE DEF n, m, half
      <3> QED
        BY <1>1, <1>2, <1>3
    <2>2. Hashes[h][2 * i - 1] = Uncommitted[h] /\ Hashes[h][2 * i] = Uncommitted[h]
      BY <1>1, <2>1 DEF RowFits
    <2> QED
      BY <1>1, <1>5, <2>1, <2>2
  <1>8. RowFits(h + 1)
    <2> HIDE DEF m
    <2> QED
      BY <1>3, <1>4, <1>6, <1>7 DEF RowFits
  <1> QED
    BY <1>4, <1>8

\* All rows.
LEMMA RowsFit ==
    ASSUME TreeTypeOK
    PROVE  \A h \in 0..Height : RowFits(h)
  <1> DEFINE Good == {n \in Nat : n <= Height => RowFits(n)}
  <1>1. 0 \in Good
    BY FirstRowFits
  <1>2. ASSUME NEW n \in Nat, n \in Good
        PROVE  n + 1 \in Good
    <2>1. CASE n < Height
      <3>1. RowFits(n)
        BY <1>2, <2>1, TreeAssumption
      <3>2. RowFits(n + 1)
        BY <2>1, <3>1, NextRowFits
      <3> QED
        BY <3>2
    <2>2. CASE ~(n < Height)
      BY <2>2, TreeAssumption
    <2> QED
      BY <2>1, <2>2
  <1>3. Nat \subseteq Good
    <2> HIDE DEF Good
    <2> QED
      BY <1>1, <1>2, AllNaturals
  <1> QED
    BY <1>3, TreeAssumption

\* The length of the next row.
LEMMA NextLength ==
    ASSUME TreeTypeOK, NEW h \in Nat, h < Height
    PROVE  /\ Len(Row[h]) \in Nat /\ Len(Row[h + 1]) \in Nat
           /\ Len(Row[h + 1]) = (Len(Row[h]) + 1) \div 2
  <1>1. h \in 0..Height /\ h + 1 \in 0..Height
    BY TreeAssumption
  <1>2. RowFits(h) /\ RowFits(h + 1)
    BY <1>1, RowsFit
  <1> QED
    BY <1>2, NextRowFits DEF RowFits

\* Up to half of the leaves, no row is too long, and the last one is the root.
LEMMA RowsAreShort ==
    ASSUME TreeTypeOK, size \in 1..TwoTo[Height - 1]
    PROVE  /\ \A h \in 0..(Height - 1) : Len(Row[h]) <= TwoTo[Height - 1 - h]
           /\ Len(Row[Height]) = 1
  <1> DEFINE Short(n) == Len(Row[n]) \in Nat \ {0} /\ Len(Row[n]) <= TwoTo[Height - 1 - n]
             Good == {n \in Nat : n < Height => Short(n)}
  <1>0. size \in Nat \ {0} /\ size <= TwoTo[Height - 1]
    BY TwoToType, TreeAssumption
  <1>1. 0 \in Good
    <2>1. Height - 1 - 0 = Height - 1
      BY TreeAssumption
    <2>2. Short(0)
      BY <1>0, <2>1, FirstRowFits
    <2> QED
      BY <2>2
  <1>2. ASSUME NEW n \in Nat, n \in Good
        PROVE  n + 1 \in Good
    <2> SUFFICES ASSUME n + 1 < Height
                 PROVE  Short(n + 1)
      OBVIOUS
    <2> DEFINE half == TwoTo[Height - 1 - (n + 1)]
    <2>1. n < Height
      BY TreeAssumption
    <2>2. Short(n)
      BY <1>2, <2>1
    <2>3. TwoTo[Height - 1 - n] = 2 * half /\ half \in Nat \ {0}
      <3> DEFINE k == Height - 1 - n
      <3>1. k \in 1..Height /\ k - 1 = Height - 1 - (n + 1) /\ k - 1 \in 0..Height
        BY TreeAssumption
      <3>2. TwoTo[k] = 2 * TwoTo[k - 1] /\ TwoTo[k - 1] \in Nat \ {0}
        <4> HIDE DEF k
        <4> QED
          BY <3>1, TwoToType
      <3> QED
        BY <3>1, <3>2
    <2>4. Len(Row[n + 1]) = (Len(Row[n]) + 1) \div 2
      BY <2>1, NextLength
    <2> DEFINE l == Len(Row[n])
               m == Len(Row[n + 1])
    <2>5. l \in Nat \ {0} /\ l <= 2 * half /\ m = (l + 1) \div 2
      BY <2>2, <2>3, <2>4
    <2>6. m \in Nat \ {0} /\ m <= half
      <3> HIDE DEF l, m, half
      <3> QED
        BY <2>3, <2>5
    <2> QED
      BY <2>6
  <1>3. Nat \subseteq Good
    <2> HIDE DEF Good
    <2> QED
      BY <1>1, <1>2, AllNaturals
  <1>4. ASSUME NEW h \in 0..(Height - 1)
        PROVE  Short(h)
    <2>1. h \in Nat /\ h < Height
      BY TreeAssumption
    <2> QED
      BY <1>3, <2>1
  <1>5. Len(Row[Height]) = 1
    <2>1. Height - 1 \in Nat /\ Height - 1 < Height /\ Height - 1 + 1 = Height
          /\ Height - 1 - (Height - 1) = 0
      BY TreeAssumption
    <2>2. Len(Row[Height - 1]) = 1
      <3>1. Short(Height - 1)
        BY <1>3, <2>1
      <3> DEFINE k == Height - 1
                 l == Len(Row[k])
      <3>2. l \in Nat \ {0} /\ l <= TwoTo[k - k]
        BY <3>1
      <3>3. TwoTo[k - k] = 1
        BY <2>1, TwoToType
      <3>4. l = 1
        <4> HIDE DEF l, k
        <4> QED
          BY <3>2, <3>3
      <3> QED
        BY <3>4
    <2>3. Len(Row[Height - 1 + 1]) = (Len(Row[Height - 1]) + 1) \div 2
      BY <2>1, NextLength
    <2> QED
      BY <2>1, <2>2, <2>3
  <1> QED
    BY <1>4, <1>5

\* Without commitments all rows are empty.
LEMMA RowsAreEmpty ==
    ASSUME TreeTypeOK, size = 0
    PROVE  Len(Row[Height]) = 0
  <1> DEFINE Good == {n \in Nat : n <= Height => Len(Row[n]) = 0}
  <1>1. 0 \in Good
    BY FirstRowFits
  <1>2. ASSUME NEW n \in Nat, n \in Good
        PROVE  n + 1 \in Good
    <2> SUFFICES ASSUME n + 1 <= Height
                 PROVE  Len(Row[n + 1]) = 0
      OBVIOUS
    <2>1. n < Height /\ n <= Height
      BY TreeAssumption
    <2>2. Len(Row[n]) = 0
      BY <1>2, <2>1
    <2>3. Len(Row[n + 1]) = (Len(Row[n]) + 1) \div 2
      BY <2>1, NextLength
    <2> QED
      BY <2>2, <2>3
  <1>3. Nat \subseteq Good
    <2> HIDE DEF Good
    <2> QED
      BY <1>1, <1>2, AllNaturals
  <1> QED
    BY <1>3, TreeAssumption

\* When the tree is constructed, and what it is.
LEMMA TreeIs ==
    ASSUME TreeTypeOK
    PROVE  IF size \in 1..TwoTo[Height - 1]
           THEN Tree = Row[Height][1] /\ Len(Row[Height]) = 1 ELSE Tree = NoTree
  <1>1. CASE size \in 1..TwoTo[Height - 1]
    <2>1. \A h \in 0..(Height - 1) : ~(Len(Row[h]) > TwoTo[Height - 1 - h])
      <3> SUFFICES ASSUME NEW h \in 0..(Height - 1)
                   PROVE  ~(Len(Row[h]) > TwoTo[Height - 1 - h])
        OBVIOUS
      <3>1. h \in Nat /\ h < Height /\ Height - 1 - h \in 0..Height
        BY TreeAssumption
      <3>2. Len(Row[h]) \in Nat /\ TwoTo[Height - 1 - h] \in Nat
        BY <3>1, NextLength, TwoToType
      <3>3. Len(Row[h]) <= TwoTo[Height - 1 - h]
        BY <1>1, RowsAreShort
      <3> QED
        BY <3>2, <3>3
    <2> QED
      BY <1>1, <2>1, RowsAreShort DEF Tree
  <1>2. CASE size = 0
    <2>1. Len(Row[Height]) # 1
      BY <1>2, RowsAreEmpty
    <2> QED
      BY <1>2, <2>1 DEF Tree
  <1>3. CASE size > TwoTo[Height - 1]
    <2>1. 0 \in 0..(Height - 1) /\ Height - 1 - 0 = Height - 1
      BY TreeAssumption
    <2>2. Len(Row[0]) > TwoTo[Height - 1 - 0]
      BY <1>3, <2>1, FirstRowFits
    <2>3. Tree = NoTree
      BY <2>1, <2>2 DEF Tree
    <2>4. ~(size \in 1..TwoTo[Height - 1])
      BY <1>3, TwoToType, TreeAssumption DEF TreeTypeOK
    <2> QED
      BY <2>3, <2>4
  <1>4. size \in Nat /\ TwoTo[Height - 1] \in Nat
    BY TwoToType, TreeAssumption DEF TreeTypeOK
  <1> QED
    BY <1>1, <1>2, <1>3, <1>4

\* The subtree of height h that a position is in, counted from 0.
Index(p, h) == p \div TwoTo[h]

\* The subtree below: one of the two halves, which the rest of the position tells.
LEMMA IndexBelow ==
    ASSUME NEW p \in Nat, NEW h \in 1..Height
    PROVE  LET i == Index(p, h)
               j == Index(p, h - 1)
               r == p % TwoTo[h]
               s == p % TwoTo[h - 1]
           IN  /\ i \in Nat /\ j \in Nat /\ r \in Nat /\ s \in Nat
               /\ s < TwoTo[h - 1]
               /\ \/ j = 2 * i /\ j % 2 = 0 /\ r = s
                  \/ j = 2 * i + 1 /\ j % 2 # 0 /\ r = TwoTo[h - 1] + s
  <1> DEFINE a == TwoTo[h - 1]
  <1>1. a \in Nat \ {0} /\ TwoTo[h] = 2 * a
    BY TwoToType, TreeAssumption
  <1> HIDE DEF a
  <1>2. /\ p \div a \in Nat /\ p % a \in 0..(a - 1)
        /\ p \div (2 * a) = (p \div a) \div 2
        /\ p % (2 * a) = IF (p \div a) % 2 = 0 THEN p % a ELSE a + (p % a)
    BY <1>1, DivideByHalf
  <1> DEFINE j == p \div a
             i == p \div (2 * a)
             s == p % a
             r == p % (2 * a)
  <1>3. /\ i \in Nat /\ j \in Nat /\ r \in Nat /\ s \in Nat /\ s < a
        /\ \/ j = 2 * i /\ j % 2 = 0 /\ r = s
           \/ j = 2 * i + 1 /\ j % 2 # 0 /\ r = a + s
    <2>1. j \in Nat /\ s \in 0..(a - 1) /\ i = j \div 2 /\ r = IF j % 2 = 0 THEN s ELSE a + s
      BY <1>2
    <2> HIDE DEF i, j, r, s
    <2>2. i \in Nat /\ ((j = 2 * i /\ j % 2 = 0) \/ (j = 2 * i + 1 /\ j % 2 # 0))
      BY <2>1
    <2> QED
      BY <1>1, <2>1, <2>2
  <1> QED
    BY <1>1, <1>3 DEF Index, a

\* The subtrees that a leaf is in are those of the rows.
LEMMA IndexInRow ==
    ASSUME TreeTypeOK, NEW p \in 0..(size - 1)
    PROVE  \A h \in 0..Height : Index(p, h) \in Nat /\ Index(p, h) < Len(Row[h])
  <1> DEFINE In(n) == Index(p, n) \in Nat /\ Index(p, n) < Len(Row[n])
             Good == {n \in Nat : n <= Height => In(n)}
  <1>0. p \in Nat /\ p < size
    BY TwoToType, TreeAssumption DEF TreeTypeOK
  <1>1. 0 \in Good
    <2>1. Index(p, 0) = p
      BY <1>0, TwoToType DEF Index
    <2> QED
      BY <1>0, <2>1, FirstRowFits
  <1>2. ASSUME NEW n \in Nat, n \in Good
        PROVE  n + 1 \in Good
    <2> SUFFICES ASSUME n + 1 <= Height
                 PROVE  In(n + 1)
      OBVIOUS
    <2>1. n < Height /\ n <= Height /\ n + 1 \in 1..Height /\ n + 1 - 1 = n
      BY TreeAssumption
    <2>2. In(n)
      BY <1>2, <2>1
    <2> DEFINE j == Index(p, n)
               i == Index(p, n + 1)
               l == Len(Row[n])
               m == Len(Row[n + 1])
    <2>3. i \in Nat /\ (j = 2 * i \/ j = 2 * i + 1)
      BY <1>0, <2>1, IndexBelow
    <2>4. l \in Nat /\ m \in Nat /\ m = (l + 1) \div 2
      BY <2>1, NextLength
    <2>5. j \in Nat /\ j < l
      BY <2>2
    <2>6. i \in Nat /\ i < m
      <3> HIDE DEF i, j, l, m
      <3> QED
        BY <2>3, <2>4, <2>5
    <2> QED
      BY <2>6
  <1>3. Nat \subseteq Good
    <2> HIDE DEF Good
    <2> QED
      BY <1>1, <1>2, AllNaturals
  <1> QED
    BY <1>3, TreeAssumption

\* The other half of the subtree one higher than h.
Sibling(p, h) == Hashes[h][IF Index(p, h) % 2 = 0 THEN Index(p, h) + 2 ELSE Index(p, h)]

\* The siblings from height h on.
Siblings(p, h) == [j \in 1..(Height - h) |-> Sibling(p, h + j - 1)]

\* A call of getNeighbouringHashes with that height.
Reached(call, p, h) ==
    /\ call.position = p % TwoTo[h]
    /\ call.tree = Row[h][Index(p, h) + 1]
    /\ call.acc = Siblings(p, h)

\* One sibling more.
LEMMA SiblingsGrow ==
    ASSUME NEW p, NEW h \in 1..Height
    PROVE  <<Sibling(p, h - 1)>> \o Siblings(p, h) = Siblings(p, h - 1)
  <1> DEFINE n == Height - h
             f == Siblings(p, h)
             g == <<Sibling(p, h - 1)>> \o f
  <1>1. n \in Nat /\ Height - (h - 1) = n + 1
    BY TreeAssumption
  <1>2. f = [j \in 1..n |-> Sibling(p, h + j - 1)] /\ IsRow(f, n)
    BY DEF Siblings, IsRow
  <1>3. Len(f) = n
    BY <1>1, <1>2, RowLength
  <1>4. f \in Seq({f[j] : j \in 1..n})
    BY <1>1, <1>2 DEF IsRow
  <1>5. g = [j \in 1..(n + 1) |-> IF j = 1 THEN Sibling(p, h - 1) ELSE f[j - 1]]
    <2> HIDE DEF f, n
    <2> QED
      BY <1>1, <1>3, <1>4
  <1>6. ASSUME NEW j \in 1..(n + 1)
        PROVE  (IF j = 1 THEN Sibling(p, h - 1) ELSE f[j - 1]) = Sibling(p, h - 1 + j - 1)
    <2>1. CASE j = 1
      <3>1. h - 1 + j - 1 = h - 1
        BY <2>1
      <3> QED
        BY <2>1, <3>1
    <2>2. CASE j # 1
      <3>1. j - 1 \in 1..n /\ h + (j - 1) - 1 = h - 1 + j - 1
        BY <1>1, <1>6, <2>2
      <3> QED
        BY <1>2, <2>2, <3>1
    <2> QED
      BY <2>1, <2>2
  <1> HIDE DEF f, g, n
  <1>7. Siblings(p, h - 1) = [j \in 1..(n + 1) |-> Sibling(p, h - 1 + j - 1)]
    BY <1>1 DEF Siblings
  <1>8. g = Siblings(p, h - 1)
    BY <1>5, <1>6, <1>7
  <1> QED
    BY <1>8 DEF g, f

\* The node that the subtree of a leaf is, with the one below it and its sibling.
LEMMA NodeOnTheWay ==
    ASSUME TreeTypeOK, NEW p \in 0..(size - 1), NEW h \in 1..Height
    PROVE  LET i == Index(p, h)
               j == Index(p, h - 1)
               l == LeftOf(Row[h - 1], i + 1)
               r == RightOf(Row[h - 1], i + 1)
           IN  /\ \E hash : Row[h][i + 1] = Node(l, r, hash)
               /\ (IF j % 2 = 0 THEN l ELSE r) = Row[h - 1][j + 1]
               /\ GetMerkleHash(IF j % 2 = 0 THEN r ELSE l, h - 1) = Sibling(p, h - 1)
  <1> DEFINE i == Index(p, h)
             j == Index(p, h - 1)
             below == Row[h - 1]
             n == Len(below)
             m == Len(Row[h])
             l == LeftOf(below, i + 1)
             r == RightOf(below, i + 1)
  <1>0. h - 1 \in Nat /\ h - 1 < Height /\ h - 1 + 1 = h /\ h - 1 \in 0..Height /\ h \in 0..Height
    BY TreeAssumption
  <1>1. p \in Nat
    BY TwoToType, TreeAssumption DEF TreeTypeOK
  <1>2. /\ i \in Nat /\ j \in Nat
        /\ (j = 2 * i /\ j % 2 = 0) \/ (j = 2 * i + 1 /\ j % 2 # 0)
    BY <1>1, IndexBelow
  <1>3. i < m /\ j < n
    BY <1>0, IndexInRow
  <1>4. n \in Nat /\ m \in Nat /\ m = (n + 1) \div 2
    <2>1. /\ Len(Row[h - 1]) \in Nat /\ Len(Row[h - 1 + 1]) \in Nat
          /\ Len(Row[h - 1 + 1]) = (Len(Row[h - 1]) + 1) \div 2
      BY <1>0, NextLength
    <2> QED
      BY <1>0, <2>1
  <1>5. RowFits(h - 1) /\ RowFits(h)
    BY <1>0, RowsFit
  <1> DEFINE most == TwoTo[Height - (h - 1)]
  <1>6. most \in Nat /\ 2 * m <= most
    <2> DEFINE half == TwoTo[Height - h]
               k == Height - (h - 1)
    <2>1. k \in 1..Height /\ k - 1 = Height - h
      BY TreeAssumption
    <2>2. most = 2 * half /\ half \in Nat
      <3>1. TwoTo[k] = 2 * TwoTo[k - 1] /\ TwoTo[k - 1] \in Nat
        <4>1. k - 1 \in 0..Height
          BY <2>1, TreeAssumption
        <4> HIDE DEF k
        <4> QED
          BY <2>1, <4>1, TwoToType
      <3> QED
        BY <2>1, <3>1
    <2>3. m <= half
      BY <1>5 DEF RowFits
    <2>4. m \in Nat
      BY <1>4
    <2> HIDE DEF most, half, m
    <2> QED
      BY <2>2, <2>3, <2>4
  <1>7. Row[h] = Parents(below, h - 1)
    BY <1>0, RowIs
  <1>8. Row[h][i + 1] = Node(l, r, HashOfBoth(below, i + 1, h - 1))
    <2>1. i + 1 \in 1..m
      <3> HIDE DEF i, j, n, m
      <3> QED
        BY <1>2, <1>3, <1>4
    <2>2. Parents(below, h - 1)[i + 1] = Node(l, r, HashOfBoth(below, i + 1, h - 1))
      BY <1>4, <2>1, ParentsAre
    <2> QED
      BY <1>7, <2>2
  <1>9. /\ i + 1 \in Nat
        /\ 2 * (i + 1) - 1 \in 1..n /\ 2 * (i + 1) <= most
        /\ 2 * (i + 1) - 1 = 2 * i + 1 /\ 2 * (i + 1) = 2 * i + 2
    <2> HIDE DEF i, j, n, m, most
    <2> QED
      BY <1>2, <1>3, <1>4, <1>6
  <1>10. /\ GetMerkleHash(l, h - 1) = Hashes[h - 1][2 * (i + 1) - 1]
         /\ GetMerkleHash(r, h - 1) = Hashes[h - 1][2 * (i + 1)]
    BY <1>5, <1>6, <1>9, ChildHashes
  <1>11. CASE j = 2 * i /\ j % 2 = 0
    <2>1. l = below[j + 1]
      BY <1>9, <1>11 DEF LeftOf
    <2>2. Sibling(p, h - 1) = Hashes[h - 1][j + 2]
      BY <1>11 DEF Sibling
    <2>3. GetMerkleHash(r, h - 1) = Sibling(p, h - 1)
      BY <1>9, <1>10, <1>11, <2>2
    <2> QED
      BY <1>8, <1>11, <2>1, <2>3
  <1>12. CASE j = 2 * i + 1 /\ j % 2 # 0
    <2>1. 2 * (i + 1) = j + 1 /\ 2 * (i + 1) <= n
      <3> HIDE DEF i, j, n
      <3> QED
        BY <1>2, <1>3, <1>4, <1>12
    <2>2. r = below[j + 1]
      BY <2>1 DEF RightOf
    <2>3. Sibling(p, h - 1) = Hashes[h - 1][j]
      BY <1>12 DEF Sibling
    <2>4. GetMerkleHash(l, h - 1) = Sibling(p, h - 1)
      BY <1>9, <1>10, <1>12, <2>3
    <2> QED
      BY <1>8, <1>12, <2>2, <2>4
  <1> QED
    BY <1>2, <1>11, <1>12

\* A call goes to the subtree of the leaf below and adds its sibling.
LEMMA DescendedFits ==
    ASSUME TreeTypeOK, NEW p \in 0..(size - 1), NEW h \in 1..Height,
           NEW call, Reached(call, p, h)
    PROVE  Reached(Descended(call, h), p, h - 1)
  <1> DEFINE i == Index(p, h)
             j == Index(p, h - 1)
             l == LeftOf(Row[h - 1], i + 1)
             r == RightOf(Row[h - 1], i + 1)
             next == Descended(call, h)
             a == TwoTo[h - 1]
  <1>1. p \in Nat /\ a \in Nat
    BY TwoToType, TreeAssumption DEF TreeTypeOK
  <1>2. PICK hash : Row[h][i + 1] = Node(l, r, hash)
    BY NodeOnTheWay
  <1>3. /\ (IF j % 2 = 0 THEN l ELSE r) = Row[h - 1][j + 1]
        /\ GetMerkleHash(IF j % 2 = 0 THEN r ELSE l, h - 1) = Sibling(p, h - 1)
    BY NodeOnTheWay
  <1>4. call.tree[1] = "node" /\ call.tree[3] = l /\ call.tree[4] = r
    <2>1. call.tree = Node(l, r, hash)
      BY <1>2 DEF Reached
    <2> HIDE DEF l, r
    <2> QED
      BY <2>1 DEF Node
  <1>5. /\ call.position < a <=> j % 2 = 0
        /\ (IF j % 2 = 0 THEN call.position ELSE call.position - a) = p % a
    <2> DEFINE x == call.position
               s == p % a
    <2>1. /\ x \in Nat /\ s \in Nat /\ s < a
          /\ (j % 2 = 0 /\ x = s) \/ (j % 2 # 0 /\ x = a + s)
      BY <1>1, IndexBelow DEF Reached
    <2> HIDE DEF x, s, a, j
    <2>2. /\ x < a <=> j % 2 = 0
          /\ (IF j % 2 = 0 THEN x ELSE x - a) = s
      BY <1>1, <2>1
    <2> QED
      BY <2>2 DEF x, s
  <1> HIDE DEF l, r, j, a
  <1>6. next.position = p % a /\ next.tree = Row[h - 1][j + 1]
    BY <1>3, <1>4, <1>5 DEF Descended, a
  <1>7. next.acc = <<Sibling(p, h - 1)>> \o call.acc
    BY <1>3, <1>4, <1>5 DEF Descended, a
  <1>8. next.acc = Siblings(p, h - 1)
    BY <1>7, SiblingsGrow DEF Reached
  <1> QED
    BY <1>6, <1>8 DEF Reached, a, j

\* The witness of a leaf is its siblings from the lowest on.
LEMMA WitnessIs ==
    ASSUME TreeTypeOK, size <= TwoTo[Height - 1], NEW p \in 0..(size - 1)
    PROVE  GetNeighbouringHashes(p, Tree) = Siblings(p, 0)
  <1> DEFINE call == Descent(p, Tree)
             Good == {n \in Nat : n <= Height => Reached(call[n], p, Height - n)}
  <1>0. p \in Nat /\ p < size /\ size \in 1..TwoTo[Height - 1] /\ p < TwoTo[Height]
    BY TwoToType, TreeAssumption DEF TreeTypeOK
  <1>1. 0 \in Good
    <2>1. call[0] = [position |-> p, tree |-> Tree, acc |-> <<>>]
      BY DescentIs
    <2>2. Index(p, Height) = 0 /\ p % TwoTo[Height] = p
      <3>1. p = 0 * TwoTo[Height] + p /\ TwoTo[Height] \in Nat \ {0}
        BY <1>0, TwoToType, TreeAssumption
      <3> QED
        BY <1>0, <3>1, OnlyQuotient DEF Index
    <2>3. Tree = Row[Height][0 + 1]
      BY <1>0, TreeIs
    <2>4. Siblings(p, Height) = <<>>
      BY TreeAssumption DEF Siblings
    <2>5. Reached(call[0], p, Height)
      <3> HIDE DEF call
      <3> QED
        BY <2>1, <2>2, <2>3, <2>4 DEF Reached
    <2> QED
      BY <2>5, TreeAssumption
  <1>2. ASSUME NEW n \in Nat, n \in Good
        PROVE  n + 1 \in Good
    <2> SUFFICES ASSUME n + 1 <= Height
                 PROVE  Reached(call[n + 1], p, Height - (n + 1))
      OBVIOUS
    <2>1. /\ n <= Height /\ Height - n \in 1..Height /\ Height - n - 1 = Height - (n + 1)
          /\ n + 1 \in 0..Height /\ n + 1 # 0 /\ n + 1 - 1 = n
          /\ Height - (n + 1) + 1 = Height - n
      BY TreeAssumption
    <2>2. Reached(call[n], p, Height - n)
      BY <1>2, <2>1
    <2>3. n < Height
      BY TreeAssumption
    <2>4. call[n + 1] = Deeper(call[n], n + 1)
      BY <2>3, DescentIs
    <2>5. call[n + 1] = Descended(call[n], Height - n)
      BY <2>1, <2>4 DEF Deeper
    <2>6. Reached(Descended(call[n], Height - n), p, Height - n - 1)
      BY <2>1, <2>2, DescendedFits
    <2> QED
      BY <2>1, <2>5, <2>6
  <1>3. Nat \subseteq Good
    <2> HIDE DEF Good
    <2> QED
      BY <1>1, <1>2, AllNaturals
  <1>4. Reached(call[Height], p, Height - Height) /\ Height - Height = 0
    BY <1>3, TreeAssumption
  <1> QED
    BY <1>4 DEF Reached, GetNeighbouringHashes

\* The hash that a leaf and its siblings lead to is that of the subtree it is in.
LEMMA UpwardsFit ==
    ASSUME TreeTypeOK, NEW p \in 0..(size - 1), NEW path, path = Siblings(p, 0)
    PROVE  \A h \in 0..Height : Upwards(p, path)[h] = Hashes[h][Index(p, h) + 1]
  <1> DEFINE up == Upwards(p, path)
             Good == {n \in Nat : n <= Height => up[n] = Hashes[n][Index(p, n) + 1]}
  <1>0. p \in Nat /\ p + 1 \in 1..TwoTo[Height] /\ p + 1 <= size /\ TwoTo[0] = 1
    BY TwoToType, TreeAssumption DEF TreeTypeOK
  <1>1. 0 \in Good
    <2>1. up[0] = Leaf(p + 1)[2]
      BY UpwardsIs
    <2>2. Index(p, 0) = p
      BY <1>0 DEF Index
    <2>3. Hashes[0] = LeafHashes
      BY HashesIs, TreeAssumption
    <2>4. Hashes[0][p + 1] = Leaf(p + 1)[2]
      BY <1>0, <2>3 DEF LeafHashes
    <2> QED
      BY <2>1, <2>2, <2>4
  <1>2. ASSUME NEW n \in Nat, n \in Good
        PROVE  n + 1 \in Good
    <2> SUFFICES ASSUME n + 1 <= Height
                 PROVE  up[n + 1] = Hashes[n + 1][Index(p, n + 1) + 1]
      OBVIOUS
    <2> DEFINE i == Index(p, n + 1)
               j == Index(p, n)
               a == TwoTo[n]
    <2>1. n < Height /\ n <= Height /\ n + 1 \in 1..Height /\ n + 1 - 1 = n
          /\ n + 1 \in 0..Height /\ 0 + (n + 1) - 1 = n /\ n + 1 \in 1..(Height - 0)
          /\ n + 1 # 0
      BY TreeAssumption
    <2>2. up[n + 1] = Upward(p, path, up[n], n + 1)
      BY <2>1, UpwardsIs
    <2>3. path[n + 1] = Sibling(p, n)
      BY <2>1 DEF Siblings
    <2>4. up[n + 1] = IF j % 2 = 0 THEN MerkleHash(n, up[n], path[n + 1])
                      ELSE MerkleHash(n, path[n + 1], up[n])
      BY <2>1, <2>2 DEF Upward, Index
    <2>5. up[n] = Hashes[n][j + 1]
      BY <1>2, <2>1
    <2>6. /\ i \in Nat /\ j \in Nat
          /\ (j = 2 * i /\ j % 2 = 0) \/ (j = 2 * i + 1 /\ j % 2 # 0)
      <3> DEFINE k == n + 1
      <3>1. /\ Index(p, k) \in Nat /\ Index(p, k - 1) \in Nat
            /\ \/ Index(p, k - 1) = 2 * Index(p, k) /\ Index(p, k - 1) % 2 = 0
               \/ Index(p, k - 1) = 2 * Index(p, k) + 1 /\ Index(p, k - 1) % 2 # 0
        <4>1. k \in 1..Height
          BY <2>1
        <4> HIDE DEF k
        <4> QED
          BY <1>0, <4>1, IndexBelow
      <3>2. k - 1 = n
        OBVIOUS
      <3> QED
        BY <3>1, <3>2
    <2>7. i + 1 \in 1..TwoTo[Height - (n + 1)]
      <3> DEFINE m == Len(Row[n + 1])
                 half == TwoTo[Height - (n + 1)]
      <3>1. i < m
        BY <2>1, IndexInRow
      <3>2. m \in Nat /\ m <= half
        BY <2>1, RowsFit DEF RowFits
      <3>3. half \in Nat
        <4>1. Height - (n + 1) \in 0..Height
          BY <2>1, TreeAssumption
        <4> QED
          BY <4>1, TwoToType
      <3>4. i \in Nat
        BY <2>6
      <3>5. i + 1 \in 1..half
        <4> HIDE DEF i, m, half
        <4> QED
          BY <3>1, <3>2, <3>3, <3>4
      <3> QED
        BY <3>5
    <2>8. Hashes[n + 1] = HashesAbove(Hashes[n], n + 1)
      BY <2>1, HashesIs
    <2>9. Hashes[n + 1][i + 1] = MerkleHash(n, Hashes[n][2 * (i + 1) - 1], Hashes[n][2 * (i + 1)])
      BY <2>1, <2>7, <2>8 DEF HashesAbove
    <2>10. 2 * (i + 1) - 1 = 2 * i + 1 /\ 2 * (i + 1) = 2 * i + 2
      BY <2>6
    <2>11. CASE j = 2 * i /\ j % 2 = 0
      <3>1. Sibling(p, n) = Hashes[n][j + 2]
        BY <2>11 DEF Sibling
      <3>2. up[n + 1] = MerkleHash(n, Hashes[n][j + 1], Hashes[n][j + 2])
        BY <2>3, <2>4, <2>5, <2>11, <3>1
      <3> QED
        BY <2>9, <2>10, <2>11, <3>2
    <2>12. CASE j = 2 * i + 1 /\ j % 2 # 0
      <3>1. Sibling(p, n) = Hashes[n][j]
        BY <2>12 DEF Sibling
      <3>2. up[n + 1] = MerkleHash(n, Hashes[n][j], Hashes[n][j + 1])
        BY <2>3, <2>4, <2>5, <2>12, <3>1
      <3>3. j + 1 = 2 * i + 2
        BY <2>6, <2>12
      <3> QED
        BY <2>9, <2>10, <2>12, <3>2, <3>3
    <2> QED
      BY <2>6, <2>11, <2>12
  <1>3. Nat \subseteq Good
    <2> HIDE DEF Good
    <2> QED
      BY <1>1, <1>2, AllNaturals
  <1> QED
    BY <1>3, TreeAssumption

\* The pool never has more commitments than the tree has leaves.
THEOREM TreeTypeCorrect == TreeSpec => []TreeTypeOK
  <1>1. TreeInit => TreeTypeOK
    BY TwoToType, TreeAssumption DEF TreeInit, TreeTypeOK
  <1>2. TreeTypeOK /\ [Commit]_size => TreeTypeOK'
    BY TwoToType, TreeAssumption DEF Commit, TreeTypeOK
  <1> QED
    BY <1>1, <1>2, PTL DEF TreeSpec

\* For every height of the tree and any number of commitments: the tree that
\* constructMerkleTree makes, level by level and without the empty subtrees, has the root
\* of the whole tree, and the hashes that getNeighbouringHashes gives for a leaf lead to
\* this root along the bits of its position.
THEOREM WitnessesAreValid == TreeSpec => []WitnessesLeadToRoot
  <1>1. TreeTypeOK => WitnessesLeadToRoot
    <2> SUFFICES ASSUME TreeTypeOK
                 PROVE  WitnessesLeadToRoot
      OBVIOUS
    <2>1. CASE ~(size \in 1..TwoTo[Height - 1])
      BY <2>1, TreeIs DEF WitnessesLeadToRoot
    <2>2. CASE size \in 1..TwoTo[Height - 1]
      <3>1. Tree = Row[Height][1] /\ Len(Row[Height]) = 1
        BY <2>2, TreeIs
      <3>2. Height \in 0..Height /\ TwoTo[Height - 1] \in Nat
        BY TwoToType, TreeAssumption
      <3>3. Tree[2] = Hashes[Height][1]
        BY <3>1, <3>2, RowsFit DEF RowFits
      <3>4. ASSUME NEW p \in 0..(size - 1)
            PROVE  RootFrom(GetWitness(p)) = Tree[2]
        <4>1. size <= TwoTo[Height - 1]
          BY <2>2, <3>2
        <4>2. GetNeighbouringHashes(p, Tree) = Siblings(p, 0)
          BY <4>1, WitnessIs
        <4>3. Upwards(p, Siblings(p, 0))[Height] = Hashes[Height][Index(p, Height) + 1]
          BY <3>2, UpwardsFit
        <4>4. Index(p, Height) = 0
          <5>1. Index(p, Height) \in Nat /\ Index(p, Height) < Len(Row[Height])
            BY <3>2, IndexInRow
          <5> QED
            BY <3>1, <5>1
        <4>5. /\ PathOf(GetWitness(p)) = Siblings(p, 0)
              /\ GetWitness(p).position = p /\ GetWitness(p).height = Height
          BY <4>2, TreeAssumption DEF GetWitness, PathOf, Siblings
        <4> QED
          BY <3>3, <4>3, <4>4, <4>5 DEF RootFrom
      <3> QED
        BY <2>2, <3>3, <3>4 DEF WitnessesLeadToRoot
    <2> QED
      BY <2>1, <2>2
  <1> QED
    BY <1>1, TreeTypeCorrect, PTL

-----------------------------------------------------------------------------
(* ForgedNumbers: Zarith *)

\* The last seven bits of a number, and the others.
LEMMA SevenBits ==
    ASSUME NEW n \in Nat
    PROVE  /\ n \div 128 \in Nat /\ n % 128 \in 0..127
           /\ n = (n % 128) + 128 * (n \div 128)
           /\ n >= 128 => n \div 128 < n
  OBVIOUS

\* What zarithEncoder makes of n, with z for the numbers below n.
ZarithStep(z, n) ==
    IF FitsInByte(n) THEN <<n>> ELSE <<128 + (n % 128)>> \o z[n \div 128]

ZarithUpto(z, k) ==
    /\ z \in [Nat -> Seq(Nat)]
    /\ \A n \in Nat : n < k => z[n] = ZarithStep(z, n)

\* A step depends on what is below n.
LEMMA ZarithStepBelow ==
    ASSUME NEW n \in Nat, NEW y, NEW z, \A m \in Nat : m < n => y[m] = z[m]
    PROVE  ZarithStep(y, n) = ZarithStep(z, n)
  <1>1. CASE FitsInByte(n)
    BY <1>1 DEF ZarithStep
  <1>2. CASE ~FitsInByte(n)
    <2>1. n \div 128 \in Nat /\ n \div 128 < n
      BY <1>2, SevenBits DEF FitsInByte
    <2>2. y[n \div 128] = z[n \div 128]
      BY <2>1
    <2> QED
      BY <1>2, <2>2 DEF ZarithStep
  <1> QED
    BY <1>1, <1>2

\* A step makes bytes.
LEMMA ZarithStepType ==
    ASSUME NEW n \in Nat, NEW z \in [Nat -> Seq(Nat)]
    PROVE  ZarithStep(z, n) \in Seq(Nat)
  <1>1. n \div 128 \in Nat /\ n % 128 \in Nat /\ 128 + (n % 128) \in Nat
    BY SevenBits
  <1>2. <<n>> \in Seq(Nat) /\ <<128 + (n % 128)>> \in Seq(Nat)
    BY <1>1
  <1>3. z[n \div 128] \in Seq(Nat)
    BY <1>1
  <1>4. <<128 + (n % 128)>> \o z[n \div 128] \in Seq(Nat)
    BY <1>2, <1>3, ConcatProperties
  <1> QED
    BY <1>2, <1>4 DEF ZarithStep

\* The recursive definition of zarithEncoder has a solution.
LEMMA ZarithIs ==
    \A n \in Nat : Zarith[n] = ZarithStep(Zarith, n)
  <1> DEFINE Is(z) == z = [n \in Nat |-> IF FitsInByte(n) THEN <<n>>
                                        ELSE <<128 + (n % 128)>> \o z[n \div 128]]
             Good == {k \in Nat : \E z : ZarithUpto(z, k)}
             Agree == {n \in Nat : \A k, m \in Nat : \A y, z :
                          n < k /\ n < m /\ ZarithUpto(y, k) /\ ZarithUpto(z, m) => y[n] = z[n]}
  <1>1. 0 \in Good
    <2>1. ZarithUpto([n \in Nat |-> <<>>], 0)
      BY DEF ZarithUpto
    <2> QED
      BY <2>1
  <1>2. ASSUME NEW k \in Nat, k \in Good
        PROVE  k + 1 \in Good
    <2>1. PICK y : ZarithUpto(y, k)
      BY <1>2
    <2> DEFINE z == [n \in Nat |-> IF n = k THEN ZarithStep(y, k) ELSE y[n]]
    <2>2. z \in [Nat -> Seq(Nat)]
      BY <2>1, ZarithStepType DEF ZarithUpto
    <2>3. \A n \in Nat : z[n] = IF n = k THEN ZarithStep(y, k) ELSE y[n]
      OBVIOUS
    <2> HIDE DEF z
    <2>4. ASSUME NEW n \in Nat, n < k + 1
          PROVE  z[n] = ZarithStep(z, n)
      <3>1. \A m \in Nat : m < n => z[m] = y[m]
        BY <2>3, <2>4
      <3>2. ZarithStep(z, n) = ZarithStep(y, n)
        BY <3>1, ZarithStepBelow
      <3>3. CASE n = k
        BY <2>3, <3>2, <3>3
      <3>4. CASE n < k
        BY <2>1, <2>3, <3>2, <3>4 DEF ZarithUpto
      <3> QED
        BY <2>4, <3>3, <3>4
    <2>5. ZarithUpto(z, k + 1)
      BY <2>2, <2>4 DEF ZarithUpto
    <2> QED
      BY <2>5
  <1>3. Nat \subseteq Good
    <2> HIDE DEF Good
    <2> QED
      BY <1>1, <1>2, AllNaturals
  <1>4. ASSUME NEW n \in Nat, \A m \in Nat : m < n => m \in Agree
        PROVE  n \in Agree
    <2> SUFFICES ASSUME NEW k \in Nat, NEW m \in Nat, NEW y, NEW z,
                        n < k, n < m, ZarithUpto(y, k), ZarithUpto(z, m)
                 PROVE  y[n] = z[n]
      OBVIOUS
    <2>1. \A i \in Nat : i < n => i < k /\ i < m
      OBVIOUS
    <2>2. \A i \in Nat : i < n => y[i] = z[i]
      BY <1>4, <2>1
    <2>3. ZarithStep(y, n) = ZarithStep(z, n)
      BY <2>2, ZarithStepBelow
    <2> QED
      BY <2>3 DEF ZarithUpto
  <1>5. Nat \subseteq Agree
    <2> HIDE DEF Agree
    <2> QED
      BY <1>4, AllNaturalsInOrder
  <1> DEFINE part(k) == CHOOSE z : ZarithUpto(z, k)
             all == [n \in Nat |-> part(n + 1)[n]]
  <1>6. \A k \in Nat : ZarithUpto(part(k), k)
    BY <1>3
  <1> HIDE DEF part
  <1>7. ASSUME NEW n \in Nat
        PROVE  all[n] = ZarithStep(all, n)
    <2> DEFINE z == part(n + 1)
    <2>1. n + 1 \in Nat /\ n < n + 1
      OBVIOUS
    <2>2. ZarithUpto(z, n + 1)
      BY <1>6, <2>1
    <2>3. \A m \in Nat : m < n => all[m] = z[m]
      <3> SUFFICES ASSUME NEW m \in Nat, m < n
                   PROVE  all[m] = z[m]
        OBVIOUS
      <3>1. m + 1 \in Nat /\ m < m + 1 /\ m < n + 1
        OBVIOUS
      <3>2. ZarithUpto(part(m + 1), m + 1)
        BY <1>6, <3>1
      <3>3. part(m + 1)[m] = z[m]
        BY <1>5, <2>1, <2>2, <3>1, <3>2
      <3> QED
        BY <3>3
    <2>4. ZarithStep(all, n) = ZarithStep(z, n)
      <3> HIDE DEF all, z
      <3> QED
        BY <2>3, ZarithStepBelow
    <2>5. z[n] = ZarithStep(z, n)
      BY <2>1, <2>2 DEF ZarithUpto
    <2> QED
      BY <2>4, <2>5
  <1>8. Is(all)
    <2>1. all = [n \in Nat |-> IF FitsInByte(n) THEN <<n>>
                              ELSE <<128 + (n % 128)>> \o all[n \div 128]]
      BY <1>7, SMTT(60) DEF ZarithStep
    <2> QED
      BY <2>1
  <1> HIDE DEF all
  <1>9. Is(Zarith)
    <2> HIDE DEF Is
    <2>1. Is(CHOOSE z : Is(z))
      BY <1>8
    <2> QED
      BY <2>1 DEF Zarith, Is
  <1> QED
    BY <1>9, Zenon DEF ZarithStep

-----------------------------------------------------------------------------
(* ForgedNumbers: reading a number *)

\* What a byte counts to, as NumberIn takes it.
Base(first, i) == IF i = 1 THEN first ELSE 128

\* v has what the bytes from each one up to the last make.
Makes(v, bytes, first, last) ==
    \A i \in 1..last :
        /\ v[i] \in Nat
        /\ v[i] = (bytes[i] % Base(first, i)) + IF i = last THEN 0 ELSE Base(first, i) * v[i + 1]

\* The number is what they make from the first on.
LEMMA NumberInIs ==
    ASSUME NEW bytes, NEW first, NEW last \in Nat \ {0}, LastByte(bytes) = last,
           NEW v, Makes(v, bytes, first, last)
    PROVE  NumberIn(bytes, first) = v[1]
  <1> DEFINE Is(num) == num = [i \in 1..last |->
                                 (bytes[i] % Base(first, i))
                                 + IF i = last THEN 0 ELSE Base(first, i) * num[i + 1]]
             digits == CHOOSE num : Is(num)
             v1 == [i \in 1..last |-> v[i]]
  <1>1. Is(v1)
    <2>1. ASSUME NEW i \in 1..last
          PROVE  v[i] = (bytes[i] % Base(first, i))
                        + IF i = last THEN 0 ELSE Base(first, i) * v1[i + 1]
      <3>1. CASE i = last
        BY <3>1 DEF Makes
      <3>2. CASE i # last
        <4>1. i + 1 \in 1..last
          BY <3>2
        <4>2. v1[i + 1] = v[i + 1]
          BY <4>1
        <4> HIDE DEF v1
        <4> QED
          BY <3>2, <4>2 DEF Makes
      <3> QED
        BY <3>1, <3>2
    <2>2. v1 = [i \in 1..last |-> (bytes[i] % Base(first, i))
                                 + IF i = last THEN 0 ELSE Base(first, i) * v1[i + 1]]
      BY <2>1, Zenon
    <2> QED
      BY <2>2
  <1>2. Is(digits)
    <2> HIDE DEF Is, v1
    <2> QED
      BY <1>1
  <1>3. NumberIn(bytes, first) = digits[1]
    BY DEF NumberIn, Base
  <1>4. \A i \in 1..last : digits[i] = (bytes[i] % Base(first, i))
                           + IF i = last THEN 0 ELSE Base(first, i) * digits[i + 1]
    BY <1>2, Zenon
  <1> HIDE DEF digits
  <1> DEFINE Good == {n \in Nat : n < last => digits[last - n] = v[last - n]}
  <1>5. 0 \in Good
    <2>1. last \in 1..last /\ last - 0 = last
      OBVIOUS
    <2> QED
      BY <1>4, <2>1 DEF Makes
  <1>6. ASSUME NEW n \in Nat, n \in Good
        PROVE  n + 1 \in Good
    <2> SUFFICES ASSUME n + 1 < last
                 PROVE  digits[last - (n + 1)] = v[last - (n + 1)]
      OBVIOUS
    <2> DEFINE i == last - (n + 1)
    <2>1. i \in 1..last /\ i # last /\ i + 1 = last - n /\ n < last
      OBVIOUS
    <2>2. digits[i + 1] = v[i + 1]
      BY <1>6, <2>1
    <2> HIDE DEF i
    <2>3. digits[i] = v[i]
      BY <1>4, <2>1, <2>2 DEF Makes
    <2> QED
      BY <2>3 DEF i
  <1>7. Nat \subseteq Good
    <2> HIDE DEF Good
    <2> QED
      BY <1>5, <1>6, AllNaturals
  <1>8. last - 1 \in Nat /\ last - 1 < last /\ last - (last - 1) = 1
    OBVIOUS
  <1>9. digits[1] = v[1]
    BY <1>7, <1>8
  <1> QED
    BY <1>3, <1>9

\* The bytes of one number: all but the last one say that there are more.
OneNumber(bytes) ==
    /\ bytes \in Seq(Nat)
    /\ Len(bytes) \in Nat \ {0}
    /\ bytes[Len(bytes)] < 128
    /\ \A i \in 1..(Len(bytes) - 1) : bytes[i] >= 128

\* Reading takes the bytes of the number and leaves the others.
LEMMA ReadsOneNumber ==
    ASSUME NEW digits, OneNumber(digits), NEW rest \in Seq(Nat),
           NEW first, NEW v, Makes(v, digits, first, Len(digits))
    PROVE  LET bytes == digits \o rest
           IN  /\ LastByte(bytes) \in DOMAIN bytes
               /\ bytes[LastByte(bytes)] < 128
               /\ bytes[1] = digits[1]
               /\ From(bytes, LastByte(bytes) + 1) = rest
               /\ NumberIn(bytes, first) = v[1]
  <1> DEFINE bytes == digits \o rest
             last == Len(digits)
  <1>1. /\ bytes \in Seq(Nat) /\ Len(bytes) = last + Len(rest) /\ Len(rest) \in Nat
        /\ \A i \in 1..last : bytes[i] = digits[i]
        /\ \A i \in 1..Len(rest) : bytes[last + i] = rest[i]
    BY DEF OneNumber
  <1>2. last \in Nat \ {0} /\ last \in 1..last /\ 1 \in 1..last
    BY DEF OneNumber
  <1>3. DOMAIN bytes = 1..(last + Len(rest))
    BY <1>1
  <1>4. \A i \in DOMAIN bytes : bytes[i] \in Nat
    BY <1>1
  <1>5. last \in DOMAIN bytes /\ bytes[last] < 128 /\ \A i \in 1..(last - 1) : bytes[i] >= 128
    BY <1>1, <1>2, <1>3 DEF OneNumber
  <1> HIDE DEF bytes, last
  <1>6. LastByte(bytes) = last
    <2>1. ASSUME NEW n \in DOMAIN bytes, bytes[n] < 128,
                 \A i \in 1..(n - 1) : bytes[i] >= 128
          PROVE  n = last
      <3>1. n \in Nat \ {0} /\ bytes[n] \in Nat /\ bytes[last] \in Nat
        BY <1>1, <1>2, <1>3, <1>4, <1>5
      <3>2. ~(n < last)
        BY <1>2, <1>5, <2>1, <3>1
      <3>3. ~(last < n)
        BY <1>2, <1>5, <2>1, <3>1
      <3> QED
        BY <1>2, <3>1, <3>2, <3>3
    <2> QED
      BY <1>5, <2>1 DEF LastByte
  <1>7. Makes(v, bytes, first, last)
    BY <1>1 DEF Makes, last
  <1>8. NumberIn(bytes, first) = v[1]
    BY <1>2, <1>6, <1>7, NumberInIs
  <1>9. From(bytes, last + 1) = rest
    <2> DEFINE tail == From(bytes, last + 1)
    <2>1. /\ Len(tail) = Len(rest) /\ tail \in Seq(Nat)
          /\ \A i \in 1..Len(rest) : tail[i] = bytes[last + i]
      BY <1>1, <1>2, <1>3 DEF From
    <2> QED
      BY <1>1, <2>1, SeqEqual
  <1> QED
    BY <1>1, <1>2, <1>5, <1>6, <1>8, <1>9 DEF bytes

\* The bytes of n make n again.
LEMMA ZarithMakes ==
    ASSUME NEW n \in Nat
    PROVE  /\ OneNumber(Zarith[n])
           /\ \E v : v[1] = n /\ Makes(v, Zarith[n], 128, Len(Zarith[n]))
  <1> DEFINE Fine(m) == /\ OneNumber(Zarith[m])
                        /\ \E v : v[1] = m /\ Makes(v, Zarith[m], 128, Len(Zarith[m]))
             Good == {m \in Nat : Fine(m)}
  <1>1. ASSUME NEW m \in Nat, \A k \in Nat : k < m => k \in Good
        PROVE  m \in Good
    <2>1. Zarith[m] = ZarithStep(Zarith, m)
      BY ZarithIs
    <2>2. CASE m < 128
      <3>1. Zarith[m] = <<m>>
        BY <2>1, <2>2 DEF ZarithStep, FitsInByte
      <3>2. OneNumber(<<m>>)
        BY <2>2 DEF OneNumber
      <3>3. Makes(<<m>>, <<m>>, 128, 1)
        BY <2>2 DEF Makes, Base
      <3>4. Len(<<m>>) = 1 /\ <<m>>[1] = m
        OBVIOUS
      <3> QED
        BY <3>1, <3>2, <3>3, <3>4
    <2>3. CASE m >= 128
      <3> DEFINE k == m \div 128
                 low == m % 128
                 y == Zarith[k]
                 z == Zarith[m]
      <3>1. k \in Nat /\ k < m /\ low \in 0..127 /\ m = low + 128 * k
        BY <2>3, SevenBits
      <3>2. z = <<128 + low>> \o y
        BY <2>1, <2>3 DEF ZarithStep, FitsInByte
      <3>3. Fine(k)
        BY <1>1, <3>1
      <3> HIDE DEF k, low, y, z
      <3>4. OneNumber(y)
        BY <3>3 DEF y
      <3>5. PICK v : v[1] = k /\ Makes(v, y, 128, Len(y))
        BY <3>3 DEF y
      <3>6. /\ z \in Seq(Nat) /\ Len(z) = Len(y) + 1 /\ Len(y) \in Nat \ {0}
            /\ z[1] = 128 + low
            /\ \A i \in 2..Len(z) : z[i] = y[i - 1]
        <4>1. 128 + low \in Nat /\ y \in Seq(Nat) /\ Len(y) \in Nat \ {0}
          BY <3>1, <3>4 DEF OneNumber
        <4> QED
          BY <3>2, <4>1
      <3>7. OneNumber(z)
        <4>1. z[Len(z)] < 128
          <5>1. Len(z) \in 2..Len(z) /\ Len(z) - 1 = Len(y)
            BY <3>6
          <5>2. z[Len(z)] = y[Len(y)]
            BY <3>6, <5>1
          <5> QED
            BY <3>4, <5>2 DEF OneNumber
        <4>2. ASSUME NEW i \in 1..(Len(z) - 1)
              PROVE  z[i] >= 128
          <5>1. CASE i = 1
            BY <3>1, <3>6, <5>1
          <5>2. CASE i # 1
            <6>1. i \in 2..Len(z) /\ i - 1 \in 1..(Len(y) - 1)
              BY <3>6, <5>2
            <6>2. z[i] = y[i - 1]
              BY <3>6, <6>1
            <6> QED
              BY <3>4, <6>1, <6>2 DEF OneNumber
          <5> QED
            BY <5>1, <5>2
        <4> QED
          BY <3>6, <4>1, <4>2 DEF OneNumber
      <3> DEFINE w == [i \in 1..Len(z) |-> IF i = 1 THEN m ELSE v[i - 1]]
      <3>8. w[1] = m /\ w[2] = k /\ \A i \in 2..Len(z) : w[i] = v[i - 1]
        BY <3>5, <3>6
      <3> HIDE DEF w
      <3>9. Makes(w, z, 128, Len(z))
        <4>1. w[1] \in Nat /\ w[1] = (z[1] % 128) + (128 * w[2])
          <5>1. (128 + low) % 128 = low
            BY <3>1
          <5> QED
            BY <3>1, <3>6, <3>8, <5>1
        <4>2. ASSUME NEW i \in 2..Len(z)
              PROVE  /\ w[i] \in Nat
                     /\ w[i] = (z[i] % 128) + IF i = Len(z) THEN 0 ELSE 128 * w[i + 1]
          <5>1. /\ i - 1 \in 1..Len(y) /\ (i = Len(z) <=> i - 1 = Len(y))
                /\ (i - 1) + 1 = i /\ (i + 1) - 1 = i
            BY <3>6
          <5>2. /\ v[i - 1] \in Nat
                /\ v[i - 1] = (y[i - 1] % 128) + IF i = Len(z) THEN 0 ELSE 128 * v[i]
            BY <3>5, <5>1 DEF Makes, Base
          <5>3. i # Len(z) => w[i + 1] = v[i]
            BY <3>6, <3>8, <5>1
          <5> QED
            BY <3>6, <3>8, <5>2, <5>3, ZenonT(60)
        <4> QED
          BY <3>6, <4>1, <4>2 DEF Makes, Base
      <3>10. Fine(m)
        BY <3>7, <3>8, <3>9 DEF z
      <3> QED
        BY <3>10
    <2> QED
      BY <2>2, <2>3
  <1>2. Nat \subseteq Good
    <2> HIDE DEF Good
    <2> QED
      BY <1>1, AllNaturalsInOrder
  <1> QED
    BY <1>2

\* An amount, a fee or a limit reads back, whatever comes after it: zarithDecoder undoes
\* zarithEncoder for every natural number.
THEOREM AmountsReadBack ==
    \A n \in Nat : \A rest \in Seq(Nat) : ReadZarith(Zarith[n] \o rest) = Parsed(n, rest)
  <1> SUFFICES ASSUME NEW n \in Nat, NEW rest \in Seq(Nat)
               PROVE  ReadZarith(Zarith[n] \o rest) = Parsed(n, rest)
    OBVIOUS
  <1>1. PICK v : v[1] = n /\ Makes(v, Zarith[n], 128, Len(Zarith[n]))
    BY ZarithMakes
  <1>2. OneNumber(Zarith[n])
    BY ZarithMakes
  <1> DEFINE bytes == Zarith[n] \o rest
  <1>3. NumberIn(bytes, 128) = n /\ From(bytes, LastByte(bytes) + 1) = rest
    BY <1>1, <1>2, ReadsOneNumber
  <1> QED
    BY <1>3 DEF ReadZarith

-----------------------------------------------------------------------------
(* ForgedNumbers: EncodeInt *)

\* Seven powers further.
LEMMA SevenPowers ==
    ASSUME NEW n \in Nat
    PROVE  TwoTo[n] \in Nat \ {0} /\ TwoTo[n + 7] = 128 * TwoTo[n]
  <1>1. \A i \in 0..7 : n + i \in Nat
    OBVIOUS
  <1>2. \A i \in 0..6 : TwoTo[n + (i + 1)] = 2 * TwoTo[n + i]
    <2> SUFFICES ASSUME NEW i \in 0..6
                 PROVE  TwoTo[n + (i + 1)] = 2 * TwoTo[n + i]
      OBVIOUS
    <2>1. n + i \in Nat /\ n + (i + 1) = (n + i) + 1
      OBVIOUS
    <2> QED
      BY <2>1, PowersOfTwo
  <1>3. /\ TwoTo[n] \in Nat \ {0} /\ n + 0 = n
        /\ TwoTo[n + 1] = 2 * TwoTo[n + 0] /\ TwoTo[n + 2] = 2 * TwoTo[n + 1]
        /\ TwoTo[n + 3] = 2 * TwoTo[n + 2] /\ TwoTo[n + 4] = 2 * TwoTo[n + 3]
        /\ TwoTo[n + 5] = 2 * TwoTo[n + 4] /\ TwoTo[n + 6] = 2 * TwoTo[n + 5]
        /\ TwoTo[n + 7] = 2 * TwoTo[n + 6]
    BY <1>2, PowersOfTwo
  <1> QED
    BY <1>3

\* Dividing by twice as much halves the quotient.
LEMMA HalfTheQuotient ==
    ASSUME NEW x \in Nat, NEW d \in Nat \ {0}, NEW e \in Nat, e = 2 * d
    PROVE  x \div e \in Nat /\ (x \div d) - 2 * (x \div e) \in 0..1
  <1> DEFINE y == x \div d
  <1>1. y \in Nat /\ x \div e = y \div 2
    BY DivideByHalf
  <1> HIDE DEF y
  <1>2. y \div 2 \in Nat /\ y - 2 * (y \div 2) \in 0..1
    BY <1>1
  <1> QED
    BY <1>1, <1>2 DEF y

\* Dividing by seven powers more is dividing once more.
LEMMA DivideSevenTimes ==
    ASSUME NEW x \in Nat, NEW c \in Nat \ {0}
    PROVE  x \div c \in Nat /\ x \div (128 * c) = (x \div c) \div 128
  <1> DEFINE c2 == 2 * c
             c4 == 2 * c2
             c8 == 2 * c4
             c16 == 2 * c8
             c32 == 2 * c16
             c64 == 2 * c32
             c128 == 2 * c64
             q == x \div c
             q2 == x \div c2
             q4 == x \div c4
             q8 == x \div c8
             q16 == x \div c16
             q32 == x \div c32
             q64 == x \div c64
             q128 == x \div c128
  <1>1. q \in Nat
    BY DivideByHalf
  <1>2. c2 = 2 * c /\ c2 \in Nat \ {0}
    OBVIOUS
  <1>3. c4 = 2 * c2 /\ c4 \in Nat \ {0}
    BY <1>2
  <1>4. c8 = 2 * c4 /\ c8 \in Nat \ {0}
    BY <1>3
  <1>5. c16 = 2 * c8 /\ c16 \in Nat \ {0}
    BY <1>4
  <1>6. c32 = 2 * c16 /\ c32 \in Nat \ {0}
    BY <1>5
  <1>7. c64 = 2 * c32 /\ c64 \in Nat \ {0}
    BY <1>6
  <1>8. c128 = 2 * c64 /\ c128 \in Nat \ {0}
    BY <1>7
  <1>9. c128 = 128 * c
    OBVIOUS
  <1> HIDE DEF c2, c4, c8, c16, c32, c64, c128
  <1>10. q2 \in Nat /\ q - 2 * q2 \in 0..1
    BY <1>2, HalfTheQuotient
  <1>11. q4 \in Nat /\ q2 - 2 * q4 \in 0..1
    BY <1>3, <1>2, HalfTheQuotient
  <1>12. q8 \in Nat /\ q4 - 2 * q8 \in 0..1
    BY <1>4, <1>3, HalfTheQuotient
  <1>13. q16 \in Nat /\ q8 - 2 * q16 \in 0..1
    BY <1>5, <1>4, HalfTheQuotient
  <1>14. q32 \in Nat /\ q16 - 2 * q32 \in 0..1
    BY <1>6, <1>5, HalfTheQuotient
  <1>15. q64 \in Nat /\ q32 - 2 * q64 \in 0..1
    BY <1>7, <1>6, HalfTheQuotient
  <1>16. q128 \in Nat /\ q64 - 2 * q128 \in 0..1
    BY <1>8, <1>7, HalfTheQuotient
  <1> HIDE DEF q, q2, q4, q8, q16, q32, q64, q128
  <1>17. q - 8 * q8 \in 0..7
    BY <1>1, <1>10, <1>11, <1>12
  <1>18. q8 - 16 * q128 \in 0..15
    BY <1>12, <1>13, <1>14, <1>15, <1>16
  <1> DEFINE r == q - 128 * q128
  <1>19. r \in Nat /\ r < 128 /\ q = q128 * 128 + r
    BY <1>1, <1>12, <1>16, <1>17, <1>18
  <1>20. q \div 128 = q128
    <2> HIDE DEF r
    <2> QED
      BY <1>1, <1>16, <1>19, OnlyQuotient
  <1> QED
    BY <1>1, <1>9, <1>20 DEF q, q128

\* A larger power is larger.
LEMMA PowersGrow ==
    ASSUME NEW m \in Nat, NEW n \in Nat, m <= n
    PROVE  TwoTo[m] <= TwoTo[n]
  <1> DEFINE Good == {d \in Nat : TwoTo[m] <= TwoTo[m + d]}
  <1>1. 0 \in Good
    BY PowersOfTwo
  <1>2. ASSUME NEW d \in Nat, d \in Good
        PROVE  d + 1 \in Good
    <2>1. m + d \in Nat /\ m + (d + 1) = (m + d) + 1
      OBVIOUS
    <2>2. /\ TwoTo[m + d] \in Nat /\ TwoTo[m + (d + 1)] = 2 * TwoTo[m + d]
          /\ TwoTo[m] <= TwoTo[m + d] /\ TwoTo[m] \in Nat
      BY <1>2, <2>1, PowersOfTwo
    <2> QED
      BY <2>2
  <1>3. Nat \subseteq Good
    <2> HIDE DEF Good
    <2> QED
      BY <1>1, <1>2, AllNaturals
  <1>4. n - m \in Nat /\ m + (n - m) = n
    OBVIOUS
  <1>5. TwoTo[m] <= TwoTo[m + (n - m)]
    BY <1>3, <1>4
  <1> QED
    BY <1>4, <1>5

\* A number is smaller than its power.
LEMMA PowersAreLarger ==
    \A n \in Nat : n < TwoTo[n]
  <1> DEFINE Good == {n \in Nat : n < TwoTo[n]}
  <1>1. 0 \in Good
    BY PowersOfTwo
  <1>2. \A n \in Nat : n \in Good => n + 1 \in Good
    <2> SUFFICES ASSUME NEW n \in Nat, n < TwoTo[n]
                 PROVE  n + 1 < TwoTo[n + 1]
      OBVIOUS
    <2>1. TwoTo[n] \in Nat /\ TwoTo[n + 1] = 2 * TwoTo[n]
      BY PowersOfTwo
    <2> QED
      BY <2>1
  <1>3. Nat \subseteq Good
    <2> HIDE DEF Good
    <2> QED
      BY <1>1, <1>2, AllNaturals
  <1> QED
    BY <1>3

\* The bits of a number suffice for it.
LEMMA BitLengthIs ==
    ASSUME NEW n \in Nat
    PROVE  BitLength(n) \in Nat \ {0} /\ n < TwoTo[BitLength(n)]
  <1> DEFINE Fits == {b \in Nat \ {0} : n < TwoTo[b]}
             Is(b) == n < TwoTo[b] /\ (b = 1 \/ n >= TwoTo[b - 1])
  <1>1. n + 1 \in Fits
    <2>1. n + 1 < TwoTo[n + 1] /\ n + 1 \in Nat /\ TwoTo[n + 1] \in Nat
      BY PowersAreLarger, PowersOfTwo
    <2> QED
      BY <2>1
  <1>2. PICK b \in Fits : \A c \in Fits : b <= c
    <2> HIDE DEF Fits
    <2>1. Fits \subseteq Nat
      BY DEF Fits
    <2> QED
      BY <1>1, <2>1, LeastNatural
  <1>3. b \in 1..(n + 1)
    BY <1>1, <1>2
  <1>4. Is(b)
    <2>1. CASE b = 1
      BY <1>2, <2>1
    <2>2. CASE b # 1
      <3>1. b - 1 \in Nat \ {0} /\ b - 1 \notin Fits
        BY <1>2, <2>2
      <3>2. TwoTo[b - 1] \in Nat /\ ~(n < TwoTo[b - 1])
        BY <3>1, PowersOfTwo
      <3> QED
        BY <1>2, <3>2
    <2> QED
      BY <2>1, <2>2
  <1> HIDE DEF Is
  <1>5. BitLength(n) \in 1..(n + 1) /\ Is(BitLength(n))
    <2>1. BitLength(n) = CHOOSE c \in 1..(n + 1) : Is(c)
      BY DEF BitLength, Is
    <2> QED
      BY <1>3, <1>4, <2>1
  <1> QED
    BY <1>5 DEF Is

\* The groups have room for all bits, the sign apart.
LEMMA GroupsSuffice ==
    ASSUME NEW n \in Nat
    PROVE  Groups(n) \in Nat \ {0} /\ n < TwoTo[7 * Groups(n) - 1]
  <1> DEFINE b == BitLength(n)
             g == Groups(n)
  <1>1. b \in Nat \ {0} /\ n < TwoTo[b]
    BY BitLengthIs
  <1>2. g = IF b <= 6 THEN 1 ELSE 1 + (((b - 6) + 6) \div 7)
    BY DEF Groups
  <1> HIDE DEF b, g
  <1>3. g \in Nat \ {0} /\ b <= 7 * g - 1 /\ 7 * g - 1 \in Nat
    BY <1>1, <1>2
  <1>4. /\ TwoTo[b] <= TwoTo[7 * g - 1]
        /\ TwoTo[b] \in Nat /\ TwoTo[7 * g - 1] \in Nat
    BY <1>1, <1>3, PowersGrow, PowersOfTwo
  <1> QED
    BY <1>1, <1>3, <1>4 DEF g

\* The bytes of n: the first has the sign and six bits, the others seven bits each.
LEMMA IntMakes ==
    ASSUME NEW n \in Int
    PROVE  LET digits == EncodeInt(n)
           IN  /\ OneNumber(digits)
               /\ (digits[1] \div 64) % 2 = (IF n < 0 THEN 1 ELSE 0)
               /\ \E v : v[1] = Abs(n) /\ Makes(v, digits, 64, Len(digits))
  <1> DEFINE a == Abs(n)
             last == Groups(a)
             more(i) == IF i = last THEN 0 ELSE 128
             sign == IF n < 0 THEN 64 ELSE 0
             above(i) == a \div TwoTo[7 * i - 8]
             digits == EncodeInt(n)
             v == [i \in 1..last |-> IF i = 1 THEN a ELSE above(i)]
  <1>1. a \in Nat
    BY DEF Abs
  <1>2. last \in Nat \ {0} /\ a < TwoTo[7 * last - 1]
    BY <1>1, GroupsSuffice
  <1>3. digits = [i \in 1..last |->
                     more(i) + IF i = 1 THEN sign + (a % 64) ELSE above(i) % 128]
    BY DEF EncodeInt
  <1>4. ASSUME NEW i \in 2..last
        PROVE  above(i) \in Nat /\ above(i + 1) = above(i) \div 128
    <2>1. 7 * i - 8 \in Nat /\ 7 * (i + 1) - 8 = (7 * i - 8) + 7
      BY <1>2
    <2>2. /\ TwoTo[7 * i - 8] \in Nat \ {0}
          /\ TwoTo[7 * (i + 1) - 8] = 128 * TwoTo[7 * i - 8]
      BY <2>1, SevenPowers
    <2> DEFINE p == TwoTo[7 * i - 8]
    <2>3. a \div p \in Nat /\ a \div (128 * p) = (a \div p) \div 128
      BY <1>1, <2>2, DivideSevenTimes, ZenonT(60)
    <2> QED
      BY <2>2, <2>3
  <1>5. above(2) = a \div 64
    <2>1. TwoTo[6] = 64
      <3>1. /\ TwoTo[0] = 1 /\ TwoTo[0 + 1] = 2 * TwoTo[0] /\ TwoTo[1 + 1] = 2 * TwoTo[1]
            /\ TwoTo[2 + 1] = 2 * TwoTo[2] /\ TwoTo[3 + 1] = 2 * TwoTo[3]
            /\ TwoTo[4 + 1] = 2 * TwoTo[4] /\ TwoTo[5 + 1] = 2 * TwoTo[5]
        BY PowersOfTwo
      <3> QED
        BY <3>1
    <2> QED
      BY <2>1
  <1>6. above(last + 1) = 0
    <2> DEFINE p == TwoTo[7 * last - 1]
    <2>1. 7 * (last + 1) - 8 = 7 * last - 1 /\ 7 * last - 1 \in Nat
      BY <1>2
    <2>2. p \in Nat \ {0} /\ a < p
      BY <1>2, <2>1, PowersOfTwo
    <2>3. a \div p = 0
      <3>1. a = 0 * p + a
        BY <1>1, <2>2
      <3> QED
        BY <1>1, <2>2, <3>1, OnlyQuotient
    <2> QED
      BY <2>1, <2>3
  <1> HIDE DEF a, last, above, digits
  <1>7. ASSUME NEW i \in 2..last
        PROVE  /\ digits[i] = more(i) + (above(i) % 128)
               /\ digits[i] \in Nat /\ digits[i] % 128 = above(i) % 128
               /\ IF i = last THEN digits[i] < 128 ELSE digits[i] >= 128
    <2>1. above(i) % 128 \in 0..127
      BY <1>4
    <2> DEFINE low == above(i) % 128
    <2>2. digits[i] = more(i) + low
      BY <1>2, <1>3
    <2> HIDE DEF low
    <2>3. digits[i] \in Nat /\ digits[i] % 128 = low
      BY <2>1, <2>2 DEF low
    <2> QED
      BY <2>1, <2>2, <2>3 DEF low
  <1>8. /\ digits[1] = more(1) + (sign + (a % 64))
        /\ digits[1] \in Nat /\ digits[1] % 64 = a % 64
        /\ (digits[1] \div 64) % 2 = (IF n < 0 THEN 1 ELSE 0)
        /\ IF 1 = last THEN digits[1] < 128 ELSE digits[1] >= 128
    <2> DEFINE low == a % 64
    <2>1. low \in 0..63
      BY <1>1
    <2>2. digits[1] = more(1) + (sign + low)
      BY <1>2, <1>3
    <2> HIDE DEF low
    <2>3. /\ digits[1] \in Nat /\ digits[1] % 64 = low
          /\ (digits[1] \div 64) % 2 = (IF n < 0 THEN 1 ELSE 0)
          /\ IF 1 = last THEN digits[1] < 128 ELSE digits[1] >= 128
      BY <2>1, <2>2
    <2> QED
      BY <2>2, <2>3 DEF low
  <1>9. Len(digits) = last /\ digits \in Seq(Nat)
    <2>1. \A i \in 1..last : digits[i] \in Nat
      BY <1>2, <1>7, <1>8
    <2>2. digits = [i \in 1..last |-> digits[i]]
      BY <1>3, ZenonT(60)
    <2>3. digits \in [1..last -> Nat]
      BY <2>1, <2>2, Zenon
    <2> QED
      BY <1>2, <2>3
  <1>10. OneNumber(digits)
    <2>1. last = 1 \/ last \in 2..last
      BY <1>2
    <2>2. digits[last] < 128
      BY <1>7, <1>8, <2>1
    <2>3. ASSUME NEW i \in 1..(last - 1)
          PROVE  digits[i] >= 128
      <3>1. i # last /\ (i = 1 \/ i \in 2..last)
        BY <1>2
      <3> QED
        BY <1>7, <1>8, <3>1
    <2> QED
      BY <1>2, <1>9, <2>2, <2>3 DEF OneNumber
  <1>11. v[1] = a /\ \A i \in 2..last : v[i] = above(i)
    BY <1>2
  <1> HIDE DEF v
  <1>12. Makes(v, digits, 64, last)
    <2>1. /\ v[1] \in Nat
          /\ v[1] = (digits[1] % 64) + IF 1 = last THEN 0 ELSE 64 * v[2]
      <3>1. CASE last = 1
        <4>1. above(last + 1) = a \div 64
          BY <1>5, <3>1
        <4> QED
          BY <1>1, <1>6, <1>8, <1>11, <3>1, <4>1
      <3>2. CASE last # 1
        <4>1. v[2] = a \div 64
          BY <1>2, <1>5, <1>11, <3>2
        <4> QED
          BY <1>1, <1>8, <1>11, <3>2, <4>1
      <3> QED
        BY <3>1, <3>2
    <2>2. ASSUME NEW i \in 2..last
          PROVE  /\ v[i] \in Nat
                 /\ v[i] = (digits[i] % 128) + IF i = last THEN 0 ELSE 128 * v[i + 1]
      <3> DEFINE q == above(i)
      <3>1. v[i] = q /\ q \in Nat /\ digits[i] % 128 = q % 128 /\ above(i + 1) = q \div 128
        BY <1>4, <1>7, <1>11
      <3> HIDE DEF q
      <3>2. CASE i = last
        BY <1>6, <3>1, <3>2
      <3>3. CASE i # last
        <4>1. v[i + 1] = q \div 128
          BY <1>2, <1>11, <3>1, <3>3
        <4> QED
          BY <3>1, <3>3, <4>1
      <3> QED
        BY <3>2, <3>3
    <2> QED
      BY <1>2, <2>1, <2>2 DEF Makes, Base
  <1> QED
    BY <1>8, <1>9, <1>10, <1>11, <1>12 DEF a, digits

\* A number of either sign reads back, whatever comes after it: intDecoder undoes
\* intEncoder for every integer.
THEOREM SignedNumbersReadBack ==
    \A n \in Int : \A rest \in Seq(Nat) :
        ReadInt(EncodeInt(n) \o rest) = Parsed(<<"int", n>>, rest)
  <1> SUFFICES ASSUME NEW n \in Int, NEW rest \in Seq(Nat)
               PROVE  ReadInt(EncodeInt(n) \o rest) = Parsed(<<"int", n>>, rest)
    OBVIOUS
  <1> DEFINE digits == EncodeInt(n)
             bytes == digits \o rest
  <1>1. PICK v : v[1] = Abs(n) /\ Makes(v, digits, 64, Len(digits))
    BY IntMakes
  <1>2. OneNumber(digits) /\ (digits[1] \div 64) % 2 = (IF n < 0 THEN 1 ELSE 0)
    BY IntMakes
  <1> HIDE DEF digits
  <1>3. /\ LastByte(bytes) \in DOMAIN bytes /\ bytes[LastByte(bytes)] < 128
        /\ bytes[1] = digits[1]
        /\ From(bytes, LastByte(bytes) + 1) = rest
        /\ NumberIn(bytes, 64) = Abs(n)
    BY <1>1, <1>2, ReadsOneNumber, SMTT(60)
  <1>4. ~\A i \in DOMAIN bytes : bytes[i] >= 128
    <2>1. bytes \in Seq(Nat)
      BY <1>2 DEF OneNumber
    <2> HIDE DEF bytes
    <2>2. \A i \in DOMAIN bytes : bytes[i] \in Nat
      BY <2>1
    <2> QED
      BY <1>3, <2>2
  <1> HIDE DEF bytes
  <1>5. (IF (bytes[1] \div 64) % 2 = 1 THEN -Abs(n) ELSE Abs(n)) = n
    BY <1>2, <1>3 DEF Abs
  <1>6. ReadInt(bytes) = Parsed(<<"int", n>>, rest)
    BY <1>3, <1>4, <1>5 DEF ReadInt
  <1> QED
    BY <1>6 DEF bytes, digits

-----------------------------------------------------------------------------
(* MichelineForging: lengths *)

\* A byte of a number, and what is above it.
LEMMA OneByte ==
    ASSUME NEW n \in Nat
    PROVE  /\ n \div 256 \in Nat /\ n % 256 \in 0..255
           /\ n = 256 * (n \div 256) + (n % 256)
  OBVIOUS

\* A length has as many bytes.
Four == 4

\* The four bytes of a length make the length again.
LEMMA FourBytes ==
    ASSUME NEW n \in Nat
    PROVE  LET bytes == Bytes4(n)
           IN  /\ bytes \in Seq(Nat) /\ Len(bytes) = Four
               /\ n = 256 * (256 * (256 * bytes[1] + bytes[2]) + bytes[3]) + bytes[4]
               /\ n <= MaxLength => bytes[1] < 128
  <1> DEFINE a == n \div 256
             b == a \div 256
             c == b \div 256
             x == n % 256
             y == a % 256
             z == b % 256
  <1>1. Bytes4(n) = <<c, z, y, x>>
    BY DEF Bytes4
  <1>2. a \in Nat /\ x \in 0..255 /\ n = 256 * a + x
    BY OneByte
  <1> HIDE DEF a, x
  <1>3. b \in Nat /\ y \in 0..255 /\ a = 256 * b + y
    BY <1>2, OneByte
  <1> HIDE DEF b, y
  <1>4. c \in Nat /\ z \in 0..255 /\ b = 256 * c + z
    BY <1>3, OneByte
  <1> HIDE DEF c, z
  <1>5. n <= MaxLength => c < 128
    BY <1>2, <1>3, <1>4, SMT DEF MaxLength
  <1> QED
    BY <1>1, <1>2, <1>3, <1>4, <1>5 DEF Four

\* What comes behind what.
LEMMA Concat ==
    ASSUME NEW a \in Seq(Nat), NEW b \in Seq(Nat)
    PROVE  /\ a \o b \in Seq(Nat) /\ Len(a \o b) = Len(a) + Len(b)
           /\ Len(a) \in Nat /\ Len(b) \in Nat
           /\ \A i \in 1..Len(a) : (a \o b)[i] = a[i]
           /\ \A i \in 1..Len(b) : (a \o b)[Len(a) + i] = b[i]
  OBVIOUS

\* What is behind the first n bytes.
LEMMA FromBehind ==
    ASSUME NEW a \in Seq(Nat), NEW b \in Seq(Nat)
    PROVE  From(a \o b, Len(a) + 1) = b
  <1> DEFINE bytes == a \o b
             rest == From(bytes, Len(a) + 1)
  <1>1. /\ bytes \in Seq(Nat) /\ Len(bytes) = Len(a) + Len(b)
        /\ Len(a) \in Nat /\ Len(b) \in Nat
        /\ \A i \in 1..Len(b) : bytes[Len(a) + i] = b[i]
    OBVIOUS
  <1> HIDE DEF bytes
  <1>2. \A i \in (Len(a) + 1)..Len(bytes) : bytes[i] \in Nat
    BY <1>1
  <1>3. /\ rest \in Seq(Nat) /\ Len(rest) = Len(b)
        /\ \A i \in 1..Len(b) : rest[i] = bytes[Len(a) + i]
    BY <1>1, <1>2 DEF From
  <1>4. rest = b
    <2> HIDE DEF rest
    <2> QED
      BY <1>1, <1>3, SeqEqual
  <1> QED
    BY <1>4 DEF bytes

\* Appending is associative.
LEMMA Behind2 ==
    ASSUME NEW a \in Seq(Nat), NEW b \in Seq(Nat), NEW c \in Seq(Nat)
    PROVE  a \o b \in Seq(Nat) /\ (a \o b) \o c = a \o (b \o c)
  BY ConcatProperties, ConcatAssociative, SMTT(60)

\* What is between the first bytes and the last.
LEMMA Between ==
    ASSUME NEW a \in Seq(Nat), NEW b \in Seq(Nat), NEW c \in Seq(Nat)
    PROVE  LET bytes == a \o (b \o c)
           IN  /\ bytes \in Seq(Nat) /\ Len(bytes) = Len(a) + Len(b) + Len(c)
               /\ \A i \in 1..Len(a) : bytes[i] = a[i] /\ a[i] \in Nat
               /\ SubSeq(bytes, Len(a) + 1, Len(a) + Len(b)) = b
               /\ From(bytes, Len(a) + Len(b) + 1) = c
  <1> DEFINE back == b \o c
             bytes == a \o back
             inner == SubSeq(bytes, Len(a) + 1, Len(a) + Len(b))
  <1>1. back \in Seq(Nat) /\ Len(a) \in Nat /\ Len(b) \in Nat /\ Len(c) \in Nat
    BY Concat
  <1>2. bytes = (a \o b) \o c /\ a \o b \in Seq(Nat) /\ Len(a \o b) = Len(a) + Len(b)
    <2>1. a \o b \in Seq(Nat) /\ Len(a \o b) = Len(a) + Len(b)
      BY Concat
    <2>2. (a \o b) \o c = a \o (b \o c)
      BY Behind2, SMTT(60)
    <2> QED
      BY <2>1, <2>2, Zenon
  <1>3. From(bytes, Len(a) + Len(b) + 1) = c
    BY <1>2, FromBehind
  <1>4. Len(back) = Len(b) + Len(c) /\ \A i \in 1..Len(b) : back[i] = b[i] /\ b[i] \in Nat
    BY Concat
  <1> HIDE DEF back
  <1>5. /\ bytes \in Seq(Nat) /\ Len(bytes) = Len(a) + Len(back)
        /\ \A i \in 1..Len(a) : bytes[i] = a[i] /\ a[i] \in Nat
        /\ \A i \in 1..Len(back) : bytes[Len(a) + i] = back[i]
    BY <1>1, Concat
  <1> HIDE DEF bytes
  <1>6. /\ inner \in Seq(Nat) /\ Len(inner) = Len(b)
        /\ \A i \in 1..Len(b) : inner[i] = b[i]
    <2> DEFINE n == Len(a)
               m == Len(b)
               k == Len(bytes)
    <2> DEFINE l == Len(c)
    <2>1. n \in Nat /\ m \in Nat /\ l \in Nat /\ k = n + (m + l)
      BY <1>1, <1>4, <1>5, Zenon
    <2> HIDE DEF l, k
    <2>2. k \in Nat /\ n + m <= k
      <3> HIDE DEF n, m
      <3> QED
        BY <2>1
    <2> USE DEF k
    <2>3. \A i \in 1..m : bytes[n + i] = b[i]
      <3> SUFFICES ASSUME NEW i \in 1..m
                   PROVE  bytes[n + i] = b[i]
        OBVIOUS
      <3> DEFINE j == Len(back)
      <3>1. j = m + Len(c) /\ Len(c) \in Nat /\ m \in Nat
        BY <1>1, <1>4
      <3>2. i \in 1..j
        <4> HIDE DEF j, m
        <4> QED
          BY <3>1
      <3> QED
        BY <1>4, <1>5, <3>2, Zenon
    <2> HIDE DEF n, m
    <2>4. /\ SubSeq(bytes, n + 1, n + m) \in Seq(Nat)
          /\ Len(SubSeq(bytes, n + 1, n + m)) = m
          /\ \A i \in 1..m : SubSeq(bytes, n + 1, n + m)[i] = bytes[n + i]
      BY <1>5, <2>1, <2>2, SMTT(60)
    <2> QED
      BY <2>3, <2>4 DEF n, m
  <1> HIDE DEF inner
  <1>7. inner = b
    BY <1>6, SeqEqual
  <1> QED
    BY <1>1, <1>3, <1>4, <1>5, <1>7 DEF inner, bytes, back

\* What has a length in front.
LEMMA WithLengthType ==
    ASSUME NEW text \in Seq(Nat)
    PROVE  WithLength(text) \in Seq(Nat) /\ Len(WithLength(text)) = Four + Len(text)
  <1> DEFINE four == Bytes4(Len(text))
  <1>1. Len(text) \in Nat
    OBVIOUS
  <1>2. four \in Seq(Nat) /\ Len(four) = Four
    BY <1>1, FourBytes
  <1>3. WithLength(text) = four \o text
    BY DEF WithLength
  <1> HIDE DEF four
  <1> QED
    BY <1>2, <1>3, Concat

\* Four bytes are skipped.
LEMMA Skip4Back ==
    ASSUME NEW four \in Seq(Nat), Len(four) = Four, NEW rest \in Seq(Nat)
    PROVE  Skip4(four \o rest) = Parsed(<<>>, rest)
  <1>1. From(four \o rest, Four + 1) = rest
    BY FromBehind
  <1>2. Len(four \o rest) = Len(four) + Len(rest) /\ Len(rest) \in Nat
    BY Concat
  <1> DEFINE bytes == four \o rest
  <1> HIDE DEF bytes
  <1>3. ~(Len(bytes) < 4) /\ Four + 1 = 5
    BY <1>2 DEF Four, bytes
  <1> QED
    BY <1>1, <1>3 DEF Skip4, bytes

\* extractRequiredLen takes what has a length in front, and leaves the others.
LEMMA ExtractBack ==
    ASSUME NEW text \in Seq(Nat), Len(text) <= MaxLength, NEW rest \in Seq(Nat)
    PROVE  Extract(WithLength(text) \o rest) = Parsed(text, rest)
  <1> DEFINE four == Bytes4(Len(text))
             bytes == WithLength(text) \o rest
             n == Len(text)
  <1>1. n \in Nat /\ Len(rest) \in Nat
    OBVIOUS
  <1>2. /\ four \in Seq(Nat) /\ Len(four) = Four
        /\ n = 256 * (256 * (256 * four[1] + four[2]) + four[3]) + four[4]
        /\ four[1] < 128
    BY <1>1, FourBytes
  <1> HIDE DEF four
  <1>3. bytes = four \o (text \o rest)
    BY <1>2, Behind2, ZenonT(60) DEF WithLength, four
  <1> HIDE DEF bytes
  <1>4. /\ Len(bytes) = Four + n + Len(rest)
        /\ \A i \in 1..Four : bytes[i] = four[i] /\ four[i] \in Nat
        /\ SubSeq(bytes, Four + 1, Four + n) = text
        /\ From(bytes, Four + n + 1) = rest
    <2>1. four \in Seq(Nat)
      BY <1>2
    <2> DEFINE same == four \o (text \o rest)
    <2>2. /\ Len(same) = Len(four) + n + Len(rest)
          /\ \A i \in 1..Len(four) : same[i] = four[i] /\ four[i] \in Nat
          /\ SubSeq(same, Len(four) + 1, Len(four) + n) = text
          /\ From(same, Len(four) + n + 1) = rest
      BY <2>1, Between, SMTT(60)
    <2> HIDE DEF same
    <2>3. Len(four) = Four /\ bytes = same
      BY <1>2, <1>3 DEF same
    <2> QED
      BY <2>2, <2>3, Zenon
  <1> HIDE DEF n
  <1>5. Four + 1 = 5 /\ Four + n = 4 + n /\ Four + n + 1 = 5 + n
    BY <1>1 DEF Four
  <1>6. /\ bytes[1] = four[1] /\ bytes[2] = four[2] /\ bytes[3] = four[3]
        /\ bytes[4] = four[4] /\ four[1] \in Nat
    BY <1>4 DEF Four
  <1>7. ~(Len(bytes) < 4) /\ ~(Len(bytes) - 4 < n)
    <2> DEFINE all == Len(bytes)
    <2>1. all = Four + n + Len(rest)
      BY <1>4
    <2> HIDE DEF all
    <2>2. ~(all < 4) /\ ~(all - 4 < n)
      BY <1>1, <2>1 DEF Four
    <2> QED
      BY <2>2 DEF all
  <1>8. ~(bytes[1] >= 128)
    <2> DEFINE first == four[1]
    <2>1. first \in Nat /\ first < 128
      BY <1>2, <1>6
    <2> HIDE DEF first
    <2>2. ~(first >= 128)
      BY <2>1
    <2> QED
      BY <1>6, <2>2 DEF first
  <1>9. 256 * (256 * (256 * bytes[1] + bytes[2]) + bytes[3]) + bytes[4] = n
    BY <1>2, <1>6, SMTT(60)
  <1>10. SubSeq(bytes, 5, 4 + n) = text /\ From(bytes, 5 + n) = rest
    BY <1>4, <1>5
  <1>11. Extract(bytes) = Parsed(SubSeq(bytes, 5, 4 + n), From(bytes, 5 + n))
    BY <1>7, <1>8, <1>9, SMTT(60) DEF Extract
  <1> QED
    BY <1>10, <1>11 DEF bytes

-----------------------------------------------------------------------------
(* MichelineForging: parts that are joined *)

\* What the parts from the i-th of n on make, with j for those from the next one on.
JoinsOne(j, parts, n, i) == IF i > n THEN <<>> ELSE parts[i] \o j[i + 1]

\* j has what the parts from each one on make.
Joins(j, parts) ==
    \A i \in 1..(Len(parts) + 1) : /\ j[i] \in Seq(Nat)
                                   /\ j[i] = JoinsOne(j, parts, Len(parts), i)

\* The recursive definition of join has a solution, which is made of bytes.
LEMMA JoinedIs ==
    ASSUME NEW parts, Len(parts) \in Nat, \A i \in 1..Len(parts) : parts[i] \in Seq(Nat)
    PROVE  \E j : Joins(j, parts) /\ j[1] = Joined(parts)
  <1> DEFINE n == Len(parts)
             Is(j) == j = [i \in 1..(n + 1) |->
                              IF i > n THEN <<>> ELSE parts[i] \o j[i + 1]]
             Last(j, k) == \A i \in 1..(n + 1) :
                              i + k > n => j[i] \in Seq(Nat) /\ j[i] = JoinsOne(j, parts, n, i)
             Good == {k \in Nat : \E j : Last(j, k)}
             joined == CHOOSE j : Is(j)
  <1>1. Joined(parts) = joined[1]
    BY DEF Joined
  <1>2. n \in Nat /\ \A i \in 1..n : parts[i] \in Seq(Nat)
    OBVIOUS
  <1> HIDE DEF n
  <1>3. 0 \in Good
    <2> DEFINE j == [i \in 1..(n + 1) |-> <<>>]
    <2>1. Last(j, 0)
      <3> SUFFICES ASSUME NEW i \in 1..(n + 1), i + 0 > n
                   PROVE  j[i] \in Seq(Nat) /\ j[i] = JoinsOne(j, parts, n, i)
        OBVIOUS
      <3>1. j[i] = <<>> /\ <<>> \in Seq(Nat) /\ i > n
        BY <1>2
      <3> QED
        BY <3>1 DEF JoinsOne
    <2> QED
      BY <2>1
  <1>4. ASSUME NEW k \in Nat, k \in Good
        PROVE  k + 1 \in Good
    <2>1. PICK y : Last(y, k)
      BY <1>4
    <2> DEFINE j == [i \in 1..(n + 1) |-> IF i + k > n THEN y[i] ELSE parts[i] \o y[i + 1]]
    <2>2. \A i \in 1..(n + 1) : j[i] = IF i + k > n THEN y[i] ELSE parts[i] \o y[i + 1]
      OBVIOUS
    <2> HIDE DEF j
    <2>3. Last(j, k + 1)
      <3> SUFFICES ASSUME NEW i \in 1..(n + 1), i + (k + 1) > n
                   PROVE  j[i] \in Seq(Nat) /\ j[i] = JoinsOne(j, parts, n, i)
        OBVIOUS
      <3>1. CASE i > n
        <4>1. i + k > n
          BY <1>2, <3>1
        <4>2. j[i] = y[i] /\ y[i] \in Seq(Nat) /\ y[i] = <<>>
          BY <2>1, <2>2, <3>1, <4>1 DEF JoinsOne
        <4> QED
          BY <3>1, <4>2 DEF JoinsOne
      <3>2. CASE ~(i > n)
        <4>1. i + 1 \in 1..(n + 1) /\ (i + 1) + k > n /\ i \in 1..n
          BY <1>2, <3>2
        <4>2. j[i + 1] = y[i + 1] /\ y[i + 1] \in Seq(Nat)
          BY <2>1, <2>2, <4>1
        <4>3. j[i] = parts[i] \o y[i + 1]
          <5>1. CASE i + k > n
            BY <2>1, <2>2, <3>2, <5>1 DEF JoinsOne
          <5>2. CASE ~(i + k > n)
            BY <2>2, <5>2
          <5> QED
            BY <5>1, <5>2
        <4>4. j[i] \in Seq(Nat)
          BY <1>2, <4>1, <4>2, <4>3, Concat
        <4> QED
          BY <3>2, <4>2, <4>3, <4>4 DEF JoinsOne
      <3> QED
        BY <3>1, <3>2
    <2> QED
      BY <2>3
  <1>5. Nat \subseteq Good
    <2> HIDE DEF Good
    <2> QED
      BY <1>3, <1>4, AllNaturals
  <1>6. PICK z : Last(z, n)
    BY <1>2, <1>5
  <1>7. \A i \in 1..(n + 1) : i + n > n
    BY <1>2
  <1>8. Is([i \in 1..(n + 1) |-> z[i]])
    <2> DEFINE j == [i \in 1..(n + 1) |-> z[i]]
    <2>1. ASSUME NEW i \in 1..(n + 1)
          PROVE  z[i] = IF i > n THEN <<>> ELSE parts[i] \o j[i + 1]
      <3>1. z[i] = IF i > n THEN <<>> ELSE parts[i] \o z[i + 1]
        BY <1>6, <1>7 DEF JoinsOne
      <3>2. CASE i > n
        BY <3>1, <3>2
      <3>3. CASE ~(i > n)
        <4>1. i + 1 \in 1..(n + 1)
          BY <1>2, <3>3
        <4>2. j[i + 1] = z[i + 1]
          BY <4>1
        <4> HIDE DEF j
        <4> QED
          BY <3>1, <3>3, <4>2
      <3> QED
        BY <3>2, <3>3
    <2>2. j = [i \in 1..(n + 1) |-> IF i > n THEN <<>> ELSE parts[i] \o j[i + 1]]
      BY <2>1, Zenon
    <2> QED
      BY <2>2
  <1>9. Is(joined)
    <2> HIDE DEF Is
    <2> QED
      BY <1>8
  <1>10. \A i \in 1..(n + 1) : joined[i] = IF i > n THEN <<>> ELSE parts[i] \o joined[i + 1]
    BY <1>9, Zenon
  <1> HIDE DEF joined
  <1> DEFINE Typed == {k \in Nat : \A i \in 1..(n + 1) : i + k > n => joined[i] \in Seq(Nat)}
  <1>11. ASSUME NEW k \in Nat, \A m \in Nat : m < k => m \in Typed
         PROVE  k \in Typed
    <2> SUFFICES ASSUME NEW i \in 1..(n + 1), i + k > n
                 PROVE  joined[i] \in Seq(Nat)
      OBVIOUS
    <2>1. CASE i > n
      <3>1. joined[i] = <<>>
        BY <1>10, <2>1
      <3> QED
        BY <3>1
    <2>2. CASE ~(i > n)
      <3>1. k - 1 \in Nat /\ k - 1 < k /\ i + 1 \in 1..(n + 1) /\ (i + 1) + (k - 1) > n /\ i \in 1..n
        BY <1>2, <2>2
      <3>2. joined[i + 1] \in Seq(Nat) /\ parts[i] \in Seq(Nat)
        BY <1>2, <1>11, <3>1
      <3>3. joined[i] = parts[i] \o joined[i + 1]
        BY <1>10, <2>2
      <3> QED
        BY <3>2, <3>3, Concat
    <2> QED
      BY <2>1, <2>2
  <1>12. Nat \subseteq Typed
    <2> HIDE DEF Typed
    <2> QED
      BY <1>11, AllNaturalsInOrder
  <1>13. Joins(joined, parts)
    <2>1. \A i \in 1..(n + 1) : joined[i] \in Seq(Nat)
      BY <1>2, <1>7, <1>12
    <2> QED
      BY <1>10, <2>1, Zenon DEF Joins, JoinsOne, n
  <1> QED
    BY <1>1, <1>13

\* No part has more bytes than all of them; if each has one, there are as many at least.
LEMMA PartsAreShorter ==
    ASSUME NEW parts, Len(parts) \in Nat, \A i \in 1..Len(parts) : parts[i] \in Seq(Nat),
           NEW j, Joins(j, parts)
    PROVE  /\ \A i \in 1..Len(parts) : Len(parts[i]) <= Len(j[1])
           /\ (\A i \in 1..Len(parts) : parts[i] # <<>>) => Len(parts) <= Len(j[1])
  <1> DEFINE n == Len(parts)
             length(i) == Len(j[i])
  <1>1. /\ n \in Nat /\ \A i \in 1..n : parts[i] \in Seq(Nat)
        /\ \A i \in 1..(n + 1) : j[i] \in Seq(Nat) /\ j[i] = JoinsOne(j, parts, n, i)
    BY DEF Joins
  <1> HIDE DEF n
  <1>2. \A i \in 1..(n + 1) : length(i) \in Nat
    BY <1>1
  <1>3. ASSUME NEW i \in 1..n
        PROVE  /\ i \in 1..(n + 1) /\ i + 1 \in 1..(n + 1) /\ Len(parts[i]) \in Nat
               /\ length(i) = Len(parts[i]) + length(i + 1)
    <2>1. i \in 1..(n + 1) /\ i + 1 \in 1..(n + 1) /\ ~(i > n)
      BY <1>1
    <2>2. j[i] = parts[i] \o j[i + 1] /\ j[i + 1] \in Seq(Nat) /\ parts[i] \in Seq(Nat)
      BY <1>1, <2>1 DEF JoinsOne
    <2> QED
      BY <2>1, <2>2, Concat
  <1> HIDE DEF length
  <1> DEFINE Below == {m \in Nat : \A i \in 1..(n + 1) : i = m + 1 => length(i) <= length(1)}
  <1>4. 0 \in Below
    <2>1. 1 \in 1..(n + 1)
      BY <1>1
    <2> QED
      BY <1>2, <2>1
  <1>5. ASSUME NEW m \in Nat, m \in Below
        PROVE  m + 1 \in Below
    <2> SUFFICES ASSUME m + 2 \in 1..(n + 1)
                 PROVE  length(m + 2) <= length(1)
      OBVIOUS
    <2>1. m + 1 \in 1..n /\ m + 1 \in 1..(n + 1) /\ 1 \in 1..(n + 1) /\ (m + 1) + 1 = m + 2
      BY <1>1
    <2>2. length(m + 1) <= length(1)
      BY <1>5, <2>1
    <2>3. length(m + 1) = Len(parts[m + 1]) + length(m + 2) /\ Len(parts[m + 1]) \in Nat
      BY <1>3, <2>1
    <2> QED
      BY <1>2, <2>1, <2>2, <2>3
  <1>6. Nat \subseteq Below
    <2> HIDE DEF Below
    <2> QED
      BY <1>4, <1>5, AllNaturals
  <1>7. ASSUME NEW i \in 1..n
        PROVE  Len(parts[i]) <= length(1)
    <2>1. i - 1 \in Nat /\ (i - 1) + 1 = i /\ i \in 1..(n + 1) /\ 1 \in 1..(n + 1)
      BY <1>1
    <2>2. length(i) <= length(1)
      BY <1>6, <2>1
    <2>3. /\ length(i) = Len(parts[i]) + length(i + 1) /\ Len(parts[i]) \in Nat
          /\ i + 1 \in 1..(n + 1)
      BY <1>3
    <2> QED
      BY <1>2, <2>1, <2>2, <2>3
  <1>8. ASSUME \A i \in 1..n : parts[i] # <<>>
        PROVE  n <= length(1)
    <2> DEFINE Many == {m \in Nat : \A i \in 1..(n + 1) : i + m = n + 1 => m <= length(i)}
    <2>1. 0 \in Many
      BY <1>2
    <2>2. ASSUME NEW m \in Nat, m \in Many
          PROVE  m + 1 \in Many
      <3> SUFFICES ASSUME NEW i \in 1..(n + 1), i + (m + 1) = n + 1
                   PROVE  m + 1 <= length(i)
        OBVIOUS
      <3>1. i \in 1..n /\ i + 1 \in 1..(n + 1) /\ (i + 1) + m = n + 1
        BY <1>1
      <3>2. m <= length(i + 1)
        BY <2>2, <3>1
      <3>3. Len(parts[i]) # 0
        <4>1. parts[i] \in Seq(Nat) /\ parts[i] # <<>>
          BY <1>1, <1>8, <3>1
        <4> QED
          BY <4>1, EmptySeq
      <3>4. length(i) = Len(parts[i]) + length(i + 1) /\ Len(parts[i]) \in Nat
        BY <1>3, <3>1
      <3> QED
        BY <1>2, <3>1, <3>2, <3>3, <3>4
    <2>3. Nat \subseteq Many
      <3> HIDE DEF Many
      <3> QED
        BY <2>1, <2>2, AllNaturals
    <2>4. 1 \in 1..(n + 1) /\ 1 + n = n + 1
      BY <1>1
    <2> QED
      BY <1>1, <2>3, <2>4
  <1> QED
    BY <1>7, <1>8 DEF n, length

-----------------------------------------------------------------------------
(* MichelineForging: values one behind the other *)

\* joined[i] has the bytes from the i-th of n values on, and reader reads each of them.
Follow(reader, vals, joined, n) ==
    \A i \in 1..n : reader[joined[i]] = Parsed(vals[i], joined[i + 1])

\* What has been read when the first i of them have.
ReadFirst(vals, joined, i) == Parsed([m \in 1..i |-> vals[m]], joined[i + 1])

\* The next one is appended.
LEMMA ReadOneMoreBack ==
    ASSUME NEW reader, NEW vals, NEW joined, NEW n \in Nat, Follow(reader, vals, joined, n),
           NEW i \in 1..n
    PROVE  ReadOneMore(reader, ReadFirst(vals, joined, i - 1)) = ReadFirst(vals, joined, i)
  <1> DEFINE S == {vals[m] : m \in 1..n}
             before == [m \in 1..(i - 1) |-> vals[m]]
             after == [m \in 1..i |-> vals[m]]
             longer == Append(before, vals[i])
             first == ReadFirst(vals, joined, i - 1)
  <1>1. before \in Seq(S) /\ after \in Seq(S) /\ Len(before) = i - 1 /\ Len(after) = i
        /\ vals[i] \in S
    OBVIOUS
  <1>2. /\ \A m \in 1..(i - 1) : before[m] = vals[m]
        /\ \A m \in 1..i : after[m] = vals[m]
    OBVIOUS
  <1> HIDE DEF before, after, S
  <1>3. /\ longer \in Seq(S) /\ Len(longer) = (i - 1) + 1
        /\ \A m \in 1..(i - 1) : longer[m] = before[m]
        /\ longer[(i - 1) + 1] = vals[i]
    BY <1>1, AppendProperties
  <1> HIDE DEF longer
  <1>4. longer = after
    <2>1. Len(longer) = i /\ longer[i] = vals[i]
      BY <1>3
    <2>2. \A m \in 1..i : longer[m] = after[m]
      BY <1>2, <1>3, <2>1
    <2> QED
      BY <1>1, <1>3, <2>1, <2>2, SeqEqual
  <1>5. (i - 1) + 1 = i
    OBVIOUS
  <1>6. first.ok /\ first.value = before /\ first.rest = joined[i]
    BY <1>5 DEF ReadFirst, Parsed, before
  <1> HIDE DEF first
  <1>7. reader[first.rest] = Parsed(vals[i], joined[i + 1])
    BY <1>6 DEF Follow
  <1>8. /\ reader[first.rest].ok /\ reader[first.rest].value = vals[i]
        /\ reader[first.rest].rest = joined[i + 1]
    BY <1>7 DEF Parsed
  <1>9. ReadOneMore(reader, first) = Parsed(Append(before, vals[i]), joined[i + 1])
    BY <1>6, <1>8, Zenon DEF ReadOneMore
  <1> QED
    BY <1>4, <1>9 DEF ReadFirst, after, longer, first

\* No value has been read yet.
LEMMA ReadNone ==
    ASSUME NEW vals, NEW joined
    PROVE  ReadFirst(vals, joined, 0) = Parsed(<<>>, joined[1])
  <1>1. [m \in 1..0 |-> vals[m]] = <<>>
    OBVIOUS
  <1> QED
    BY <1>1 DEF ReadFirst

\* As many values as are told.
LEMMA ReadValuesBack ==
    ASSUME NEW reader, NEW vals, NEW joined, NEW n \in Nat, Follow(reader, vals, joined, n)
    PROVE  ReadValues(reader, joined[1], n) = ReadFirst(vals, joined, n)
  <1> DEFINE Is(got) == got = [i \in 0..n |->
                                   IF i = 0 THEN Parsed(<<>>, joined[1])
                                   ELSE ReadOneMore(reader, got[i - 1])]
             got == CHOOSE got : Is(got)
             all == [i \in 0..n |-> ReadFirst(vals, joined, i)]
  <1>1. Is(all)
    <2>1. ASSUME NEW i \in 0..n
          PROVE  ReadFirst(vals, joined, i) =
                     IF i = 0 THEN Parsed(<<>>, joined[1]) ELSE ReadOneMore(reader, all[i - 1])
      <3>1. CASE i = 0
        BY <3>1, ReadNone
      <3>2. CASE i # 0
        <4>1. i - 1 \in 0..n /\ i \in 1..n
          BY <3>2
        <4>2. all[i - 1] = ReadFirst(vals, joined, i - 1)
          BY <4>1
        <4> HIDE DEF all
        <4> QED
          BY <3>2, <4>1, <4>2, ReadOneMoreBack
      <3> QED
        BY <3>1, <3>2
    <2>2. all = [i \in 0..n |-> IF i = 0 THEN Parsed(<<>>, joined[1])
                               ELSE ReadOneMore(reader, all[i - 1])]
      BY <2>1, Zenon
    <2> QED
      BY <2>2
  <1>2. Is(got)
    <2> HIDE DEF Is, all
    <2> QED
      BY <1>1
  <1>3. ReadValues(reader, joined[1], n) = got[n]
    BY DEF ReadValues
  <1>4. \A i \in 0..n : got[i] = IF i = 0 THEN Parsed(<<>>, joined[1])
                                 ELSE ReadOneMore(reader, got[i - 1])
    BY <1>2, Zenon
  <1> HIDE DEF got
  <1> DEFINE Good == {i \in Nat : i <= n => got[i] = ReadFirst(vals, joined, i)}
  <1>5. 0 \in Good
    <2>1. 0 \in 0..n
      OBVIOUS
    <2> QED
      BY <1>4, <2>1, ReadNone
  <1>6. ASSUME NEW i \in Nat, i \in Good
        PROVE  i + 1 \in Good
    <2> SUFFICES ASSUME i + 1 <= n
                 PROVE  got[i + 1] = ReadFirst(vals, joined, i + 1)
      OBVIOUS
    <2>1. i + 1 \in 0..n /\ i + 1 \in 1..n /\ i + 1 # 0 /\ (i + 1) - 1 = i /\ i <= n
      OBVIOUS
    <2>2. got[i] = ReadFirst(vals, joined, i)
      BY <1>6, <2>1
    <2>3. got[i + 1] = ReadOneMore(reader, got[i])
      BY <1>4, <2>1
    <2>4. ReadOneMore(reader, ReadFirst(vals, joined, i)) = ReadFirst(vals, joined, i + 1)
      BY <2>1, ReadOneMoreBack
    <2> QED
      BY <2>2, <2>3, <2>4
  <1>7. Nat \subseteq Good
    <2> HIDE DEF Good
    <2> QED
      BY <1>5, <1>6, AllNaturals
  <1> QED
    BY <1>3, <1>7

\* As many values as there are.
LEMMA ReadAllBack ==
    ASSUME NEW reader, NEW vals, NEW joined, NEW n \in Nat, Follow(reader, vals, joined, n),
           joined[n + 1] = <<>>, \A i \in 1..n : joined[i] # <<>>,
           NEW most \in Nat, Len(joined[1]) = most, n <= most
    PROVE  ReadAll(reader, joined[1]) = ReadFirst(vals, joined, n)
  <1> DEFINE Next1(got, i) == IF got[i - 1].rest = <<>> THEN got[i - 1]
                               ELSE ReadOneMore(reader, got[i - 1])
             Is(got) == got = [i \in 0..most |->
                                   IF i = 0 THEN Parsed(<<>>, joined[1])
                                   ELSE Next1(got, i)]
             got == CHOOSE got : Is(got)
             upto(i) == IF i <= n THEN i ELSE n
             all == [i \in 0..most |-> ReadFirst(vals, joined, upto(i))]
  <1>1. ASSUME NEW i \in Nat \ {0}, NEW before, before = ReadFirst(vals, joined, upto(i - 1))
        PROVE  ReadFirst(vals, joined, upto(i)) =
                   IF before.rest = <<>> THEN before ELSE ReadOneMore(reader, before)
    <2>1. CASE i <= n
      <3>1. i \in 1..n /\ upto(i) = i /\ upto(i - 1) = i - 1 /\ (i - 1) + 1 = i
        BY <2>1
      <3>2. before.rest = joined[i]
        BY <1>1, <3>1 DEF ReadFirst, Parsed
      <3>3. ReadOneMore(reader, before) = ReadFirst(vals, joined, i)
        BY <1>1, <3>1, ReadOneMoreBack
      <3> QED
        BY <3>1, <3>2, <3>3
    <2>2. CASE ~(i <= n)
      <3>1. upto(i) = n /\ upto(i - 1) = n
        BY <2>2
      <3>2. before.rest = <<>>
        BY <1>1, <3>1 DEF ReadFirst, Parsed
      <3> QED
        BY <1>1, <3>1, <3>2
    <2> QED
      BY <2>1, <2>2
  <1>2. upto(0) = 0 /\ upto(most) = n
    OBVIOUS
  <1> HIDE DEF upto
  <1>3. Is(all)
    <2>1. ASSUME NEW i \in 0..most
          PROVE  ReadFirst(vals, joined, upto(i)) =
                     IF i = 0 THEN Parsed(<<>>, joined[1]) ELSE Next1(all, i)
      <3>1. CASE i = 0
        BY <1>2, <3>1, ReadNone
      <3>2. CASE i # 0
        <4>1. i - 1 \in 0..most /\ i \in Nat \ {0}
          BY <3>2
        <4>2. all[i - 1] = ReadFirst(vals, joined, upto(i - 1))
          BY <4>1
        <4> HIDE DEF all
        <4> QED
          BY <1>1, <3>2, <4>1, <4>2
      <3> QED
        BY <3>1, <3>2
    <2>2. all = [i \in 0..most |-> IF i = 0 THEN Parsed(<<>>, joined[1]) ELSE Next1(all, i)]
      BY <2>1, Zenon
    <2> QED
      BY <2>2
  <1>4. Is(got)
    <2> HIDE DEF Is, all
    <2> QED
      BY <1>3
  <1>5. ReadAll(reader, joined[1]) = got[most]
    BY DEF ReadAll
  <1>6. \A i \in 0..most : got[i] = IF i = 0 THEN Parsed(<<>>, joined[1]) ELSE Next1(got, i)
    BY <1>4, Zenon
  <1> HIDE DEF got
  <1> DEFINE Good == {i \in Nat : i <= most => got[i] = ReadFirst(vals, joined, upto(i))}
  <1>7. 0 \in Good
    <2>1. 0 \in 0..most
      OBVIOUS
    <2> QED
      BY <1>2, <1>6, <2>1, ReadNone
  <1>8. ASSUME NEW i \in Nat, i \in Good
        PROVE  i + 1 \in Good
    <2> SUFFICES ASSUME i + 1 <= most
                 PROVE  got[i + 1] = ReadFirst(vals, joined, upto(i + 1))
      OBVIOUS
    <2>1. i + 1 \in 0..most /\ i + 1 \in Nat \ {0} /\ i + 1 # 0 /\ (i + 1) - 1 = i /\ i <= most
      OBVIOUS
    <2>2. got[i] = ReadFirst(vals, joined, upto(i))
      BY <1>8, <2>1
    <2>3. got[i + 1] = IF got[i].rest = <<>> THEN got[i] ELSE ReadOneMore(reader, got[i])
      BY <1>6, <2>1
    <2>4. ReadFirst(vals, joined, upto(i + 1)) =
              IF got[i].rest = <<>> THEN got[i] ELSE ReadOneMore(reader, got[i])
      BY <1>1, <2>1, <2>2
    <2> QED
      BY <2>3, <2>4
  <1>9. Nat \subseteq Good
    <2> HIDE DEF Good
    <2> QED
      BY <1>7, <1>8, AllNaturals
  <1>10. most \in Nat /\ most <= most
    OBVIOUS
  <1> QED
    BY <1>2, <1>5, <1>9, <1>10

\* reader reads the value from its bytes, whatever comes behind them.
Reads(reader, v, bytes) == \A rest \in Seq(Nat) : reader[bytes \o rest] = Parsed(v, rest)

\* reader reads each of n values from its bytes.
PartsRead(reader, vals, parts, n) ==
    /\ n \in Nat /\ Len(parts) = n
    /\ \A i \in 1..n : /\ parts[i] \in Seq(Nat) /\ parts[i] # <<>>
                       /\ Reads(reader, vals[i], parts[i])

\* What the values are together.
AllOf(vals, n) == [m \in 1..n |-> vals[m]]

\* Some bytes are not empty if the first of them are not.
LEMMA NotEmpty ==
    ASSUME NEW a \in Seq(Nat), a # <<>>, NEW b \in Seq(Nat)
    PROVE  a \o b # <<>>
  BY ConcatEqualIffEmpty, ConcatSimplifications

\* The values are read from their bytes, joined.
LEMMA PartsFollow ==
    ASSUME NEW reader, NEW vals, NEW parts, NEW n, PartsRead(reader, vals, parts, n),
           NEW rest \in Seq(Nat)
    PROVE  /\ Joined(parts) \in Seq(Nat)
           /\ ReadValues(reader, Joined(parts) \o rest, n) = Parsed(AllOf(vals, n), rest)
           /\ ReadAll(reader, Joined(parts)) = Parsed(AllOf(vals, n), <<>>)
  <1>1. /\ n \in Nat /\ Len(parts) = n
        /\ \A i \in 1..n : /\ parts[i] \in Seq(Nat) /\ parts[i] # <<>>
                           /\ Reads(reader, vals[i], parts[i])
    BY DEF PartsRead
  <1>2. PICK j : Joins(j, parts) /\ j[1] = Joined(parts)
    BY <1>1, JoinedIs
  <1>3. /\ \A i \in 1..(n + 1) : j[i] \in Seq(Nat) /\ j[i] = JoinsOne(j, parts, n, i)
        /\ n + 1 \in 1..(n + 1) /\ 1 \in 1..(n + 1) /\ n + 1 > n
        /\ \A i \in 1..n : i \in 1..(n + 1) /\ i + 1 \in 1..(n + 1) /\ ~(i > n)
    BY <1>1, <1>2 DEF Joins
  <1>4. j[n + 1] = <<>> /\ \A i \in 1..n : j[i] = parts[i] \o j[i + 1]
    BY <1>3, Zenon DEF JoinsOne
  <1>5. ASSUME NEW i \in 1..n, NEW back \in Seq(Nat)
        PROVE  reader[parts[i] \o back] = Parsed(vals[i], back)
    BY <1>1 DEF Reads
  <1>6. ReadValues(reader, Joined(parts) \o rest, n) = Parsed(AllOf(vals, n), rest)
    <2> DEFINE joined == [i \in 1..(n + 1) |-> j[i] \o rest]
    <2>1. \A i \in 1..(n + 1) : joined[i] = j[i] \o rest
      OBVIOUS
    <2> HIDE DEF joined
    <2>2. joined[1] = Joined(parts) \o rest
      BY <1>2, <1>3, <2>1
    <2>3. joined[n + 1] = rest
      BY <1>3, <1>4, <2>1, ConcatEmptySeq
    <2>4. Follow(reader, vals, joined, n)
      <3> SUFFICES ASSUME NEW i \in 1..n
                   PROVE  reader[joined[i]] = Parsed(vals[i], joined[i + 1])
        BY DEF Follow
      <3>1. parts[i] \in Seq(Nat) /\ j[i + 1] \in Seq(Nat) /\ j[i + 1] \o rest \in Seq(Nat)
        <4>1. parts[i] \in Seq(Nat) /\ j[i + 1] \in Seq(Nat)
          BY <1>1, <1>3
        <4> QED
          BY <4>1, Concat
      <3>2. joined[i] = parts[i] \o (j[i + 1] \o rest)
        <4>1. joined[i] = (parts[i] \o j[i + 1]) \o rest
          BY <1>3, <1>4, <2>1, Zenon
        <4>2. (parts[i] \o j[i + 1]) \o rest = parts[i] \o (j[i + 1] \o rest)
          <5> DEFINE a == parts[i]
                     b == j[i + 1]
          <5>1. a \in Seq(Nat) /\ b \in Seq(Nat)
            BY <3>1
          <5> HIDE DEF a, b
          <5>2. (a \o b) \o rest = a \o (b \o rest)
            BY <5>1, Behind2, SMTT(60)
          <5> QED
            BY <5>2 DEF a, b
        <4> QED
          BY <4>1, <4>2, Zenon
      <3>3. joined[i + 1] = j[i + 1] \o rest
        BY <1>3, <2>1
      <3> QED
        BY <1>5, <3>1, <3>2, <3>3, Zenon
    <2>5. ReadValues(reader, joined[1], n) = ReadFirst(vals, joined, n)
      BY <1>1, <2>4, ReadValuesBack
    <2> QED
      BY <2>2, <2>3, <2>5, Zenon DEF ReadFirst, AllOf
  <1>7. ReadAll(reader, Joined(parts)) = Parsed(AllOf(vals, n), <<>>)
    <2>1. Follow(reader, vals, j, n)
      <3> SUFFICES ASSUME NEW i \in 1..n
                   PROVE  reader[j[i]] = Parsed(vals[i], j[i + 1])
        BY DEF Follow
      <3>1. j[i + 1] \in Seq(Nat) /\ j[i] = parts[i] \o j[i + 1]
        BY <1>3, <1>4
      <3> QED
        BY <1>5, <3>1, Zenon
    <2>2. \A i \in 1..n : j[i] # <<>>
      <3> SUFFICES ASSUME NEW i \in 1..n
                   PROVE  j[i] # <<>>
        OBVIOUS
      <3>1. parts[i] \in Seq(Nat) /\ parts[i] # <<>> /\ j[i + 1] \in Seq(Nat)
        BY <1>1, <1>3
      <3>2. j[i] = parts[i] \o j[i + 1]
        BY <1>4
      <3> QED
        BY <3>1, <3>2, NotEmpty
    <2> DEFINE most == Len(j[1])
    <2>3. most \in Nat /\ n <= most
      <3>1. n <= most
        BY <1>1, <1>2, PartsAreShorter
      <3>2. j[1] \in Seq(Nat)
        BY <1>3
      <3> QED
        BY <3>1, <3>2, LenProperties
    <2>4. ReadAll(reader, j[1]) = ReadFirst(vals, j, n)
      BY <1>1, <1>4, <2>1, <2>2, <2>3, ReadAllBack
    <2> QED
      BY <1>2, <1>4, <2>4, Zenon DEF ReadFirst, AllOf
  <1> QED
    BY <1>2, <1>3, <1>6, <1>7

\* The values that follow their length.
LEMMA ReadInnerBack ==
    ASSUME NEW reader, NEW vals, NEW parts, NEW n, PartsRead(reader, vals, parts, n),
           Len(Joined(parts)) <= MaxLength, NEW rest \in Seq(Nat)
    PROVE  ReadInner(reader, WithLength(Joined(parts)) \o rest) = Parsed(AllOf(vals, n), rest)
  <1> DEFINE text == Joined(parts)
             bytes == WithLength(text) \o rest
  <1>1. text \in Seq(Nat) /\ ReadAll(reader, text) = Parsed(AllOf(vals, n), <<>>)
    BY PartsFollow
  <1>2. Extract(bytes) = Parsed(text, rest)
    <2> HIDE DEF text
    <2> QED
      BY <1>1, ExtractBack DEF text
  <1> HIDE DEF text, bytes
  <1>3. Extract(bytes).ok /\ Extract(bytes).value = text /\ Extract(bytes).rest = rest
    BY <1>2 DEF Parsed
  <1>4. ReadAll(reader, text).ok /\ ReadAll(reader, text).value = AllOf(vals, n)
    BY <1>1 DEF Parsed
  <1>5. ReadInner(reader, bytes) = Parsed(AllOf(vals, n), rest)
    BY <1>3, <1>4, Zenon DEF ReadInner
  <1> QED
    BY <1>5 DEF bytes, text

\* Values with a length in front and an empty list behind.
LEMMA ReadWrappedBack ==
    ASSUME NEW reader, NEW vals, NEW parts, NEW n, PartsRead(reader, vals, parts, n),
           NEW rest \in Seq(Nat)
    PROVE  ReadWrapped(reader, WithLength(Joined(parts)) \o (Bytes4(0) \o rest), n)
               = Parsed(AllOf(vals, n), rest)
  <1> DEFINE text == Joined(parts)
             four == Bytes4(Len(text))
             zero == Bytes4(0)
             back == zero \o rest
             bytes == WithLength(text) \o back
  <1>1. zero \in Seq(Nat) /\ Len(zero) = Four
    BY FourBytes
  <1> HIDE DEF zero
  <1>2. back \in Seq(Nat)
    BY <1>1, Concat
  <1>3. Skip4(back) = Parsed(<<>>, rest)
    BY <1>1, Skip4Back
  <1> HIDE DEF back
  <1>4. text \in Seq(Nat) /\ ReadValues(reader, text \o back, n) = Parsed(AllOf(vals, n), back)
    BY <1>2, PartsFollow
  <1> HIDE DEF text
  <1>5. four \in Seq(Nat) /\ Len(four) = Four
    <2>1. Len(text) \in Nat
      BY <1>4, LenProperties
    <2> QED
      BY <2>1, FourBytes
  <1> HIDE DEF four
  <1>6. bytes = four \o (text \o back) /\ text \o back \in Seq(Nat)
    <2>1. bytes = (four \o text) \o back
      BY DEF WithLength, four
    <2> HIDE DEF bytes
    <2> QED
      BY <1>2, <1>4, <1>5, <2>1, Behind2
  <1> HIDE DEF bytes
  <1>7. Skip4(bytes) = Parsed(<<>>, text \o back)
    BY <1>5, <1>6, Skip4Back
  <1>8. /\ Skip4(bytes).ok /\ Skip4(bytes).rest = text \o back
        /\ Skip4(back).ok /\ Skip4(back).rest = rest
    BY <1>3, <1>7 DEF Parsed
  <1> DEFINE args == ReadValues(reader, text \o back, n)
  <1>9. args.ok /\ args.value = AllOf(vals, n) /\ args.rest = back
    BY <1>4 DEF Parsed
  <1> HIDE DEF args
  <1>10. ReadWrapped(reader, bytes, n) = Parsed(AllOf(vals, n), rest)
    BY <1>8, <1>9, Zenon DEF ReadWrapped, args
  <1> QED
    BY <1>10 DEF bytes, text, back, zero

-----------------------------------------------------------------------------
(* MichelineForging: annotations *)

\* decodeAnnots of a text, with split for the shorter ones.
SplitStep(split, text) ==
    IF \A i \in DOMAIN text : text[i] # 32 THEN <<text>>
    ELSE <<SubSeq(text, 1, FirstSpace(text) - 1)>> \o split[From(text, FirstSpace(text) + 1)]

\* What is behind a space is shorter.
LEMMA BehindSpace ==
    ASSUME NEW text \in Seq(Nat), NEW n \in DOMAIN text
    PROVE  From(text, n + 1) \in Seq(Nat) /\ Len(From(text, n + 1)) < Len(text)
  <1>1. Len(text) \in Nat /\ n \in 1..Len(text)
    OBVIOUS
  <1>2. \A i \in (n + 1)..Len(text) : text[i] \in Nat
    BY <1>1
  <1> QED
    BY <1>1, <1>2 DEF From

\* A step depends on what is shorter.
LEMMA SplitStepShorter ==
    ASSUME NEW text \in Seq(Nat), NEW y, NEW z,
           \A t \in Seq(Nat) : Len(t) < Len(text) => y[t] = z[t]
    PROVE  SplitStep(y, text) = SplitStep(z, text)
  <1> DEFINE n == FirstSpace(text)
  <1>1. CASE \A i \in DOMAIN text : text[i] # 32
    BY <1>1, Zenon DEF SplitStep
  <1>2. CASE ~\A i \in DOMAIN text : text[i] # 32
    <2> DEFINE At == {i \in Nat : i \in DOMAIN text /\ text[i] = 32}
    <2>1. PICK m \in Nat : m \in DOMAIN text /\ text[m] = 32
      BY <1>2
    <2>2. \E i \in At : \A k \in At : i <= k
      <3> DEFINE Good == {b \in Nat : \A i \in At : ~(i <= b)}
      <3>1. CASE \A i \in At : \E k \in At : k < i
        <4>1. 0 \in Good
          <5>1. \A i \in At : i # 0
            OBVIOUS
          <5> QED
            BY <5>1
        <4>2. ASSUME NEW b \in Nat, b \in Good
              PROVE  b + 1 \in Good
          <5> SUFFICES ASSUME NEW i \in At, i <= b + 1
                       PROVE  FALSE
            OBVIOUS
          <5>1. PICK k \in At : k < i
            BY <3>1
          <5>2. k <= b
            BY <5>1
          <5> QED
            BY <4>2, <5>2
        <4>3. Nat \subseteq Good
          <5> HIDE DEF Good
          <5> QED
            BY <4>1, <4>2, AllNaturals
        <4>4. m \in At /\ m \in Good /\ m <= m
          BY <2>1, <4>3
        <4> QED
          BY <4>4
      <3>2. CASE ~\A i \in At : \E k \in At : k < i
        BY <3>2
      <3> QED
        BY <3>1, <3>2
    <2>3. \E i \in DOMAIN text : text[i] = 32 /\ \A k \in 1..(i - 1) : text[k] # 32
      <3>1. PICK i \in At : \A k \in At : i <= k
        BY <2>2
      <3>2. ASSUME NEW k \in 1..(i - 1)
            PROVE  text[k] # 32
        <4>1. k \in DOMAIN text /\ k \in Nat /\ ~(i <= k)
          BY <3>1
        <4> QED
          BY <3>1, <4>1
      <3> QED
        BY <3>1, <3>2
    <2>4. n \in DOMAIN text
      BY <2>3 DEF FirstSpace
    <2> HIDE DEF n
    <2>5. y[From(text, n + 1)] = z[From(text, n + 1)]
      BY <2>4, BehindSpace
    <2> QED
      BY <1>2, <2>5, Zenon DEF SplitStep, n
  <1> QED
    BY <1>1, <1>2

\* z splits the texts that are shorter than k.
SplitsUpto(z, k) ==
    \A text \in Seq(Nat) : Len(text) < k => z[text] = SplitStep(z, text)

\* The recursive definition of decodeAnnots has a solution.
LEMMA SplitIs ==
    \A text \in Seq(Nat) : SplitAtSpaces[text] = SplitStep(SplitAtSpaces, text)
  <1> DEFINE Is(z) == z = [text \in Seq(Nat) |->
                              IF \A i \in DOMAIN text : text[i] # 32 THEN <<text>>
                              ELSE <<SubSeq(text, 1, FirstSpace(text) - 1)>>
                                   \o z[From(text, FirstSpace(text) + 1)]]
             Good == {k \in Nat : \E z : SplitsUpto(z, k)}
             Agree == {n \in Nat : \A text \in Seq(Nat) : Len(text) = n =>
                          \A k, m \in Nat : \A y, z :
                              n < k /\ n < m /\ SplitsUpto(y, k) /\ SplitsUpto(z, m)
                                  => y[text] = z[text]}
  <1>1. \A text \in Seq(Nat) : Len(text) \in Nat
    BY LenProperties
  <1>2. 0 \in Good
    <2>1. SplitsUpto(<<>>, 0)
      BY <1>1 DEF SplitsUpto
    <2> QED
      BY <2>1
  <1>3. ASSUME NEW k \in Nat, k \in Good
        PROVE  k + 1 \in Good
    <2>1. PICK y : SplitsUpto(y, k)
      BY <1>3
    <2> DEFINE z == [text \in Seq(Nat) |-> IF Len(text) = k THEN SplitStep(y, text)
                                          ELSE y[text]]
    <2>2. \A text \in Seq(Nat) :
             z[text] = IF Len(text) = k THEN SplitStep(y, text) ELSE y[text]
      OBVIOUS
    <2> HIDE DEF z
    <2>3. ASSUME NEW text \in Seq(Nat), Len(text) < k + 1
          PROVE  z[text] = SplitStep(z, text)
      <3> DEFINE n == Len(text)
      <3>1. n \in Nat /\ n < k + 1
        BY <1>1, <2>3
      <3> HIDE DEF n
      <3>2. ASSUME NEW t \in Seq(Nat), Len(t) < Len(text)
            PROVE  z[t] = y[t]
        <4> DEFINE m == Len(t)
        <4>1. m \in Nat /\ m < n
          BY <1>1, <3>2 DEF n
        <4> HIDE DEF m
        <4>2. m # k
          BY <3>1, <4>1
        <4> QED
          BY <2>2, <4>2 DEF m
      <3>3. SplitStep(z, text) = SplitStep(y, text)
        BY <3>2, SplitStepShorter
      <3>4. CASE n = k
        BY <2>2, <3>3, <3>4 DEF n
      <3>5. CASE n # k
        <4>1. n < k
          BY <3>1, <3>5
        <4>2. y[text] = SplitStep(y, text)
          BY <2>1, <4>1 DEF SplitsUpto, n
        <4> QED
          BY <2>2, <3>3, <3>5, <4>2 DEF n
      <3> QED
        BY <3>4, <3>5
    <2>4. SplitsUpto(z, k + 1)
      BY <2>3 DEF SplitsUpto
    <2> QED
      BY <2>4
  <1>4. Nat \subseteq Good
    <2> HIDE DEF Good
    <2> QED
      BY <1>2, <1>3, AllNaturals
  <1>5. ASSUME NEW n \in Nat, \A i \in Nat : i < n => i \in Agree
        PROVE  n \in Agree
    <2> SUFFICES ASSUME NEW text \in Seq(Nat), Len(text) = n, NEW k \in Nat, NEW m \in Nat,
                        NEW y, NEW z, n < k, n < m, SplitsUpto(y, k), SplitsUpto(z, m)
                 PROVE  y[text] = z[text]
      OBVIOUS
    <2>1. ASSUME NEW t \in Seq(Nat), Len(t) < Len(text)
          PROVE  y[t] = z[t]
      <3> DEFINE i == Len(t)
      <3>1. i \in Nat /\ i < n
        BY <1>1, <2>1
      <3> HIDE DEF i
      <3>2. i < k /\ i < m /\ i \in Agree
        BY <1>5, <3>1
      <3> QED
        BY <3>2 DEF i
    <2>2. SplitStep(y, text) = SplitStep(z, text)
      BY <2>1, SplitStepShorter
    <2> QED
      BY <2>2 DEF SplitsUpto
  <1>6. Nat \subseteq Agree
    <2> HIDE DEF Agree
    <2> QED
      BY <1>5, AllNaturalsInOrder
  <1> DEFINE part(k) == CHOOSE z : SplitsUpto(z, k)
             all == [text \in Seq(Nat) |-> part(Len(text) + 1)[text]]
  <1>7. \A k \in Nat : SplitsUpto(part(k), k)
    BY <1>4
  <1> HIDE DEF part
  <1>8. ASSUME NEW text \in Seq(Nat)
        PROVE  all[text] = SplitStep(all, text)
    <2> DEFINE n == Len(text)
               z == part(n + 1)
    <2>1. n \in Nat
      BY <1>1
    <2> HIDE DEF n
    <2>2. n + 1 \in Nat /\ n < n + 1
      BY <2>1
    <2>3. SplitsUpto(z, n + 1)
      BY <1>7, <2>2
    <2>4. ASSUME NEW t \in Seq(Nat), Len(t) < Len(text)
          PROVE  all[t] = z[t]
      <3> DEFINE m == Len(t)
      <3>1. m \in Nat /\ m < n
        BY <1>1, <2>4 DEF n
      <3>2. all[t] = part(m + 1)[t]
        OBVIOUS
      <3> HIDE DEF m, all, z
      <3>3. m + 1 \in Nat /\ m < m + 1 /\ m < n + 1
        BY <2>1, <3>1
      <3>4. SplitsUpto(part(m + 1), m + 1)
        BY <1>7, <3>3
      <3>5. m \in Agree
        BY <1>6, <3>1
      <3>6. part(m + 1)[t] = z[t]
        BY <2>2, <2>3, <3>3, <3>4, <3>5 DEF m
      <3> QED
        BY <3>2, <3>6
    <2>5. all[text] = z[text]
      BY DEF n
    <2>6. z[text] = SplitStep(z, text)
      BY <2>2, <2>3 DEF SplitsUpto, n
    <2> HIDE DEF all, z
    <2>7. SplitStep(all, text) = SplitStep(z, text)
      BY <2>4, SplitStepShorter
    <2> QED
      BY <2>5, <2>6, <2>7
  <1>9. Is(all)
    <2>1. all = [text \in Seq(Nat) |->
                    IF \A i \in DOMAIN text : text[i] # 32 THEN <<text>>
                    ELSE <<SubSeq(text, 1, FirstSpace(text) - 1)>>
                         \o all[From(text, FirstSpace(text) + 1)]]
      BY <1>8, Zenon DEF SplitStep
    <2> QED
      BY <2>1
  <1> HIDE DEF all
  <1>10. Is(SplitAtSpaces)
    <2> HIDE DEF Is
    <2>1. Is(CHOOSE z : Is(z))
      BY <1>9
    <2> QED
      BY <2>1 DEF SplitAtSpaces, Is
  <1> QED
    BY <1>10, Zenon DEF SplitStep

\* A text without a space.
LEMMA SplitNone ==
    ASSUME NEW a \in Seq(Nat), \A i \in DOMAIN a : a[i] # 32
    PROVE  SplitAtSpaces[a] = <<a>>
  BY SplitIs, Zenon DEF SplitStep

\* A text up to its first space, and the others.
LEMMA SplitOne ==
    ASSUME NEW a \in Seq(Nat), \A i \in DOMAIN a : a[i] # 32, NEW b \in Seq(Nat)
    PROVE  SplitAtSpaces[Append(a, 32) \o b] = <<a>> \o SplitAtSpaces[b]
  <1> DEFINE space == <<32>>
             text == a \o (space \o b)
             n == Len(a)
  <1>1. space \in Seq(Nat) /\ Len(space) = 1 /\ space[1] = 32
    OBVIOUS
  <1>2. Append(a, 32) \o b = text
    <2>1. Append(a, 32) = a \o space
      BY AppendIsConcat
    <2>2. space \in Seq(Nat)
      BY <1>1
    <2> HIDE DEF space
    <2>3. (a \o space) \o b = a \o (space \o b)
      BY <2>2, Behind2, SMTT(60)
    <2> QED
      BY <2>1, <2>3, Zenon
  <1>3. n \in Nat /\ DOMAIN a = 1..n
    OBVIOUS
  <1>4. /\ text \in Seq(Nat) /\ Len(text) = n + Len(space) + Len(b)
        /\ \A i \in 1..n : text[i] = a[i] /\ a[i] \in Nat
        /\ SubSeq(text, n + 1, n + Len(space)) = space
        /\ From(text, n + Len(space) + 1) = b
    <2>1. space \in Seq(Nat)
      BY <1>1
    <2> HIDE DEF space
    <2> QED
      BY <2>1, Between, SMTT(60)
  <1>5. text[n + 1] = 32
    <2>1. space \o b \in Seq(Nat) /\ (space \o b)[1] = 32 /\ 1 \in 1..Len(space \o b)
      OBVIOUS
    <2> DEFINE back == space \o b
    <2> HIDE DEF back
    <2>2. (a \o back)[Len(a) + 1] = back[1]
      BY <2>1, Concat DEF back
    <2> QED
      BY <2>1, <2>2 DEF back
  <1>6. Len(b) \in Nat
    OBVIOUS
  <1> HIDE DEF text, n
  <1>7. /\ Len(text) = n + 1 + Len(b)
        /\ From(text, (n + 1) + 1) = b
    BY <1>1, <1>3, <1>4, Zenon
  <1>8. DOMAIN text = 1..Len(text) /\ n + 1 \in DOMAIN text
    <2>1. DOMAIN text = 1..Len(text)
      BY <1>4, LenProperties
    <2> DEFINE m == Len(text)
    <2>2. m = n + 1 + Len(b)
      BY <1>7
    <2> HIDE DEF m
    <2>3. n + 1 \in 1..m
      BY <1>3, <1>6, <2>2
    <2> QED
      BY <2>1, <2>3 DEF m
  <1>9. FirstSpace(text) = n + 1
    <2>1. ASSUME NEW i \in 1..((n + 1) - 1)
          PROVE  text[i] # 32
      <3>1. i \in 1..n
        BY <1>3
      <3> QED
        BY <1>3, <1>4, <3>1
    <2>2. ASSUME NEW m \in DOMAIN text, text[m] = 32, \A i \in 1..(m - 1) : text[i] # 32
          PROVE  m = n + 1
      <3>1. m \in Nat \ {0}
        BY <1>4, <1>8
      <3>2. ~(m < n + 1)
        <4>1. CASE m \in 1..n
          BY <1>3, <1>4, <2>2, <4>1
        <4> QED
          BY <1>3, <3>1, <4>1
      <3>3. ~(n + 1 < m)
        <4>1. CASE n + 1 \in 1..(m - 1)
          BY <1>5, <2>2, <4>1
        <4> QED
          BY <1>3, <3>1, <4>1
      <3> QED
        BY <1>3, <3>1, <3>2, <3>3
    <2> QED
      BY <1>5, <1>8, <2>1, <2>2 DEF FirstSpace
  <1>10. SubSeq(text, 1, (n + 1) - 1) = a
    <2> DEFINE front == SubSeq(text, 1, n)
    <2>1. /\ front \in Seq(Nat) /\ Len(front) = n
          /\ \A i \in 1..n : front[i] = text[i]
      <3>1. n <= Len(text)
        <4> DEFINE m == Len(text)
        <4>1. m = n + 1 + Len(b)
          BY <1>7
        <4> HIDE DEF m
        <4>2. n <= m
          BY <1>3, <1>6, <4>1
        <4> QED
          BY <4>2 DEF m
      <3>2. text \in Seq(Nat)
        BY <1>4
      <3> QED
        BY <1>3, <3>1, <3>2
    <2> HIDE DEF front
    <2>2. front = a
      BY <1>4, <2>1, SeqEqual, ZenonT(60) DEF n
    <2>3. (n + 1) - 1 = n
      BY <1>3
    <2> QED
      BY <2>2, <2>3 DEF front
  <1>11. ~\A i \in DOMAIN text : text[i] # 32
    BY <1>5, <1>8
  <1>12. SplitAtSpaces[text] = SplitStep(SplitAtSpaces, text)
    BY <1>4, SplitIs
  <1>13. SplitAtSpaces[text] = <<a>> \o SplitAtSpaces[b]
    BY <1>7, <1>9, <1>10, <1>11, <1>12, Zenon DEF SplitStep
  <1> QED
    BY <1>2, <1>13

\* Annotations are not empty, and without spaces.
Annotations == Seq((16..255) \ {32}) \ {<<>>}

LEMMA AnnotationType ==
    ASSUME NEW a \in Annotations
    PROVE  /\ a \in Seq(Nat) /\ a # <<>> /\ Append(a, 32) \in Seq(Nat)
           /\ \A i \in DOMAIN a : a[i] # 32
  <1>1. a \in Seq((16..255) \ {32}) /\ a # <<>>
    BY DEF Annotations
  <1>2. \A i \in DOMAIN a : a[i] \in (16..255) \ {32}
    BY <1>1
  <1>3. a \in Seq(Nat)
    <2>1. (16..255) \ {32} \subseteq Nat
      OBVIOUS
    <2> QED
      BY <1>1, <2>1, SeqMonotonic
  <1>4. Append(a, 32) \in Seq(Nat)
    BY <1>3, AppendProperties
  <1> QED
    BY <1>1, <1>2, <1>3, <1>4

\* The annotations are split where they were joined.
LEMMA SpacedSplits ==
    ASSUME NEW list \in Seq(Annotations), list # <<>>
    PROVE  Spaced(list) \in Seq(Nat) /\ SplitAtSpaces[Spaced(list)] = list
  <1> DEFINE n == Len(list)
             parts == [i \in 1..n |-> IF i = n THEN list[i] ELSE Append(list[i], 32)]
  <1>1. n \in Nat \ {0} /\ \A i \in 1..n : list[i] \in Annotations
    BY EmptySeq, ElementOfSeq
  <1>2. Spaced(list) = Joined(parts)
    BY DEF Spaced
  <1>3. Len(parts) = n /\ \A i \in 1..n : parts[i] = IF i = n THEN list[i] ELSE Append(list[i], 32)
    BY <1>1
  <1> HIDE DEF parts
  <1>4. \A i \in 1..n : parts[i] \in Seq(Nat)
    BY <1>1, <1>3, AnnotationType
  <1>5. PICK j : Joins(j, parts) /\ j[1] = Joined(parts)
    BY <1>1, <1>3, <1>4, JoinedIs
  <1>6. \A i \in 1..(n + 1) : j[i] \in Seq(Nat) /\ j[i] = JoinsOne(j, parts, n, i)
    BY <1>3, <1>5, Zenon DEF Joins
  <1> HIDE DEF n
  <1>7. /\ n + 1 \in 1..(n + 1) /\ 1 \in 1..(n + 1) /\ n + 1 > n
        /\ \A i \in 1..n : i \in 1..(n + 1) /\ i + 1 \in 1..(n + 1) /\ ~(i > n)
    BY <1>1
  <1>8. j[n + 1] = <<>> /\ \A i \in 1..n : j[i] = parts[i] \o j[i + 1]
    BY <1>6, <1>7, Zenon DEF JoinsOne
  <1> DEFINE Good == {k \in Nat : \A i \in 1..n : i + k = n =>
                                      SplitAtSpaces[j[i]] = SubSeq(list, i, n)}
  <1>9. 0 \in Good
    <2> SUFFICES ASSUME NEW i \in 1..n, i + 0 = n
                 PROVE  SplitAtSpaces[j[i]] = SubSeq(list, i, n)
      OBVIOUS
    <2>1. i = n /\ n \in 1..n
      BY <1>1
    <2>2. list[n] \in Seq(Nat) /\ \A k \in DOMAIN list[n] : list[n][k] # 32
      BY <1>1, <2>1, AnnotationType
    <2>3. j[n] = list[n]
      <3>1. j[n] = list[n] \o <<>>
        BY <1>3, <1>8, <2>1, Zenon
      <3> QED
        BY <2>2, <3>1, ConcatEmptySeq
    <2>4. SplitAtSpaces[list[n]] = <<list[n]>>
      BY <2>2, SplitNone
    <2>5. SubSeq(list, n, n) = <<list[n]>>
      <3>1. SubSeq(list, n, n) = <<list[n]>> \o SubSeq(list, n + 1, n)
        BY <1>1, SubSeqRecursiveFirst DEF n
      <3>2. SubSeq(list, n + 1, n) = <<>>
        BY <1>1, SubSeqEmpty
      <3>3. <<list[n]>> \in Seq(Annotations)
        BY <1>1, <2>1
      <3> QED
        BY <3>1, <3>2, <3>3, ConcatEmptySeq
    <2> QED
      BY <2>1, <2>3, <2>4, <2>5
  <1>10. ASSUME NEW k \in Nat, k \in Good
         PROVE  k + 1 \in Good
    <2>1. k + 1 \in Nat
      OBVIOUS
    <2> SUFFICES ASSUME NEW i \in 1..n, i + (k + 1) = n
                 PROVE  SplitAtSpaces[j[i]] = SubSeq(list, i, n)
      BY <2>1, Zenon
    <2>2. i + 1 \in 1..n /\ (i + 1) + k = n /\ i # n
      BY <1>1
    <2>3. SplitAtSpaces[j[i + 1]] = SubSeq(list, i + 1, n)
      BY <1>10, <2>2
    <2>4. list[i] \in Seq(Nat) /\ \A m \in DOMAIN list[i] : list[i][m] # 32
      BY <1>1, AnnotationType
    <2>5. j[i] = Append(list[i], 32) \o j[i + 1] /\ j[i + 1] \in Seq(Nat)
      BY <1>3, <1>6, <1>7, <1>8, <2>2, Zenon
    <2>6. SplitAtSpaces[j[i]] = <<list[i]>> \o SplitAtSpaces[j[i + 1]]
      <3> DEFINE a == list[i]
                 b == j[i + 1]
      <3> HIDE DEF a, b
      <3>1. SplitAtSpaces[Append(a, 32) \o b] = <<a>> \o SplitAtSpaces[b]
        BY <2>4, <2>5, SplitOne DEF a, b
      <3> QED
        BY <2>5, <3>1, Zenon DEF a, b
    <2>7. SubSeq(list, i, n) = <<list[i]>> \o SubSeq(list, i + 1, n)
      <3>1. i \in 1..Len(list) /\ Len(list) \in i..Len(list)
        BY <1>1 DEF n
      <3> QED
        BY <3>1, SubSeqRecursiveFirst DEF n
    <2> QED
      BY <2>3, <2>6, <2>7
  <1>11. Nat \subseteq Good
    <2> HIDE DEF Good
    <2> QED
      BY <1>9, <1>10, AllNaturals
  <1>12. SplitAtSpaces[j[1]] = SubSeq(list, 1, n)
    <2>1. n - 1 \in Nat /\ 1 \in 1..n /\ 1 + (n - 1) = n
      BY <1>1
    <2> QED
      BY <1>11, <2>1
  <1>13. SubSeq(list, 1, n) = list
    BY SubSeqFull DEF n
  <1> QED
    BY <1>2, <1>5, <1>6, <1>7, <1>12, <1>13

\* decodeAnnots undoes encodeAnnots for annotations that are given and not empty.
LEMMA ReadAnnotsBack ==
    ASSUME NEW list \in Seq(Annotations), list # <<>>, Len(Spaced(list)) <= MaxLength,
           NEW rest \in Seq(Nat)
    PROVE  ReadAnnots(EncodeAnnots(Annotated(list)) \o rest) = Parsed(list, rest)
  <1> DEFINE text == Spaced(list)
             bytes == WithLength(text) \o rest
  <1>1. text \in Seq(Nat) /\ SplitAtSpaces[text] = list
    BY SpacedSplits
  <1>2. EncodeAnnots(Annotated(list)) = WithLength(text)
    BY DEF EncodeAnnots, Annotated
  <1> HIDE DEF text
  <1>3. Extract(bytes) = Parsed(text, rest)
    BY <1>1, ExtractBack DEF text
  <1> HIDE DEF bytes
  <1>4. Extract(bytes).ok /\ Extract(bytes).value = text /\ Extract(bytes).rest = rest
    BY <1>3 DEF Parsed
  <1>5. ReadAnnots(bytes) = Parsed(list, rest)
    BY <1>1, <1>4, Zenon DEF ReadAnnots
  <1> QED
    BY <1>2, <1>5 DEF bytes

\* Without annotations an empty text is read, which is one empty annotation.
LEMMA ReadNoAnnots ==
    ASSUME NEW rest \in Seq(Nat)
    PROVE  ReadAnnots(Bytes4(0) \o rest) = Parsed(<< <<>> >>, rest)
  <1> DEFINE text == <<>>
             bytes == WithLength(text) \o rest
             zero == Bytes4(0)
  <1>1. text \in Seq(Nat) /\ Len(text) <= MaxLength /\ \A i \in DOMAIN text : text[i] # 32
    BY SMT DEF MaxLength
  <1>2. SplitAtSpaces[text] = <<text>>
    BY <1>1, SplitNone
  <1>3. zero \in Seq(Nat)
    BY FourBytes
  <1>4. WithLength(text) = zero
    <2>1. Len(<<>>) = 0
      BY EmptySeq, Zenon
    <2>2. WithLength(text) = zero \o <<>>
      BY <2>1, Zenon DEF WithLength
    <2> HIDE DEF zero
    <2> QED
      BY <1>3, <2>2, ConcatEmptySeq
  <1> HIDE DEF zero, text
  <1>5. Extract(bytes) = Parsed(text, rest)
    BY <1>1, ExtractBack
  <1>6. Extract(bytes).ok /\ Extract(bytes).value = text /\ Extract(bytes).rest = rest
    BY <1>5 DEF Parsed
  <1> HIDE DEF bytes
  <1>7. ReadAnnots(bytes) = Parsed(<<text>>, rest)
    BY <1>2, <1>6, Zenon DEF ReadAnnots
  <1> QED
    BY <1>4, <1>7 DEF bytes, text, zero

-----------------------------------------------------------------------------
(* MichelineForging: the reader of values *)

\* The reader of values to a depth, with z for the depths below it.
ReaderStep(z, depth) ==
    [bytes \in Seq(Nat) |-> IF depth = 0 THEN Error ELSE ReadWith(z[depth - 1], bytes)]

\* z reads values to the depths below k.
ReadsUpto(z, k) == \A d \in Nat : d < k => z[d] = ReaderStep(z, d)

\* A step depends on what is below it.
LEMMA ReaderStepBelow ==
    ASSUME NEW d \in Nat, NEW y, NEW z, \A e \in Nat : e < d => y[e] = z[e]
    PROVE  ReaderStep(y, d) = ReaderStep(z, d)
  <1>1. ASSUME NEW bytes \in Seq(Nat)
        PROVE  (IF d = 0 THEN Error ELSE ReadWith(y[d - 1], bytes))
                   = IF d = 0 THEN Error ELSE ReadWith(z[d - 1], bytes)
    <2>1. CASE d = 0
      BY <2>1
    <2>2. CASE d # 0
      <3>1. d - 1 \in Nat /\ d - 1 < d
        BY <2>2
      <3>2. y[d - 1] = z[d - 1]
        BY <3>1
      <3> QED
        BY <3>2
    <2> QED
      BY <2>1, <2>2
  <1> QED
    BY <1>1, Zenon DEF ReaderStep

\* The recursive definition of valueDecoder has a solution.
LEMMA ReaderIs ==
    \A d \in Nat : Reader[d] = ReaderStep(Reader, d)
  <1> DEFINE Is(z) == z = [depth \in Nat |->
                             [bytes \in Seq(Nat) |->
                                 IF depth = 0 THEN Error ELSE ReadWith(z[depth - 1], bytes)]]
             Good == {k \in Nat : \E z : ReadsUpto(z, k)}
             Agree == {d \in Nat : \A k, m \in Nat : \A y, z :
                          d < k /\ d < m /\ ReadsUpto(y, k) /\ ReadsUpto(z, m) => y[d] = z[d]}
  <1>1. 0 \in Good
    <2>1. ReadsUpto(<<>>, 0)
      BY DEF ReadsUpto
    <2> QED
      BY <2>1
  <1>2. ASSUME NEW k \in Nat, k \in Good
        PROVE  k + 1 \in Good
    <2>1. PICK y : ReadsUpto(y, k)
      BY <1>2
    <2> DEFINE z == [d \in Nat |-> IF d = k THEN ReaderStep(y, k) ELSE y[d]]
    <2>2. \A d \in Nat : z[d] = IF d = k THEN ReaderStep(y, k) ELSE y[d]
      BY Zenon
    <2> HIDE DEF z
    <2>3. ASSUME NEW d \in Nat, d < k + 1
          PROVE  z[d] = ReaderStep(z, d)
      <3>1. \A e \in Nat : e < d => z[e] = y[e]
        BY <2>2, <2>3
      <3>2. ReaderStep(z, d) = ReaderStep(y, d)
        BY <3>1, ReaderStepBelow
      <3>3. CASE d = k
        BY <2>2, <3>2, <3>3
      <3>4. CASE d # k
        <4>1. d < k
          BY <2>3, <3>4
        <4> QED
          BY <2>1, <2>2, <3>2, <3>4, <4>1 DEF ReadsUpto
      <3> QED
        BY <3>3, <3>4
    <2>4. ReadsUpto(z, k + 1)
      BY <2>3 DEF ReadsUpto
    <2> QED
      BY <2>4
  <1>3. Nat \subseteq Good
    <2> HIDE DEF Good
    <2> QED
      BY <1>1, <1>2, AllNaturals
  <1>4. ASSUME NEW d \in Nat, \A e \in Nat : e < d => e \in Agree
        PROVE  d \in Agree
    <2> SUFFICES ASSUME NEW k \in Nat, NEW m \in Nat, NEW y, NEW z,
                        d < k, d < m, ReadsUpto(y, k), ReadsUpto(z, m)
                 PROVE  y[d] = z[d]
      OBVIOUS
    <2>1. \A e \in Nat : e < d => e < k /\ e < m
      OBVIOUS
    <2>2. \A e \in Nat : e < d => y[e] = z[e]
      BY <1>4, <2>1
    <2>3. ReaderStep(y, d) = ReaderStep(z, d)
      BY <2>2, ReaderStepBelow
    <2> QED
      BY <2>3 DEF ReadsUpto
  <1>5. Nat \subseteq Agree
    <2> HIDE DEF Agree
    <2> QED
      BY <1>4, AllNaturalsInOrder
  <1> DEFINE part(k) == CHOOSE z : ReadsUpto(z, k)
             all == [d \in Nat |-> part(d + 1)[d]]
  <1>6. \A k \in Nat : ReadsUpto(part(k), k)
    BY <1>3
  <1> HIDE DEF part
  <1>7. ASSUME NEW d \in Nat
        PROVE  all[d] = ReaderStep(all, d)
    <2> DEFINE z == part(d + 1)
    <2>1. d + 1 \in Nat /\ d < d + 1
      OBVIOUS
    <2>2. ReadsUpto(z, d + 1)
      BY <1>6, <2>1
    <2>3. ASSUME NEW e \in Nat, e < d
          PROVE  all[e] = z[e]
      <3>1. e + 1 \in Nat /\ e < e + 1 /\ e < d + 1
        BY <2>3
      <3>2. ReadsUpto(part(e + 1), e + 1)
        BY <1>6, <3>1
      <3>3. part(e + 1)[e] = z[e]
        BY <1>5, <2>1, <2>2, <3>1, <3>2
      <3> QED
        BY <3>3
    <2>4. ReaderStep(all, d) = ReaderStep(z, d)
      <3> HIDE DEF all, z
      <3> QED
        BY <2>3, ReaderStepBelow
    <2>5. z[d] = ReaderStep(z, d)
      BY <2>1, <2>2 DEF ReadsUpto
    <2> QED
      BY <2>4, <2>5
  <1>8. Is(all)
    <2> HIDE DEF all
    <2>1. all = [d \in Nat |-> all[d]]
      BY DEF all
    <2>2. \A d \in Nat : all[d] = [bytes \in Seq(Nat) |->
                                      IF d = 0 THEN Error ELSE ReadWith(all[d - 1], bytes)]
      BY <1>7, Zenon DEF ReaderStep
    <2> QED
      BY <2>1, <2>2, Zenon
  <1> HIDE DEF all
  <1>9. Is(Reader)
    <2> HIDE DEF Is
    <2>1. Is(CHOOSE z : Is(z))
      BY <1>8
    <2> QED
      BY <2>1 DEF Reader, Is
  <1> QED
    BY <1>9, Zenon DEF ReaderStep

\* What reads a value to a depth reads the values within it to a depth that is one less.
LEMMA ReaderReads ==
    ASSUME NEW d \in Nat \ {0}, NEW bytes \in Seq(Nat)
    PROVE  d - 1 \in Nat /\ Reader[d][bytes] = ReadWith(Reader[d - 1], bytes)
  <1>1. d \in Nat /\ d # 0 /\ d - 1 \in Nat
    OBVIOUS
  <1> QED
    BY <1>1, ReaderIs, Zenon DEF ReaderStep

-----------------------------------------------------------------------------
(* MichelineForging: values with a tag in front *)

LEMMA TagBack ==
    ASSUME NEW tag \in Nat, NEW text \in Seq(Nat), NEW rest \in Seq(Nat)
    PROVE  LET front == <<tag>> \o text
               bytes == front \o rest
           IN  /\ front \in Seq(Nat) /\ front # <<>> /\ Len(front) = 1 + Len(text)
               /\ bytes # <<>> /\ bytes[1] = tag /\ Tail(bytes) = text \o rest
  <1> DEFINE one == <<tag>>
             n == Len(one)
             front == one \o text
             back == text \o rest
             bytes == front \o rest
  <1>1. one \in Seq(Nat) /\ one # <<>> /\ n = 1 /\ one[1] = tag /\ 1 \in 1..n /\ n \in Nat
    OBVIOUS
  <1>2. one \in Seq(Nat)
    BY <1>1
  <1> HIDE DEF one
  <1>3. back \in Seq(Nat)
    BY Concat
  <1>4. front \in Seq(Nat) /\ Len(front) = Len(one) + Len(text)
    BY <1>2, Concat
  <1>5. front # <<>>
    BY <1>1, <1>2, NotEmpty
  <1> HIDE DEF front
  <1>6. bytes \in Seq(Nat) /\ bytes # <<>>
    BY <1>4, <1>5, Concat, NotEmpty
  <1>7. bytes = one \o back
    BY <1>2, Behind2 DEF front
  <1> HIDE DEF back
  <1>8. /\ Len(one \o back) = n + Len(back)
        /\ \A i \in 1..n : (one \o back)[i] = one[i]
    BY <1>3, <1>2, Concat
  <1>9. From(one \o back, n + 1) = back
    BY <1>3, <1>2, FromBehind
  <1> HIDE DEF n, bytes
  <1>10. bytes[1] = tag
    BY <1>1, <1>7, <1>8, Zenon
  <1> USE DEF bytes
  <1>11. Tail(bytes) = back
    <2>1. Tail(bytes) = SubSeq(bytes, 2, Len(bytes))
      BY <1>6, TailIsSubSeq
    <2>2. n + 1 = 2
      BY <1>1
    <2> QED
      BY <1>7, <1>9, <2>1, <2>2, Zenon DEF From
  <1>12. Len(front) = 1 + Len(text)
    BY <1>1, <1>4, Zenon DEF n
  <1> QED
    BY <1>4, <1>5, <1>6, <1>10, <1>11, <1>12 DEF bytes, back, front, one

\* Two tags, and what comes behind them.
TwoTags(p, q, a, b) == (<<p, q>> \o a) \o b

\* The bytes of front can be taken apart, whatever comes behind them.
TakesApart(front, p, q, a, b) ==
    /\ front \in Seq(Nat) /\ front # <<>>
    /\ Len(front) = 2 + Len(a) + Len(b)
    /\ \A rest \in Seq(Nat) :
          LET bytes == front \o rest
          IN  /\ bytes # <<>> /\ Len(bytes) >= 2 /\ bytes[1] = p /\ bytes[2] = q
              /\ From(bytes, 3) = a \o (b \o rest)

LEMMA TwoTagsBack ==
    ASSUME NEW p \in Nat, NEW q \in Nat, NEW a \in Seq(Nat), NEW b \in Seq(Nat)
    PROVE  TakesApart(TwoTags(p, q, a, b), p, q, a, b)
  <1>1. ASSUME NEW rest \in Seq(Nat)
        PROVE  LET front == TwoTags(p, q, a, b)
                   bytes == front \o rest
               IN  /\ front \in Seq(Nat) /\ front # <<>>
                   /\ Len(front) = 2 + Len(a) + Len(b)
                   /\ bytes # <<>> /\ Len(bytes) >= 2 /\ bytes[1] = p /\ bytes[2] = q
                   /\ From(bytes, 3) = a \o (b \o rest)
    <2> DEFINE two == <<p, q>>
               n == Len(two)
               front == (two \o a) \o b
               back == a \o (b \o rest)
               bytes == front \o rest
    <2>1. two \in Seq(Nat) /\ two # <<>> /\ n = 2 /\ two[1] = p /\ two[2] = q
      OBVIOUS
    <2>2. two \in Seq(Nat)
      BY <2>1
    <2> HIDE DEF two
    <2>3. b \o rest \in Seq(Nat)
      BY Concat
    <2>4. two \o a \in Seq(Nat) /\ Len(two \o a) = n + Len(a)
      BY <2>2, Concat
    <2>5. two \o a # <<>>
      BY <2>1, <2>2, NotEmpty
    <2>6. back \in Seq(Nat)
      <3> DEFINE c == b \o rest
      <3>1. c \in Seq(Nat)
        BY <2>3
      <3> HIDE DEF c
      <3>2. a \o c \in Seq(Nat)
        BY <3>1, Concat
      <3> QED
        BY <3>2 DEF c
    <2>7. front \in Seq(Nat) /\ Len(front) = Len(two \o a) + Len(b) /\ front # <<>>
      <3> DEFINE c == two \o a
      <3>1. c \in Seq(Nat) /\ c # <<>>
        BY <2>4, <2>5
      <3> HIDE DEF c
      <3>2. c \o b \in Seq(Nat) /\ Len(c \o b) = Len(c) + Len(b) /\ c \o b # <<>>
        BY <3>1, Concat, NotEmpty
      <3> QED
        BY <3>2 DEF c
    <2>8. bytes = two \o back
      <3> DEFINE c == two \o a
                 d == b \o rest
      <3>1. d \in Seq(Nat)
        BY <2>3
      <3>2. (two \o a) \o d = two \o (a \o d)
        <4> HIDE DEF d
        <4> QED
          BY <2>2, <3>1, Behind2, ZenonT(60)
      <3>3. c \in Seq(Nat)
        BY <2>4
      <3> HIDE DEF c
      <3>4. (c \o b) \o rest = c \o (b \o rest)
        BY <3>3, Behind2
      <3> QED
        BY <3>2, <3>4, Zenon DEF c, d
    <2> HIDE DEF front, back
    <2>9. bytes \in Seq(Nat) /\ bytes # <<>>
      BY <2>7, Concat, NotEmpty
    <2>10. /\ Len(two \o back) = n + Len(back) /\ Len(back) \in Nat
           /\ \A i \in 1..n : (two \o back)[i] = two[i]
      BY <2>2, <2>6, Concat
    <2>11. From(two \o back, n + 1) = back
      BY <2>2, <2>6, FromBehind
    <2> HIDE DEF n, bytes
    <2>12. 1 \in 1..n /\ 2 \in 1..n /\ n + 1 = 3
      BY <2>1
    <2>13. bytes[1] = p /\ bytes[2] = q /\ From(bytes, 3) = back
      BY <2>1, <2>8, <2>10, <2>11, <2>12, Zenon
    <2>14. Len(bytes) >= 2
      <3> DEFINE m == Len(back)
      <3>1. Len(bytes) = 2 + m /\ m \in Nat
        BY <2>1, <2>8, <2>10, Zenon
      <3> HIDE DEF m
      <3> QED
        BY <3>1
    <2>15. Len(front) = 2 + Len(a) + Len(b)
      BY <2>1, <2>4, <2>7, Zenon DEF n
    <2> QED
      BY <2>7, <2>9, <2>13, <2>14, <2>15, Zenon DEF bytes, back, front, two, TwoTags
  <1>2. <<>> \in Seq(Nat)
    OBVIOUS
  <1> QED
    BY <1>1, <1>2, Zenon DEF TakesApart

-----------------------------------------------------------------------------
(* MichelineForging: every kind of value *)

\* bytes are not empty, and a value is read from them whatever comes behind, where reader
\* reads the values within it.
Decodes(reader, v, bytes) ==
    /\ bytes \in Seq(Nat) /\ bytes # <<>>
    /\ Len(bytes) <= MaxLength =>
          \A rest \in Seq(Nat) : ReadWith(reader, bytes \o rest) = Parsed(v, rest)

\* The fields of what was read.
LEMMA ParsedIs ==
    ASSUME NEW v, NEW rest, NEW got, got = Parsed(v, rest)
    PROVE  got.ok /\ got.value = v /\ got.rest = rest
  BY DEF Parsed

\* Values joined are bytes.
LEMMA JoinedType ==
    ASSUME NEW reader, NEW vals, NEW parts, NEW n, PartsRead(reader, vals, parts, n)
    PROVE  Joined(parts) \in Seq(Nat)
  <1>1. <<>> \in Seq(Nat)
    OBVIOUS
  <1> QED
    BY <1>1, PartsFollow, Zenon

\* intEncoder and intDecoder
LEMMA IntDecodes ==
    ASSUME NEW reader, NEW n \in Int, NEW within
    PROVE  Decodes(reader, <<"int", n>>, EncodeValue(<<"int", n>>, within))
  <1> DEFINE v == <<"int", n>>
             digits == EncodeInt(n)
             front == <<0>> \o digits
  <1>1. EncodeValue(v, within) = front
    BY DEF EncodeValue
  <1>2. digits \in Seq(Nat)
    BY IntMakes DEF OneNumber
  <1> HIDE DEF digits
  <1>3. front \in Seq(Nat) /\ front # <<>>
    BY <1>2, TagBack
  <1>4. ASSUME NEW rest \in Seq(Nat)
        PROVE  ReadWith(reader, front \o rest) = Parsed(v, rest)
    <2> DEFINE bytes == front \o rest
    <2>1. bytes # <<>> /\ bytes[1] = 0 /\ Tail(bytes) = digits \o rest
      BY <1>2, TagBack, ZenonT(60)
    <2>2. ReadInt(digits \o rest) = Parsed(v, rest)
      BY SignedNumbersReadBack DEF digits
    <2> HIDE DEF bytes
    <2>3. ReadWith(reader, bytes) = ReadInt(Tail(bytes))
      BY <2>1, SMT DEF ReadWith
    <2> QED
      BY <2>1, <2>2, <2>3, Zenon DEF bytes
  <1> QED
    BY <1>1, <1>3, <1>4, Zenon DEF Decodes

\* A string or bytes, with the length of its content.
LEMMA TextDecodes ==
    ASSUME NEW reader, NEW kind \in {"string", "bytes"}, NEW text \in Seq(Nat), NEW within
    PROVE  Decodes(reader, <<kind, text>>, EncodeValue(<<kind, text>>, within))
  <1> DEFINE v == <<kind, text>>
             tag == IF kind = "string" THEN 1 ELSE 10
             long == WithLength(text)
             front == <<tag>> \o long
  <1>1. EncodeValue(v, within) = front
    <2>1. CASE kind = "string"
      BY <2>1 DEF EncodeValue
    <2>2. CASE kind = "bytes"
      BY <2>2 DEF EncodeValue
    <2> QED
      BY <2>1, <2>2
  <1>2. long \in Seq(Nat) /\ Len(long) = Four + Len(text) /\ tag \in Nat
    BY WithLengthType
  <1> HIDE DEF long, tag
  <1>3. front \in Seq(Nat) /\ front # <<>> /\ Len(front) = 1 + Len(long)
    BY <1>2, TagBack, Zenon
  <1>4. ASSUME Len(front) <= MaxLength, NEW rest \in Seq(Nat)
        PROVE  ReadWith(reader, front \o rest) = Parsed(v, rest)
    <2> DEFINE bytes == front \o rest
    <2>1. bytes # <<>> /\ bytes[1] = tag /\ Tail(bytes) = long \o rest
      BY <1>2, TagBack, ZenonT(60)
    <2>2. Len(text) <= MaxLength
      <3> DEFINE n == Len(text)
      <3>1. n \in Nat
        OBVIOUS
      <3>2. 1 + (Four + n) <= MaxLength
        BY <1>2, <1>3, <1>4, Zenon
      <3> HIDE DEF n
      <3>3. n <= MaxLength
        BY <3>1, <3>2, SMT DEF Four, MaxLength
      <3> QED
        BY <3>3 DEF n
    <2>3. Extract(long \o rest) = Parsed(text, rest)
      BY <2>2, ExtractBack DEF long
    <2> HIDE DEF bytes
    <2>4. Leaf4(kind, long \o rest) = Parsed(v, rest)
      <3> DEFINE got == Extract(long \o rest)
      <3> HIDE DEF got
      <3>1. got.ok /\ got.value = text /\ got.rest = rest
        BY <2>3, ParsedIs DEF got
      <3> QED
        BY <3>1, Zenon DEF Leaf4, got
    <2>5. ReadWith(reader, bytes) = Leaf4(kind, Tail(bytes))
      <3>1. CASE kind = "string"
        <4>1. bytes[1] = 1
          BY <2>1, <3>1 DEF tag
        <4> QED
          BY <2>1, <3>1, <4>1 DEF ReadWith
      <3>2. CASE kind = "bytes"
        <4>1. bytes[1] = 10
          BY <2>1, <3>2 DEF tag
        <4> QED
          BY <2>1, <3>2, <4>1 DEF ReadWith
      <3> QED
        BY <3>1, <3>2
    <2> QED
      BY <2>1, <2>4, <2>5, Zenon DEF bytes
  <1> QED
    BY <1>1, <1>3, <1>4, Zenon DEF Decodes

\* A sequence of values, with the length of them all.
LEMMA SeqDecodes ==
    ASSUME NEW reader, NEW vals, NEW parts, NEW n, PartsRead(reader, vals, parts, n)
    PROVE  Decodes(reader, <<"seq", AllOf(vals, n)>>,
                   EncodeValue(<<"seq", AllOf(vals, n)>>, Joined(parts)))
  <1> DEFINE v == <<"seq", AllOf(vals, n)>>
             text == Joined(parts)
             long == WithLength(text)
             front == <<2>> \o long
  <1>1. EncodeValue(v, text) = front
    BY DEF EncodeValue
  <1>2. text \in Seq(Nat)
    BY JoinedType
  <1> HIDE DEF text
  <1>3. long \in Seq(Nat) /\ Len(long) = Four + Len(text)
    BY <1>2, WithLengthType
  <1> HIDE DEF long
  <1>4. front \in Seq(Nat) /\ front # <<>> /\ Len(front) = 1 + Len(long)
    BY <1>3, TagBack
  <1>5. ASSUME Len(front) <= MaxLength, NEW rest \in Seq(Nat)
        PROVE  ReadWith(reader, front \o rest) = Parsed(v, rest)
    <2> DEFINE bytes == front \o rest
    <2>1. bytes # <<>> /\ bytes[1] = 2 /\ Tail(bytes) = long \o rest
      BY <1>3, TagBack, ZenonT(60)
    <2>2. Len(text) <= MaxLength
      <3> DEFINE m == Len(text)
      <3>1. m \in Nat
        BY <1>2
      <3>2. 1 + (Four + m) <= MaxLength
        BY <1>3, <1>4, <1>5, Zenon
      <3> HIDE DEF m
      <3>3. m <= MaxLength
        BY <3>1, <3>2, SMT DEF Four, MaxLength
      <3> QED
        BY <3>3 DEF m
    <2>3. ReadInner(reader, long \o rest) = Parsed(AllOf(vals, n), rest)
      BY <2>2, ReadInnerBack DEF long, text
    <2> HIDE DEF bytes
    <2>4. ReadWith(reader, bytes) =
              IF ~ReadInner(reader, Tail(bytes)).ok THEN Error
              ELSE Parsed(<<"seq", ReadInner(reader, Tail(bytes)).value>>,
                          ReadInner(reader, Tail(bytes)).rest)
      BY <2>1 DEF ReadWith
    <2> DEFINE got == ReadInner(reader, Tail(bytes))
    <2>5. got = Parsed(AllOf(vals, n), rest)
      BY <2>1, <2>3, Zenon
    <2> HIDE DEF got
    <2>6. got.ok /\ got.value = AllOf(vals, n) /\ got.rest = rest
      BY <2>5, ParsedIs
    <2> QED
      BY <2>4, <2>6, Zenon DEF bytes, got
  <1> QED
    BY <1>1, <1>4, <1>5, Zenon DEF Decodes, text

\* A primitive has a code of its own.
LEMMA CodeIs ==
    ASSUME NEW name \in Prims
    PROVE  /\ DOMAIN opMapping = Prims /\ opMapping[name] \in Nat
           /\ (CHOOSE p \in Prims : opMapping[p] = opMapping[name]) = name
  <1>1. DOMAIN opMapping = Prims
    BY DEF opMapping
  <1>2. /\ opMapping["Unit"] = 11 /\ opMapping["Left"] = 5 /\ opMapping["Pair"] = 7
        /\ opMapping["LAMBDA"] = 49 /\ opMapping["view"] = 145
    BY SMT DEF opMapping, Prims
  <1>3. \A p \in Prims : opMapping[p] \in Nat
    BY <1>2, SMT DEF Prims
  <1>4. \A p \in Prims : opMapping[p] = opMapping[name] => p = name
    BY <1>2, SMT DEF Prims
  <1> QED
    BY <1>1, <1>3, <1>4

\* primDecoder, when the arguments have been read and back is left.
PrimRead(name, n, annotated, args, back) ==
    LET annots == ReadAnnots(back)
        prim(a, rest) == Parsed(<<"prim", name, args, a>>, rest)
    IN  IF name = "Pair" /\ n > 2
        THEN IF ~annots.ok THEN Error
             ELSE prim(IF annots.value[1] # <<>> THEN Annotated(annots.value) ELSE NoAnnots,
                       annots.rest)
        ELSE IF name = "view" \/ n > 2 \/ ~annotated THEN prim(NoAnnots, back)
        ELSE IF ~annots.ok THEN Error
        ELSE prim(Annotated(annots.value), annots.rest)

\* What is in front of the arguments of a primitive.
Preamble(n, annots) == IF n > 2 THEN 9 ELSE 2 * n + 3 + IF annots.given THEN 1 ELSE 0

\* The arguments of n have been read, and back is left.  The preamble of more than two says 3.
ArgsRead(reader, name, bytes, n, args, back) ==
    ReadArgs(reader, name, From(bytes, 3), IF n > 2 THEN 3 ELSE n) = Parsed(args, back)

PrimReads(reader, name, bytes, n, annots, args, back) ==
    ReadWith(reader, bytes) = PrimRead(name, n, annots.given, args, back)

LEMMA ReadPrimIs ==
    ASSUME NEW reader, NEW bytes, NEW name \in Prims, bytes # <<>>, Len(bytes) >= 2,
           bytes[2] = opMapping[name], NEW n \in Nat, n <= 4, NEW annots,
           annots.given \in BOOLEAN, bytes[1] = Preamble(n, annots), NEW args, NEW back,
           ArgsRead(reader, name, bytes, n, args, back)
    PROVE  PrimReads(reader, name, bytes, n, annots, args, back)
  <1> DEFINE annotated == annots.given
             more == IF annotated THEN 1 ELSE 0
             first == bytes[1]
             m == (bytes[1] - 3) \div 2
             got == ReadArgs(reader, name, From(bytes, 3), m)
             name1 == CHOOSE p \in DOMAIN opMapping : opMapping[p] = bytes[2]
  <1>1. /\ first \in 3..9 /\ (first - 3) \div 2 = (IF n > 2 THEN 3 ELSE n)
        /\ (first - 3) % 2 = 0 <=> n > 2 \/ ~annotated
    <2>1. first = IF n > 2 THEN 9 ELSE 2 * n + 3 + more
      BY DEF Preamble
    <2>2. more \in {0, 1} /\ (more = 1 <=> annotated)
      OBVIOUS
    <2> HIDE DEF first, more, annotated
    <2>3. CASE n > 2
      BY <2>1, <2>2, <2>3
    <2>4. CASE ~(n > 2)
      BY <2>1, <2>2, <2>4
    <2> QED
      BY <2>3, <2>4
  <1>2. name1 = name /\ ~\A p \in DOMAIN opMapping : opMapping[p] # bytes[2]
    <2> DEFINE code == opMapping[name]
    <2>1. DOMAIN opMapping = Prims /\ (CHOOSE p \in Prims : opMapping[p] = code) = name
      BY CodeIs
    <2>2. bytes[2] = code /\ opMapping[name] = code
      OBVIOUS
    <2> HIDE DEF code
    <2>3. name1 = name
      BY <2>1, <2>2, Zenon
    <2>4. name \in DOMAIN opMapping
      BY <2>1, Zenon
    <2> QED
      BY <2>2, <2>3, <2>4, Zenon
  <1>3. m > 2 <=> n > 2
    BY <1>1
  <1>4. got = Parsed(args, back)
    BY <1>1, Zenon DEF ArgsRead
  <1>5. ReadWith(reader, bytes) = ReadPrim(reader, bytes)
    <2> HIDE DEF first
    <2>1. first # 0 /\ first # 1 /\ first # 2 /\ first # 10
      BY <1>1
    <2> QED
      BY <2>1, SMT DEF ReadWith, first
  <1>6. (bytes[1] - 3) % 2 = 0 <=> n > 2 \/ ~annotated
    BY <1>1
  <1> HIDE DEF first, m
  <1>7. got.ok /\ got.value = args /\ got.rest = back
    BY <1>4, ParsedIs
  <1> HIDE DEF got, name1
  <1>8. ~(Len(bytes) < 2)
    <2> DEFINE k == Len(bytes)
    <2>1. k >= 2
      OBVIOUS
    <2> QED
      OBVIOUS
  <1> QED
    BY <1>2, <1>3, <1>5, <1>6, <1>7, <1>8, Zenon DEF ReadPrim, PrimRead, PrimReads, got, m, name1

\* What a value that is forged may be: no list of annotations is given and empty, and a
\* LAMBDA or a view has none.
PlainAnnots(name, annots) ==
    \/ annots = NoAnnots
    \/ /\ name \notin {"LAMBDA", "view"}
       /\ \E list \in Seq(Annotations) : list # <<>> /\ annots = Annotated(list)

\* The bytes of a primitive: two tags, the arguments and the annotations.
PrimIs(name, args, n, annots, text) ==
    EncodeValue(<<"prim", name, args, annots>>, text) =
        TwoTags(Preamble(n, annots), opMapping[name],
                EncodeArgs(name, text, n, annots), EncodeAnnots(annots))

LEMMA EncodePrimIs ==
    ASSUME NEW name, NEW args, NEW n \in Nat, Len(args) = n, NEW annots, NEW text
    PROVE  PrimIs(name, args, n, annots, text)
  <1> DEFINE v == <<"prim", name, args, annots>>
             preamble == 2 * n + 3 + IF annots.given THEN 1 ELSE 0
             pre == Preamble(n, annots)
  <1>1. (IF preamble > 9 THEN 9 ELSE preamble) = pre
    BY DEF Preamble
  <1>2. v[1] = "prim" /\ v[2] = name /\ Len(v[3]) = n /\ v[4] = annots
    OBVIOUS
  <1> HIDE DEF v
  <1>3. EncodeValue(v, text) =
            (<<IF preamble > 9 THEN 9 ELSE preamble, opMapping[name]>>
             \o EncodeArgs(name, text, n, annots)) \o EncodeAnnots(annots)
    BY <1>2, Zenon DEF EncodeValue
  <1> HIDE DEF preamble, pre
  <1>4. EncodeValue(v, text) =
            (<<pre, opMapping[name]>> \o EncodeArgs(name, text, n, annots)) \o EncodeAnnots(annots)
    BY <1>1, <1>3, Zenon
  <1> QED
    BY <1>4, Zenon DEF v, pre, TwoTags, PrimIs

\* The annotations that there may be, and their bytes.
LEMMA PlainAnnotsType ==
    ASSUME NEW name, NEW annots, PlainAnnots(name, annots)
    PROVE  /\ annots.given \in BOOLEAN /\ EncodeAnnots(annots) \in Seq(Nat)
           /\ ~annots.given => annots = NoAnnots /\ EncodeAnnots(annots) = <<>>
           /\ annots.given =>
                 /\ name \notin {"LAMBDA", "view"}
                 /\ \E list \in Seq(Annotations) :
                       /\ list # <<>> /\ annots = Annotated(list)
                       /\ Len(EncodeAnnots(annots)) <= MaxLength =>
                             \A rest \in Seq(Nat) :
                                ReadAnnots(EncodeAnnots(annots) \o rest) = Parsed(list, rest)
  <1>1. CASE annots = NoAnnots
    <2>1. ~annots.given /\ annots.given \in BOOLEAN
      BY <1>1 DEF NoAnnots
    <2>2. EncodeAnnots(annots) = <<>> /\ <<>> \in Seq(Nat)
      BY <2>1 DEF EncodeAnnots
    <2> QED
      BY <1>1, <2>1, <2>2, Zenon
  <1>2. CASE annots # NoAnnots
    <2>1. PICK list \in Seq(Annotations) : list # <<>> /\ annots = Annotated(list)
      BY <1>2 DEF PlainAnnots
    <2>2. annots.given /\ annots.given \in BOOLEAN /\ annots.list = list
      BY <2>1 DEF Annotated
    <2> DEFINE text == Spaced(list)
               long == WithLength(text)
    <2>3. text \in Seq(Nat)
      BY <2>1, SpacedSplits
    <2> HIDE DEF text
    <2>4. EncodeAnnots(annots) = long
      BY <2>2, Zenon DEF EncodeAnnots, text
    <2>5. long \in Seq(Nat) /\ Len(long) = Four + Len(text)
      BY <2>3, WithLengthType
    <2>6. ASSUME Len(long) <= MaxLength, NEW rest \in Seq(Nat)
          PROVE  ReadAnnots(long \o rest) = Parsed(list, rest)
      <3>1. Len(text) <= MaxLength
        <4> DEFINE m == Len(text)
        <4>1. m \in Nat
          BY <2>3
        <4>2. Four + m <= MaxLength
          BY <2>5, <2>6, Zenon
        <4> HIDE DEF m
        <4>3. m <= MaxLength
          BY <4>1, <4>2, SMT DEF Four, MaxLength
        <4> QED
          BY <4>3 DEF m
      <3>2. ReadAnnots(EncodeAnnots(Annotated(list)) \o rest) = Parsed(list, rest)
        BY <2>1, <3>1, ReadAnnotsBack DEF text
      <3> QED
        BY <2>1, <2>4, <3>2, Zenon
    <2>7. name \notin {"LAMBDA", "view"}
      BY <1>2 DEF PlainAnnots
    <2> HIDE DEF long
    <2>8. \A rest \in Seq(Nat) : Len(long) <= MaxLength =>
                                     ReadAnnots(long \o rest) = Parsed(list, rest)
      BY <2>6
    <2> QED
      BY <2>1, <2>2, <2>4, <2>5, <2>7, <2>8, Zenon
  <1> QED
    BY <1>1, <1>2

\* The bytes of a primitive, as its decoder takes them apart: a preamble, a code, those of
\* the arguments and those of the annotations.
LEMMA PrimBytes ==
    ASSUME NEW name \in Prims, NEW args, NEW n \in 0..4, Len(args) = n, NEW annots,
           PlainAnnots(name, annots), NEW text,
           EncodeArgs(name, text, n, annots) \in Seq(Nat)
    PROVE  LET a == EncodeArgs(name, text, n, annots)
               front == EncodeValue(<<"prim", name, args, annots>>, text)
               b == EncodeAnnots(annots)
           IN  /\ TakesApart(front, Preamble(n, annots), opMapping[name], a, b)
               /\ Len(front) <= MaxLength => Len(a) <= MaxLength /\ Len(b) <= MaxLength
  <1> DEFINE a == EncodeArgs(name, text, n, annots)
             front == EncodeValue(<<"prim", name, args, annots>>, text)
             b == EncodeAnnots(annots)
             p == Preamble(n, annots)
             q == opMapping[name]
  <1>1. b \in Seq(Nat) /\ annots.given \in BOOLEAN
    BY PlainAnnotsType
  <1>2. p \in Nat
    BY DEF Preamble
  <1>3. q \in Nat
    BY CodeIs
  <1>4. front = TwoTags(p, q, a, b)
    <2>1. n \in Nat /\ Len(args) = n
      BY <1>1
    <2>2. PrimIs(name, args, n, annots, text)
      BY <2>1, EncodePrimIs, Zenon
    <2> QED
      BY <2>2, Zenon DEF PrimIs
  <1> HIDE DEF a, b, p, q, front
  <1>5. a \in Seq(Nat)
    BY DEF a
  <1>6. TakesApart(front, p, q, a, b)
    BY <1>1, <1>2, <1>3, <1>4, <1>5, TwoTagsBack
  <1>7. ASSUME Len(front) <= MaxLength
        PROVE  Len(a) <= MaxLength /\ Len(b) <= MaxLength
    <2> DEFINE k == Len(a)
               m == Len(b)
    <2>1. k \in Nat /\ m \in Nat
      BY <1>1, <1>5, LenProperties
    <2>2. 2 + k + m <= MaxLength
      BY <1>6, <1>7, Zenon DEF TakesApart
    <2> HIDE DEF k, m
    <2>3. k <= MaxLength /\ m <= MaxLength
      BY <2>1, <2>2, SMT DEF MaxLength
    <2> QED
      BY <2>3 DEF k, m
  <1> QED
    BY <1>6, <1>7, Zenon DEF front, a, b, p, q

\* How many arguments a primitive has.
LEMMA ArityIs ==
    ASSUME NEW name \in Prims, NEW n \in Arities[name]
    PROVE  /\ n \in 0..4
           /\ name = "view" => n = 4
           /\ name = "LAMBDA" => n = 3
           /\ n > 2 => name \in {"Pair", "LAMBDA", "view"}
  <1>1. CASE name = "Unit"
    <2>1. Arities[name] = {0}
      BY <1>1 DEF Arities
    <2> QED
      BY <1>1, <2>1
  <1>2. CASE name = "Left"
    <2>1. Arities[name] = {1}
      BY <1>2 DEF Arities
    <2> QED
      BY <1>2, <2>1
  <1>3. CASE name = "Pair"
    <2>1. Arities[name] = 2..4
      BY <1>3 DEF Arities
    <2> QED
      BY <1>3, <2>1
  <1>4. CASE name = "LAMBDA"
    <2>1. Arities[name] = {3}
      BY <1>4 DEF Arities
    <2> QED
      BY <1>4, <2>1
  <1>5. CASE name = "view"
    <2>1. Arities[name] = {4}
      BY <1>5 DEF Arities
    <2> QED
      BY <1>5, <2>1
  <1> QED
    BY <1>1, <1>2, <1>3, <1>4, <1>5 DEF Prims

\* The arguments of a primitive are bytes.
LEMMA EncodeArgsType ==
    ASSUME NEW name, NEW text \in Seq(Nat), NEW n, NEW annots
    PROVE  EncodeArgs(name, text, n, annots) \in Seq(Nat)
  <1> DEFINE long == WithLength(text)
             zero == Bytes4(0)
  <1>1. long \in Seq(Nat)
    BY WithLengthType
  <1>2. zero \in Seq(Nat) /\ <<>> \in Seq(Nat)
    BY FourBytes
  <1> HIDE DEF long, zero
  <1>3. long \o zero \in Seq(Nat)
    BY <1>1, <1>2, Concat
  <1>4. long \o <<>> \in Seq(Nat)
    BY <1>1, <1>2, Concat
  <1> QED
    BY <1>3, <1>4, Zenon DEF EncodeArgs, long, zero

\* What is left behind the arguments: a comb of pairs without annotations has an empty list.
BehindArgs(name, n, annots, rest) ==
    IF name = "Pair" /\ n > 2 /\ ~annots.given THEN Bytes4(0) \o rest ELSE rest

\* The arguments of a primitive are read back.
LEMMA ReadArgsBack ==
    ASSUME NEW reader, NEW vals, NEW parts, NEW n, PartsRead(reader, vals, parts, n),
           NEW name \in Prims, n \in Arities[name], NEW annots, NEW rest \in Seq(Nat),
           Len(EncodeArgs(name, Joined(parts), n, annots)) <= MaxLength
    PROVE  ReadArgs(reader, name, EncodeArgs(name, Joined(parts), n, annots) \o rest,
                    IF n > 2 THEN 3 ELSE n)
               = Parsed(AllOf(vals, n), BehindArgs(name, n, annots, rest))
  <1> DEFINE text == Joined(parts)
             long == WithLength(text)
             zero == Bytes4(0)
             a == EncodeArgs(name, text, n, annots)
             m == IF n > 2 THEN 3 ELSE n
             all == AllOf(vals, n)
  <1>1. /\ n \in 0..4 /\ (name = "view" => n = 4) /\ (name = "LAMBDA" => n = 3)
        /\ n > 2 => name \in {"Pair", "LAMBDA", "view"}
    BY ArityIs, Zenon
  <1>2. text \in Seq(Nat) /\ \A back \in Seq(Nat) :
                                 ReadValues(reader, text \o back, n) = Parsed(all, back)
    BY PartsFollow, JoinedType
  <1>3. \A back \in Seq(Nat) : ReadWrapped(reader, long \o (zero \o back), n) = Parsed(all, back)
    BY ReadWrappedBack
  <1>4. Len(text) <= MaxLength =>
            \A back \in Seq(Nat) : ReadInner(reader, long \o back) = Parsed(all, back)
    BY ReadInnerBack
  <1> HIDE DEF text, all
  <1>5. long \in Seq(Nat) /\ Len(long) = Four + Len(text)
    BY <1>2, WithLengthType
  <1>6. zero \in Seq(Nat) /\ Len(zero) = Four
    BY FourBytes
  <1> HIDE DEF long, zero
  <1>7. (long \o zero) \o rest = long \o (zero \o rest)
    BY <1>5, <1>6, Behind2, ZenonT(60)
  <1>8. CASE name = "Pair" /\ n > 2 /\ annots.given
    <2>1. a = long
      <3>1. a = long \o <<>>
        BY <1>8, Zenon DEF EncodeArgs, long
      <3> HIDE DEF a
      <3> QED
        BY <1>5, <3>1, ConcatEmptySeq
    <2> HIDE DEF a
    <2>2. Len(text) <= MaxLength
      <3> DEFINE k == Len(text)
      <3>1. k \in Nat
        BY <1>2, LenProperties
      <3>2. Four + k <= MaxLength
        BY <1>5, <2>1, Zenon DEF a, text
      <3> HIDE DEF k
      <3>3. k <= MaxLength
        BY <3>1, <3>2, SMT DEF Four, MaxLength
      <3> QED
        BY <3>3 DEF k
    <2>3. ReadArgs(reader, name, a \o rest, m) = ReadInner(reader, long \o rest)
      BY <1>8, <2>1 DEF ReadArgs
    <2>4. BehindArgs(name, n, annots, rest) = rest
      BY <1>8, Zenon DEF BehindArgs
    <2>5. ReadArgs(reader, name, a \o rest, m) = Parsed(all, BehindArgs(name, n, annots, rest))
      BY <1>4, <2>2, <2>3, <2>4, Zenon
    <2> QED
      BY <2>5 DEF a, text, all
  <1>9. CASE name = "Pair" /\ n > 2 /\ ~annots.given
    <2>1. a = long \o zero
      BY <1>9, Zenon DEF EncodeArgs, long, zero
    <2> HIDE DEF a
    <2>2. Len(text) <= MaxLength
      <3> DEFINE k == Len(text)
      <3>1. k \in Nat
        BY <1>2, LenProperties
      <3>2. Len(a) = Len(long) + Len(zero)
        BY <1>5, <1>6, <2>1, Concat
      <3>3. (Four + k) + Four <= MaxLength
        BY <1>5, <1>6, <3>2, Zenon DEF a, text
      <3> HIDE DEF k
      <3>4. k <= MaxLength
        BY <3>1, <3>3, SMT DEF Four, MaxLength
      <3> QED
        BY <3>4 DEF k
    <2>3. a \o rest = long \o (zero \o rest)
      BY <1>7, <2>1, Zenon
    <2>4. zero \o rest \in Seq(Nat)
      BY <1>6, Concat
    <2>5. ReadArgs(reader, name, a \o rest, m) = ReadInner(reader, a \o rest)
      BY <1>9 DEF ReadArgs
    <2>6. BehindArgs(name, n, annots, rest) = zero \o rest
      BY <1>9, Zenon DEF BehindArgs, zero
    <2>7. ReadArgs(reader, name, a \o rest, m) = Parsed(all, BehindArgs(name, n, annots, rest))
      BY <1>4, <2>2, <2>3, <2>4, <2>5, <2>6, Zenon
    <2> QED
      BY <2>7 DEF a, text, all
  <1>10. CASE name \in {"LAMBDA", "view"}
    <2>1. a = long \o zero /\ name # "Pair"
      BY <1>10, Zenon DEF EncodeArgs, long, zero
    <2> HIDE DEF a
    <2>2. a \o rest = long \o (zero \o rest)
      BY <1>7, <2>1, Zenon
    <2>3. ReadArgs(reader, name, a \o rest, m) = ReadWrapped(reader, a \o rest, n)
      BY <1>1, <1>10 DEF ReadArgs
    <2>4. BehindArgs(name, n, annots, rest) = rest
      BY <2>1, Zenon DEF BehindArgs
    <2>5. ReadArgs(reader, name, a \o rest, m) = Parsed(all, BehindArgs(name, n, annots, rest))
      BY <1>3, <2>2, <2>3, <2>4, Zenon
    <2> QED
      BY <2>5 DEF a, text, all
  <1>11. CASE ~(n > 2) /\ name \notin {"LAMBDA", "view"}
    <2>1. a = text
      BY <1>11, Zenon DEF EncodeArgs
    <2> HIDE DEF a
    <2>2. ReadArgs(reader, name, a \o rest, m) = ReadValues(reader, a \o rest, n)
      BY <1>11 DEF ReadArgs
    <2>3. BehindArgs(name, n, annots, rest) = rest
      BY <1>11, Zenon DEF BehindArgs
    <2>4. ReadArgs(reader, name, a \o rest, m) = Parsed(all, BehindArgs(name, n, annots, rest))
      BY <1>2, <2>1, <2>2, <2>3, Zenon
    <2> QED
      BY <2>4 DEF a, text, all
  <1> QED
    BY <1>1, <1>8, <1>9, <1>10, <1>11, Zenon

\* Its annotations too, and nothing else is.
LEMMA PrimReadBack ==
    ASSUME NEW name \in Prims, NEW n \in Arities[name], NEW annots, PlainAnnots(name, annots),
           Len(EncodeAnnots(annots)) <= MaxLength, NEW args, NEW rest \in Seq(Nat)
    PROVE  PrimRead(name, n, annots.given, args,
                    BehindArgs(name, n, annots, EncodeAnnots(annots) \o rest))
               = Parsed(<<"prim", name, args, annots>>, rest)
  <1> DEFINE b == EncodeAnnots(annots)
             back == BehindArgs(name, n, annots, b \o rest)
             got == ReadAnnots(back)
  <1>1. /\ n > 2 => name \in {"Pair", "LAMBDA", "view"}
    BY ArityIs, Zenon
  <1>2. CASE annots.given
    <2>1. PICK list \in Seq(Annotations) :
              /\ list # <<>> /\ annots = Annotated(list)
              /\ Len(b) <= MaxLength => \A r \in Seq(Nat) : ReadAnnots(b \o r) = Parsed(list, r)
      BY <1>2, PlainAnnotsType
    <2>2. name \notin {"LAMBDA", "view"}
      BY <1>2, PlainAnnotsType
    <2>3. back = b \o rest
      BY <1>2, Zenon DEF BehindArgs
    <2>4. list[1] # <<>>
      <3>1. list[1] \in Annotations
        BY <2>1
      <3> QED
        BY <3>1 DEF Annotations
    <2> HIDE DEF back
    <2>5. got = Parsed(list, rest)
      <3> HIDE DEF b
      <3>1. Len(b) <= MaxLength
        BY DEF b
      <3> QED
        BY <2>1, <2>3, <3>1, Zenon
    <2> HIDE DEF got
    <2>6. got.ok /\ got.value = list /\ got.rest = rest
      BY <2>5, ParsedIs
    <2>7. PrimRead(name, n, annots.given, args, back)
              = Parsed(<<"prim", name, args, Annotated(list)>>, rest)
      BY <1>1, <1>2, <2>2, <2>4, <2>6, Zenon DEF PrimRead, got
    <2> QED
      BY <2>1, <2>7, Zenon DEF back, b
  <1>3. CASE ~annots.given
    <2>1. annots = NoAnnots /\ b = <<>>
      BY <1>3, PlainAnnotsType
    <2> HIDE DEF b
    <2>2. b \o rest = rest
      BY <2>1, ConcatEmptySeq
    <2>3. CASE name = "Pair" /\ n > 2
      <3>1. back = Bytes4(0) \o rest
        BY <1>3, <2>2, <2>3, Zenon DEF BehindArgs
      <3> HIDE DEF back
      <3> DEFINE none == << <<>> >>
      <3>2. got = Parsed(none, rest)
        BY <3>1, ReadNoAnnots, Zenon
      <3>3. none[1] = <<>>
        OBVIOUS
      <3> HIDE DEF got, none
      <3>4. got.ok /\ got.value = none /\ got.rest = rest
        BY <3>2, ParsedIs
      <3>5. PrimRead(name, n, annots.given, args, back)
                = Parsed(<<"prim", name, args, NoAnnots>>, rest)
        BY <2>3, <3>3, <3>4, Zenon DEF PrimRead, got
      <3> QED
        BY <2>1, <3>5, Zenon DEF back, b
    <2>4. CASE ~(name = "Pair" /\ n > 2)
      <3>1. back = rest
        BY <2>2, <2>4, Zenon DEF BehindArgs
      <3> HIDE DEF back
      <3>2. PrimRead(name, n, annots.given, args, back)
                = Parsed(<<"prim", name, args, NoAnnots>>, rest)
        BY <1>3, <2>4, <3>1, Zenon DEF PrimRead
      <3> QED
        BY <2>1, <3>2, Zenon DEF back, b
    <2> QED
      BY <2>3, <2>4, Zenon
  <1> QED
    BY <1>2, <1>3, Zenon

\* A primitive, with its arguments and annotations.
LEMMA PrimDecodes ==
    ASSUME NEW reader, NEW vals, NEW parts, NEW n, PartsRead(reader, vals, parts, n),
           NEW name \in Prims, n \in Arities[name], NEW annots, PlainAnnots(name, annots)
    PROVE  Decodes(reader, <<"prim", name, AllOf(vals, n), annots>>,
                   EncodeValue(<<"prim", name, AllOf(vals, n), annots>>, Joined(parts)))
  <1> DEFINE args == AllOf(vals, n)
             v == <<"prim", name, args, annots>>
             text == Joined(parts)
             front == EncodeValue(v, text)
             a == EncodeArgs(name, text, n, annots)
             b == EncodeAnnots(annots)
             p == Preamble(n, annots)
             q == opMapping[name]
  <1>1. n \in 0..4
    BY ArityIs, Zenon
  <1>2. Len(args) = n
    BY <1>1 DEF AllOf
  <1>3. text \in Seq(Nat)
    BY JoinedType
  <1>4. a \in Seq(Nat)
    BY <1>3, EncodeArgsType
  <1>5. annots.given \in BOOLEAN /\ b \in Seq(Nat)
    BY PlainAnnotsType, Zenon
  <1>6. \A back \in Seq(Nat) : Len(a) <= MaxLength =>
            ReadArgs(reader, name, a \o back, IF n > 2 THEN 3 ELSE n)
                = Parsed(args, BehindArgs(name, n, annots, back))
    BY ReadArgsBack
  <1>7. \A rest \in Seq(Nat) : Len(b) <= MaxLength =>
            PrimRead(name, n, annots.given, args, BehindArgs(name, n, annots, b \o rest))
                = Parsed(v, rest)
    BY PrimReadBack
  <1> HIDE DEF args
  <1>8. /\ TakesApart(front, p, q, a, b)
        /\ Len(front) <= MaxLength => Len(a) <= MaxLength /\ Len(b) <= MaxLength
    BY <1>1, <1>2, <1>4, PrimBytes, Zenon
  <1> HIDE DEF v, front, a, b, p, q
  <1>9. ASSUME Len(front) <= MaxLength, NEW rest \in Seq(Nat)
        PROVE  ReadWith(reader, front \o rest) = Parsed(v, rest)
    <2> DEFINE bytes == front \o rest
               back == BehindArgs(name, n, annots, b \o rest)
    <2>1. /\ bytes # <<>> /\ Len(bytes) >= 2 /\ bytes[1] = p /\ bytes[2] = q
          /\ From(bytes, 3) = a \o (b \o rest)
      BY <1>8, Zenon DEF TakesApart
    <2>2. b \o rest \in Seq(Nat)
      BY <1>5, Concat
    <2> HIDE DEF bytes
    <2>3. ArgsRead(reader, name, bytes, n, args, back)
      BY <1>6, <1>8, <1>9, <2>1, <2>2, Zenon DEF ArgsRead
    <2>4. bytes[1] = Preamble(n, annots) /\ bytes[2] = opMapping[name]
      BY <2>1, Zenon DEF p, q
    <2>5. bytes # <<>> /\ Len(bytes) >= 2
      BY <2>1, Zenon
    <2>6. n \in Nat /\ n <= 4
      BY <1>1
    <2> HIDE DEF back
    <2>7. PrimReads(reader, name, bytes, n, annots, args, back)
      BY <1>5, <2>3, <2>4, <2>5, <2>6, ReadPrimIs, SMTT(60)
    <2>8. ReadWith(reader, bytes) = PrimRead(name, n, annots.given, args, back)
      BY <2>7, Zenon DEF PrimReads
    <2> QED
      BY <1>7, <1>8, <1>9, <2>8, Zenon DEF bytes, back
  <1>10. front \in Seq(Nat) /\ front # <<>>
    BY <1>8, Zenon DEF TakesApart
  <1> QED
    BY <1>9, <1>10, Zenon DEF Decodes, front, v, args, text

-----------------------------------------------------------------------------
(* MichelineForging: values within values *)

\* What is forged is bytes, from which the value is read back to any depth that is not less
\* than their number, unless it or a part of it has annotations that are not.
Sound(e) ==
    /\ e.bytes \in Seq(Nat) /\ e.bytes # <<>>
    /\ ~e.empty /\ ~e.lambda /\ Len(e.bytes) <= MaxLength =>
          \A depth \in Nat : depth >= Len(e.bytes) => Reads(Reader[depth], e.value, e.bytes)

BytesOf(parts) == [i \in DOMAIN parts |-> parts[i].bytes]

\* The parts of a value.
PartsOf(parts, n) ==
    /\ n \in Nat /\ DOMAIN parts = 1..n /\ \A i \in 1..n : Sound(parts[i])

\* Their bytes, joined.
LEMMA BytesJoined ==
    ASSUME NEW parts, NEW n, PartsOf(parts, n)
    PROVE  /\ Len(BytesOf(parts)) = n
           /\ \A i \in 1..n : BytesOf(parts)[i] = parts[i].bytes
           /\ \A i \in 1..n : StackValues(parts)[i] = parts[i].value
           /\ AllOf(StackValues(parts), n) = StackValues(parts)
           /\ Joined(BytesOf(parts)) \in Seq(Nat)
           /\ \A i \in 1..n : Len(parts[i].bytes) <= Len(Joined(BytesOf(parts)))
  <1>1. n \in Nat /\ DOMAIN parts = 1..n /\ \A i \in 1..n : parts[i].bytes \in Seq(Nat)
    BY DEF PartsOf, Sound
  <1> DEFINE all == BytesOf(parts)
  <1>2. Len(all) = n /\ \A i \in 1..n : all[i] = parts[i].bytes
    BY <1>1 DEF BytesOf
  <1>3. /\ \A i \in 1..n : StackValues(parts)[i] = parts[i].value
        /\ AllOf(StackValues(parts), n) = StackValues(parts)
    BY <1>1 DEF StackValues, AllOf
  <1> HIDE DEF all
  <1>4. PICK j : Joins(j, all) /\ j[1] = Joined(all)
    BY <1>1, <1>2, JoinedIs
  <1>5. 1 \in 1..(Len(all) + 1)
    BY <1>1, <1>2
  <1>6. Joined(all) \in Seq(Nat)
    BY <1>4, <1>5, Zenon DEF Joins
  <1>7. \A i \in 1..Len(all) : Len(all[i]) <= Len(j[1])
    BY <1>1, <1>2, <1>4, PartsAreShorter
  <1> QED
    BY <1>2, <1>3, <1>4, <1>6, <1>7, Zenon DEF all

\* A value is good that has good parts and more bytes than they have together, and that is
\* read by what reads its parts.
LEMMA ForgeGood ==
    ASSUME NEW parts, NEW n, PartsOf(parts, n), NEW v, NEW bytes \in Seq(Nat),
           bytes = EncodeValue(v, Joined(BytesOf(parts))),
           Len(Joined(BytesOf(parts))) < Len(bytes),
           ~Forge(v, parts).empty /\ ~Forge(v, parts).lambda =>
               \A reader : PartsRead(reader, StackValues(parts), BytesOf(parts), n) =>
                               Decodes(reader, v, bytes)
    PROVE  Sound(Forge(v, parts))
  <1> DEFINE text == Joined(BytesOf(parts))
             e == Forge(v, parts)
  <1>1. /\ e.value = v /\ e.bytes = bytes
        /\ ~e.empty => \A i \in DOMAIN parts : ~parts[i].empty
        /\ ~e.lambda => \A i \in DOMAIN parts : ~parts[i].lambda
    BY DEF Forge, BytesOf
  <1>2. /\ n \in Nat /\ Len(BytesOf(parts)) = n /\ text \in Seq(Nat)
        /\ \A i \in 1..n : BytesOf(parts)[i] = parts[i].bytes
        /\ \A i \in 1..n : StackValues(parts)[i] = parts[i].value
        /\ \A i \in 1..n : Len(parts[i].bytes) <= Len(text)
    BY BytesJoined, Zenon DEF PartsOf
  <1>3. Len(text) \in Nat /\ Len(bytes) \in Nat
    BY <1>2, LenProperties
  <1> HIDE DEF text
  <1>4. bytes # <<>> /\ Len(bytes) > 0 /\ Len(text) < Len(bytes)
    <2>1. Len(text) < Len(bytes)
      BY Zenon DEF text
    <2>2. Len(bytes) > 0
      BY <1>3, <2>1
    <2>3. bytes # <<>>
      <3>1. SUFFICES ASSUME bytes = <<>> PROVE FALSE
        OBVIOUS
      <3> QED
        BY <2>2, <3>1
    <2> QED
      BY <2>1, <2>2, <2>3
  <1> HIDE DEF e
  <1>5. ASSUME ~e.empty, ~e.lambda, Len(bytes) <= MaxLength,
               NEW depth \in Nat, depth >= Len(bytes), NEW rest \in Seq(Nat)
        PROVE  Reader[depth][bytes \o rest] = Parsed(v, rest)
    <2>1. depth \in Nat \ {0} /\ depth - 1 \in Nat /\ depth - 1 >= Len(text)
      BY <1>3, <1>4, <1>5
    <2>2. Len(text) <= MaxLength
      <3> DEFINE k == Len(text)
                 m == Len(bytes)
      <3>1. k \in Nat /\ m \in Nat /\ k < m /\ m <= MaxLength
        BY <1>3, <1>4, <1>5
      <3> HIDE DEF k, m
      <3>2. k <= MaxLength
        BY <3>1, SMT DEF MaxLength
      <3> QED
        BY <3>2 DEF k
    <2>3. ASSUME NEW i \in 1..n
          PROVE  /\ parts[i].bytes \in Seq(Nat) /\ parts[i].bytes # <<>>
                 /\ Reads(Reader[depth - 1], parts[i].value, parts[i].bytes)
      <3> DEFINE k == Len(parts[i].bytes)
                 m == Len(text)
      <3>1. Sound(parts[i]) /\ i \in DOMAIN parts
        BY DEF PartsOf
      <3>2. /\ parts[i].bytes \in Seq(Nat) /\ parts[i].bytes # <<>>
            /\ ~parts[i].empty /\ ~parts[i].lambda
        BY <1>1, <1>5, <3>1, Zenon DEF Sound
      <3>3. k \in Nat
        BY <3>2, LenProperties
      <3>4. k <= m /\ m \in Nat /\ m <= MaxLength /\ depth - 1 >= m
        BY <1>2, <1>3, <2>1, <2>2
      <3> HIDE DEF k, m
      <3>5. k <= MaxLength
        BY <3>3, <3>4, SMT DEF MaxLength
      <3>6. depth - 1 >= k
        BY <2>1, <3>3, <3>4
      <3>7. Reads(Reader[depth - 1], parts[i].value, parts[i].bytes)
        BY <2>1, <3>1, <3>2, <3>5, <3>6, Zenon DEF Sound, k
      <3> QED
        BY <3>2, <3>7, Zenon
    <2>4. PartsRead(Reader[depth - 1], StackValues(parts), BytesOf(parts), n)
      BY <1>2, <2>3, Zenon DEF PartsRead
    <2>5. Decodes(Reader[depth - 1], v, bytes)
      BY <1>5, <2>4, Zenon DEF e
    <2>6. ReadWith(Reader[depth - 1], bytes \o rest) = Parsed(v, rest)
      BY <1>5, <2>5, Zenon DEF Decodes
    <2>7. bytes \o rest \in Seq(Nat)
      BY Concat
    <2> DEFINE both == bytes \o rest
    <2> HIDE DEF both
    <2>8. Reader[depth][both] = ReadWith(Reader[depth - 1], both)
      BY <2>1, <2>7, ReaderReads DEF both
    <2> QED
      BY <2>6, <2>8, Zenon DEF both
  <1>6. Sound(e)
    BY <1>1, <1>4, <1>5, Zenon DEF Sound, Reads
  <1> QED
    BY <1>6, Zenon DEF e

\* A leaf has no parts.
LEMMA LeavesGood ==
    ASSUME NEW v \in Leaves
    PROVE  Sound(Forge(v, <<>>))
  <1> DEFINE none == <<>>
             text == Joined(BytesOf(none))
             bytes == EncodeValue(v, text)
  <1>1. PartsOf(none, 0)
    BY DEF PartsOf
  <1>2. text \in Seq(Nat)
    BY <1>1, BytesJoined, Zenon
  <1>3. text = <<>>
    <2>1. BytesOf(none) = <<>>
      BY DEF BytesOf
    <2>2. Len(<<>>) \in Nat /\ \A i \in 1..Len(<<>>) : <<>>[i] \in Seq(Nat)
      OBVIOUS
    <2>3. PICK j : Joins(j, <<>>) /\ j[1] = Joined(<<>>)
      BY <2>2, JoinedIs
    <2>4. 1 \in 1..(Len(<<>>) + 1) /\ 1 > Len(<<>>)
      OBVIOUS
    <2>5. j[1] = <<>>
      BY <2>3, <2>4, Zenon DEF Joins, JoinsOne
    <2> QED
      BY <2>1, <2>3, <2>5, Zenon
  <1> HIDE DEF text, none
  <1>4. \A reader : Decodes(reader, v, bytes)
    <2>1. CASE \E n \in Ints : v = <<"int", n>>
      <3>1. PICK n \in Int : v = <<"int", n>>
        BY <2>1, ForgingAssumption, Zenon
      <3> QED
        BY <3>1, IntDecodes, Zenon
    <2>2. CASE \E kind \in {"string", "bytes"}, t \in Texts : v = <<kind, t>>
      <3>1. PICK kind \in {"string", "bytes"}, t \in Texts : v = <<kind, t>>
        BY <2>2
      <3>2. t \in Seq(Nat)
        <4>1. t \in Seq(0..255) /\ 0..255 \subseteq Nat
          BY <3>1, ForgingAssumption
        <4> QED
          BY <4>1, SeqMonotonic
      <3> QED
        BY <3>1, <3>2, TextDecodes, Zenon
    <2> QED
      BY <2>1, <2>2, Zenon DEF Leaves
  <1>5. bytes \in Seq(Nat) /\ bytes # <<>>
    BY <1>4, Zenon DEF Decodes
  <1> HIDE DEF bytes
  <1>6. Len(text) < Len(bytes)
    BY <1>3, <1>5
  <1>7. Sound(Forge(v, none))
    BY <1>1, <1>4, <1>5, <1>6, ForgeGood, Zenon DEF bytes, text
  <1> QED
    BY <1>7, Zenon DEF none

\* A sequence of values.
LEMMA SeqGood ==
    ASSUME NEW parts, NEW n, PartsOf(parts, n)
    PROVE  Sound(Forge(<<"seq", StackValues(parts)>>, parts))
  <1> DEFINE v == <<"seq", StackValues(parts)>>
             text == Joined(BytesOf(parts))
             bytes == EncodeValue(v, text)
  <1>1. text \in Seq(Nat) /\ AllOf(StackValues(parts), n) = StackValues(parts)
    BY BytesJoined, Zenon
  <1>2. \A reader : PartsRead(reader, StackValues(parts), BytesOf(parts), n) =>
                        Decodes(reader, v, bytes)
    BY <1>1, SeqDecodes, Zenon
  <1> HIDE DEF text
  <1> DEFINE long == WithLength(text)
  <1>3. bytes = <<2>> \o long
    BY DEF EncodeValue
  <1>4. long \in Seq(Nat) /\ Len(long) = Four + Len(text)
    BY <1>1, WithLengthType
  <1> HIDE DEF long, bytes, v
  <1>5. bytes \in Seq(Nat) /\ Len(bytes) = 1 + Len(long)
    BY <1>3, <1>4, Concat, TagBack, EmptySeq
  <1>6. Len(text) < Len(bytes)
    <2> DEFINE k == Len(text)
    <2>1. k \in Nat /\ Len(bytes) = 1 + (Four + k)
      BY <1>1, <1>4, <1>5, LenProperties
    <2> HIDE DEF k
    <2>2. k < Len(bytes)
      BY <2>1 DEF Four
    <2> QED
      BY <2>2 DEF k
  <1>7. Sound(Forge(v, parts))
    BY <1>2, <1>5, <1>6, ForgeGood, Zenon DEF bytes, text
  <1> QED
    BY <1>7, Zenon DEF v

\* The bytes of annotations, of an empty list too.
LEMMA AnnotsType ==
    ASSUME NEW annots \in Annots
    PROVE  /\ annots.given \in BOOLEAN /\ EncodeAnnots(annots) \in Seq(Nat)
           /\ annots # NoAnnots => annots.given
           /\ \/ annots \in {NoAnnots, Annotated(<<>>)}
              \/ \E list \in Seq(Annotations) : list # <<>> /\ annots = Annotated(list)
  <1>1. CASE annots = NoAnnots
    <2>1. EncodeAnnots(annots) = <<>> /\ annots.given \in BOOLEAN
      BY <1>1 DEF NoAnnots, EncodeAnnots
    <2>2. <<>> \in Seq(Nat)
      OBVIOUS
    <2> QED
      BY <1>1, <2>1, <2>2, Zenon
  <1>2. CASE annots # NoAnnots
    <2>1. PICK list \in AnnotLists : annots = Annotated(list)
      BY <1>2 DEF Annots
    <2>2. list \in Seq(Annotations)
      BY <2>1, ForgingAssumption DEF Annotations
    <2>3. annots.given = TRUE /\ annots.list = list
      BY <2>1 DEF Annotated
    <2> DEFINE text == Spaced(list)
    <2>4. text \in Seq(Nat)
      <3>1. CASE list = <<>>
        <4> DEFINE parts == [i \in 1..Len(list) |->
                                IF i = Len(list) THEN list[i] ELSE Append(list[i], 32)]
        <4>1. Len(parts) = 0 /\ \A i \in 1..Len(parts) : parts[i] \in Seq(Nat)
          BY <3>1
        <4>2. text = Joined(parts)
          BY DEF Spaced
        <4> HIDE DEF parts, text
        <4>3. PICK j : Joins(j, parts) /\ j[1] = Joined(parts)
          BY <4>1, JoinedIs
        <4>4. 1 \in 1..(Len(parts) + 1)
          BY <4>1
        <4> QED
          BY <4>2, <4>3, <4>4, Zenon DEF Joins
      <3>2. CASE list # <<>>
        BY <2>2, <3>2, SpacedSplits
      <3> QED
        BY <3>1, <3>2
    <2> HIDE DEF text
    <2>5. WithLength(text) \in Seq(Nat)
      BY <2>4, WithLengthType
    <2>6. EncodeAnnots(annots) \in Seq(Nat)
      BY <2>3, <2>5, Zenon DEF EncodeAnnots, text
    <2> QED
      BY <2>1, <2>2, <2>3, <2>6
  <1> QED
    BY <1>1, <1>2

\* A primitive with its arguments.
LEMMA PrimGood ==
    ASSUME NEW name \in Prims, NEW n \in Arities[name], NEW annots \in Annots,
           NEW parts, PartsOf(parts, n)
    PROVE  Sound(Forge(<<"prim", name, StackValues(parts), annots>>, parts))
  <1> DEFINE args == StackValues(parts)
             v == <<"prim", name, args, annots>>
             text == Joined(BytesOf(parts))
             bytes == EncodeValue(v, text)
             a == EncodeArgs(name, text, n, annots)
             b == EncodeAnnots(annots)
             p == Preamble(n, annots)
             q == opMapping[name]
  <1>1. text \in Seq(Nat) /\ AllOf(args, n) = args
    BY BytesJoined, Zenon
  <1>2. annots.given \in BOOLEAN /\ b \in Seq(Nat)
    BY AnnotsType, Zenon
  <1>3. n \in Nat /\ Len(args) = n
    <2>1. n \in Nat /\ DOMAIN parts = 1..n
      BY DEF PartsOf
    <2> QED
      BY <2>1 DEF StackValues
  <1>4. p \in Nat /\ q \in Nat
    BY <1>3, CodeIs DEF Preamble
  <1>5. ASSUME ~Forge(v, parts).empty, ~Forge(v, parts).lambda, NEW reader,
               PartsRead(reader, args, BytesOf(parts), n)
        PROVE  Decodes(reader, v, bytes)
    <2>1. annots # Annotated(<<>>) /\ (name \in {"LAMBDA", "view"} => ~annots.given)
      BY <1>5 DEF Forge
    <2>2. \/ annots = NoAnnots
          \/ /\ annots.given
             /\ \E list \in Seq(Annotations) : list # <<>> /\ annots = Annotated(list)
      BY <2>1, AnnotsType, Zenon
    <2>3. PlainAnnots(name, annots)
      BY <2>1, <2>2, Zenon DEF PlainAnnots
    <2> QED
      BY <1>1, <1>5, <2>3, PrimDecodes, Zenon
  <1> HIDE DEF text, args
  <1>6. bytes = TwoTags(p, q, a, b)
    <2>1. PrimIs(name, args, n, annots, text)
      BY <1>3, EncodePrimIs, Zenon
    <2> QED
      BY <2>1, Zenon DEF PrimIs
  <1>7. a \in Seq(Nat)
    BY <1>1, EncodeArgsType
  <1> HIDE DEF b, p, q, v, bytes
  <1>8. Len(a) \in Nat /\ Len(text) <= Len(a)
    <2> DEFINE long == WithLength(text)
               zero == Bytes4(0)
               k == Len(text)
               m == Len(long)
    <2>1. k \in Nat
      BY <1>1, LenProperties
    <2>2. long \in Seq(Nat) /\ m = Four + k
      BY <1>1, WithLengthType
    <2>3. zero \in Seq(Nat) /\ Len(zero) = Four
      BY FourBytes
    <2> HIDE DEF zero, long
    <2>4. Len(long \o zero) = m + Four /\ Len(long \o <<>>) = m
      <3>1. Len(long \o zero) = Len(long) + Len(zero)
        BY <2>2, <2>3, Concat
      <3>2. long \o <<>> = long
        BY <2>2, ConcatEmptySeq
      <3> QED
        BY <2>3, <3>1, <3>2, Zenon
    <2>5. a = long \o zero \/ a = long \o <<>> \/ a = text
      BY Zenon DEF EncodeArgs, long, zero
    <2>6. Len(a) = (Four + k) + Four \/ Len(a) = Four + k \/ Len(a) = k
      BY <2>2, <2>4, <2>5, Zenon
    <2> HIDE DEF a, k
    <2>7. Len(a) \in Nat /\ k <= Len(a)
      BY <2>1, <2>6 DEF Four
    <2> QED
      BY <2>7 DEF k
  <1> HIDE DEF a
  <1>9. TakesApart(bytes, p, q, a, b)
    BY <1>2, <1>4, <1>6, <1>7, TwoTagsBack
  <1>10. bytes \in Seq(Nat) /\ Len(bytes) = 2 + Len(a) + Len(b)
    BY <1>9, Zenon DEF TakesApart
  <1>11. Len(text) < Len(bytes)
    <2>1. Len(text) \in Nat /\ Len(b) \in Nat
      BY <1>1, <1>2, LenProperties
    <2> DEFINE k == Len(text)
               l == Len(a)
               m == Len(b)
    <2>2. k \in Nat /\ m \in Nat /\ l \in Nat /\ k <= l /\ Len(bytes) = 2 + l + m
      BY <1>8, <1>10, <2>1, Zenon
    <2> HIDE DEF k, l, m
    <2>3. k < Len(bytes)
      BY <2>2
    <2> QED
      BY <2>3 DEF k
  <1>12. Sound(Forge(v, parts))
    BY <1>5, <1>10, <1>11, ForgeGood, Zenon DEF bytes, text, args
  <1> QED
    BY <1>12, Zenon DEF v, args

-----------------------------------------------------------------------------
(* MichelineForging: type correctness, and every value is read back *)

\* What the stack has is good.
SoundStack(s) == /\ \E S : s \in Seq(S)
                /\ \A i \in 1..Len(s) : Sound(s[i])

ForgingInv == ForgingTypeOK /\ SoundStack(stack)

\* Another value is put on the stack.
LEMMA AppendGood ==
    ASSUME NEW s, SoundStack(s), NEW e, Sound(e)
    PROVE  SoundStack(Append(s, e)) /\ Len(Append(s, e)) = Len(s) + 1
  <1>1. PICK S : s \in Seq(S)
    BY DEF SoundStack
  <1> DEFINE T == S \cup {e}
             all == Append(s, e)
  <1>2. s \in Seq(T) /\ e \in T
    BY <1>1, SeqMonotonic
  <1>3. /\ all \in Seq(T) /\ Len(all) = Len(s) + 1 /\ Len(s) \in Nat
        /\ \A i \in 1..Len(s) : all[i] = s[i]
        /\ all[Len(s) + 1] = e
    BY <1>2, AppendProperties, LenProperties
  <1> HIDE DEF all, T
  <1>4. ASSUME NEW i \in 1..Len(all)
        PROVE  Sound(all[i])
    <2>1. CASE i \in 1..Len(s)
      BY <1>3, <2>1, Zenon DEF SoundStack
    <2>2. CASE i \notin 1..Len(s)
      <3>1. i = Len(s) + 1
        BY <1>3, <2>2
      <3> QED
        BY <1>3, <3>1, Zenon
    <2> QED
      BY <2>1, <2>2, Zenon
  <1>5. SoundStack(all)
    BY <1>3, <1>4, Zenon DEF SoundStack
  <1> QED
    BY <1>3, <1>5, Zenon DEF all

\* Some values are taken from the stack.
LEMMA TakeGood ==
    ASSUME NEW s, SoundStack(s), NEW n \in Nat, n <= Len(s)
    PROVE  LET below == SubSeq(s, 1, Len(s) - n)
               top == SubSeq(s, Len(s) - n + 1, Len(s))
           IN  SoundStack(below) /\ Len(below) = Len(s) - n /\ PartsOf(top, n)
  <1>1. PICK S : s \in Seq(S)
    BY DEF SoundStack
  <1> DEFINE m == Len(s)
             k == m - n
             below == SubSeq(s, 1, k)
             top == SubSeq(s, k + 1, m)
  <1>2. m \in Nat /\ n <= m /\ \A i \in 1..m : s[i] \in S /\ Sound(s[i])
    BY <1>1, LenProperties, ElementOfSeq DEF SoundStack
  <1> HIDE DEF m
  <1>3. k \in Nat /\ k <= m /\ m - (k + 1) + 1 = n /\ (k + 1 <= m <=> n > 0)
    BY <1>2
  <1> HIDE DEF k
  <1>4. (\A i \in 1..k : s[i] \in S) /\ (\A i \in (k + 1)..m : s[i] \in S)
    BY <1>2, <1>3
  <1>5. /\ below \in Seq(S) /\ Len(below) = k
        /\ \A i \in 1..k : below[i] = s[i]
    BY <1>3, <1>4, SubSeqProperties
  <1>6. /\ top \in Seq(S) /\ Len(top) = n
        /\ \A i \in 1..n : top[i] = s[k + i]
    <2>1. /\ top \in Seq(S) /\ Len(top) = IF k + 1 <= m THEN m - (k + 1) + 1 ELSE 0
          /\ \A i \in 1..(m - (k + 1) + 1) : top[i] = s[(k + 1) + i - 1]
      BY <1>2, <1>3, <1>4, SubSeqProperties
    <2> HIDE DEF top
    <2>2. Len(top) = n
      BY <1>3, <2>1
    <2>3. \A i \in 1..n : (k + 1) + i - 1 = k + i
      BY <1>3
    <2> QED
      BY <1>3, <2>1, <2>2, <2>3
  <1> HIDE DEF below, top
  <1>7. SoundStack(below)
    <2>1. \A i \in 1..k : Sound(below[i])
      BY <1>2, <1>3, <1>5
    <2> QED
      BY <1>5, <2>1, Zenon DEF SoundStack
  <1>8. PartsOf(top, n)
    <2>1. \A i \in 1..n : k + i \in 1..m
      BY <1>2, <1>3 DEF k
    <2>2. \A i \in 1..n : Sound(top[i])
      BY <1>2, <1>6, <2>1, Zenon
    <2>3. DOMAIN top = 1..n
      BY <1>6, LenProperties
    <2> QED
      BY <2>2, <2>3, Zenon DEF PartsOf
  <1> QED
    BY <1>5, <1>7, <1>8, Zenon DEF below, top, k, m

\* A leaf is put on the stack.
LEMMA PushKeeps ==
    ASSUME ForgingInv, NEW v, Sound(Forge(v, <<>>)), Push(v)
    PROVE  ForgingInv'
  <1> DEFINE e == Forge(v, <<>>)
  <1>1. /\ stack' = Append(stack, e) /\ values' = values + 1 /\ number' = number
        /\ values < MaxValues
    BY DEF Push
  <1>2. Sound(e)
    OBVIOUS
  <1> HIDE DEF e
  <1>3. SoundStack(stack) /\ ForgingTypeOK
    BY DEF ForgingInv
  <1>4. SoundStack(Append(stack, e)) /\ Len(Append(stack, e)) = Len(stack) + 1
    BY <1>2, <1>3, AppendGood
  <1>5. SoundStack(stack') /\ Len(stack') = Len(stack) + 1
    BY <1>1, <1>4, Zenon
  <1>6. Len(stack) \in Nat
    BY <1>3, LenProperties DEF SoundStack
  <1>7. ForgingTypeOK'
    BY <1>1, <1>3, <1>5, <1>6, ForgingAssumption DEF ForgingTypeOK
  <1> QED
    BY <1>5, <1>7 DEF ForgingInv

\* Values on the stack become the parts of one.
LEMMA WrapKeeps ==
    ASSUME ForgingInv, NEW n \in Nat, NEW v, Wrap(n, v),
           PartsOf(Top(n), n) => Sound(Forge(v, Top(n)))
    PROVE  ForgingInv'
  <1> DEFINE e == Forge(v, Top(n))
             below == SubSeq(stack, 1, Len(stack) - n)
  <1>1. /\ stack' = Append(below, e) /\ values' = values + 1 /\ number' = number
        /\ values < MaxValues /\ n <= Len(stack)
    BY DEF Wrap
  <1>2. SoundStack(stack) /\ ForgingTypeOK
    BY DEF ForgingInv
  <1>3. SoundStack(below) /\ Len(below) = Len(stack) - n /\ PartsOf(Top(n), n)
    BY <1>1, <1>2, TakeGood, Zenon DEF Top
  <1>4. Sound(e)
    BY <1>3
  <1> HIDE DEF e, below
  <1>5. SoundStack(Append(below, e)) /\ Len(Append(below, e)) = Len(below) + 1
    BY <1>3, <1>4, AppendGood
  <1>6. SoundStack(stack') /\ Len(stack') = Len(stack) - n + 1
    BY <1>1, <1>3, <1>5, Zenon
  <1>7. Len(stack) \in Nat
    BY <1>2, LenProperties DEF SoundStack
  <1>8. ForgingTypeOK'
    BY <1>1, <1>2, <1>6, <1>7, ForgingAssumption DEF ForgingTypeOK
  <1> QED
    BY <1>6, <1>8 DEF ForgingInv

LEMMA ForgingInitial == ForgingInit => ForgingInv
  <1> SUFFICES ASSUME ForgingInit PROVE ForgingInv
    OBVIOUS
  <1>1. stack = <<>> /\ values = 0 /\ number = 0
    BY DEF ForgingInit
  <1>2. Len(stack) = 0 /\ stack \in Seq({})
    BY <1>1
  <1>3. ForgingTypeOK
    BY <1>1, <1>2, ForgingAssumption DEF ForgingTypeOK
  <1>4. SoundStack(stack)
    <2>1. \A i \in 1..Len(stack) : Sound(stack[i])
      BY <1>2
    <2> QED
      BY <1>2, <2>1, Zenon DEF SoundStack
  <1> QED
    BY <1>3, <1>4 DEF ForgingInv

LEMMA ForgingStep == ForgingInv /\ [ForgingNext]_forgingVars => ForgingInv'
  <1> SUFFICES ASSUME ForgingInv, [ForgingNext]_forgingVars
               PROVE  ForgingInv'
    OBVIOUS
  <1>1. ASSUME NEW v \in Leaves, Push(v)
        PROVE  ForgingInv'
    <2>1. Sound(Forge(v, <<>>))
      BY LeavesGood
    <2> QED
      BY <1>1, <2>1, PushKeeps
  <1>2. ASSUME NEW n \in 0..Len(stack), Wrap(n, <<"seq", StackValues(Top(n))>>)
        PROVE  ForgingInv'
    <2> DEFINE v == <<"seq", StackValues(Top(n))>>
    <2>1. n \in Nat
      OBVIOUS
    <2>2. PartsOf(Top(n), n) => Sound(Forge(v, Top(n)))
      BY SeqGood
    <2>3. Wrap(n, v)
      BY <1>2
    <2> HIDE DEF v
    <2> QED
      BY <2>1, <2>2, <2>3, WrapKeeps
  <1>3. ASSUME NEW name \in Prims, NEW annots \in Annots, NEW n \in Arities[name],
               Wrap(n, <<"prim", name, StackValues(Top(n)), annots>>)
        PROVE  ForgingInv'
    <2> DEFINE v == <<"prim", name, StackValues(Top(n)), annots>>
    <2>1. n \in Nat
      BY ArityIs
    <2>2. PartsOf(Top(n), n) => Sound(Forge(v, Top(n)))
      BY PrimGood
    <2>3. Wrap(n, v)
      BY <1>3
    <2> HIDE DEF v
    <2> QED
      BY <2>1, <2>2, <2>3, WrapKeeps
  <1>4. CASE Count
    BY <1>4, ForgingAssumption DEF Count, ForgingInv, ForgingTypeOK
  <1>5. CASE UNCHANGED forgingVars
    BY <1>5 DEF forgingVars, ForgingInv, ForgingTypeOK
  <1> QED
    BY <1>1, <1>2, <1>3, <1>4, <1>5 DEF ForgingNext

\* The parts of a value are on the stack, and no more values than there may be.
THEOREM ForgingTypeCorrect == ForgingSpec => []ForgingTypeOK
  <1>1. ForgingInv => ForgingTypeOK
    BY DEF ForgingInv
  <1> QED
    BY <1>1, ForgingInitial, ForgingStep, PTL DEF ForgingSpec

\* One byte, and what is behind it.
LEMMA HeadTailOfOne ==
    ASSUME NEW rest \in Seq(Nat), NEW n \in Nat
    PROVE  (<<n>> \o rest)[1] = n /\ Tail(<<n>> \o rest) = rest
  <1>1. <<>> \in Seq(Nat) /\ <<n>> \o <<>> = <<n>>
    OBVIOUS
  <1>2. ((<<n>> \o <<>>) \o rest)[1] = n /\ Tail((<<n>> \o <<>>) \o rest) = <<>> \o rest
    BY <1>1, TagBack
  <1>3. <<>> \o rest = rest
    BY ConcatEmptySeq
  <1> QED
    BY <1>1, <1>2, <1>3, Zenon

\* What is in front of the length of the value, and how the parser finds the entrypoint.
LEMMA EntrypointIs ==
    ASSUME NEW e \in Entrypoints
    PROVE  LET front == <<255>> \o EncodeEntrypoint(e)
               known == \E d \in DOMAIN entrypointMapping : entrypointMapping[d] = front[2]
           IN  /\ front \in Seq(Nat) /\ 1 \in 1..Len(front) /\ 2 \in 1..Len(front)
               /\ front[1] = 255
               /\ known => /\ Len(front) + 1 = 3
                           /\ (CHOOSE d \in DOMAIN entrypointMapping :
                                  entrypointMapping[d] = front[2]) = e
               /\ ~known => /\ 3 \in 1..Len(front) /\ Len(front) + 1 = 4 + front[3]
                            /\ e = "a"
  <1> DEFINE front == <<255>> \o EncodeEntrypoint(e)
  <1>1. /\ DOMAIN entrypointMapping = {"default", "do"}
        /\ entrypointMapping["default"] = 0 /\ entrypointMapping["do"] = 2
    BY DEF entrypointMapping
  <1>2. CASE e = "a"
    <2>1. EncodeEntrypoint(e) = <<255, 1, 97>>
      BY <1>1, <1>2, Zenon DEF EncodeEntrypoint
    <2> DEFINE x == <<255>>
               y == <<255, 1, 97>>
    <2>2. /\ x \in Seq(Nat) /\ Len(x) = 1 /\ x[1] = 255
          /\ y \in Seq(Nat) /\ Len(y) = 3 /\ y[1] = 255 /\ y[2] = 1
      OBVIOUS
    <2> HIDE DEF y
    <2>3. front = x \o y
      BY <2>1, Zenon DEF y
    <2> HIDE DEF x, front
    <2>4. front[2] = 255 /\ front[1] = 255 /\ front[3] = 1 /\ Len(front) = 4 /\ front \in Seq(Nat)
      <3>1. x \in Seq(Nat) /\ y \in Seq(Nat)
        BY <2>2, Zenon
      <3>2. /\ x \o y \in Seq(Nat) /\ Len(x \o y) = Len(x) + Len(y)
            /\ \A i \in 1..Len(x) : (x \o y)[i] = x[i]
            /\ \A i \in 1..Len(y) : (x \o y)[Len(x) + i] = y[i]
        BY <3>1, Concat
      <3>3. /\ front \in Seq(Nat) /\ Len(front) = Len(x) + Len(y)
            /\ \A i \in 1..Len(x) : front[i] = x[i]
            /\ \A i \in 1..Len(y) : front[Len(x) + i] = y[i]
        BY <2>3, <3>2, Zenon
      <3>4. front[1 + 1] = y[1] /\ front[1 + 2] = y[2] /\ front[1] = x[1] /\ Len(front) = 1 + 3
        BY <2>2, <3>3
      <3> QED
        BY <2>2, <3>3, <3>4
    <2> QED
      BY <1>1, <1>2, <2>4 DEF front
  <1>3. CASE e \in {"default", "do"}
    <2> DEFINE q == entrypointMapping[e]
    <2>1. EncodeEntrypoint(e) = <<q>>
      BY <1>1, <1>3, Zenon DEF EncodeEntrypoint
    <2>2. q \in Nat
      BY <1>1, <1>3
    <2>3. \A d \in DOMAIN entrypointMapping : entrypointMapping[d] = q => d = e
      BY <1>1, <1>3
    <2>4. e \in DOMAIN entrypointMapping /\ entrypointMapping[e] = q
      BY <1>1, <1>3
    <2> HIDE DEF q
    <2> DEFINE x == <<255>>
               y == <<q>>
    <2>5. /\ x \in Seq(Nat) /\ Len(x) = 1 /\ x[1] = 255
          /\ y \in Seq(Nat) /\ Len(y) = 1 /\ y[1] = q
      BY <2>2
    <2> HIDE DEF y
    <2>6. front = x \o y
      BY <2>1, Zenon DEF y
    <2> HIDE DEF x, front
    <2>7. front[2] = q /\ front[1] = 255 /\ Len(front) = 2 /\ front \in Seq(Nat)
      <3>1. x \in Seq(Nat) /\ y \in Seq(Nat)
        BY <2>5, Zenon
      <3>2. /\ x \o y \in Seq(Nat) /\ Len(x \o y) = Len(x) + Len(y)
            /\ \A i \in 1..Len(x) : (x \o y)[i] = x[i]
            /\ \A i \in 1..Len(y) : (x \o y)[Len(x) + i] = y[i]
        BY <3>1, Concat
      <3>3. /\ front \in Seq(Nat) /\ Len(front) = Len(x) + Len(y)
            /\ \A i \in 1..Len(x) : front[i] = x[i]
            /\ \A i \in 1..Len(y) : front[Len(x) + i] = y[i]
        BY <2>6, <3>2, Zenon
      <3>4. front[1 + 1] = y[1] /\ front[1] = x[1] /\ Len(front) = 1 + 1
        BY <2>5, <3>3
      <3> QED
        BY <2>5, <3>3, <3>4
    <2> DEFINE second == front[2]
    <2>8. second = q
      BY <2>7
    <2> HIDE DEF second
    <2>9. /\ \A d \in DOMAIN entrypointMapping : entrypointMapping[d] = second => d = e
          /\ entrypointMapping[e] = second
      BY <2>3, <2>4, <2>8, Zenon
    <2>10. (CHOOSE d \in DOMAIN entrypointMapping : entrypointMapping[d] = second) = e
      BY <2>4, <2>9
    <2>11. \E d \in DOMAIN entrypointMapping : entrypointMapping[d] = second
      BY <2>4, <2>9, Zenon
    <2>12. Len(front) + 1 = 3 /\ 1 \in 1..Len(front) /\ 2 \in 1..Len(front)
      BY <2>7
    <2> QED
      BY <2>7, <2>10, <2>11, <2>12, Zenon DEF front, second
  <1> QED
    BY <1>2, <1>3 DEF Entrypoints

\* What the parser has when a value was given.
ParametersBack(e, v) ==
    IF e = "default" /\ v[1] = "prim" /\ v[2] = "Unit" THEN NoParameters ELSE <<e, v>>

\* The parameters are read back, when the value is.
LEMMA ParametersReadBack ==
    ASSUME NEW e \in Entrypoints, NEW v, NEW bytes \in Seq(Nat), Len(bytes) <= MaxLength,
           ReadValue(bytes).value = v, NEW rest \in Seq(Nat)
    PROVE  /\ EncodeParameters(e, v, bytes) \in Seq(Nat)
           /\ ReadParameters(EncodeParameters(e, v, bytes) \o rest)
                  = Parsed(ParametersBack(e, v), rest)
  <1>1. CASE e = "default" /\ v[1] = "prim" /\ v[2] = "Unit"
    <2> DEFINE front == <<0>>
               all == front \o rest
    <2>1. EncodeParameters(e, v, bytes) = front
      BY <1>1, Zenon DEF EncodeParameters
    <2>2. front \in Seq(Nat)
      OBVIOUS
    <2>3. all[1] = 0 /\ Tail(all) = rest
      BY HeadTailOfOne
    <2> HIDE DEF all, front
    <2>4. ReadParameters(all) = Parsed(NoParameters, rest)
      BY <2>3, Zenon DEF ReadParameters
    <2>5. ParametersBack(e, v) = NoParameters
      BY <1>1, Zenon DEF ParametersBack
    <2> QED
      BY <2>1, <2>2, <2>4, <2>5, Zenon DEF all
  <1>2. CASE ~(e = "default" /\ v[1] = "prim" /\ v[2] = "Unit")
    <2> DEFINE front == <<255>> \o EncodeEntrypoint(e)
               long == WithLength(bytes)
               back == long \o rest
               all == (front \o long) \o rest
               known == \E d \in DOMAIN entrypointMapping : entrypointMapping[d] = front[2]
    <2>1. EncodeParameters(e, v, bytes) = front \o long
      BY <1>2, Zenon DEF EncodeParameters
    <2>2. /\ front \in Seq(Nat) /\ 1 \in 1..Len(front) /\ 2 \in 1..Len(front)
          /\ front[1] = 255
          /\ known => /\ Len(front) + 1 = 3
                      /\ (CHOOSE d \in DOMAIN entrypointMapping :
                             entrypointMapping[d] = front[2]) = e
          /\ ~known => /\ 3 \in 1..Len(front) /\ Len(front) + 1 = 4 + front[3] /\ e = "a"
      BY EntrypointIs, SMTT(60)
    <2>3. long \in Seq(Nat)
      BY WithLengthType
    <2>4. Extract(back) = Parsed(bytes, rest)
      BY ExtractBack
    <2> HIDE DEF front, long
    <2>5. front \o long \in Seq(Nat) /\ all = front \o back
      <3>1. front \in Seq(Nat)
        BY <2>2, Zenon
      <3>2. front \o long \in Seq(Nat)
        BY <2>3, <3>1, Concat
      <3>3. (front \o long) \o rest = front \o (long \o rest)
        BY <2>3, <3>1, Behind2
      <3> QED
        BY <3>2, <3>3, Zenon
    <2>6. back \in Seq(Nat)
      BY <2>3, Concat
    <2> HIDE DEF all, back
    <2>7. /\ \A i \in 1..Len(front) : all[i] = front[i]
          /\ From(all, Len(front) + 1) = back
      BY <2>2, <2>5, <2>6, Concat, FromBehind
    <2>8. all[1] = front[1] /\ all[2] = front[2] /\ (~known => all[3] = front[3])
      BY <2>2, <2>7, SMTT(60)
    <2>9. all[1] # 0
      BY <2>2, <2>8
    <2>10. From(all, IF known THEN 3 ELSE 4 + all[3]) = back
      BY <2>2, <2>7, <2>8, Zenon
    <2>11. (IF known THEN CHOOSE d \in DOMAIN entrypointMapping : entrypointMapping[d] = front[2]
            ELSE "a") = e
      BY <2>2, Zenon
    <2> DEFINE inner == Extract(back)
    <2>12. inner.ok /\ inner.value = bytes /\ inner.rest = rest
      BY <2>4, ParsedIs
    <2> HIDE DEF inner
    <2>13. ReadParameters(all) = Parsed(<<e, v>>, rest)
      BY <2>8, <2>9, <2>10, <2>11, <2>12, Zenon DEF ReadParameters, inner
    <2>14. ParametersBack(e, v) = <<e, v>>
      BY <1>2, Zenon DEF ParametersBack
    <2> QED
      BY <2>1, <2>5, <2>13, <2>14, Zenon DEF all
  <1> QED
    BY <1>1, <1>2

\* The whole operation is read back, when the value is.
LEMMA OperationReadBack ==
    ASSUME number \in Nat, NEW e \in Entrypoints, NEW v, NEW bytes \in Seq(Nat),
           Len(bytes) <= MaxLength => ReadValue(bytes).value = v
    PROVE  ReadBack(e, v, bytes)
  <1>1. SUFFICES ASSUME Len(bytes) <= MaxLength
                 PROVE  LET amount == ReadZarith(Forged(e, v, bytes))
                            parameters == ReadParameters(amount.rest)
                        IN  /\ amount.value = number
                            /\ parameters.rest = <<200>>
                            /\ parameters.value = ParametersBack(e, v)
    BY Zenon DEF ReadBack, ParametersBack
  <1> DEFINE last == <<200>>
             amounts == Zarith[number]
             text == EncodeParameters(e, v, bytes)
             back == text \o last
             all == (amounts \o text) \o last
  <1>2. last \in Seq(Nat)
    OBVIOUS
  <1>3. amounts \in Seq(Nat)
    BY ZarithMakes DEF OneNumber
  <1> HIDE DEF last
  <1>4. text \in Seq(Nat) /\ ReadParameters(back) = Parsed(ParametersBack(e, v), last)
    BY <1>1, <1>2, ParametersReadBack
  <1>5. \A rest \in Seq(Nat) : ReadZarith(amounts \o rest) = Parsed(number, rest)
    BY AmountsReadBack
  <1>6. Forged(e, v, bytes) = all
    BY DEF Forged, last
  <1> HIDE DEF amounts, text
  <1>7. all = amounts \o back
    BY <1>2, <1>3, <1>4, Behind2, ZenonT(60)
  <1>8. back \in Seq(Nat)
    BY <1>2, <1>4, Concat
  <1> HIDE DEF all, back
  <1> DEFINE amount == ReadZarith(all)
             parameters == ReadParameters(back)
  <1>9. amount = Parsed(number, back)
    BY <1>5, <1>7, <1>8, Zenon
  <1> HIDE DEF amount
  <1>10. amount.value = number /\ amount.rest = back
    BY <1>9, ParsedIs
  <1>11. parameters = Parsed(ParametersBack(e, v), last)
    BY <1>4, Zenon
  <1> HIDE DEF parameters
  <1>12. parameters.value = ParametersBack(e, v) /\ parameters.rest = last
    BY <1>11, ParsedIs
  <1> QED
    BY <1>6, <1>10, <1>12, Zenon DEF amount, parameters, last

\* A number is read back, whatever its sign.
LEMMA NumberReadBack ==
    ASSUME number \in Nat, NEW e \in Entrypoints, NEW n \in Int
    PROVE  ReadBack(e, <<"int", n>>, EncodeValue(<<"int", n>>, <<>>))
  <1> DEFINE v == <<"int", n>>
             bytes == EncodeValue(v, <<>>)
  <1>1. \A reader : Decodes(reader, v, bytes)
    BY IntDecodes
  <1> HIDE DEF v, bytes
  <1>2. bytes \in Seq(Nat) /\ bytes # <<>>
    BY <1>1, Zenon DEF Decodes
  <1>3. ASSUME Len(bytes) <= MaxLength
        PROVE  ReadValue(bytes).value = v
    <2> DEFINE depth == Len(bytes)
    <2>1. depth \in Nat \ {0} /\ <<>> \in Seq(Nat)
      BY <1>2, EmptySeq, LenProperties
    <2> HIDE DEF depth
    <2>2. ReadWith(Reader[depth - 1], bytes \o <<>>) = Parsed(v, <<>>)
      BY <1>1, <1>3, <2>1, Zenon DEF Decodes
    <2>3. bytes \o <<>> = bytes
      BY <1>2, ConcatEmptySeq
    <2>4. Reader[depth][bytes] = ReadWith(Reader[depth - 1], bytes)
      BY <1>2, <2>1, ReaderReads
    <2> DEFINE got == ReadValue(bytes)
    <2>5. got = Parsed(v, <<>>)
      BY <2>2, <2>3, <2>4, Zenon DEF ReadValue, depth
    <2> HIDE DEF got
    <2>6. got.value = v
      BY <2>5, ParsedIs
    <2> QED
      BY <2>6 DEF got
  <1>4. ReadBack(e, v, bytes)
    BY <1>2, <1>3, OperationReadBack
  <1> QED
    BY <1>4, Zenon DEF bytes, v

\* What is on the stack is read back.
LEMMA GoodReadBack ==
    ASSUME number \in Nat, NEW s, Sound(s), ~s.empty, ~s.lambda, NEW e \in Entrypoints
    PROVE  ReadBack(e, s.value, s.bytes)
  <1> DEFINE v == s.value
             bytes == s.bytes
  <1>1. bytes \in Seq(Nat)
    BY DEF Sound
  <1>2. ASSUME Len(bytes) <= MaxLength
        PROVE  ReadValue(bytes).value = v
    <2> DEFINE depth == Len(bytes)
    <2>1. depth \in Nat /\ depth >= Len(bytes) /\ <<>> \in Seq(Nat)
      BY <1>1, LenProperties
    <2>2. Reads(Reader[depth], v, bytes)
      BY <1>2, <2>1, Zenon DEF Sound
    <2>3. Reader[depth][bytes \o <<>>] = Parsed(v, <<>>)
      BY <2>1, <2>2, Zenon DEF Reads
    <2>4. bytes \o <<>> = bytes
      BY <1>1, ConcatEmptySeq
    <2> DEFINE got == ReadValue(bytes)
    <2>5. got = Parsed(v, <<>>)
      BY <2>3, <2>4, Zenon DEF ReadValue
    <2> HIDE DEF got, v
    <2>6. got.value = v
      BY <2>5, ParsedIs
    <2> QED
      BY <2>6 DEF got
  <1> HIDE DEF v, bytes
  <1>3. ReadBack(e, v, bytes)
    BY <1>1, <1>2, OperationReadBack
  <1> QED
    BY <1>3, Zenon DEF v, bytes

\* Every number and every value that is built is read back from its bytes, within any other
\* and with any annotations, and the parser ends where the forger did: the amount and the
\* parameters of a transaction survive local forging, but for the two cases the property
\* names.
THEOREM ForgedValuesReadBack == ForgingSpec => []PlainValuesReadBack
  <1>1. ASSUME ForgingInv
        PROVE  PlainValuesReadBack
    <2>1. number \in Nat
      BY <1>1, ForgingAssumption DEF ForgingInv, ForgingTypeOK
    <2>2. NumbersReadBack
      <3>1. \A n \in {number, -number} : n \in Int
        BY <2>1
      <3> QED
        BY <2>1, <3>1, NumberReadBack, Zenon DEF NumbersReadBack
    <2>3. ASSUME stack # <<>>
          PROVE  Sound(stack[Len(stack)])
      <3>1. PICK S : stack \in Seq(S)
        BY <1>1 DEF ForgingInv, SoundStack
      <3>2. Len(stack) \in 1..Len(stack)
        BY <2>3, <3>1
      <3> QED
        BY <1>1, <3>2, Zenon DEF ForgingInv, SoundStack
    <2> QED
      BY <2>1, <2>2, <2>3, GoodReadBack, Zenon DEF PlainValuesReadBack
  <1> QED
    BY <1>1, ForgingInitial, ForgingStep, PTL DEF ForgingSpec
=============================================================================
