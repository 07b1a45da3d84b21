----------------------- MODULE WalletOperation_proofs -----------------------
(***************************************************************************)
(* Proofs about WalletOperation for every number of calls and every bound  *)
(* on the chain, its reorganisations and the confirmations asked for.      *)
(***************************************************************************)
EXTENDS WalletOperation, TLAPS

Deep(head, found, conf) == head.level - found.level >= conf - 1

\* A call that has resolved did so on a block conf - 1 levels above the inclusion.
Resolved(call, found) ==
    call.state = "done" =>
        /\ found # NoBlock
        /\ Deep(call.block, found, call.conf)

\* _includedInBlock is written once, by the block that ends confirmed$: while
\* confirmed$ is watched nothing was found, so nobody was told anything.
Sound(o) ==
    /\ o \in Operation
    /\ o.source = "new" => ~o.watching /\ o.found = NoBlock /\ o.fill = 0
    /\ o.source = "past" => StartLevel # 0
    /\ o.watching => o.found = NoBlock
    /\ o.found # NoBlock => o.found.op
    /\ \A c \in Callers : Resolved(o.calls[c], o.found)

\* The blocks of the branch carry their level.
Levelled == \A l \in 1..top : chain[l].level = l

SoundInv == NodeTypeOK /\ Levelled /\ past \in Block /\ poller \in Poller /\ Sound(op)
-----------------------------------------------------------------------------
(* The operators of the cascade keep the operation sound *)

LEMMA NoBlockType == NoBlock \in Block /\ ~NoBlock.op
  BY DEF NoBlock, Block

\* What a call becomes when a head is combined with the inclusion.
LEMMA NotifyEffect ==
    ASSUME NEW call \in Call, NEW head \in Block, NEW found \in Block
    PROVE  LET new == Notify(call, head, found)
           IN  /\ new \in Call
               /\ new.conf = call.conf
               /\ call.state # "waiting" => new = call
               /\ call.state = "waiting" => new.state \in {"waiting", "done"}
               /\ new.state = "done" /\ call.state # "done" =>
                     /\ new.block = head
                     /\ Deep(head, found, new.conf)
  <1> DEFINE new == Notify(call, head, found)
  <1>1. CASE call.state # "waiting" \/ head.hash = call.seen
    BY <1>1 DEF Notify
  <1>2. CASE ~(call.state # "waiting" \/ head.hash = call.seen)
    <2> DEFINE depth == head.level - found.level
               first == IF call.events = 0 THEN depth + 1 ELSE call.first
               state == IF depth >= call.conf - 1 THEN "done" ELSE "waiting"
    <2>1. new = [call EXCEPT !.seen = head.hash, !.events = call.events + 1,
                             !.first = first, !.current = depth + 1,
                             !.block = head, !.state = state]
      BY <1>2 DEF Notify
    <2>2. /\ head.hash \in Nat /\ call.events + 1 \in Nat /\ depth + 1 \in Int
          /\ first \in Int
          /\ state \in {"waiting", "done"}
          /\ state = "done" => depth >= call.conf - 1
      BY DEF Call, Block
    <2> HIDE DEF first, state
    <2>3. /\ new \in Call /\ new.conf = call.conf /\ new.state = state
          /\ new.block = head
      BY <2>1, <2>2 DEF Call
    <2> QED
      BY <1>2, <2>2, <2>3 DEF Deep
  <1> QED
    BY <1>1, <1>2

\* Telling everybody about a head changes nothing but the calls that wait.
LEMMA NotifyAllSound ==
    ASSUME NEW o, Sound(o), o.found # NoBlock, NEW head \in Block,
           NEW n, n = NotifyAll(o, head)
    PROVE  /\ Sound(n)
           /\ n.source = o.source /\ n.replay = o.replay /\ n.lastHead = o.lastHead
           /\ n.fill = o.fill /\ n.target = o.target /\ n.watching = o.watching
           /\ n.found = o.found /\ n.from = o.from
  <1>1. o \in Operation /\ o.found \in Block /\ o.calls \in [Callers -> Call]
    BY DEF Sound, Operation
  <1>2. ASSUME NEW c \in Callers
        PROVE  /\ Notify(o.calls[c], head, o.found) \in Call
               /\ Resolved(Notify(o.calls[c], head, o.found), o.found)
    <2>1. PICK call \in Call, found \in Block,
               new \in {Notify(o.calls[c], head, o.found)} :
             /\ call = o.calls[c] /\ found = o.found
             /\ Resolved(call, found) /\ found # NoBlock
      BY <1>1 DEF Sound
    <2>2. /\ new \in Call
          /\ new.conf = call.conf
          /\ call.state # "waiting" => new = call
          /\ new.state = "done" /\ call.state # "done" =>
                /\ new.block = head
                /\ Deep(head, found, new.conf)
      BY <2>1, NotifyEffect
    <2> QED
      BY <2>1, <2>2 DEF Resolved
  <1> DEFINE calls == [c \in Callers |-> Notify(o.calls[c], head, o.found)]
  <1>3. /\ n = [o EXCEPT !.calls = calls]
        /\ calls \in [Callers -> Call]
        /\ \A c \in Callers : Resolved(calls[c], o.found)
    BY <1>2 DEF NotifyAll
  <1> HIDE DEF calls
  <1> QED
    BY <1>1, <1>3 DEF Sound, Operation

LEMMA IncludeSound ==
    ASSUME NEW o, Sound(o), NEW b \in Block, NEW n, n = Include(o, b)
    PROVE  /\ Sound(n)
           /\ n.source = o.source /\ n.replay = o.replay /\ n.lastHead = o.lastHead
           /\ n.fill = o.fill /\ n.target = o.target /\ n.from = o.from
           /\ (n.watching <=> o.watching /\ ~b.op)
           /\ n.found = IF o.watching /\ b.op THEN b ELSE o.found
  <1> DEFINE included == [o EXCEPT !.found = b, !.watching = FALSE]
  <1>0. o \in Operation /\ o.lastHead \in Block /\ b.op \in BOOLEAN /\ o.watching \in BOOLEAN
    BY DEF Sound, Operation, Block
  <1>1. CASE ~(o.watching /\ b.op)
    <2>1. n = o
      BY <1>1 DEF Include
    <2> QED
      BY <1>0, <1>1, <2>1
  <1>2. CASE o.watching /\ b.op
    <2>1. /\ included \in Operation /\ included.found = b /\ ~included.watching
          /\ included.source = o.source /\ included.replay = o.replay
          /\ included.lastHead = o.lastHead /\ included.fill = o.fill
          /\ included.target = o.target /\ included.from = o.from
          /\ included.calls = o.calls
      BY <1>0 DEF Operation
    <2>2. b # NoBlock
      BY <1>2, NoBlockType
    <2>3. \A c \in Callers : Resolved(o.calls[c], b)
      BY <1>2 DEF Sound, Resolved
    <2>4. Sound(included)
      BY <1>2, <2>1, <2>2, <2>3 DEF Sound
    <2>5. n = included \/ n = NotifyAll(included, o.lastHead)
      BY <1>2 DEF Include
    <2>6. /\ Sound(n)
          /\ n.source = included.source /\ n.replay = included.replay
          /\ n.lastHead = included.lastHead
          /\ n.fill = included.fill /\ n.target = included.target
          /\ n.watching = included.watching
          /\ n.found = included.found /\ n.from = included.from
      <3> HIDE DEF included
      <3>1. CASE n = included
        BY <2>4, <3>1
      <3>2. CASE n = NotifyAll(included, o.lastHead)
        BY <1>0, <2>1, <2>2, <2>4, <3>2, NotifyAllSound
      <3> QED
        BY <2>5, <3>1, <3>2
    <2> QED
      BY <1>2, <2>1, <2>6
  <1> QED
    BY <1>1, <1>2

LEMMA EmitSound ==
    ASSUME NEW o, Sound(o), NEW b \in Block
    PROVE  LET n == Emit(o, b)
           IN  /\ Sound(n)
               /\ n.source = o.source /\ n.replay = o.replay /\ n.lastHead = b
               /\ n.fill = o.fill /\ n.target = o.target
               /\ n.from = IF o.lastHead = NoBlock THEN b.level ELSE o.from
               /\ (n.watching <=> o.watching /\ ~b.op)
               /\ n.found = IF o.watching /\ b.op THEN b ELSE o.found
  <1> DEFINE n == Emit(o, b)
  <1> DEFINE scanned == [Include(o, b) EXCEPT
                           !.lastHead = b,
                           !.from = IF o.lastHead = NoBlock THEN b.level ELSE @]
  <1>1. PICK i : /\ i = Include(o, b) /\ Sound(i)
                 /\ i.source = o.source /\ i.replay = o.replay /\ i.lastHead = o.lastHead
                 /\ i.fill = o.fill /\ i.target = o.target /\ i.from = o.from
                 /\ (i.watching <=> o.watching /\ ~b.op)
                 /\ i.found = IF o.watching /\ b.op THEN b ELSE o.found
    BY IncludeSound
  <1>2. i \in Operation /\ b.level \in Nat /\ i.from \in Nat
    BY <1>1 DEF Sound, Operation, Block
  <1>3. PICK from \in Nat :
           /\ scanned = [i EXCEPT !.lastHead = b, !.from = from]
           /\ from = IF o.lastHead = NoBlock THEN b.level ELSE o.from
    BY <1>1, <1>2
  <1>4. /\ scanned \in Operation
        /\ scanned.source = i.source /\ scanned.replay = i.replay
        /\ scanned.lastHead = b /\ scanned.fill = i.fill
        /\ scanned.target = i.target /\ scanned.from = from
        /\ scanned.watching = i.watching /\ scanned.found = i.found
        /\ scanned.calls = i.calls
    BY <1>2, <1>3 DEF Operation
  <1>5. Sound(scanned)
    BY <1>1, <1>4 DEF Sound
  <1>6. n = IF scanned.found = NoBlock THEN scanned ELSE NotifyAll(scanned, b)
    BY DEF Emit
  <1> HIDE DEF scanned
  <1> HIDE DEF n
  <1>7. /\ Sound(n) /\ n.source = scanned.source /\ n.replay = scanned.replay
        /\ n.lastHead = scanned.lastHead /\ n.fill = scanned.fill
        /\ n.target = scanned.target /\ n.watching = scanned.watching
        /\ n.found = scanned.found /\ n.from = scanned.from
    BY <1>5, <1>6, NotifyAllSound
  <1> QED
    BY <1>1, <1>3, <1>4, <1>7 DEF n

LEMMA ReceiveSound ==
    ASSUME NEW o, Sound(o), o.source # "new", NEW head \in Block
    PROVE  Sound(Receive(o, head)) /\ Receive(o, head).source = o.source
  <1>1. o \in Operation /\ o.lastHead \in Block /\ head.level \in Nat
    BY DEF Sound, Operation, Block
  <1> DEFINE prevHead == IF o.lastHead = NoBlock THEN head.level - 1 ELSE o.lastHead.level
             reset == [o EXCEPT !.fill = 0, !.target = NoBlock]
             filling == [o EXCEPT !.fill = prevHead + 1, !.target = head]
  <1>2. prevHead + 1 \in Nat
    BY <1>1 DEF Block
  <1>3. Receive(o, head) = IF prevHead + 1 >= head.level THEN Emit(reset, head) ELSE filling
    BY DEF Receive
  <1> HIDE DEF prevHead
  <1>4. Sound(reset) /\ reset.source = o.source
    BY <1>1, NoBlockType DEF Sound, Operation
  <1>5. Sound(filling) /\ filling.source = o.source
    BY <1>1, <1>2 DEF Sound, Operation
  <1> HIDE DEF reset, filling
  <1> QED
    BY <1>3, <1>4, <1>5, EmitSound

\* An error resolves nothing: those who wait fail, the others keep their outcome.
LEMMA BrokenSound ==
    ASSUME NEW o, Sound(o)
    PROVE  Sound(Broken(o)) /\ Broken(o).source = "failed"
  <1> DEFINE calls == [c \in Callers |->
                         IF o.calls[c].state = "waiting"
                         THEN [o.calls[c] EXCEPT !.state = "failed"] ELSE o.calls[c]]
             n == [o EXCEPT !.source = "failed", !.fill = 0, !.target = NoBlock,
                            !.watching = FALSE, !.calls = calls]
  <1>1. o \in Operation /\ o.calls \in [Callers -> Call]
    BY DEF Sound, Operation
  <1>2. ASSUME NEW c \in Callers
        PROVE  calls[c] \in Call /\ Resolved(calls[c], o.found)
    BY <1>1 DEF Sound, Resolved, Call
  <1>3. calls \in [Callers -> Call] /\ \A c \in Callers : Resolved(calls[c], o.found)
    BY <1>2
  <1> HIDE DEF calls
  <1>4. Sound(n) /\ n.source = "failed"
    BY <1>1, <1>3, NoBlockType DEF Sound, Operation
  <1>5. n = Broken(o)
    BY DEF Broken, calls
  <1> QED
    BY <1>4, <1>5

LEMMA SourceSound ==
    ASSUME NEW o, Sound(o), NEW source \in {"idle", "past", "heads"},
           source = "past" => StartLevel # 0
    PROVE  LET n == [o EXCEPT !.source = source] IN Sound(n) /\ n.source = source
  BY DEF Sound, Operation

LEMMA ConnectHeadsSound ==
    ASSUME NEW o, Sound(o)
    PROVE  /\ Sound(ConnectHeads(o))
           /\ ConnectHeads(o).source = "heads"
  <1> DEFINE live == [o EXCEPT !.source = "heads"]
             replayed == IF o.replay = NoBlock THEN live ELSE Receive(live, o.replay)
  <1>1. Sound(live) /\ live.source = "heads" /\ o.replay \in Block
    BY SourceSound DEF Sound, Operation
  <1>2. Sound(replayed) /\ replayed.source = "heads"
    <2> HIDE DEF live
    <2> QED
      BY <1>1, ReceiveSound
  <1> QED
    BY <1>2 DEF ConnectHeads

LEMMA ConnectSound ==
    ASSUME NEW o, Sound(o), o.source # "new"
    PROVE  Sound(Connect(o)) /\ Connect(o).source # "new"
  BY SourceSound, ConnectHeadsSound DEF Connect

LEMMA SettleSound ==
    ASSUME NEW o, Sound(o), o.source # "new"
    PROVE  Sound(Settle(o)) /\ Settle(o).source # "new"
  BY NoBlockType DEF Settle, Sound, Operation

LEMMA CallSound ==
    ASSUME NEW o, Sound(o), NEW c \in Callers, NEW call \in Call, Resolved(call, o.found)
    PROVE  LET n == [o EXCEPT !.calls = [o.calls EXCEPT ![c] = call]]
           IN  /\ Sound(n) /\ n.source = o.source /\ n.found = o.found
               /\ n.lastHead = o.lastHead /\ n.calls[c] = call
  <1> DEFINE calls == [o.calls EXCEPT ![c] = call]
  <1>1. o \in Operation /\ o.calls \in [Callers -> Call]
    BY DEF Sound, Operation
  <1>2. /\ calls \in [Callers -> Call] /\ calls[c] = call
        /\ \A d \in Callers : Resolved(calls[d], o.found)
    BY <1>1 DEF Sound
  <1> HIDE DEF calls
  <1> QED
    BY <1>1, <1>2 DEF Sound, Operation

LEMMA SharedType ==
    ASSUME NEW p \in Poller, NEW following \in BOOLEAN
    PROVE  Shared(p, following) \in Poller
  BY NoBlockType DEF Shared, Poller
-----------------------------------------------------------------------------
(* Every action keeps the invariant *)

LEMMA InitSound == Init => SoundInv
  <1> SUFFICES ASSUME Init
               PROVE  SoundInv
    OBVIOUS
  <1>1. NodeTypeOK /\ Levelled
    BY ChainAssumption DEF Init, NodeInit, NodeTypeOK, Levelled, NoBlock, Block
  <1>2. poller \in Poller
    BY NoBlockType DEF Init, PollerInit, Poller
  <1>3. op \in Operation
    BY NoBlockType DEF Init, NotCreated, Operation, Call
  <1>4. /\ op.source = "new" /\ ~op.watching /\ op.found = NoBlock /\ op.fill = 0
        /\ \A c \in Callers : op.calls[c].state = "idle"
    BY DEF Init, NotCreated
  <1>5. past \in Block
    BY NoBlockType DEF Init
  <1> QED
    BY <1>1, <1>2, <1>3, <1>4, <1>5 DEF SoundInv, Sound, Resolved

\* The node keeps its type and the levels of its blocks.
LEMMA NodeStepEffect ==
    ASSUME NodeTypeOK, Levelled, NodeNext
    PROVE  NodeTypeOK' /\ Levelled' /\ reorgs' \in {reorgs, reorgs + 1}
  <1>1. PICK l \in 1..MaxLevel, o \in BOOLEAN :
           NewHead(l, o) /\ l <= top + 1 /\ reorgs' \in {reorgs, reorgs + 1}
    BY ChainAssumption DEF NodeNext, Bake, Reorg, NewHead, NodeTypeOK
  <1>2. forged + 1 \in Nat /\ l \in Nat
    BY ChainAssumption DEF NodeTypeOK
  <1>3. [hash |-> forged + 1, level |-> l, op |-> o] \in Block
    BY <1>2 DEF Block
  <1> QED
    BY <1>1, <1>2, <1>3, NoBlockType, ChainAssumption DEF NewHead, NodeTypeOK, Levelled

\* The operation becomes o, which is sound, and the poller follows.
LEMMA BecomeSound ==
    ASSUME NEW o, Sound(o), NEW p \in Poller, Become(o, p)
    PROVE  Sound(op)' /\ (poller \in Poller)'
  <1>1. (o.source = "heads") \in BOOLEAN
    OBVIOUS
  <1>2. Shared(p, o.source = "heads") \in Poller
    BY <1>1, SharedType
  <1> QED
    BY <1>2 DEF Become

\* A call is added as waiting and, when both streams hold a value, told at once.
LEMMA ConfirmationEffect ==
    ASSUME Sound(op), NEW c \in Callers, NEW n \in 1..MaxConf, Confirmation(c, n)
    PROVE  \E replayed :
             /\ Sound(replayed) /\ replayed.source = op.source
             /\ \E calls : replayed = [op EXCEPT !.calls = calls]
             /\ Become(IF op.source = "failed" THEN Broken(replayed)
                       ELSE Settle(Connect(replayed)), poller)
             /\ UNCHANGED nodeVars /\ op.source # "new"
  <1> DEFINE asked == Asking(c, n)
             replayed == IF op.found = NoBlock \/ op.lastHead = NoBlock THEN asked
                         ELSE [asked EXCEPT
                                 !.calls[c] = Notify(@, op.lastHead, op.found)]
  <1>0. /\ op \in Operation /\ op.calls \in [Callers -> Call] /\ op.calls[c] \in Call
        /\ op.found \in Block /\ op.lastHead \in Block /\ n \in Nat
    BY DEF Sound, Operation
  <1> DEFINE call == [op.calls[c] EXCEPT !.state = "waiting", !.conf = n]
             answered == Notify(call, op.lastHead, op.found)
  <1>1. call \in Call /\ Resolved(call, op.found)
    BY <1>0 DEF Call, Resolved
  <1>2. asked = [op EXCEPT !.calls = [op.calls EXCEPT ![c] = call]]
    BY <1>0 DEF Asking, Operation
  <1> HIDE DEF call
  <1>3. /\ Sound(asked) /\ asked.source = op.source /\ asked.found = op.found
        /\ asked.calls[c] = call
    BY <1>1, <1>2, CallSound
  <1>4. answered \in Call /\ (op.found # NoBlock => Resolved(answered, op.found))
    BY <1>0, <1>1, NotifyEffect DEF Resolved
  <1>5. replayed = asked \/ replayed = [asked EXCEPT !.calls = [asked.calls EXCEPT ![c] = answered]]
    BY <1>3 DEF Sound, Operation
  <1>6. \E calls : replayed = [op EXCEPT !.calls = calls]
    BY <1>0, <1>2, <1>5, ZenonT(60) DEF Operation
  <1> HIDE DEF answered
  <1>7. CASE replayed = asked
    <2>1. Sound(replayed) /\ replayed.source = op.source
      BY <1>3, <1>7
    <2> QED
      BY <1>6, <2>1 DEF Confirmation
  <1>8. CASE /\ op.found # NoBlock
             /\ replayed = [asked EXCEPT !.calls = [asked.calls EXCEPT ![c] = answered]]
    <2> HIDE DEF asked
    <2>1. Sound(replayed) /\ replayed.source = op.source
      BY <1>3, <1>4, <1>8, CallSound
    <2> QED
      BY <1>6, <2>1 DEF Confirmation, asked
  <1> QED
    BY <1>5, <1>7, <1>8

\* The block that the operation starts from is fetched from the branch, once.
LEMMA StepPast ==
    ASSUME SoundInv, [Next]_vars
    PROVE  past' \in Block /\ (past' = past \/ \E l \in 1..top : past' = chain[l])
  <1>1. CASE PastServed
    <2>1. StartLevel = 0 => op.source # "past"
      BY DEF SoundInv, Sound
    <2>2. StartLevel \in 1..top \/ past' = past
      BY <1>1, <2>1, OperationAssumption, ChainAssumption
      DEF PastServed, SoundInv, NodeTypeOK
    <2>3. \A l \in 1..top : chain[l] \in Block
      BY ChainAssumption DEF SoundInv, NodeTypeOK
    <2> QED
      BY <1>1, <2>2, <2>3 DEF PastServed, SoundInv
  <1>2. CASE ~PastServed
    <2>1. past' = past
      BY <1>2 DEF Next, PollerNext, OperationNext, NodeStep, CreateOperation,
                  OtherOperation, PollTick, PollServed, PollDelivered, PollFails,
                  TimeoutExpires, PastFails, GapServed, GapFails, Confirmation,
                  ConfirmationInvalid, vars
    <2> QED
      BY <2>1 DEF SoundInv
  <1> QED
    BY <1>1, <1>2

LEMMA StepSound == SoundInv /\ [Next]_vars => SoundInv'
  <1> SUFFICES ASSUME SoundInv, [Next]_vars
               PROVE  SoundInv'
    OBVIOUS
  <1>0. /\ Sound(op) /\ op \in Operation /\ poller \in Poller
        /\ poller.block \in Block /\ NodeTypeOK /\ Levelled
        /\ \A l \in 1..top : chain[l] \in Block
    BY ChainAssumption DEF SoundInv, Sound, Poller, NodeTypeOK
  <1>14. past' \in Block
    BY StepPast
  <1>1. ASSUME UNCHANGED nodeVars, Sound(op)', (poller \in Poller)'
        PROVE  SoundInv'
    BY <1>0, <1>14, <1>1 DEF SoundInv, nodeVars, NodeTypeOK, Levelled
  <1>2. CASE NodeStep
    BY <1>0, <1>14, <1>2, NodeStepEffect DEF NodeStep, SoundInv
  <1>3. CASE CreateOperation
    <2> DEFINE created == [op EXCEPT !.source = "idle", !.watching = TRUE]
    <2>1. Sound(created) /\ created.source # "new"
      BY <1>0, <1>3 DEF CreateOperation, Sound, Operation
    <2>2. Become(Connect(created), poller) /\ UNCHANGED nodeVars
      BY <1>3 DEF CreateOperation
    <2> HIDE DEF created
    <2> QED
      BY <1>0, <1>1, <2>1, <2>2, ConnectSound, BecomeSound
  <1>4. CASE OtherOperation
    <2> DEFINE p == [poller EXCEPT !.others = ~@]
    <2>1. p \in Poller /\ (op.source = "heads") \in BOOLEAN
      BY <1>0 DEF Poller
    <2>2. poller' = Shared(p, op.source = "heads") /\ UNCHANGED <<nodeVars, op>>
      BY <1>4 DEF OtherOperation, OtherSubscriber
    <2> HIDE DEF p
    <2> QED
      BY <1>0, <1>1, <2>1, <2>2, SharedType
  <1>5. CASE PollTick \/ PollServed
    <2>1. (poller \in Poller)'
      BY <1>0, <1>5, NoBlockType DEF PollTick, PollServed, Tick, Serve, Poller, NodeTypeOK
    <2> QED
      BY <1>0, <1>1, <1>5, <2>1 DEF PollTick, PollServed, Tick, Serve
  <1>6. CASE PollDelivered
    <2> DEFINE head == poller.block
               rest == [poller EXCEPT !.state = "between", !.block = NoBlock,
                                      !.seen = head.hash]
               followed == [op EXCEPT !.replay = head]
    <2>1. rest \in Poller
      BY <1>0, NoBlockType DEF Poller, Block
    <2>2. Sound(followed) /\ followed.source = op.source
      BY <1>0 DEF Sound, Operation
    <2>3. /\ \/ op.source = "heads" /\ Become(Settle(Receive(followed, head)), rest)
             \/ Become(op, rest)
          /\ UNCHANGED nodeVars
      BY <1>6 DEF PollDelivered, Delivered
    <2> HIDE DEF rest, followed
    <2> QED
      BY <1>0, <1>1, <2>1, <2>2, <2>3, ReceiveSound, SettleSound, BecomeSound
  <1>7. CASE PollFails
    <2> DEFINE p == [poller EXCEPT !.dead = TRUE, !.others = FALSE]
    <2>1. p \in Poller
      BY <1>0 DEF Poller
    <2>2. /\ Become(IF op.source = "heads" THEN Broken(op) ELSE op, p)
          /\ UNCHANGED nodeVars
      BY <1>7 DEF PollFails, Killed
    <2> HIDE DEF p
    <2> QED
      BY <1>0, <1>1, <2>1, <2>2, BrokenSound, BecomeSound
  <1>8. CASE TimeoutExpires \/ PastFails \/ GapFails
    <2>1. Become(Broken(op), poller) /\ UNCHANGED nodeVars
      BY <1>8 DEF TimeoutExpires, PastFails, GapFails
    <2> QED
      BY <1>0, <1>1, <2>1, BrokenSound, BecomeSound
  <1>9. CASE PastServed
    <2>1. PICK started :
             /\ started = Receive(op, past')
             /\ Become(Settle(IF Listening(started) THEN ConnectHeads(started)
                             ELSE started), poller)
             /\ UNCHANGED nodeVars /\ op.source = "past"
      BY <1>9 DEF PastServed
    <2>2. Sound(started) /\ started.source # "new"
      BY <1>0, <1>14, <2>1, ReceiveSound
    <2>3. PICK n : /\ n = IF Listening(started) THEN ConnectHeads(started) ELSE started
                   /\ Become(Settle(n), poller)
      BY <2>1
    <2>4. Sound(n) /\ n.source # "new"
      BY <2>2, <2>3, ConnectHeadsSound
    <2> QED
      BY <1>0, <1>1, <2>1, <2>3, <2>4, SettleSound, BecomeSound
  <1>10. CASE GapServed
    <2>1. PICK fetched : /\ fetched = Emit(op, chain[op.fill])
                         /\ op.fill \in 1..top /\ UNCHANGED nodeVars
                         /\ fetched.source = op.source
                         /\ Sound(fetched)
      BY <1>0, <1>10, EmitSound DEF GapServed
    <2> DEFINE next == [fetched EXCEPT !.fill = @ + 1]
               ended == [fetched EXCEPT !.fill = 0, !.target = NoBlock]
    <2>2. op.source # "new"
      BY <1>0, <1>10 DEF Sound, GapServed
    <2>3. Sound(next) /\ next.source = op.source /\ Sound(ended) /\ ended.source = op.source
      <3>1. fetched \in Operation /\ fetched.fill \in Nat /\ fetched.source # "new"
        BY <2>1, <2>2 DEF Sound, Operation
      <3>2. Sound(next) /\ next.source = op.source
        BY <2>1, <3>1 DEF Sound, Operation
      <3>3. Sound(ended) /\ ended.source = op.source
        BY <2>1, <3>1, NoBlockType DEF Sound, Operation
      <3> QED
        BY <3>2, <3>3
    <2>4. op.target \in Block
      BY <1>0 DEF Operation
    <2>5. \/ Become(Settle(fetched), poller)
          \/ Become(next, poller)
          \/ Become(Settle(Emit(ended, op.target)), poller)
      BY <1>10, <2>1 DEF GapServed
    <2> HIDE DEF next, ended
    <2>6. Sound(Emit(ended, op.target)) /\ Emit(ended, op.target).source = op.source
      BY <2>3, <2>4, EmitSound
    <2> QED
      BY <1>0, <1>1, <2>1, <2>2, <2>3, <2>5, <2>6, SettleSound, BecomeSound
  <1>11. ASSUME NEW c \in Callers, NEW n \in 1..MaxConf, Confirmation(c, n)
         PROVE  SoundInv'
    <2>1. PICK replayed :
             /\ Sound(replayed) /\ replayed.source = op.source
             /\ Become(IF op.source = "failed" THEN Broken(replayed)
                       ELSE Settle(Connect(replayed)), poller)
             /\ UNCHANGED nodeVars /\ op.source # "new"
      BY <1>0, <1>11, ConfirmationEffect
    <2> QED
      BY <1>0, <1>1, <2>1, BrokenSound, ConnectSound, SettleSound, BecomeSound
  <1>12. ASSUME NEW c \in Callers, ConfirmationInvalid(c)
         PROVE  SoundInv'
    <2> DEFINE call == [op.calls[c] EXCEPT !.state = "failed"]
    <2>0. call \in Call /\ Resolved(call, op.found)
      BY <1>0 DEF Operation, Call, Resolved
    <2>1. op' = [op EXCEPT !.calls = [op.calls EXCEPT ![c] = call]]
      BY <1>0, <1>12 DEF ConfirmationInvalid, Operation
    <2> HIDE DEF call
    <2>2. Sound(op')
      BY <1>0, <2>0, <2>1, CallSound
    <2> QED
      BY <1>0, <1>1, <1>12, <2>2 DEF ConfirmationInvalid
  <1>13. CASE UNCHANGED vars
    BY <1>0, <1>1, <1>13 DEF vars, nodeVars
  <1> QED
    BY <1>2, <1>3, <1>4, <1>5, <1>6, <1>7, <1>8, <1>9, <1>10, <1>11, <1>12, <1>13
    DEF Next, PollerNext, OperationNext

\* The types of the operation, of the poller and of the node are invariant.
THEOREM TypeCorrect == Spec => []TypeOK
  <1>1. SoundInv => TypeOK
    BY DEF SoundInv, Sound, TypeOK
  <1> QED
    BY InitSound, StepSound, <1>1, PTL DEF Spec

\* confirmation(n) never resolves before the operation is n blocks deep: not
\* through a replay, a reconnection, a gap or a reorganisation that leaves the two
\* blocks it was decided on.
THEOREM ResolvedIsDeep == Spec => []DoneMeansDepth
  <1>1. SoundInv => DoneMeansDepth
    <2> SUFFICES ASSUME SoundInv, NEW c \in Callers, op.calls[c].state = "done",
                        OnBranch(op.found), OnBranch(op.calls[c].block)
                 PROVE  top - op.found.level + 1 >= op.calls[c].conf
      BY DEF DoneMeansDepth
    <2>1. /\ op.calls[c] \in Call /\ op.found \in Block
          /\ Resolved(op.calls[c], op.found)
      BY DEF SoundInv, Sound, Operation
    <2>2. Deep(op.calls[c].block, op.found, op.calls[c].conf)
      BY <2>1 DEF Resolved
    <2>3. op.calls[c].block.level <= top /\ op.calls[c].block.level \in Int
      BY DEF OnBranch
    <2>4. top \in Int /\ op.found.level \in Int /\ op.calls[c].conf \in Int
      BY <2>1 DEF SoundInv, NodeTypeOK, Block, Call
    <2> QED
      BY <2>2, <2>3, <2>4 DEF Deep
  <1> QED
    BY InitSound, StepSound, <1>1, PTL DEF Spec
-----------------------------------------------------------------------------
(* refCount: the streams are connected exactly while somebody listens *)

\* An operation between two actions is connected for those who listen.
Wired(o) ==
    /\ Listening(o) <=> o.source \in {"past", "heads"}
    /\ o.fill # 0 => o.source = "heads"
    /\ o.source = "new" => o.replay = NoBlock

\* Within an action the last subscriber may have left before Settle notices.
Connected(o) ==
    /\ o.source # "new"
    /\ Listening(o) => o.source \in {"past", "heads"}
    /\ o.fill # 0 => o.source = "heads" \/ (~Listening(o) /\ o.source # "failed")

PollerWired ==
    poller.state # "off" <=> ~poller.dead /\ (poller.others \/ op.source = "heads")

WiredInv == Wired(op) /\ PollerWired

LEMMA InitWired == Init => WiredInv
  BY DEF Init, PollerInit, NotCreated, WiredInv, Wired, PollerWired, Listening

LEMMA SettleWired ==
    ASSUME NEW o, Sound(o), Connected(o)
    PROVE  Wired(Settle(o))
  <1> DEFINE n == [o EXCEPT !.source = "idle", !.fill = 0, !.target = NoBlock]
  <1>1. o \in Operation
    BY DEF Sound
  <1>2. /\ n.source = "idle" /\ n.fill = 0
        /\ n.watching = o.watching /\ n.calls = o.calls
    BY <1>1 DEF Operation
  <1>3. Settle(o) = IF o.source = "failed" \/ Listening(o) THEN o ELSE n
    BY DEF Settle
  <1>4. Listening(n) <=> Listening(o)
    BY <1>2 DEF Listening
  <1> HIDE DEF n
  <1> QED
    BY <1>2, <1>3, <1>4 DEF Connected, Wired

\* Nobody listens to a broken stream.
LEMMA BrokenWired ==
    ASSUME NEW o, Sound(o)
    PROVE  Wired(Broken(o)) /\ Connected(Broken(o))
  <1> DEFINE calls == [c \in Callers |->
                         IF o.calls[c].state = "waiting"
                         THEN [o.calls[c] EXCEPT !.state = "failed"] ELSE o.calls[c]]
  <1>1. Broken(o) = [o EXCEPT !.source = "failed", !.fill = 0, !.target = NoBlock,
                              !.watching = FALSE, !.calls = calls]
    BY DEF Broken
  <1>2. \A c \in Callers : calls[c].state # "waiting"
    BY DEF Sound, Operation, Call
  <1> HIDE DEF calls
  <1>3. PICK n : /\ n = Broken(o) /\ n.source = "failed" /\ n.fill = 0
                 /\ ~n.watching /\ n.calls = calls
    BY <1>1 DEF Sound, Operation
  <1> QED
    BY <1>2, <1>3 DEF Wired, Connected, Listening

LEMMA ConnectHeadsWired ==
    ASSUME NEW o, Sound(o)
    PROVE  /\ Connected(ConnectHeads(o))
           /\ o.replay = NoBlock /\ Listening(o) => Wired(ConnectHeads(o))
  <1> DEFINE live == [o EXCEPT !.source = "heads"]
             replayed == IF o.replay = NoBlock THEN live ELSE Receive(live, o.replay)
  <1>1. /\ Sound(live) /\ live.source = "heads" /\ o.replay \in Block
        /\ Listening(live) <=> Listening(o)
    BY SourceSound DEF Sound, Operation, Listening
  <1> HIDE DEF live
  <1>2. Sound(replayed) /\ replayed.source = "heads"
    BY <1>1, ReceiveSound
  <1>3. ConnectHeads(o) = replayed
    BY DEF ConnectHeads, live
  <1>4. o.replay = NoBlock /\ Listening(o) => Wired(replayed)
    BY <1>1 DEF Wired
  <1> HIDE DEF replayed
  <1> QED
    BY <1>2, <1>3, <1>4 DEF Connected

LEMMA ConnectWired ==
    ASSUME NEW o, Sound(o), o.source \in {"idle", "past", "heads"},
           o.fill # 0 => o.source = "heads"
    PROVE  /\ Connected(Connect(o))
           /\ o.source = "idle" /\ o.replay = NoBlock /\ Listening(o) => Wired(Connect(o))
  <1>1. CASE o.source # "idle"
    BY <1>1 DEF Connect, Connected
  <1>2. CASE o.source = "idle" /\ StartLevel # 0
    <2> DEFINE n == [o EXCEPT !.source = "past"]
    <2>1. /\ n.source = "past" /\ n.fill = o.fill /\ n.replay = o.replay
          /\ n.watching = o.watching /\ n.calls = o.calls
      BY DEF Sound, Operation
    <2>2. Connect(o) = n
      BY <1>2 DEF Connect
    <2> HIDE DEF n
    <2> QED
      BY <1>2, <2>1, <2>2 DEF Connected, Wired, Listening
  <1>3. CASE o.source = "idle" /\ StartLevel = 0
    BY <1>3, ConnectHeadsWired DEF Connect
  <1> QED
    BY <1>1, <1>2, <1>3

\* The poller is connected for the others and for an operation that follows it.
LEMMA BecomeWired ==
    ASSUME NEW o, Wired(o), NEW p \in Poller, Become(o, p)
    PROVE  WiredInv'
  BY DEF Become, Shared, Poller, WiredInv, Wired, PollerWired, Listening

LEMMA StepWired == SoundInv /\ WiredInv /\ [Next]_vars => WiredInv'
  <1> SUFFICES ASSUME SoundInv, WiredInv, [Next]_vars
               PROVE  WiredInv'
    OBVIOUS
  <1>0. /\ Sound(op) /\ op \in Operation /\ poller \in Poller /\ Wired(op)
        /\ poller.block \in Block
        /\ \A l \in 1..top : chain[l] \in Block
    BY ChainAssumption DEF SoundInv, Sound, Poller, NodeTypeOK, WiredInv
  <1>1. ASSUME op' = op, PollerWired'
        PROVE  WiredInv'
    BY <1>0, <1>1 DEF WiredInv, Wired, Listening
  <1>2. CASE NodeStep \/ UNCHANGED vars
    BY <1>1, <1>2 DEF NodeStep, vars, WiredInv, PollerWired
  <1>3. CASE CreateOperation
    <2> DEFINE created == [op EXCEPT !.source = "idle", !.watching = TRUE]
    <2>1. Become(Connect(created), poller) /\ op.source = "new"
      BY <1>3 DEF CreateOperation
    <2>2. /\ Sound(created) /\ created.source = "idle" /\ created.watching
          /\ created.replay = NoBlock /\ created.fill = 0
      BY <1>0, <2>1 DEF Sound, Wired, Operation
    <2> HIDE DEF created
    <2>3. Wired(Connect(created))
      BY <2>2, ConnectWired DEF Listening
    <2> QED
      BY <1>0, <2>1, <2>3, BecomeWired
  <1>4. CASE OtherOperation
    BY <1>0, <1>1, <1>4 DEF OtherOperation, OtherSubscriber, Shared, Poller, PollerWired
  <1>5. CASE PollTick \/ PollServed
    BY <1>0, <1>1, <1>5 DEF PollTick, PollServed, Tick, Serve, Poller, PollerWired, WiredInv
  <1>6. CASE PollDelivered
    <2> DEFINE head == poller.block
               rest == [poller EXCEPT !.state = "between", !.block = NoBlock,
                                      !.seen = head.hash]
               followed == [op EXCEPT !.replay = head]
    <2>1. rest \in Poller
      BY <1>0, NoBlockType DEF Poller, Block
    <2>2. Sound(followed) /\ followed.source = op.source
      BY <1>0 DEF Sound, Operation
    <2>3. \/ op.source = "heads" /\ Become(Settle(Receive(followed, head)), rest)
          \/ Become(op, rest)
      BY <1>6 DEF PollDelivered, Delivered
    <2> HIDE DEF rest, followed
    <2>4. op.source = "heads" =>
             LET n == Receive(followed, head) IN Sound(n) /\ n.source = "heads"
      BY <1>0, <2>2, ReceiveSound
    <2> QED
      BY <1>0, <2>1, <2>3, <2>4, SettleWired, BecomeWired DEF Connected
  <1>7. CASE PollFails
    <2> DEFINE p == [poller EXCEPT !.dead = TRUE, !.others = FALSE]
    <2>1. p \in Poller
      BY <1>0 DEF Poller
    <2>2. Become(IF op.source = "heads" THEN Broken(op) ELSE op, p)
      BY <1>7 DEF PollFails, Killed
    <2> HIDE DEF p
    <2> QED
      BY <1>0, <2>1, <2>2, BrokenWired, BecomeWired
  <1>8. CASE TimeoutExpires \/ PastFails \/ GapFails
    <2>1. Become(Broken(op), poller)
      BY <1>8 DEF TimeoutExpires, PastFails, GapFails
    <2> QED
      BY <1>0, <2>1, BrokenWired, BecomeWired
  <1>9. CASE PastServed
    <2>1. PICK started :
             /\ started = Receive(op, past')
             /\ Become(Settle(IF Listening(started) THEN ConnectHeads(started)
                             ELSE started), poller)
             /\ op.source = "past"
      BY <1>9 DEF PastServed
    <2>3. Sound(started) /\ started.source = "past"
      BY <1>0, <2>1, StepPast, ReceiveSound
    <2>4. PICK n : /\ n = IF Listening(started) THEN ConnectHeads(started) ELSE started
                   /\ Become(Settle(n), poller)
      BY <2>1
    <2>5. Sound(n) /\ Connected(n)
      BY <2>3, <2>4, ConnectHeadsSound, ConnectHeadsWired DEF Connected
    <2> QED
      BY <1>0, <2>4, <2>5, SettleWired, BecomeWired
  <1>10. CASE GapServed
    <2>1. PICK fetched : /\ fetched = Emit(op, chain[op.fill])
                         /\ op.fill \in 1..top
                         /\ fetched.source = op.source
                         /\ Sound(fetched)
      BY <1>0, <1>10, EmitSound DEF GapServed
    <2> DEFINE next == [fetched EXCEPT !.fill = @ + 1]
               ended == [fetched EXCEPT !.fill = 0, !.target = NoBlock]
    <2>2. op.source = "heads" /\ op.target \in Block
      BY <1>0, <2>1 DEF Wired, Operation
    <2>3. /\ next.source = "heads" /\ (Listening(next) <=> Listening(fetched))
          /\ Sound(ended) /\ ended.source = "heads"
      BY <2>1, <2>2, NoBlockType DEF Sound, Operation, Listening
    <2>4. \/ Become(Settle(fetched), poller)
          \/ Listening(fetched) /\ Become(next, poller)
          \/ Become(Settle(Emit(ended, op.target)), poller)
      BY <1>10, <2>1 DEF GapServed
    <2> HIDE DEF next, ended
    <2>5. Sound(Emit(ended, op.target)) /\ Emit(ended, op.target).source = "heads"
      BY <2>2, <2>3, EmitSound
    <2>6. Wired(Settle(fetched)) /\ Wired(Settle(Emit(ended, op.target)))
      BY <2>1, <2>2, <2>5, SettleWired DEF Connected
    <2>7. Listening(fetched) => Wired(next)
      BY <2>3 DEF Wired
    <2> QED
      BY <1>0, <2>4, <2>6, <2>7, BecomeWired
  <1>11. ASSUME NEW c \in Callers, NEW n \in 1..MaxConf, Confirmation(c, n)
         PROVE  WiredInv'
    <2>1. PICK replayed :
             /\ Sound(replayed) /\ replayed.source = op.source
             /\ \E calls : replayed = [op EXCEPT !.calls = calls]
             /\ Become(IF op.source = "failed" THEN Broken(replayed)
                       ELSE Settle(Connect(replayed)), poller)
             /\ UNCHANGED nodeVars /\ op.source # "new"
      BY <1>0, <1>11, ConfirmationEffect
    <2>2. CASE op.source = "failed"
      BY <1>0, <2>1, <2>2, BrokenWired, BecomeWired
    <2>3. CASE op.source # "failed"
      <3>1. replayed.source \in {"idle", "past", "heads"} /\ replayed.fill = op.fill
        BY <1>0, <2>1, <2>3 DEF Operation
      <3>2. Sound(Connect(replayed)) /\ Connected(Connect(replayed))
        BY <1>0, <2>1, <3>1, ConnectSound, ConnectWired DEF Wired
      <3> QED
        BY <1>0, <2>1, <2>3, <3>2, SettleWired, BecomeWired
    <2> QED
      BY <2>2, <2>3
  <1>12. ASSUME NEW c \in Callers, ConfirmationInvalid(c)
         PROVE  WiredInv'
    <2>1. /\ op' = [op EXCEPT !.calls[c].state = "failed"] /\ poller' = poller
          /\ op.calls[c].state = "idle"
      BY <1>12 DEF ConfirmationInvalid
    <2>2. /\ op'.source = op.source /\ op'.fill = op.fill /\ op'.replay = op.replay
          /\ op'.watching = op.watching
          /\ \A d \in Callers : op'.calls[d].state = "waiting"
                                   <=> op.calls[d].state = "waiting"
      BY <1>0, <2>1 DEF Operation, Call
    <2> QED
      BY <1>0, <2>1, <2>2 DEF WiredInv, Wired, PollerWired, Listening
  <1> QED
    BY <1>2, <1>3, <1>4, <1>5, <1>6, <1>7, <1>8, <1>9, <1>10, <1>11, <1>12
    DEF Next, PollerNext, OperationNext

\* Whoever waits is connected to a source, and when nobody waits neither gaps nor
\* polls go on for the operation: no subscription leaks, and none is lost.
THEOREM WaitersAreConnected == Spec => []WaitingIsConnected
  <1>1. WiredInv => WaitingIsConnected
    BY DEF WiredInv, Wired, PollerWired, WaitingIsConnected
  <1> QED
    BY InitSound, StepSound, InitWired, StepWired, <1>1, PTL DEF Spec

-----------------------------------------------------------------------------
(***************************************************************************)
(* On a chain that is not reorganised: what the head stream hands over is  *)
(* on the branch of the node, and confirmed$ looks into every level that   *)
(* the stream has passed.                                                  *)
(***************************************************************************)

Branch(b) == b = NoBlock \/ OnBranch(b)

\* None of the levels the stream has passed includes the operation.
Scanned(o) ==
    \A l \in 1..MaxLevel : o.from <= l /\ l <= o.lastHead.level => ~chain[l].op

\* Everything the streams hold is on the branch, and whoever has not found the
\* operation has looked everywhere and still looks.
Straight(o) ==
    /\ Branch(o.replay) /\ Branch(o.lastHead) /\ Branch(o.target) /\ Branch(o.found)
    /\ o.found = NoBlock /\ o.source \in {"idle", "past", "heads"} => o.watching
    /\ o.found = NoBlock => Scanned(o)

\* The gap being filled starts right above the last head emitted.
Filling(o) ==
    o.fill # 0 => /\ o.fill = o.lastHead.level + 1
                  /\ o.source \in {"past", "heads"}
                  /\ OnBranch(o.lastHead) /\ OnBranch(o.target)

\* The answer on its way back to the poller is a block of the branch.
Fresh(p) == p.state = "answered" => OnBranch(p.block)

\* So is the block that the operation starts from.
PastInv == reorgs = 0 => Branch(past)

ScanInv ==
    reorgs = 0 => Fresh(poller) /\ Straight(op) /\ Filling(op)
-----------------------------------------------------------------------------
(* The operators of the cascade keep the operation straight *)

\* b is no further from the last head than its successor.
Near(o, b) == o.lastHead = NoBlock \/ b.level <= o.lastHead.level + 1

LEMMA EmitStraight ==
    ASSUME NEW o, Sound(o), Straight(o), o.source \in {"past", "heads"},
           NEW b \in Block, OnBranch(b), Near(o, b)
    PROVE  Straight(Emit(o, b))
  <1>1. PICK n : /\ n = Emit(o, b) /\ Sound(n)
                 /\ n.source = o.source /\ n.replay = o.replay /\ n.lastHead = b
                 /\ n.target = o.target
                 /\ n.from = IF o.lastHead = NoBlock THEN b.level ELSE o.from
                 /\ (n.watching <=> o.watching /\ ~b.op)
                 /\ n.found = IF o.watching /\ b.op THEN b ELSE o.found
    BY EmitSound
  <1>2. Branch(n.replay) /\ Branch(n.lastHead) /\ Branch(n.target) /\ Branch(n.found)
    BY <1>1 DEF Straight, Branch
  <1>3. ASSUME n.found = NoBlock
        PROVE  n.watching /\ Scanned(n)
    <2>1. o.found = NoBlock /\ o.watching /\ ~b.op
      BY <1>1, <1>3, NoBlockType DEF Straight
    <2>2. Scanned(o) /\ chain[b.level] = b
      BY <2>1 DEF Straight, OnBranch
    <2>3. o \in Operation /\ o.lastHead.level \in Nat /\ o.from \in Nat /\ b.level \in Nat
      BY DEF Sound, Operation, Block
    <2>4. ASSUME NEW l \in 1..MaxLevel, n.from <= l, l <= n.lastHead.level
          PROVE  ~chain[l].op
      <3>1. CASE l = b.level
        BY <2>1, <2>2, <3>1
      <3>2. CASE l # b.level
        <4>1. l < b.level /\ o.lastHead # NoBlock /\ n.from = o.from
          BY <1>1, <2>3, <2>4, <3>2
        <4>2. l <= o.lastHead.level
          BY <2>3, <4>1 DEF Near
        <4> QED
          BY <2>2, <2>4, <4>1, <4>2 DEF Scanned
      <3> QED
        BY <3>1, <3>2
    <2> QED
      BY <1>1, <2>1, <2>4 DEF Scanned
  <1> QED
    BY <1>1, <1>2, <1>3 DEF Straight

\* What Receive makes of a sound operation, without its EXCEPTs.
LEMMA ReceiveStraight ==
    ASSUME NEW o, Sound(o), Straight(o), o.source \in {"past", "heads"},
           NEW head \in Block, OnBranch(head)
    PROVE  Straight(Receive(o, head)) /\ Filling(Receive(o, head))
  <1>1. o \in Operation /\ o.lastHead \in Block /\ head.level \in Nat
        /\ o.lastHead.level \in Nat
    BY DEF Sound, Operation, Block
  <1> DEFINE prevHead == IF o.lastHead = NoBlock THEN head.level - 1 ELSE o.lastHead.level
             reset == [o EXCEPT !.fill = 0, !.target = NoBlock]
             filling == [o EXCEPT !.fill = prevHead + 1, !.target = head]
  <1>2. Receive(o, head) = IF prevHead + 1 >= head.level THEN Emit(reset, head) ELSE filling
    BY DEF Receive
  <1>3. CASE prevHead + 1 >= head.level
    <2>1. Near(o, head)
      BY <1>1, <1>3 DEF Near
    <2>2. /\ Sound(reset) /\ reset.source = o.source /\ reset.fill = 0
          /\ reset.replay = o.replay /\ reset.lastHead = o.lastHead
          /\ reset.target = NoBlock /\ reset.found = o.found
          /\ reset.watching = o.watching /\ reset.from = o.from
      BY <1>1, NoBlockType DEF Sound, Operation
    <2>3. Straight(reset) /\ Near(reset, head)
      BY <2>1, <2>2 DEF Straight, Scanned, Near, Branch
    <2> HIDE DEF reset
    <2>4. Emit(reset, head).fill = 0
      BY <2>2, EmitSound
    <2> QED
      BY <1>2, <1>3, <2>2, <2>3, <2>4, EmitStraight DEF Filling
  <1>4. CASE ~(prevHead + 1 >= head.level)
    <2>1. o.lastHead # NoBlock /\ prevHead = o.lastHead.level
      BY <1>1, <1>4
    <2>2. /\ filling.fill = o.lastHead.level + 1 /\ filling.target = head
          /\ filling.source = o.source /\ filling.replay = o.replay
          /\ filling.lastHead = o.lastHead /\ filling.found = o.found
          /\ filling.watching = o.watching /\ filling.from = o.from
      BY <1>1, <2>1 DEF Operation
    <2> HIDE DEF filling
    <2>3. OnBranch(o.lastHead)
      BY <2>1 DEF Straight, Branch
    <2> QED
      BY <1>2, <1>4, <2>2, <2>3 DEF Straight, Scanned, Filling, Branch
  <1> QED
    BY <1>3, <1>4

LEMMA BrokenStraight ==
    ASSUME NEW o, Sound(o), Straight(o)
    PROVE  Straight(Broken(o)) /\ Filling(Broken(o))
  <1>1. o \in Operation
    BY DEF Sound
  <1>2. PICK n : /\ n = Broken(o)
                 /\ n.source = "failed" /\ n.fill = 0 /\ n.target = NoBlock
                 /\ n.replay = o.replay /\ n.lastHead = o.lastHead
                 /\ n.found = o.found /\ n.from = o.from
    <2> DEFINE calls == [c \in Callers |->
                           IF o.calls[c].state = "waiting"
                           THEN [o.calls[c] EXCEPT !.state = "failed"] ELSE o.calls[c]]
    <2>1. Broken(o) = [o EXCEPT !.source = "failed", !.fill = 0, !.target = NoBlock,
                                !.watching = FALSE, !.calls = calls]
      BY DEF Broken
    <2> HIDE DEF calls
    <2> QED
      BY <1>1, <2>1 DEF Operation
  <1> QED
    BY <1>2 DEF Straight, Scanned, Filling, Branch

LEMMA SourceStraight ==
    ASSUME NEW o, Sound(o), Straight(o), o.source \in {"idle", "past", "heads"},
           NEW source \in {"idle", "past", "heads"}
    PROVE  Straight([o EXCEPT !.source = source])
  BY DEF Sound, Operation, Straight, Scanned, Branch

LEMMA ConnectHeadsStraight ==
    ASSUME NEW o, Sound(o), Straight(o), o.source \in {"idle", "past"},
           Filling(o)
    PROVE  Straight(ConnectHeads(o)) /\ Filling(ConnectHeads(o))
  <1> DEFINE live == [o EXCEPT !.source = "heads"]
             replayed == IF o.replay = NoBlock THEN live ELSE Receive(live, o.replay)
  <1>1. /\ Sound(live) /\ live.source = "heads" /\ o.replay \in Block
        /\ live.fill = o.fill /\ live.lastHead = o.lastHead /\ live.target = o.target
    BY SourceSound DEF Sound, Operation
  <1>2. Straight(live) /\ Filling(live)
    BY <1>1, SourceStraight DEF Filling
  <1>3. o.replay # NoBlock => OnBranch(o.replay)
    BY DEF Straight, Branch
  <1> HIDE DEF live
  <1>4. Sound(replayed) /\ Straight(replayed) /\ Filling(replayed)
    BY <1>1, <1>2, <1>3, ReceiveSound, ReceiveStraight
  <1>5. ConnectHeads(o) = replayed
    BY DEF ConnectHeads, live
  <1> HIDE DEF replayed
  <1> QED
    BY <1>4, <1>5, BrokenStraight

LEMMA ConnectStraight ==
    ASSUME NEW o, Sound(o), Straight(o), Filling(o), o.source # "new"
    PROVE  Straight(Connect(o)) /\ Filling(Connect(o))
  <1>1. CASE o.source # "idle"
    BY <1>1 DEF Connect
  <1>2. CASE o.source = "idle"
    <2>1. o.fill = 0
      BY <1>2 DEF Filling
    <2>2. Straight([o EXCEPT !.source = "past"]) /\ Filling([o EXCEPT !.source = "past"])
      BY <1>2, <2>1, SourceStraight DEF Filling, Sound, Operation
    <2> QED
      BY <1>2, <2>2, ConnectHeadsStraight DEF Connect
  <1> QED
    BY <1>1, <1>2

LEMMA SettleStraight ==
    ASSUME NEW o, Sound(o), Straight(o), Filling(o), o.source # "new"
    PROVE  Straight(Settle(o)) /\ Filling(Settle(o))
  <1> DEFINE n == [o EXCEPT !.source = "idle", !.fill = 0, !.target = NoBlock]
  <1>1. o \in Operation
    BY DEF Sound
  <1>2. /\ n.source = "idle" /\ n.fill = 0 /\ n.target = NoBlock
        /\ n.replay = o.replay /\ n.lastHead = o.lastHead /\ n.found = o.found
        /\ n.watching = o.watching /\ n.from = o.from
    BY <1>1 DEF Operation
  <1>3. Settle(o) = IF o.source = "failed" \/ Listening(o) THEN o ELSE n
    BY DEF Settle
  <1> HIDE DEF n
  <1>4. CASE Settle(o) = o
    BY <1>4
  <1>5. CASE Settle(o) = n /\ o.source # "failed"
    <2>1. o.source \in {"idle", "past", "heads"}
      BY <1>1, <1>5 DEF Operation
    <2> QED
      BY <1>2, <1>5, <2>1 DEF Straight, Scanned, Filling, Branch
  <1> QED
    BY <1>3, <1>4, <1>5
-----------------------------------------------------------------------------
(* Every action keeps the invariant *)

LEMMA InitPast == Init => PastInv
  BY DEF Init, PastInv, Branch

LEMMA InitScan == Init => ScanInv
  BY DEF Init, PollerInit, NotCreated, ScanInv, Fresh, Straight, Scanned, Filling, Branch, NoBlock

\* A block baked on top leaves the branch below it alone.
LEMMA BakeBranch ==
    ASSUME SoundInv, NodeStep, reorgs' = 0
    PROVE  /\ reorgs = 0
           /\ \A l \in 1..top : l \in 1..top' /\ chain'[l] = chain[l]
  <1>1. Bake
    BY ChainAssumption DEF NodeStep, NodeNext, Reorg, SoundInv, NodeTypeOK
  <1> QED
    BY <1>1, ChainAssumption DEF Bake, NewHead, SoundInv, NodeTypeOK

LEMMA BecomeScan ==
    ASSUME SoundInv, NEW o, NEW p, Become(o, p), UNCHANGED nodeVars,
           reorgs = 0 => Fresh(p) /\ Straight(o) /\ Filling(o),
           p \in Poller
    PROVE  ScanInv'
  <1>1. /\ op' = o
        /\ poller'.state = "answered" => p.state = "answered" /\ poller'.block = p.block
    BY DEF Become, Shared, Poller
  <1> QED
    BY <1>1 DEF ScanInv, Fresh, Straight, Scanned, Filling, Branch, OnBranch, nodeVars

LEMMA StepPastBranch == SoundInv /\ PastInv /\ [Next]_vars => PastInv'
  <1> SUFFICES ASSUME SoundInv, PastInv, [Next]_vars, reorgs' = 0
               PROVE  Branch(past)'
    BY DEF PastInv
  <1>1. CASE NodeStep
    BY <1>1, BakeBranch DEF NodeStep, PastInv, Branch, OnBranch
  <1>2. CASE ~NodeStep
    <2>1. UNCHANGED nodeVars
      BY <1>2 DEF Next, PollerNext, OperationNext, CreateOperation, nodeVars,
                  OtherOperation, PollTick, PollServed, PollDelivered, PollFails,
                  TimeoutExpires, PastServed, PastFails, GapServed, GapFails,
                  Confirmation, ConfirmationInvalid, vars
    <2>2. \A l \in 1..top : OnBranch(chain[l])
      BY ChainAssumption DEF SoundInv, NodeTypeOK, Levelled, OnBranch
    <2>3. past' = past \/ OnBranch(past')
      BY <2>2, StepPast
    <2>4. past' = NoBlock \/ OnBranch(past')
      BY <2>1, <2>3 DEF PastInv, Branch, nodeVars
    <2> QED
      BY <2>1, <2>4 DEF Branch, OnBranch, nodeVars
  <1> QED
    BY <1>1, <1>2

LEMMA StepScan == SoundInv /\ PastInv /\ ScanInv /\ [Next]_vars => ScanInv'
  <1> SUFFICES ASSUME SoundInv, PastInv, ScanInv, [Next]_vars, reorgs' = 0
               PROVE  ScanInv'
    BY DEF ScanInv
  <1>0. /\ Sound(op) /\ op \in Operation /\ poller \in Poller
        /\ poller.block \in Block /\ NodeTypeOK /\ Levelled
    BY DEF SoundInv, Sound, Poller
  <1>1. \A l \in 1..top : chain[l] \in Block /\ OnBranch(chain[l])
    BY <1>0, ChainAssumption DEF NodeTypeOK, Levelled, OnBranch
  <1>2. CASE NodeStep
    <2>1. /\ reorgs = 0
          /\ \A l \in 1..top : l \in 1..top' /\ chain'[l] = chain[l]
      BY <1>2, BakeBranch
    <2>2. op' = op /\ poller' = poller
      BY <1>2 DEF NodeStep
    <2>3. \A b : Branch(b) => Branch(b)'
      BY <2>1 DEF Branch, OnBranch
    <2>4. Fresh(poller) /\ Straight(op) /\ Filling(op)
      BY <2>1 DEF ScanInv
    <2>5. Scanned(op) => Scanned(op)'
      <3> SUFFICES ASSUME Scanned(op), NEW l \in 1..MaxLevel,
                          op.from <= l, l <= op.lastHead.level
                   PROVE  ~chain'[l].op
        BY <2>2 DEF Scanned
      <3>1. l \in 1..top
        <4>1. op.lastHead.level = 0 \/ op.lastHead.level \in 1..top
          BY <2>4 DEF Straight, Branch, OnBranch, NoBlock
        <4> QED
          BY <1>0, <4>1 DEF NodeTypeOK
      <3> QED
        BY <2>1, <3>1 DEF Scanned
    <2>6. (Fresh(poller) /\ Straight(op))'
      BY <2>1, <2>2, <2>3, <2>4, <2>5 DEF Straight, Fresh, OnBranch
    <2>7. Filling(op)'
      BY <2>1, <2>2, <2>4 DEF Filling, OnBranch
    <2> QED
      BY <2>6, <2>7 DEF ScanInv
  <1>3. ASSUME UNCHANGED nodeVars
        PROVE  /\ reorgs = 0 /\ Fresh(poller) /\ Straight(op) /\ Filling(op)
    BY <1>3 DEF nodeVars, ScanInv
  <1>4. CASE CreateOperation
    <2> DEFINE created == [op EXCEPT !.source = "idle", !.watching = TRUE]
    <2>1. Become(Connect(created), poller) /\ UNCHANGED nodeVars /\ op.source = "new"
      BY <1>4 DEF CreateOperation
    <2>2. /\ created \in Operation /\ created.source = "idle" /\ created.watching
          /\ created.replay = op.replay /\ created.lastHead = op.lastHead
          /\ created.target = op.target /\ created.found = op.found
          /\ created.from = op.from /\ created.fill = op.fill /\ created.calls = op.calls
      BY <1>0 DEF Operation
    <2>3. Sound(created) /\ Straight(created) /\ Filling(created)
      BY <1>0, <1>3, <2>1, <2>2 DEF Sound, Straight, Scanned, Filling, Branch
    <2> HIDE DEF created
    <2> QED
      BY <1>0, <1>3, <2>1, <2>2, <2>3, ConnectStraight, BecomeScan
  <1>5. CASE OtherOperation \/ PollTick \/ PollServed
    <2>1. op' = op /\ UNCHANGED nodeVars
      BY <1>5 DEF OtherOperation, PollTick, PollServed, OtherSubscriber
    <2>4. poller'.state = "answered" =>
             \/ poller'.block = chain[top]
             \/ poller.state = "answered" /\ poller'.block = poller.block
      <3>1. CASE OtherOperation
        BY <1>0, <3>1 DEF OtherOperation, OtherSubscriber, Shared, Poller
      <3>2. CASE PollTick \/ PollServed
        BY <1>0, <3>2 DEF PollTick, PollServed, Tick, Serve, Poller
      <3> QED
        BY <1>5, <3>1, <3>2
    <2>2. OnBranch(chain[top])
      BY <1>1, <1>0, ChainAssumption DEF NodeTypeOK
    <2>3. Fresh(poller)'
      BY <1>3, <2>1, <2>2, <2>4 DEF Fresh, OnBranch, nodeVars
    <2> QED
      BY <1>3, <2>1, <2>3 DEF ScanInv, Straight, Scanned, Filling, Branch, OnBranch, nodeVars
  <1>6. CASE PollDelivered
    <2> DEFINE head == poller.block
               rest == [poller EXCEPT !.state = "between", !.block = NoBlock,
                                      !.seen = head.hash]
               followed == [op EXCEPT !.replay = head]
    <2>1. rest \in Poller /\ rest.state = "between"
      BY <1>0, NoBlockType DEF Poller, Block
    <2>2. /\ followed \in Operation /\ followed.source = op.source
          /\ followed.watching = op.watching /\ followed.replay = head
          /\ followed.lastHead = op.lastHead /\ followed.target = op.target
          /\ followed.found = op.found /\ followed.from = op.from
          /\ followed.fill = op.fill /\ followed.calls = op.calls
      BY <1>0 DEF Operation
    <2>3. /\ \/ op.source = "heads" /\ Become(Settle(Receive(followed, head)), rest)
             \/ Become(op, rest)
          /\ UNCHANGED nodeVars /\ poller.state = "answered"
      BY <1>6 DEF PollDelivered, Delivered
    <2>4. Sound(followed) /\ Straight(followed)
      BY <1>0, <1>3, <2>2, <2>3 DEF Sound, Straight, Scanned, Fresh, Branch
    <2>5. OnBranch(head)
      BY <1>3, <2>3 DEF Fresh
    <2> HIDE DEF rest, followed
    <2>6. ASSUME op.source = "heads"
          PROVE  LET n == Settle(Receive(followed, head)) IN Straight(n) /\ Filling(n)
      BY <1>0, <2>2, <2>4, <2>5, <2>6, ReceiveSound, ReceiveStraight, SettleStraight
    <2> QED
      BY <1>3, <2>1, <2>3, <2>6, BecomeScan DEF Fresh
  <1>7. CASE PollFails
    <2> DEFINE p == [poller EXCEPT !.dead = TRUE, !.others = FALSE]
    <2>1. p \in Poller /\ p.block = poller.block /\ p.state = poller.state
      BY <1>0 DEF Poller
    <2>2. /\ Become(IF op.source = "heads" THEN Broken(op) ELSE op, p)
          /\ UNCHANGED nodeVars
      BY <1>7 DEF PollFails, Killed
    <2> HIDE DEF p
    <2> QED
      BY <1>0, <1>3, <2>1, <2>2, BrokenStraight, BecomeScan DEF Fresh
  <1>8. CASE TimeoutExpires \/ PastFails \/ GapFails
    <2>1. Become(Broken(op), poller) /\ UNCHANGED nodeVars
      BY <1>8 DEF TimeoutExpires, PastFails, GapFails
    <2> QED
      BY <1>0, <1>3, <2>1, BrokenStraight, BecomeScan
  <1>9. CASE PastServed
    <2>1. PICK started :
             /\ started = Receive(op, past')
             /\ Become(Settle(IF Listening(started) THEN ConnectHeads(started)
                             ELSE started), poller)
             /\ UNCHANGED nodeVars /\ op.source = "past"
      BY <1>9 DEF PastServed
    <2>2. past' \in Block /\ OnBranch(past')
      <3>1. past' # NoBlock \/ (past' = chain[StartLevel] /\ StartLevel \in 1..top)
        BY <1>0, <1>9, <2>1, OperationAssumption, ChainAssumption
        DEF PastServed, Sound, NodeTypeOK
      <3> QED
        BY <1>1, <1>3, <2>1, <3>1, StepPast DEF PastInv, Branch
    <2>3. /\ Sound(started) /\ started.source = "past"
          /\ Straight(started) /\ Filling(started)
      BY <1>0, <1>3, <2>1, <2>2, ReceiveSound, ReceiveStraight
    <2>4. PICK n : /\ n = IF Listening(started) THEN ConnectHeads(started) ELSE started
                   /\ Become(Settle(n), poller)
      BY <2>1
    <2>5. Sound(n) /\ n.source # "new" /\ Straight(n) /\ Filling(n)
      BY <2>3, <2>4, ConnectHeadsSound, ConnectHeadsStraight
    <2> QED
      BY <1>0, <1>3, <2>1, <2>4, <2>5, SettleStraight, BecomeScan
  <1>10. CASE GapServed
    <2>1. /\ UNCHANGED nodeVars /\ op.fill \in 1..top /\ op.fill # 0
          /\ op.lastHead \in Block /\ op.target \in Block
      BY <1>0, <1>10 DEF GapServed, Operation
    <2>2. /\ op.fill = op.lastHead.level + 1 /\ op.source \in {"past", "heads"}
          /\ OnBranch(op.target) /\ Straight(op)
      BY <1>3, <2>1 DEF Filling
    <2>3. PICK b \in Block : /\ b = chain[op.fill] /\ OnBranch(b) /\ b.level = op.fill
                             /\ Near(op, b)
      BY <1>0, <1>1, <2>1, <2>2 DEF Levelled, Near
    <2>4. PICK fetched : /\ fetched = Emit(op, b) /\ Sound(fetched) /\ Straight(fetched)
                         /\ fetched.source = op.source /\ fetched.lastHead = b
                         /\ fetched.fill = op.fill /\ fetched.target = op.target
      BY <1>0, <2>2, <2>3, EmitSound, EmitStraight
    <2> DEFINE next == [fetched EXCEPT !.fill = @ + 1]
               ended == [fetched EXCEPT !.fill = 0, !.target = NoBlock]
    <2>5. \/ ~Listening(fetched) /\ Become(Settle(fetched), poller)
          \/ Become(next, poller)
          \/ op.fill + 1 >= op.target.level /\ Become(Settle(Emit(ended, op.target)), poller)
      BY <1>10, <2>1, <2>3, <2>4 DEF GapServed, Block
    <2>6. CASE Become(next, poller)
      <3>1. fetched \in Operation /\ fetched.fill \in Nat
        BY <2>4 DEF Sound, Operation
      <3>2. Straight(next) /\ Filling(next)
        BY <2>1, <2>2, <2>3, <2>4, <3>1 DEF Operation, Straight, Scanned, Filling, Branch
      <3> QED
        BY <1>0, <1>3, <2>1, <2>6, <3>2, BecomeScan
    <2>7. CASE op.fill + 1 >= op.target.level /\ Become(Settle(Emit(ended, op.target)), poller)
      <3>1. /\ ended.source = op.source /\ ended.fill = 0 /\ ended.lastHead = b
            /\ ended.target = NoBlock /\ ended.replay = fetched.replay
            /\ ended.found = fetched.found /\ ended.watching = fetched.watching
            /\ ended.from = fetched.from /\ ended.calls = fetched.calls
            /\ ended \in Operation
        BY <2>4, NoBlockType DEF Sound, Operation
      <3>2. Sound(ended) /\ Straight(ended)
        BY <2>4, <3>1 DEF Sound, Straight, Scanned, Branch
      <3>3. Near(ended, op.target)
        BY <2>3, <2>7, <3>1 DEF Near
      <3> HIDE DEF ended
      <3> DEFINE n == Emit(ended, op.target)
      <3>4. Sound(n) /\ n.fill = 0 /\ n.source = op.source
        BY <2>1, <3>1, <3>2, EmitSound
      <3>5. Straight(n)
        BY <2>1, <2>2, <3>1, <3>2, <3>3, EmitStraight
      <3> HIDE DEF n
      <3>6. Straight(Settle(n)) /\ Filling(Settle(n))
        BY <2>2, <3>4, <3>5, SettleStraight DEF Filling
      <3> QED
        BY <1>0, <1>3, <2>1, <2>7, <3>6, BecomeScan DEF n
    <2>8. CASE ~Listening(fetched) /\ Become(Settle(fetched), poller)
      <3>1. Settle(fetched).fill = 0 /\ Straight(Settle(fetched))
        <4> DEFINE n == [fetched EXCEPT !.source = "idle", !.fill = 0, !.target = NoBlock]
        <4>1. Settle(fetched) = n
          BY <2>2, <2>4, <2>8 DEF Settle
        <4>2. /\ n.source = "idle" /\ n.fill = 0 /\ n.target = NoBlock
              /\ n.replay = fetched.replay /\ n.lastHead = fetched.lastHead
              /\ n.found = fetched.found /\ n.watching = fetched.watching
              /\ n.from = fetched.from
          BY <2>4 DEF Sound, Operation
        <4> QED
          BY <2>2, <2>4, <4>1, <4>2 DEF Straight, Scanned, Branch
      <3> QED
        BY <1>0, <1>3, <2>1, <2>8, <3>1, BecomeScan DEF Filling
    <2> QED
      BY <2>5, <2>6, <2>7, <2>8
  <1>11. ASSUME NEW c \in Callers, NEW n \in 1..MaxConf, Confirmation(c, n)
         PROVE  ScanInv'
    <2>1. PICK replayed :
             /\ Sound(replayed) /\ replayed.source = op.source
             /\ \E calls : replayed = [op EXCEPT !.calls = calls]
             /\ Become(IF op.source = "failed" THEN Broken(replayed)
                       ELSE Settle(Connect(replayed)), poller)
             /\ UNCHANGED nodeVars /\ op.source # "new"
      BY <1>0, <1>11, ConfirmationEffect
    <2>2. Straight(replayed) /\ Filling(replayed)
      BY <1>0, <1>3, <2>1 DEF Operation, Straight, Scanned, Filling, Branch
    <2>3. CASE op.source = "failed"
      BY <1>0, <1>3, <2>1, <2>2, <2>3, BrokenStraight, BecomeScan
    <2>4. CASE op.source # "failed"
      <3>1. LET n2 == Connect(replayed)
            IN  Sound(n2) /\ n2.source # "new" /\ Straight(n2) /\ Filling(n2)
        BY <2>1, <2>2, ConnectSound, ConnectStraight
      <3> QED
        BY <1>0, <1>3, <2>1, <2>4, <3>1, SettleStraight, BecomeScan
    <2> QED
      BY <2>3, <2>4
  <1>12. ASSUME NEW c \in Callers, ConfirmationInvalid(c)
         PROVE  ScanInv'
    <2>1. PICK calls : /\ op' = [op EXCEPT !.calls = calls]
                       /\ UNCHANGED <<nodeVars, poller>>
      BY <1>12 DEF ConfirmationInvalid
    <2> QED
      BY <1>0, <1>3, <2>1
      DEF Operation, ScanInv, Fresh, Straight, Scanned, Filling, Branch, OnBranch, nodeVars
  <1>13. CASE UNCHANGED vars
    BY <1>3, <1>13
    DEF vars, ScanInv, Fresh, Straight, Scanned, Filling, Branch, OnBranch, nodeVars
  <1> QED
    BY <1>2, <1>4, <1>5, <1>6, <1>7, <1>8, <1>9, <1>10, <1>11, <1>12, <1>13
    DEF Next, PollerNext, OperationNext

\* Without a reorganisation confirmed$ misses no inclusion between the first block
\* it scanned and the last head it was given.
THEOREM EveryLevelIsScanned == Spec => []NoInclusionMissed
  <1>1. SoundInv /\ ScanInv => NoInclusionMissed
    <2> SUFFICES ASSUME SoundInv, ScanInv, reorgs = 0, op.found = NoBlock,
                        NEW l \in 1..MaxLevel,
                        op.from <= l, l <= op.lastHead.level
                 PROVE  ~chain[l].op
      BY DEF NoInclusionMissed
    <2> QED
      BY DEF ScanInv, Straight, Scanned
  <1> QED
    BY InitSound, StepSound, InitPast, StepPastBranch, InitScan, StepScan, <1>1, PTL DEF Spec

\* The block confirmation() counts from does include the operation and, without a
\* reorganisation, is a block of the branch.
THEOREM InclusionIsReal == Spec => []FoundOnBranch
  <1>1. SoundInv /\ ScanInv => FoundOnBranch
    BY DEF SoundInv, Sound, ScanInv, Straight, Branch, FoundOnBranch
  <1> QED
    BY InitSound, StepSound, InitPast, StepPastBranch, InitScan, StepScan, <1>1, PTL DEF Spec
=============================================================================
