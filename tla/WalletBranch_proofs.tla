------------------------- MODULE WalletBranch_proofs -------------------------
(***************************************************************************)
(* Proofs about WalletBranch: the answers of isInCurrentBranch and of      *)
(* getCurrentConfirmation, and the numbers the events of a call tell, for  *)
(* every window of live blocks and every bound on the chain.               *)
(***************************************************************************)
EXTENDS WalletBranch, WalletOperation_proofs

\* A hash is that of one block of the branch.
Distinct ==
    /\ \A l \in 1..top : chain[l].hash \in 1..forged
    /\ \A l, m \in 1..top : chain[l].hash = chain[m].hash => l = m

\* b was baked: no other block of the branch has its hash.
Known(b) ==
    /\ b.hash \in 0..forged
    /\ b # NoBlock => b.level \in 1..MaxLevel
    /\ \A l \in 1..top : chain[l].hash = b.hash => chain[l] = b

\* The blocks that the operation holds, those told to its callers included.
Holds(o) == {o.replay, o.lastHead, o.target, o.found} \cup {o.calls[c].block : c \in Callers}

\* The blocks that come to the streams from the node, now or by an answer under way.
Baked == {chain[l] : l \in 1..top} \cup {NoBlock, past, poller.block}

KnownInv == Distinct /\ \A b \in Baked \cup Holds(op) : Known(b)
-----------------------------------------------------------------------------
(* The operators of the cascade hold no block but those they are given *)

LEMMA NotifyAllHolds ==
    ASSUME NEW o, Sound(o), o.found # NoBlock, NEW head \in Block
    PROVE  Holds(NotifyAll(o, head)) \subseteq Holds(o) \cup {head}
  <1> DEFINE calls == [c \in Callers |-> Notify(o.calls[c], head, o.found)]
  <1>1. o \in Operation /\ o.calls \in [Callers -> Call]
    BY DEF Sound, Operation
  <1>2. \A c \in Callers : calls[c].block \in {o.calls[c].block, head}
    BY <1>1 DEF Notify, Call
  <1>3. NotifyAll(o, head) = [o EXCEPT !.calls = calls]
    BY DEF NotifyAll
  <1> HIDE DEF calls
  <1>4. PICK n : /\ n = NotifyAll(o, head) /\ n.calls = calls /\ n.replay = o.replay
                 /\ n.lastHead = o.lastHead /\ n.target = o.target /\ n.found = o.found
    BY <1>1, <1>3 DEF Operation
  <1> QED
    BY <1>2, <1>4 DEF Holds

LEMMA IncludeHolds ==
    ASSUME NEW o, Sound(o), NEW b \in Block
    PROVE  Holds(Include(o, b)) \subseteq Holds(o) \cup {b}
  <1> DEFINE included == [o EXCEPT !.found = b, !.watching = FALSE]
  <1>1. CASE ~(o.watching /\ b.op)
    BY <1>1 DEF Include
  <1>2. CASE o.watching /\ b.op
    <2>1. /\ included \in Operation /\ included.found = b /\ included.lastHead = o.lastHead
          /\ included.calls = o.calls /\ included.source = o.source
          /\ included.fill = o.fill /\ b # NoBlock /\ ~included.watching
          /\ Holds(included) \subseteq Holds(o) \cup {b}
          /\ o.lastHead \in Block /\ o.lastHead \in Holds(o)
      BY <1>2, NoBlockType DEF Sound, Operation, Holds
    <2>2. Sound(included)
      BY <1>2, <2>1 DEF Sound, Resolved
    <2>3. Include(o, b) = IF o.lastHead = NoBlock THEN included
                          ELSE NotifyAll(included, o.lastHead)
      BY <1>2 DEF Include
    <2> HIDE DEF included
    <2>4. Holds(NotifyAll(included, o.lastHead)) \subseteq Holds(included) \cup {o.lastHead}
      BY <2>1, <2>2, NotifyAllHolds
    <2> QED
      BY <2>1, <2>3, <2>4
  <1> QED
    BY <1>1, <1>2

LEMMA EmitHolds ==
    ASSUME NEW o, Sound(o), NEW b \in Block
    PROVE  /\ Holds(Emit(o, b)) \subseteq Holds(o) \cup {b}
           /\ o.found # NoBlock => Emit(o, b).found = o.found
  <1> DEFINE scanned == [Include(o, b) EXCEPT
                           !.lastHead = b,
                           !.from = IF o.lastHead = NoBlock THEN b.level ELSE @]
  <1>1. PICK i : /\ i = Include(o, b) /\ Sound(i) /\ i.lastHead = o.lastHead
                 /\ Holds(i) \subseteq Holds(o) \cup {b}
    BY IncludeSound, IncludeHolds
  <1>2. i \in Operation /\ b.level \in Nat /\ i.from \in Nat
    BY <1>1 DEF Sound, Operation, Block
  <1>3. PICK from \in Nat : scanned = [i EXCEPT !.lastHead = b, !.from = from]
    BY <1>1, <1>2
  <1>4. /\ scanned \in Operation /\ scanned.source = i.source
        /\ scanned.fill = i.fill /\ scanned.watching = i.watching
        /\ scanned.found = i.found /\ scanned.calls = i.calls
        /\ scanned.replay = i.replay /\ scanned.target = i.target
        /\ scanned.lastHead = b
    BY <1>2, <1>3 DEF Operation
  <1>5. Sound(scanned)
    BY <1>1, <1>4 DEF Sound
  <1>6. Emit(o, b) = IF scanned.found = NoBlock THEN scanned ELSE NotifyAll(scanned, b)
    BY DEF Emit
  <1> HIDE DEF scanned
  <1>9. Holds(scanned) \subseteq Holds(i) \cup {b}
    BY <1>4 DEF Holds
  <1>7. scanned.found # NoBlock =>
            Holds(NotifyAll(scanned, b)) \subseteq Holds(scanned) \cup {b}
    BY <1>5, NotifyAllHolds
  <1>8. Emit(o, b).found = IF o.watching /\ b.op THEN b ELSE o.found
    BY EmitSound
  <1> QED
    BY <1>1, <1>6, <1>7, <1>8, <1>9 DEF Sound

LEMMA ReceiveHolds ==
    ASSUME NEW o, Sound(o), o.source # "new", NEW head \in Block
    PROVE  /\ Holds(Receive(o, head)) \subseteq Holds(o) \cup {head, NoBlock}
           /\ o.found # NoBlock => Receive(o, head).found = o.found
  <1> DEFINE prevHead == IF o.lastHead = NoBlock THEN head.level - 1 ELSE o.lastHead.level
             reset == [o EXCEPT !.fill = 0, !.target = NoBlock]
             filling == [o EXCEPT !.fill = prevHead + 1, !.target = head]
  <1>1. Receive(o, head) = IF prevHead + 1 >= head.level THEN Emit(reset, head) ELSE filling
    BY DEF Receive
  <1> HIDE DEF prevHead
  <1>2. Sound(reset) /\ Holds(reset) \subseteq Holds(o) \cup {NoBlock} /\ reset.found = o.found
    BY NoBlockType DEF Sound, Operation, Holds
  <1>3. Holds(filling) \subseteq Holds(o) \cup {head} /\ filling.found = o.found
    BY DEF Sound, Operation, Holds
  <1> HIDE DEF reset, filling
  <1> QED
    BY <1>1, <1>2, <1>3, EmitHolds

LEMMA BrokenHolds ==
    ASSUME NEW o, Sound(o)
    PROVE  Holds(Broken(o)) \subseteq Holds(o) \cup {NoBlock} /\ Broken(o).found = o.found
  <1> DEFINE calls == [c \in Callers |->
                         IF o.calls[c].state = "waiting"
                         THEN [o.calls[c] EXCEPT !.state = "failed"] ELSE o.calls[c]]
  <1>1. Broken(o) = [o EXCEPT !.source = "failed", !.fill = 0, !.target = NoBlock,
                              !.watching = FALSE, !.calls = calls]
    BY DEF Broken
  <1>2. o.calls \in [Callers -> Call]
    BY DEF Sound, Operation
  <1>3. \A c \in Callers : calls[c].block = o.calls[c].block
    BY <1>2 DEF Call
  <1> HIDE DEF calls
  <1> QED
    BY <1>1, <1>3 DEF Sound, Operation, Holds

LEMMA ConnectHeadsHolds ==
    ASSUME NEW o, Sound(o)
    PROVE  /\ Holds(ConnectHeads(o)) \subseteq Holds(o) \cup {NoBlock}
           /\ o.found # NoBlock => ConnectHeads(o).found = o.found
  <1> DEFINE live == [o EXCEPT !.source = "heads"]
  <1>1. /\ Sound(live) /\ live.source = "heads" /\ Holds(live) = Holds(o)
        /\ live.found = o.found /\ o.replay \in Block /\ o.replay \in Holds(o)
    BY SourceSound, SMTT(60) DEF Sound, Operation, Holds
  <1>2. ConnectHeads(o) = IF o.replay = NoBlock THEN live ELSE Receive(live, o.replay)
    BY DEF ConnectHeads
  <1> HIDE DEF live
  <1>3. /\ Holds(Receive(live, o.replay)) \subseteq Holds(live) \cup {o.replay, NoBlock}
        /\ live.found # NoBlock => Receive(live, o.replay).found = live.found
    BY <1>1, ReceiveHolds
  <1> QED
    BY <1>1, <1>2, <1>3

LEMMA ConnectHolds ==
    ASSUME NEW o, Sound(o)
    PROVE  /\ Holds(Connect(o)) \subseteq Holds(o) \cup {NoBlock}
           /\ o.found # NoBlock => Connect(o).found = o.found
  <1>1. LET n == [o EXCEPT !.source = "past"] IN Holds(n) = Holds(o) /\ n.found = o.found
    BY DEF Sound, Operation, Holds
  <1> QED
    BY <1>1, ConnectHeadsHolds DEF Connect

LEMMA SettleHolds ==
    ASSUME NEW o, Sound(o)
    PROVE  Holds(Settle(o)) \subseteq Holds(o) \cup {NoBlock} /\ Settle(o).found = o.found
  <1>1. LET n == [o EXCEPT !.source = "idle", !.fill = 0, !.target = NoBlock]
        IN  Holds(n) \subseteq Holds(o) \cup {NoBlock} /\ n.found = o.found
    BY DEF Sound, Operation, Holds
  <1> QED
    BY <1>1 DEF Settle
-----------------------------------------------------------------------------
(* The blocks that are held come from the node *)

LEMMA BecomeHolds ==
    ASSUME NEW o, NEW p \in Poller, Become(o, p)
    PROVE  op' = o /\ poller'.block \in {p.block, NoBlock}
  BY DEF Become, Shared, Poller

\* A new call is told the last head, if anything.
LEMMA ConfirmationHolds ==
    ASSUME Sound(op), NEW c \in Callers, NEW n \in 1..MaxConf, Confirmation(c, n)
    PROVE  \E replayed :
             /\ Sound(replayed) /\ replayed.source = op.source
             /\ Holds(replayed) \subseteq Holds(op) /\ replayed.found = op.found
             /\ Become(IF op.source = "failed" THEN Broken(replayed)
                       ELSE Settle(Connect(replayed)), poller)
             /\ op.source # "new"
  <1> DEFINE asked == Asking(c, n)
             replayed == IF op.found = NoBlock \/ op.lastHead = NoBlock THEN asked
                         ELSE [asked EXCEPT
                                 !.calls[c] = Notify(@, op.lastHead, op.found)]
             call == [op.calls[c] EXCEPT !.state = "waiting", !.conf = n]
             answered == Notify(call, op.lastHead, op.found)
  <1>0. /\ op \in Operation /\ op.calls \in [Callers -> Call] /\ op.calls[c] \in Call
        /\ op.found \in Block /\ op.lastHead \in Block /\ n \in Nat
    BY DEF Sound, Operation
  <1>1. call \in Call /\ Resolved(call, op.found) /\ call.block = op.calls[c].block
    BY <1>0 DEF Call, Resolved
  <1>2. asked = [op EXCEPT !.calls = [op.calls EXCEPT ![c] = call]]
    BY <1>0 DEF Asking, Operation
  <1>3. /\ answered \in Call /\ (op.found # NoBlock => Resolved(answered, op.found))
        /\ answered.block \in {op.calls[c].block, op.lastHead}
    <2>1. answered \in Call /\ (op.found # NoBlock => Resolved(answered, op.found))
      <3> HIDE DEF call
      <3> QED
        BY <1>0, <1>1, NotifyEffect DEF Resolved
    <2> QED
      BY <1>0, <1>1, <2>1 DEF Notify, Call
  <1> HIDE DEF call
  <1>4. /\ Sound(asked) /\ asked.source = op.source /\ asked.found = op.found
        /\ asked.calls[c] = call
    BY <1>1, <1>2, CallSound
  <1>5. \/ replayed = asked
        \/ /\ op.found # NoBlock
           /\ replayed = [asked EXCEPT !.calls = [asked.calls EXCEPT ![c] = answered]]
    BY <1>4 DEF Sound, Operation
  <1>6. Holds(asked) \subseteq Holds(op) /\ op.lastHead \in Holds(op)
        /\ op.calls[c].block \in Holds(op)
    BY <1>0, <1>1, <1>2 DEF Operation, Holds
  <1> HIDE DEF answered
  <1>7. /\ Sound(replayed) /\ replayed.source = op.source
        /\ Holds(replayed) \subseteq Holds(op) /\ replayed.found = op.found
    <2> HIDE DEF asked
    <2>1. CASE replayed = asked
      BY <1>4, <1>6, <2>1
    <2>2. CASE /\ op.found # NoBlock
               /\ replayed = [asked EXCEPT !.calls = [asked.calls EXCEPT ![c] = answered]]
      <3>1. Sound(replayed) /\ replayed.source = op.source /\ replayed.found = op.found
        BY <1>3, <1>4, <2>2, CallSound
      <3>2. asked \in Operation /\ asked.calls \in [Callers -> Call]
        BY <1>4 DEF Sound, Operation
      <3>3. Holds(replayed) \subseteq Holds(asked) \cup {answered.block}
        <4>1. /\ replayed.calls = [asked.calls EXCEPT ![c] = answered]
              /\ replayed.replay = asked.replay /\ replayed.lastHead = asked.lastHead
              /\ replayed.target = asked.target /\ replayed.found = asked.found
          BY <2>2, <3>2 DEF Operation
        <4> HIDE DEF replayed
        <4> QED
          BY <3>2, <4>1 DEF Holds
      <3> QED
        BY <1>3, <1>6, <3>1, <3>3
    <2> QED
      BY <1>5, <2>1, <2>2
  <1>8. op.source # "new" /\ Become(IF op.source = "failed" THEN Broken(replayed)
                                    ELSE Settle(Connect(replayed)), poller)
    BY DEF Confirmation
  <1> QED
    BY <1>7, <1>8

LEMMA StepHolds ==
    ASSUME SoundInv, [Next]_vars
    PROVE  /\ Holds(op') \cup {past', poller'.block} \subseteq Baked \cup Holds(op)
           /\ op.found # NoBlock => op'.found = op.found
  <1> DEFINE B == Baked \cup Holds(op)
             Kept(o) == Holds(o) \subseteq B /\ (op.found # NoBlock => o.found = op.found)
             Goal == Kept(op') /\ poller'.block \in B
  <1>0. /\ Sound(op) /\ op \in Operation /\ poller \in Poller /\ poller.block \in Block
        /\ \A l \in 1..top : chain[l] \in Block
        /\ NoBlock \in B /\ poller.block \in B /\ Kept(op)
        /\ \A l \in 1..top : chain[l] \in B
    BY ChainAssumption DEF SoundInv, Sound, Poller, NodeTypeOK, Baked
  <1>1. past' \in B /\ past' \in Block
    BY StepPast DEF Baked
  <1>2. SUFFICES Goal
    BY <1>1, <1>2
  <1> HIDE DEF B
  <1>3. ASSUME NEW o, Kept(o), NEW p \in Poller, p.block \in B, Become(o, p)
        PROVE  Goal
    BY <1>0, <1>3, BecomeHolds
  <1>4. ASSUME op' = op, poller'.block \in B
        PROVE  Goal
    BY <1>0, <1>4
  <1>5. ASSUME NEW o, Sound(o), Kept(o)
        PROVE  /\ Kept(Broken(o)) /\ Kept(Connect(o)) /\ Kept(ConnectHeads(o))
               /\ Kept(Settle(o))
               /\ \A b \in Block : b \in B =>
                     Kept(Emit(o, b)) /\ (o.source # "new" => Kept(Receive(o, b)))
    <2>1. Kept(Broken(o))
      BY <1>0, <1>5, BrokenHolds
    <2>2. Kept(Connect(o)) /\ Kept(ConnectHeads(o))
      BY <1>0, <1>5, ConnectHolds, ConnectHeadsHolds
    <2>3. Kept(Settle(o))
      BY <1>0, <1>5, SettleHolds
    <2>4. ASSUME NEW b \in Block, b \in B
          PROVE  Kept(Emit(o, b)) /\ (o.source # "new" => Kept(Receive(o, b)))
      BY <1>0, <1>5, <2>4, EmitHolds, ReceiveHolds
    <2> QED
      BY <2>1, <2>2, <2>3, <2>4
  <1> HIDE DEF Kept, Goal
  <1>6. CASE NodeStep \/ UNCHANGED vars
    BY <1>0, <1>4, <1>6 DEF NodeStep, vars
  <1>7. CASE CreateOperation
    <2> DEFINE created == [op EXCEPT !.source = "idle", !.watching = TRUE]
    <2>1. Sound(created) /\ Holds(created) = Holds(op) /\ created.found = op.found
      BY <1>0, <1>7, ZenonT(60) DEF CreateOperation, Sound, Operation, Holds
    <2>2. Become(Connect(created), poller)
      BY <1>7 DEF CreateOperation
    <2> HIDE DEF created
    <2>3. Kept(created)
      BY <1>0, <2>1 DEF Kept
    <2> QED
      BY <1>0, <1>3, <1>5, <2>1, <2>2, <2>3
  <1>8. CASE OtherOperation \/ PollTick \/ PollServed
    <2>1. poller'.block \in B
      <3>1. CASE OtherOperation
        BY <1>0, <3>1 DEF OtherOperation, OtherSubscriber, Shared, Poller
      <3>2. CASE PollTick \/ PollServed
        <4>1. top \in 1..top
          BY ChainAssumption DEF SoundInv, NodeTypeOK
        <4>2. poller'.block = NoBlock \/ poller'.block = chain[top]
          BY <1>0, <3>2 DEF PollTick, PollServed, Tick, Serve, Poller
        <4> QED
          BY <1>0, <4>1, <4>2
      <3> QED
        BY <1>8, <3>1, <3>2
    <2> QED
      BY <1>4, <1>8, <2>1 DEF OtherOperation, PollTick, PollServed
  <1>9. CASE PollDelivered
    <2> DEFINE head == poller.block
               rest == [poller EXCEPT !.state = "between", !.block = NoBlock,
                                      !.seen = head.hash]
               followed == [op EXCEPT !.replay = head]
    <2>1. rest \in Poller /\ rest.block = NoBlock
      BY <1>0, NoBlockType DEF Poller, Block
    <2>2. /\ Sound(followed) /\ followed.source = op.source /\ followed.found = op.found
          /\ Holds(followed) \subseteq Holds(op) \cup {head}
      BY <1>0 DEF Sound, Operation, Holds
    <2>3. \/ op.source = "heads" /\ Become(Settle(Receive(followed, head)), rest)
          \/ Become(op, rest)
      BY <1>9 DEF PollDelivered, Delivered
    <2> HIDE DEF rest, followed
    <2>4. Kept(followed)
      BY <1>0, <2>2 DEF Kept
    <2>5. op.source = "heads" => Kept(Settle(Receive(followed, head)))
      BY <1>0, <1>5, <2>2, <2>4, ReceiveSound
    <2> QED
      BY <1>0, <1>3, <2>1, <2>3, <2>5
  <1>10. CASE PollFails
    <2> DEFINE p == [poller EXCEPT !.dead = TRUE, !.others = FALSE]
    <2>1. p \in Poller /\ p.block = poller.block
      BY <1>0 DEF Poller
    <2>2. Become(IF op.source = "heads" THEN Broken(op) ELSE op, p)
      BY <1>10 DEF PollFails, Killed
    <2> HIDE DEF p
    <2> QED
      BY <1>0, <1>3, <1>5, <2>1, <2>2
  <1>11. CASE TimeoutExpires \/ PastFails \/ GapFails
    <2>1. Become(Broken(op), poller)
      BY <1>11 DEF TimeoutExpires, PastFails, GapFails
    <2> QED
      BY <1>0, <1>3, <1>5, <2>1
  <1>12. CASE PastServed
    <2>1. PICK started :
             /\ started = Receive(op, past')
             /\ Become(Settle(IF Listening(started) THEN ConnectHeads(started)
                             ELSE started), poller)
             /\ op.source = "past"
      BY <1>12 DEF PastServed
    <2>2. Sound(started) /\ Kept(started)
      BY <1>0, <1>1, <1>5, <2>1, ReceiveSound
    <2>3. PICK n : /\ n = IF Listening(started) THEN ConnectHeads(started) ELSE started
                   /\ Become(Settle(n), poller)
      BY <2>1
    <2>4. Sound(n) /\ Kept(n)
      BY <1>5, <2>2, <2>3, ConnectHeadsSound
    <2> QED
      BY <1>0, <1>3, <1>5, <2>3, <2>4
  <1>13. CASE GapServed
    <2>1. PICK fetched : /\ fetched = Emit(op, chain[op.fill]) /\ op.fill \in 1..top
                         /\ Sound(fetched) /\ fetched.target = op.target
      BY <1>0, <1>13, EmitSound DEF GapServed
    <2> DEFINE next == [fetched EXCEPT !.fill = @ + 1]
               ended == [fetched EXCEPT !.fill = 0, !.target = NoBlock]
    <2>2. Kept(fetched)
      BY <1>0, <1>5, <2>1
    <2>3. /\ Holds(next) = Holds(fetched) /\ next.found = fetched.found
          /\ Sound(ended) /\ Holds(ended) \subseteq Holds(fetched) \cup {NoBlock}
          /\ ended.found = fetched.found
      <3>1. /\ next.calls = fetched.calls /\ next.found = fetched.found
            /\ next.replay = fetched.replay /\ next.lastHead = fetched.lastHead
            /\ next.target = fetched.target
            /\ ended.calls = fetched.calls /\ ended.found = fetched.found
            /\ ended.replay = fetched.replay /\ ended.lastHead = fetched.lastHead
            /\ ended.target = NoBlock
        BY <2>1 DEF Sound, Operation
      <3>2. Sound(ended)
        BY <2>1, NoBlockType DEF Sound, Operation
      <3> HIDE DEF next, ended
      <3> QED
        BY <3>1, <3>2 DEF Holds
    <2>4. \/ Become(Settle(fetched), poller)
          \/ Become(next, poller)
          \/ Become(Settle(Emit(ended, op.target)), poller)
      BY <1>13, <2>1 DEF GapServed
    <2> HIDE DEF next, ended
    <2>5. Kept(next) /\ Kept(ended) /\ op.target \in Block /\ op.target \in B
      BY <1>0, <2>2, <2>3 DEF Kept, Operation, Holds
    <2>6. Sound(Emit(ended, op.target)) /\ Kept(Emit(ended, op.target))
      BY <1>5, <2>3, <2>5, EmitSound
    <2> QED
      BY <1>0, <1>3, <1>5, <2>1, <2>2, <2>4, <2>5, <2>6
  <1>14. ASSUME NEW c \in Callers, NEW n \in 1..MaxConf, Confirmation(c, n)
         PROVE  Goal
    <2>1. PICK replayed :
             /\ Sound(replayed) /\ replayed.source = op.source
             /\ Holds(replayed) \subseteq Holds(op) /\ replayed.found = op.found
             /\ Become(IF op.source = "failed" THEN Broken(replayed)
                       ELSE Settle(Connect(replayed)), poller)
             /\ op.source # "new"
      BY <1>0, <1>14, ConfirmationHolds
    <2>2. Kept(replayed)
      BY <1>0, <2>1 DEF Kept
    <2>3. Kept(Broken(replayed)) /\ Kept(Settle(Connect(replayed)))
      BY <1>5, <2>1, <2>2, ConnectSound
    <2> QED
      BY <1>0, <1>3, <2>1, <2>3
  <1>15. ASSUME NEW c \in Callers, ConfirmationInvalid(c)
         PROVE  Goal
    <2>1. op' = [op EXCEPT !.calls[c].state = "failed"] /\ poller' = poller
      BY <1>15 DEF ConfirmationInvalid
    <2>2. Holds(op') = Holds(op) /\ op'.found = op.found
      <3>1. \A d \in Callers : op'.calls[d].block = op.calls[d].block
        BY <1>0, <2>1 DEF Operation, Call
      <3> QED
        BY <1>0, <2>1, <3>1 DEF Operation, Holds
    <2> QED
      BY <1>0, <2>1, <2>2 DEF Goal, Kept
  <1> QED
    BY <1>6, <1>7, <1>8, <1>9, <1>10, <1>11, <1>12, <1>13, <1>14, <1>15
    DEF Next, PollerNext, OperationNext

LEMMA InitKnown == Init => KnownInv
  <1> SUFFICES ASSUME Init
               PROVE  KnownInv
    OBVIOUS
  <1>1. /\ top = 1 /\ forged = 1 /\ past = NoBlock /\ poller.block = NoBlock
        /\ chain[1] = [hash |-> 1, level |-> 1, op |-> FALSE]
        /\ Holds(op) = {NoBlock}
    BY ChainAssumption DEF Init, NodeInit, PollerInit, NotCreated, Holds
  <1> QED
    BY <1>1, ChainAssumption DEF KnownInv, Distinct, Known, Baked, NoBlock

\* A new head has a hash of its own.
LEMMA NodeStepKnown ==
    ASSUME SoundInv, KnownInv, NodeStep
    PROVE  KnownInv'
  <1>0. NodeTypeOK /\ Levelled /\ Distinct
    BY DEF SoundInv, KnownInv
  <1>1. PICK l \in 1..MaxLevel, o \in BOOLEAN : NewHead(l, o) /\ l <= top + 1
    BY <1>0, ChainAssumption DEF NodeStep, NodeNext, Bake, Reorg, NewHead, NodeTypeOK
  <1>2. /\ top' = l /\ forged' = forged + 1 /\ top \in Nat /\ forged \in Nat
        /\ \A m \in 1..top' : m # l => m \in 1..top /\ chain'[m] = chain[m]
        /\ chain'[l] = [hash |-> forged + 1, level |-> l, op |-> o]
    BY <1>0, <1>1, ChainAssumption DEF NewHead, NodeTypeOK
  <1>3. Distinct'
    BY <1>0, <1>2 DEF Distinct
  <1>4. \A b : Known(b) => Known(b)'
    <2> SUFFICES ASSUME NEW b, Known(b)
                 PROVE  Known(b)'
      OBVIOUS
    <2>1. b.hash \in 0..(forged + 1) /\ b.hash # forged + 1
      BY <1>2 DEF Known
    <2> QED
      BY <1>2, <2>1 DEF Known
  <1>5. Known(chain[l])'
    BY <1>1, <1>2, <1>3, ChainAssumption DEF Known, Distinct
  <1>6. (Baked \cup Holds(op))' \subseteq Baked \cup Holds(op) \cup {chain'[l]}
    BY <1>2 DEF NodeStep, Baked, Holds
  <1> QED
    BY <1>3, <1>4, <1>5, <1>6 DEF KnownInv

LEMMA StepKnown == SoundInv /\ KnownInv /\ [Next]_vars => KnownInv'
  <1> SUFFICES ASSUME SoundInv, KnownInv, [Next]_vars
               PROVE  KnownInv'
    OBVIOUS
  <1>1. CASE NodeStep
    BY <1>1, NodeStepKnown
  <1>2. CASE ~NodeStep
    <2>1. UNCHANGED nodeVars
      BY <1>2 DEF Next, PollerNext, OperationNext, CreateOperation, nodeVars,
                  OtherOperation, PollTick, PollServed, PollDelivered, PollFails,
                  TimeoutExpires, PastServed, PastFails, GapServed, GapFails,
                  Confirmation, ConfirmationInvalid, vars
    <2>2. (Baked \cup Holds(op))' \subseteq Baked \cup Holds(op)
      BY <2>1, StepHolds DEF Baked, Holds, nodeVars
    <2>3. \A b : Known(b) => Known(b)'
      BY <2>1 DEF Known, nodeVars
    <2>4. Distinct'
      BY <2>1 DEF KnownInv, Distinct, nodeVars
    <2> QED
      BY <2>2, <2>3, <2>4 DEF KnownInv
  <1> QED
    BY <1>1, <1>2
-----------------------------------------------------------------------------
(* Without a reorganisation the events of a call count the confirmations *)

\* What a call was told, with last as the head before: the numbers of its events are
\* those of blocks of the branch and, without a start block, follow each other.
Tally(call, found, last) ==
    /\ call.state = "idle" => call.events = 0
    /\ call.events # 0 =>
          /\ found # NoBlock /\ OnBranch(call.block)
          /\ call.current = call.block.level - found.level + 1
          /\ call.seen = call.block.hash
          /\ StartLevel = 0 =>
                /\ call.events = call.current - call.first + 1
                /\ call.state = "waiting" => call.block = last

Counting(o) == \A c \in Callers : Tally(o.calls[c], o.found, o.lastHead)

\* Without a start block the head stream never goes back.
Ordered(o) ==
    StartLevel = 0 =>
        /\ o.lastHead.level <= o.replay.level
        /\ o.fill # 0 => o.fill < o.target.level /\ o.target.level <= o.replay.level

\* b is the last head or its successor.
Follows(o, b) ==
    StartLevel = 0 /\ o.lastHead # NoBlock =>
        o.lastHead.level <= b.level /\ b.level <= o.lastHead.level + 1

LEMMA NotifyTally ==
    ASSUME Distinct, NEW call \in Call, NEW found \in Block, found # NoBlock,
           NEW head \in Block, OnBranch(head), NEW last \in Block,
           Tally(call, found, last),
           StartLevel = 0 /\ last # NoBlock /\ call.events # 0 =>
               last.level <= head.level /\ head.level <= last.level + 1
    PROVE  Tally(Notify(call, head, found), found, head)
  <1> DEFINE n == Notify(call, head, found)
  <1>1. CASE call.state # "waiting"
    BY <1>1 DEF Notify, Tally
  <1>2. CASE call.state = "waiting" /\ head.hash = call.seen
    <2>1. n = call
      BY <1>2 DEF Notify
    <2>2. call.events # 0 => call.block = head
      BY <1>2 DEF Tally, Distinct, OnBranch
    <2> QED
      BY <2>1, <2>2 DEF Tally
  <1>3. CASE call.state = "waiting" /\ head.hash # call.seen
    <2> DEFINE depth == head.level - found.level
               state == IF depth >= call.conf - 1 THEN "done" ELSE "waiting"
    <2>0. PICK first : first = IF call.events = 0 THEN depth + 1 ELSE call.first
      OBVIOUS
    <2>1. n = [call EXCEPT !.seen = head.hash, !.events = call.events + 1,
                           !.first = first, !.current = depth + 1,
                           !.block = head, !.state = state]
      BY <1>3, <2>0 DEF Notify
    <2>2. /\ depth \in Int /\ state \in {"waiting", "done"}
          /\ call.events \in Nat /\ call.first \in Int /\ call.current \in Int
      BY DEF Call, Block
    <2>3. StartLevel = 0 => call.events + 1 = depth + 1 - first + 1
      <3>1. CASE call.events = 0
        BY <2>0, <2>2, <3>1
      <3>2. CASE StartLevel = 0 /\ call.events # 0
        <4>1. /\ call.block = last /\ OnBranch(last)
              /\ call.current = last.level - found.level + 1
              /\ call.events = call.current - call.first + 1
              /\ last.hash # head.hash
          BY <1>3, <3>2 DEF Tally
        <4>2. last # NoBlock /\ last.level # head.level
          BY <4>1 DEF OnBranch, NoBlock
        <4>3. head.level = last.level + 1
          BY <3>2, <4>2 DEF Block
        <4> QED
          BY <2>0, <2>2, <3>2, <4>1, <4>3 DEF Block
      <3> QED
        BY <3>1, <3>2
    <2>4. /\ n.state = state /\ n.events = call.events + 1 /\ n.seen = head.hash
          /\ n.first = first /\ n.current = depth + 1 /\ n.block = head
      BY <2>1 DEF Call
    <2>5. n.current = head.level - found.level + 1 /\ n.events # 0
      BY <2>2, <2>4
    <2> HIDE DEF n, state
    <2>6. StartLevel = 0 => n.events = n.current - n.first + 1
      <3>1. first \in Int
        BY <2>0, <2>2
      <3> QED
        BY <2>2, <2>3, <2>4, <3>1
    <2>7. Tally(n, found, head)
      BY <2>2, <2>4, <2>5, <2>6 DEF Tally
    <2> QED
      BY <2>7 DEF n
  <1> QED
    BY <1>1, <1>2, <1>3

LEMMA NotifyAllCounting ==
    ASSUME Distinct, NEW o, Sound(o), o.found # NoBlock,
           NEW head \in Block, OnBranch(head), NEW last \in Block,
           \A c \in Callers : Tally(o.calls[c], o.found, last),
           \A c \in Callers : o.calls[c].events # 0 =>
               (StartLevel = 0 /\ last # NoBlock =>
                    last.level <= head.level /\ head.level <= last.level + 1)
    PROVE  LET n == NotifyAll(o, head)
           IN  \A c \in Callers : Tally(n.calls[c], n.found, head)
  <1>1. o \in Operation /\ o.found \in Block /\ o.calls \in [Callers -> Call]
    BY DEF Sound, Operation
  <1>2. ASSUME NEW c \in Callers
        PROVE  Tally(Notify(o.calls[c], head, o.found), o.found, head)
    BY <1>1, NotifyTally
  <1> DEFINE calls == [c \in Callers |-> Notify(o.calls[c], head, o.found)]
  <1>3. \A c \in Callers : Tally(calls[c], o.found, head)
    BY <1>2
  <1>4. NotifyAll(o, head) = [o EXCEPT !.calls = calls]
    BY DEF NotifyAll
  <1> HIDE DEF calls
  <1> QED
    BY <1>1, <1>3, <1>4 DEF Operation

\* While the operation is not found, nobody was told anything.
LEMMA NothingTold ==
    ASSUME NEW o, Counting(o), o.found = NoBlock, NEW c \in Callers
    PROVE  o.calls[c].events = 0
  BY DEF Counting, Tally

\* The including block comes with the head before it, if there is one.
LEMMA IncludeCounting ==
    ASSUME Distinct, NEW o, Sound(o), Straight(o), Counting(o), NEW b \in Block
    PROVE  Counting(Include(o, b))
  <1> DEFINE included == [o EXCEPT !.found = b, !.watching = FALSE]
  <1>0. o \in Operation /\ o.lastHead \in Block
    BY DEF Sound, Operation
  <1>1. CASE ~(o.watching /\ b.op)
    BY <1>1 DEF Include
  <1>2. CASE o.watching /\ b.op
    <2>1. /\ included \in Operation /\ included.calls = o.calls /\ included.found = b
          /\ included.lastHead = o.lastHead /\ b # NoBlock /\ o.found = NoBlock
          /\ ~included.watching /\ included.source = o.source
          /\ included.fill = o.fill
      BY <1>0, <1>2, NoBlockType DEF Sound, Operation
    <2>2. \A c \in Callers : /\ included.calls[c].events = 0
                             /\ Tally(included.calls[c], b, o.lastHead)
      BY <2>1, NothingTold DEF Counting, Tally
    <2>3. Sound(included)
      BY <1>2, <2>1 DEF Sound, Resolved
    <2>4. Include(o, b) = IF o.lastHead = NoBlock THEN included
                          ELSE NotifyAll(included, o.lastHead)
      BY <1>2 DEF Include
    <2> HIDE DEF included
    <2>5. CASE o.lastHead = NoBlock
      BY <2>1, <2>2, <2>4, <2>5 DEF Counting
    <2>6. CASE o.lastHead # NoBlock
      <3>1. OnBranch(o.lastHead)
        BY <2>6 DEF Straight, Branch
      <3>2. PICK n : n = NotifyAll(included, o.lastHead)
        OBVIOUS
      <3>3. \A c \in Callers : Tally(n.calls[c], n.found, o.lastHead)
        BY <1>0, <2>1, <2>2, <2>3, <3>1, <3>2, NotifyAllCounting
      <3>4. n.lastHead = o.lastHead
        BY <1>0, <2>1, <2>3, <3>2, NotifyAllSound
      <3> QED
        BY <2>4, <2>6, <3>2, <3>3, <3>4 DEF Counting
    <2> QED
      BY <2>5, <2>6
  <1> QED
    BY <1>1, <1>2

LEMMA EmitCounting ==
    ASSUME Distinct, NEW o, Sound(o), Straight(o), Counting(o),
           NEW b \in Block, OnBranch(b), Follows(o, b)
    PROVE  Counting(Emit(o, b))
  <1> DEFINE scanned == [Include(o, b) EXCEPT
                           !.lastHead = b,
                           !.from = IF o.lastHead = NoBlock THEN b.level ELSE @]
  <1>1. PICK i : /\ i = Include(o, b) /\ Sound(i) /\ i.lastHead = o.lastHead
    BY IncludeSound
  <1>2. Counting(i) /\ i \in Operation /\ b.level \in Nat /\ i.from \in Nat
        /\ o.lastHead \in Block
    BY <1>1, IncludeCounting DEF Sound, Operation, Block
  <1>3. PICK from \in Nat : scanned = [i EXCEPT !.lastHead = b, !.from = from]
    BY <1>1, <1>2
  <1>4. /\ scanned \in Operation /\ scanned.source = i.source
        /\ scanned.lastHead = b /\ scanned.fill = i.fill
        /\ scanned.watching = i.watching /\ scanned.found = i.found
        /\ scanned.calls = i.calls
    BY <1>2, <1>3 DEF Operation
  <1>5. Sound(scanned)
    BY <1>1, <1>4 DEF Sound
  <1>6. Emit(o, b) = IF scanned.found = NoBlock THEN scanned ELSE NotifyAll(scanned, b)
    BY DEF Emit
  <1> HIDE DEF scanned
  <1>7. \A c \in Callers : Tally(scanned.calls[c], scanned.found, o.lastHead)
    BY <1>1, <1>2, <1>4 DEF Counting
  <1>8. CASE scanned.found = NoBlock
    <2>1. \A c \in Callers : Tally(scanned.calls[c], scanned.found, b)
      BY <1>7, <1>8 DEF Tally
    <2> QED
      BY <1>4, <1>6, <1>8, <2>1 DEF Counting
  <1>9. CASE scanned.found # NoBlock
    <2>1. PICK n : n = NotifyAll(scanned, b)
      OBVIOUS
    <2>2. \A c \in Callers : Tally(n.calls[c], n.found, b)
      BY <1>2, <1>5, <1>7, <1>9, <2>1, NotifyAllCounting DEF Follows
    <2>3. n.lastHead = b
      BY <1>4, <1>5, <1>9, <2>1, NotifyAllSound
    <2> QED
      BY <1>6, <1>9, <2>1, <2>2, <2>3 DEF Counting
  <1> QED
    BY <1>8, <1>9

\* What Receive makes of a head: it is emitted, or it opens a gap below itself.
LEMMA ReceiveCounting ==
    ASSUME Distinct, NEW o, Sound(o), Straight(o), Counting(o), Ordered(o),
           o.source \in {"past", "heads"}, NEW head \in Block, OnBranch(head),
           StartLevel = 0 => o.lastHead.level <= head.level /\ o.replay = head
    PROVE  Counting(Receive(o, head)) /\ Ordered(Receive(o, head))
  <1> DEFINE prevHead == IF o.lastHead = NoBlock THEN head.level - 1 ELSE o.lastHead.level
             reset == [o EXCEPT !.fill = 0, !.target = NoBlock]
             filling == [o EXCEPT !.fill = prevHead + 1, !.target = head]
  <1>1. /\ o \in Operation /\ o.lastHead \in Block /\ head.level \in Nat
        /\ o.lastHead.level \in Nat
    BY DEF Sound, Operation, Block
  <1>2. Receive(o, head) = IF prevHead + 1 >= head.level THEN Emit(reset, head) ELSE filling
    BY DEF Receive
  <1>3. CASE prevHead + 1 >= head.level
    <2>1. /\ Sound(reset) /\ reset.source = o.source /\ reset.fill = 0
          /\ reset.replay = o.replay /\ reset.lastHead = o.lastHead
          /\ reset.target = NoBlock /\ reset.found = o.found
          /\ reset.watching = o.watching /\ reset.from = o.from
          /\ reset.calls = o.calls
      BY <1>1, NoBlockType DEF Sound, Operation
    <2>2. Straight(reset) /\ Counting(reset)
      BY <2>1 DEF Straight, Scanned, Branch, Counting
    <2>3. Follows(reset, head)
      BY <1>1, <1>3, <2>1 DEF Follows
    <2> HIDE DEF reset
    <2>4. PICK n : /\ n = Emit(reset, head) /\ n.fill = 0 /\ n.lastHead = head
                   /\ n.replay = o.replay /\ Counting(n)
      BY <2>1, <2>2, <2>3, EmitSound, EmitCounting
    <2>5. Ordered(n)
      BY <1>1, <2>4 DEF Ordered
    <2> QED
      BY <1>2, <1>3, <2>4, <2>5
  <1>4. CASE ~(prevHead + 1 >= head.level)
    <2>1. prevHead = o.lastHead.level
      BY <1>1, <1>4
    <2>2. /\ filling.fill = o.lastHead.level + 1 /\ filling.target = head
          /\ filling.replay = o.replay /\ filling.lastHead = o.lastHead
          /\ filling.found = o.found /\ filling.calls = o.calls
      BY <1>1, <2>1 DEF Operation
    <2> HIDE DEF filling
    <2> QED
      BY <1>1, <1>2, <1>4, <2>1, <2>2 DEF Counting, Ordered
  <1> QED
    BY <1>3, <1>4

LEMMA BrokenCounting ==
    ASSUME NEW o, Sound(o), Counting(o), Ordered(o)
    PROVE  Counting(Broken(o)) /\ Ordered(Broken(o))
  <1> DEFINE calls == [c \in Callers |->
                         IF o.calls[c].state = "waiting"
                         THEN [o.calls[c] EXCEPT !.state = "failed"] ELSE o.calls[c]]
  <1>1. o \in Operation /\ o.calls \in [Callers -> Call]
    BY DEF Sound, Operation
  <1>2. \A c \in Callers : Tally(calls[c], o.found, o.lastHead)
    BY <1>1 DEF Counting, Tally, Call
  <1>3. Broken(o) = [o EXCEPT !.source = "failed", !.fill = 0, !.target = NoBlock,
                              !.watching = FALSE, !.calls = calls]
    BY DEF Broken
  <1> HIDE DEF calls
  <1>4. PICK n : /\ n = Broken(o) /\ n.fill = 0 /\ n.calls = calls /\ n.found = o.found
                 /\ n.lastHead = o.lastHead /\ n.replay = o.replay
    BY <1>1, <1>3 DEF Operation
  <1> QED
    BY <1>2, <1>4 DEF Counting, Ordered

\* What keeps calls and heads keeps the count.
LEMMA KeepsCounting ==
    ASSUME NEW o, Counting(o), Ordered(o),
           NEW n, n.calls = o.calls, n.found = o.found, n.lastHead = o.lastHead,
           n.replay = o.replay, n.fill = 0 \/ (n.fill = o.fill /\ n.target = o.target)
    PROVE  Counting(n) /\ Ordered(n)
  BY DEF Counting, Ordered

LEMMA SettleCounting ==
    ASSUME NEW o, Sound(o), Counting(o), Ordered(o)
    PROVE  Counting(Settle(o)) /\ Ordered(Settle(o))
  <1> DEFINE n == [o EXCEPT !.source = "idle", !.fill = 0, !.target = NoBlock]
  <1>1. /\ n.calls = o.calls /\ n.found = o.found /\ n.lastHead = o.lastHead
        /\ n.replay = o.replay /\ n.fill = 0
    BY DEF Sound, Operation
  <1>2. Settle(o) = o \/ Settle(o) = n
    BY DEF Settle
  <1> HIDE DEF n
  <1> QED
    BY <1>1, <1>2, KeepsCounting

LEMMA ConnectHeadsCounting ==
    ASSUME Distinct, NEW o, Sound(o), Straight(o), Counting(o), Ordered(o),
           o.source \in {"idle", "past"}
    PROVE  Counting(ConnectHeads(o)) /\ Ordered(ConnectHeads(o))
  <1> DEFINE live == [o EXCEPT !.source = "heads"]
  <1>1. /\ Sound(live) /\ live.source = "heads" /\ o.replay \in Block
        /\ live.calls = o.calls /\ live.found = o.found /\ live.lastHead = o.lastHead
        /\ live.replay = o.replay /\ live.fill = o.fill /\ live.target = o.target
    BY SourceSound DEF Sound, Operation
  <1>2. Straight(live)
    BY SourceStraight
  <1>3. ConnectHeads(o) = IF o.replay = NoBlock THEN live ELSE Receive(live, o.replay)
    BY DEF ConnectHeads
  <1> HIDE DEF live
  <1>4. Counting(live) /\ Ordered(live)
    BY <1>1, KeepsCounting
  <1>5. CASE o.replay = NoBlock
    BY <1>3, <1>4, <1>5
  <1>6. CASE o.replay # NoBlock
    <2>1. OnBranch(o.replay)
      BY <1>6 DEF Straight, Branch
    <2> QED
      BY <1>1, <1>2, <1>3, <1>4, <1>6, <2>1, ReceiveCounting DEF Ordered
  <1> QED
    BY <1>5, <1>6

LEMMA ConnectCounting ==
    ASSUME Distinct, NEW o, Sound(o), Straight(o), Counting(o), Ordered(o),
           o.source # "new"
    PROVE  Counting(Connect(o)) /\ Ordered(Connect(o))
  <1>1. LET n == [o EXCEPT !.source = "past"]
        IN  /\ n.calls = o.calls /\ n.found = o.found /\ n.lastHead = o.lastHead
            /\ n.replay = o.replay /\ n.fill = o.fill /\ n.target = o.target
    BY DEF Sound, Operation
  <1>2. LET n == [o EXCEPT !.source = "past"] IN Counting(n) /\ Ordered(n)
    BY <1>1, KeepsCounting
  <1> QED
    BY <1>2, ConnectHeadsCounting DEF Connect
\* The value of the head stream is written by the poller alone.
LEMMA ReceiveReplay ==
    ASSUME NEW o, Sound(o), o.source # "new", NEW head \in Block
    PROVE  Receive(o, head).replay = o.replay
  <1> DEFINE reset == [o EXCEPT !.fill = 0, !.target = NoBlock]
  <1>1. Sound(reset) /\ reset.replay = o.replay
    BY NoBlockType DEF Sound, Operation
  <1>2. \A f : [o EXCEPT !.fill = f, !.target = head].replay = o.replay
    BY DEF Sound, Operation
  <1>3. Emit(reset, head).replay = o.replay
    <2> HIDE DEF reset
    <2> QED
      BY <1>1, EmitSound
  <1> QED
    BY <1>2, <1>3 DEF Receive

LEMMA BrokenReplay ==
    ASSUME NEW o, Sound(o)
    PROVE  Broken(o).replay = o.replay
  BY DEF Broken, Sound, Operation

LEMMA SettleReplay ==
    ASSUME NEW o, Sound(o)
    PROVE  Settle(o).replay = o.replay
  BY DEF Settle, Sound, Operation

LEMMA ConnectReplay ==
    ASSUME NEW o, Sound(o), o.source # "new"
    PROVE  Connect(o).replay = o.replay
  <1> DEFINE live == [o EXCEPT !.source = "heads"]
  <1>1. Sound(live) /\ live.source = "heads" /\ live.replay = o.replay /\ o.replay \in Block
    BY SourceSound DEF Sound, Operation
  <1>2. [o EXCEPT !.source = "past"].replay = o.replay
    BY DEF Sound, Operation
  <1>3. o.replay # NoBlock => Receive(live, o.replay).replay = o.replay
    <2> HIDE DEF live
    <2> QED
      BY <1>1, ReceiveReplay
  <1> QED
    BY <1>1, <1>2, <1>3 DEF Connect, ConnectHeads

LEMMA HigherReplay ==
    ASSUME NEW o, Sound(o), Counting(o), Ordered(o), NEW head \in Block,
           StartLevel = 0 => o.replay.level <= head.level,
           NEW n, n.calls = o.calls, n.found = o.found, n.lastHead = o.lastHead,
           n.replay = head, n.fill = o.fill, n.target = o.target
    PROVE  Counting(n) /\ Ordered(n)
  <1>1. o.lastHead.level \in Nat /\ o.target.level \in Nat /\ o.replay.level \in Nat
        /\ head.level \in Nat
    BY DEF Sound, Operation, Block
  <1> QED
    BY <1>1 DEF Counting, Ordered
-----------------------------------------------------------------------------
(* Every action keeps the count *)

\* The answer on its way back is no older than what the operation was told last.
Newer(o, p) ==
    StartLevel = 0 /\ p.state = "answered" => o.replay.level <= p.block.level

CountInv == reorgs = 0 => Counting(op) /\ Ordered(op) /\ Newer(op, poller)

LEMMA InitCount == Init => CountInv
  <1> SUFFICES ASSUME Init
               PROVE  Counting(op) /\ Ordered(op) /\ Newer(op, poller)
    BY DEF CountInv
  <1>1. /\ op.lastHead = NoBlock /\ op.replay = NoBlock /\ op.fill = 0
        /\ \A c \in Callers : op.calls[c].events = 0
        /\ poller.state = "off"
    BY DEF Init, PollerInit, NotCreated
  <1> QED
    BY <1>1 DEF Counting, Tally, Ordered, Newer, NoBlock

LEMMA BecomeCount ==
    ASSUME NEW o, NEW p \in Poller, Become(o, p), UNCHANGED nodeVars,
           Counting(o), Ordered(o), Newer(o, p)
    PROVE  CountInv'
  <1>1. /\ op' = o
        /\ poller'.state = "answered" => p.state = "answered" /\ poller'.block = p.block
    BY DEF Become, Shared, Poller
  <1> QED
    BY <1>1 DEF CountInv, Counting, Tally, Ordered, Newer, OnBranch, nodeVars

\* A new call is told nothing, or the last head.
LEMMA ConfirmationCounting ==
    ASSUME Distinct, Sound(op), Straight(op), Counting(op), Ordered(op),
           NEW c \in Callers, NEW n \in 1..MaxConf, Confirmation(c, n)
    PROVE  \E replayed :
             /\ Sound(replayed) /\ replayed.source = op.source
             /\ \E calls : replayed = [op EXCEPT !.calls = calls]
             /\ Counting(replayed)
             /\ Become(IF op.source = "failed" THEN Broken(replayed)
                       ELSE Settle(Connect(replayed)), poller)
             /\ UNCHANGED nodeVars /\ op.source # "new"
  <1> DEFINE asked == Asking(c, n)
             replayed == IF op.found = NoBlock \/ op.lastHead = NoBlock THEN asked
                         ELSE [asked EXCEPT
                                 !.calls[c] = Notify(@, op.lastHead, op.found)]
             call == [op.calls[c] EXCEPT !.state = "waiting", !.conf = n]
             answered == Notify(call, op.lastHead, op.found)
  <1>0. /\ op \in Operation /\ op.calls \in [Callers -> Call] /\ op.calls[c] \in Call
        /\ op.found \in Block /\ op.lastHead \in Block /\ n \in Nat
        /\ op.calls[c].state = "idle"
    BY DEF Sound, Operation, Confirmation
  <1>1. call \in Call /\ call.events = 0 /\ Resolved(call, op.found)
        /\ Tally(call, op.found, op.lastHead)
    <2>1. op.calls[c].events = 0
      BY <1>0 DEF Counting, Tally
    <2> QED
      BY <1>0, <2>1 DEF Call, Resolved, Tally
  <1>2. asked = [op EXCEPT !.calls = [op.calls EXCEPT ![c] = call]]
    BY <1>0 DEF Asking, Operation
  <1> HIDE DEF call
  <1>3. /\ Sound(asked) /\ asked.source = op.source /\ asked.found = op.found
        /\ asked.calls[c] = call
    BY <1>1, <1>2, CallSound
  <1>4. op.found # NoBlock /\ op.lastHead # NoBlock =>
            /\ answered \in Call /\ Resolved(answered, op.found)
            /\ Tally(answered, op.found, op.lastHead)
    <2> SUFFICES ASSUME op.found # NoBlock, op.lastHead # NoBlock
                 PROVE  /\ answered \in Call /\ Resolved(answered, op.found)
                        /\ Tally(answered, op.found, op.lastHead)
      OBVIOUS
    <2>1. OnBranch(op.lastHead)
      BY DEF Straight, Branch
    <2>2. answered \in Call /\ Resolved(answered, op.found)
      BY <1>0, <1>1, NotifyEffect DEF Resolved
    <2> QED
      BY <1>0, <1>1, <2>1, <2>2, NotifyTally
  <1>5. \/ replayed = asked
        \/ /\ op.found # NoBlock /\ op.lastHead # NoBlock
           /\ replayed = [asked EXCEPT !.calls = [asked.calls EXCEPT ![c] = answered]]
    BY <1>3 DEF Sound, Operation
  <1>6. \E calls : replayed = [op EXCEPT !.calls = calls]
    BY <1>0, <1>2, <1>5 DEF Operation
  <1> HIDE DEF answered
  <1>7. Sound(replayed) /\ replayed.source = op.source
    <2> HIDE DEF asked
    <2> QED
      BY <1>3, <1>4, <1>5, CallSound
  <1>8. \E told : /\ Tally(told, op.found, op.lastHead)
                  /\ replayed = [op EXCEPT !.calls = [op.calls EXCEPT ![c] = told]]
    <2>1. [asked EXCEPT !.calls = [asked.calls EXCEPT ![c] = answered]]
             = [op EXCEPT !.calls = [op.calls EXCEPT ![c] = answered]]
      <3>1. /\ asked \in Operation /\ asked.calls = [op.calls EXCEPT ![c] = call]
            /\ asked.source = op.source /\ asked.replay = op.replay
            /\ asked.lastHead = op.lastHead /\ asked.fill = op.fill
            /\ asked.target = op.target /\ asked.watching = op.watching
            /\ asked.found = op.found /\ asked.from = op.from
        BY <1>0, <1>2, <1>3 DEF Sound, Operation
      <3>2. [asked.calls EXCEPT ![c] = answered] = [op.calls EXCEPT ![c] = answered]
        BY <1>0, <3>1
      <3> HIDE DEF asked
      <3> QED
        BY <1>0, <3>1, <3>2 DEF Operation
    <2> QED
      BY <1>1, <1>2, <1>4, <1>5, <2>1
  <1>9. Counting(replayed)
    <2>1. PICK told : /\ Tally(told, op.found, op.lastHead)
                      /\ replayed = [op EXCEPT !.calls = [op.calls EXCEPT ![c] = told]]
      BY <1>8
    <2>2. /\ replayed.found = op.found /\ replayed.lastHead = op.lastHead
          /\ replayed.calls = [op.calls EXCEPT ![c] = told]
      BY <1>0, <2>1 DEF Operation
    <2> HIDE DEF replayed
    <2> QED
      BY <1>0, <2>1, <2>2 DEF Counting
  <1> QED
    BY <1>6, <1>7, <1>9 DEF Confirmation

LEMMA StepCount ==
    ASSUME SoundInv, KnownInv, PastInv, ScanInv, CountInv, [Next]_vars
    PROVE  CountInv'
  <1> SUFFICES ASSUME reorgs' = 0
               PROVE  CountInv'
    BY DEF CountInv
  <1>0. /\ Sound(op) /\ op \in Operation /\ poller \in Poller
        /\ poller.block \in Block /\ NodeTypeOK /\ Levelled /\ Distinct
        /\ op.replay \in Block /\ op.lastHead \in Block
    BY DEF SoundInv, Sound, Operation, Poller, KnownInv
  <1>1. \A l \in 1..top : chain[l] \in Block /\ OnBranch(chain[l])
    BY <1>0, ChainAssumption DEF NodeTypeOK, Levelled, OnBranch
  <1>2. CASE NodeStep
    <2>1. /\ reorgs = 0 /\ op' = op /\ poller' = poller
          /\ \A l \in 1..top : l \in 1..top' /\ chain'[l] = chain[l]
      BY <1>2, BakeBranch DEF NodeStep
    <2>2. \A b : OnBranch(b) => OnBranch(b)'
      BY <2>1 DEF OnBranch
    <2>3. Counting(op)'
      BY <2>1, <2>2 DEF CountInv, Counting, Tally
    <2> QED
      BY <2>1, <2>3 DEF CountInv, Ordered, Newer
  <1>3. ASSUME UNCHANGED nodeVars
        PROVE  /\ reorgs = 0 /\ Fresh(poller) /\ Straight(op) /\ Filling(op)
               /\ Counting(op) /\ Ordered(op) /\ Newer(op, poller)
    BY <1>3 DEF nodeVars, ScanInv, CountInv
  <1>4. CASE CreateOperation
    <2> DEFINE created == [op EXCEPT !.source = "idle", !.watching = TRUE]
    <2>1. Become(Connect(created), poller) /\ UNCHANGED nodeVars /\ op.source = "new"
      BY <1>4 DEF CreateOperation
    <2>2. /\ created \in Operation /\ created.source = "idle" /\ created.watching
          /\ created.replay = op.replay /\ created.lastHead = op.lastHead
          /\ created.target = op.target /\ created.found = op.found
          /\ created.from = op.from /\ created.fill = op.fill /\ created.calls = op.calls
      BY <1>0 DEF Operation
    <2>3. Sound(created) /\ Straight(created)
      BY <1>0, <1>3, <2>1, <2>2 DEF Sound, Straight, Scanned, Branch
    <2> HIDE DEF created
    <2>4. Counting(created) /\ Ordered(created)
      BY <1>3, <2>1, <2>2, KeepsCounting
    <2>5. Counting(Connect(created)) /\ Ordered(Connect(created))
      BY <1>0, <2>2, <2>3, <2>4, ConnectCounting
    <2>6. Connect(created).replay = created.replay
      BY <2>2, <2>3, ConnectReplay
    <2> QED
      BY <1>0, <1>3, <2>1, <2>2, <2>5, <2>6, BecomeCount DEF Newer
  <1>5. CASE OtherOperation \/ PollTick \/ PollServed
    <2>1. op' = op /\ UNCHANGED nodeVars
      BY <1>5 DEF OtherOperation, PollTick, PollServed, OtherSubscriber
    <2>4. poller'.state = "answered" =>
             \/ poller'.block = chain[top]
             \/ poller.state = "answered" /\ poller'.block = poller.block
      <3>1. CASE OtherOperation
        BY <1>0, <3>1 DEF OtherOperation, OtherSubscriber, Shared, Poller
      <3>2. CASE PollTick \/ PollServed
        BY <1>0, <3>2 DEF PollTick, PollServed, Tick, Serve, Poller
      <3> QED
        BY <1>5, <3>1, <3>2
    <2>2. chain[top].level = top /\ top \in Nat
      BY <1>0, ChainAssumption DEF NodeTypeOK, Levelled
    <2>3. op.replay.level <= top
      BY <1>0, <1>1, <1>3, <2>1, <2>2 DEF Straight, Branch, OnBranch, NoBlock
    <2>5. Newer(op, poller)'
      BY <1>3, <2>1, <2>2, <2>3, <2>4 DEF Newer
    <2> QED
      BY <1>3, <2>1, <2>5 DEF CountInv, Counting, Tally, Ordered, OnBranch, nodeVars
  <1>6. CASE PollDelivered
    <2> DEFINE head == poller.block
               rest == [poller EXCEPT !.state = "between", !.block = NoBlock,
                                      !.seen = head.hash]
               followed == [op EXCEPT !.replay = head]
    <2>1. rest \in Poller /\ rest.state = "between"
      BY <1>0, NoBlockType DEF Poller, Block
    <2>2. /\ followed \in Operation /\ followed.source = op.source
          /\ followed.watching = op.watching /\ followed.replay = head
          /\ followed.lastHead = op.lastHead /\ followed.target = op.target
          /\ followed.found = op.found /\ followed.from = op.from
          /\ followed.fill = op.fill /\ followed.calls = op.calls
      BY <1>0 DEF Operation
    <2>3. /\ \/ op.source = "heads" /\ Become(Settle(Receive(followed, head)), rest)
             \/ Become(op, rest)
          /\ UNCHANGED nodeVars /\ poller.state = "answered"
      BY <1>6 DEF PollDelivered, Delivered
    <2>4. Sound(followed) /\ Straight(followed)
      BY <1>0, <1>3, <2>2, <2>3 DEF Sound, Straight, Scanned, Fresh, Branch
    <2>5. OnBranch(head) /\ head \in Block
      BY <1>0, <1>3, <2>3 DEF Fresh
    <2>6. StartLevel = 0 => op.replay.level <= head.level
      BY <1>3, <2>3 DEF Newer
    <2> HIDE DEF rest, followed, head
    <2>7. Counting(followed) /\ Ordered(followed)
      BY <1>0, <1>3, <2>2, <2>3, <2>5, <2>6, HigherReplay
    <2>8. ASSUME op.source = "heads"
          PROVE  LET n == Settle(Receive(followed, head)) IN Counting(n) /\ Ordered(n)
      <3>1. StartLevel = 0 => followed.lastHead.level <= head.level /\ followed.replay = head
        BY <2>2, <2>7 DEF Ordered
      <3>2. /\ Counting(Receive(followed, head)) /\ Ordered(Receive(followed, head))
            /\ Sound(Receive(followed, head))
        BY <1>0, <2>2, <2>4, <2>5, <2>7, <2>8, <3>1, ReceiveSound, ReceiveCounting
      <3> QED
        BY <3>2, SettleCounting
    <2>9. \A o : Newer(o, rest)
      BY <2>1 DEF Newer
    <2> QED
      BY <1>3, <2>1, <2>3, <2>8, <2>9, BecomeCount
  <1>7. CASE PollFails
    <2> DEFINE p == [poller EXCEPT !.dead = TRUE, !.others = FALSE]
    <2>1. p \in Poller /\ p.block = poller.block /\ p.state = "asked"
      BY <1>0, <1>7 DEF Poller, PollFails
    <2>2. /\ Become(IF op.source = "heads" THEN Broken(op) ELSE op, p)
          /\ UNCHANGED nodeVars
      BY <1>7 DEF PollFails, Killed
    <2> HIDE DEF p
    <2>3. \A o : Newer(o, p)
      BY <2>1 DEF Newer
    <2> QED
      BY <1>0, <1>3, <2>1, <2>2, <2>3, BrokenCounting, BecomeCount
  <1>8. CASE TimeoutExpires \/ PastFails \/ GapFails
    <2>1. Become(Broken(op), poller) /\ UNCHANGED nodeVars
      BY <1>8 DEF TimeoutExpires, PastFails, GapFails
    <2>2. Broken(op).replay = op.replay
      BY <1>0, BrokenReplay
    <2> QED
      BY <1>0, <1>3, <2>1, <2>2, BrokenCounting, BecomeCount DEF Newer
  <1>9. CASE PastServed
    <2>1. PICK started :
             /\ started = Receive(op, past')
             /\ Become(Settle(IF Listening(started) THEN ConnectHeads(started)
                             ELSE started), poller)
             /\ UNCHANGED nodeVars /\ op.source = "past"
      BY <1>9 DEF PastServed
    <2>2. past' \in Block /\ OnBranch(past')
      <3>1. past' # NoBlock \/ (past' = chain[StartLevel] /\ StartLevel \in 1..top)
        BY <1>0, <1>9, <2>1, OperationAssumption, ChainAssumption
        DEF PastServed, Sound, NodeTypeOK
      <3> QED
        BY <1>1, <1>3, <2>1, <3>1, StepPast DEF PastInv, Branch
    <2>3. StartLevel # 0
      BY <1>0, <2>1 DEF Sound
    <2>4. /\ Sound(started) /\ started.source = "past" /\ Straight(started)
          /\ Counting(started) /\ Ordered(started)
      BY <1>0, <1>3, <2>1, <2>2, <2>3, ReceiveSound, ReceiveStraight, ReceiveCounting
    <2>5. PICK n : /\ n = IF Listening(started) THEN ConnectHeads(started) ELSE started
                   /\ Become(Settle(n), poller)
      BY <2>1
    <2>6. Sound(n) /\ Counting(n) /\ Ordered(n)
      BY <1>0, <2>4, <2>5, ConnectHeadsSound, ConnectHeadsCounting
    <2> QED
      BY <1>0, <2>1, <2>3, <2>5, <2>6, SettleCounting, BecomeCount DEF Newer
  <1>10. CASE GapServed
    <2>1. /\ UNCHANGED nodeVars /\ op.fill \in 1..top /\ op.fill # 0
          /\ op.lastHead \in Block /\ op.target \in Block
      BY <1>0, <1>10 DEF GapServed, Operation
    <2>2. /\ op.fill = op.lastHead.level + 1 /\ op.source \in {"past", "heads"}
          /\ OnBranch(op.target) /\ Straight(op)
          /\ StartLevel = 0 => /\ op.fill < op.target.level
                               /\ op.target.level <= op.replay.level
      BY <1>3, <2>1 DEF Filling, Ordered
    <2>3. PICK b \in Block : /\ b = chain[op.fill] /\ OnBranch(b) /\ b.level = op.fill
                             /\ Near(op, b) /\ Follows(op, b)
      BY <1>0, <1>1, <2>1, <2>2 DEF Levelled, Near, Follows, Block
    <2>4. PICK fetched : /\ fetched = Emit(op, b) /\ Sound(fetched) /\ Straight(fetched)
                         /\ fetched.source = op.source /\ fetched.lastHead = b
                         /\ fetched.fill = op.fill /\ fetched.target = op.target
                         /\ fetched.replay = op.replay /\ Counting(fetched)
      BY <1>0, <1>3, <2>1, <2>2, <2>3, EmitSound, EmitStraight, EmitCounting, ZenonT(60)
    <2> DEFINE next == [fetched EXCEPT !.fill = @ + 1]
               ended == [fetched EXCEPT !.fill = 0, !.target = NoBlock]
    <2>5. \/ Become(Settle(fetched), poller)
          \/ op.fill + 1 < op.target.level /\ Become(next, poller)
          \/ op.fill + 1 >= op.target.level /\ Become(Settle(Emit(ended, op.target)), poller)
      BY <1>10, <2>1, <2>3, <2>4 DEF GapServed, Block
    <2>6. Ordered(fetched)
      BY <1>0, <2>1, <2>2, <2>3, <2>4 DEF Ordered, Block
    <2>7. CASE Become(Settle(fetched), poller)
      <3>1. Settle(fetched).replay = op.replay
        BY <2>4, SettleReplay
      <3> QED
        BY <1>0, <1>3, <2>1, <2>4, <2>6, <2>7, <3>1, SettleCounting, BecomeCount DEF Newer
    <2>8. CASE op.fill + 1 < op.target.level /\ Become(next, poller)
      <3>1. /\ next.fill = op.fill + 1 /\ next.target = op.target /\ next.lastHead = b
            /\ next.found = fetched.found /\ next.calls = fetched.calls
            /\ next.replay = op.replay
        BY <2>4 DEF Sound, Operation
      <3> HIDE DEF next
      <3>2. Counting(next)
        BY <2>4, <3>1 DEF Counting
      <3>3. Ordered(next)
        BY <2>2, <2>4, <2>6, <2>8, <3>1 DEF Ordered
      <3> QED
        BY <1>0, <1>3, <2>1, <2>8, <3>1, <3>2, <3>3, BecomeCount DEF Newer
    <2>9. CASE /\ op.fill + 1 >= op.target.level
               /\ Become(Settle(Emit(ended, op.target)), poller)
      <3>1. /\ ended.source = op.source /\ ended.fill = 0 /\ ended.lastHead = b
            /\ ended.target = NoBlock /\ ended.replay = op.replay
            /\ ended.found = fetched.found /\ ended.watching = fetched.watching
            /\ ended.from = fetched.from /\ ended.calls = fetched.calls
            /\ ended \in Operation
        BY <2>4, NoBlockType DEF Sound, Operation
      <3> HIDE DEF ended
      <3>2. Sound(ended) /\ Straight(ended) /\ Counting(ended)
        BY <2>4, <3>1 DEF Sound, Straight, Scanned, Branch, Counting
      <3>3. Follows(ended, op.target)
        BY <2>1, <2>2, <2>3, <2>9, <3>1 DEF Follows, Block
      <3>7. Counting(Emit(ended, op.target))
        BY <1>0, <2>1, <2>2, <3>2, <3>3, EmitCounting
      <3>8. PICK n : n = Emit(ended, op.target)
        OBVIOUS
      <3>4. /\ Sound(n) /\ n.fill = 0 /\ n.lastHead = op.target /\ n.replay = op.replay
            /\ Counting(n)
        BY <2>1, <3>1, <3>2, <3>7, <3>8, EmitSound, ZenonT(60)
      <3>5. Ordered(n)
        BY <2>2, <3>4 DEF Ordered
      <3>6. Settle(n).replay = op.replay
        BY <3>4, SettleReplay
      <3> QED
        BY <1>0, <1>3, <2>1, <2>9, <3>4, <3>5, <3>6, <3>8, SettleCounting, BecomeCount DEF Newer
    <2> QED
      BY <2>5, <2>7, <2>8, <2>9
  <1>11. ASSUME NEW c \in Callers, NEW n \in 1..MaxConf, Confirmation(c, n)
         PROVE  CountInv'
    <2>0. UNCHANGED nodeVars
      BY <1>11 DEF Confirmation
    <2>1. PICK replayed :
             /\ Sound(replayed) /\ replayed.source = op.source
             /\ \E calls : replayed = [op EXCEPT !.calls = calls]
             /\ Counting(replayed)
             /\ Become(IF op.source = "failed" THEN Broken(replayed)
                       ELSE Settle(Connect(replayed)), poller)
             /\ op.source # "new"
      BY <1>0, <1>3, <1>11, <2>0, ConfirmationCounting
    <2>2. /\ Straight(replayed) /\ Ordered(replayed) /\ replayed.replay = op.replay
      BY <1>0, <1>3, <2>0, <2>1 DEF Operation, Straight, Scanned, Branch, Ordered
    <2>3. CASE op.source = "failed"
      <3>1. Broken(replayed).replay = op.replay
        BY <2>1, <2>2, BrokenReplay
      <3> QED
        BY <1>0, <1>3, <2>0, <2>1, <2>2, <2>3, <3>1, BrokenCounting, BecomeCount DEF Newer
    <2>4. CASE op.source # "failed"
      <3>1. PICK n2 : /\ n2 = Connect(replayed) /\ Sound(n2) /\ Counting(n2) /\ Ordered(n2)
                      /\ n2.replay = op.replay
        BY <1>0, <2>1, <2>2, ConnectSound, ConnectCounting, ConnectReplay
      <3>2. Settle(n2).replay = op.replay
        BY <3>1, SettleReplay
      <3> QED
        BY <1>0, <1>3, <2>0, <2>1, <2>4, <3>1, <3>2, SettleCounting, BecomeCount DEF Newer
    <2> QED
      BY <2>3, <2>4
  <1>12. ASSUME NEW c \in Callers, ConfirmationInvalid(c)
         PROVE  CountInv'
    <2>1. /\ op' = [op EXCEPT !.calls[c].state = "failed"] /\ op.calls[c].state = "idle"
          /\ UNCHANGED <<nodeVars, poller>>
      BY <1>12 DEF ConfirmationInvalid
    <2>2. op.calls[c].events = 0
      BY <1>3, <2>1 DEF Counting, Tally
    <2>3. /\ op'.found = op.found /\ op'.lastHead = op.lastHead /\ op'.replay = op.replay
          /\ op'.fill = op.fill /\ op'.target = op.target
          /\ op'.calls[c].events = 0
          /\ \A d \in Callers : d # c => op'.calls[d] = op.calls[d]
      BY <1>0, <2>1, <2>2 DEF Operation, Call
    <2>4. Counting(op)'
      <3> SUFFICES ASSUME NEW d \in Callers
                   PROVE  Tally(op.calls[d], op.found, op.lastHead)'
        BY DEF Counting
      <3>1. CASE d = c
        BY <2>3, <3>1 DEF Tally
      <3>2. CASE d # c
        BY <1>3, <2>1, <2>3, <3>2 DEF Counting, Tally, OnBranch, nodeVars
      <3> QED
        BY <3>1, <3>2
    <2> QED
      BY <1>3, <2>1, <2>3, <2>4 DEF CountInv, Ordered, Newer
  <1>13. CASE UNCHANGED vars
    BY <1>3, <1>13 DEF vars, CountInv, Counting, Tally, Ordered, Newer, OnBranch, nodeVars
  <1> QED
    BY <1>2, <1>4, <1>5, <1>6, <1>7, <1>8, <1>9, <1>10, <1>11, <1>12, <1>13
    DEF Next, PollerNext, OperationNext
-----------------------------------------------------------------------------
(* The query under way *)

\* Only a found operation is asked about, from a tip of the branch.
QueryInv ==
    /\ query \in Query
    /\ query.state = "tip" => op.found # NoBlock
    /\ reorgs = 0 => /\ query.inBranch /\ query.state # "failed"
                     /\ query.state = "tip" => query.tip <= top

WalletInv == SoundInv /\ KnownInv /\ PastInv /\ ScanInv /\ CountInv

\* The branch grows until the node reorganises, and reorganisations are counted.
LEMMA NodeGrows ==
    ASSUME SoundInv, [Next]_vars
    PROVE  reorgs' = 0 => reorgs = 0 /\ top <= top'
  <1>1. CASE NodeStep
    BY <1>1, BakeBranch, ChainAssumption DEF SoundInv, NodeTypeOK
  <1>2. CASE ~NodeStep
    <2>1. UNCHANGED nodeVars
      BY <1>2 DEF Next, PollerNext, OperationNext, CreateOperation, nodeVars,
                  OtherOperation, PollTick, PollServed, PollDelivered, PollFails,
                  TimeoutExpires, PastServed, PastFails, GapServed, GapFails,
                  Confirmation, ConfirmationInvalid, vars
    <2> QED
      BY <2>1, ChainAssumption DEF SoundInv, NodeTypeOK, nodeVars
  <1> QED
    BY <1>1, <1>2

LEMMA InitQuery == BranchInit => WalletInv /\ QueryInv
  <1> SUFFICES ASSUME BranchInit
               PROVE  WalletInv /\ QueryInv
    OBVIOUS
  <1>1. WalletInv
    BY InitSound, InitKnown, InitPast, InitScan, InitCount DEF BranchInit, WalletInv
  <1>2. QueryInv
    BY ChainAssumption DEF BranchInit, NoQuery, Query, QueryInv
  <1> QED
    BY <1>1, <1>2

LEMMA StepWallet == WalletInv /\ [BranchNext]_branchVars => WalletInv'
  <1> SUFFICES ASSUME WalletInv, [BranchNext]_branchVars
               PROVE  WalletInv'
    OBVIOUS
  <1>1. [Next]_vars
    BY DEF BranchNext, branchVars, AskBranch, AnswerAtOrBelow, AnswerFromLiveBlocks,
           CurrentConfirmation
  <1> QED
    BY <1>1, StepSound, StepKnown, StepPastBranch, StepScan, StepCount DEF WalletInv

\* A tip that is asked about was baked and, without a reorganisation, is on the branch.
LEMMA TipLevel ==
    ASSUME WalletInv, NEW tip \in Tips
    PROVE  /\ tip.level \in 0..MaxLevel
           /\ reorgs = 0 => tip.level <= top
  <1>0. /\ Sound(op) /\ NodeTypeOK /\ Levelled /\ top \in 1..top /\ top \in Nat
        /\ MaxLevel \in Nat /\ top <= MaxLevel
    BY ChainAssumption DEF WalletInv, SoundInv, NodeTypeOK
  <1>1. CASE tip = chain[top]
    BY <1>0, <1>1 DEF Levelled
  <1>2. ASSUME NEW c \in Callers, op.calls[c].events # 0, tip = op.calls[c].block
        PROVE  /\ tip.level \in 0..MaxLevel
               /\ reorgs = 0 => tip.level <= top
    <2>1. Known(tip)
      BY <1>2 DEF WalletInv, KnownInv, Holds
    <2>2. tip.level \in 0..MaxLevel
      BY <1>0, <2>1 DEF Known, NoBlock
    <2>3. reorgs = 0 => OnBranch(tip)
      BY <1>2 DEF WalletInv, CountInv, Counting, Tally
    <2> QED
      BY <1>0, <2>2, <2>3 DEF OnBranch
  <1> QED
    BY <1>1, <1>2 DEF Tips

\* The answer of the live blocks is the truth: the window reaches down to the
\* including block, and no other block of the branch has its hash.
LEMMA LiveBlocksAnswer ==
    ASSUME WalletInv, op.found # NoBlock, NEW tip \in Nat, tip > op.found.level,
           TipBlockLevel(tip) <= top
    PROVE  op.found.hash \in LiveBlocks(TipBlockLevel(tip)) <=> OnBranch(op.found)
  <1> DEFINE level == TipBlockLevel(tip)
  <1>0. /\ op.found \in Block /\ op.found.level \in Nat /\ Known(op.found)
        /\ op.found.level \in 1..MaxLevel /\ top \in Nat /\ Levelled
        /\ MaxAncestors \in Nat /\ MaxAncestors > 0
        /\ LiveWindow \in Nat /\ MaxAncestors <= LiveWindow
    <2>1. /\ op.found \in Block /\ top \in 1..MaxLevel /\ Levelled
      BY DEF WalletInv, SoundInv, NodeTypeOK, Sound, Operation
    <2>2. Known(op.found)
      BY DEF WalletInv, KnownInv, Holds
    <2>3. op.found.level \in 1..MaxLevel /\ op.found.level \in Nat
      BY <2>1, <2>2 DEF Known, Block
    <2> QED
      BY <2>1, <2>2, <2>3, BranchAssumption, ChainAssumption
  <1>1. /\ level \in Nat /\ level <= top /\ op.found.level < level
        /\ op.found.level + LiveWindow >= level
    BY <1>0 DEF TipBlockLevel, Smaller
  <1> HIDE DEF level
  <1>2. ASSUME OnBranch(op.found)
        PROVE  op.found.hash \in LiveBlocks(level)
    <2>1. op.found.level \in {m \in 1..level : m + LiveWindow >= level}
      BY <1>0, <1>1
    <2>2. chain[op.found.level].hash = op.found.hash
      BY <1>2 DEF OnBranch
    <2> QED
      BY <2>1, <2>2 DEF LiveBlocks
  <1>3. ASSUME op.found.hash \in LiveBlocks(level)
        PROVE  OnBranch(op.found)
    <2>1. PICK l \in 1..level : chain[l].hash = op.found.hash
      BY <1>3 DEF LiveBlocks
    <2>2. l \in 1..top
      BY <1>0, <1>1, <2>1
    <2>3. chain[l] = op.found /\ chain[l].level = l
      BY <1>0, <2>1, <2>2 DEF Known, Levelled
    <2> QED
      BY <2>2, <2>3 DEF OnBranch
  <1> QED
    BY <1>2, <1>3 DEF level

\* Without a reorganisation the live blocks always answer, and always yes.
LEMMA NeverDenied ==
    ASSUME WalletInv, QueryInv, AnswerFromLiveBlocks, reorgs = 0
    PROVE  query'.inBranch /\ query'.state = "answered"
  <1> DEFINE level == TipBlockLevel(query.tip)
  <1>1. /\ query \in Query /\ query.state = "tip" /\ op.found # NoBlock
        /\ query.tip <= top /\ query.tip > op.found.level /\ query.tip \in Nat
    BY DEF AnswerFromLiveBlocks, QueryInv, Query
  <1>2. level <= top
    <2>1. /\ op.found.level \in Nat /\ MaxAncestors \in Nat /\ top \in Nat
      BY BranchAssumption DEF WalletInv, SoundInv, NodeTypeOK, Sound, Operation, Block
    <2> QED
      BY <1>1, <2>1 DEF TipBlockLevel, Smaller
  <1>3. OnBranch(op.found)
    BY <1>1 DEF WalletInv, ScanInv, Straight, Branch
  <1>4. op.found.hash \in LiveBlocks(level)
    BY <1>1, <1>2, <1>3, LiveBlocksAnswer
  <1> HIDE DEF level
  <1>5. query' = [query EXCEPT !.state = "answered", !.inBranch = TRUE]
    BY <1>1, <1>2, <1>4 DEF AnswerFromLiveBlocks, level
  <1> QED
    BY <1>1, <1>5 DEF Query

LEMMA StepQuery ==
    ASSUME WalletInv, QueryInv, [BranchNext]_branchVars
    PROVE  QueryInv'
  <1>0. /\ Sound(op) /\ NodeTypeOK /\ Levelled /\ query \in Query
        /\ top \in 1..top /\ top \in 1..MaxLevel /\ chain[top].level = top
        /\ MaxLevel \in Nat \ {0}
    BY ChainAssumption DEF WalletInv, SoundInv, NodeTypeOK, Levelled, QueryInv
  <1>1. CASE (Next /\ UNCHANGED query) \/ UNCHANGED branchVars
    <2>1. [Next]_vars /\ query' = query
      BY <1>1 DEF branchVars
    <2>2. reorgs' = 0 => reorgs = 0 /\ top <= top'
      BY <2>1, NodeGrows DEF WalletInv
    <2>3. op.found # NoBlock => op'.found # NoBlock
      BY <2>1, StepHolds DEF WalletInv
    <2>4. top' \in Nat /\ top \in Nat /\ query.tip \in Nat
      BY <1>0, <2>1, StepSound DEF WalletInv, SoundInv, NodeTypeOK, Query
    <2> QED
      BY <2>1, <2>2, <2>3, <2>4 DEF QueryInv
  <1>2. ASSUME NEW tip \in Tips, AskBranch(tip)
        PROVE  QueryInv'
    <2>1. /\ tip.level \in 0..MaxLevel /\ (reorgs = 0 => tip.level <= top)
          /\ UNCHANGED <<op, reorgs, top>>
      BY <1>2, TipLevel DEF AskBranch, vars
    <2>2. CASE op.found = NoBlock
      <3>1. query' = [state |-> "answered", tip |-> 0, inBranch |-> TRUE, count |-> 0]
        BY <1>2, <2>2 DEF AskBranch, NoQuery
      <3> QED
        BY <1>0, <2>1, <3>1 DEF QueryInv, Query
    <2>3. CASE op.found # NoBlock
      <3>1. query' = [state |-> "tip", tip |-> tip.level, inBranch |-> TRUE, count |-> 0]
        BY <1>2, <2>3 DEF AskBranch, NoQuery
      <3> QED
        BY <1>0, <2>1, <2>3, <3>1 DEF QueryInv, Query
    <2> QED
      BY <2>2, <2>3
  <1>3. CASE AnswerAtOrBelow
    <2>1. /\ query' = [query EXCEPT !.state = "answered", !.inBranch = TRUE]
          /\ UNCHANGED <<op, reorgs, top>>
      BY <1>3 DEF AnswerAtOrBelow, vars
    <2> QED
      BY <1>0, <2>1 DEF QueryInv, Query
  <1>4. CASE AnswerFromLiveBlocks
    <2>1. UNCHANGED <<op, reorgs, top>>
      BY <1>4 DEF AnswerFromLiveBlocks, vars
    <2>2. query' \in Query /\ query'.state \in {"answered", "failed"}
      <3> DEFINE yes == op.found.hash \in LiveBlocks(TipBlockLevel(query.tip))
      <3>1. \/ query' = [query EXCEPT !.state = "answered", !.inBranch = yes]
            \/ query' = [query EXCEPT !.state = "failed"]
        BY <1>4 DEF AnswerFromLiveBlocks
      <3>2. \/ query' = [query EXCEPT !.state = "answered", !.inBranch = TRUE]
            \/ query' = [query EXCEPT !.state = "answered", !.inBranch = FALSE]
            \/ query' = [query EXCEPT !.state = "failed"]
        <4> HIDE DEF yes
        <4>1. CASE yes = TRUE
          BY <3>1, <4>1
        <4>2. CASE yes = FALSE
          BY <3>1, <4>2
        <4>3. yes = TRUE \/ yes = FALSE
          <5>1. CASE op.found.hash \in LiveBlocks(TipBlockLevel(query.tip))
            <6>1. yes <=> TRUE
              BY <5>1 DEF yes
            <6> QED
              BY <6>1
          <5>2. CASE op.found.hash \notin LiveBlocks(TipBlockLevel(query.tip))
            <6>1. yes <=> FALSE
              BY <5>2 DEF yes
            <6> QED
              BY <6>1
          <5> QED
            BY <5>1, <5>2
        <4> QED
          BY <4>1, <4>2, <4>3
      <3> QED
        BY <1>0, <3>2, ZenonT(60) DEF Query
    <2>3. reorgs = 0 => query'.inBranch /\ query'.state = "answered"
      BY <1>4, NeverDenied
    <2> QED
      BY <2>1, <2>2, <2>3 DEF QueryInv
  <1>5. CASE CurrentConfirmation
    <2>1. UNCHANGED <<op, reorgs, top>>
      BY <1>5 DEF CurrentConfirmation, vars
    <2>2. PICK count : /\ query' = [state |-> "counted", tip |-> 0, inBranch |-> TRUE,
                                    count |-> count]
                       /\ count = IF op.found = NoBlock THEN 0
                                  ELSE top - op.found.level + 1
      BY <1>0, <1>5 DEF CurrentConfirmation, NoQuery
    <2>3. op.found # NoBlock => op.found.level \in 1..MaxLevel
      BY DEF WalletInv, KnownInv, Holds, Known
    <2>4. count \in (1 - MaxLevel)..MaxLevel
      BY <1>0, <2>2, <2>3
    <2> QED
      BY <1>0, <2>1, <2>2, <2>4 DEF QueryInv, Query
  <1> QED
    BY <1>1, <1>2, <1>3, <1>4, <1>5 DEF BranchNext

LEMMA BranchInvariant == BranchSpec => [](WalletInv /\ QueryInv)
  <1>1. BranchInit => WalletInv /\ QueryInv
    BY InitQuery
  <1>2. WalletInv /\ QueryInv /\ [BranchNext]_branchVars => (WalletInv /\ QueryInv)'
    BY StepWallet, StepQuery
  <1> QED
    BY <1>1, <1>2, PTL DEF BranchSpec

\* The wallet operation and the query under way keep their types: the count of
\* getCurrentConfirmation stays within the levels of the chain, negative when the
\* branch has become shorter than the including block.
THEOREM BranchTypeCorrect == BranchSpec => []BranchTypeOK
  <1>1. WalletInv /\ QueryInv => BranchTypeOK
    BY DEF WalletInv, SoundInv, Sound, QueryInv, BranchTypeOK, TypeOK
  <1> QED
    BY <1>1, BranchInvariant, PTL

\* isInCurrentBranch is right whenever the live blocks decide, for every window of
\* live blocks that MAX_BRANCH_ANCESTORS fits in, wherever the tip was read and
\* whatever the node was reorganised to since; without a reorganisation it denies no
\* inclusion and never fails.
THEOREM AnswersAreTrue == BranchSpec => BranchAnswersTruly
  <1> DEFINE Truly ==
        /\ AnswerFromLiveBlocks /\ query'.state = "answered"
             => (query'.inBranch <=> OnBranch(op.found))
        /\ reorgs' = 0 => query'.inBranch /\ query'.state # "failed"
  <1>1. WalletInv /\ QueryInv /\ QueryInv' /\ [BranchNext]_branchVars => [Truly]_branchVars
    <2> SUFFICES ASSUME WalletInv, QueryInv, QueryInv'
                 PROVE  Truly
      OBVIOUS
    <2>1. reorgs' = 0 => query'.inBranch /\ query'.state # "failed"
      BY DEF QueryInv
    <2>2. ASSUME AnswerFromLiveBlocks, query'.state = "answered"
          PROVE  query'.inBranch <=> OnBranch(op.found)
      <3>1. /\ op.found # NoBlock /\ query \in Query /\ query.tip \in Nat
            /\ query.tip > op.found.level
        BY <2>2 DEF AnswerFromLiveBlocks, QueryInv, Query
      <3>2. /\ TipBlockLevel(query.tip) <= top
            /\ query' = [query EXCEPT !.state = "answered",
                            !.inBranch = op.found.hash \in LiveBlocks(TipBlockLevel(query.tip))]
        BY <2>2, <3>1 DEF AnswerFromLiveBlocks, Query
      <3>3. query'.inBranch = (op.found.hash \in LiveBlocks(TipBlockLevel(query.tip)))
        BY <3>1, <3>2 DEF Query
      <3> QED
        BY <3>1, <3>2, <3>3, LiveBlocksAnswer
    <2> QED
      BY <2>1, <2>2
  <1> QED
    BY <1>1, BranchInvariant, PTL DEF BranchSpec, BranchAnswersTruly

\* The confirmations told fit together for every number of callers: the events of a
\* call count without a gap or a repetition through replays, reconnections and filled
\* gaps, and getCurrentConfirmation is never behind what a caller was told.
THEOREM CountsFitTogether == BranchSpec => ConfirmationsCountUp
  <1> DEFINE Up ==
        reorgs' = 0 =>
          /\ EventsContiguous'
          /\ CurrentConfirmation =>
                \A c \in Callers : op.calls[c].events # 0 =>
                    query'.count >= op.calls[c].current
  <1>1. WalletInv /\ WalletInv' /\ [BranchNext]_branchVars => [Up]_branchVars
    <2> SUFFICES ASSUME WalletInv, WalletInv', reorgs' = 0
                 PROVE  /\ EventsContiguous'
                        /\ CurrentConfirmation =>
                              \A c \in Callers : op.calls[c].events # 0 =>
                                  query'.count >= op.calls[c].current
      OBVIOUS
    <2>1. EventsContiguous'
      BY DEF WalletInv, CountInv, Counting, Tally, EventsContiguous
    <2>2. ASSUME CurrentConfirmation, NEW c \in Callers, op.calls[c].events # 0
          PROVE  query'.count >= op.calls[c].current
      <3>1. reorgs = 0
        BY <2>2 DEF CurrentConfirmation, vars
      <3>2. /\ op.found # NoBlock /\ OnBranch(op.calls[c].block)
            /\ op.calls[c].current = op.calls[c].block.level - op.found.level + 1
        BY <2>2, <3>1 DEF WalletInv, CountInv, Counting, Tally
      <3>3. /\ op.found.level \in Nat /\ top \in Nat /\ chain[top].level = top
            /\ op.calls[c].block.level \in 1..top
        <4>1. top \in 1..MaxLevel /\ Levelled /\ op.found \in Block
          BY DEF WalletInv, SoundInv, NodeTypeOK, Sound, Operation
        <4>2. top \in 1..top /\ top \in Nat
          BY <4>1, ChainAssumption
        <4> QED
          BY <3>2, <4>1, <4>2 DEF Levelled, Block, OnBranch
      <3>4. query'.count = top - op.found.level + 1
        BY <2>2, <3>2, <3>3 DEF CurrentConfirmation, NoQuery
      <3> QED
        BY <3>2, <3>3, <3>4
    <2> QED
      BY <2>1, <2>2
  <1> QED
    BY <1>1, BranchInvariant, PTL DEF BranchSpec, ConfirmationsCountUp
=============================================================================
