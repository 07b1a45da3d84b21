-------------------- MODULE WalletOperationPromise_proofs --------------------
(***************************************************************************)
(* WalletOperation implements the promise of ConfirmationPromise, for every *)
(* value of the constants, as long as the node does not reorganise.  That  *)
(* everybody has an answer in the end is left to the model checker.        *)
(***************************************************************************)
EXTENDS WalletOperationPromise, WalletOperation_proofs

\* The operation is conf blocks deep.
Deepened(conf) == InclusionLevel # 0 /\ top - InclusionLevel + 1 >= conf

\* Of the calls, some of those who waited are told that the operation is as deep as they
\* asked, and that is all that happens to them.
Told(calls, new) ==
    \A c \in Callers :
        /\ new[c].conf = calls[c].conf
        /\ \/ new[c].state = calls[c].state
           \/ /\ calls[c].state = "waiting" /\ new[c].state = "done"
              /\ Deepened(calls[c].conf)

\* Call c is made, for n confirmations: it waits or is settled at once, and nobody else
\* notices.
Asked(calls, new, c, n) ==
    /\ calls[c].state = "idle"
    /\ new[c].conf = n
    /\ new[c].state \in {"waiting", "done", "failed"}
    /\ new[c].state # "failed" => n >= 1
    /\ new[c].state = "done" => Deepened(n)
    /\ \A d \in Callers \ {c} : /\ new[d].state = calls[d].state
                                /\ new[d].conf = calls[d].conf

\* Everybody who waits is told that the stream is broken.
Dropped(calls, new) ==
    \A c \in Callers :
        /\ new[c].conf = calls[c].conf
        /\ new[c].state = IF calls[c].state = "waiting" THEN "failed" ELSE calls[c].state

\* A branch includes the operation once.
Once == \A l, m \in 1..top : chain[l].op /\ chain[m].op => l = m

\* A call that was not made asks for nothing.
Unasked == \A c \in Callers : op.calls[c].state = "idle" => op.calls[c].conf = 0

PromiseInv == Once /\ (reorgs = 0 => Unasked)
-----------------------------------------------------------------------------
(* What the operators of the cascade do to the calls *)

\* A block of the branch that includes the operation is the one at the level of the promise.
LEMMA InclusionIsFound ==
    ASSUME NodeTypeOK, Once, NEW b \in Block, OnBranch(b), b.op
    PROVE  InclusionLevel = b.level /\ InclusionLevel # 0 /\ InclusionLevel \in 1..top
  <1>1. b.level \in 1..top /\ chain[b.level].op
    BY DEF OnBranch
  <1>2. InclusionLevel = CHOOSE l \in 1..top : chain[l].op
    BY <1>1 DEF InclusionLevel
  <1>3. InclusionLevel \in 1..top /\ chain[InclusionLevel].op
    BY <1>1, <1>2
  <1> QED
    BY <1>1, <1>3, ChainAssumption DEF Once, NodeTypeOK

\* Two steps of the cascade are one.
LEMMA ToldTwice ==
    ASSUME NEW a, NEW b, NEW d, Told(a, b), Told(b, d)
    PROVE  Told(a, d)
  BY DEF Told

\* A call that is handed a head of the branch resolves when the operation is deep enough.
LEMMA NotifyTells ==
    ASSUME NodeTypeOK, Once, NEW call \in Call, NEW head \in Block, NEW found \in Block,
           OnBranch(head), OnBranch(found), found.op
    PROVE  LET new == Notify(call, head, found)
           IN  /\ new.conf = call.conf
               /\ \/ new.state = call.state
                  \/ /\ call.state = "waiting" /\ new.state = "done"
                     /\ Deepened(call.conf)
  <1> DEFINE new == Notify(call, head, found)
  <1>1. InclusionLevel = found.level /\ InclusionLevel # 0 /\ InclusionLevel \in 1..top
    BY InclusionIsFound
  <1>2. head.level \in Nat /\ found.level \in Nat /\ head.level <= top /\ top \in Nat
        /\ call.conf \in Nat
    BY ChainAssumption DEF NodeTypeOK, OnBranch, Block, Call
  <1>3. /\ new.conf = call.conf
        /\ call.state # "waiting" => new = call
        /\ call.state = "waiting" => new.state \in {"waiting", "done"}
        /\ new.state = "done" /\ call.state # "done" => Deep(head, found, new.conf)
    BY NotifyEffect
  <1> HIDE DEF new
  <1>4. Deep(head, found, call.conf) => Deepened(call.conf)
    BY <1>1, <1>2 DEF Deep, Deepened
  <1> QED
    BY <1>3, <1>4 DEF new

\* So it is for everybody who is handed the head.
LEMMA NotifyTold ==
    ASSUME NodeTypeOK, Once, NEW calls \in [Callers -> Call], NEW head \in Block,
           NEW found \in Block, OnBranch(head), OnBranch(found), found.op
    PROVE  Told(calls, [c \in Callers |-> Notify(calls[c], head, found)])
  BY NotifyTells DEF Told

\* A block that newHead$ emits: the calls get the head before it when it is the inclusion,
\* and then the block itself.
LEMMA EmitTold ==
    ASSUME NodeTypeOK, Once, NEW o, Sound(o), Straight(o), NEW b \in Block, OnBranch(b)
    PROVE  Told(o.calls, Emit(o, b).calls)
  <1>0. /\ o \in Operation /\ o.lastHead \in Block /\ o.found \in Block
        /\ o.calls \in [Callers -> Call]
    BY DEF Sound, Operation
  <1> DEFINE i == Include(o, b)
             scanned == [i EXCEPT !.lastHead = b,
                                  !.from = IF o.lastHead = NoBlock THEN b.level ELSE @]
  <1>1. /\ Sound(i) /\ i \in Operation
        /\ i.found = IF o.watching /\ b.op THEN b ELSE o.found
    BY IncludeSound DEF Sound
  <1>2. Told(o.calls, i.calls)
    <2> DEFINE included == [o EXCEPT !.found = b, !.watching = FALSE]
    <2>1. included.calls = o.calls /\ included.found = b
      BY <1>0 DEF Operation
    <2>2. CASE ~(o.watching /\ b.op) \/ o.lastHead = NoBlock
      <3>1. i = o \/ i = included
        BY <2>2 DEF Include
      <3>2. i.calls = o.calls
        BY <2>1, <3>1
      <3> QED
        BY <3>2 DEF Told
    <2>3. CASE o.watching /\ b.op /\ o.lastHead # NoBlock
      <3>1. i = NotifyAll(included, o.lastHead)
        BY <2>3 DEF Include
      <3>2. i.calls = [c \in Callers |-> Notify(o.calls[c], o.lastHead, b)]
        <4>1. included \in Operation
          BY <1>0 DEF Operation
        <4> HIDE DEF included
        <4> QED
          BY <2>1, <3>1, <4>1 DEF NotifyAll, Operation
      <3>3. OnBranch(o.lastHead)
        BY <2>3 DEF Straight, Branch
      <3> QED
        BY <1>0, <2>3, <3>2, <3>3, NotifyTold
    <2> QED
      BY <2>2, <2>3
  <1>3. /\ scanned.calls = i.calls /\ scanned.found = i.found /\ scanned \in Operation
        /\ i.calls \in [Callers -> Call]
    BY <1>0, <1>1 DEF Operation, Block
  <1>4. Emit(o, b) = IF scanned.found = NoBlock THEN scanned ELSE NotifyAll(scanned, b)
    BY DEF Emit
  <1> HIDE DEF i, scanned
  <1>5. CASE scanned.found = NoBlock
    BY <1>2, <1>3, <1>4, <1>5
  <1>6. CASE scanned.found # NoBlock
    <2>1. OnBranch(i.found) /\ i.found.op /\ i.found \in Block
      BY <1>0, <1>1, <1>3, <1>6 DEF Sound, Straight, Branch
    <2>2. Emit(o, b).calls = [c \in Callers |-> Notify(i.calls[c], b, i.found)]
      BY <1>3, <1>4, <1>6 DEF NotifyAll, Operation
    <2>3. Told(i.calls, Emit(o, b).calls)
      BY <1>3, <2>1, <2>2, NotifyTold
    <2> QED
      BY <1>2, <2>3, ToldTwice
  <1> QED
    BY <1>5, <1>6

\* A head of the stream is emitted or opens a gap.
LEMMA ReceiveTold ==
    ASSUME NodeTypeOK, Once, NEW o, Sound(o), Straight(o), NEW head \in Block,
           OnBranch(head)
    PROVE  Told(o.calls, Receive(o, head).calls)
  <1> DEFINE prevHead == IF o.lastHead = NoBlock THEN head.level - 1 ELSE o.lastHead.level
             reset == [o EXCEPT !.fill = 0, !.target = NoBlock]
             filling == [o EXCEPT !.fill = prevHead + 1, !.target = head]
  <1>1. /\ reset \in Operation /\ reset.calls = o.calls /\ filling.calls = o.calls
        /\ reset.source = o.source /\ reset.replay = o.replay
        /\ reset.lastHead = o.lastHead /\ reset.found = o.found
        /\ reset.watching = o.watching /\ reset.from = o.from
        /\ reset.target = NoBlock /\ reset.fill = 0
    BY NoBlockType DEF Sound, Operation
  <1>2. Receive(o, head) = Emit(reset, head) \/ Receive(o, head) = filling
    BY DEF Receive
  <1> HIDE DEF reset, filling, prevHead
  <1>3. Sound(reset) /\ Straight(reset)
    BY <1>1 DEF Sound, Straight, Scanned, Branch
  <1>4. Told(reset.calls, Emit(reset, head).calls)
    BY <1>3, EmitTold
  <1> QED
    BY <1>1, <1>2, <1>4 DEF Told

\* The replay of the head stream hands over a head at once.
LEMMA ConnectHeadsTold ==
    ASSUME NodeTypeOK, Once, NEW o, Sound(o), Straight(o), o.source \in {"idle", "past"}
    PROVE  Told(o.calls, ConnectHeads(o).calls)
  <1> DEFINE live == [o EXCEPT !.source = "heads"]
  <1>1. Sound(live) /\ live.calls = o.calls /\ o.replay \in Block
    BY SourceSound DEF Sound, Operation
  <1>2. Straight(live)
    BY SourceStraight
  <1>3. o.replay # NoBlock => OnBranch(o.replay)
    BY DEF Straight, Branch
  <1>4. ConnectHeads(o) = IF o.replay = NoBlock THEN live ELSE Receive(live, o.replay)
    BY DEF ConnectHeads
  <1> HIDE DEF live
  <1>5. CASE o.replay = NoBlock
    BY <1>1, <1>4, <1>5 DEF Told
  <1>6. CASE o.replay # NoBlock
    BY <1>1, <1>2, <1>3, <1>4, <1>6, ReceiveTold
  <1> QED
    BY <1>5, <1>6

\* A connection resolves only what the replay lets it.
LEMMA ConnectTold ==
    ASSUME NodeTypeOK, Once, NEW o, Sound(o), Straight(o)
    PROVE  Told(o.calls, Connect(o).calls)
  <1>1. CASE o.source # "idle"
    BY <1>1 DEF Connect, Told
  <1>2. CASE o.source = "idle" /\ StartLevel # 0
    <2>1. Connect(o).calls = o.calls
      BY <1>2 DEF Connect, Sound, Operation
    <2> QED
      BY <2>1 DEF Told
  <1>3. CASE o.source = "idle" /\ StartLevel = 0
    BY <1>3, ConnectHeadsTold DEF Connect
  <1> QED
    BY <1>1, <1>2, <1>3

\* Leaving the streams tells nobody anything.
LEMMA SettleCalls ==
    ASSUME NEW o, Sound(o)
    PROVE  Settle(o).calls = o.calls
  BY DEF Settle, Sound, Operation

\* An error of the source reaches everybody who waits, and nobody else.
LEMMA BrokenCalls ==
    ASSUME NEW o, Sound(o)
    PROVE  Dropped(o.calls, Broken(o).calls)
  <1> DEFINE calls == [c \in Callers |->
                         IF o.calls[c].state = "waiting"
                         THEN [o.calls[c] EXCEPT !.state = "failed"] ELSE o.calls[c]]
  <1>1. o \in Operation /\ o.calls \in [Callers -> Call]
    BY DEF Sound, Operation
  <1>2. Broken(o).calls = calls
    BY <1>1 DEF Broken, Operation
  <1>3. \A c \in Callers : /\ calls[c].conf = o.calls[c].conf
                           /\ calls[c].state = IF o.calls[c].state = "waiting"
                                               THEN "failed" ELSE o.calls[c].state
    BY <1>1 DEF Call
  <1> HIDE DEF calls
  <1> QED
    BY <1>2, <1>3 DEF Dropped

\* A call that is made waits, or resolves on the head and the inclusion that the replays
\* hold; the stream it connects may hand it another head.
LEMMA ConfirmationAsked ==
    ASSUME SoundInv, ScanInv, WiredInv, Once, reorgs = 0,
           NEW c \in Callers, NEW n \in 1..MaxConf, Confirmation(c, n)
    PROVE  Asked(op.calls, op'.calls, c, n)
  <1>0. /\ Sound(op) /\ op \in Operation /\ NodeTypeOK /\ Straight(op) /\ Wired(op)
        /\ op.calls \in [Callers -> Call] /\ op.calls[c] \in Call /\ n \in Nat /\ n >= 1
        /\ op.found \in Block /\ op.lastHead \in Block
    BY DEF SoundInv, ScanInv, WiredInv, Sound, Operation
  <1> DEFINE call == [op.calls[c] EXCEPT !.state = "waiting", !.conf = n]
             asked == Asking(c, n)
             answered == IF op.found = NoBlock \/ op.lastHead = NoBlock THEN call
                         ELSE Notify(call, op.lastHead, op.found)
             replayed == IF op.found = NoBlock \/ op.lastHead = NoBlock THEN asked
                         ELSE [asked EXCEPT
                                 !.calls[c] = Notify(@, op.lastHead, op.found)]
             calls == [op.calls EXCEPT ![c] = answered]
  <1>1. /\ op.source # "new" /\ op.calls[c].state = "idle"
        /\ op' = IF op.source = "failed" THEN Broken(replayed) ELSE Settle(Connect(replayed))
    BY DEF Confirmation, Become
  <1>2. call \in Call /\ call.state = "waiting" /\ call.conf = n
    BY <1>0 DEF Call
  <1>3. replayed = [op EXCEPT !.calls = calls]
    <2>1. asked = [op EXCEPT !.calls = [op.calls EXCEPT ![c] = call]]
      BY <1>0 DEF Asking, Operation
    <2> HIDE DEF call
    <2> QED
      BY <1>0, <2>1, ZenonT(60) DEF Operation
  <1>4. /\ answered \in Call /\ answered.conf = n
        /\ answered.state \in {"waiting", "done"}
        /\ answered.state = "done" => Deepened(n)
    <2> HIDE DEF call
    <2>1. CASE op.found = NoBlock \/ op.lastHead = NoBlock
      BY <1>2, <2>1
    <2>2. CASE ~(op.found = NoBlock \/ op.lastHead = NoBlock)
      <3>1. OnBranch(op.found) /\ OnBranch(op.lastHead) /\ op.found.op
        BY <1>0, <2>2 DEF Straight, Branch, Sound
      <3> QED
        BY <1>0, <1>2, <2>2, <3>1, NotifyTells, NotifyEffect, ZenonT(60) DEF SoundInv
    <2> QED
      BY <2>1, <2>2
  <1>5. answered.state = "done" => op.found # NoBlock /\ Resolved(answered, op.found)
    <2> HIDE DEF call
    <2> QED
      BY <1>0, <1>2, NotifyEffect DEF Resolved
  <1> HIDE DEF answered, replayed
  <1>6. /\ replayed.calls = calls /\ replayed.source = op.source
        /\ Sound(replayed) /\ Straight(replayed)
    <2>1. calls \in [Callers -> Call] /\ \A d \in Callers : Resolved(calls[d], op.found)
      BY <1>0, <1>4, <1>5 DEF Sound, Resolved
    <2> HIDE DEF calls
    <2> QED
      BY <1>0, <1>3, <2>1 DEF Sound, Operation, Straight, Scanned, Branch
  <1>7. Asked(op.calls, calls, c, n)
    BY <1>0, <1>1, <1>4 DEF Asked
  <1>8. op.source \in {"idle", "failed"} => \A d \in Callers : op.calls[d].state # "waiting"
    BY <1>0 DEF Wired, Listening
  <1>9. calls[c].state \in {"waiting", "done"}
    BY <1>0, <1>4
  <1> HIDE DEF calls
  <1>10. CASE op.source = "failed"
    <2>1. Dropped(calls, op'.calls)
      BY <1>1, <1>6, <1>10, BrokenCalls
    <2> QED
      BY <1>7, <1>8, <1>9, <1>10, <2>1 DEF Asked, Dropped
  <1>11. CASE op.source \in {"past", "heads"}
    <2>1. op'.calls = calls
      BY <1>1, <1>6, <1>11, SettleCalls DEF Connect
    <2> QED
      BY <1>7, <2>1
  <1>12. CASE op.source = "idle"
    <2>1. Told(calls, Connect(replayed).calls)
      BY <1>0, <1>6, ConnectTold
    <2>2. op'.calls = Connect(replayed).calls
      BY <1>1, <1>6, <1>12, ConnectSound, SettleCalls
    <2>3. \A d \in Callers \ {c} : calls[d].state # "waiting"
      BY <1>7, <1>8, <1>12 DEF Asked
    <2> QED
      BY <1>7, <2>1, <2>2, <2>3 DEF Asked, Told
  <1> QED
    BY <1>0, <1>1, <1>10, <1>11, <1>12 DEF Operation
-----------------------------------------------------------------------------
(* Every action moves the calls as the promise does *)

\* The answer of the poller resolves calls, or nothing.
LEMMA DeliveredTold ==
    ASSUME SoundInv, ScanInv, Once, reorgs = 0, PollDelivered
    PROVE  Told(op.calls, op'.calls)
  <1> DEFINE head == poller.block
             followed == [op EXCEPT !.replay = head]
  <1>0. /\ Sound(op) /\ op \in Operation /\ head \in Block /\ NodeTypeOK
        /\ Straight(op) /\ Fresh(poller) /\ OnBranch(head)
    BY DEF SoundInv, ScanInv, Sound, Poller, Fresh, PollDelivered
  <1>1. /\ followed.calls = op.calls /\ followed.source = op.source
        /\ followed \in Operation /\ followed.replay = head
        /\ followed.watching = op.watching /\ followed.lastHead = op.lastHead
        /\ followed.target = op.target /\ followed.found = op.found
        /\ followed.from = op.from /\ followed.fill = op.fill
    BY <1>0 DEF Operation
  <1>2. Sound(followed) /\ Straight(followed)
    BY <1>0, <1>1 DEF Sound, Straight, Scanned, Branch
  <1>3. \/ op.source = "heads" /\ op' = Settle(Receive(followed, head))
        \/ op' = op
    BY DEF PollDelivered, Become
  <1> HIDE DEF followed
  <1>4. CASE op' = op
    BY <1>4 DEF Told
  <1>5. CASE op.source = "heads" /\ op' = Settle(Receive(followed, head))
    <2>1. Sound(Receive(followed, head))
      BY <1>0, <1>1, <1>2, <1>5, ReceiveSound
    <2>2. op'.calls = Receive(followed, head).calls
      BY <1>5, <2>1, SettleCalls
    <2> QED
      BY <1>0, <1>1, <1>2, <2>2, ReceiveTold
  <1> QED
    BY <1>3, <1>4, <1>5

\* The block the operation starts from comes first, then the head that the head stream
\* replays.
LEMMA PastTold ==
    ASSUME SoundInv, PastInv, ScanInv, Once, reorgs = 0, PastServed, [Next]_vars
    PROVE  Told(op.calls, op'.calls)
  <1> DEFINE started == Receive(op, past')
             n == IF Listening(started) THEN ConnectHeads(started) ELSE started
  <1>0. /\ Sound(op) /\ Straight(op) /\ NodeTypeOK /\ Levelled /\ op.source = "past"
        /\ op' = Settle(n)
    BY DEF SoundInv, ScanInv, PastServed, Become
  <1>1. past' \in Block /\ OnBranch(past')
    <2>1. past' # NoBlock \/ (past' = chain[StartLevel] /\ StartLevel \in 1..top)
      BY <1>0, OperationAssumption, ChainAssumption DEF PastServed, Sound, NodeTypeOK
    <2>2. \A l \in 1..top : OnBranch(chain[l])
      BY <1>0, ChainAssumption DEF NodeTypeOK, Levelled, OnBranch
    <2>3. \/ past = NoBlock /\ past' = chain[StartLevel] /\ StartLevel \in 1..top
          \/ past # NoBlock /\ past' = past
      BY <1>0, OperationAssumption, ChainAssumption DEF PastServed, Sound, NodeTypeOK
    <2> QED
      BY <2>2, <2>3, StepPast DEF PastInv, Branch
  <1>2. /\ Sound(started) /\ Straight(started) /\ started.source = "past"
        /\ Told(op.calls, started.calls)
    BY <1>0, <1>1, ReceiveSound, ReceiveStraight, ReceiveTold
  <1> HIDE DEF started
  <1>3. Sound(n) /\ Told(started.calls, n.calls)
    BY <1>0, <1>2, ConnectHeadsSound, ConnectHeadsTold DEF Told
  <1> HIDE DEF n
  <1> QED
    BY <1>0, <1>2, <1>3, ToldTwice, SettleCalls

\* A block of the gap, and after the last one the head that opened it.
LEMMA GapTold ==
    ASSUME SoundInv, ScanInv, Once, reorgs = 0, GapServed
    PROVE  Told(op.calls, op'.calls)
  <1>0. /\ Sound(op) /\ op \in Operation /\ NodeTypeOK /\ Levelled /\ op.target \in Block
        /\ Straight(op) /\ Filling(op) /\ op.fill \in 1..top /\ op.fill # 0
    BY DEF SoundInv, ScanInv, Sound, Operation, GapServed
  <1>1. PICK b \in Block : /\ b = chain[op.fill] /\ OnBranch(b)
                           /\ op.lastHead = NoBlock \/ b.level <= op.lastHead.level + 1
                           /\ op.source \in {"past", "heads"}
                           /\ OnBranch(op.target)
    BY <1>0, ChainAssumption DEF NodeTypeOK, Levelled, OnBranch, Filling
  <1>2. PICK fetched : /\ fetched = Emit(op, b) /\ Sound(fetched) /\ Straight(fetched)
                       /\ Told(op.calls, fetched.calls) /\ fetched.target = op.target
    BY <1>0, <1>1, EmitSound, EmitStraight, EmitTold DEF Near
  <1> DEFINE next == [fetched EXCEPT !.fill = @ + 1]
             ended == [fetched EXCEPT !.fill = 0, !.target = NoBlock]
  <1>3. \/ op' = Settle(fetched)
        \/ op' = next
        \/ op' = Settle(Emit(ended, op.target))
    BY <1>1, <1>2 DEF GapServed, Become
  <1>4. next.calls = fetched.calls
    BY <1>2 DEF Sound, Operation
  <1>5. /\ ended \in Operation /\ ended.source = fetched.source
        /\ ended.lastHead = fetched.lastHead /\ ended.target = NoBlock
        /\ ended.replay = fetched.replay /\ ended.found = fetched.found
        /\ ended.watching = fetched.watching /\ ended.from = fetched.from
        /\ ended.calls = fetched.calls /\ ended.fill = 0
    BY <1>2, NoBlockType DEF Sound, Operation
  <1>6. Sound(ended) /\ Straight(ended)
    BY <1>2, <1>5 DEF Sound, Straight, Scanned, Branch
  <1> HIDE DEF next, ended
  <1>7. /\ Sound(Emit(ended, op.target))
        /\ Told(fetched.calls, Emit(ended, op.target).calls)
    BY <1>0, <1>1, <1>5, <1>6, EmitSound, EmitTold
  <1> QED
    BY <1>2, <1>3, <1>4, <1>7, ToldTwice, SettleCalls

\* Whatever happens behind confirmation(), the callers see one of three things.
LEMMA StepCalls ==
    ASSUME SoundInv, PastInv, ScanInv, WiredInv, PromiseInv, Next, ~NodeStep, reorgs = 0
    PROVE  /\ UNCHANGED nodeVars
           /\ \/ Told(op.calls, op'.calls)
              \/ Dropped(op.calls, op'.calls)
              \/ \E c \in Callers, n \in 0..MaxConf : Asked(op.calls, op'.calls, c, n)
  <1>0. /\ Sound(op) /\ op \in Operation /\ NodeTypeOK /\ Straight(op) /\ Once /\ Unasked
        /\ op.calls \in [Callers -> Call]
    BY DEF SoundInv, ScanInv, PromiseInv, Sound, Operation
  <1>1. UNCHANGED nodeVars
    BY DEF Next, PollerNext, OperationNext, CreateOperation, nodeVars,
           OtherOperation, PollTick, PollServed, PollDelivered, PollFails,
           TimeoutExpires, PastServed, PastFails, GapServed, GapFails,
           Confirmation, ConfirmationInvalid
  <1>2. CASE CreateOperation
    <2> DEFINE created == [op EXCEPT !.source = "idle", !.watching = TRUE]
    <2>1. op' = Connect(created) /\ op.source = "new"
      BY <1>2 DEF CreateOperation, Become
    <2>2. /\ created \in Operation /\ created.source = "idle" /\ created.watching
          /\ created.replay = op.replay /\ created.lastHead = op.lastHead
          /\ created.target = op.target /\ created.found = op.found
          /\ created.from = op.from /\ created.fill = op.fill /\ created.calls = op.calls
      BY <1>0 DEF Operation
    <2>3. Sound(created) /\ Straight(created)
      BY <1>0, <2>1, <2>2 DEF Sound, Straight, Scanned, Branch
    <2> HIDE DEF created
    <2> QED
      BY <1>0, <1>1, <2>1, <2>2, <2>3, ConnectTold
  <1>3. CASE op' = op
    BY <1>1, <1>3 DEF Told
  <1>4. CASE PollDelivered \/ PastServed \/ GapServed
    BY <1>0, <1>1, <1>4, DeliveredTold, PastTold, GapTold
  <1>5. CASE PollFails \/ TimeoutExpires \/ PastFails \/ GapFails
    <2>1. op' = op \/ op' = Broken(op)
      BY <1>5 DEF PollFails, TimeoutExpires, PastFails, GapFails, Become
    <2> QED
      BY <1>0, <1>1, <1>3, <2>1, BrokenCalls
  <1>6. ASSUME NEW c \in Callers, NEW n \in 1..MaxConf, Confirmation(c, n)
        PROVE  \E d \in Callers, m \in 0..MaxConf : Asked(op.calls, op'.calls, d, m)
    <2>1. n \in 0..MaxConf
      BY OperationAssumption
    <2> QED
      BY <1>0, <1>6, <2>1, ConfirmationAsked
  <1>7. ASSUME NEW c \in Callers, ConfirmationInvalid(c)
        PROVE  \E d \in Callers, m \in 0..MaxConf : Asked(op.calls, op'.calls, d, m)
    <2>1. op.calls[c].state = "idle" /\ op.calls[c].conf = 0
      BY <1>0, <1>7 DEF ConfirmationInvalid, Unasked
    <2>2. op' = [op EXCEPT !.calls = [op.calls EXCEPT ![c] = [@ EXCEPT !.state = "failed"]]]
      BY <1>7 DEF ConfirmationInvalid
    <2>3. op'.calls = [op.calls EXCEPT ![c] = [@ EXCEPT !.state = "failed"]]
      BY <1>0, <2>2 DEF Operation
    <2>4. Asked(op.calls, op'.calls, c, 0)
      BY <1>0, <2>1, <2>3 DEF Asked, Call
    <2>5. 0 \in 0..MaxConf
      BY OperationAssumption
    <2> QED
      BY <2>4, <2>5
  <1>8. OtherOperation \/ PollTick \/ PollServed => op' = op
    BY DEF OtherOperation, PollTick, PollServed
  <1> QED
    BY <1>1, <1>2, <1>3, <1>4, <1>5, <1>6, <1>7, <1>8 DEF Next, PollerNext, OperationNext

\* A branch that grows includes the operation once; a call that was not made asks for
\* nothing.
LEMMA InitPromise == Init => PromiseInv
  <1> SUFFICES ASSUME Init
               PROVE  PromiseInv
    OBVIOUS
  <1>1. Once
    BY DEF Init, NodeInit, Once
  <1>2. Unasked
    BY DEF Init, NotCreated, Unasked
  <1> QED
    BY <1>1, <1>2 DEF PromiseInv

\* The branch and the calls stay like that.
LEMMA StepPromise ==
    SoundInv /\ PastInv /\ ScanInv /\ WiredInv /\ PromiseInv /\ [Next]_vars => PromiseInv'
  <1> SUFFICES ASSUME SoundInv, PastInv, ScanInv, WiredInv, PromiseInv, [Next]_vars
               PROVE  PromiseInv'
    OBVIOUS
  <1>1. CASE NodeStep
    <2>1. PICK l \in Nat, b \in BOOLEAN : NewHead(l, b) /\ l \in 1..(top + 1)
      BY <1>1, ChainAssumption DEF NodeStep, NodeNext, Bake, Reorg, SoundInv, NodeTypeOK
    <2>2. \A m \in 1..top' : m <= top' /\ m \in 1..MaxLevel /\ (m < l => m \in 1..top)
      BY <2>1, ChainAssumption DEF NewHead, SoundInv, NodeTypeOK
    <2>3. \A m \in 1..top' : chain'[m].op = IF m < l THEN chain[m].op ELSE b
      BY <2>1, <2>2 DEF NewHead
    <2>4. b => \A m \in 1..(l - 1) : ~chain[m].op
      BY <2>1 DEF NewHead
    <2>5. Once'
      BY <2>1, <2>2, <2>3, <2>4 DEF Once, PromiseInv, NewHead
    <2>6. op' = op /\ (reorgs' = 0 => reorgs = 0)
      BY <1>1 DEF NodeStep, NodeNext, Bake, Reorg, SoundInv, NodeTypeOK
    <2> QED
      BY <2>5, <2>6 DEF PromiseInv, Unasked
  <1>2. CASE UNCHANGED vars
    BY <1>2 DEF vars, PromiseInv, Once, Unasked
  <1>3. CASE Next /\ ~NodeStep
    <2>1. UNCHANGED nodeVars
      BY <1>3 DEF Next, PollerNext, OperationNext, CreateOperation, nodeVars,
             OtherOperation, PollTick, PollServed, PollDelivered, PollFails,
             TimeoutExpires, PastServed, PastFails, GapServed, GapFails,
             Confirmation, ConfirmationInvalid
    <2>2. Once'
      BY <2>1 DEF nodeVars, Once, PromiseInv
    <2>3. ASSUME reorgs = 0
          PROVE  Unasked'
      <3>1. \/ Told(op.calls, op'.calls)
            \/ Dropped(op.calls, op'.calls)
            \/ \E c \in Callers, n \in 0..MaxConf : Asked(op.calls, op'.calls, c, n)
        BY <1>3, <2>3, StepCalls
      <3> QED
        BY <2>3, <3>1 DEF PromiseInv, Unasked, Told, Dropped, Asked
    <2> QED
      BY <2>1, <2>2, <2>3 DEF PromiseInv, nodeVars
  <1> QED
    BY <1>1, <1>2, <1>3
-----------------------------------------------------------------------------
(* The refinement *)

\* What the abstract state says of each call.
Promised == [c \in Callers |-> [state |-> op.calls[c].state, conf |-> op.calls[c].conf]]

\* The first state of the operation is the first one of the promise.
LEMMA PromiseStarts == Init => Promise!Init
  <1> SUFFICES ASSUME Init
               PROVE  Promise!Init
    OBVIOUS
  <1>1. InclusionLevel = 0
    <2>1. \A l \in 1..top : l \in 1..MaxLevel /\ l = 1
      BY ChainAssumption DEF Init, NodeInit
    <2>2. \A l \in 1..top : ~chain[l].op
      BY <2>1 DEF Init, NodeInit
    <2> QED
      BY <2>2 DEF InclusionLevel
  <1>2. Promised = [c \in Callers |-> [state |-> "idle", conf |-> 0]]
    BY DEF Init, NotCreated, Promised
  <1> QED
    BY <1>1, <1>2 DEF Init, NodeInit, Promise!Init, Promise!Pending, Promised

\* A block on top keeps the level of the inclusion, or is the inclusion.
LEMMA PromiseGrows ==
    ASSUME SoundInv, PromiseInv, NodeStep, reorgs' = 0
    PROVE  Promise!Grow
  <1>1. PICK b \in BOOLEAN : NewHead(top + 1, b)
    BY ChainAssumption DEF NodeStep, NodeNext, Bake, Reorg, SoundInv, NodeTypeOK
  <1>2. /\ top \in Nat /\ top' = top + 1 /\ op' = op
        /\ \A l \in 1..top' : chain'[l].op = IF l <= top THEN chain[l].op ELSE b
        /\ b => \A l \in 1..top : ~chain[l].op
    BY <1>1, ChainAssumption DEF NodeStep, NewHead, SoundInv, NodeTypeOK
  <1>3. /\ \A l \in 1..top : chain[l].op => InclusionLevel = l
        /\ (\A l \in 1..top : ~chain[l].op) => InclusionLevel = 0
    BY DEF InclusionLevel, Once, PromiseInv
  <1>4. Once'
    <2>1. \A l \in 1..top' : l <= top \/ l = top + 1
      BY <1>2
    <2> QED
      BY <1>2, <2>1 DEF Once, PromiseInv
  <1>5. /\ \A l \in 1..top' : chain'[l].op => InclusionLevel' = l
        /\ (\A l \in 1..top' : ~chain'[l].op) => InclusionLevel' = 0
    BY <1>4 DEF InclusionLevel, Once
  <1>6. InclusionLevel' \in IF InclusionLevel = 0 THEN {0, top + 1} ELSE {InclusionLevel}
    <2>1. CASE \E l \in 1..top : chain[l].op
      <3>1. PICK l \in 1..top : chain[l].op
        BY <2>1
      <3>2. l \in 1..top' /\ l # 0
        BY <1>2, <3>1
      <3> QED
        BY <1>2, <1>3, <1>5, <3>1, <3>2
    <2>2. CASE b
      <3>1. /\ top + 1 \in 1..top' /\ ~(top + 1 <= top)
        BY <1>2
      <3>2. chain'[top + 1].op
        BY <1>2, <2>2, <3>1
      <3> QED
        BY <1>2, <1>3, <1>5, <2>2, <3>1, <3>2
    <2>3. CASE ~b /\ \A l \in 1..top : ~chain[l].op
      <3>1. \A l \in 1..top' : ~chain'[l].op
        BY <1>2, <2>3
      <3> QED
        BY <1>3, <1>5, <2>3, <3>1
    <2> QED
      BY <2>1, <2>2, <2>3
  <1> QED
    BY <1>2, <1>6 DEF Promise!Grow

\* Every step is one of the promise, or leaves it as it is.
LEMMA PromiseKept ==
    ASSUME SoundInv, PastInv, ScanInv, WiredInv, PromiseInv, [Next]_vars, reorgs = 0, reorgs' = 0
    PROVE  [Promise!Next]_Promise!vars
  <1>1. CASE NodeStep
    BY <1>1, PromiseGrows DEF Promise!Next
  <1>2. CASE UNCHANGED vars
    <2>1. InclusionLevel' = InclusionLevel
      BY <1>2 DEF vars, InclusionLevel
    <2> QED
      BY <1>2, <2>1 DEF vars, Promise!vars
  <1>3. CASE Next /\ ~NodeStep
    <2>1. /\ UNCHANGED nodeVars
          /\ \/ Told(op.calls, op'.calls)
             \/ Dropped(op.calls, op'.calls)
             \/ \E c \in Callers, n \in 0..MaxConf : Asked(op.calls, op'.calls, c, n)
      BY <1>3, StepCalls
    <2>2. top' = top /\ InclusionLevel' = InclusionLevel
      BY <2>1 DEF nodeVars, InclusionLevel
    <2>3. CASE Told(op.calls, op'.calls)
      <3>1. PICK S \in SUBSET Callers :
               S = {c \in Callers : /\ op.calls[c].state = "waiting"
                                    /\ op'.calls[c].state = "done"}
        OBVIOUS
      <3>2. Promised' = [c \in Callers |->
               IF c \in S THEN [Promised[c] EXCEPT !.state = "done"] ELSE Promised[c]]
        BY <2>3, <3>1 DEF Told, Promised
      <3>3. \A c \in S : /\ Promised[c].state = "waiting"
                         /\ Promise!Deep(Promised[c].conf)
        BY <2>3, <3>1 DEF Told, Promised, Deepened, Promise!Deep
      <3>4. Promise!Resolve(S)
        BY <2>2, <3>2, <3>3 DEF Promise!Resolve, Promised
      <3> QED
        BY <3>4 DEF Promise!Next
    <2>4. CASE Dropped(op.calls, op'.calls)
      <3>1. Promised' = [c \in Callers |->
               IF Promised[c].state = "waiting" THEN [Promised[c] EXCEPT !.state = "failed"]
               ELSE Promised[c]]
        BY <2>4 DEF Dropped, Promised
      <3>2. Promise!Break
        BY <2>2, <3>1 DEF Promise!Break, Promised
      <3> QED
        BY <3>2 DEF Promise!Next
    <2>5. ASSUME NEW c \in Callers, NEW n \in 0..MaxConf, Asked(op.calls, op'.calls, c, n)
          PROVE  Promise!Next
      <3> DEFINE s == op'.calls[c].state
      <3>1. Promised' = [Promised EXCEPT ![c] = [state |-> s, conf |-> n]]
        BY <2>5 DEF Asked, Promised
      <3>2. /\ s \in {"waiting", "done", "failed"}
            /\ s # "failed" => n >= 1
            /\ s = "done" => Promise!Deep(n)
            /\ Promised[c].state = "idle"
        BY <2>5 DEF Asked, Deepened, Promise!Deep, Promised
      <3> HIDE DEF s
      <3>3. Promise!Ask(c, n)
        BY <2>2, <3>1, <3>2 DEF Promise!Ask, Promised
      <3> QED
        BY <3>3 DEF Promise!Next
    <2> QED
      BY <2>1, <2>3, <2>4, <2>5
  <1> QED
    BY <1>1, <1>2, <1>3

\* confirmation() keeps its promise on a chain that is not reorganised: through shared
\* polls, dropped answers, replays, reconnections, gaps and failures, a call resolves only
\* when the operation is as deep as it asked, an answer is final, and an error of the
\* stream leaves nobody waiting.
THEOREM ImplementsPromise == Spec /\ [](reorgs = 0) => Promise!Spec
  <1>1. /\ SoundInv /\ PastInv /\ ScanInv /\ WiredInv /\ PromiseInv /\ [Next]_vars
        /\ reorgs = 0 /\ (reorgs = 0)'
        => [Promise!Next]_Promise!vars
    BY PromiseKept
  <1> QED
    BY InitSound, StepSound, InitPast, StepPastBranch, InitScan, StepScan,
       InitWired, StepWired, InitPromise, StepPromise, PromiseStarts, <1>1, PTL
    DEF Spec, Promise!Spec
=============================================================================
