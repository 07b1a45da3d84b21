----------------------- MODULE ContractOperation_proofs -----------------------
(***************************************************************************)
(* Proofs about ContractOperation for every number of calls and every      *)
(* bound on the chain, its reorganisations and the confirmations asked for.*)
(***************************************************************************)
EXTENDS ContractOperation, TLAPS

\* A call that has resolved did so on a head that is deep enough above the block of
\* _foundAt, from which its result is computed.
Answered(call, found) ==
    call.state = "done" =>
        /\ found # NoBlock
        /\ call.result = found.level + (call.conf - 1)
        /\ DeepEnough(call.block, found, call.conf)

\* A call that waits is told when the operation is found, one that follows knows
\* where it was found.
Registered(call, tracking, found) ==
    /\ call.state = "waiting" => tracking
    /\ call.state = "following" => found # NoBlock

\* _foundAt is written once, by the block that ends confirmed$.
Sound(o) ==
    /\ o \in Operation
    /\ o.tracking => o.found = NoBlock
    /\ o.found # NoBlock => o.found.op
    /\ \A c \in Callers : /\ Answered(o.calls[c], o.found)
                          /\ Registered(o.calls[c], o.tracking, o.found)

\* The blocks of the branch carry their level.
Levelled == \A l \in 1..top : chain[l].level = l

SoundInv == NodeTypeOK /\ Levelled /\ poller \in Poller /\ Sound(op)
-----------------------------------------------------------------------------
(* The operators of the cascade keep the operation sound *)

LEMMA NoBlockType == NoBlock \in Block /\ ~NoBlock.op
  BY DEF NoBlock, Block

LEMMA ResolvedSound ==
    ASSUME NEW call \in Call, NEW head \in Block, NEW found \in Block,
           found # NoBlock, DeepEnough(head, found, call.conf)
    PROVE  LET new == Resolved(call, head, found)
           IN  /\ new \in Call /\ new.state = "done"
               /\ Answered(new, found)
  <1>1. found.level + (call.conf - 1) \in Int
    BY DEF Call, Block
  <1> QED
    BY <1>1 DEF Resolved, Answered, Call, DeepEnough

\* A head ends the calls that follow currentHead$ and are deep enough with it.
LEMMA DeepenSound ==
    ASSUME NEW call \in Call, NEW head \in Block, NEW found \in Block,
           NEW tracking, Answered(call, found), Registered(call, tracking, found)
    PROVE  LET new == Deepen(call, head, found)
           IN  /\ new \in Call
               /\ Answered(new, found) /\ Registered(new, tracking, found)
               /\ found = NoBlock => new = call
  <1>1. CASE call.state = "following" /\ DeepEnough(head, found, call.conf)
    <2>1. found # NoBlock
      BY <1>1 DEF Registered
    <2> QED
      BY <1>1, <2>1, ResolvedSound DEF Deepen, Registered
  <1>2. CASE ~(call.state = "following" /\ DeepEnough(head, found, call.conf))
    BY <1>2 DEF Deepen
  <1> QED
    BY <1>1, <1>2

\* Nobody waits any more once the operation is found.
LEMMA FollowSound ==
    ASSUME NEW call \in Call, NEW heads \in SUBSET Block, NEW found \in Block,
           found # NoBlock, Answered(call, found)
    PROVE  LET new == Follow(call, heads, found)
           IN  /\ new \in Call
               /\ Answered(new, found) /\ new.state # "waiting"
  <1> DEFINE deep == {h \in heads : DeepEnough(h, found, call.conf)}
  <1>1. CASE call.state # "waiting"
    BY <1>1 DEF Follow
  <1>2. CASE call.state = "waiting" /\ deep = {}
    BY <1>2 DEF Follow, Call, Answered
  <1>3. CASE call.state = "waiting" /\ deep # {}
    <2>1. PICK h : h = (CHOOSE x \in deep : TRUE)
      OBVIOUS
    <2>2. h \in deep
      BY <1>3, <2>1
    <2>3. Follow(call, heads, found) = Resolved(call, h, found)
      BY <1>3, <2>1 DEF Follow
    <2> QED
      BY <2>2, <2>3, ResolvedSound
  <1> QED
    BY <1>1, <1>2, <1>3

\* What a head changes, whether or not it includes the operation.
LEMMA EmitSound ==
    ASSUME NEW o, Sound(o), NEW b \in Block
    PROVE  LET n == Emit(o, b)
           IN  /\ Sound(n)
               /\ n.source = o.source /\ n.lastHead = b
               /\ n.fill = o.fill /\ n.target = o.target
               /\ n.from = IF o.from = 0 THEN b.level ELSE o.from
               /\ (n.tracking <=> o.tracking /\ ~b.op)
               /\ n.found = IF o.tracking /\ b.op THEN b ELSE o.found
               /\ n.tracking => n.calls = o.calls
  <1> DEFINE from == IF o.from = 0 THEN b.level ELSE o.from
             heads == o.heads \union {b}
             seen == [o EXCEPT !.lastHead = b, !.heads = heads, !.from = from]
  <1>0. /\ o \in Operation /\ o.calls \in [Callers -> Call] /\ o.found \in Block
        /\ o.tracking \in BOOLEAN /\ b.op \in BOOLEAN
    BY DEF Sound, Operation, Block
  <1>1. heads \in SUBSET Block /\ from \in Nat
    BY <1>0 DEF Operation, Block
  <1>2. /\ seen \in Operation /\ seen.source = o.source /\ seen.lastHead = b
        /\ seen.fill = o.fill /\ seen.target = o.target /\ seen.from = from
        /\ seen.tracking = o.tracking /\ seen.found = o.found /\ seen.calls = o.calls
        /\ seen.heads = heads
    BY <1>0, <1>1 DEF Operation
  <1>3. seen = [o EXCEPT !.lastHead = b, !.heads = @ \union {b},
                         !.from = IF @ = 0 THEN b.level ELSE @]
    BY <1>0 DEF Operation
  <1>4. Emit(o, b) = IF o.tracking /\ b.op THEN Include(seen, b)
                     ELSE [seen EXCEPT !.calls =
                             [c \in Callers |-> Deepen(o.calls[c], b, o.found)]]
    BY <1>2, <1>3 DEF Emit
  <1> HIDE DEF seen
  <1>5. CASE o.tracking /\ b.op
    <2> DEFINE calls == [c \in Callers |-> Follow(seen.calls[c], seen.heads, b)]
               n == [seen EXCEPT !.found = b, !.tracking = FALSE, !.calls = calls]
    <2>1. b # NoBlock
      BY <1>5, NoBlockType
    <2>2. ASSUME NEW c \in Callers
          PROVE  /\ calls[c] \in Call
                 /\ Answered(calls[c], b) /\ Registered(calls[c], FALSE, b)
      <3>1. seen.calls[c] \in Call /\ Answered(seen.calls[c], b)
        BY <1>0, <1>2, <1>5 DEF Sound, Answered
      <3> QED
        BY <1>1, <1>2, <2>1, <3>1, FollowSound DEF Registered
    <2>3. calls \in [Callers -> Call]
      BY <2>2
    <2> HIDE DEF calls
    <2>4. /\ n \in Operation /\ n.source = seen.source /\ n.lastHead = b
          /\ n.fill = seen.fill /\ n.target = seen.target /\ n.from = seen.from
          /\ n.tracking = FALSE /\ n.found = b /\ n.calls = calls
      BY <1>2, <2>3 DEF Operation
    <2>5. Emit(o, b) = n
      BY <1>4, <1>5 DEF Include, calls
    <2> HIDE DEF n
    <2>6. Sound(n)
      BY <1>5, <2>2, <2>4 DEF Sound
    <2> QED
      BY <1>2, <1>5, <2>4, <2>5, <2>6
  <1>6. CASE ~(o.tracking /\ b.op)
    <2> DEFINE calls == [c \in Callers |-> Deepen(o.calls[c], b, o.found)]
               n == [seen EXCEPT !.calls = calls]
    <2>1. ASSUME NEW c \in Callers
          PROVE  /\ calls[c] \in Call
                 /\ Answered(calls[c], o.found)
                 /\ Registered(calls[c], o.tracking, o.found)
                 /\ o.found = NoBlock => calls[c] = o.calls[c]
      BY <1>0, DeepenSound DEF Sound
    <2>2. calls \in [Callers -> Call] /\ (o.tracking => calls = o.calls)
      BY <1>0, <2>1 DEF Sound
    <2> HIDE DEF calls
    <2>3. /\ n \in Operation /\ n.source = seen.source /\ n.lastHead = b
          /\ n.fill = seen.fill /\ n.target = seen.target /\ n.from = seen.from
          /\ n.tracking = o.tracking /\ n.found = o.found /\ n.calls = calls
      BY <1>2, <2>2 DEF Operation
    <2>4. Emit(o, b) = n
      BY <1>4, <1>6 DEF calls
    <2> HIDE DEF n
    <2>5. Sound(n)
      BY <2>1, <2>3 DEF Sound
    <2> QED
      BY <1>0, <1>2, <1>6, <2>2, <2>3, <2>4, <2>5
  <1> QED
    BY <1>5, <1>6

LEMMA ResetSound ==
    ASSUME NEW o, Sound(o), NEW fill \in Nat, NEW target \in Block
    PROVE  LET n == [o EXCEPT !.fill = fill, !.target = target]
           IN  /\ Sound(n)
               /\ n.source = o.source /\ n.lastHead = o.lastHead /\ n.from = o.from
               /\ n.fill = fill /\ n.target = target /\ n.calls = o.calls
               /\ n.tracking = o.tracking /\ n.found = o.found
  BY DEF Sound, Operation

\* A head either is emitted or opens a gap right above the last one.
LEMMA ReceiveEffect ==
    ASSUME NEW o, Sound(o), NEW head \in Block
    PROVE  LET n == Receive(o, head)
               reset == [o EXCEPT !.fill = 0, !.target = NoBlock]
           IN  \/ /\ o.lastHead = NoBlock \/ head.level <= o.lastHead.level + 1
                  /\ n = Emit(reset, head)
               \/ /\ o.lastHead # NoBlock /\ o.lastHead.level + 1 \in Nat
                  /\ n = [o EXCEPT !.fill = o.lastHead.level + 1, !.target = head]
  <1>1. o.lastHead \in Block /\ o.lastHead.level \in Nat /\ head.level \in Nat
    BY DEF Sound, Operation, Block
  <1> DEFINE prevHead == IF o.lastHead = NoBlock THEN head.level - 1 ELSE o.lastHead.level
             reset == [o EXCEPT !.fill = 0, !.target = NoBlock]
             opened == [o EXCEPT !.fill = prevHead + 1, !.target = head]
  <1>2. Receive(o, head) = IF prevHead + 1 >= head.level THEN Emit(reset, head) ELSE opened
    BY DEF Receive
  <1>3. CASE prevHead + 1 >= head.level
    <2>1. o.lastHead = NoBlock \/ head.level <= o.lastHead.level + 1
      BY <1>1, <1>3
    <2> HIDE DEF prevHead, reset, opened
    <2> QED
      BY <1>2, <1>3, <2>1 DEF reset
  <1>4. CASE ~(prevHead + 1 >= head.level)
    <2>1. o.lastHead # NoBlock /\ prevHead = o.lastHead.level
      BY <1>1, <1>4
    <2> HIDE DEF prevHead
    <2> QED
      BY <1>1, <1>2, <1>4, <2>1
  <1> QED
    BY <1>3, <1>4

LEMMA ReceiveSound ==
    ASSUME NEW o, Sound(o), NEW head \in Block
    PROVE  LET n == Receive(o, head)
           IN  /\ Sound(n) /\ n.source = o.source
               /\ n.tracking => o.tracking /\ n.calls = o.calls
  <1> DEFINE reset == [o EXCEPT !.fill = 0, !.target = NoBlock]
             opened == [o EXCEPT !.fill = o.lastHead.level + 1, !.target = head]
  <1>1. /\ Sound(reset) /\ reset.source = o.source /\ reset.calls = o.calls
        /\ reset.tracking = o.tracking
    BY NoBlockType DEF Sound, Operation
  <1>2. ASSUME o.lastHead.level + 1 \in Nat
        PROVE  /\ Sound(opened) /\ opened.source = o.source /\ opened.calls = o.calls
               /\ opened.tracking = o.tracking
    BY <1>2 DEF Sound, Operation
  <1>3. \/ Receive(o, head) = Emit(reset, head)
        \/ o.lastHead.level + 1 \in Nat /\ Receive(o, head) = opened
    BY ReceiveEffect
  <1> HIDE DEF reset, opened
  <1>4. CASE Receive(o, head) = Emit(reset, head)
    <2>1. PICK n : /\ n = Emit(reset, head) /\ Sound(n) /\ n.source = reset.source
                   /\ (n.tracking <=> reset.tracking /\ ~head.op)
                   /\ n.tracking => n.calls = reset.calls
      BY <1>1, EmitSound
    <2> QED
      BY <1>1, <1>4, <2>1
  <1>5. CASE o.lastHead.level + 1 \in Nat /\ Receive(o, head) = opened
    BY <1>2, <1>5
  <1> QED
    BY <1>3, <1>4, <1>5

LEMMA BrokenSound ==
    ASSUME NEW o, Sound(o)
    PROVE  LET n == Broken(o)
           IN  /\ Sound(n) /\ n.source = "idle" /\ n.fill = 0 /\ n.target = NoBlock
               /\ n.lastHead = o.lastHead /\ n.from = o.from /\ n.found = o.found
               /\ \A c \in Callers : n.calls[c].state \notin {"waiting", "following"}
  <1> DEFINE calls == [c \in Callers |->
                         IF o.calls[c].state \in {"waiting", "following"}
                         THEN [o.calls[c] EXCEPT !.state = "failed"] ELSE o.calls[c]]
             n == [o EXCEPT !.source = "idle", !.heads = {}, !.fill = 0,
                            !.target = NoBlock, !.tracking = FALSE, !.calls = calls]
  <1>1. o \in Operation /\ o.calls \in [Callers -> Call]
    BY DEF Sound, Operation
  <1>2. ASSUME NEW c \in Callers
        PROVE  /\ calls[c] \in Call /\ Answered(calls[c], o.found)
               /\ calls[c].state \notin {"waiting", "following"}
    BY <1>1 DEF Sound, Answered, Call
  <1>3. calls \in [Callers -> Call]
    BY <1>2
  <1>4. n = Broken(o)
    BY <1>1 DEF Broken, Disconnected, Operation
  <1> HIDE DEF calls
  <1>5. /\ n \in Operation /\ n.source = "idle" /\ n.fill = 0 /\ n.target = NoBlock
        /\ n.lastHead = o.lastHead /\ n.from = o.from /\ n.found = o.found
        /\ n.tracking = FALSE /\ n.calls = calls
    BY <1>1, <1>3, NoBlockType DEF Operation
  <1> HIDE DEF n
  <1>6. Sound(n)
    BY <1>2, <1>5 DEF Sound, Registered
  <1> QED
    BY <1>2, <1>4, <1>5, <1>6

LEMMA DisconnectedSound ==
    ASSUME NEW o, Sound(o)
    PROVE  LET n == Disconnected(o)
           IN  /\ Sound(n) /\ n.source = "idle" /\ n.fill = 0 /\ n.target = NoBlock
               /\ n.lastHead = o.lastHead /\ n.from = o.from /\ n.found = o.found
               /\ n.tracking = o.tracking /\ n.calls = o.calls
  BY NoBlockType DEF Sound, Operation, Disconnected

LEMMA SettleSound ==
    ASSUME NEW o, Sound(o)
    PROVE  Sound(Settle(o))
  BY DisconnectedSound DEF Settle

LEMMA SharedType ==
    ASSUME NEW p \in Poller, NEW following \in BOOLEAN
    PROVE  Shared(p, following) \in Poller
  BY NoBlockType DEF Shared, Poller
-----------------------------------------------------------------------------
(* What each action makes of the operation *)

\* Somebody is waiting or following.
Attended(o) == \E c \in Callers : o.calls[c].state \in {"waiting", "following"}

\* Within an action the last subscriber may have left before Settle notices.
Connected(o) ==
    /\ Attended(o) => o.source = "heads"
    /\ o.tracking /\ o.source = "heads" => Attended(o)
    /\ o.fill # 0 => o.source = "heads"

\* Between two actions the stream is subscribed exactly for those who are pending.
Wired(o) ==
    /\ o.source = "heads" <=> Attended(o)
    /\ o.fill # 0 => o.source = "heads"

PollerWired ==
    poller.state # "off" <=> ~poller.dead /\ (poller.others \/ op.source = "heads")

WiredInv == Wired(op) /\ PollerWired

LEMMA SettleWired ==
    ASSUME NEW o, Sound(o), Connected(o)
    PROVE  Wired(Settle(o))
  <1>1. CASE Listening(o)
    <2>1. o.source = "heads" => Attended(o)
      BY <1>1 DEF Listening, Attended, Connected
    <2> QED
      BY <1>1, <2>1 DEF Settle, Wired, Connected
  <1>2. CASE ~Listening(o)
    <2>1. ~Attended(o)
      BY <1>2 DEF Listening, Attended, Sound, Registered
    <2> QED
      BY <1>2, <2>1, DisconnectedSound DEF Settle, Wired, Attended
  <1> QED
    BY <1>1, <1>2

LEMMA BrokenWired ==
    ASSUME NEW o, Sound(o)
    PROVE  Wired(Broken(o))
  BY BrokenSound DEF Wired, Attended

\* A stream that is subscribed stays connected for what a head or a gap makes of it.
LEMMA StaysConnected ==
    ASSUME NEW o, Wired(o), o.source = "heads", NEW n, n.source = "heads",
           n.tracking => n.calls = o.calls
    PROVE  Connected(n)
  BY DEF Wired, Connected, Attended

LEMMA ReceiveConnected ==
    ASSUME NEW o, Sound(o), Wired(o), o.source = "heads", NEW head \in Block
    PROVE  Sound(Receive(o, head)) /\ Connected(Receive(o, head))
  <1>1. PICK n : /\ n = Receive(o, head) /\ Sound(n) /\ n.source = o.source
                 /\ n.tracking => o.tracking /\ n.calls = o.calls
    BY ReceiveSound
  <1> QED
    BY <1>1, StaysConnected

\* A block of the gap is emitted; nobody listens any more, the next level is asked
\* for, or the head that opened the gap ends it.
LEMMA GapServedEffect ==
    ASSUME Sound(op), Wired(op), NodeTypeOK, GapServed
    PROVE  /\ op.fill \in 1..top /\ op.source = "heads"
           /\ \E fetched, o :
                /\ fetched = Emit(op, chain[op.fill]) /\ Sound(fetched)
                /\ Sound(o) /\ Connected(o) /\ Become(Settle(o), poller)
                /\ \/ o = fetched /\ ~Listening(o)
                   \/ o = [fetched EXCEPT !.fill = op.fill + 1, !.target = op.target]
                   \/ /\ op.fill + 1 >= op.target.level
                      /\ o = Emit([fetched EXCEPT !.fill = 0, !.target = NoBlock], op.target)
  <1>1. /\ op.fill \in 1..top /\ op.fill \in Nat /\ op.target \in Block
        /\ op.source = "heads" /\ chain[op.fill] \in Block
    BY ChainAssumption DEF GapServed, Wired, NodeTypeOK, Sound, Operation
  <1>2. PICK fetched : /\ fetched = Emit(op, chain[op.fill]) /\ Sound(fetched)
                       /\ fetched.source = op.source /\ fetched.fill = op.fill
                       /\ fetched.target = op.target
                       /\ (fetched.tracking => op.tracking /\ fetched.calls = op.calls)
    BY <1>1, EmitSound
  <1> DEFINE next == [fetched EXCEPT !.fill = op.fill + 1, !.target = op.target]
             ended == [fetched EXCEPT !.fill = 0, !.target = NoBlock]
  <1>3. /\ Sound(next) /\ next.source = op.source /\ next.tracking = fetched.tracking
        /\ next.calls = fetched.calls
    <2>1. PICK fill \in Nat : fill = op.fill + 1
      BY <1>1
    <2>2. next = [fetched EXCEPT !.fill = fill, !.target = op.target]
      BY <2>1
    <2> HIDE DEF next
    <2> QED
      BY <1>1, <1>2, <2>2 DEF Sound, Operation
  <1>4. /\ Sound(ended) /\ ended.source = op.source /\ ended.tracking = fetched.tracking
        /\ ended.calls = fetched.calls
    BY <1>2, NoBlockType DEF Sound, Operation
  <1>5. next = [fetched EXCEPT !.fill = @ + 1]
    BY <1>2 DEF Sound, Operation
  <1>6. Connected(fetched) /\ Connected(next)
    BY <1>1, <1>2, <1>3, StaysConnected
  <1>7. Listening(fetched) => Settle(next) = next
    <2> HIDE DEF next
    <2> QED
      BY <1>3 DEF Listening, Settle
  <1>8. \/ ~Listening(fetched) /\ Become(Settle(fetched), poller)
        \/ Listening(fetched) /\ Become(next, poller)
        \/ /\ ~(op.fill + 1 < op.target.level)
           /\ Become(Settle(Emit(ended, op.target)), poller)
    BY <1>2, <1>5 DEF GapServed
  <1> HIDE DEF next, ended
  <1>9. PICK n : /\ n = Emit(ended, op.target) /\ Sound(n) /\ Connected(n)
    <2>1. PICK n : /\ n = Emit(ended, op.target) /\ Sound(n) /\ n.source = ended.source
                   /\ (n.tracking => ended.tracking /\ n.calls = ended.calls)
      BY <1>1, <1>4, EmitSound
    <2> QED
      BY <1>1, <1>2, <1>4, <2>1, StaysConnected
  <1>10. ~(op.fill + 1 < op.target.level) => op.fill + 1 >= op.target.level
    BY <1>1 DEF Block
  <1>11. CASE ~Listening(fetched) /\ Become(Settle(fetched), poller)
    BY <1>1, <1>2, <1>6, <1>11
  <1>12. CASE Listening(fetched) /\ Become(next, poller)
    BY <1>1, <1>2, <1>3, <1>6, <1>7, <1>12 DEF next
  <1>13. CASE /\ ~(op.fill + 1 < op.target.level)
              /\ Become(Settle(Emit(ended, op.target)), poller)
    BY <1>1, <1>2, <1>9, <1>10, <1>13 DEF ended
  <1> QED
    BY <1>8, <1>11, <1>12, <1>13

\* A call of confirmation() restarts the stream, and confirmed$ unless it has its
\* result already; then the call follows at once.
LEMMA ConfirmationEffect ==
    ASSUME Sound(op), Wired(op), NEW c \in Callers, NEW n \in 1..MaxConf, Confirmation(c, n)
    PROVE  \E o : /\ Sound(o) /\ Connected(o)
                  /\ Become(Settle(o), Shared(poller, FALSE))
                  /\ o.fill = 0 /\ o.target = NoBlock /\ o.lastHead = op.lastHead
                  /\ o.from = op.from /\ o.found = op.found
                  /\ (o.found = NoBlock => o.tracking)
  <1> DEFINE call == [op.calls[c] EXCEPT !.state = "waiting", !.conf = n]
             calls == [op.calls EXCEPT ![c] = call]
             tracking == (op.found = NoBlock)
             started == [op EXCEPT !.calls = calls, !.source = "heads", !.fill = 0,
                                   !.target = NoBlock, !.tracking = tracking]
             followed == Follow(call, started.heads, op.found)
             joined == [started EXCEPT !.calls = [calls EXCEPT ![c] = followed]]
  <1>0. /\ op \in Operation /\ op.calls \in [Callers -> Call] /\ op.calls[c] \in Call
        /\ op.found \in Block /\ op.heads \in SUBSET Block /\ n \in Nat
    BY DEF Sound, Operation
  <1>1. /\ call \in Call /\ call.state = "waiting"
        /\ calls \in [Callers -> Call] /\ calls[c] = call
        /\ \A d \in Callers : d # c => calls[d] = op.calls[d]
    BY <1>0 DEF Call
  <1>2. /\ Become(IF op.found = NoBlock THEN started ELSE Settle(joined),
                  Shared(poller, FALSE))
    <2>1. started = Restarted([op EXCEPT !.calls[c].state = "waiting", !.calls[c].conf = n])
      BY <1>0, ZenonT(60) DEF Restarted, Operation, Call
    <2>2. started.calls = calls
      BY <1>0, <1>1 DEF Operation
    <2>3. joined = [started EXCEPT !.calls[c] = Follow(@, started.heads, op.found)]
      BY <1>0, <1>1, <2>2 DEF Operation
    <2> HIDE DEF started, joined
    <2> QED
      BY <2>1, <2>3 DEF Confirmation
  <1> HIDE DEF call, calls
  <1>3. /\ started \in Operation /\ started.source = "heads" /\ started.fill = 0
        /\ started.target = NoBlock /\ started.lastHead = op.lastHead
        /\ started.from = op.from /\ started.found = op.found
        /\ started.tracking = tracking /\ started.calls = calls /\ started.heads = op.heads
    BY <1>0, <1>1, NoBlockType DEF Operation
  <1> HIDE DEF started
  <1>4. CASE op.found = NoBlock
    <2>1. \A d \in Callers : /\ Answered(calls[d], op.found)
                             /\ Registered(calls[d], TRUE, op.found)
      BY <1>1 DEF Sound, Answered, Registered
    <2>2. tracking = TRUE
      BY <1>4
    <2>3. Sound(started)
      BY <1>3, <1>4, <2>1, <2>2 DEF Sound
    <2>4. Connected(started) /\ Settle(started) = started
      BY <1>1, <1>3, <2>2 DEF Connected, Attended, Settle, Listening
    <2> QED
      BY <1>2, <1>3, <1>4, <2>2, <2>3, <2>4
  <1>5. CASE op.found # NoBlock
    <2>1. /\ followed \in Call /\ Answered(followed, op.found) /\ followed.state # "waiting"
      BY <1>0, <1>1, <1>3, <1>5, FollowSound DEF Answered
    <2> HIDE DEF followed
    <2> DEFINE later == [calls EXCEPT ![c] = followed]
    <2>2. /\ later \in [Callers -> Call]
          /\ \A d \in Callers : /\ Answered(later[d], op.found)
                                 /\ Registered(later[d], FALSE, op.found)
      BY <1>1, <1>5, <2>1 DEF Sound, Answered, Registered
    <2> HIDE DEF later
    <2>3. tracking = FALSE
      BY <1>5
    <2>4. /\ joined \in Operation /\ joined.source = "heads" /\ joined.fill = 0
          /\ joined.target = NoBlock /\ joined.lastHead = op.lastHead
          /\ joined.from = op.from /\ joined.found = op.found
          /\ joined.tracking = FALSE /\ joined.calls = later
      BY <1>3, <2>2, <2>3 DEF Operation, later
    <2> HIDE DEF joined
    <2>5. Sound(joined) /\ Connected(joined)
      BY <1>5, <2>2, <2>4 DEF Sound, Connected
    <2> QED
      BY <1>2, <1>5, <2>4, <2>5
  <1> QED
    BY <1>4, <1>5
-----------------------------------------------------------------------------
(* Every action keeps the invariant *)

LEMMA InitSound == Init => SoundInv /\ WiredInv
  <1> SUFFICES ASSUME Init
               PROVE  SoundInv /\ WiredInv
    OBVIOUS
  <1>1. NodeTypeOK /\ Levelled
    BY ChainAssumption DEF Init, NodeInit, NodeTypeOK, Levelled, NoBlock, Block
  <1>2. poller \in Poller /\ PollerWired
    BY NoBlockType DEF Init, PollerInit, Poller, PollerWired
  <1>3. op \in Operation
    BY NoBlockType DEF Init, Operation, Call
  <1>4. /\ op.source = "idle" /\ op.found = NoBlock /\ op.fill = 0
        /\ \A c \in Callers : op.calls[c].state = "idle"
    BY DEF Init
  <1> QED
    BY <1>1, <1>2, <1>3, <1>4
    DEF SoundInv, Sound, Answered, Registered, WiredInv, Wired, Attended

\* The node keeps its type and the levels of its blocks.
LEMMA NodeStepEffect ==
    ASSUME NodeTypeOK, Levelled, NodeNext
    PROVE  NodeTypeOK' /\ Levelled'
  <1>1. PICK l \in 1..MaxLevel, o \in BOOLEAN :
           NewHead(l, o) /\ l <= top + 1 /\ reorgs' \in {reorgs, reorgs + 1}
    BY ChainAssumption DEF NodeNext, Bake, Reorg, NewHead, NodeTypeOK
  <1>2. forged + 1 \in Nat /\ l \in Nat
    BY ChainAssumption DEF NodeTypeOK
  <1>3. [hash |-> forged + 1, level |-> l, op |-> o] \in Block
    BY <1>2 DEF Block
  <1> QED
    BY <1>1, <1>2, <1>3, NoBlockType, ChainAssumption DEF NewHead, NodeTypeOK, Levelled

\* The operation becomes o, which is sound and wired, and the poller follows.
LEMMA BecomeSound ==
    ASSUME NEW o, Sound(o), Wired(o), NEW p \in Poller, Become(o, p)
    PROVE  (Sound(op) /\ poller \in Poller)' /\ WiredInv'
  <1>1. (o.source = "heads") \in BOOLEAN
    OBVIOUS
  <1>2. Shared(p, o.source = "heads") \in Poller
    BY <1>1, SharedType
  <1>3. WiredInv'
    BY DEF Become, Shared, Poller, WiredInv, Wired, PollerWired, Attended
  <1> QED
    BY <1>2, <1>3 DEF Become

LEMMA StepSound == SoundInv /\ WiredInv /\ [Next]_vars => SoundInv' /\ WiredInv'
  <1> SUFFICES ASSUME SoundInv, WiredInv, [Next]_vars
               PROVE  SoundInv' /\ WiredInv'
    OBVIOUS
  <1>0. /\ Sound(op) /\ Wired(op) /\ op \in Operation /\ poller \in Poller
        /\ poller.block \in Block /\ NodeTypeOK /\ Levelled
    BY DEF SoundInv, Sound, Poller, WiredInv
  <1>1. ASSUME UNCHANGED nodeVars, (Sound(op) /\ poller \in Poller)'
        PROVE  SoundInv'
    BY <1>0, <1>1 DEF SoundInv, nodeVars, NodeTypeOK, Levelled
  <1>2. ASSUME op' = op, poller' \in Poller, PollerWired'
        PROVE  (Sound(op) /\ poller \in Poller)' /\ WiredInv'
    BY <1>0, <1>2 DEF WiredInv, Wired, Attended
  <1>3. CASE NodeStep
    BY <1>0, <1>3, NodeStepEffect
    DEF NodeStep, SoundInv, WiredInv, Wired, Attended, PollerWired
  <1>4. CASE OtherOperation
    <2> DEFINE p == [poller EXCEPT !.others = ~@]
    <2>1. p \in Poller /\ (op.source = "heads") \in BOOLEAN
      BY <1>0 DEF Poller
    <2>2. poller' = Shared(p, op.source = "heads") /\ UNCHANGED <<nodeVars, op>>
      BY <1>4 DEF OtherOperation, OtherSubscriber
    <2> HIDE DEF p
    <2>3. Become(op, p)
      BY <2>2 DEF Become
    <2> QED
      BY <1>0, <1>1, <2>1, <2>2, <2>3, BecomeSound
  <1>5. CASE PollTick \/ PollServed
    <2>1. poller' \in Poller /\ PollerWired' /\ op' = op /\ UNCHANGED nodeVars
      BY <1>0, <1>5, NoBlockType, ChainAssumption, ZenonT(60)
      DEF PollTick, PollServed, Tick, Serve, Poller, NodeTypeOK, WiredInv, PollerWired
    <2> QED
      BY <1>1, <1>2, <2>1
  <1>6. CASE PollDelivered
    <2> DEFINE head == poller.block
               rest == [poller EXCEPT !.state = "between", !.block = NoBlock,
                                      !.seen = head.hash]
    <2>1. rest \in Poller
      BY <1>0, NoBlockType DEF Poller, Block
    <2>2. /\ \/ op.source = "heads" /\ Become(Settle(Receive(op, head)), rest)
             \/ Become(op, rest)
          /\ UNCHANGED nodeVars
      BY <1>6 DEF PollDelivered, Delivered
    <2> HIDE DEF rest
    <2> QED
      BY <1>0, <1>1, <2>1, <2>2, ReceiveConnected, SettleSound, SettleWired, BecomeSound
  <1>7. CASE PollFails
    <2> DEFINE p == [poller EXCEPT !.dead = TRUE, !.others = FALSE]
    <2>1. p \in Poller
      BY <1>0 DEF Poller
    <2>2. /\ Become(IF op.source = "heads" THEN Broken(op) ELSE op, p)
          /\ UNCHANGED nodeVars
      BY <1>7 DEF PollFails, Killed
    <2> HIDE DEF p
    <2> QED
      BY <1>0, <1>1, <2>1, <2>2, BrokenSound, BrokenWired, BecomeSound
  <1>8. CASE TimeoutExpires \/ GapFails
    <2>1. Become(Broken(op), poller) /\ UNCHANGED nodeVars
      BY <1>8 DEF TimeoutExpires, GapFails
    <2> QED
      BY <1>0, <1>1, <2>1, BrokenSound, BrokenWired, BecomeSound
  <1>9. CASE GapServed
    <2>1. PICK o : /\ Sound(o) /\ Connected(o) /\ Become(Settle(o), poller)
                   /\ UNCHANGED nodeVars
      BY <1>0, <1>9, GapServedEffect DEF GapServed
    <2> QED
      BY <1>0, <1>1, <2>1, SettleSound, SettleWired, BecomeSound
  <1>10. ASSUME NEW c \in Callers, NEW n \in 1..MaxConf, Confirmation(c, n)
         PROVE  SoundInv' /\ WiredInv'
    <2>1. PICK o : Sound(o) /\ Connected(o) /\ Become(Settle(o), Shared(poller, FALSE))
      BY <1>0, <1>10, ConfirmationEffect
    <2>2. UNCHANGED nodeVars
      BY <1>10 DEF Confirmation
    <2> QED
      BY <1>0, <1>1, <2>1, <2>2, SharedType, SettleSound, SettleWired, BecomeSound
  <1>11. ASSUME NEW c \in Callers, ConfirmationInvalid(c)
         PROVE  SoundInv' /\ WiredInv'
    <2> DEFINE call == [op.calls[c] EXCEPT !.state = "failed"]
               calls == [op.calls EXCEPT ![c] = call]
    <2>1. /\ op' = [op EXCEPT !.calls = calls] /\ UNCHANGED <<nodeVars, poller>>
          /\ op.calls[c].state = "idle"
      BY <1>0, <1>11 DEF ConfirmationInvalid, Operation
    <2>2. /\ call \in Call /\ call.state = "failed"
          /\ calls \in [Callers -> Call] /\ calls[c] = call
          /\ \A d \in Callers : d # c => calls[d] = op.calls[d]
      BY <1>0 DEF Operation, Call
    <2> HIDE DEF call, calls
    <2>3. /\ op' \in Operation /\ op'.source = op.source /\ op'.fill = op.fill
          /\ op'.tracking = op.tracking /\ op'.found = op.found /\ op'.calls = calls
      BY <1>0, <2>1, <2>2 DEF Operation
    <2>4. Sound(op)'
      BY <1>0, <2>2, <2>3 DEF Sound, Answered, Registered
    <2>5. \A d \in Callers : op'.calls[d].state \in {"waiting", "following"}
                               <=> op.calls[d].state \in {"waiting", "following"}
      BY <2>1, <2>2, <2>3
    <2>6. WiredInv'
      BY <1>0, <2>1, <2>3, <2>5 DEF WiredInv, Wired, PollerWired, Attended
    <2> QED
      BY <1>0, <1>1, <2>1, <2>4, <2>6
  <1>12. CASE UNCHANGED vars
    BY <1>0, <1>1, <1>2, <1>12 DEF vars, nodeVars, WiredInv, PollerWired
  <1> QED
    BY <1>3, <1>4, <1>5, <1>6, <1>7, <1>8, <1>9, <1>10, <1>11, <1>12
    DEF Next, PollerNext, OperationNext

\* The types of the operation, of the poller and of the node are invariant.
THEOREM TypeCorrect == Spec => []TypeOK
  <1>1. SoundInv => TypeOK
    BY DEF SoundInv, Sound, TypeOK
  <1> QED
    BY InitSound, StepSound, <1>1, PTL DEF Spec

\* confirmation(n) of the contract API resolves to a level that exists, conf - 1
\* above a block that includes the operation: on a replayed head as on a new one.
THEOREM ResolvedIsDeep == Spec => []ResultMeansDepth
  <1>1. SoundInv => ResultMeansDepth
    <2> SUFFICES ASSUME SoundInv, NEW c \in Callers, op.calls[c].state = "done",
                        OnBranch(op.found), OnBranch(op.calls[c].block)
                 PROVE  /\ op.calls[c].result <= top
                        /\ op.calls[c].result - op.found.level + 1 = op.calls[c].conf
                        /\ chain[op.found.level].op
      BY DEF ResultMeansDepth
    <2>1. /\ op.calls[c] \in Call /\ op.found \in Block
          /\ Answered(op.calls[c], op.found)
          /\ op.found # NoBlock => op.found.op
      BY DEF SoundInv, Sound, Operation
    <2>2. /\ op.calls[c].result = op.found.level + (op.calls[c].conf - 1)
          /\ op.calls[c].block.level - op.found.level >= op.calls[c].conf - 1
          /\ op.found.op
      BY <2>1 DEF Answered, DeepEnough
    <2>3. /\ op.calls[c].block.level <= top /\ op.calls[c].block.level \in Int
          /\ chain[op.found.level] = op.found
      BY DEF OnBranch
    <2>4. top \in Int /\ op.found.level \in Int /\ op.calls[c].conf \in Int
      BY <2>1 DEF SoundInv, NodeTypeOK, Block, Call
    <2> QED
      BY <2>2, <2>3, <2>4
  <1> QED
    BY InitSound, StepSound, <1>1, PTL DEF Spec

\* Whoever waits is where the next head will be looked at, and the stream is
\* subscribed for nobody else: no subscription leaks, and none is lost.
THEOREM PendingAreSubscribed == Spec => []PendingIsSubscribed
  <1>1. SoundInv /\ WiredInv => PendingIsSubscribed
    BY DEF SoundInv, Sound, Registered, WiredInv, Wired, PollerWired, Attended,
           PendingIsSubscribed
  <1> QED
    BY InitSound, StepSound, <1>1, PTL DEF Spec
-----------------------------------------------------------------------------
(* Without a reorganisation every level is looked into *)

Branch(b) == b = NoBlock \/ OnBranch(b)

\* None of the levels from the first block scanned to the last head includes the
\* operation.
Scanned(o) ==
    \A l \in 1..MaxLevel : o.from <= l /\ l <= o.lastHead.level => ~chain[l].op

\* Heads are blocks of the branch; who has not found the operation has looked
\* everywhere up to the last one and looks at the next.
Straight(o) ==
    /\ Branch(o.lastHead) /\ Branch(o.target)
    /\ o.lastHead = NoBlock => o.from = 0
    /\ o.found = NoBlock /\ o.source = "heads" => o.tracking
    /\ o.found = NoBlock => Scanned(o)

\* The gap being filled starts right above the last head.
Filling(o) ==
    o.fill # 0 => /\ o.lastHead # NoBlock /\ o.fill = o.lastHead.level + 1
                  /\ OnBranch(o.target)

\* The answer on its way back to the poller is a block of the branch.
Fresh(p) == p.state = "answered" => OnBranch(p.block)

ScanInv == reorgs = 0 => Fresh(poller) /\ Straight(op) /\ Filling(op)

\* b is no further from the last head than its successor.
Near(o, b) == o.lastHead = NoBlock \/ b.level <= o.lastHead.level + 1

LEMMA EmitStraight ==
    ASSUME NEW o, Sound(o), Straight(o), o.source = "heads",
           NEW b \in Block, OnBranch(b), Near(o, b)
    PROVE  Straight(Emit(o, b))
  <1>1. PICK n : /\ n = Emit(o, b)
                 /\ n.source = o.source /\ n.lastHead = b /\ n.target = o.target
                 /\ n.from = IF o.from = 0 THEN b.level ELSE o.from
                 /\ (n.tracking <=> o.tracking /\ ~b.op)
                 /\ n.found = IF o.tracking /\ b.op THEN b ELSE o.found
    BY EmitSound
  <1>2. Branch(n.lastHead) /\ Branch(n.target) /\ b # NoBlock
    BY <1>1 DEF Straight, Branch, OnBranch, NoBlock
  <1>3. ASSUME n.found = NoBlock
        PROVE  n.tracking /\ Scanned(n)
    <2>1. o.found = NoBlock /\ o.tracking /\ ~b.op
      BY <1>1, <1>2, <1>3 DEF Straight
    <2>2. Scanned(o) /\ chain[b.level] = b
      BY <2>1 DEF Straight, OnBranch
    <2>3. o.lastHead.level \in Nat /\ o.from \in Nat /\ b.level \in Nat
      BY DEF Sound, Operation, Block
    <2>4. ASSUME NEW l \in 1..MaxLevel, n.from <= l, l <= n.lastHead.level
          PROVE  ~chain[l].op
      <3>1. CASE l = b.level
        BY <2>1, <2>2, <3>1
      <3>2. CASE l # b.level
        <4>1. l < b.level /\ o.from # 0 /\ n.from = o.from
          BY <1>1, <2>3, <2>4, <3>2
        <4>2. o.lastHead # NoBlock
          BY <4>1 DEF Straight
        <4>3. l <= o.lastHead.level
          BY <2>3, <4>1, <4>2 DEF Near
        <4> QED
          BY <2>2, <2>4, <4>1, <4>3 DEF Scanned
      <3> QED
        BY <3>1, <3>2
    <2> QED
      BY <1>1, <2>1, <2>4 DEF Scanned
  <1> QED
    BY <1>1, <1>2, <1>3 DEF Straight

\* What keeps its heads, and its watch where it is subscribed, stays straight.
LEMMA KeepsStraight ==
    ASSUME NEW o, Straight(o), NEW n, n.lastHead = o.lastHead, n.from = o.from,
           n.found = o.found, Branch(n.target),
           n.found = NoBlock /\ n.source = "heads" => n.tracking
    PROVE  Straight(n)
  BY DEF Straight, Scanned

LEMMA ReceiveStraight ==
    ASSUME NEW o, Sound(o), Straight(o), o.source = "heads",
           NEW head \in Block, OnBranch(head)
    PROVE  Straight(Receive(o, head)) /\ Filling(Receive(o, head))
  <1> DEFINE reset == [o EXCEPT !.fill = 0, !.target = NoBlock]
             opened == [o EXCEPT !.fill = o.lastHead.level + 1, !.target = head]
  <1>1. /\ reset.source = o.source /\ reset.fill = 0 /\ reset.lastHead = o.lastHead
        /\ reset.target = NoBlock /\ reset.found = o.found
        /\ reset.tracking = o.tracking /\ reset.from = o.from /\ Sound(reset)
    BY NoBlockType DEF Sound, Operation
  <1>2. /\ opened.source = o.source /\ opened.fill = o.lastHead.level + 1
        /\ opened.lastHead = o.lastHead /\ opened.target = head
        /\ opened.found = o.found /\ opened.tracking = o.tracking
        /\ opened.from = o.from
    BY DEF Sound, Operation
  <1>3. \/ Near(o, head) /\ Receive(o, head) = Emit(reset, head)
        \/ o.lastHead # NoBlock /\ Receive(o, head) = opened
    BY ReceiveEffect DEF Near
  <1> HIDE DEF reset, opened
  <1>4. CASE Near(o, head) /\ Receive(o, head) = Emit(reset, head)
    <2>1. Straight(reset) /\ Near(reset, head)
      BY <1>1, <1>4, KeepsStraight DEF Straight, Near, Branch
    <2>2. Straight(Emit(reset, head)) /\ Emit(reset, head).fill = 0
      BY <1>1, <2>1, EmitStraight, EmitSound
    <2> QED
      BY <1>4, <2>2 DEF Filling
  <1>5. CASE o.lastHead # NoBlock /\ Receive(o, head) = opened
    <2>1. Straight(opened)
      BY <1>2, KeepsStraight DEF Straight, Branch
    <2> QED
      BY <1>2, <1>5, <2>1 DEF Filling
  <1> QED
    BY <1>3, <1>4, <1>5

LEMMA BrokenStraight ==
    ASSUME NEW o, Sound(o), Straight(o)
    PROVE  Straight(Broken(o)) /\ Filling(Broken(o))
  BY BrokenSound DEF Straight, Scanned, Filling, Branch

LEMMA SettleStraight ==
    ASSUME NEW o, Sound(o), Straight(o), Filling(o)
    PROVE  Straight(Settle(o)) /\ Filling(Settle(o))
  BY DisconnectedSound DEF Settle, Straight, Scanned, Filling, Branch

LEMMA InitScan == Init => ScanInv
  BY DEF Init, PollerInit, ScanInv, Fresh, Straight, Scanned, Filling, Branch, NoBlock

\* A block baked on top leaves the branch below it alone.
LEMMA BakeBranch ==
    ASSUME SoundInv, NodeStep, reorgs' = 0
    PROVE  /\ reorgs = 0
           /\ \A l \in 1..top : l \in 1..top' /\ chain'[l] = chain[l]
  <1>1. Bake
    BY ChainAssumption DEF NodeStep, NodeNext, Reorg, SoundInv, NodeTypeOK
  <1> QED
    BY <1>1, ChainAssumption DEF Bake, NewHead, SoundInv, NodeTypeOK

LEMMA BecomeScan ==
    ASSUME NEW o, NEW p \in Poller, Become(o, p), UNCHANGED nodeVars,
           Fresh(p), Straight(o), Filling(o)
    PROVE  ScanInv'
  <1>1. /\ op' = o
        /\ poller'.state = "answered" => p.state = "answered" /\ poller'.block = p.block
    BY DEF Become, Shared, Poller
  <1> QED
    BY <1>1 DEF ScanInv, Fresh, Straight, Scanned, Filling, Branch, OnBranch, nodeVars

LEMMA StepScan == SoundInv /\ WiredInv /\ ScanInv /\ [Next]_vars => ScanInv'
  <1> SUFFICES ASSUME SoundInv, WiredInv, ScanInv, [Next]_vars, reorgs' = 0
               PROVE  ScanInv'
    BY DEF ScanInv
  <1>0. /\ Sound(op) /\ Wired(op) /\ op \in Operation /\ poller \in Poller
        /\ poller.block \in Block /\ NodeTypeOK /\ Levelled
    BY DEF SoundInv, Sound, Poller, WiredInv
  <1>1. \A l \in 1..top : chain[l] \in Block /\ chain[l].level = l /\ OnBranch(chain[l])
    BY <1>0, ChainAssumption DEF NodeTypeOK, Levelled, OnBranch
  <1>2. CASE NodeStep
    <2>1. /\ reorgs = 0
          /\ \A l \in 1..top : l \in 1..top' /\ chain'[l] = chain[l]
      BY <1>2, BakeBranch
    <2>2. op' = op /\ poller' = poller
      BY <1>2 DEF NodeStep
    <2>3. \A b : OnBranch(b) => OnBranch(b)'
      BY <2>1 DEF OnBranch
    <2>4. Fresh(poller) /\ Straight(op) /\ Filling(op)
      BY <2>1 DEF ScanInv
    <2>5. Scanned(op) => Scanned(op)'
      <3> SUFFICES ASSUME Scanned(op), NEW l \in 1..MaxLevel,
                          op.from <= l, l <= op.lastHead.level
                   PROVE  ~chain'[l].op
        BY <2>2 DEF Scanned
      <3>1. op.lastHead.level = 0 \/ op.lastHead.level \in 1..top
        BY <2>4 DEF Straight, Branch, OnBranch, NoBlock
      <3>2. l \in 1..top
        BY <1>0, <3>1 DEF NodeTypeOK
      <3> QED
        BY <2>1, <3>2 DEF Scanned
    <2>6. Straight(op)'
      BY <2>2, <2>3, <2>4, <2>5 DEF Straight, Branch
    <2>7. Fresh(poller)' /\ Filling(op)'
      BY <2>2, <2>3, <2>4 DEF Filling, Fresh
    <2> QED
      BY <2>6, <2>7 DEF ScanInv
  <1>3. ASSUME UNCHANGED nodeVars
        PROVE  Fresh(poller) /\ Straight(op) /\ Filling(op)
    BY <1>3 DEF nodeVars, ScanInv
  <1>4. ASSUME op' = op, UNCHANGED nodeVars,
               \/ poller'.state # "answered"
               \/ poller'.block = chain[top]
               \/ poller.state = "answered" /\ poller'.block = poller.block
        PROVE  ScanInv'
    <2>1. OnBranch(chain[top])
      BY <1>0, <1>1, ChainAssumption DEF NodeTypeOK
    <2> QED
      BY <1>3, <1>4, <2>1
      DEF ScanInv, Straight, Scanned, Filling, Branch, Fresh, OnBranch, nodeVars
  <1>5. CASE OtherOperation \/ PollTick \/ PollServed
    <2>1. op' = op /\ UNCHANGED nodeVars
      BY <1>5 DEF OtherOperation, PollTick, PollServed
    <2>2. \/ poller'.state # "answered"
          \/ poller'.block = chain[top]
          \/ poller.state = "answered" /\ poller'.block = poller.block
      <3>1. CASE OtherOperation
        BY <1>0, <3>1 DEF OtherOperation, OtherSubscriber, Shared, Poller
      <3>2. CASE PollTick \/ PollServed
        BY <1>0, <3>2 DEF PollTick, PollServed, Tick, Serve, Poller
      <3> QED
        BY <1>5, <3>1, <3>2
    <2> QED
      BY <1>4, <2>1, <2>2
  <1>6. CASE PollDelivered
    <2> DEFINE head == poller.block
               rest == [poller EXCEPT !.state = "between", !.block = NoBlock,
                                      !.seen = head.hash]
    <2>1. rest \in Poller /\ Fresh(rest)
      BY <1>0, NoBlockType DEF Poller, Block, Fresh
    <2>2. /\ \/ op.source = "heads" /\ Become(Settle(Receive(op, head)), rest)
             \/ Become(op, rest)
          /\ UNCHANGED nodeVars /\ poller.state = "answered"
      BY <1>6 DEF PollDelivered, Delivered
    <2> HIDE DEF rest
    <2>3. OnBranch(head)
      BY <1>3, <2>2 DEF Fresh
    <2>4. ASSUME op.source = "heads"
          PROVE  LET n == Settle(Receive(op, head)) IN Straight(n) /\ Filling(n)
      BY <1>0, <1>3, <2>2, <2>3, <2>4, ReceiveSound, ReceiveStraight, SettleStraight
    <2> QED
      BY <1>3, <2>1, <2>2, <2>4, BecomeScan
  <1>7. CASE PollFails
    <2> DEFINE p == [poller EXCEPT !.dead = TRUE, !.others = FALSE]
    <2>1. p \in Poller /\ p.block = poller.block /\ p.state = poller.state
      BY <1>0 DEF Poller
    <2>2. /\ Become(IF op.source = "heads" THEN Broken(op) ELSE op, p)
          /\ UNCHANGED nodeVars
      BY <1>7 DEF PollFails, Killed
    <2> HIDE DEF p
    <2>3. Fresh(p)
      BY <1>3, <2>1, <2>2 DEF Fresh
    <2> QED
      BY <1>0, <1>3, <2>1, <2>2, <2>3, BrokenStraight, BecomeScan
  <1>8. CASE TimeoutExpires \/ GapFails
    <2>1. Become(Broken(op), poller) /\ UNCHANGED nodeVars
      BY <1>8 DEF TimeoutExpires, GapFails
    <2> QED
      BY <1>0, <1>3, <2>1, BrokenStraight, BecomeScan
  <1>9. CASE GapServed
    <2>1. PICK fetched, o :
             /\ op.fill \in 1..top /\ op.source = "heads"
             /\ fetched = Emit(op, chain[op.fill]) /\ Sound(fetched)
             /\ Sound(o) /\ Become(Settle(o), poller)
             /\ \/ o = fetched /\ ~Listening(o)
                \/ o = [fetched EXCEPT !.fill = op.fill + 1, !.target = op.target]
                \/ /\ op.fill + 1 >= op.target.level
                   /\ o = Emit([fetched EXCEPT !.fill = 0, !.target = NoBlock], op.target)
      BY <1>0, <1>9, GapServedEffect
    <2>2. UNCHANGED nodeVars /\ op.fill # 0 /\ op.target \in Block
      BY <1>0, <1>9, <2>1 DEF GapServed, Operation
    <2>3. PICK b \in Block : /\ b = chain[op.fill] /\ OnBranch(b) /\ b.level = op.fill
                             /\ Near(op, b)
      BY <1>1, <1>3, <2>1, <2>2 DEF Filling, Near
    <2>4. /\ Straight(fetched) /\ fetched.source = "heads" /\ fetched.lastHead = b
          /\ fetched \in Operation /\ OnBranch(op.target) /\ b # NoBlock
      BY <1>0, <1>3, <2>1, <2>2, <2>3, EmitStraight, EmitSound
      DEF Filling, Sound, OnBranch, NoBlock
    <2>5. Straight(Settle(o)) /\ Filling(Settle(o))
      <3>1. CASE o = fetched /\ ~Listening(o)
        BY <2>1, <2>4, <3>1, DisconnectedSound
        DEF Settle, Straight, Scanned, Filling, Branch
      <3>2. CASE o = [fetched EXCEPT !.fill = op.fill + 1, !.target = op.target]
        <4>1. /\ o.source = fetched.source /\ o.lastHead = b /\ o.from = fetched.from
              /\ o.found = fetched.found /\ o.tracking = fetched.tracking
              /\ o.target = op.target /\ o.fill = op.fill + 1
          BY <2>4, <3>2 DEF Operation
        <4>2. Straight(o) /\ Filling(o)
          BY <2>3, <2>4, <4>1, KeepsStraight DEF Straight, Filling, Branch
        <4> QED
          BY <2>1, <4>2, SettleStraight
      <3>3. CASE /\ op.fill + 1 >= op.target.level
                 /\ o = Emit([fetched EXCEPT !.fill = 0, !.target = NoBlock], op.target)
        <4> DEFINE ended == [fetched EXCEPT !.fill = 0, !.target = NoBlock]
        <4>1. /\ ended.source = "heads" /\ ended.fill = 0 /\ ended.lastHead = b
              /\ ended.target = NoBlock /\ ended.found = fetched.found
              /\ ended.tracking = fetched.tracking /\ ended.from = fetched.from
              /\ Sound(ended)
          BY <2>1, <2>4, NoBlockType DEF Sound, Operation
        <4> HIDE DEF ended
        <4>2. Straight(ended) /\ Near(ended, op.target)
          BY <2>3, <2>4, <3>3, <4>1, KeepsStraight DEF Straight, Branch, Near
        <4>3. o = Emit(ended, op.target)
          BY <3>3 DEF ended
        <4>4. Straight(o) /\ o.fill = 0
          BY <2>2, <2>4, <4>1, <4>2, <4>3, EmitStraight, EmitSound
        <4> QED
          BY <2>1, <4>4, SettleStraight DEF Filling
      <3> QED
        BY <2>1, <3>1, <3>2, <3>3
    <2> QED
      BY <1>0, <1>3, <2>1, <2>2, <2>5, BecomeScan
  <1>10. ASSUME NEW c \in Callers, NEW n \in 1..MaxConf, Confirmation(c, n)
         PROVE  ScanInv'
    <2>1. PICK o : /\ Sound(o) /\ Become(Settle(o), Shared(poller, FALSE))
                   /\ o.fill = 0 /\ o.target = NoBlock /\ o.lastHead = op.lastHead
                   /\ o.from = op.from /\ o.found = op.found
                   /\ (o.found = NoBlock => o.tracking)
      BY <1>0, <1>10, ConfirmationEffect
    <2>2. UNCHANGED nodeVars
      BY <1>10 DEF Confirmation
    <2>3. Straight(o) /\ Filling(o)
      BY <1>3, <2>1, <2>2, KeepsStraight DEF Branch, Filling
    <2>4. Shared(poller, FALSE) \in Poller /\ Fresh(Shared(poller, FALSE))
      BY <1>0, <1>3, <2>2, SharedType DEF Shared, Fresh, Poller
    <2> QED
      BY <2>1, <2>2, <2>3, <2>4, SettleStraight, BecomeScan
  <1>11. ASSUME NEW c \in Callers, ConfirmationInvalid(c)
         PROVE  ScanInv'
    <2>1. PICK calls : op' = [op EXCEPT !.calls = calls] /\ UNCHANGED <<nodeVars, poller>>
      BY <1>11 DEF ConfirmationInvalid
    <2> QED
      BY <1>0, <1>3, <2>1
      DEF Operation, ScanInv, Fresh, Straight, Scanned, Filling, Branch, OnBranch, nodeVars
  <1>12. CASE UNCHANGED vars
    BY <1>4, <1>12 DEF vars, nodeVars
  <1> QED
    BY <1>2, <1>5, <1>6, <1>7, <1>8, <1>9, <1>10, <1>11, <1>12
    DEF Next, PollerNext, OperationNext

\* Without a reorganisation no inclusion is missed from the first call of
\* confirmation() on, however often the stream breaks and is started again.
THEOREM EveryLevelIsScanned == Spec => []NoLevelMissed
  <1>1. SoundInv /\ ScanInv => NoLevelMissed
    BY DEF ScanInv, Straight, Scanned, NoLevelMissed
  <1> QED
    BY InitSound, StepSound, InitScan, StepScan, <1>1, PTL DEF Spec
-----------------------------------------------------------------------------
(* The refinement: the contract API keeps the promise of ConfirmationPromise *)

\* To the promise a call that follows currentHead$ still waits.
View(call) == IF call.state \in {"waiting", "following"} THEN "waiting" ELSE call.state

\* The operation is conf blocks deep.
Deepened(conf) == InclusionLevel # 0 /\ top - InclusionLevel + 1 >= conf

\* A call goes on waiting, or is told that the operation is as deep as it asked.
Tells(call, new) ==
    /\ new.conf = call.conf
    /\ \/ View(new) = View(call)
       \/ View(call) = "waiting" /\ View(new) = "done" /\ Deepened(call.conf)

Told(calls, new) == \A c \in Callers : Tells(calls[c], new[c])

\* Everybody who waits is told that the stream is broken.
Dropped(calls, new) ==
    \A c \in Callers :
        /\ new[c].conf = calls[c].conf
        /\ View(new[c]) = IF View(calls[c]) = "waiting" THEN "failed" ELSE View(calls[c])

\* Call c is made, for n confirmations: it waits or is settled at once, and nobody else
\* notices.
Asked(calls, new, c, n) ==
    /\ calls[c].state = "idle"
    /\ new[c].conf = n
    /\ View(new[c]) \in {"waiting", "done", "failed"}
    /\ View(new[c]) # "failed" => n >= 1
    /\ View(new[c]) = "done" => Deepened(n)
    /\ \A d \in Callers \ {c} : new[d] = calls[d]

\* A branch includes the operation once.
Once == \A l, m \in 1..top : chain[l].op /\ chain[m].op => l = m

\* A call that was not made asks for nothing.
Unasked == \A c \in Callers : op.calls[c].state = "idle" => op.calls[c].conf = 0

\* The heads of the shareReplay and the inclusion are on the branch.
Held(o) ==
    /\ \A h \in o.heads : OnBranch(h)
    /\ Branch(o.found)

PromiseInv == Once /\ (reorgs = 0 => Unasked /\ Held(op))

\* A block of the branch that includes the operation is at the level of the promise: a
\* head of the branch that is deep enough above it makes the operation deep enough.
LEMMA DeepEnoughIsDeepened ==
    ASSUME NodeTypeOK, Once, NEW head \in Block, OnBranch(head),
           NEW found \in Block, OnBranch(found), found.op, NEW conf \in Nat,
           DeepEnough(head, found, conf)
    PROVE  Deepened(conf)
  <1>1. found.level \in 1..top /\ chain[found.level].op /\ head.level \in 1..top
    BY DEF OnBranch
  <1>2. InclusionLevel = CHOOSE l \in 1..top : chain[l].op
    BY <1>1 DEF InclusionLevel
  <1>3. InclusionLevel \in 1..top /\ chain[InclusionLevel].op
    BY <1>1, <1>2
  <1>4. InclusionLevel = found.level
    BY <1>1, <1>3 DEF Once
  <1>5. head.level \in Nat /\ found.level \in Nat /\ top \in Nat
    BY ChainAssumption DEF NodeTypeOK, Block
  <1> QED
    BY <1>1, <1>4, <1>5 DEF DeepEnough, Deepened

\* A call resolves when the operation is as deep as it asked.
LEMMA ResolvedTells ==
    ASSUME NodeTypeOK, Once, NEW call \in Call, call.state \in {"waiting", "following"},
           NEW head \in Block, OnBranch(head),
           NEW found \in Block, OnBranch(found), found.op,
           DeepEnough(head, found, call.conf)
    PROVE  Tells(call, Resolved(call, head, found))
  <1>1. Deepened(call.conf)
    BY DeepEnoughIsDeepened DEF Call
  <1>2. /\ Resolved(call, head, found).conf = call.conf
        /\ Resolved(call, head, found).state = "done"
    BY DEF Resolved, Call
  <1> QED
    BY <1>1, <1>2 DEF Tells, View

\* A head of the branch ends the calls that are deep enough with it.
LEMMA DeepenTells ==
    ASSUME NodeTypeOK, Once, NEW call \in Call, NEW head \in Block, OnBranch(head),
           NEW found \in Block, Branch(found), found # NoBlock => found.op,
           call.state = "following" => found # NoBlock
    PROVE  Tells(call, Deepen(call, head, found))
  BY ResolvedTells DEF Deepen, Branch, Tells

\* A call that starts to follow stays with the promise, as one that a replayed head ends.
LEMMA FollowTells ==
    ASSUME NodeTypeOK, Once, NEW call \in Call, NEW heads \in SUBSET Block,
           \A h \in heads : OnBranch(h), NEW found \in Block, OnBranch(found), found.op
    PROVE  Tells(call, Follow(call, heads, found))
  <1> DEFINE deep == {h \in heads : DeepEnough(h, found, call.conf)}
  <1>1. CASE call.state # "waiting"
    BY <1>1 DEF Follow, Tells
  <1>2. CASE call.state = "waiting" /\ deep = {}
    BY <1>2 DEF Follow, Call, Tells, View
  <1>3. CASE call.state = "waiting" /\ deep # {}
    <2>1. PICK h \in deep : Follow(call, heads, found) = Resolved(call, h, found)
      BY <1>3 DEF Follow
    <2> QED
      BY <1>3, <2>1, ResolvedTells
  <1> QED
    BY <1>1, <1>2, <1>3

\* Two steps of the cascade are one.
LEMMA ToldTwice ==
    ASSUME NEW a, NEW b, NEW d, Told(a, b), Told(b, d)
    PROVE  Told(a, d)
  BY DEF Told, Tells, View

\* What currentHead$ emits.
LEMMA EmitTold ==
    ASSUME NodeTypeOK, Once, NEW o, Sound(o), Held(o), NEW b \in Block, OnBranch(b)
    PROVE  Told(o.calls, Emit(o, b).calls) /\ Held(Emit(o, b))
  <1> DEFINE from == IF o.from = 0 THEN b.level ELSE o.from
             heads == o.heads \union {b}
             seen == [o EXCEPT !.lastHead = b, !.heads = heads, !.from = from]
  <1>0. /\ o \in Operation /\ o.calls \in [Callers -> Call] /\ o.found \in Block
        /\ o.heads \in SUBSET Block
    BY DEF Sound, Operation
  <1>1. heads \in SUBSET Block /\ from \in Nat /\ \A h \in heads : OnBranch(h)
    BY <1>0 DEF Operation, Block, Held
  <1>2. /\ seen \in Operation /\ seen.found = o.found /\ seen.calls = o.calls
        /\ seen.heads = heads
    BY <1>0, <1>1 DEF Operation
  <1>3. seen = [o EXCEPT !.lastHead = b, !.heads = @ \union {b},
                         !.from = IF @ = 0 THEN b.level ELSE @]
    BY <1>0 DEF Operation
  <1>4. Emit(o, b) = IF o.tracking /\ b.op THEN Include(seen, b)
                     ELSE [seen EXCEPT !.calls =
                             [c \in Callers |-> Deepen(o.calls[c], b, o.found)]]
    BY <1>2, <1>3 DEF Emit
  <1> HIDE DEF seen, heads
  <1>5. CASE o.tracking /\ b.op
    <2> DEFINE calls == [c \in Callers |-> Follow(o.calls[c], heads, b)]
    <2>1. Emit(o, b) = [seen EXCEPT !.found = b, !.tracking = FALSE, !.calls = calls]
      BY <1>2, <1>4, <1>5 DEF Include
    <2>2. Told(o.calls, calls)
      BY <1>0, <1>1, <1>5, FollowTells DEF Told
    <2> HIDE DEF calls
    <2>3. /\ Emit(o, b).calls = calls /\ Emit(o, b).found = b
          /\ Emit(o, b).heads = heads
      BY <1>2, <2>1 DEF Operation
    <2> QED
      BY <1>1, <2>2, <2>3 DEF Held, Branch
  <1>6. CASE ~(o.tracking /\ b.op)
    <2> DEFINE calls == [c \in Callers |-> Deepen(o.calls[c], b, o.found)]
    <2>1. Emit(o, b) = [seen EXCEPT !.calls = calls]
      BY <1>4, <1>6
    <2>2. Told(o.calls, calls)
      BY <1>0, DeepenTells DEF Told, Sound, Registered, Held
    <2> HIDE DEF calls
    <2>3. /\ Emit(o, b).calls = calls /\ Emit(o, b).found = o.found
          /\ Emit(o, b).heads = heads
      BY <1>2, <2>1 DEF Operation
    <2> QED
      BY <1>1, <2>2, <2>3 DEF Held, Branch
  <1> QED
    BY <1>5, <1>6

\* A head is emitted or opens a gap.
LEMMA ReceiveTold ==
    ASSUME NodeTypeOK, Once, NEW o, Sound(o), Held(o), NEW head \in Block, OnBranch(head)
    PROVE  Told(o.calls, Receive(o, head).calls) /\ Held(Receive(o, head))
  <1> DEFINE reset == [o EXCEPT !.fill = 0, !.target = NoBlock]
             opened == [o EXCEPT !.fill = o.lastHead.level + 1, !.target = head]
  <1>1. /\ Sound(reset) /\ reset.calls = o.calls /\ reset.heads = o.heads
        /\ reset.found = o.found
        /\ opened.calls = o.calls /\ opened.heads = o.heads /\ opened.found = o.found
    BY NoBlockType DEF Sound, Operation
  <1>2. Receive(o, head) = Emit(reset, head) \/ Receive(o, head) = opened
    BY ReceiveEffect
  <1> HIDE DEF reset, opened
  <1>3. Told(reset.calls, Emit(reset, head).calls) /\ Held(Emit(reset, head))
    BY <1>1, EmitTold DEF Held
  <1> QED
    BY <1>1, <1>2, <1>3 DEF Told, Tells, Held

\* Leaving the stream tells nobody anything.
LEMMA SettleHeld ==
    ASSUME NEW o, Sound(o), Held(o)
    PROVE  Settle(o).calls = o.calls /\ Held(Settle(o))
  BY DEF Settle, Disconnected, Sound, Operation, Held

\* An error of the stream reaches everybody who waits, and nobody else.
LEMMA BrokenDropped ==
    ASSUME NEW o, Sound(o), Held(o)
    PROVE  Dropped(o.calls, Broken(o).calls) /\ Held(Broken(o))
  <1> DEFINE calls == [c \in Callers |->
                         IF o.calls[c].state \in {"waiting", "following"}
                         THEN [o.calls[c] EXCEPT !.state = "failed"] ELSE o.calls[c]]
  <1>1. o \in Operation /\ o.calls \in [Callers -> Call]
    BY DEF Sound, Operation
  <1>2. /\ Broken(o).calls = calls /\ Broken(o).heads = {}
        /\ Broken(o).found = o.found
    BY <1>1 DEF Broken, Disconnected, Operation
  <1>3. \A c \in Callers :
           /\ calls[c].conf = o.calls[c].conf
           /\ calls[c].state = IF o.calls[c].state \in {"waiting", "following"}
                               THEN "failed" ELSE o.calls[c].state
    BY <1>1 DEF Call
  <1> HIDE DEF calls
  <1> QED
    BY <1>2, <1>3 DEF Dropped, View, Held

\* A call that is made waits for confirmed$, follows currentHead$, or resolves on a head
\* that currentHead$ holds.
LEMMA ConfirmationAsked ==
    ASSUME SoundInv, PromiseInv, reorgs = 0,
           NEW c \in Callers, NEW n \in 1..MaxConf, Confirmation(c, n)
    PROVE  Asked(op.calls, op'.calls, c, n) /\ Held(op)'
  <1> DEFINE call == [op.calls[c] EXCEPT !.state = "waiting", !.conf = n]
             calls == [op.calls EXCEPT ![c] = call]
             tracking == (op.found = NoBlock)
             started == [op EXCEPT !.calls = calls, !.source = "heads", !.fill = 0,
                                   !.target = NoBlock, !.tracking = tracking]
             followed == Follow(call, op.heads, op.found)
             later == [op.calls EXCEPT ![c] = followed]
             joined == [started EXCEPT !.calls = later]
  <1>0. /\ op \in Operation /\ op.calls \in [Callers -> Call] /\ op.calls[c] \in Call
        /\ op.found \in Block /\ op.heads \in SUBSET Block /\ n \in Nat /\ n >= 1
        /\ op.calls[c].state = "idle" /\ Once /\ Held(op) /\ Sound(op) /\ NodeTypeOK
    BY DEF SoundInv, PromiseInv, Sound, Operation, Confirmation
  <1>1. /\ call \in Call /\ call.state = "waiting" /\ call.conf = n
        /\ calls \in [Callers -> Call] /\ calls[c] = call
        /\ \A d \in Callers \ {c} : calls[d] = op.calls[d]
    BY <1>0 DEF Call
  <1>2. /\ started \in Operation /\ started.calls = calls /\ started.heads = op.heads
        /\ started.found = op.found
    BY <1>0, <1>1, NoBlockType DEF Operation
  <1>3. op' = IF op.found = NoBlock THEN started ELSE Settle(joined)
    <2>1. started = Restarted([op EXCEPT !.calls[c].state = "waiting", !.calls[c].conf = n])
      BY <1>0 DEF Restarted, Operation, Call
    <2>2. later = [calls EXCEPT ![c] = followed]
      BY <1>0, <1>1
    <2> HIDE DEF call, calls, later
    <2>3. joined = [started EXCEPT !.calls[c] = Follow(@, started.heads, op.found)]
      BY <1>0, <1>1, <1>2, <2>2
    <2> HIDE DEF started, joined
    <2> QED
      BY <2>1, <2>3, SMTT(60) DEF Confirmation, Become
  <1> HIDE DEF call, calls, started
  <1>4. CASE op.found = NoBlock
    <2>1. op'.calls = calls /\ op'.heads = op.heads /\ op'.found = op.found
      BY <1>2, <1>3, <1>4
    <2>2. Asked(op.calls, calls, c, n)
      BY <1>0, <1>1 DEF Asked, View
    <2>3. Held(op)'
      BY <1>0, <2>1 DEF Held, Branch, OnBranch, Confirmation, nodeVars
    <2> QED
      BY <2>1, <2>2, <2>3
  <1>5. CASE op.found # NoBlock
    <2>1. OnBranch(op.found) /\ op.found.op
      BY <1>0, <1>5 DEF Held, Branch, Sound
    <2>2. Tells(call, followed) /\ followed \in Call
      BY <1>0, <1>1, <2>1, FollowTells, FollowSound, <1>5 DEF Held, Answered
    <2> HIDE DEF followed
    <2>3. /\ later \in [Callers -> Call] /\ later[c] = followed
          /\ \A d \in Callers \ {c} : later[d] = op.calls[d]
      BY <1>0, <2>2
    <2>4. Asked(op.calls, later, c, n)
      BY <1>0, <1>1, <2>2, <2>3 DEF Asked, Tells, View
    <2> HIDE DEF later
    <2>5. /\ joined \in Operation /\ joined.calls = later /\ joined.heads = op.heads
          /\ joined.found = op.found
      BY <1>2, <2>3 DEF Operation
    <2> HIDE DEF joined
    <2>6. /\ op'.calls = later /\ op'.found = op.found
          /\ op'.heads = op.heads \/ op'.heads = {}
      BY <1>3, <1>5, <2>5 DEF Settle, Disconnected, Operation
    <2>7. Held(op)'
      BY <1>0, <2>6 DEF Held, Branch, OnBranch, Confirmation, nodeVars
    <2> QED
      BY <2>4, <2>6, <2>7
  <1> QED
    BY <1>4, <1>5

\* The blocks of a gap, and the head that ends it, are of the branch.
LEMMA GapTold ==
    ASSUME SoundInv, WiredInv, ScanInv, PromiseInv, reorgs = 0, GapServed
    PROVE  Told(op.calls, op'.calls) /\ Held(op')
  <1>0. /\ Sound(op) /\ Wired(op) /\ NodeTypeOK /\ Levelled /\ Filling(op) /\ Once /\ Held(op)
    BY DEF SoundInv, WiredInv, ScanInv, PromiseInv
  <1>1. PICK fetched, o :
           /\ op.fill \in 1..top
           /\ fetched = Emit(op, chain[op.fill]) /\ Sound(fetched)
           /\ Sound(o) /\ Become(Settle(o), poller)
           /\ \/ o = fetched
              \/ o = [fetched EXCEPT !.fill = op.fill + 1, !.target = op.target]
              \/ o = Emit([fetched EXCEPT !.fill = 0, !.target = NoBlock], op.target)
    BY <1>0, GapServedEffect
  <1>2. /\ chain[op.fill] \in Block /\ OnBranch(chain[op.fill])
        /\ op.target \in Block /\ OnBranch(op.target)
    BY <1>0, <1>1, ChainAssumption
    DEF NodeTypeOK, Levelled, OnBranch, Filling, Sound, Operation
  <1>3. Told(op.calls, fetched.calls) /\ Held(fetched)
    BY <1>0, <1>1, <1>2, EmitTold
  <1> DEFINE next == [fetched EXCEPT !.fill = op.fill + 1, !.target = op.target]
             ended == [fetched EXCEPT !.fill = 0, !.target = NoBlock]
  <1>4. /\ next.calls = fetched.calls /\ next.heads = fetched.heads
        /\ next.found = fetched.found
        /\ Sound(ended) /\ ended.calls = fetched.calls /\ ended.heads = fetched.heads
        /\ ended.found = fetched.found
    BY <1>1, NoBlockType DEF Sound, Operation
  <1>5. o = fetched \/ o = next \/ o = Emit(ended, op.target)
    BY <1>1
  <1> HIDE DEF next, ended
  <1>6. Told(fetched.calls, Emit(ended, op.target).calls) /\ Held(Emit(ended, op.target))
    BY <1>0, <1>2, <1>3, <1>4, EmitTold DEF Held
  <1>7. Told(op.calls, o.calls) /\ Held(o)
    BY <1>3, <1>4, <1>5, <1>6, ToldTwice DEF Held
  <1> QED
    BY <1>1, <1>7, SettleHeld DEF Become

\* Whatever happens behind confirmation(), the callers see one of three things.
LEMMA StepCalls ==
    ASSUME SoundInv, WiredInv, ScanInv, PromiseInv, Next, ~NodeStep, reorgs = 0
    PROVE  /\ UNCHANGED nodeVars /\ Held(op)'
           /\ \/ Told(op.calls, op'.calls)
              \/ Dropped(op.calls, op'.calls)
              \/ \E c \in Callers, n \in 0..MaxConf : Asked(op.calls, op'.calls, c, n)
  <1>0. /\ Sound(op) /\ op \in Operation /\ NodeTypeOK /\ Once /\ Unasked /\ Held(op)
        /\ op.calls \in [Callers -> Call] /\ poller.block \in Block
    BY DEF SoundInv, PromiseInv, Sound, Operation, Poller
  <1>1. UNCHANGED nodeVars
    BY DEF Next, PollerNext, OperationNext, nodeVars, OtherOperation, PollTick, PollServed,
           PollDelivered, PollFails, TimeoutExpires, GapServed, GapFails, Confirmation,
           ConfirmationInvalid
  <1>2. ASSUME Held(op')
        PROVE  Held(op)'
    BY <1>1, <1>2 DEF Held, Branch, OnBranch, nodeVars
  <1>3. CASE op' = op
    BY <1>0, <1>1, <1>2, <1>3 DEF Told, Tells
  <1>4. CASE PollDelivered
    <2>1. \/ op' = op
          \/ op' = Settle(Receive(op, poller.block)) /\ OnBranch(poller.block)
      BY <1>4 DEF PollDelivered, Become, ScanInv, Fresh
    <2>2. CASE op' = Settle(Receive(op, poller.block)) /\ OnBranch(poller.block)
      <3>1. /\ Sound(Receive(op, poller.block)) /\ Held(Receive(op, poller.block))
            /\ Told(op.calls, Receive(op, poller.block).calls)
        BY <1>0, <2>2, ReceiveSound, ReceiveTold
      <3>2. Told(op.calls, op'.calls) /\ Held(op')
        BY <2>2, <3>1, SettleHeld
      <3> QED
        BY <1>1, <1>2, <3>2
    <2> QED
      BY <1>3, <2>1, <2>2
  <1>5. CASE GapServed
    BY <1>1, <1>2, <1>5, GapTold
  <1>6. CASE PollFails \/ TimeoutExpires \/ GapFails
    <2>1. op' = op \/ op' = Broken(op)
      BY <1>6 DEF PollFails, TimeoutExpires, GapFails, Become
    <2> QED
      BY <1>0, <1>1, <1>2, <1>3, <2>1, BrokenDropped
  <1>7. ASSUME NEW c \in Callers, NEW n \in 1..MaxConf, Confirmation(c, n)
        PROVE  /\ Held(op)'
               /\ \E d \in Callers, m \in 0..MaxConf : Asked(op.calls, op'.calls, d, m)
    <2>1. n \in 0..MaxConf
      BY CallersAssumption
    <2> QED
      BY <1>7, <2>1, ConfirmationAsked
  <1>8. ASSUME NEW c \in Callers, ConfirmationInvalid(c)
        PROVE  /\ Held(op)'
               /\ \E d \in Callers, m \in 0..MaxConf : Asked(op.calls, op'.calls, d, m)
    <2> DEFINE calls == [op.calls EXCEPT ![c] = [@ EXCEPT !.state = "failed"]]
    <2>1. op.calls[c].state = "idle" /\ op.calls[c].conf = 0
      BY <1>0, <1>8 DEF ConfirmationInvalid, Unasked
    <2>2. op' = [op EXCEPT !.calls = calls]
      BY <1>8 DEF ConfirmationInvalid
    <2>3. Asked(op.calls, calls, c, 0)
      BY <1>0, <2>1 DEF Asked, View, Call
    <2> HIDE DEF calls
    <2>4. op'.calls = calls /\ op'.heads = op.heads /\ op'.found = op.found
      BY <1>0, <2>2 DEF Operation
    <2>5. Held(op') /\ 0 \in 0..MaxConf
      BY <1>0, <2>4, CallersAssumption DEF Held
    <2> QED
      BY <1>2, <2>3, <2>4, <2>5
  <1>9. OtherOperation \/ PollTick \/ PollServed => op' = op
    BY DEF OtherOperation, PollTick, PollServed
  <1> QED
    BY <1>1, <1>3, <1>4, <1>5, <1>6, <1>7, <1>8, <1>9 DEF Next, PollerNext, OperationNext

\* A branch that grows includes the operation once; a call that was not made asks for
\* nothing.
LEMMA InitPromise == Init => PromiseInv
  BY DEF Init, NodeInit, PromiseInv, Once, Unasked, Held, Branch

\* The branch and the calls stay like that.
LEMMA StepPromise ==
    SoundInv /\ WiredInv /\ ScanInv /\ PromiseInv /\ [Next]_vars => PromiseInv'
  <1> SUFFICES ASSUME SoundInv, WiredInv, ScanInv, PromiseInv, [Next]_vars
               PROVE  PromiseInv'
    OBVIOUS
  <1>1. CASE NodeStep
    <2>1. PICK l \in Nat, b \in BOOLEAN : NewHead(l, b) /\ l \in 1..(top + 1)
      BY <1>1, ChainAssumption DEF NodeStep, NodeNext, Bake, Reorg, SoundInv, NodeTypeOK
    <2>2. \A m \in 1..top' : m <= top' /\ m \in 1..MaxLevel /\ (m < l => m \in 1..top)
      BY <2>1, ChainAssumption DEF NewHead, SoundInv, NodeTypeOK
    <2>3. \A m \in 1..top' : chain'[m].op = IF m < l THEN chain[m].op ELSE b
      BY <2>1, <2>2 DEF NewHead
    <2>4. b => \A m \in 1..(l - 1) : ~chain[m].op
      BY <2>1 DEF NewHead
    <2>5. Once'
      BY <2>1, <2>2, <2>3, <2>4 DEF Once, PromiseInv, NewHead
    <2>6. op' = op
      BY <1>1 DEF NodeStep
    <2>7. ASSUME reorgs' = 0
          PROVE  Unasked' /\ Held(op)'
      <3>1. /\ reorgs = 0
            /\ \A m \in 1..top : m \in 1..top' /\ chain'[m] = chain[m]
        BY <1>1, <2>7, BakeBranch
      <3> QED
        BY <2>6, <3>1 DEF PromiseInv, Unasked, Held, Branch, OnBranch
    <2> QED
      BY <2>5, <2>7 DEF PromiseInv
  <1>2. CASE UNCHANGED vars
    BY <1>2 DEF vars, PromiseInv, Once, Unasked, Held, Branch, OnBranch
  <1>3. CASE Next /\ ~NodeStep
    <2>1. UNCHANGED nodeVars
      BY <1>3 DEF Next, PollerNext, OperationNext, nodeVars, OtherOperation, PollTick,
             PollServed, PollDelivered, PollFails, TimeoutExpires, GapServed, GapFails,
             Confirmation, ConfirmationInvalid
    <2>2. Once'
      BY <2>1 DEF nodeVars, Once, PromiseInv
    <2>3. ASSUME reorgs = 0
          PROVE  Unasked' /\ Held(op)'
      <3>1. /\ Held(op)'
            /\ \/ Told(op.calls, op'.calls)
               \/ Dropped(op.calls, op'.calls)
               \/ \E c \in Callers, n \in 0..MaxConf : Asked(op.calls, op'.calls, c, n)
        BY <1>3, <2>3, StepCalls
      <3> QED
        BY <2>3, <3>1 DEF PromiseInv, Unasked, Told, Tells, Dropped, Asked, View
    <2> QED
      BY <2>1, <2>2, <2>3 DEF PromiseInv, nodeVars
  <1> QED
    BY <1>1, <1>2, <1>3

\* What the abstract state says of each call.
Promised == [c \in Callers |->
               [state |-> IF Pending(c) THEN "waiting" ELSE op.calls[c].state,
                conf |-> op.calls[c].conf]]

\* The first state of the operation is the first one of the promise.
LEMMA PromiseStarts == Init => Promise!Init
  <1> SUFFICES ASSUME Init
               PROVE  Promise!Init
    OBVIOUS
  <1>1. InclusionLevel = 0
    <2>1. \A l \in 1..top : l \in 1..MaxLevel /\ l = 1
      BY ChainAssumption DEF Init, NodeInit
    <2>2. \A l \in 1..top : ~chain[l].op
      BY <2>1 DEF Init, NodeInit
    <2> QED
      BY <2>2 DEF InclusionLevel
  <1>2. Promised = [c \in Callers |-> [state |-> "idle", conf |-> 0]]
    BY DEF Init, Promised, Pending
  <1> QED
    BY <1>1, <1>2 DEF Init, NodeInit, Promise!Init, Promise!Pending, Promised

\* A block on top keeps the level of the inclusion, or is the inclusion.
LEMMA PromiseGrows ==
    ASSUME SoundInv, PromiseInv, NodeStep, reorgs' = 0
    PROVE  Promise!Grow
  <1>1. PICK b \in BOOLEAN : NewHead(top + 1, b)
    BY ChainAssumption DEF NodeStep, NodeNext, Bake, Reorg, SoundInv, NodeTypeOK
  <1>2. /\ top \in Nat /\ top' = top + 1 /\ op' = op
        /\ \A l \in 1..top' : chain'[l].op = IF l <= top THEN chain[l].op ELSE b
        /\ b => \A l \in 1..top : ~chain[l].op
    BY <1>1, ChainAssumption DEF NodeStep, NewHead, SoundInv, NodeTypeOK
  <1>3. /\ \A l \in 1..top : chain[l].op => InclusionLevel = l
        /\ (\A l \in 1..top : ~chain[l].op) => InclusionLevel = 0
    BY DEF InclusionLevel, Once, PromiseInv
  <1>4. Once'
    <2>1. \A l \in 1..top' : l <= top \/ l = top + 1
      BY <1>2
    <2> QED
      BY <1>2, <2>1 DEF Once, PromiseInv
  <1>5. /\ \A l \in 1..top' : chain'[l].op => InclusionLevel' = l
        /\ (\A l \in 1..top' : ~chain'[l].op) => InclusionLevel' = 0
    BY <1>4 DEF InclusionLevel, Once
  <1>6. InclusionLevel' \in IF InclusionLevel = 0 THEN {0, top + 1} ELSE {InclusionLevel}
    <2>1. CASE \E l \in 1..top : chain[l].op
      <3>1. PICK l \in 1..top : chain[l].op
        BY <2>1
      <3>2. l \in 1..top' /\ l # 0
        BY <1>2, <3>1
      <3> QED
        BY <1>2, <1>3, <1>5, <3>1, <3>2
    <2>2. CASE b
      <3>1. top + 1 \in 1..top' /\ ~(top + 1 <= top)
        BY <1>2
      <3>2. chain'[top + 1].op
        BY <1>2, <2>2, <3>1
      <3> QED
        BY <1>2, <1>3, <1>5, <2>2, <3>1, <3>2
    <2>3. CASE ~b /\ \A l \in 1..top : ~chain[l].op
      <3>1. \A l \in 1..top' : ~chain'[l].op
        BY <1>2, <2>3
      <3> QED
        BY <1>3, <1>5, <2>3, <3>1
    <2> QED
      BY <2>1, <2>2, <2>3
  <1>7. Promised' = Promised
    BY <1>2 DEF Promised, Pending
  <1> QED
    BY <1>2, <1>6, <1>7 DEF Promise!Grow, Promised

\* Every step is one of the promise, or leaves it as it is.
LEMMA PromiseKept ==
    ASSUME SoundInv, WiredInv, ScanInv, PromiseInv, [Next]_vars, reorgs = 0, reorgs' = 0
    PROVE  [Promise!Next]_Promise!vars
  <1>1. CASE NodeStep
    BY <1>1, PromiseGrows DEF Promise!Next
  <1>2. CASE UNCHANGED vars
    <2>1. InclusionLevel' = InclusionLevel /\ Promised' = Promised
      BY <1>2 DEF vars, InclusionLevel, Promised, Pending
    <2> QED
      BY <1>2, <2>1 DEF vars, Promise!vars, Promised
  <1>3. CASE Next /\ ~NodeStep
    <2>1. /\ UNCHANGED nodeVars
          /\ \/ Told(op.calls, op'.calls)
             \/ Dropped(op.calls, op'.calls)
             \/ \E c \in Callers, n \in 0..MaxConf : Asked(op.calls, op'.calls, c, n)
      BY <1>3, StepCalls
    <2>2. top' = top /\ InclusionLevel' = InclusionLevel
      BY <2>1 DEF nodeVars, InclusionLevel
    <2>3. /\ \A c \in Callers : /\ Promised[c] = [state |-> View(op.calls[c]),
                                                  conf |-> op.calls[c].conf]
                                /\ Promised'[c] = [state |-> View(op'.calls[c]),
                                                   conf |-> op'.calls[c].conf]
          /\ Promised = [c \in Callers |-> Promised[c]]
          /\ Promised' = [c \in Callers |-> Promised'[c]]
      BY DEF Promised, Pending, View
    <2>4. CASE Told(op.calls, op'.calls)
      <3>1. PICK S \in SUBSET Callers :
               S = {c \in Callers : /\ View(op.calls[c]) = "waiting"
                                    /\ View(op'.calls[c]) = "done"}
        OBVIOUS
      <3>2. Promised' = [c \in Callers |->
               IF c \in S THEN [Promised[c] EXCEPT !.state = "done"] ELSE Promised[c]]
        BY <2>3, <2>4, <3>1 DEF Told, Tells
      <3>3. \A c \in S : /\ Promised[c].state = "waiting"
                         /\ Promise!Deep(Promised[c].conf)
        BY <2>3, <2>4, <3>1 DEF Told, Tells, Deepened, Promise!Deep
      <3>4. Promise!Resolve(S)
        BY <2>2, <3>2, <3>3 DEF Promise!Resolve, Promised
      <3> QED
        BY <3>4 DEF Promise!Next
    <2>5. CASE Dropped(op.calls, op'.calls)
      <3>1. Promised' = [c \in Callers |->
               IF Promised[c].state = "waiting" THEN [Promised[c] EXCEPT !.state = "failed"]
               ELSE Promised[c]]
        BY <2>3, <2>5 DEF Dropped
      <3>2. Promise!Break
        BY <2>2, <3>1 DEF Promise!Break, Promised
      <3> QED
        BY <3>2 DEF Promise!Next
    <2>6. ASSUME NEW c \in Callers, NEW n \in 0..MaxConf, Asked(op.calls, op'.calls, c, n)
          PROVE  Promise!Next
      <3>1. PICK s : s = View(op'.calls[c])
        OBVIOUS
      <3>2. Promised' = [Promised EXCEPT ![c] = [state |-> s, conf |-> n]]
        BY <2>3, <2>6, <3>1, SMTT(60) DEF Asked
      <3>3. /\ s \in {"waiting", "done", "failed"}
            /\ s # "failed" => n >= 1
            /\ s = "done" => Promise!Deep(n)
            /\ Promised[c].state = "idle"
        BY <2>3, <2>6, <3>1 DEF Asked, Deepened, Promise!Deep, View
      <3>4. Promise!Ask(c, n)
        BY <2>2, <3>2, <3>3 DEF Promise!Ask, Promised
      <3> QED
        BY <3>4 DEF Promise!Next
    <2> QED
      BY <2>1, <2>4, <2>5, <2>6
  <1> QED
    BY <1>1, <1>2, <1>3

\* confirmation() of the contract API keeps its promise on a chain that is not
\* reorganised: through replays, gaps, restarts by later calls and errors, a call resolves
\* only when the operation is as deep as it asked, an answer is final, and an error of the
\* stream leaves nobody waiting.
THEOREM ImplementsPromise == Spec /\ [](reorgs = 0) => Promise!Spec
  <1>1. /\ SoundInv /\ WiredInv /\ ScanInv /\ PromiseInv /\ [Next]_vars
        /\ reorgs = 0 /\ (reorgs = 0)'
        => [Promise!Next]_Promise!vars
    BY PromiseKept
  <1> QED
    BY InitSound, StepSound, InitScan, StepScan, InitPromise, StepPromise, PromiseStarts,
       <1>1, PTL
    DEF Spec, Promise!Spec
=============================================================================
