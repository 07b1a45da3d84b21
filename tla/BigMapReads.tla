----------------------------- MODULE BigMapReads -----------------------------
(***************************************************************************)
(* packages/taquito/src/contract: values of a big map.                     *)
(*   rpc-contract-provider.ts            getBigMapKeyByID, getBigMapKeysByID*)
(*   big-map.ts                          get, getMultipleValues            *)
(* with packages/taquito-http-utils, whose errors tell a missing key.      *)
(* Many keys are read in rounds of parallel requests, one after the other, *)
(* while the chain goes on.                                                *)
(***************************************************************************)
EXTENDS Integers, Sequences, FiniteSets

CONSTANTS
    BigMapKeys,
    BatchSize,      \* how many requests are made at a time
    MaxKeys,        \* bound on the keys of a call
    MaxMapBlocks    \* bound on the blocks

ASSUME BigMapAssumption == {BatchSize, MaxMapBlocks} \subseteq Nat \ {0} /\ MaxKeys \in Nat

VARIABLES
    bigMap,     \* what the big map holds at each level: when the value was set, or 0
    baked,      \* how many blocks there have been
    reorganised, \* history: a block was replaced since the call began
    rewraps,    \* whether the backend of the rpc client is HttpBackend
    read        \* the one call

bigMapVars == <<bigMap, baked, reorganised, rewraps, read>>

Undefined == -1     \* of a block: not given; of a value: not there yet

\* unanswered is history: a request of the call got no answer.
Read == [pc : {"idle", "level", "round", "done", "failed"}, keys : Seq(BigMapKeys),
         block : Int, level : Int, position : Nat, values : Seq(Int), unanswered : BOOLEAN]

BigMapTypeOK ==
    /\ bigMap \in Seq([BigMapKeys -> 0..MaxMapBlocks])
    /\ baked \in 1..MaxMapBlocks
    /\ reorganised \in BOOLEAN /\ rewraps \in BOOLEAN
    /\ read \in Read

BigMapInit ==
    /\ bigMap = <<[k \in BigMapKeys |-> 1]>> /\ baked = 1
    /\ reorganised = FALSE
    /\ rewraps \in BOOLEAN
    /\ read = [pc |-> "idle", keys |-> <<>>, block |-> Undefined, level |-> Undefined,
               position |-> 0, values |-> <<>>, unanswered |-> FALSE]

-----------------------------------------------------------------------------
\* Mutated LevelIsRead: without a block, every request asks for the head.
LevelIsRead_Never(keys, block) == FALSE

\* getBlockForRequest: a level is asked for if there are many keys and no block.
LevelIsRead(keys, block) == Len(keys) # 1 /\ block = Undefined

\* get with one key, or getMultipleValues.
GetValues(keys, block) ==
    /\ read.pc = "idle"
    /\ read' = [read EXCEPT !.keys = keys, !.block = block, !.level = block,
                            !.values = [i \in DOMAIN keys |-> Undefined],
                            !.pc = IF LevelIsRead(keys, block) THEN "level" ELSE "round"]
    /\ UNCHANGED <<bigMap, baked, reorganised, rewraps>>

LevelAnswered ==
    /\ read.pc = "level"
    /\ read' = [read EXCEPT !.level = Len(bigMap), !.pc = "round"]
    /\ UNCHANGED <<bigMap, baked, reorganised, rewraps>>

\* The block that a request of this level asks for; 0 is as good as none.
BlockOf(level) == IF level \in {0, Undefined} THEN Len(bigMap) ELSE level

\* getBigMapValueOrUndefined: a 404 stands for undefined if it is seen, but what the
\* HttpBackend throws for it is an HttpRequestFailed, which fails the whole call.
Answer(i) ==
    LET value == IF BlockOf(read.level) \in DOMAIN bigMap
                 THEN bigMap[BlockOf(read.level)][read.keys[i]] ELSE 0
    IN  IF value = 0 /\ rewraps THEN [read EXCEPT !.pc = "failed"]
        ELSE [read EXCEPT !.values[i] = value]

\* Mutated Round: the last key of each round is left out.
Round_Short == {i \in DOMAIN read.keys : i > read.position /\ i < read.position + BatchSize}

\* The keys of the round under way.
Round == {i \in DOMAIN read.keys : i > read.position /\ i <= read.position + BatchSize}

\* The answers of a round come in any order; the next round begins with the last one.
ValueAnswered(i) ==
    /\ read.pc = "round"
    /\ i \in Round /\ read.values[i] = Undefined
    /\ LET after == Answer(i)
           over == \A j \in Round : after.values[j] # Undefined
           position == read.position + BatchSize
       IN  read' = IF after.pc = "failed" \/ ~over THEN after
                   ELSE [after EXCEPT !.position = position,
                            !.pc = IF position < Len(read.keys) THEN "round" ELSE "done"]
    /\ UNCHANGED <<bigMap, baked, reorganised, rewraps>>

\* The pack request or the value is not answered.
ReadFails ==
    /\ read.pc \in {"level", "round"}
    /\ read' = [read EXCEPT !.pc = "failed", !.unanswered = TRUE]
    /\ UNCHANGED <<bigMap, baked, reorganised, rewraps>>

\* A block sets and removes values; it may take the place of the head.
MapBlock ==
    /\ baked < MaxMapBlocks
    /\ baked' = baked + 1
    /\ \E set, removed \in SUBSET BigMapKeys, replaces \in BOOLEAN :
          /\ set \cap removed = {}
          /\ replaces => Len(bigMap) > 1
          /\ LET branch == IF replaces THEN SubSeq(bigMap, 1, Len(bigMap) - 1) ELSE bigMap
             IN  bigMap' = Append(branch,
                     [k \in BigMapKeys |-> IF k \in set THEN baked + 1
                                           ELSE IF k \in removed THEN 0
                                           ELSE branch[Len(branch)][k]])
          /\ reorganised' = (reorganised \/ (replaces /\ read.pc # "idle"))
    /\ UNCHANGED <<rewraps, read>>

KeyLists == UNION {[1..n -> BigMapKeys] : n \in 1..MaxKeys}

BigMapNext ==
    \/ \E keys \in KeyLists, block \in {Undefined} \cup 0..Len(bigMap) : GetValues(keys, block)
    \/ LevelAnswered
    \/ \E i \in 1..MaxKeys : ValueAnswered(i)
    \/ ReadFails
    \/ MapBlock

BigMapSpec == BigMapInit /\ [][BigMapNext]_bigMapVars

-----------------------------------------------------------------------------
(* Properties *)

\* The values of a call are those of one block, that of the caller if there is one,
\* in however many rounds they were read.  The block 0 reads the head anew with each
\* key, and a level has other values once the node has reorganised.
OfOneBlock ==
    \E l \in DOMAIN bigMap :
        /\ read.block > 0 => l = read.block
        /\ \A i \in DOMAIN read.keys : read.values[i] = bigMap[l][read.keys[i]]

ValuesOfOneBlock ==
    read.pc = "done" /\ ~reorganised /\ (read.block # 0 \/ Len(read.keys) = 1) => OfOneBlock

\* What the comments of getBigMapKeysByID and get say: the value of a key that is not in
\* the big map is undefined.  It does not fail the call, for this key or for others, so
\* that a call whose requests are all answered comes back with values.
MissingKeysAreUndefined ==
    read.pc = "failed" => read.unanswered
=============================================================================
