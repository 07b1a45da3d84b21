------------------------- MODULE SaplingTransaction -------------------------
(***************************************************************************)
(* packages/taquito-sapling/src: transactions of a shielded pool.          *)
(*   taquito-sapling.ts                  prepare*Transaction               *)
(*   sapling-tx-builder                  spends, outputs, change, balance  *)
(*   sapling-tx-viewer                   the notes of the viewing key      *)
(* A transaction is made from three reads of the pool at the head: the     *)
(* root it refers to, the notes to spend, and the tree of the proofs.  The *)
(* pool grows in between.  Keys, proofs and ciphers are not modelled: a    *)
(* note is its owner and its value, a root is the number of its notes.     *)
(***************************************************************************)
EXTENDS Integers, Sequences, FiniteSets, Sums

CONSTANTS
    Transactions,   \* the calls of prepare*Transaction
    MaxAmount,      \* bound on an amount
    MaxNotes        \* bound on the notes that others add to the pool

ASSUME SaplingAssumption == MaxAmount \in Nat /\ MaxNotes \in Nat

VARIABLES
    notes,      \* the commitments of the pool, in order
    nullified,  \* the positions of the notes that were spent
    others,     \* how many notes others have added
    tx          \* the state of each call

saplingVars == <<notes, nullified, others, tx>>

Note == [owner : {"me", "other"}, value : Nat]

(* root and treeRoot are the first and the last read.  disturbed is history: the
   pool has grown, or a note was spent, since the root was read. *)
Tx == [pc : {"idle", "notes", "tree", "built", "accepted", "refused", "failed"},
       kind : {"shielded", "unshielded", "sapling"}, amounts : Seq(0..MaxAmount),
       root : Nat, inputs : SUBSET Nat, treeRoot : Nat,
       outputs : Seq(Note), balance : Int, disturbed : BOOLEAN]

SaplingTypeOK ==
    /\ notes \in Seq(Note)
    /\ nullified \subseteq DOMAIN notes
    /\ others \in 0..MaxNotes
    /\ tx \in [Transactions -> Tx]

SaplingInit ==
    /\ notes = <<>> /\ nullified = {} /\ others = 0
    /\ tx = [t \in Transactions |->
               [pc |-> "idle", kind |-> "shielded", amounts |-> <<>>, root |-> 0,
                inputs |-> {}, treeRoot |-> 0, outputs |-> <<>>, balance |-> 0,
                disturbed |-> FALSE]]

-----------------------------------------------------------------------------
Total(amounts) == SumAll(amounts)

NoteValues(list) == [i \in DOMAIN list |-> list[i].value]

ValueOf(positions) == SumOver(NoteValues(notes), positions)

\* getIncomingAndOutgoingTransactionsRaw: the own notes whose nullifier is unknown.
Unspent == {i \in DOMAIN notes : notes[i].owner = "me"} \ nullified

\* Mutated Selected: notes that were spent are chosen again.
Selected_Spent(amount) ==
    {i \in DOMAIN notes : notes[i].owner = "me" /\
        ValueOf({j \in DOMAIN notes : notes[j].owner = "me" /\ j < i}) < amount}

\* selectInputsToSpend: unspent notes in order, until they suffice.
Selected(amount) == {i \in Unspent : ValueOf({j \in Unspent : j < i}) < amount}

\* Mutated Change: paid back is what is left of the inputs without the outputs.
Change_Forgotten(inputs, paid, total) == <<>>

\* createPaybackOutput: what the inputs have more than the outputs goes back, less
\* the total of the transaction.
Change(inputs, paid, total) ==
    IF ValueOf(inputs) > paid
    THEN <<[owner |-> "me", value |-> ValueOf(inputs) - total]>>
    ELSE <<>>

Becomes(t, new) == tx' = [tx EXCEPT ![t] = new]

\* The amounts of a call: one, or two for two receivers.
Amounts == {<<a>> : a \in 0..MaxAmount} \cup {<<a, b>> : a, b \in 1..MaxAmount}

\* The three entry points: the root is read first, and a shielded transaction needs
\* no more than that, as it spends nothing.  Unshielded tokens go to no note.
ReadRoot(t) ==
    /\ tx[t].pc = "idle"
    /\ \E kind \in {"shielded", "unshielded", "sapling"}, amounts \in Amounts :
          /\ kind = "unshielded" => Len(amounts) = 1
          /\ Becomes(t, [tx[t] EXCEPT
                !.kind = kind, !.amounts = amounts, !.root = Len(notes),
                !.outputs = IF kind = "unshielded" THEN <<>>
                            ELSE [i \in DOMAIN amounts |->
                                    [owner |-> "other", value |-> amounts[i]]],
                !.balance = IF kind = "shielded" THEN -Total(amounts) ELSE 0,
                !.pc = IF kind = "shielded" THEN "built" ELSE "notes"])
    /\ UNCHANGED <<notes, nullified, others>>

\* InsufficientBalance, or enough notes.
ReadNotes(t) ==
    LET total == Total(tx[t].amounts)
    IN  /\ tx[t].pc = "notes"
        /\ Becomes(t, IF ValueOf(Selected(total)) < total
                      THEN [tx[t] EXCEPT !.pc = "failed"]
                      ELSE [tx[t] EXCEPT !.inputs = Selected(total), !.pc = "tree"])
        /\ UNCHANGED <<notes, nullified, others>>

\* createSaplingTx: the proofs are made with the tree and the root of this read; no
\* tree can be built without leaves.
ReadTree(t) ==
    LET total == Total(tx[t].amounts)
        change == Change(tx[t].inputs, Total(NoteValues(tx[t].outputs)), total)
        outputs == tx[t].outputs \o change
    IN  /\ tx[t].pc = "tree"
        /\ Becomes(t, IF notes = <<>> THEN [tx[t] EXCEPT !.pc = "failed"]
                      ELSE [tx[t] EXCEPT
                              !.treeRoot = Len(notes), !.outputs = outputs,
                              !.balance = ValueOf(tx[t].inputs) - Total(NoteValues(outputs)),
                              !.pc = "built"])
        /\ UNCHANGED <<notes, nullified, others>>

\* The contract verifies the proofs against the root of the transaction and looks at
\* the nullifiers.
Valid(t) ==
    /\ tx[t].inputs # {} => tx[t].treeRoot = tx[t].root
    /\ tx[t].inputs \cap nullified = {}

\* What the pool's new state means for the calls under way.
Disturbed(t) ==
    [u \in Transactions |-> IF u # t /\ tx[u].pc \in {"notes", "tree", "built"}
                            THEN [tx[u] EXCEPT !.disturbed = TRUE] ELSE tx[u]]

Submitted(t) ==
    /\ tx[t].pc = "built"
    /\ IF Valid(t)
       THEN /\ notes' = notes \o tx[t].outputs
            /\ nullified' = nullified \cup tx[t].inputs
            /\ tx' = [Disturbed(t) EXCEPT ![t].pc = "accepted"]
       ELSE /\ Becomes(t, [tx[t] EXCEPT !.pc = "refused"])
            /\ UNCHANGED <<notes, nullified>>
    /\ UNCHANGED others

\* Others add a note to the pool, to the own address or not.
OthersAdd ==
    /\ others < MaxNotes
    /\ \E owner \in {"me", "other"}, value \in 1..MaxAmount :
          notes' = Append(notes, [owner |-> owner, value |-> value])
    /\ others' = others + 1
    /\ tx' = [t \in Transactions |-> IF tx[t].pc \in {"notes", "tree", "built"}
                                     THEN [tx[t] EXCEPT !.disturbed = TRUE] ELSE tx[t]]
    /\ UNCHANGED nullified

SaplingNext ==
    \/ OthersAdd
    \/ \E t \in Transactions : ReadRoot(t) \/ ReadNotes(t) \/ ReadTree(t) \/ Submitted(t)

SaplingSpec == SaplingInit /\ [][SaplingNext]_saplingVars

-----------------------------------------------------------------------------
(* Properties *)

\* No token appears or gets lost: what goes in comes out, as notes or as balance, and
\* the balance is what the kind of the transaction says.  The pool may have changed
\* as it likes between the reads.
ConservesValue ==
    \A t \in Transactions :
        tx[t].pc \in {"built", "accepted", "refused"} =>
            /\ ValueOf(tx[t].inputs) = tx[t].balance + Total(NoteValues(tx[t].outputs))
            /\ tx[t].balance = CASE tx[t].kind = "shielded" -> -Total(tx[t].amounts)
                                 [] tx[t].kind = "unshielded" -> Total(tx[t].amounts)
                                 [] tx[t].kind = "sapling" -> 0

\* A transaction is refused only if the pool has changed since its root was read, and
\* one that spends nothing never is.
UndisturbedIsAccepted ==
    \A t \in Transactions :
        tx[t].pc = "refused" => tx[t].disturbed /\ tx[t].inputs # {}
=============================================================================
