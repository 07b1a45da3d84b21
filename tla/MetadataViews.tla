---------------------------- MODULE MetadataViews ----------------------------
(***************************************************************************)
(* packages/taquito-tzip16/src: the metadata of a contract and the views   *)
(* in it that are run off the chain.                                       *)
(*   tzip16-contract-abstraction.ts      the envelope, the object of views *)
(*   viewKind/michelson-storage-view.ts  executeView                       *)
(* The code of a view is the array in the envelope, which every view of    *)
(* the name shares.  executeView reads the context with one request after  *)
(* the other and then writes it into that array.                           *)
(***************************************************************************)
EXTENDS Naturals, Sequences

CONSTANTS
    Users,          \* the calls of a user: metadata, or a view and its execution
    MaxViewHead     \* bound on the blocks

ASSUME ViewAssumption == MaxViewHead \in Nat \ {0}

VARIABLES
    viewHead,       \* the head; every block changes storage, balance and timestamp
    hasParameter,   \* whether the view has a parameter
    codes,          \* the arrays of code, one of each envelope that was fetched
    envelope,       \* _metadataEnvelope: its code in codes, or 0
    views,          \* _metadataViewsObject: where the code of its view is, or 0
    user            \* the state of each call

metadataVars == <<viewHead, hasParameter, codes, envelope, views, user>>

(* top is 0 as long as the instruction BALANCE (or NOW) is in the code, and then the
   block whose value was pushed instead; cdr is how many CDR are in front. *)
Code == [cdr : Nat, top : Nat]

Fresh == [cdr |-> 0, top |-> 0]

(* begin and first are history: the head when the execution began, and whether
   its code had not been executed before. *)
User == [pc : {"idle", "fetch", "storage", "balance", "run", "done", "failed"},
         wants : {"metadata", "view"}, view : Nat, storage : Nat, sent : Code,
         begin : Nat, first : BOOLEAN]

MetadataTypeOK ==
    /\ viewHead \in 1..MaxViewHead
    /\ hasParameter \in BOOLEAN
    /\ codes \in Seq(Code)
    /\ envelope \in 0..Len(codes) /\ views \in 0..Len(codes)
    /\ user \in [Users -> User]

MetadataInit ==
    /\ viewHead = 1
    /\ hasParameter \in BOOLEAN
    /\ codes = <<>> /\ envelope = 0 /\ views = 0
    /\ user = [u \in Users |->
                 [pc |-> "idle", wants |-> "view", view |-> 0, storage |-> 0,
                  sent |-> Fresh, begin |-> 0, first |-> FALSE]]

-----------------------------------------------------------------------------
\* metadataName and the like, or metadataViews: what is there is used, and the views
\* are made from an envelope that is there.
GetViews(u, wants) ==
    /\ user[u].pc = "idle"
    /\ IF envelope = 0
       THEN /\ user' = [user EXCEPT ![u].wants = wants, ![u].pc = "fetch"]
            /\ UNCHANGED views
       ELSE IF wants = "metadata"
       THEN /\ user' = [user EXCEPT ![u].wants = wants, ![u].pc = "done"]
            /\ UNCHANGED views
       ELSE /\ views' = IF views # 0 THEN views ELSE envelope
            /\ user' = [user EXCEPT ![u].wants = wants, ![u].view = views',
                            ![u].begin = viewHead, ![u].pc = "storage"]
    /\ UNCHANGED <<viewHead, hasParameter, codes, envelope>>

\* getUriOrFail and provideMetadata are through: whoever comes last sets the envelope,
\* and has the views made of its own.
MetadataFetched(u) ==
    /\ user[u].pc = "fetch"
    /\ codes' = Append(codes, Fresh)
    /\ envelope' = Len(codes')
    /\ IF user[u].wants = "metadata"
       THEN /\ user' = [user EXCEPT ![u].pc = "done"]
            /\ UNCHANGED views
       ELSE /\ views' = Len(codes')
            /\ user' = [user EXCEPT ![u].view = Len(codes'), ![u].begin = viewHead,
                                    ![u].pc = "storage"]
    /\ UNCHANGED <<viewHead, hasParameter>>

\* executeView: the storage of the head, and then the chain id.
StorageRead(u) ==
    /\ user[u].pc = "storage"
    /\ user' = [user EXCEPT ![u].storage = viewHead, ![u].pc = "balance"]
    /\ UNCHANGED <<viewHead, hasParameter, codes, envelope, views>>

\* adaptViewCodeToContext: an instruction at the top is replaced if it is still there.
\* The recursion goes into the arguments, but not into the sequences among them.
Adapted(code, value) == [code EXCEPT !.top = IF @ = 0 THEN value ELSE @]

\* Mutated WithCdr: the array gets no CDR.
WithCdr_Missing(code) == code

\* unshift: the argument in front of the storage is dropped, if there is none.
WithCdr(code) == [code EXCEPT !.cdr = IF hasParameter THEN @ ELSE @ + 1]

\* The last reads of the context (balance, timestamp), and the array is written and
\* sent.
ContextRead(u) ==
    LET code == WithCdr(Adapted(codes[user[u].view], viewHead))
    IN  /\ user[u].pc = "balance"
        /\ codes' = [codes EXCEPT ![user[u].view] = code]
        /\ user' = [user EXCEPT ![u].sent = code, ![u].pc = "run",
                                ![u].first = codes[user[u].view] = Fresh]
        /\ UNCHANGED <<viewHead, hasParameter, envelope, views>>

\* runCode: the stack begins with the argument and the storage in a pair.  A code that
\* takes a part of the storage for all of it is taken for one that is refused.
ViewRun(u) ==
    /\ user[u].pc = "run"
    /\ user' = [user EXCEPT ![u].pc =
                   IF user[u].sent.cdr = (IF hasParameter THEN 0 ELSE 1)
                   THEN "done" ELSE "failed"]
    /\ UNCHANGED <<viewHead, hasParameter, codes, envelope, views>>

MetadataRequestFails(u) ==
    /\ user[u].pc \in {"fetch", "storage", "balance", "run"}
    /\ user' = [user EXCEPT ![u].pc = "failed"]
    /\ UNCHANGED <<viewHead, hasParameter, codes, envelope, views>>

ViewBlock ==
    /\ viewHead < MaxViewHead
    /\ viewHead' = viewHead + 1
    /\ UNCHANGED <<hasParameter, codes, envelope, views, user>>

MetadataNext ==
    \/ ViewBlock
    \/ \E u \in Users :
          \/ \E wants \in {"metadata", "view"} : GetViews(u, wants)
          \/ MetadataFetched(u) \/ StorageRead(u) \/ ContextRead(u) \/ ViewRun(u)
          \/ MetadataRequestFails(u)

MetadataSpec == MetadataInit /\ [][MetadataNext]_metadataVars

-----------------------------------------------------------------------------
(* Properties *)

Executed(u) == user[u].wants = "view" /\ user[u].pc \in {"run", "done", "failed"}
               /\ user[u].sent # Fresh

\* The first execution of a code is a faithful one, whoever else executes it meanwhile:
\* the values pushed are those of a block of the execution, no older than the storage that
\* goes with them, and only a view without a parameter drops an argument, once.
FirstExecutionIsCurrent ==
    \A u \in Users :
        Executed(u) /\ user[u].first =>
            /\ user[u].begin <= user[u].storage /\ user[u].storage <= user[u].sent.top
            /\ user[u].sent.cdr = IF hasParameter THEN 0 ELSE 1

\* What the comment of adaptViewCodeToContext says: the values pushed match the
\* current context.
ViewSeesCurrentContext ==
    \A u \in Users : Executed(u) => user[u].begin <= user[u].sent.top
=============================================================================
