---------------------------- MODULE LedgerSigner ----------------------------
(***************************************************************************)
(* packages/taquito-ledger-signer/src: signatures made by a Ledger device. *)
(* A message goes to the device in chunks, one request after the other,    *)
(* and nothing keeps the chunks of two calls apart: the signer has no lock *)
(* and the device one session.  Transport and device are external code; a  *)
(* transport takes one request at a time and makes others wait, or throws. *)
(***************************************************************************)
EXTENDS Naturals, Sequences

CONSTANTS
    Signings,       \* the calls of sign()
    KeyCalls,       \* the calls of publicKey()
    MaxBytes,       \* bound on the length of a message
    MAX_CHUNK_SIZE

ASSUME LedgerAssumption ==
    MaxBytes \in Nat \ {0} /\ MAX_CHUNK_SIZE \in Nat \ {0} /\ Signings \cap KeyCalls = {}
ASSUME NoCallAssumption == "no call" \notin Signings \cup KeyCalls

VARIABLES
    device,     \* what the device has of the message since the last path
    transport,  \* the call whose request is being answered, or NoCall
    signing,    \* the state of each sign()
    keyCall,    \* the state of each publicKey()
    publicKey   \* whether _publicKey and _publicKeyHash are set

ledgerVars == <<device, transport, signing, keyCall, publicKey>>

NoCall == "no call"
NoSession == <<"no session">>

\* A byte is known by the call it comes from and its place.
Byte == Signings \X (1..MaxBytes)

\* sent counts the requests answered; alone is history: no request of another call
\* has reached the device since the first one of this call.
Signing == [pc : {"idle", "next", "sent", "done", "failed"}, length : 0..MaxBytes,
            sent : Nat, signature : Seq(Byte), alone : BOOLEAN]

LedgerTypeOK ==
    /\ device \in Seq(Byte) \cup {NoSession}
    /\ transport \in Signings \cup KeyCalls \cup {NoCall}
    /\ signing \in [Signings -> Signing]
    /\ keyCall \in [KeyCalls -> {"idle", "sent", "done", "failed"}]
    /\ publicKey \in BOOLEAN

LedgerInit ==
    /\ device = NoSession
    /\ transport = NoCall
    /\ signing = [c \in Signings |-> [pc |-> "idle", length |-> 0, sent |-> 0,
                                      signature |-> <<>>, alone |-> TRUE]]
    /\ keyCall = [k \in KeyCalls |-> "idle"]
    /\ publicKey = FALSE

-----------------------------------------------------------------------------
Message(c) == [i \in 1..signing[c].length |-> <<c, i>>]

Smaller(a, b) == IF a < b THEN a ELSE b

\* How many chunks chunkOperation makes of a message.
ChunkCount(length) == (length + MAX_CHUNK_SIZE - 1) \div MAX_CHUNK_SIZE

\* Mutated Chunk: the chunks overlap by one byte.
Chunk_Overlapping(m, i) ==
    SubSeq(m, IF i = 1 THEN 1 ELSE (i - 1) * MAX_CHUNK_SIZE, Smaller(i * MAX_CHUNK_SIZE, Len(m)))

\* chunkOperation: the i-th chunk, all full but for the last one.
Chunk(m, i) == SubSeq(m, (i - 1) * MAX_CHUNK_SIZE + 1, Smaller(i * MAX_CHUNK_SIZE, Len(m)))

\* LAST_MESSAGE_SEQUENCE: the first request has the path, and then the chunks follow.
IsLast(c) == signing[c].sent = ChunkCount(signing[c].length)

BeginSigning(c) ==
    /\ signing[c].pc = "idle"
    /\ \E n \in 1..MaxBytes :
          signing' = [signing EXCEPT ![c].pc = "next", ![c].length = n]
    /\ UNCHANGED <<device, transport, keyCall, publicKey>>

\* signWithLedger sends the path or the next chunk; a busy transport may throw.
SendChunk(c) ==
    /\ signing[c].pc = "next"
    /\ \/ /\ transport = NoCall
          /\ transport' = c
          /\ signing' = [signing EXCEPT ![c].pc = "sent"]
       \/ /\ transport # NoCall
          /\ signing' = [signing EXCEPT ![c].pc = "failed"]
          /\ UNCHANGED transport
    /\ UNCHANGED <<device, keyCall, publicKey>>

\* The requests of others are an interruption for the calls under way.
Interrupted(c) ==
    [d \in Signings |-> IF d # c /\ signing[d].sent > 0 /\ signing[d].pc \in {"next", "sent"}
                        THEN [signing[d] EXCEPT !.alone = FALSE] ELSE signing[d]]

\* The device answers: the path begins a session, a chunk is added to what is there,
\* the last one is signed, unless the user rejects it.
DeviceAnswers(c) ==
    LET chunk == Chunk(Message(c), signing[c].sent)
        next == [signing[c] EXCEPT !.pc = "next", !.sent = @ + 1]
    IN  /\ transport = c
        /\ transport' = NoCall
        /\ IF signing[c].sent = 0
           THEN device' = <<>> /\ signing' = [Interrupted(c) EXCEPT ![c] = next]
           ELSE IF device = NoSession
           THEN /\ UNCHANGED device
                /\ signing' = [Interrupted(c) EXCEPT ![c].pc = "failed"]
           ELSE IF IsLast(c)
           THEN /\ device' = NoSession
                /\ \E answer \in {[next EXCEPT !.pc = "done", !.signature = device \o chunk],
                                  [next EXCEPT !.pc = "failed"]} :
                      signing' = [Interrupted(c) EXCEPT ![c] = answer]
           ELSE device' = device \o chunk /\ signing' = [Interrupted(c) EXCEPT ![c] = next]
        /\ UNCHANGED <<keyCall, publicKey>>

\* publicKey(): the cached key, or one request, which may throw.
AskKey(k) ==
    /\ keyCall[k] = "idle"
    /\ \/ publicKey /\ keyCall' = [keyCall EXCEPT ![k] = "done"] /\ UNCHANGED transport
       \/ /\ ~publicKey /\ transport = NoCall
          /\ transport' = k /\ keyCall' = [keyCall EXCEPT ![k] = "sent"]
       \/ /\ ~publicKey /\ transport # NoCall
          /\ keyCall' = [keyCall EXCEPT ![k] = "failed"] /\ UNCHANGED transport
    /\ UNCHANGED <<device, signing, publicKey>>

\* The device has the key or the user rejects; a session may or may not survive.
KeyAnswered(k) ==
    /\ transport = k
    /\ transport' = NoCall
    /\ device' \in {device, NoSession}
    /\ signing' = Interrupted(k)
    /\ \/ keyCall' = [keyCall EXCEPT ![k] = "done"] /\ publicKey' = TRUE
       \/ keyCall' = [keyCall EXCEPT ![k] = "failed"] /\ UNCHANGED publicKey

LedgerNext ==
    \/ \E c \in Signings : BeginSigning(c) \/ SendChunk(c) \/ DeviceAnswers(c)
    \/ \E k \in KeyCalls : AskKey(k) \/ KeyAnswered(k)

LedgerSpec == LedgerInit /\ [][LedgerNext]_ledgerVars

-----------------------------------------------------------------------------
(* Properties *)

\* A signature is the one of the message that was given to sign(), whatever the
\* length of the message and the chunks it goes in, if no request of another call
\* got in between.
SignatureIsOfMessage ==
    \A c \in Signings :
        signing[c].pc = "done" /\ signing[c].alone => signing[c].signature = Message(c)
=============================================================================
