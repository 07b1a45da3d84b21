-------------------------- MODULE MichelineForging --------------------------
(***************************************************************************)
(* packages/taquito-local-forging/src: the bytes of an operation that is   *)
(* signed, and the operation that is read back from them.                  *)
(*   codec.ts                            entrypoints, parameters           *)
(*   michelson/codec.ts                  values                            *)
(* A value is built from the leaves up, and forged from the bytes that its *)
(* parts have become.  In every state its parameters can be read back.     *)
(* Bytes are numbers; few primitives stand for all, those with a form of   *)
(* their own among them.                                                   *)
(***************************************************************************)
EXTENDS ForgedNumbers

CONSTANTS
    Ints,       \* the numbers in a value
    Texts,      \* the contents of strings and bytes
    AnnotLists, \* the lists of annotations
    MaxValues,  \* bound on the values within a value
    MaxNumber   \* bound on the number of the operation

\* An annotation has a character at least, no space and no control characters.
ASSUME ForgingAssumption ==
    /\ Ints \subseteq Int /\ {MaxValues, MaxNumber} \subseteq Nat
    /\ Texts \subseteq Seq(0..255)
    /\ AnnotLists \subseteq Seq(Seq((16..255) \ {32}) \ {<<>>})

VARIABLES
    stack,      \* the values that are not yet within another one, with their bytes
    values,     \* how many values there are
    number      \* an amount, a fee or a limit

forgingVars == <<stack, values, number>>

(* A value is <<"int", n>>, <<"string", text>>, <<"bytes", text>>, <<"seq", values>> or
   <<"prim", name, arguments, annots>>, where annots is given or not. *)
NoAnnots == [given |-> FALSE, list |-> <<>>]
Annotated(list) == [given |-> TRUE, list |-> list]
Annots == {NoAnnots} \cup {Annotated(list) : list \in AnnotLists}
Prims == {"Unit", "Left", "Pair", "LAMBDA", "view"}
Arities == [name \in Prims |-> CASE name = "Unit" -> {0} [] name = "Left" -> {1}
                                 [] name = "Pair" -> 2..4 [] name = "LAMBDA" -> {3}
                                 [] name = "view" -> {4}]
opMapping == [name \in Prims |-> CASE name = "Unit" -> 11 [] name = "Left" -> 5
                                   [] name = "Pair" -> 7 [] name = "LAMBDA" -> 49
                                   [] name = "view" -> 145]
entrypointMapping == [default |-> 0, do |-> 2]

ForgingTypeOK ==
    /\ values \in 0..MaxValues /\ Len(stack) <= values
    /\ number \in 0..MaxNumber

ForgingInit == stack = <<>> /\ values = 0 /\ number = 0

-----------------------------------------------------------------------------
(* Forging *)

\* Bound on the bytes of a value: a length has 31 bits, one less than pad has room for.
MaxLength == 2147483647

Bytes4(n) ==
    LET n1 == n \div 256
        n2 == n1 \div 256
    IN  <<n2 \div 256, n2 % 256, n1 % 256, n % 256>>

WithLength(bytes) == Bytes4(Len(bytes)) \o bytes

\* join
Joined(parts) ==
    LET joined[i \in 1..(Len(parts) + 1)] ==
            IF i > Len(parts) THEN <<>> ELSE parts[i] \o joined[i + 1]
    IN  joined[1]

Spaced(list) ==
    LET n == Len(list)
    IN  Joined([i \in 1..n |-> IF i = n THEN list[i] ELSE Append(list[i], 32)])

\* encodeAnnots: joined by a space.
EncodeAnnots(annots) == IF annots.given THEN WithLength(Spaced(annots.list)) ELSE <<>>

\* The arguments of primEncoder, which for some primitives have a length in front, and an
\* empty list of annotations behind them.  The one of Pair is its own list, if it has one.
EncodeArgs(name, args, n, annots) ==
    IF name = "Pair" /\ n > 2
    THEN WithLength(args) \o IF annots.given THEN <<>> ELSE Bytes4(0)
    ELSE IF name \in {"LAMBDA", "view"} THEN WithLength(args) \o Bytes4(0)
    ELSE args

\* valueEncoder, where parts is what it makes of the parts of v, joined.
EncodeValue(v, parts) ==
    LET preamble == 2 * Len(v[3]) + 3 + IF v[4].given THEN 1 ELSE 0
    IN  CASE v[1] = "int" -> <<0>> \o EncodeInt(v[2])
          [] v[1] = "string" -> <<1>> \o WithLength(v[2])
          [] v[1] = "seq" -> <<2>> \o WithLength(parts)
          [] v[1] = "bytes" -> <<10>> \o WithLength(v[2])
          [] v[1] = "prim" -> <<IF preamble > 9 THEN 9 ELSE preamble, opMapping[v[2]]>>
                              \o EncodeArgs(v[2], parts, Len(v[3]), v[4])
                              \o EncodeAnnots(v[4])

\* The byte of an entrypoint; a name that has none is a short string (97 is "a").
EncodeEntrypoint(entrypoint) ==
    IF entrypoint \in DOMAIN entrypointMapping THEN <<entrypointMapping[entrypoint]>>
    ELSE <<255, 1, 97>>

\* Mutated EncodeParameters: left out for every entrypoint.
EncodeParameters_Unit(entrypoint, v, bytes) ==
    IF v[1] = "prim" /\ v[2] = "Unit" THEN <<0>>
    ELSE <<255>> \o EncodeEntrypoint(entrypoint) \o WithLength(bytes)

\* parametersEncoder
EncodeParameters(entrypoint, v, bytes) ==
    IF entrypoint = "default" /\ v[1] = "prim" /\ v[2] = "Unit" THEN <<0>>
    ELSE <<255>> \o EncodeEntrypoint(entrypoint) \o WithLength(bytes)

-----------------------------------------------------------------------------
(* Parsing *)

\* extractRequiredLen: the bytes after their length.  There are not as many as one of 32 bits.
Extract(bytes) ==
    IF Len(bytes) < 4 \/ bytes[1] >= 128 THEN Error
    ELSE LET n == 256 * (256 * (256 * bytes[1] + bytes[2]) + bytes[3]) + bytes[4]
         IN  IF Len(bytes) - 4 < n THEN Error
             ELSE Parsed(SubSeq(bytes, 5, 4 + n), From(bytes, 5 + n))

FirstSpace(text) ==
    CHOOSE n \in DOMAIN text : text[n] = 32 /\ \A i \in 1..(n - 1) : text[i] # 32

\* decodeAnnots: split at the spaces, so that there always is one.
SplitAtSpaces[text \in Seq(Nat)] ==
    IF \A i \in DOMAIN text : text[i] # 32 THEN <<text>>
    ELSE <<SubSeq(text, 1, FirstSpace(text) - 1)>>
         \o SplitAtSpaces[From(text, FirstSpace(text) + 1)]

\* A leaf with a length, or an error.
Leaf4(tag, bytes) ==
    LET text == Extract(bytes)
    IN  IF ~text.ok THEN Error ELSE Parsed(<<tag, text.value>>, text.rest)

Skip4(bytes) == IF Len(bytes) < 4 THEN Error ELSE Parsed(<<>>, From(bytes, 5))

ReadAnnots(bytes) ==
    LET text == Extract(bytes)
    IN  IF ~text.ok THEN Error ELSE Parsed(SplitAtSpaces[text.value], text.rest)

\* One value more behind those that were read; reader is what reads a value.
ReadOneMore(reader, read) ==
    LET next == reader[read.rest]
    IN  IF ~read.ok \/ ~next.ok THEN Error
        ELSE Parsed(Append(read.value, next.value), next.rest)

\* As many values as are told, one behind the other.
ReadValues(reader, bytes, n) ==
    LET read[i \in 0..n] ==
            IF i = 0 THEN Parsed(<<>>, bytes) ELSE ReadOneMore(reader, read[i - 1])
    IN  read[n]

\* As many values as there are.  Each has a byte at least.
ReadAll(reader, bytes) ==
    LET read[i \in 0..Len(bytes)] ==
            IF i = 0 THEN Parsed(<<>>, bytes)
            ELSE LET before == read[i - 1]
                 IN  IF before.rest = <<>> THEN before ELSE ReadOneMore(reader, before)
    IN  read[Len(bytes)]

\* The values that follow their length.
ReadInner(reader, bytes) ==
    LET inner == Extract(bytes)
        all == ReadAll(reader, inner.value)
    IN  IF ~inner.ok \/ ~all.ok THEN Error ELSE Parsed(all.value, inner.rest)

\* Arguments with a length in front, which is not looked at, and one behind.
ReadWrapped(reader, bytes, n) ==
    LET begin == Skip4(bytes)
        args == ReadValues(reader, begin.rest, n)
        end == Skip4(args.rest)
    IN  IF ~begin.ok \/ ~args.ok \/ ~end.ok THEN Error ELSE Parsed(args.value, end.rest)

\* The arguments of a primitive and, behind them, what may be its annotations.
ReadArgs(reader, name, bytes, n) ==
    CASE name = "view" -> ReadWrapped(reader, bytes, 4)
      [] name = "Pair" /\ n > 2 -> ReadInner(reader, bytes)
      [] name = "LAMBDA" -> ReadWrapped(reader, bytes, n)
      [] OTHER -> ReadValues(reader, bytes, n)

\* primDecoder, with as many arguments and annotations as the preamble says.  A comb of
\* pairs always has a list of annotations, which may be empty.
ReadPrim(reader, bytes) ==
    LET name == CHOOSE p \in DOMAIN opMapping : opMapping[p] = bytes[2]
        n == (bytes[1] - 3) \div 2
        args == ReadArgs(reader, name, From(bytes, 3), n)
        annots == ReadAnnots(args.rest)
        prim(a, rest) == Parsed(<<"prim", name, args.value, a>>, rest)
    IN  IF \/ Len(bytes) < 2 \/ \A p \in DOMAIN opMapping : opMapping[p] # bytes[2]
           \/ ~args.ok
        THEN Error
        ELSE IF name = "Pair" /\ n > 2
        THEN IF ~annots.ok THEN Error
             ELSE prim(IF annots.value[1] # <<>> THEN Annotated(annots.value) ELSE NoAnnots,
                       annots.rest)
        ELSE IF name = "view" \/ (bytes[1] - 3) % 2 = 0 THEN prim(NoAnnots, args.rest)
        ELSE IF ~annots.ok THEN Error
        ELSE prim(Annotated(annots.value), annots.rest)

\* valueDecoder, where reader is what reads the values within.
ReadWith(reader, bytes) ==
    IF bytes = <<>> THEN Error
    ELSE CASE bytes[1] = 0 -> ReadInt(Tail(bytes))
           [] bytes[1] = 1 -> Leaf4("string", Tail(bytes))
           [] bytes[1] = 10 -> Leaf4("bytes", Tail(bytes))
           [] bytes[1] = 2 ->
                LET all == ReadInner(reader, Tail(bytes))
                IN  IF ~all.ok THEN Error ELSE Parsed(<<"seq", all.value>>, all.rest)
           [] OTHER -> ReadPrim(reader, bytes)

\* The reader of values that have others within them to a depth.
Reader[depth \in Nat] ==
    [bytes \in Seq(Nat) |-> IF depth = 0 THEN Error ELSE ReadWith(Reader[depth - 1], bytes)]

\* valueDecoder: no value is deeper than it has bytes.
ReadValue(bytes) == Reader[Len(bytes)][bytes]

NoParameters == <<"undefined">>

\* parametersDecoder
ReadParameters(bytes) ==
    LET known == \E e \in DOMAIN entrypointMapping : entrypointMapping[e] = bytes[2]
        name == IF known
                THEN CHOOSE e \in DOMAIN entrypointMapping : entrypointMapping[e] = bytes[2]
                ELSE "a"
        inner == Extract(From(bytes, IF known THEN 3 ELSE 4 + bytes[3]))
    IN  IF bytes[1] = 0 THEN Parsed(NoParameters, Tail(bytes))
        ELSE IF ~inner.ok THEN Error
        ELSE Parsed(<<name, ReadValue(inner.value).value>>, inner.rest)

-----------------------------------------------------------------------------
(* Values are built from the leaves up. *)

Leaves == {<<"int", n>> : n \in Ints} \cup {<<"string", t>> : t \in Texts}
          \cup {<<"bytes", t>> : t \in Texts}

\* The value v of these parts with its bytes, and what about it or its parts may not be
\* read back: an empty list of annotations, or one of a LAMBDA or a view.
Forge(v, parts) ==
    [value |-> v,
     bytes |-> EncodeValue(v, Joined([i \in DOMAIN parts |-> parts[i].bytes])),
     empty |-> \/ v[1] = "prim" /\ v[4] = Annotated(<<>>)
               \/ \E i \in DOMAIN parts : parts[i].empty,
     lambda |-> \/ v[1] = "prim" /\ v[2] \in {"LAMBDA", "view"} /\ v[4].given
                \/ \E i \in DOMAIN parts : parts[i].lambda]

\* The last n values of the stack.
Top(n) == SubSeq(stack, Len(stack) - n + 1, Len(stack))
StackValues(parts) == [i \in DOMAIN parts |-> parts[i].value]

Push(v) ==
    /\ values < MaxValues /\ number = 0
    /\ stack' = Append(stack, Forge(v, <<>>))
    /\ values' = values + 1
    /\ UNCHANGED number

\* The last n values become the parts of one.
Wrap(n, v) ==
    /\ values < MaxValues /\ n <= Len(stack) /\ number = 0
    /\ stack' = Append(SubSeq(stack, 1, Len(stack) - n), Forge(v, Top(n)))
    /\ values' = values + 1
    /\ UNCHANGED number

Count ==
    /\ number < MaxNumber /\ stack = <<>>
    /\ number' = number + 1
    /\ UNCHANGED <<stack, values>>

ForgingNext ==
    \/ \E v \in Leaves : Push(v)
    \/ \E n \in 0..Len(stack) : Wrap(n, <<"seq", StackValues(Top(n))>>)
    \/ \E name \in Prims, annots \in Annots : \E n \in Arities[name] :
          Wrap(n, <<"prim", name, StackValues(Top(n)), annots>>)
    \/ Count

ForgingSpec == ForgingInit /\ [][ForgingNext]_forgingVars

-----------------------------------------------------------------------------
(* Properties *)

\* An amount, the parameters behind it, and what follows.
Forged(entrypoint, v, bytes) ==
    Zarith[number] \o EncodeParameters(entrypoint, v, bytes) \o <<200>>

\* They are read back, if a length can tell how many bytes they have.
ReadBack(entrypoint, v, bytes) ==
    LET amount == ReadZarith(Forged(entrypoint, v, bytes))
        parameters == ReadParameters(amount.rest)
    IN  Len(bytes) <= MaxLength =>
            /\ amount.value = number
            /\ parameters.rest = <<200>>
            /\ parameters.value = IF entrypoint = "default" /\ v[1] = "prim" /\ v[2] = "Unit"
                                  THEN NoParameters ELSE <<entrypoint, v>>

Entrypoints == {"default", "do", "a"}

\* Every number comes back, as an amount and as an int of either sign, at each length of
\* its bytes.  Zero is among the values below.
NumbersReadBack ==
    number > 0 => \A e \in Entrypoints, n \in {number, -number} :
                      ReadBack(e, <<"int", n>>, EncodeValue(<<"int", n>>, <<>>))

\* So does every other value, within any others, and the parser ends where the forger did.
\* No list of annotations is given and empty: it would come back with one empty annotation.
\* No LAMBDA and no view has annotations.
PlainValuesReadBack ==
    /\ NumbersReadBack
    /\ stack # <<>> =>
          LET last == stack[Len(stack)]
          IN  ~last.empty /\ ~last.lambda =>
                  \A e \in Entrypoints : ReadBack(e, last.value, last.bytes)

\* "The forged values can then be parsed back into its JSON counterpart": so does a value
\* with a LAMBDA that has annotations.
ValuesReadBack ==
    stack # <<>> =>
        LET last == stack[Len(stack)]
        IN  ~last.empty => \A e \in Entrypoints : ReadBack(e, last.value, last.bytes)
=============================================================================
