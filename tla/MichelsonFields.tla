--------------------------- MODULE MichelsonFields ---------------------------
(***************************************************************************)
(* The names that the Michelson encoder gives to the fields of pairs and   *)
(* the branches of ors (taquito-michelson-encoder, tokens/pair.ts, or.ts): *)
(* the annotation, or else a number that is counted on from the left part. *)
(* Values become objects by these names and objects become values again;   *)
(* the signatures list the labels and values that a call takes instead.    *)
(* The state is a type that is built bottom up.  The names are told apart, *)
(* all leaves are ints.                                                    *)
(***************************************************************************)
EXTENDS Naturals, Sequences, FiniteSets, TLC

CONSTANTS
    FieldAnnots,    \* the annotations, none of them a numeral
    MaxFields       \* bound: leaves of a type

ASSUME FieldsAssumption == MaxFields \in Nat /\ FieldAnnots \subseteq STRING

VARIABLES
    types,      \* the types that are not part of another one yet
    fields      \* how many leaves there are

fieldsVars == <<types, fields>>

FieldsTypeOK ==
    /\ fields \in 0..MaxFields /\ Len(types) <= fields
    /\ \A i \in DOMAIN types : /\ types[i].prim \in {"int", "pair", "or"}
                               /\ types[i].annot \in FieldAnnots \cup {""}

FieldsInit == types = <<>> /\ fields = 0

-----------------------------------------------------------------------------
\* collapse: a comb of more than two is one of two, the second one without a name.
TypeArgs(t) ==
    IF Len(t.args) > 2 THEN <<t.args[1], [t EXCEPT !.annot = "", !.args = Tail(@)]>>
    ELSE t.args

\* The same of a value, whose arguments are behind its primitive.
ValueArgs(v) ==
    IF Len(v) > 3 THEN <<v[2], <<"Pair">> \o SubSeq(v, 3, Len(v))>> ELSE <<v[2], v[3]>>

\* annot()
Name(t, idx) == IF t.annot # "" THEN t.annot ELSE ToString(idx)

\* traversal: a part of the same kind that has no name is part of the same object.
Field(t, part, idx, value) ==
    IF part.prim = t.prim /\ part.annot = "" THEN value ELSE (Name(part, idx) :> value)

\* ExtractSchema, with the right part over the left one.  An or counts on from an or
\* without a name only.
RECURSIVE Schema(_, _)
Size(t, idx) == Cardinality(DOMAIN Schema(t, idx))

PairSchema(t, idx) ==
    LET args == TypeArgs(t)
        next == idx + IF args[1].prim = "pair" THEN Size(args[1], idx) ELSE 1
    IN  Field(t, args[2], next, Schema(args[2], next))
            @@ Field(t, args[1], idx, Schema(args[1], idx))

OrSchema(t, idx) ==
    LET args == t.args
        next == idx + IF args[1].prim = "or" /\ args[1].annot = "" THEN Size(args[1], idx)
                      ELSE 1
    IN  Field(t, args[2], next, Schema(args[2], next))
            @@ Field(t, args[1], idx, Schema(args[1], idx))

Schema(t, idx) == CASE t.prim = "int" -> <<>>
                    [] t.prim = "pair" -> PairSchema(t, idx)
                    [] t.prim = "or" -> OrSchema(t, idx)

\* Mutated NextIndex: a part on the left counts for one.
NextIndex_ByOne(t, idx) == idx + 1

\* Where the right part counts from, in all that follows.
NextIndex(t, idx) ==
    LET left == TypeArgs(t)[1]
    IN  idx + IF left.prim = t.prim THEN Size(left, idx) ELSE 1

\* A pair without a name in a pair has no object of its own.
Whole(t, part) == t.prim = "pair" /\ part.prim = "pair" /\ part.annot = ""

\* Execute: a value becomes an object.
RECURSIVE Execute(_, _, _)
ExecutePair(t, idx, v) ==
    LET args == TypeArgs(t)
        members(part, i, value) ==
            IF Whole(t, part) THEN Execute(part, i, value)[2]
            ELSE Name(part, i) :> Execute(part, i, value)
    IN  <<"object", members(args[2], NextIndex(t, idx), ValueArgs(v)[2])
                        @@ members(args[1], idx, ValueArgs(v)[1])>>

ExecuteOr(t, idx, v) ==
    LET branch(part, i) ==
            IF part.prim = "or" THEN Execute(part, i, v[2])
            ELSE <<"object", Name(part, i) :> Execute(part, i, v[2])>>
    IN  IF v[1] = "Left" THEN branch(t.args[1], idx) ELSE branch(t.args[2], NextIndex(t, idx))

Execute(t, idx, v) == CASE t.prim = "int" -> v
                        [] t.prim = "pair" -> ExecutePair(t, idx, v)
                        [] t.prim = "or" -> ExecuteOr(t, idx, v)

Thrown == <<"thrown">>
Null == <<"null">>

Member(o, name) ==
    IF o[1] = "object" /\ name \in DOMAIN o[2] THEN o[2][name] ELSE <<"undefined">>

\* EncodeObject: an object becomes a value.
RECURSIVE EncodeObject(_, _, _)
EncodePair(t, idx, o) ==
    LET field(part, i) ==
            EncodeObject(part, i, IF Whole(t, part) THEN o ELSE Member(o, Name(part, i)))
    IN  <<"Pair", field(TypeArgs(t)[1], idx), field(TypeArgs(t)[2], NextIndex(t, idx))>>

\* The branch is looked for by the first name of the object, and in the ors within.
EncodeOr(t, idx, o) ==
    LET left == t.args[1]
        right == t.args[2]
        next == NextIndex(t, idx)
        label == CHOOSE name \in DOMAIN o[2] : TRUE
        named(part, i) == part.prim # "or" /\ Name(part, i) = label
        within(part, i) == IF part.prim = "or" THEN EncodeObject(part, i, o) ELSE Null
    IN  IF o[1] # "object" THEN Thrown
        ELSE IF named(left, idx) THEN <<"Left", EncodeObject(left, idx, o[2][label])>>
        ELSE IF named(right, next) THEN <<"Right", EncodeObject(right, next, o[2][label])>>
        ELSE IF within(left, idx) # Null THEN <<"Left", within(left, idx)>>
        ELSE IF within(right, next) # Null THEN <<"Right", within(right, next)>>
        ELSE Null

EncodeObject(t, idx, o) == CASE t.prim = "int" -> IF o[1] = "Int" THEN o ELSE Thrown
                             [] t.prim = "pair" -> EncodePair(t, idx, o)
                             [] t.prim = "or" -> EncodeOr(t, idx, o)

\* Encode: the arguments of a call, labels and values, become a value.  What is not used
\* is left for the next part.
RECURSIVE EncodeCall(_, _, _)
Encoded(value, rest) == [value |-> value, rest |-> rest]

EncodeCallPair(t, idx, given) ==
    LET left == EncodeCall(TypeArgs(t)[1], idx, given)
        right == EncodeCall(TypeArgs(t)[2], NextIndex(t, idx), left.rest)
    IN  Encoded(<<"Pair", left.value, right.value>>, right.rest)

EncodeCallOr(t, idx, given) ==
    LET left == t.args[1]
        right == t.args[2]
        next == NextIndex(t, idx)
        named(part, i) ==
            /\ part.prim # "or"
            /\ given # <<>> /\ Head(given) = <<"label", Name(part, i)>>
        found(part, i) == part.prim = "or" /\ EncodeCall(part, i, given).value # Null
        side(tag, part, i, rest) ==
            LET e == EncodeCall(part, i, rest) IN Encoded(<<tag, e.value>>, e.rest)
    IN  IF named(left, idx) THEN side("Left", left, idx, Tail(given))
        ELSE IF named(right, next) THEN side("Right", right, next, Tail(given))
        ELSE IF found(left, idx) THEN side("Left", left, idx, given)
        ELSE IF found(right, next) THEN side("Right", right, next, given)
        ELSE Encoded(Null, given)

EncodeCall(t, idx, given) ==
    CASE t.prim = "int" -> IF given # <<>> /\ Head(given)[1] = "Int"
                           THEN Encoded(Head(given), Tail(given)) ELSE Encoded(Thrown, given)
      [] t.prim = "pair" -> EncodeCallPair(t, idx, given)
      [] t.prim = "or" -> EncodeCallOr(t, idx, given)

\* ExtractSignature: what the calls take, with <<"Int", "">> for a value.  A pair does not
\* count on from a pair, but from an or.
RECURSIVE Signatures(_, _)
PairSignatures(t, idx) ==
    LET args == TypeArgs(t)
        next == idx + IF args[1].prim = "or" THEN Size(args[1], idx) ELSE 1
    IN  {left \o right : left \in Signatures(args[1], idx), right \in Signatures(args[2], next)}

OrSignatures(t, idx) ==
    LET branch(part, i) ==
            IF part.prim = "or" THEN Signatures(part, i)
            ELSE {<< <<"label", Name(part, i)>> >> \o sig : sig \in Signatures(part, i)}
    IN  branch(t.args[1], idx) \cup branch(t.args[2], NextIndex(t, idx))

Signatures(t, idx) == CASE t.prim = "int" -> {<< <<"Int", "">> >>}
                        [] t.prim = "pair" -> PairSignatures(t, idx)
                        [] t.prim = "or" -> OrSignatures(t, idx)

-----------------------------------------------------------------------------
Annot == FieldAnnots \cup {""}

AddField(annot) ==
    /\ fields < MaxFields
    /\ types' = Append(types, [prim |-> "int", annot |-> annot, args |-> <<>>])
    /\ fields' = fields + 1

\* The last types become the arguments of one, a comb if they are three.
Combine(prim, annot, n) ==
    /\ n <= Len(types) /\ (prim = "or" => n = 2)
    /\ LET rest == Len(types) - n
       IN  types' = Append(SubSeq(types, 1, rest),
                           [prim |-> prim, annot |-> annot,
                            args |-> SubSeq(types, rest + 1, Len(types))])
    /\ UNCHANGED fields

FieldsNext ==
    \E annot \in Annot :
        \/ AddField(annot)
        \/ \E prim \in {"pair", "or"}, n \in 2..3 : Combine(prim, annot, n)

FieldsSpec == FieldsInit /\ [][FieldsNext]_fieldsVars

-----------------------------------------------------------------------------
(* Properties *)

\* The values of a type.  A leaf has its place in the type, or no place if that is "".
RECURSIVE ValuesOf(_, _)
ValuesOf(t, place) ==
    LET at(i) == IF place = "" THEN "" ELSE place \o ToString(i)
        of(i) == ValuesOf(t.args[i], at(i))
    IN  CASE t.prim = "int" -> {<<"Int", place>>}
          [] t.prim = "or" -> {<<"Left", v>> : v \in of(1)} \cup {<<"Right", v>> : v \in of(2)}
          [] Len(t.args) = 2 -> {<<"Pair", v, w>> : v \in of(1), w \in of(2)}
          [] OTHER -> {<<"Pair", v, w, x>> : v \in of(1), w \in of(2), x \in of(3)}

\* A value with all pairs in twos.
RECURSIVE InTwos(_)
InTwos(v) ==
    CASE v[1] = "Int" -> v
      [] v[1] = "Pair" -> <<"Pair", InTwos(ValueArgs(v)[1]), InTwos(ValueArgs(v)[2])>>
      [] OTHER -> <<v[1], InTwos(v[2])>>

\* The types whose names are those of one object: the parts of a pair without a name and
\* all the ors within an or are taken apart.
RECURSIVE Group(_)
Group(t) ==
    LET of(part) == IF part.prim = t.prim /\ (t.prim = "or" \/ part.annot = "")
                    THEN Group(part) ELSE <<part>>
    IN  of(TypeArgs(t)[1]) \o of(TypeArgs(t)[2])

\* No annotation is there twice in an object.
RECURSIVE Distinct(_)
Distinct(t) ==
    t.prim = "int" \/
        LET g == Group(t)
        IN  /\ \A i, j \in DOMAIN g :
                  i # j /\ g[i].annot # "" => g[i].annot # g[j].annot
            /\ \A i \in DOMAIN g : Distinct(g[i])

\* Every field has an annotation.
RECURSIVE AllNamed(_)
AllNamed(t) ==
    t.prim = "int" \/
        LET g == Group(t)
        IN  \A i \in DOMAIN g : g[i].annot # "" /\ AllNamed(g[i])

\* No part with a name has the kind of the one around it, where its names are counted one
\* way for the schema and the others (an or), or counted although they are in an object of
\* their own (on the left of a pair).
RECURSIVE NoneWithin(_)
NoneWithin(t) ==
    t.prim = "int" \/
        LET args == TypeArgs(t)
        IN  \A i \in 1..2 :
              /\ args[i].prim = t.prim /\ args[i].annot # "" => t.prim = "pair" /\ i = 2
              /\ NoneWithin(args[i])

\* Every value comes back from its object.
Reads(t) ==
    \A v \in ValuesOf(t, "1") : EncodeObject(t, 0, Execute(t, 0, v)) = InTwos(v)

\* The signatures are encoded, with nothing left over, to all the alternatives of the type.
Calls(t) ==
    /\ \A sig \in Signatures(t, 0) : EncodeCall(t, 0, sig).rest = <<>>
    /\ {EncodeCall(t, 0, sig).value : sig \in Signatures(t, 0)}
           = {InTwos(v) : v \in ValuesOf(t, "")}

\* Numbers and annotations never collide, so that values come back from their objects
\* and calls are made as the signatures say, when all fields have annotations.  Values
\* also do with fields that have none, but for parts with names within others.  An
\* annotation that is there twice always loses a value.
FieldNamesAgree ==
    types # <<>> =>
        LET t == types[Len(types)]
        IN  IF Distinct(t)
            THEN /\ AllNamed(t) \/ NoneWithin(t) => Reads(t)
                 /\ AllNamed(t) => Calls(t)
            ELSE ~Reads(t)

\* What the docs say of fields: the ones with an annotation have it for a name, the others
\* the index that belongs to them.  Then no two fields have one name, and every value
\* comes back from its object.
FieldsReadBack ==
    types # <<>> => LET t == types[Len(types)] IN Distinct(t) => Reads(t)
=============================================================================
