------------------------------- MODULE Values -------------------------------
(***************************************************************************)
(* Values on their way (_codec.py, schema.py, value_codec.py): a Python value *)
(* is lowered to JSON, admitted by the schema of its annotation and lifted    *)
(* back by the annotation of the receiver.  A value, a JSON value and an      *)
(* annotation are trees <<label, child, ...>>; Python's list and dict are      *)
(* JSON's array and object.  Of each kind there are as many values as the     *)
(* conversions tell apart.                                                    *)
(***************************************************************************)
EXTENDS Naturals, Sequences, FiniteSets, SequencesExt

VARIABLES
    leg,            \* how far the value is
    route,          \* what it is to the function
    annotation,
    given,          \* the value as it is given
    wire,           \* as it travels
    arrived         \* as it is received

valueVars == <<leg, route, annotation, given, wire, arrived>>

Nil == <<"none">>

ValuesInit ==
    /\ leg = "declare" /\ route = "none"
    /\ annotation = Nil /\ given = Nil /\ wire = Nil /\ arrived = Nil

----------------------------------------------------------------------------
(* Annotations that schema._to_schema() accepts                             *)

\* A container without arguments; what is so of Sequence is of Iterable, of dict of Mapping.
BareLists == {"bare list", "bare tuple", "bare sequence"}
Bare == BareLists \cup {"bare dict"}

\* An enum of strings, an enum of integers (level), and a StreamFrame among them; "any" is
\* also a parameter without annotation.
Scalars ==
    {<<label>> : label \in {"str", "int", "float", "none", "any", "bytes", "enum", "level",
                             "array", "frame"} \cup Bare}

Unary == {"list", "sequence", "iterable", "set", "tuples", "dict", "record"}

Of(labels, items) == {<<label, item>> : label \in labels, item \in items}
Both(label, left, right) == {<<label, a, b>> : a \in left, b \in right}

OneDeep(items) == Of(Unary, items) \cup Both("tuple", items, items)

\* A container without arguments stands below one constructor only.
Named == {a \in Scalars : a[1] \notin Bare}

Annotations ==
    Scalars \cup OneDeep(Scalars) \cup Both("union", Scalars, Scalars)
        \cup Both("union", Named, OneDeep(Named)) \cup Both("union", OneDeep(Named), Named)
        \cup Of(Unary, Both("union", Named, Named)) \cup Of(Unary, Of(Unary, Named))

----------------------------------------------------------------------------
(* Python values                                                            *)

Lists(tag, items) == {<<tag>>} \cup {<<tag, v>> : v \in items}

\* A list, a tuple, a frozen dataclass and an enum member are told apart; a list, a
\* dict and an ndarray cannot be members of a set.
Hashable(v) == v[1] \notin {"list", "dict", "numbered", "ndarray"}

\* Where the annotation says nothing: JSON, or what is richer than JSON.
Anything == {<<"plain">>, Nil, <<"bytes">>, <<"tuple", <<"plain">>>>, <<"record", <<"plain">>>>}

\* StreamFrames, of a media type that may name JSON.
FrameInstances == {<<"frame", <<"media">>>>, <<"frame", <<"geo+json">>>>}

RECURSIVE Instances(_)
Instances(a) ==
    CASE a[1] = "str"   -> {<<"plain">>, <<"code">>}    \* the latter is also base64
      [] a[1] = "int"   -> {<<"1">>}
      [] a[1] = "float" -> {<<"1.5">>, <<"nan">>}
      [] a[1] = "none"  -> {Nil}
      [] a[1] = "any"   -> Anything
      [] a[1] = "bytes" -> {<<"bytes">>}
      [] a[1] = "enum"  -> {<<"Color.RED">>}
      [] a[1] = "level" -> {<<"Level.LOW">>}
      [] a[1] = "frame" -> FrameInstances
      [] a[1] = "array" -> {<<"ndarray">>, <<"huge">>}
      [] a[1] = "bare list"     -> Lists("list", Anything)
      [] a[1] = "bare tuple"    -> Lists("tuple", Anything)
      [] a[1] = "bare sequence" -> Lists("list", Anything) \cup Lists("tuple", Anything)
      [] a[1] = "bare dict"     -> Lists("dict", Anything) \cup Lists("numbered", Anything)
      [] a[1] = "list" -> Lists("list", Instances(a[2]))
      [] a[1] \in {"sequence", "iterable"} ->
           Lists("list", Instances(a[2])) \cup Lists("tuple", Instances(a[2]))
      [] a[1] = "set"    -> Lists("set", {v \in Instances(a[2]) : Hashable(v)})
      [] a[1] = "tuples" -> Lists("tuple", Instances(a[2]))
      [] a[1] = "tuple"  -> Both("tuple", Instances(a[2]), Instances(a[3]))
      [] a[1] = "dict"   -> Lists("dict", Instances(a[2]))
      [] a[1] = "record" -> {<<"record", v>> : v \in Instances(a[2])}
      [] a[1] = "union"  -> Instances(a[2]) \cup Instances(a[3])

Map(tree, F(_)) == [i \in 1 .. Len(tree) |-> IF i = 1 THEN tree[1] ELSE F(tree[i])]
Label(tree, tag) == [tree EXCEPT ![1] = tag]

----------------------------------------------------------------------------
(* to_jsonable() and dumps_wire()                                           *)

\* What the codec of an array makes of it.
Envelope == <<"dict", <<"dtype">>, <<"shape">>, <<"data">>>>

\* The members of an enum are lowered to their values, keys that are numbers to strings.
RECURSIVE Lower(_)
Lower(v) ==
    CASE v[1] = "bytes"     -> <<"code">>
      [] v[1] = "Color.RED" -> <<"red">>
      [] v[1] = "Level.LOW" -> <<"1">>
      [] v[1] = "frame"     -> <<"dict", <<"code">>, v[2]>>
      [] v[1] = "ndarray"   -> Envelope
      [] v[1] \in {"list", "tuple", "set"} -> Label(Map(v, Lower), "list")
      [] v[1] \in {"dict", "numbered", "record"} -> Label(Map(v, Lower), "dict")
      [] OTHER -> v

\* An array over the limit is refused by its codec, a number that is not finite by
\* the JSON writer.
RECURSIVE Encodable(_)
Encodable(v) ==
    /\ v[1] \notin {"huge", "nan"}
    /\ \A i \in 2 .. Len(v) : Encodable(v[i])

----------------------------------------------------------------------------
(* The schema that _to_schema() derives, as the daemon enforces it          *)

Strings == {"plain", "code", "red", "char", "dtype", "data", "media", "geo+json"}

RECURSIVE Validates(_, _)
Validates(a, json) ==
    CASE a[1] = "any" -> TRUE
      [] a[1] \in {"str", "bytes", "frame"} -> json[1] \in Strings
      [] a[1] \in {"int", "level"} -> json[1] = "1"
      [] a[1] = "bare dict" -> json[1] = "dict"
      [] a[1] \in BareLists -> json[1] = "list"
      [] a[1] = "float" -> json[1] \in {"1", "1.5"}
      [] a[1] = "none"  -> json = Nil
      [] a[1] = "enum"  -> json[1] = "red"
      [] a[1] = "array" -> json = Envelope
      [] a[1] \in {"list", "sequence", "iterable", "set", "tuples"} ->
           json[1] = "list" /\ \A i \in 2 .. Len(json) : Validates(a[2], json[i])
      [] a[1] = "tuple" ->
           json[1] = "list" /\ Len(json) = 3 /\ \A i \in 2 .. 3 : Validates(a[i], json[i])
      [] a[1] = "dict" ->
           json[1] = "dict" /\ \A i \in 2 .. Len(json) : Validates(a[2], json[i])
      [] a[1] = "record" -> json[1] = "dict" /\ Len(json) = 2 /\ Validates(a[2], json[2])
      [] a[1] = "union" -> Validates(a[2], json) \/ Validates(a[3], json)

----------------------------------------------------------------------------
(* rehydrate()                                                              *)

Raises == <<"raises">>

\* A string is a sequence of strings, too.
Elements(json) == IF json[1] = "list" THEN Tail(json) ELSE <<<<"char">>>>
IsSequence(json) == json[1] = "list" \/ json[1] \in Strings

\* Mutant: what was lifted stays a list.
StaysList(tag, items) ==
    IF Raises \in ToSet(items) THEN Raises
    ELSE <<IF tag \in {"set", "tuple"} THEN "list" ELSE tag>> \o items

Rebuilt(tag, items) == IF Raises \in ToSet(items) THEN Raises ELSE <<tag>> \o items

Distinct(items) ==
    IF \A v \in ToSet(items) : Hashable(v) THEN SetToSeq(ToSet(items)) ELSE <<Raises>>

Codec(json)  == IF json = Envelope THEN <<"ndarray">> ELSE Raises
Base64(json) ==
    CASE json[1] = "code"     -> <<"bytes">>
      [] json[1] \in Strings -> Raises
      [] OTHER                -> json
Member(json, value, member) == IF json[1] = value THEN <<member>> ELSE Raises
Framed(json) ==
    IF Len(json) = 3 /\ json[2] = <<"code">> THEN <<"frame", json[3]>> ELSE Raises

RECURSIVE Lift(_, _)
Lift(json, a) ==
    LET items(b) == [i \in 1 .. Len(Elements(json)) |-> Lift(Elements(json)[i], b)]
        fields == [i \in 1 .. Len(json) - 1 |-> Lift(json[i + 1], a[2])]
    IN  CASE a[1] = "any" \/ a[1] \in Bare \/ json = Nil -> json
          [] a[1] = "array" -> Codec(json)
          [] a[1] = "bytes" -> Base64(json)
          [] a[1] = "union" ->
               LET arms   == SelectSeq(Tail(a), LAMBDA b : b # Nil)
                   lifted == SelectSeq([i \in DOMAIN arms |-> Lift(json, arms[i])],
                                       LAMBDA v : v # Raises)
               IN  IF lifted = <<>> THEN json ELSE Head(lifted)
          [] a[1] = "tuples" /\ IsSequence(json) -> Rebuilt("tuple", items(a[2]))
          [] a[1] = "tuple" /\ IsSequence(json) ->
               Rebuilt("tuple", [i \in 1 .. Len(Elements(json)) \cap {1, 2} |->
                                   Lift(Elements(json)[i], a[i + 1])])
          [] a[1] = "set" /\ IsSequence(json) -> Rebuilt("set", Distinct(items(a[2])))
          [] a[1] \in {"list", "sequence"} /\ json[1] = "list" -> Rebuilt("list", items(a[2]))
          [] a[1] = "dict" /\ json[1] = "dict" -> Rebuilt("dict", fields)
          [] a[1] = "enum"  -> Member(json, "red", "Color.RED")
          [] a[1] = "level" -> Member(json, "1", "Level.LOW")
          [] a[1] = "frame" /\ json[1] = "dict" -> Framed(json)
          [] a[1] = "record" /\ json[1] = "dict" ->
               IF Len(json) = 2 THEN Rebuilt("record", fields) ELSE Raises
          [] OTHER -> json

----------------------------------------------------------------------------
(* The routes                                                               *)

\* encode_value() of an item: a StreamFrame and bytes travel as they are.
Encode(v) ==
    CASE v \in FrameInstances -> v
      [] v = <<"bytes">> -> <<"octets">>
      [] OTHER -> Lower(v)

\* An argument, a member of *items or of **extra, an argument of a function whose
\* annotations the host does not have, what a @remote stub or a library facade returns,
\* or what a stream yields.
Routes == {"argument", "variadic", "keyword", "untyped", "result", "facade", "item"}

Travels(r, v) ==
    CASE r = "item"     -> Encode(v)
      [] r = "variadic" -> <<"list", Lower(v)>>
      [] OTHER          -> Lower(v)

Send(r, a, v) ==
    /\ route' = r /\ annotation' = a /\ given' = v
    /\ IF Encodable(v) THEN leg' = "sent" /\ wire' = Travels(r, v)
       ELSE leg' = "refused" /\ UNCHANGED wire
    /\ UNCHANGED arrived

\* The daemon checks the arguments only.
Enforced(r, a, json) ==
    CASE r \in {"argument", "keyword", "untyped"} -> Validates(a, json)
      [] r = "variadic" -> Validates(<<"list", a>>, json)
      [] OTHER -> TRUE

\* HostedFunction._bind_kwargs() lifts *items as one value, by the annotation of a member.
Spread(lifted) == IF lifted[1] = "list" THEN lifted[2] ELSE Raises

\* _schema_fallback(): the schema tells no more than base64.
Fallback(json, a) == IF a[1] = "bytes" THEN Base64(json) ELSE json

\* library._annotation(): the annotation a facade makes of the schema.
RECURSIVE Rendered(_)
Rendered(a) ==
    CASE a[1] \in {"str", "bytes", "frame"} -> <<"str">>
      [] a[1] \in {"int", "float"}   -> a
      [] a[1] \in {"list", "sequence", "iterable", "set", "tuples"} -> <<"list", Rendered(a[2])>>
      [] a[1] = "tuple" -> <<"list", <<"any">>>>
      [] a[1] = "dict"  -> <<"dict", Rendered(a[2])>>
      [] a[1] \in BareLists -> <<"list", <<"any">>>>
      [] a[1] \in {"record", "array", "bare dict"} -> <<"dict", <<"any">>>>
      [] OTHER -> <<"any">>

\* Stream.__iter__(): only what is not JSON stays a StreamFrame.
Decode(item) == IF item = <<"frame", <<"geo+json">>>> THEN <<"value">> ELSE item

Received(r, a, json) ==
    CASE r \in {"argument", "result"} -> Lift(json, a)
      [] r = "variadic" -> Spread(Lift(json, a))
      [] r = "keyword"  -> json
      [] r = "untyped"  -> Fallback(json, a)
      [] r = "facade"   -> Lift(json, Rendered(a))
      [] r = "item"     -> Decode(json)

Arrive ==
    /\ leg = "sent"
    /\ LET value == Received(route, annotation, wire)
       IN  IF Enforced(route, annotation, wire) /\ value # Raises
           THEN leg' = "arrived" /\ arrived' = value
           ELSE leg' = "refused" /\ UNCHANGED arrived
    /\ UNCHANGED <<route, annotation, given, wire>>

ValuesNext ==
    \/ leg = "declare" /\ \E a \in Annotations : \E v \in Instances(a), r \in Routes : Send(r, a, v)
    \/ Arrive

----------------------------------------------------------------------------
(* Properties                                                               *)

\* The values of the annotation are not what JSON gives back.
RECURSIVE Lifted(_)
Lifted(a) ==
    \/ a[1] \in {"bytes", "enum", "level", "array", "frame", "set", "tuple", "tuples", "record"}
    \/ \E i \in 2 .. Len(a) : Lifted(a[i])

RECURSIVE Kinds(_)
Kinds(a) ==
    CASE a[1] \in {"str", "bytes", "enum"} -> {"string"}
      [] a[1] \in {"int", "float", "level"} -> {"number"}
      [] a[1] \in {"dict", "bare dict", "record", "array", "frame"} -> {"object"}
      [] a[1] \in {"list", "sequence", "iterable", "set", "tuple", "tuples"}
                    \cup BareLists -> {"array"}
      [] a[1] = "none"  -> {}
      [] a[1] = "any"   -> {"string", "number", "object", "array"}
      [] a[1] = "union" -> Kinds(a[2]) \cup Kinds(a[3])

\* rehydrate() tries the arms of a union in order and an arm that does not fit rarely
\* refuses; it does not look into an Iterable.  An annotation is lifted right if the
\* arm that needs lifting comes first, and no other arm looks like it in JSON.
Takes(a) == IF a[1] \in {"set", "tuple", "tuples"} THEN Kinds(a) \cup {"string"} ELSE Kinds(a)

RECURSIVE Decidable(_)
Decidable(a) ==
    /\ \A i \in 2 .. Len(a) : Decidable(a[i])
    /\ a[1] = "iterable" => ~Lifted(a[2])
    /\ a[1] = "union" /\ Nil \notin {a[2], a[3]} /\ Lifted(a) =>
         /\ Takes(a[2]) \cap Kinds(a[3]) = {}
         /\ Lifted(a[3]) => a[2][1] \in {"enum", "level", "array"}

\* What JSON gives back as it was: numbers, strings, lists, dicts with string keys.
RECURSIVE IsJson(_)
IsJson(v) ==
    /\ v[1] \notin {"bytes", "Color.RED", "Level.LOW", "ndarray", "frame", "tuple", "set",
                     "record", "numbered"}
    /\ \A i \in 2 .. Len(v) : IsJson(v[i])

\* Nothing richer than JSON stands where the annotation does not say what it is: under Any
\* or no annotation, in a bare container (a bare tuple is one itself), and as the tuple
\* that is given for a Sequence or an Iterable.
RECURSIVE Described(_, _)
Described(a, v) ==
    CASE a[1] \in {"any"} \cup Bare -> IsJson(v)
      [] a[1] = "union" -> \A arm \in {a[2], a[3]} : v \in Instances(arm) => Described(arm, v)
      [] a[1] = "tuple" -> Described(a[2], v[2]) /\ Described(a[3], v[3])
      [] Len(a) = 2 ->
           /\ a[1] \in {"sequence", "iterable"} => v[1] = "list"
           /\ \A i \in 2 .. Len(v) : Described(a[2], v[i])
      [] OTHER -> TRUE

RECURSIVE HoldsFrame(_)
HoldsFrame(v) == v[1] = "frame" \/ \E i \in 2 .. Len(v) : HoldsFrame(v[i])

\* Members of *items and **extra are not lifted, nor is anything but bytes without
\* annotations.  The schema of a StreamFrame speaks of what is yielded: as an argument it
\* is refused, and in the result of a facade it stays the object it travelled as.
Restores(r, a, v) ==
    /\ Described(a, v)
    /\ CASE r = "argument" -> Decidable(a) /\ ~HoldsFrame(v)
         [] r = "result"   -> Decidable(a)
         [] r \in {"variadic", "keyword"} -> ~Lifted(a)
         [] r = "untyped"  -> ~Lifted(a) \/ a[1] = "bytes"
         [] OTHER -> FALSE

\* A value that its annotation describes (Described), in an annotation that can be lifted
\* on its route (Decidable, Restores), reaches the function, and comes back to a caller
\* with the same annotation, unchanged, or is refused before it is sent; what a library
\* facade returns is what it is annotated with, StreamFrames apart; bytes that are yielded,
\* bare or as a StreamFrame whose type does not name JSON, stay so.
ValuesAgree ==
    /\ leg = "refused" /\ Restores(route, annotation, given) => ~Encodable(given)
    /\ leg = "arrived" =>
         /\ Restores(route, annotation, given) => arrived = given
         /\ route = "facade" /\ ~HoldsFrame(given) => Validates(Rendered(annotation), arrived)
         /\ route = "item" /\ given \in {<<"bytes">>, <<"frame", <<"media">>>>}
              => arrived \in {<<"octets">>, given}
=============================================================================
