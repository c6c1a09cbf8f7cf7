----------------------------- MODULE Arguments -----------------------------
(***************************************************************************)
(* The arguments of a remote call: schema.derive() describes a function,     *)
(* Client.call(), a @remote stub or the facade of a library maps what the    *)
(* caller writes onto named arguments, and HostedFunction turns those back    *)
(* into a call of the function.  A value is a number; see Values for types.   *)
(***************************************************************************)
EXTENDS Integers, Sequences, FiniteSets, SequencesExt

CONSTANTS
    MaxArgs         \* bound of the positional arguments of a call

ASSUME ArgumentsAssumption == MaxArgs \in Nat

VARIABLES
    stage,          \* how far the call is
    function,       \* the signature of the function
    call,           \* what the caller writes
    payload,        \* the named arguments on the wire
    bound           \* what the function receives

argumentVars == <<stage, function, call, payload, bound>>

Nothing == [x \in {} |-> 0]

\* The i-th positional argument is i; these are the values given by keyword, and
\* the defaults, of the parameters a and b, the keyword-only k and the unknown x.
Keyword   == [a |-> 11, b |-> 12, k |-> 13, x |-> 14]
DefaultOf == [a |-> -1, b |-> -2, k |-> -3]
Ctx == 0

\* Python lets no parameter without a default follow one with a default.
Signatures ==
    {s \in [positional : {<<>>, <<"a">>, <<"a", "b">>, <<"ctx">>, <<"ctx", "a">>, <<"ctx", "a", "b">>},
            posonly : 0 .. 3,               \* how many of them are positional-only
            var : BOOLEAN,                  \* *items
            keyword : {{}, {"k"}},          \* keyword-only parameters
            open : BOOLEAN,                 \* **kwargs
            optional : SUBSET {"a", "b", "k"},
            hidden : SUBSET {"a", "b"}] :   \* defaults that are not JSON
       /\ s.posonly <= Len(s.positional)
       /\ s.optional \subseteq ToSet(s.positional) \cup s.keyword
       /\ s.hidden \subseteq s.optional
       /\ {"a", "b"} \subseteq ToSet(s.positional) /\ "a" \in s.optional => "b" \in s.optional}

ArgumentsInit ==
    /\ stage = "register" /\ function = <<>> /\ call = <<>>
    /\ payload = Nothing /\ bound = <<>>

----------------------------------------------------------------------------
(* Python's own binding: inspect.Signature.bind()                           *)

Only(f, names) == [n \in DOMAIN f \cap names |-> f[n]]

\* What f gives, and of the rest what g gives.
Over(f, g) == [n \in DOMAIN f \cup DOMAIN g |-> IF n \in DOMAIN f THEN f[n] ELSE g[n]]

Place(s, n) == CHOOSE i \in DOMAIN s.positional : s.positional[i] = n

Parameters(s) == ToSet(s.positional) \cup s.keyword
ByKeyword(s)  == {s.positional[i] : i \in (s.posonly + 1) .. Len(s.positional)} \cup s.keyword
Taken(s, args) == {s.positional[i] : i \in DOMAIN s.positional \cap DOMAIN args}

Binds(s, args, kw) ==
    /\ s.var \/ Len(args) <= Len(s.positional)
    /\ s.open \/ DOMAIN kw \subseteq ByKeyword(s)
    /\ Taken(s, args) \cap ByKeyword(s) \cap DOMAIN kw = {}
    /\ Parameters(s) \subseteq Taken(s, args) \cup s.optional \cup (ByKeyword(s) \cap DOMAIN kw)

Bound(s, args, kw) ==
    [params |-> [n \in Parameters(s) |->
        IF n \in Taken(s, args) THEN args[Place(s, n)]
        ELSE IF n \in ByKeyword(s) \cap DOMAIN kw THEN kw[n] ELSE DefaultOf[n]],
     tail |-> SubSeq(args, Len(s.positional) + 1, Len(args)),
     extra |-> Only(kw, DOMAIN kw \ ByKeyword(s))]

----------------------------------------------------------------------------
(* schema.derive()                                                          *)

\* The Context is injected by the host: the caller does not see it.
TakesContext(s) == s.positional # <<>> /\ Head(s.positional) = "ctx"

Business(s) ==
    IF TakesContext(s)
    THEN [s EXCEPT !.positional = Tail(@), !.posonly = IF @ = 0 THEN 0 ELSE @ - 1]
    ELSE s

Order(s) ==
    Business(s).positional \o (IF s.var THEN <<"items">> ELSE <<>>) \o SetToSeq(s.keyword)

Required(s) == Parameters(Business(s)) \ s.optional

Advertised(s) == Only(DefaultOf, s.optional \ s.hidden)

\* Registering the function fixes its schema.
Register ==
    /\ stage = "register" /\ stage' = "call"
    /\ function' \in Signatures
    /\ UNCHANGED <<call, payload, bound>>

----------------------------------------------------------------------------
(* The caller                                                               *)

\* Client._named_arguments(): the names the positional arguments are mapped to.
Fixed(s) == IF s.var THEN Business(s).positional ELSE Order(s)

Mapped(s, args) == {Fixed(s)[i] : i \in DOMAIN Fixed(s) \cap DOMAIN args}

\* Without the schema of the target, only keywords can be sent.
Maps(s, known, args, kw) ==
    args # <<>> =>
      /\ known
      /\ s.var \/ Len(args) <= Len(Order(s))
      /\ (Mapped(s, args) \cup (IF s.var THEN {"items"} ELSE {})) \cap DOMAIN kw = {}

NamedArguments(s, known, args, kw) ==
    LET spread == [n \in Mapped(s, args) |-> args[CHOOSE i \in DOMAIN Fixed(s) : Fixed(s)[i] = n]]
        tail   == SubSeq(args, Len(Fixed(s)) + 1, Len(args))
        rest   == IF tail = <<>> THEN Nothing ELSE [n \in {"items"} |-> tail]
        filled == IF known THEN Advertised(s) ELSE Nothing
    IN  Over(kw, Over(spread, Over(rest, filled)))

Write(route, known, args, kw) ==
    call' = [route |-> route, known |-> known, args |-> args, kw |-> kw]

CallClient(known, args, kw) ==
    /\ Write("client", known, args, kw)
    /\ IF Maps(function, known, args, kw)
       THEN stage' = "wire" /\ payload' = NamedArguments(function, known, args, kw)
       ELSE stage' = "refused" /\ UNCHANGED payload
    /\ UNCHANGED <<function, bound>>

\* RemoteFunction._bind(): Python binds the call to the stub, with the defaults,
\* and the variadics are laid flat.
Flat(s, args, kw) ==
    LET b == Bound(Business(s), args, kw)
    IN  Over(b.extra, Over(b.params, IF s.var THEN [n \in {"items"} |-> b.tail] ELSE Nothing))

\* A default that is not JSON cannot be sent.
Sendable(s, flat) == \A n \in s.hidden : flat[n] # DefaultOf[n]

CallStub(known, args, kw) ==
    /\ Write("stub", known, args, kw)
    /\ IF Binds(Business(function), args, kw) /\ Sendable(function, Flat(function, args, kw))
       THEN /\ stage' = "wire"
            /\ payload' = NamedArguments(function, known, <<>>, Flat(function, args, kw))
       ELSE stage' = "refused" /\ UNCHANGED payload
    /\ UNCHANGED <<function, bound>>

\* library._parameter_specs(): a facade has every parameter of the schema, in its order
\* and by position or keyword; without an advertised default, None is one.
Null == -9

Facade(s) ==
    [positional |-> Order(s), posonly |-> 0, var |-> FALSE, keyword |-> {}, open |-> FALSE,
     optional |-> ToSet(Order(s)) \ Required(s), hidden |-> {}]

\* A schema with a required parameter after an optional one makes no library.
Renders(s) ==
    \A i, j \in DOMAIN Order(s) : i < j /\ Order(s)[j] \in Required(s) => Order(s)[i] \in Required(s)

Supplied(s, args, kw) ==
    [n \in ToSet(Order(s)) |->
       IF n \in Taken(Facade(s), args) THEN args[Place(Facade(s), n)]
       ELSE Over(kw, Over(Advertised(s), [m \in {n} |-> Null]))[n]]

\* The facade takes *items as one parameter, which the schema wants to be an array.
CallLibrary(known, args, kw) ==
    /\ Write("library", known, args, kw)
    /\ IF Renders(function) /\ Binds(Facade(function), args, kw) /\ ~function.var
       THEN /\ stage' = "wire"
            /\ payload' = NamedArguments(function, known, <<>>, Supplied(function, args, kw))
       ELSE stage' = "refused" /\ UNCHANGED payload
    /\ UNCHANGED <<function, bound>>

----------------------------------------------------------------------------
(* The daemon, which enforces the schema, and the host                      *)

Admits(s, p) ==
    /\ Required(s) \subseteq DOMAIN p
    /\ s.open \/ DOMAIN p \subseteq ToSet(Order(s))

\* HostedFunction._split_call_args(): the parameters that are passed by position;
\* all that precede *items when it is given, else the positional-only ones.
Spreads(s, p) == s.var /\ "items" \in DOMAIN p

\* Mutant: what precedes *items stays a keyword.
LeadingByKeyword(s, p) == IF Spreads(s, p) THEN <<>> ELSE SubSeq(Business(s).positional, 1, Business(s).posonly)

\* The names of the sequence that p gives, in their order.
Given(names, p) ==
    LET at == {i \in DOMAIN names : names[i] \in DOMAIN p}
    IN  [n \in 1 .. Cardinality(at) |->
            names[CHOOSE i \in at : Cardinality({j \in at : j <= i}) = n]]

Leading(s, p) ==
    LET b == Business(s).positional
        first == SubSeq(b, 1, Business(s).posonly)
    IN  IF Spreads(s, p) THEN b ELSE IF TakesContext(s) THEN Given(first, p) ELSE first

Splits(s, p) == ToSet(Leading(s, p)) \subseteq DOMAIN p \cup s.optional

Positional(s, p) ==
    (IF TakesContext(s) THEN <<Ctx>> ELSE <<>>)
    \o [i \in DOMAIN Leading(s, p) |->
          LET n == Leading(s, p)[i] IN IF n \in DOMAIN p THEN p[n] ELSE DefaultOf[n]]
    \o (IF Spreads(s, p) THEN p["items"] ELSE <<>>)

Rest(s, p) == Only(p, DOMAIN p \ (ToSet(Leading(s, p)) \cup (IF s.var THEN {"items"} ELSE {})))

Executes(s, p) ==
    Admits(s, p) /\ Splits(s, p) /\ Binds(s, Positional(s, p), Rest(s, p))

HostCall ==
    /\ stage = "wire"
    /\ IF Executes(function, payload)
       THEN /\ stage' = "done"
            /\ bound' = Bound(function, Positional(function, payload), Rest(function, payload))
       ELSE stage' = "refused" /\ UNCHANGED bound
    /\ UNCHANGED <<function, call, payload>>

----------------------------------------------------------------------------
ArgumentsNext ==
    \/ Register
    \/ stage = "call" /\ \E known \in BOOLEAN, n \in 0 .. MaxArgs, names \in SUBSET DOMAIN Keyword :
         LET args == [i \in 1 .. n |-> i]
             kw   == Only(Keyword, names)
         IN  CallClient(known, args, kw) \/ CallStub(known, args, kw) \/ CallLibrary(known, args, kw)
    \/ HostCall

ArgumentsSpec == ArgumentsInit /\ [][ArgumentsNext]_argumentVars

----------------------------------------------------------------------------
(* Properties                                                               *)

\* What the comparison leaves out: a keyword that names a positional-only parameter
\* (the wire has one name for both), positional arguments without a schema, a
\* default that a stub or a library cannot send, variadics through a library and schemas
\* that it does not render, and, behind a Context, a positional-only parameter whose
\* default is not advertised (the host drops it and shifts the rest).
Ordinary ==
    LET s == Business(function) IN
    /\ DOMAIN call.kw \cap ToSet(SubSeq(s.positional, 1, s.posonly)) = {}
    /\ call.route = "client" => call.known \/ call.args = <<>>
    /\ call.route = "library" => Renders(function) /\ ~s.var /\ ~s.open
    /\ call.route \in {"stub", "library"} => s.hidden \subseteq Taken(s, call.args) \cup DOMAIN call.kw
    /\ TakesContext(function) => s.hidden \cap ToSet(SubSeq(s.positional, 1, s.posonly)) = {}

\* A call that Python accepts of the function itself is executed remotely, and the
\* function receives the same arguments: by position or by keyword, with or without
\* *items and **kwargs, defaults filled by the caller or by the host, through the
\* Client, a @remote stub or a library facade.
ArgumentsAgree ==
    stage \in {"done", "refused"} /\ Ordinary /\ Binds(Business(function), call.args, call.kw)
      => /\ stage = "done"
         /\ LET python == Bound(Business(function), call.args, call.kw)
            IN  /\ Only(bound.params, {"a", "b", "k"}) = python.params
                /\ bound.tail = python.tail /\ bound.extra = python.extra
=============================================================================
