---------------------------- MODULE MCAlgorithms ----------------------------
(***************************************************************************)
(* Small inputs for the algorithms.                                        *)
(***************************************************************************)
EXTENDS Algorithms

\* Rows of two columns, one of them with any value of up to two characters.
Character ==
    {"x", blank, "=", ";", ",", "(", ")", "$", "|", "->", quote, "INSERT", "VARCHAR"}

AnyValue == {<<>>} \union {<<c>> : c \in Character}
            \union (Character \X Character)
            \union {<<"=", "x", "x">>, <<"x", "=", "x">>}

PlainValue == {<<"x">>, <<"=", "x">>}
PlainRow(types) == [i \in DOMAIN types |-> <<"x">>]
Number == {<<>>, <<"x">>}

TypedRow ==
    ((TextType \X TextType) \X ((AnyValue \X PlainValue) \union (PlainValue \X AnyValue)))
    \union (({"INT"} \X TextType) \X (Number \X AnyValue))
    \union ((TextType \X {"INT"}) \X (AnyValue \X Number))

\* Rows of three columns with a "=" here and there in their texts, and rows of
\* one or two whose value looks like a list of types.
EqualsValue == {<<"x">>, <<"=">>, <<"x", "=">>, <<"=", "x">>, <<"=", "x", "x">>}
ValuesOf(type) == IF type = "INT" THEN {<<"x">>} ELSE EqualsValue
Kinds == {"VARCHAR", "INT"}
ThreeColumns ==
    UNION {{<<a, b, c>>} \X (ValuesOf(a) \X ValuesOf(b) \X ValuesOf(c)) :
                a, b, c \in Kinds}

ListLike == {<<"$", "|", "VARCHAR", "|">>, <<"$", "|", "|", "VARCHAR">>,
             <<"$", "VARCHAR", "|">>, <<"$", "|", "|">>}
FewColumns ==
    ({<<"VARCHAR">>} \X {<<v>> : v \in ListLike})
    \union ({<<"VARCHAR", "VARCHAR">>}
            \X (ListLike \X {<<"x">>, <<"|", "VARCHAR", "|">>}))

\* Of the row before and the one after a change one is tried.
Tried == {<<"insert", "new">>, <<"delete", "old">>, <<"update", "old">>, <<"update", "new">>}

SomeChanges ==
    {[kind |-> tried[1], table |-> t[1], types |-> r[1], padding |-> t[2],
      old |-> IF tried[2] = "old" THEN r[2] ELSE PlainRow(r[1]),
      new |-> IF tried[2] = "new" THEN r[2] ELSE PlainRow(r[1])] :
        r \in TypedRow \union ThreeColumns \union FewColumns, tried \in Tried,
        t \in {<<"t", 0>>, <<"t", 2>>, <<"INSERT", 0>>}}

-----------------------------------------------------------------------------
\* What may be typed as fragment size: up to three characters, so that sizes
\* too large for a datagram and numbers too large for an int occur.
SizeTexts == UNION {[1..k -> {0, 1, 2, 6, 9, 10}] : k \in 0..3}

-----------------------------------------------------------------------------
\* Two sections of the file, with some of their lines missing.
Entry(keys, value) == [section |-> NoSection, keys |-> keys, value |-> value]

Password(pwd) ==
    CASE pwd = "p[d" -> [section |-> "d", keys |-> {"PWD"}, value |-> pwd]
      [] pwd = "UID" -> Entry({"UID", "PWD"}, pwd)
      [] OTHER -> Entry({"PWD"}, pwd)

Section(name, server, pwd, rest) ==
    <<[section |-> name, keys |-> {}, value |-> ""]>>
    \o (IF server = "" THEN <<>> ELSE <<Entry({"SERVER"}, server)>>)
    \o (IF ~rest THEN <<>>
        ELSE <<Entry({"UID"}, "user"), Entry({"TCP_PORT"}, "port")>>)
    \o (IF pwd = "" THEN <<>> ELSE <<Password(pwd)>>)

ServerText == Localhost \union {"", "remote"}
PwdText == {"", "secret", "p[d", "UID"}

Sectioned ==
    {Section(name, server, pwd, rest) :
        name \in {"dsn", "d"}, server \in ServerText, pwd \in PwdText,
        rest \in BOOLEAN}

TwoSections == {first \o second : first, second \in Sectioned}

Typed ==
    {[section |-> "dsn",
      value |-> [k \in Wanted |->
        CASE k = "SERVER" -> server [] k = "UID" -> "user"
          [] k = "PWD" -> pwd [] k = "TCP_PORT" -> "port"]] :
        server \in ServerText, pwd \in PwdText}

-----------------------------------------------------------------------------
\* Databases with one or two patterns.
SmallDatabases ==
    {[patterns |-> patterns, tablesOf |-> [p |-> ofP, q |-> ofQ]] :
        patterns \in {<<"p">>, <<"p", "q">>},
        ofP \in {<<"t">>, <<"t", "u">>}, ofQ \in {<<>>, <<"u">>}}

=============================================================================
