------------------------- MODULE MCJsonExpression --------------------------
EXTENDS JsonExpression

Path(p) == [mode |-> "path", v |-> p]
Text(v) == [mode |-> "text", v |-> v]
Call(op, icase, left, right) ==
    [is |-> "call", call |-> [op |-> op, icase |-> icase, left |-> left, right |-> right]]
Nothing == [mode |-> "none", v |-> "none"]

MCLower == [c \in {"a", "b", "A", "."} |-> IF c = "A" THEN "a" ELSE c]
MCDocuments ==
    LET some == {[is |-> "null", vs |-> {}], [is |-> "scalar", vs |-> {<<"A">>}],
                 [is |-> "array", vs |-> {<<"A">>, <<"a", "b">>}]}
    IN  {[p |-> p, q |-> q] : p \in some \cup {[is |-> "array", vs |-> {}]}
                                    \cup {[is |-> "scalar", vs |-> {v}] : v \in {<<"a">>, <<"a", "b">>}}, q \in some}

\* Every operator, with and without case, on paths and texts
Calls ==
    {Call("IS_NULL", FALSE, Path("p"), Nothing)}
    \cup {Call(op, icase, Path("p"), r) : op \in {"IS_EQUAL", "CONTAINS", "STARTS_WITH", "ENDS_WITH"},
                                         icase \in BOOLEAN, r \in {Path("q"), Text(<<"a">>), Text(<<"b">>)}}
    \cup {Call("REGEX_MATCH", icase, Path("p"), Text(<<"a", ".">>)) : icase \in BOOLEAN}
Few == {Call("IS_NULL", FALSE, Path("p"), Nothing), Call("IS_EQUAL", FALSE, Path("p"), Path("q"))}
One == {Call("CONTAINS", TRUE, Path("q"), Text(<<"a">>))}

Not(c) == [is |-> "not", e |-> c]
Lists(cs) == {[is |-> "any", es |-> <<c>>] : c \in cs}
             \cup {[is |-> k, es |-> <<c, e>>] : k \in {"all", "any"}, c, e \in cs}
Signed(cs) == cs \cup {Not(c) : c \in cs}
Inner == Lists(Few)
Deep == Signed(Lists(Signed(Lists(One))))
Conditions ==
    {[is |-> "any", es |-> <<c>>] : c \in Signed(Calls)}
    \cup Lists(One \cup Signed(Inner)) \cup {[is |-> k, es |-> <<c, e>>] : k \in {"all", "any"}, c \in Deep, e \in One}

T(t) == [t |-> t]
RECURSIVE Written(_)
Written(c) ==
    LET Item(x) == IF x.is \in {"all", "any"} THEN <<T("(")>> \o Written(x) \o <<T(")")>> ELSE Written(x)
    IN  CASE c.is = "call" -> <<[t |-> "call", call |-> c.call]>>
          [] c.is = "not" -> <<T("!")>> \o Item(c.e)
          [] Len(c.es) = 1 -> Item(c.es[1])
          [] OTHER -> Item(c.es[1]) \o <<T(IF c.is = "all" THEN "and" ELSE "or")>> \o Item(c.es[2])

\* With spaces wherever the compiler takes them: at the edges, in a group and beside an operator
Spaced(ts) ==
    LET Space(t) == CASE t.t = "(" -> <<t, T("gap")>>
                      [] t.t = ")" -> <<T("gap"), t>>
                      [] t.t \in {"and", "or"} -> <<T("gap"), t, T("gap")>>
                      [] OTHER -> <<t>>
    IN  <<T("gap")>> \o FlattenSeq([i \in DOMAIN ts |-> Space(ts[i])]) \o <<T("gap"), T("gap")>>

\* And every short row of tokens, most of which mean nothing
Tokens == {T(t) : t \in {"(", ")", "!", "and", "or", "gap"}}
          \cup {[t |-> "call", call |-> c.call] : c \in One \cup {Call("LIKE", FALSE, Path("p"), Path("q"))}}
MCTexts == {[tokens |-> Written(c), meaning |-> c] : c \in Conditions}
           \cup {[tokens |-> Spaced(Written(c)), meaning |-> c] : c \in Lists(One \cup Signed(Inner))}
           \cup {[tokens |-> ts, meaning |-> [is |-> "none"]] : ts \in UNION {[1 .. n -> Tokens] : n \in 1 .. 3}}
MCAgain == {[tokens |-> <<t>>, meaning |-> [is |-> "none"]] : t \in {t \in Tokens : t.t \in {"call", "gap"}}}
=============================================================================
