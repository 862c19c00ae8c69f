--------------------------- MODULE JsonExpression ---------------------------
(***************************************************************************)
(* JSONExprEval: a condition on a JSON document, compiled from a text and  *)
(* evaluated on one document after another.                                *)
(*                                                                         *)
(* A text is a sequence of tokens: "(", ")", "!", "and" and "or" for       *)
(* " && " and " || ", "gap" for any other space, and calls. A call, of     *)
(* IS_EQUAL, CONTAINS and so on, is one token with its operator and sides, *)
(* [op, icase, left, right]; a side is [mode, v]: the path of a value in   *)
(* the document, a text (quoted or digits), or neither. A document has     *)
(* under every path [is, vs]: null, a scalar, an array or an object.       *)
(***************************************************************************)
EXTENDS Naturals, SequencesExt, FiniteSetsExt

CONSTANTS Texts,      \* what is compiled
          Again,      \* what may be compiled after that
          Documents,
          Lower,      \* [characters -> characters]: what boost's case-blind functions compare
          MaxCompiles \* bound: calls of compile on one object

ASSUME JsonExpressionAssumption == MaxCompiles \in Nat \ {0}

VARIABLES text,     \* what was compiled last
          object,   \* evalMode, atomExpressions with their subExpressions, negativeExpression, isCompiled
          compiles,
          doc, answer

vars == <<text, object, compiles, doc, answer>>

Smallest(S) == Min(S)
Is(tokens, i, t) == tokens[i].t = t

-----------------------------------------------------------------------------
(* AtomicExpressionSide, AtomicExpression *)

Throws == "throws"
Truth(p) == IF p THEN "true" ELSE "false"

\* asString refuses an empty array and an object; an array of nothing is taken for one value
Unprintable(value) == value.is = "object" \/ (value.is = "array" /\ value.vs = {})

\* resolve: the values a side stands for; the text of a regular expression stands for none
resolve(side, d, regex) ==
    CASE side.mode = "path" -> d[side.v].vs
      [] side.mode = "text" /\ ~regex -> {side.v}
      [] OTHER -> {}

resolveThrows(side, d) == side.mode = "path" /\ Unprintable(d[side.v])

\* boost::regex_match of a pattern of characters and dots
Matches(l, pattern) ==
    Len(l) = Len(pattern) /\ \A i \in DOMAIN l : pattern[i] = "." \/ l[i] = pattern[i]

Fold(icase, v) == IF icase THEN [i \in DOMAIN v |-> Lower[v[i]]] ELSE v

Holds(op, l, r) ==
    CASE op = "IS_EQUAL" -> l = r
      [] op = "STARTS_WITH" -> IsPrefix(r, l)
      [] op = "ENDS_WITH" -> IsSuffix(r, l)
      [] op = "CONTAINS" -> \E i \in 0 .. Len(l) : IsPrefix(r, SubSeq(l, i + 1, Len(l)))

\* AtomicExpression::evaluate, before calcNegative
callEvaluate(call, d) ==
    LET regex == call.op = "REGEX_MATCH"
        ls == resolve(call.left, d, regex)
        rs == resolve(call.right, d, regex)
    IN  IF resolveThrows(call.left, d) \/ resolveThrows(call.right, d) THEN Throws
        ELSE Truth(
          CASE call.op = "IS_NULL" -> ls = {}
            [] regex -> call.right.mode = "text" /\
                        \E l \in ls : Matches(Fold(call.icase, l), Fold(call.icase, call.right.v))
            [] OTHER -> \E l \in ls, r \in rs : Holds(call.op, Fold(call.icase, l), Fold(call.icase, r)))

Operators == {"IS_EQUAL", "REGEX_MATCH", "CONTAINS", "STARTS_WITH", "ENDS_WITH", "IS_NULL"}

\* calcMode: a path begins with $, a text is quoted or of digits, there may be none
sideCompiles(side) == side.mode \in {"path", "text", "none"}

\* substractExpressions: a known operator with its sides
callCompiles(call) == call.op \in Operators /\ sideCompiles(call.left) /\ sideCompiles(call.right)

calcNegative(negative, r) ==
    CASE r = Throws -> Throws
      [] OTHER -> Truth((r = "true") # negative)

-----------------------------------------------------------------------------
(* JSONExprEval::compile *)

\* How many parentheses are open after i tokens
Level(tokens, i) ==
    Cardinality({k \in 1 .. i : Is(tokens, k, "(")}) - Cardinality({k \in 1 .. i : Is(tokens, k, ")")})

\* detectSubExpr: the first group that is not inside another; a group right behind one that has been
\* replaced already looks like the arguments of a function, and is left where it is
Opens(tokens) ==
    {i \in DOMAIN tokens : Is(tokens, i, "(") /\ Level(tokens, i - 1) = 0
                           /\ ~(i > 1 /\ Is(tokens, i - 1, "sub"))}
ClosesAt(tokens, i) == {j \in i .. Len(tokens) : Level(tokens, j) = 0}
Groups(tokens) == {i \in Opens(tokens) : ClosesAt(tokens, i) # {}}
Unbalanced(tokens) == \E i \in DOMAIN tokens : Level(tokens, i) < 0 /\ Is(tokens, i, ")")

Sub(e) == [t |-> "sub", e |-> e]
Replace(tokens, i, e) ==
    LET j == Smallest(ClosesAt(tokens, i))
        negative == i > 1 /\ Is(tokens, i - 1, "!")
    IN  SubSeq(tokens, 1, IF negative THEN i - 2 ELSE i - 1)
          \o <<Sub([e EXCEPT !.negative = negative])>> \o SubSeq(tokens, j + 1, Len(tokens))
Inside(tokens, i) == SubSeq(tokens, i + 1, Smallest(ClosesAt(tokens, i)) - 1)

Operator(tokens, i) == Is(tokens, i, "and") \/ Is(tokens, i, "or")

\* trim, and double spaces compressed: of a row of gaps one is left, and none at an edge of the text
\* or beside an operator, which has its spaces
Spared(tokens, i) ==
    Is(tokens, i, "gap") =>
        /\ i > 1 /\ ~Is(tokens, i - 1, "gap") /\ ~Operator(tokens, i - 1)
        /\ \E j \in i + 1 .. Len(tokens) :
              ~Is(tokens, j, "gap") /\ ~Operator(tokens, j) /\ \A n \in i .. j - 1 : Is(tokens, n, "gap")
Trimmed(tokens) ==
    LET kept == SelectSeq([i \in DOMAIN tokens |-> i], LAMBDA i : Spared(tokens, i))
    IN  [n \in DOMAIN kept |-> tokens[kept[n]]]

\* Where the text is split: an operator with a space on both sides, one left of it not yet taken by
\* another split. One that is not split has a space on a side where nothing took it.
Present(tokens, op) == \E i \in 2 .. Len(tokens) - 1 : Is(tokens, i, op)
Splits(tokens, op) ==
    {i \in 2 .. Len(tokens) - 1 :
        Is(tokens, i, op) /\ (i - Smallest({k \in 2 .. i : \A n \in k .. i : Is(tokens, n, op)})) % 2 = 0}
Spaces(tokens, op) ==
    \E i \in DOMAIN tokens \ Splits(tokens, op) :
        \/ Is(tokens, i, "gap")
        \/ /\ Operator(tokens, i)
           /\ \/ i > 1 /\ i - 1 \notin Splits(tokens, op)
              \/ i < Len(tokens) /\ i + 1 \notin Splits(tokens, op)

\* What stands between the splits, in order
Items(tokens, op) ==
    LET cuts == SetToSortSeq(Splits(tokens, op) \cup {0, Len(tokens) + 1}, <)
    IN  [n \in 1 .. Len(cuts) - 1 |-> SubSeq(tokens, cuts[n] + 1, cuts[n + 1] - 1)]

\* A group, whatever follows it; a call, or a call with a "!" before it
PartOf(item) ==
    CASE item # <<>> /\ Is(item, 1, "sub") -> [is |-> "sub", e |-> item[1].e]
      [] Len(item) = 1 /\ Is(item, 1, "call") /\ callCompiles(item[1].call) ->
           [is |-> "call", call |-> item[1].call, negative |-> FALSE]
      [] Len(item) = 2 /\ Is(item, 1, "!") /\ Is(item, 2, "call") /\ callCompiles(item[2].call) ->
           [is |-> "call", call |-> item[2].call, negative |-> TRUE]
      [] OTHER -> [is |-> "invalid"]

\* atomExpressions, when an item is invalid: what came before it
Kept(parts, invalid) == SubSeq(parts, 1, Smallest(invalid) - 1)

Compiled(mode, parts, ok) == [mode |-> mode, parts |-> parts, negative |-> FALSE, isCompiled |-> ok]

\* Separate AND/OR, then every item
compileFlat(tokens) ==
    LET mode == IF Present(tokens, "and") THEN "and" ELSE "or"
        items == Items(tokens, mode)
        parts == [n \in DOMAIN items |-> PartOf(items[n])]
        invalid == {n \in DOMAIN parts : parts[n].is = "invalid"}
    IN  IF Present(tokens, "and") /\ Present(tokens, "or") THEN Compiled("undefined", <<>>, FALSE)
        ELSE IF Spaces(tokens, mode) THEN Compiled(mode, <<>>, FALSE)
        ELSE IF invalid # {} THEN Compiled("undefined", Kept(parts, invalid), FALSE)
        ELSE Compiled(mode, parts, TRUE)

\* The groups first, each an object of its own whose getIsCompiled nobody asks; then what is left.
\* The constructors that compile do not set evalMode, so a text that is refused before it is
\* assigned leaves it unset.
RECURSIVE compile(_)
compile(expr) ==
    LET tokens == Trimmed(expr) IN
    IF Unbalanced(tokens) /\ Groups(tokens) = {} THEN Compiled("unset", <<>>, FALSE)
    ELSE IF Groups(tokens) # {}
      THEN LET i == Smallest(Groups(tokens)) IN compile(Replace(tokens, i, compile(Inside(tokens, i))))
    ELSE compileFlat(tokens)

-----------------------------------------------------------------------------
(* JSONExprEval::evaluate *)

\* The first part that is not as the mode wants it ends it
ShortCircuit(results, goesOn) ==
    LET stops == {n \in DOMAIN results : results[n] # goesOn}
    IN  IF stops = {} THEN goesOn ELSE results[Smallest(stops)]

MutNegative(e, r) == r

Negative(e, r) == calcNegative(e.negative, r)

\* unset is what an evalMode that was never assigned happens to be
RECURSIVE evaluate(_, _, _)
evaluate(e, d, unset) ==
    LET results == [n \in DOMAIN e.parts |->
                      LET p == e.parts[n]
                      IN  IF p.is = "sub" THEN evaluate(p.e, d, unset)
                          ELSE calcNegative(p.negative, callEvaluate(p.call, d))]
        mode == IF e.mode = "unset" THEN unset ELSE e.mode
    IN  CASE mode = "and" -> Negative(e, ShortCircuit(results, "true"))
          [] mode = "or" -> Negative(e, ShortCircuit(results, "false"))
          [] OTHER -> "false"

-----------------------------------------------------------------------------
(* The object and its user *)

NoAnswer == "none"
NoDocument == [p \in {} |-> {}]

\* JSONExprEval(expr)
Init ==
    /\ text \in Texts
    /\ object = compile(text.tokens)
    /\ compiles = 1 /\ doc = NoDocument /\ answer = NoAnswer

\* compile, once more: what was compiled before stays in front, and isCompiled as it was
CompileAgain(t) ==
    /\ compiles < MaxCompiles
    /\ LET e == compile(t.tokens)
       IN  object' = [object EXCEPT !.parts = @ \o e.parts, !.mode = IF e.mode = "unset" THEN @ ELSE e.mode]
    /\ text' = t /\ compiles' = compiles + 1
    /\ doc' = NoDocument /\ answer' = NoAnswer

Evaluate(d, unset) ==
    /\ answer = NoAnswer
    /\ doc' = d /\ answer' = evaluate(object, d, unset)
    /\ UNCHANGED <<text, object, compiles>>

Next ==
    \/ \E t \in Again : CompileAgain(t)
    \/ \E d \in Documents, unset \in {"and", "or", "undefined"} : Evaluate(d, unset)

Spec == Init /\ [][Next]_vars

-----------------------------------------------------------------------------
(* Properties. A text has the condition it was printed from: a call, not e, all or any of some. *)

\* The values of a side, and where in one text another stands, whatever its case if icase
ValuesOf(side, d) ==
    CASE side.mode = "path" -> d[side.v].vs
      [] side.mode = "text" -> {side.v}
      [] OTHER -> {}
Alike(icase, x, y) == x = y \/ (icase /\ Lower[x] = Lower[y])
StandsAt(icase, r, l, i) ==
    i \in 1 .. Len(l) - Len(r) + 1 /\ \A k \in DOMAIN r : Alike(icase, l[i + k - 1], r[k])

\* Some value on the left and some on the right are equal, or one begins with, ends with, contains or
\* looks like the other; or there is no value
CallMeans(call, d) ==
    LET somewhere(P(_, _)) == \E l \in ValuesOf(call.left, d), r \in ValuesOf(call.right, d) : P(l, r)
    IN  CASE call.op = "IS_NULL" -> ValuesOf(call.left, d) = {}
          [] call.op = "IS_EQUAL" ->
               somewhere(LAMBDA l, r : Len(l) = Len(r) /\ StandsAt(call.icase, r, l, 1))
          [] call.op = "STARTS_WITH" -> somewhere(LAMBDA l, r : StandsAt(call.icase, r, l, 1))
          [] call.op = "ENDS_WITH" -> somewhere(LAMBDA l, r : StandsAt(call.icase, r, l, Len(l) - Len(r) + 1))
          [] call.op = "CONTAINS" -> somewhere(LAMBDA l, r : \E i \in 1 .. Len(l) + 1 : StandsAt(call.icase, r, l, i))
          [] call.op = "REGEX_MATCH" ->
               somewhere(LAMBDA l, r : Len(l) = Len(r) /\
                                       \A k \in DOMAIN r : r[k] = "." \/ Alike(call.icase, l[k], r[k]))

RECURSIVE MeaningOf(_, _)
MeaningOf(c, d) ==
    CASE c.is = "call" -> CallMeans(c.call, d)
      [] c.is = "not" -> ~MeaningOf(c.e, d)
      [] c.is = "all" -> \A n \in DOMAIN c.es : MeaningOf(c.es[n], d)
      [] c.is = "any" -> \E n \in DOMAIN c.es : MeaningOf(c.es[n], d)

\* The parts of an object are groups and calls that compiled, an answer is one of three or none
\* (JSONExprEval, AtomicExpression)
TypeOK ==
    /\ object.mode \in {"and", "or", "undefined", "unset"} /\ compiles \in 1 .. MaxCompiles
    /\ \A n \in DOMAIN object.parts : object.parts[n].is \in {"sub", "call"}
    /\ answer \in {"true", "false", Throws, NoAnswer} /\ doc \in Documents \cup {NoDocument}

\* A condition that is written as the compiler wants it compiles, and on every document the answer is
\* what it means, through groups, negations, short circuits, case and spaces where the compiler takes
\* them; it may throw only if the document has an empty array or an object somewhere (compile,
\* detectSubExpr, evaluate)
MeansWhatItSays ==
    compiles = 1 /\ text.meaning.is # "none" =>
        /\ object.isCompiled
        /\ answer # NoAnswer =>
             \/ answer = Truth(MeaningOf(text.meaning, doc))
             \/ answer = Throws /\ \E p \in DOMAIN doc : Unprintable(doc[p])

\* The invariants of the module in one: types, and conditions that mean what they say.
Safe == TypeOK /\ MeansWhatItSays
=============================================================================
