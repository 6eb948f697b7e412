------------------------------ MODULE MCMatcher ------------------------------
(***************************************************************************)
(* The engine on a slice of the DuckDB grammar                             *)
(*   TopLevelStatement <- Statement? (';'+ / EndOfInput)   (common.gram:3) *)
(*   Statement      <- 'SELECT' Expression (',' Expression)*               *)
(*   Expression     <- BaseExpression (OperatorLiteral BaseExpression)*    *)
(*   BaseExpression <- FunctionExpression / Row / Parens / ColId /         *)
(*                     NumberLiteral / StringLiteral                       *)
(*   FunctionExpression <- ColId '(' Expression? ')'                       *)
(*   Row            <- '(' Expression ',' Expression ')'                   *)
(*   Parens         <- '(' Expression ')'                                  *)
(*   ColId          <- Identifier                                          *)
(* with Expression, ColId and Identifier memoized, as in factory.go.  The  *)
(* prefix shared by Row and Parens, and ColId's by FunctionExpression,     *)
(* give hits on successes and on failures.                                 *)
(***************************************************************************)
EXTENDS Matcher, Leaves, TLC

Node(kind, children) == [kind |-> kind, children |-> children]
Keyword(w) == [leaf |-> "keyword", keyword |-> w]

MCLeaves ==
    [Select |-> Keyword("select"), Comma |-> Keyword(","), Semi |-> Keyword(";"),
     Open |-> Keyword("("), Close |-> Keyword(")"),
     EndOfInput |-> [leaf |-> "endOfInput"],
     Identifier |-> [leaf |-> "identifier", class |-> "columnName", reserved |-> FALSE,
                     supportsStringLiteral |-> FALSE],
     NumberLiteral |-> [leaf |-> "number"],
     StringLiteral |-> [leaf |-> "string"],
     OperatorLiteral |-> [leaf |-> "operator", allOperators |-> FALSE]]

MCComposites ==
    [ColId |-> Node("list", <<"Identifier">>),
     FunctionExpression |-> Node("list", <<"ColId", "Open", "Argument", "Close">>),
     Argument |-> Node("optional", <<"Expression">>),
     Row |-> Node("list", <<"Open", "Expression", "Comma", "Expression", "Close">>),
     Parens |-> Node("list", <<"Open", "Expression", "Close">>),
     BaseExpression |-> Node("choice", <<"FunctionExpression", "Row", "Parens", "ColId",
                                         "NumberLiteral", "StringLiteral">>),
     Operand |-> Node("list", <<"OperatorLiteral", "BaseExpression">>),
     Operands |-> Node("repeat", <<"Operand">>),
     OperandsOpt |-> Node("optional", <<"Operands">>),
     Expression |-> Node("list", <<"BaseExpression", "OperandsOpt">>),
     Column |-> Node("list", <<"Comma", "Expression">>),
     Columns |-> Node("repeat", <<"Column">>),
     ColumnsOpt |-> Node("optional", <<"Columns">>),
     Statement |-> Node("list", <<"Select", "Expression", "ColumnsOpt">>),
     StatementOpt |-> Node("optional", <<"Statement">>),
     Semis |-> Node("repeat", <<"Semi">>),
     Terminator |-> Node("choice", <<"Semis", "EndOfInput">>),
     TopLevelStatement |-> Node("list", <<"StatementOpt", "Terminator">>)]

MCMatchers == DOMAIN MCLeaves \cup DOMAIN MCComposites
MCKind == [m \in MCMatchers |-> IF m \in DOMAIN MCLeaves THEN "leaf" ELSE MCComposites[m].kind]
MCChildren == [m \in MCMatchers |-> IF m \in DOMAIN MCLeaves THEN <<>> ELSE MCComposites[m].children]
MCMemoized == {"Expression", "ColId", "Identifier"}

\* Children tried at the position of their parent come before it.
EvaluationOrder ==
    <<"Select", "Comma", "Semi", "Open", "Close", "EndOfInput", "Identifier", "NumberLiteral",
      "StringLiteral", "OperatorLiteral", "ColId", "FunctionExpression", "Row", "Parens", "BaseExpression", "Operand", "Operands",
      "OperandsOpt", "Expression", "Argument", "Column", "Columns", "ColumnsOpt", "Statement",
      "StatementOpt", "Semis", "Terminator", "TopLevelStatement">>

MCLeafMatch(t, m, p) == MatchLeaf(MCLeaves[m], t, p)

-----------------------------------------------------------------------------
(* Token streams. *)
Token(kind, text, shape, cats) ==
    [kind |-> kind, text |-> text, shape |-> shape, cats |-> cats, chars |-> <<>>,
     newline |-> FALSE, blockComment |-> FALSE, unterminated |-> FALSE]

Punct(text) == Token("Operator", text, "punct", {})
SELECT == Token("Keyword", "select", "word", {"reserved"})
NAME   == Token("Identifier", "a", "word", {})
PLUS   == Token("Operator", "+", "operator", {})
EQ     == Token("Operator", "=", "specialOp", {})
STR    == Token("String", "s", "single", {})
MORE   == [STR EXCEPT !.newline = TRUE]
NUM    == [Token("Number", "1", "number", {}) EXCEPT !.chars = <<"d">>]
BADNUM == [Token("Number", "1e1e", "number", {}) EXCEPT !.chars = <<"d", "e", "d", "e">>]
EOI    == Token("EndOfInput", "", "empty", {})
SEMI   == Token("Terminator", ";", "punct", {})
OPEN   == Punct("(")
CLOSE  == Punct(")")
COMMA  == Punct(",")

MCTokens == {SELECT, NAME, PLUS, EQ, STR, MORE, NUM, BADNUM, EOI, SEMI, OPEN, CLOSE, COMMA}

CONSTANT MaxAfterSelect   \* tokens enumerated after a leading SELECT

Words(n) == UNION {[1..k -> MCTokens \ {EOI}] : k \in 0..n}

Chosen == {
    <<SELECT, OPEN, OPEN, NAME, CLOSE, CLOSE>>,
    <<SELECT, OPEN, NAME, PLUS, NUM, CLOSE, PLUS, NAME>>,
    <<SELECT, NAME, OPEN, OPEN, NUM, CLOSE, PLUS, CLOSE>>,
    <<SELECT, OPEN, NAME, COMMA, BADNUM, CLOSE>>,
    <<SELECT, NAME, SEMI, SEMI, SELECT, STR, MORE, COMMA, NUM>>,
    <<SELECT, NAME, SEMI, SELECT, NAME, OPEN, NUM, SEMI>>}

MCInputs ==
    {w \o <<EOI>> : w \in Words(2) \cup Chosen \cup {<<SELECT>> \o v : v \in Words(MaxAfterSelect)}}

-----------------------------------------------------------------------------
(* The meaning of the slice, by recursive descent over a table of outcomes *)
(* filled from the last position to the first.                             *)
RECURSIVE Descend(_,_,_,_,_)
Descend(sem(_,_), t, m, i, p) ==
    LET o == sem(Child(m, i), p)
        last == i = Len(MCChildren[m])
        ok == o.kind = "ok"
        more(j, q) == Descend(sem, t, m, j, q)
    IN  CASE o.kind = "abort" -> Abort(o.far)
          [] MCKind[m] = "list" /\ ok /\ ~last -> Extend(m, i, o, more(i + 1, o.end))
          [] MCKind[m] = "repeat" /\ ok -> Extend(m, i, o, more(2, o.end))
          [] MCKind[m] = "choice" /\ ~ok /\ ~last -> Later(o, more(i + 1, p))
          [] MCKind[m] = "optional" /\ ~ok -> Ok(p, o.far, Item(m, 0, <<>>))
          [] MCKind[m] = "repeat" /\ ~ok /\ i = 2 -> Ok(p, o.far, <<>>)
          [] OTHER -> IF ok THEN Ok(o.end, o.far, Item(m, i, o.res)) ELSE Fail(o.far)

Evaluate(t, p, rows, row, m) ==
    IF MCKind[m] = "leaf" THEN LeafSem(t, m, p)
    ELSE Descend(LAMBDA c, q : IF q = p THEN row[c] ELSE rows[q - p][c], t, m, 1, p)

Row(t, p, rows) ==
    FoldLeft(LAMBDA row, m : row @@ (m :> Evaluate(t, p, rows, row, m)), <<>>, EvaluationOrder)

RECURSIVE RowsFrom(_,_)
RowsFrom(t, p) ==
    IF p > Len(t) THEN <<>>
    ELSE LET rows == RowsFrom(t, p + 1) IN <<Row(t, p, rows)>> \o rows

SemTable == [t \in MCInputs |-> RowsFrom(t, 0)]
MCSem(t, m, p) == SemTable[t][p + 1][m]
MCRest(t, m, i, p) == Descend(LAMBDA c, q : MCSem(t, c, q), t, m, i, p)
=============================================================================
