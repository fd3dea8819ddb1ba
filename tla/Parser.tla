------------------------------- MODULE Parser --------------------------------
(***************************************************************************)
(* The recursive-descent parser (parser/parser.cpp).                       *)
(*                                                                         *)
(* A token is [type], with a value if it is an identifier or a literal; an *)
(* operator or a keyword is its own type.  The last token is EOF.  Each    *)
(* function takes the tokens and pos_ and returns a set: empty if it       *)
(* throws, else the one [v, p] of what it has parsed and the new pos_.     *)
(***************************************************************************)
EXTENDS Integers, Sequences, Ast

CONSTANT MaxInt  \* what std::stoi accepts

Result(v, p) == [v |-> v, p |-> p]
Then(R, Rest(_)) == UNION {Rest(r) : r \in R}

Check(ts, p, type) == ts[p].type = type

Expect(ts, p, type) == IF Check(ts, p, type) THEN {Result(ts[p], p + 1)} ELSE {}

(* Expect a token after what R has parsed. *)
Before(R, ts, type) == Then(R, LAMBDA r : {Result(r.v, e.p) : e \in Expect(ts, r.p, type)})

stoi(ts, p) ==
  Then(Expect(ts, p, "INT_LITERAL"), LAMBDA r :
    IF r.v.value <= MaxInt THEN {Result(r.v.value, r.p)} ELSE {})
-----------------------------------------------------------------------------
(* Expressions. *)

OPS == {"=", "<", ">", "<=", ">=", "!="}
AGG_NAMES == {"COUNT", "SUM", "AVG", "MIN", "MAX"}

RECURSIVE ParseOr(_, _)
ParseExpr(ts, p) == ParseOr(ts, p)

ParseColumnRef(ts, p) ==
  IF Check(ts, p + 1, ".")
  THEN {Result(ColumnRef(ts[p].value, c.v.value), c.p) : c \in Expect(ts, p + 2, "IDENTIFIER")}
  ELSE {Result(ColumnRef("", ts[p].value), p + 1)}

ParseAggregate(ts, p) ==
  LET arg == Then(Expect(ts, p + 1, "("), LAMBDA l :
               IF Check(ts, l.p, "*") THEN {Result(Star, l.p + 1)} ELSE ParseExpr(ts, l.p))
  IN {Result(Aggregate(ts[p].type, a.v), a.p) : a \in Before(arg, ts, ")")}

ParsePrimary(ts, p) ==
  LET type == ts[p].type
  IN CASE type = "(" -> Before(ParseExpr(ts, p + 1), ts, ")")
       [] type = "*" -> {Result(Star, p + 1)}
       [] type = "INT_LITERAL" -> {Result(IntLiteral(i.v), i.p) : i \in stoi(ts, p)}
       [] type = "STRING_LITERAL" -> {Result(StringLiteral(ts[p].value), p + 1)}
       [] type \in AGG_NAMES -> ParseAggregate(ts, p)
       [] type = "IDENTIFIER" -> ParseColumnRef(ts, p)
       [] OTHER -> {}

ParseComparison(ts, p) ==
  Then(ParsePrimary(ts, p), LAMBDA l :
    IF ts[l.p].type \notin OPS THEN {l}
    ELSE {Result(BinaryOp(ts[l.p].type, l.v, r.v), r.p) : r \in ParsePrimary(ts, l.p + 1)})

ParseNot(ts, p) ==
  IF Check(ts, p, "NOT")
  THEN {Result(UnaryOp("NOT", e.v), e.p) : e \in ParseComparison(ts, p + 1)}
  ELSE ParseComparison(ts, p)

(* The loop of ParseAnd: left is what it has parsed so far. *)
RECURSIVE AndLoop(_, _)
AndLoop(ts, left) ==
  IF ~Check(ts, left.p, "AND") THEN {left}
  ELSE Then(ParseNot(ts, left.p + 1), LAMBDA r :
         AndLoop(ts, Result(BinaryOp("AND", left.v, r.v), r.p)))

ParseAnd(ts, p) == Then(ParseNot(ts, p), LAMBDA l : AndLoop(ts, l))

(* Mistake: OR binds as closely as AND. *)
OrOperand_Not(ts, p) == ParseNot(ts, p)

OrOperand(ts, p) == ParseAnd(ts, p)

RECURSIVE OrLoop(_, _)
OrLoop(ts, left) ==
  IF ~Check(ts, left.p, "OR") THEN {left}
  ELSE Then(OrOperand(ts, left.p + 1), LAMBDA r :
         OrLoop(ts, Result(BinaryOp("OR", left.v, r.v), r.p)))

ParseOr(ts, p) == Then(OrOperand(ts, p), LAMBDA l : OrLoop(ts, l))
-----------------------------------------------------------------------------
(* Statements. *)

ParseColumnDef(ts, p) ==
  Then(Expect(ts, p, "IDENTIFIER"), LAMBDA name :
    CASE Check(ts, name.p, "INT") -> {Result(ColumnDef(name.v.value, "INT", 0), name.p + 1)}
      [] Check(ts, name.p, "VARCHAR") ->
           LET len == Then(Expect(ts, name.p + 1, "("), LAMBDA l : stoi(ts, l.p))
           IN {Result(ColumnDef(name.v.value, "VARCHAR", n.v % 2^16), n.p) : n \in Before(len, ts, ")")}
      [] OTHER -> {})

(* [AS] alias *)
ParseAlias(ts, p) ==
  CASE Check(ts, p, "AS") -> {Result(a.v.value, a.p) : a \in Expect(ts, p + 1, "IDENTIFIER")}
    [] Check(ts, p, "IDENTIFIER") -> {Result(ts[p].value, p + 1)}
    [] OTHER -> {Result("", p)}

ParseSelectItem(ts, p) ==
  Then(ParseExpr(ts, p), LAMBDA e :
    IF Check(ts, e.p, "AS")
    THEN {Result(SelectItem(e.v, a.v.value), a.p) : a \in Expect(ts, e.p + 1, "IDENTIFIER")}
    ELSE {Result(SelectItem(e.v, ""), e.p)})

ParseOrderByItem(ts, p) ==
  {Result(OrderByItem(e.v, ~Check(ts, e.p, "DESC")),
          IF ts[e.p].type \in {"ASC", "DESC"} THEN e.p + 1 ELSE e.p) : e \in ParsePrimary(ts, p)}

(* do { Item } while (Match(COMMA)) *)
ParseItem(item, ts, p) ==
  CASE item = "column" -> ParseColumnDef(ts, p)
    [] item = "primary" -> ParsePrimary(ts, p)
    [] item = "select" -> ParseSelectItem(ts, p)
    [] item = "order" -> ParseOrderByItem(ts, p)

RECURSIVE ParseList(_, _, _)
ParseList(item, ts, p) ==
  Then(ParseItem(item, ts, p), LAMBDA first :
    IF ~Check(ts, first.p, ",") THEN {Result(<<first.v>>, first.p)}
    ELSE {Result(<<first.v>> \o rest.v, rest.p) : rest \in ParseList(item, ts, first.p + 1)})

RECURSIVE ParseJoins(_, _)
ParseJoins(ts, p) ==
  IF ~Check(ts, p, "JOIN") THEN {Result(<< >>, p)}
  ELSE Then(Expect(ts, p + 1, "IDENTIFIER"), LAMBDA table :
       Then(Before(ParseAlias(ts, table.p), ts, "ON"), LAMBDA alias :
       Then(ParseExpr(ts, alias.p), LAMBDA on :
         {Result(<<JoinClause(table.v.value, alias.v, on.v)>> \o rest.v, rest.p) :
            rest \in ParseJoins(ts, on.p)})))

ParseWhere(ts, p) == IF Check(ts, p, "WHERE") THEN ParseExpr(ts, p + 1) ELSE {Result(NoExpr, p)}

(* GROUP BY or ORDER BY *)
ParseBy(keyword, item, ts, p) ==
  IF ~Check(ts, p, keyword) THEN {Result(<< >>, p)}
  ELSE Then(Expect(ts, p + 1, "BY"), LAMBDA by : ParseList(item, ts, by.p))

ParseSelect(ts, p) ==
  Then(Before(ParseList("select", ts, p), ts, "FROM"), LAMBDA list :
  Then(Expect(ts, list.p, "IDENTIFIER"), LAMBDA from :
  Then(ParseAlias(ts, from.p), LAMBDA alias :
  Then(ParseJoins(ts, alias.p), LAMBDA joins :
  Then(ParseWhere(ts, joins.p), LAMBDA where :
  Then(ParseBy("GROUP", "primary", ts, where.p), LAMBDA group :
    {Result(SelectStmt(list.v, from.v.value, alias.v, joins.v, where.v, group.v, order.v), order.p) :
       order \in ParseBy("ORDER", "order", ts, group.p)}))))))

(* The keywords and the table name before a list in parentheses. *)
ParseHead(ts, p, before, after) ==
  Then(Expect(ts, p, before), LAMBDA b :
  Then(Expect(ts, b.p, "IDENTIFIER"), LAMBDA name :
    IF after = "" THEN {name} ELSE Before({name}, ts, after)))

ParseCreateTable(ts, p) ==
  Then(Before(ParseHead(ts, p, "TABLE", ""), ts, "("), LAMBDA name :
    {Result(CreateTableStmt(name.v.value, cols.v), cols.p) :
       cols \in Before(ParseList("column", ts, name.p), ts, ")")})

ParseInsert(ts, p) ==
  Then(Before(ParseHead(ts, p, "INTO", "VALUES"), ts, "("), LAMBDA name :
    {Result(InsertStmt(name.v.value, vals.v), vals.p) :
       vals \in Before(ParseList("primary", ts, name.p), ts, ")")})

ParseExplain(ts, p) ==
  Then(Expect(ts, p, "SELECT"), LAMBDA e :
    {Result(ExplainStmt(s.v), s.p) : s \in ParseSelect(ts, e.p)})

(* The statements the tokens are parsed to, none if Parse throws.  Tokens  *)
(* after the statement are not looked at.                                  *)
Parse(ts) ==
  {r.v : r \in CASE Check(ts, 1, "CREATE") -> ParseCreateTable(ts, 2)
                 [] Check(ts, 1, "INSERT") -> ParseInsert(ts, 2)
                 [] Check(ts, 1, "SELECT") -> ParseSelect(ts, 2)
                 [] Check(ts, 1, "EXPLAIN") -> ParseExplain(ts, 2)
                 [] OTHER -> {}}
==============================================================================
