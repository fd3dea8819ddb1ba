------------------------------- MODULE SqlText -------------------------------
(* How statements are written: the tokens of a statement, with as few      *)
(* parentheses as the precedence OR, AND, NOT, comparison, primary allows. *)
EXTENDS Integers, SequencesExt, Ast

Word(type) == <<[type |-> type]>>
Name(name) == <<[type |-> "IDENTIFIER", value |-> name]>>
Number(n) == <<[type |-> "INT_LITERAL", value |-> n]>>

Level(e) ==
  CASE e.type = "UNARY_OP" -> 3
    [] e.type = "BINARY_OP" -> (CASE e.op = "OR" -> 1 [] e.op = "AND" -> 2 [] OTHER -> 4)
    [] OTHER -> 5

(* e where an expression of at least this level is expected. *)
RECURSIVE ExprText(_, _)
ExprText(e, level) ==
  IF Level(e) < level THEN Word("(") \o ExprText(e, 1) \o Word(")")
  ELSE CASE e.type = "INT_LITERAL" -> Number(e.int_val)
         [] e.type = "STRING_LITERAL" -> <<[type |-> "STRING_LITERAL", value |-> e.str_val]>>
         [] e.type = "COLUMN_REF" ->
              (IF e.table_alias = "" THEN << >> ELSE Name(e.table_alias) \o Word(".")) \o Name(e.col_name)
         [] e.type = "STAR" -> Word("*")
         [] e.type = "AGGREGATE" -> Word(e.func_name) \o Word("(") \o ExprText(e.left, 1) \o Word(")")
         [] e.type = "UNARY_OP" -> Word("NOT") \o ExprText(e.left, 4)
         [] e.type = "BINARY_OP" ->
              LET l == IF Level(e) = 4 THEN 5 ELSE Level(e)
              IN ExprText(e.left, l) \o Word(e.op) \o ExprText(e.right, Level(e) + 1)

List(texts) == FlattenSeq([i \in DOMAIN texts |-> IF i = 1 THEN texts[i] ELSE Word(",") \o texts[i]])

As(alias) == IF alias = "" THEN << >> ELSE Word("AS") \o Name(alias)

By(keyword, texts) == IF texts = << >> THEN << >> ELSE Word(keyword) \o Word("BY") \o List(texts)

SelectText(s) ==
  Word("SELECT")
    \o List([i \in DOMAIN s.select_list |->
               ExprText(s.select_list[i].expr, 1) \o As(s.select_list[i].alias)])
    \o Word("FROM") \o Name(s.from_table) \o As(s.from_alias)
    \o FlattenSeq([i \in DOMAIN s.joins |->
                     Word("JOIN") \o Name(s.joins[i].table_name)
                       \o (IF s.joins[i].alias = "" THEN << >> ELSE Name(s.joins[i].alias))
                       \o Word("ON") \o ExprText(s.joins[i].condition, 1)])
    \o (IF s.where_clause = NoExpr THEN << >> ELSE Word("WHERE") \o ExprText(s.where_clause, 1))
    \o By("GROUP", [i \in DOMAIN s.group_by |-> ExprText(s.group_by[i], 5)])
    \o By("ORDER", [i \in DOMAIN s.order_by |->
                      ExprText(s.order_by[i].expr, 5)
                        \o (IF s.order_by[i].ascending THEN << >> ELSE Word("DESC"))])

ColumnText(c) ==
  Name(c.name) \o (IF c.type = "INT" THEN Word("INT")
                   ELSE Word("VARCHAR") \o Word("(") \o Number(c.max_len) \o Word(")"))

StatementText(s) ==
  CASE s.kind = "CREATE" ->
         Word("CREATE") \o Word("TABLE") \o Name(s.table_name) \o Word("(")
           \o List([i \in DOMAIN s.columns |-> ColumnText(s.columns[i])]) \o Word(")")
    [] s.kind = "INSERT" ->
         Word("INSERT") \o Word("INTO") \o Name(s.table_name) \o Word("VALUES") \o Word("(")
           \o List([i \in DOMAIN s.values |-> ExprText(s.values[i], 5)]) \o Word(")")
    [] s.kind = "SELECT" -> SelectText(s)
    [] s.kind = "EXPLAIN" -> Word("EXPLAIN") \o SelectText(s.select)
==============================================================================
