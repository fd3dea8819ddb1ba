--------------------------------- MODULE Ast ---------------------------------
(* Expressions and statements (parser/ast.h).  A name is a string, a       *)
(* VARCHAR the sequence of its character codes, the empty alias "".        *)

NoExpr == [type |-> "NONE"]                                  \* nullptr
Star == [type |-> "STAR"]
IntLiteral(v) == [type |-> "INT_LITERAL", int_val |-> v]
StringLiteral(s) == [type |-> "STRING_LITERAL", str_val |-> s]
ColumnRef(table, col) == [type |-> "COLUMN_REF", table_alias |-> table, col_name |-> col]
BinaryOp(op, l, r) == [type |-> "BINARY_OP", op |-> op, left |-> l, right |-> r]
UnaryOp(op, e) == [type |-> "UNARY_OP", op |-> op, left |-> e]
Aggregate(func, arg) == [type |-> "AGGREGATE", func_name |-> func, left |-> arg]  \* Star: is_star_arg

ColumnDef(name, type, max_len) == [name |-> name, type |-> type, max_len |-> max_len]
SelectItem(e, alias) == [expr |-> e, alias |-> alias]
JoinClause(table, alias, on) == [table_name |-> table, alias |-> alias, condition |-> on]
OrderByItem(e, asc) == [expr |-> e, ascending |-> asc]

CreateTableStmt(table, cols) == [kind |-> "CREATE", table_name |-> table, columns |-> cols]
InsertStmt(table, vals) == [kind |-> "INSERT", table_name |-> table, values |-> vals]
SelectStmt(list, table, alias, joins, where, group, order) ==
  [kind |-> "SELECT", select_list |-> list, from_table |-> table, from_alias |-> alias,
   joins |-> joins, where_clause |-> where, group_by |-> group, order_by |-> order]
ExplainStmt(select) == [kind |-> "EXPLAIN", select |-> select]
==============================================================================
