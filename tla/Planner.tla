------------------------------- MODULE Planner -------------------------------
(***************************************************************************)
(* The planner (planner/planner.cpp): from a SELECT statement to a tree of *)
(* operators, and the text of EXPLAIN.  tables is tables_ of the catalog,  *)
(* a function from the names of the tables.  As in Executor, what may      *)
(* throw is a set.                                                         *)
(***************************************************************************)
EXTENDS Executor

(* catalog.cpp *)
GetTable(tables, name) == {tables[n] : n \in {name} \cap DOMAIN tables}

Scan(tables, name, alias) ==
  {SeqScan(info, IF alias = "" THEN name ELSE alias) : info \in GetTable(tables, name)}

HasAggregate(list) == \E item \in Range(list) : item.expr.type = "AGGREGATE"

IsStar(list) == Len(list) = 1 /\ list[1].expr.type = "STAR"

ColumnOf(e, schema) ==
  IF e.type = "COLUMN_REF" THEN {schema[i] : i \in GetColumnIdx(schema, e.table_alias, e.col_name)}
  ELSE {}

BuildProjectionSchema(list, input) ==
  LET Col(item) ==
        LET name == IF item.alias # "" THEN item.alias
                    ELSE IF item.expr.type = "COLUMN_REF" THEN item.expr.col_name ELSE "?"
        IN IF item.expr.type = "COLUMN_REF"
           THEN {Column("", name, c.type, c.max_len) : c \in ColumnOf(item.expr, input)}
           ELSE {Column("", name, "INT", 0)}
  IN IF \E item \in Range(list) : Col(item) = {} THEN {}
     ELSE {[i \in DOMAIN list |-> The(Col(list[i]))]}

BuildAggSchema(group_by, aggs, input) ==
  IF \E e \in Range(group_by) : ColumnOf(e, input) = {} THEN {}
  ELSE {[i \in DOMAIN group_by |->
           LET c == The(ColumnOf(group_by[i], input))
           IN Column("", group_by[i].col_name, c.type, c.max_len)] \o
        [i \in DOMAIN aggs |->
           Column("", IF aggs[i].alias = "" THEN aggs[i].expr.func_name ELSE aggs[i].alias, "INT", 0)]}

Exprs(items) == [i \in DOMAIN items |-> items[i].expr]

PlanJoins(tables, stmt) ==
  FoldLeft(LAMBDA plans, join :
             IF join.condition.type = "BINARY_OP" /\ join.condition.op = "="
             THEN {HashJoin(plan, right, join.condition.left, join.condition.right) :
                     plan \in plans, right \in Scan(tables, join.table_name, join.alias)}
             ELSE {},
           Scan(tables, stmt.from_table, stmt.from_alias), stmt.joins)

(* Mistake: ORDER BY is forgotten unless all columns are selected. *)
PlanSort_Star(plan, stmt) ==
  IF stmt.order_by = << >> \/ ~IsStar(stmt.select_list) THEN plan ELSE Sort(plan, stmt.order_by)

PlanSort(plan, stmt) == IF stmt.order_by = << >> THEN plan ELSE Sort(plan, stmt.order_by)

IsGrouped(stmt) == HasAggregate(stmt.select_list) \/ stmt.group_by # << >>

(* The tuple of an aggregate query are the group-by values, then the       *)
(* aggregates; ORDER BY of a projection is below it, and sees all columns. *)
PlanList(stmt, plan) ==
  LET list == stmt.select_list
      aggs == SelectSeq(list, LAMBDA item : item.expr.type = "AGGREGATE")
  IN CASE IsStar(list) -> {PlanSort(plan, stmt)}
       [] ~IsStar(list) /\ IsGrouped(stmt) ->
            {PlanSort(HashAggregate(plan, stmt.group_by, Exprs(aggs), schema), stmt) :
               schema \in BuildAggSchema(stmt.group_by, aggs, plan.schema)}
       [] ~IsStar(list) /\ ~IsGrouped(stmt) ->
            {Projection(PlanSort(plan, stmt), Exprs(list), schema) :
               schema \in BuildProjectionSchema(list, plan.schema)}

Plan(tables, stmt) ==
  UNION {PlanList(stmt, IF stmt.where_clause = NoExpr THEN plan ELSE Filter(plan, stmt.where_clause)) :
           plan \in PlanJoins(tables, stmt)}

(* The lines of EXPLAIN from the top, each with its depth: a table stands  *)
(* for its SeqScan, and the tables of a join are one below it.             *)
Explain(stmt) ==
  LET If(b, name) == IF b THEN <<name>> ELSE << >>
      operators ==
        If(stmt.order_by # << >>, "Sort")
          \o If(IsGrouped(stmt), "HashAggregate")
          \o If(~IsGrouped(stmt) /\ ~IsStar(stmt.select_list), "Projection")
          \o If(stmt.where_clause # NoExpr, "Filter")
          \o If(stmt.joins # << >>, "HashJoin")
      scans == <<stmt.from_table>> \o [i \in DOMAIN stmt.joins |-> stmt.joins[i].table_name]
  IN [i \in DOMAIN operators |-> <<i - 1, operators[i]>>]
       \o [i \in DOMAIN scans |-> <<Len(operators), scans[i]>>]
==============================================================================
