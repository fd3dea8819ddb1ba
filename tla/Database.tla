------------------------------ MODULE Database -------------------------------
(***************************************************************************)
(* The database (database.cpp, catalog/catalog.cpp) with its parser,       *)
(* planner and executor, as the shell of main.cpp uses it: a statement is  *)
(* executed, its result or its error is printed, the next one is read.     *)
(*                                                                         *)
(* Of a heap file the database uses that it keeps the tuples whose insert  *)
(* succeeded, in order, that creating one and InsertTuple may find the     *)
(* pool full, and that a Scan which does not sees all of them (HeapFile).  *)
(* One thread uses the database and pins one page at a time, so a Scan     *)
(* finds a frame.  The lexer is left out: a statement is written as tokens. *)
(***************************************************************************)
EXTENDS Planner, Parser

CONSTANTS
  Statements,    \* the statements that are typed in
  Text(_),       \* how a statement is written: a sequence of tokens
  Tails,         \* what may come after it: the semicolon and EOF, or more
  BadTexts,      \* texts that are no statement
  MaxRows        \* bound: rows of a table

VARIABLES
  tables_,       \* name -> [name, schema, rows]
  stmt,          \* history: the statement typed in, NoStmt if none
  result         \* what Execute has returned or thrown

vars == <<tables_, stmt, result>>

NoStmt == [kind |-> "NONE"]
NoResult == [status |-> "none"]
Error == [status |-> "error"]
Message == [status |-> "message"]
QueryResult(columns, rows) == [status |-> "rows", columns |-> columns, rows |-> rows]

EmptyCatalog == << >>

Init == tables_ = EmptyCatalog /\ stmt = NoStmt /\ result = NoResult
-----------------------------------------------------------------------------
Throw == result' = Error /\ UNCHANGED tables_

TableExists(name) == name \in DOMAIN tables_

ExecCreate(s) ==
  /\ s.kind = "CREATE"
  /\ IF TableExists(s.table_name) THEN Throw
     ELSE /\ LET schema == [i \in DOMAIN s.columns |->
                              Column("", s.columns[i].name, s.columns[i].type, s.columns[i].max_len)]
             IN tables_' = tables_ @@
                  (s.table_name :> [name |-> s.table_name, schema |-> schema, rows |-> << >>])
          /\ result' = Message

(* Mistake: a string is stored as it is. *)
Stored_Whole(e, col) == IF col.type = "INT" THEN MakeInt(e.int_val) ELSE MakeVarchar(e.str_val)

(* What Tuple and GetValue make of a value: SerializeTo cuts a string off. *)
Stored(e, col) ==
  IF col.type = "INT" THEN MakeInt(e.int_val)
  ELSE MakeVarchar(SubSeq(e.str_val, 1, Min({Len(e.str_val), col.max_len})))

HasType(e, col) == e.type = IF col.type = "INT" THEN "INT_LITERAL" ELSE "STRING_LITERAL"

ExecInsert(s) ==
  /\ s.kind = "INSERT"
  /\ IF \E info \in GetTable(tables_, s.table_name) :
          /\ Len(s.values) = Len(info.schema)
          /\ \A i \in DOMAIN s.values : HasType(s.values[i], info.schema[i])
     THEN /\ Len(tables_[s.table_name].rows) < MaxRows
          /\ tables_' = [tables_ EXCEPT ![s.table_name].rows =
               Append(@, [i \in DOMAIN s.values |->
                            Stored(s.values[i], tables_[s.table_name].schema[i])])]
          /\ result' = Message
     ELSE Throw

ExecSelect(s) ==
  /\ s.kind = "SELECT"
  /\ LET plans == Plan(tables_, s)
     IN \/ (\A plan \in plans : Rows(plan) = {}) /\ Throw
        \/ \E plan \in plans : \E rows \in Rows(plan) :
             result' = QueryResult([i \in DOMAIN plan.schema |-> plan.schema[i].name], rows)
             /\ UNCHANGED tables_

ExecExplain(s) ==
  /\ s.kind = "EXPLAIN"
  /\ result' = QueryResult(<<"plan">>, Explain(s.select))
  /\ UNCHANGED tables_

(* The pool is full: AllocateHeapPage throws before the table is in the    *)
(* catalog, or InsertTuple returns false.                                  *)
StorageFails(s) == s.kind \in {"CREATE", "INSERT"} /\ Throw

Execute(s) ==
  /\ result = NoResult
  /\ stmt' = s
  /\ \E p \in UNION {Parse(Text(s) \o tail) : tail \in Tails} :
       ExecCreate(p) \/ ExecInsert(p) \/ ExecSelect(p) \/ ExecExplain(p) \/ StorageFails(p)

ParseFails(text) ==
  /\ result = NoResult
  /\ Parse(text) = {}
  /\ stmt' = NoStmt /\ Throw

PrintResult ==
  /\ result # NoResult
  /\ stmt' = NoStmt /\ result' = NoResult
  /\ UNCHANGED tables_

(* The shell is left and started again: the catalog is not in the file. *)
Restart ==
  /\ result = NoResult
  /\ tables_' = EmptyCatalog
  /\ UNCHANGED <<stmt, result>>

Next ==
  \/ \E s \in Statements : Execute(s)
  \/ \E text \in BadTexts : ParseFails(text)
  \/ PrintResult \/ Restart

Spec == Init /\ [][Next]_vars
-----------------------------------------------------------------------------
(* What a SELECT means: one row is chosen from each of its tables.         *)

TableRefs(s) == <<JoinClause(s.from_table, s.from_alias, NoExpr)>> \o s.joins

RefSchema(ref) == The(Scan(tables_, ref.table_name, ref.alias)).schema

SchemaTo(s, k) == FlattenSeq([i \in 1..k |-> RefSchema(TableRefs(s)[i])])

RowOf(s, choice, k) == tables_[TableRefs(s)[k].table_name].rows[choice[k]]
RowTo(s, choice, k) == FlattenSeq([i \in 1..k |-> RowOf(s, choice, i)])

Width(s) == Len(TableRefs(s))
FullSchema(s) == SchemaTo(s, Width(s))
FullRow(s, choice) == RowTo(s, choice, Width(s))

(* An empty string is equal to nothing. *)
JoinHolds(s, choice, k) ==
  LET on == TableRefs(s)[k].condition
      left == EvalExpr(on.left, RowTo(s, choice, k - 1), SchemaTo(s, k - 1))
      right == EvalExpr(on.right, RowOf(s, choice, k), RefSchema(TableRefs(s)[k]))
  IN left = right /\ left # {MakeVarchar(<< >>)}

Chosen(s) ==
  {choice \in [1..Width(s) -> 1..MaxRows] :
     /\ \A k \in 1..Width(s) : choice[k] <= Len(tables_[TableRefs(s)[k].table_name].rows)
     /\ \A k \in 2..Width(s) : JoinHolds(s, choice, k)
     /\ s.where_clause = NoExpr \/ EvalPred(s.where_clause, FullRow(s, choice), FullSchema(s)) = {TRUE}}

Precedes(items, schema, a, b) ==
  \E k \in DOMAIN items :
    LET V(m, t) == EvalExpr(items[m].expr, t, schema)
    IN /\ \A m \in 1..(k - 1) : V(m, a) = V(m, b)
       /\ \E va \in V(k, a), vb \in V(k, b) :
            IF items[k].ascending THEN LessValue(va, vb) ELSE LessValue(vb, va)

Occurrences(v, seq) == Cardinality({i \in DOMAIN seq : seq[i] = v})

(* rows lists Output of each x in S, as often as there is such an x, each  *)
(* after those whose Key precedes its own.                                 *)
Lists(rows, S, Output(_), Key(_), items, schema) ==
  /\ Len(rows) = Cardinality(S)
  /\ \A x \in S :
       LET before == {y \in S : Precedes(items, schema, Key(y), Key(x))}
           after == {y \in S : Precedes(items, schema, Key(x), Key(y))}
           peers == (S \ before) \ after
           segment == SubSeq(rows, Cardinality(before) + 1, Cardinality(before) + Cardinality(peers))
       IN Occurrences(Output(x), segment) = Cardinality({y \in peers : Output(y) = Output(x)})

PlainAnswer(s, rows) ==
  LET Key(choice) == FullRow(s, choice)
      Output(choice) ==
        IF IsStar(s.select_list) THEN Key(choice)
        ELSE [k \in DOMAIN s.select_list |->
                The(EvalExpr(s.select_list[k].expr, Key(choice), FullSchema(s)))]
  IN Lists(rows, Chosen(s), Output, Key, s.order_by, FullSchema(s))

(* The number an aggregate of a set of rows is, of 32 bits. *)
AggregateMeans(ae, group, s) ==
  LET Arg(choice) == AsInt(The(EvalExpr(ae.left, FullRow(s, choice), FullSchema(s))))
      sum == MapThenSumSet(Arg, group)
      Int32 == (0 - INT_MAX - 1)..INT_MAX
  IN CASE ae.func_name = "COUNT" -> Cardinality(group)
       [] ae.func_name = "SUM" -> CHOOSE n \in Int32 : (n - sum) % 2^IntBits = 0
       [] ae.func_name = "AVG" -> CHOOSE n \in Int32 : n * Cardinality(group) <= sum
                                                      /\ sum < (n + 1) * Cardinality(group)
       [] ae.func_name = "MIN" -> CHOOSE n \in Int32 : \E c \in group : Arg(c) = n
                                                      /\ \A d \in group : n <= Arg(d)
       [] ae.func_name = "MAX" -> CHOOSE n \in Int32 : \E c \in group : Arg(c) = n
                                                      /\ \A d \in group : n >= Arg(d)

GroupValues(s, choice) ==
  [k \in DOMAIN s.group_by |-> The(EvalExpr(s.group_by[k], FullRow(s, choice), FullSchema(s)))]

(* Several group-by columns, and a separator in a string. *)
KeysMayCollide(s) ==
  /\ Len(s.group_by) > 1
  /\ \E choice \in Chosen(s) : \E v \in Range(GroupValues(s, choice)) : Separator \in Range(AsVarchar(v))

GroupedAnswer(s, rows) ==
  LET aggs == SelectSeq(s.select_list, LAMBDA item : item.expr.type = "AGGREGATE")
      Output(g) ==
        g \o [k \in DOMAIN aggs |->
                MakeInt(AggregateMeans(aggs[k].expr, {c \in Chosen(s) : GroupValues(s, c) = g}, s))]
  IN Lists(rows, {GroupValues(s, c) : c \in Chosen(s)}, Output, Output, s.order_by,
           The(BuildAggSchema(s.group_by, aggs, FullSchema(s))))

Answered(kind) == stmt.kind = kind /\ result.status = "rows"

Grouped(s) == ~IsStar(s.select_list) /\ (HasAggregate(s.select_list) \/ s.group_by # << >>)

(* A literal, or the name of one column. *)
Resolves(e, schema) ==
  e.type \in {"INT_LITERAL", "STRING_LITERAL"} \/ ColumnOf(e, schema) # {}

RECURSIVE PredResolves(_, _)
PredResolves(e, schema) ==
  CASE e.type = "UNARY_OP" -> PredResolves(e.left, schema)
    [] e.type = "BINARY_OP" /\ e.op \in {"AND", "OR"} ->
         PredResolves(e.left, schema) /\ PredResolves(e.right, schema)
    [] e.type = "BINARY_OP" /\ e.op \notin {"AND", "OR"} ->
         Resolves(e.left, schema) /\ Resolves(e.right, schema)
    [] OTHER -> FALSE

OnResolves(s, k) ==
  LET on == TableRefs(s)[k].condition
  IN /\ on.type = "BINARY_OP" /\ on.op = "="
     /\ Resolves(on.left, SchemaTo(s, k - 1)) /\ Resolves(on.right, RefSchema(TableRefs(s)[k]))

(* What ORDER BY sees. *)
OrderSchema(s) ==
  IF Grouped(s)
  THEN The(BuildAggSchema(s.group_by, SelectSeq(s.select_list, LAMBDA item : item.expr.type = "AGGREGATE"),
                          FullSchema(s)))
  ELSE FullSchema(s)

Answerable(s) ==
  /\ \A ref \in Range(TableRefs(s)) : TableExists(ref.table_name)
  /\ \A k \in 2..Width(s) : OnResolves(s, k)
  /\ s.where_clause = NoExpr \/ PredResolves(s.where_clause, FullSchema(s))
  /\ \/ IsStar(s.select_list)
     \/ \A item \in Range(s.select_list) :
          \/ Resolves(item.expr, FullSchema(s))
          \/ item.expr.type = "AGGREGATE" /\ (item.expr.left = Star \/ Resolves(item.expr.left, FullSchema(s)))
  /\ \A e \in Range(s.group_by) : ColumnOf(e, FullSchema(s)) # {}
  /\ \A item \in Range(s.order_by) : Resolves(item.expr, OrderSchema(s))
-----------------------------------------------------------------------------
(* Tables hold tuples of their schemas; a string is no longer than its     *)
(* column.                                                                 *)
TypeOK ==
  /\ \A n \in DOMAIN tables_ : \A row \in Range(tables_[n].rows) :
       /\ Len(row) = Len(tables_[n].schema)
       /\ \A i \in DOMAIN row : row[i].type = tables_[n].schema[i].type
            /\ (row[i].type = "VARCHAR" => Len(row[i].str_val) <= tables_[n].schema[i].max_len)
  /\ stmt \in Statements \cup {NoStmt}
  /\ result.status \in {"none", "error", "message", "rows"}

(* "Precedence (low -> high): OR -> AND -> NOT -> comparison -> primary"   *)
(* (parser.cpp:175): a statement written with no more parentheses than     *)
(* that needs is parsed to itself, at the end of the text, before a        *)
(* semicolon and before a token that no clause begins with, and what comes *)
(* after that does not matter.                                             *)
ParsesBack ==
  stmt # NoStmt => \A tail \in Tails : Parse(Text(stmt) \o tail) = {stmt}

(* A SELECT without aggregates returns the rows of the product of its      *)
(* tables that satisfy the join conditions and WHERE, each as often as it  *)
(* occurs there, in the order of ORDER BY, which may name columns that are *)
(* not selected.  Empty strings do not join.  A SELECT, with aggregates or *)
(* without, is answered if each name in it is that of one column where it  *)
(* is evaluated: in ON the left one in the tables before, the right one in *)
(* the table that is joined.                                               *)
SelectIsRight ==
  /\ Answered("SELECT") /\ ~Grouped(stmt) => PlainAnswer(stmt, result.rows)
  /\ stmt.kind = "SELECT" /\ Answerable(stmt) => result.status = "rows"

(* A SELECT with aggregates returns one row per combination of the         *)
(* group-by values, with the aggregates of exactly the rows that have      *)
(* them, SUM modulo 2^32 - unless HashAggregate::MakeKey may take two      *)
(* combinations for one.                                                   *)
GroupsAreRight ==
  Answered("SELECT") /\ Grouped(stmt) /\ ~KeysMayCollide(stmt) => GroupedAnswer(stmt, result.rows)

(* The lines of a plan from the top, each with its depth: a table stands   *)
(* for its SeqScan.  Joins are drawn as one HashJoin of all tables, and a  *)
(* Sort below a Projection is drawn above it.                              *)
RECURSIVE Drawn(_, _), DrawnInputs(_, _)
Drawn(o, depth) ==
  CASE o.op = "SeqScan" -> <<<<depth, o.table>>>>
    [] o.op = "HashJoin" -> <<<<depth, o.op>>>> \o DrawnInputs(o, depth + 1)
    [] o.op = "Projection" /\ o.child.op = "Sort" ->
         <<<<depth, o.child.op>>, <<depth + 1, o.op>>>> \o Drawn(o.child.child, depth + 2)
    [] OTHER -> <<<<depth, o.op>>>> \o Drawn(o.child, depth + 1)
DrawnInputs(o, depth) ==
  IF o.op = "HashJoin" THEN DrawnInputs(o.left, depth) \o Drawn(o.right, depth) ELSE Drawn(o, depth)

(* "Returns a human-readable plan tree for EXPLAIN."                       *)
(* (planner.h:15): EXPLAIN, which does not plan, prints the operators and  *)
(* the tables of the plan the same SELECT would have, each at its depth,   *)
(* but for the two places where Drawn departs from the plan and for GROUP  *)
(* BY under SELECT *, which the plan leaves out.                           *)
ExplainDrawsPlan ==
  Answered("EXPLAIN") /\ ~(IsStar(stmt.select.select_list) /\ stmt.select.group_by # << >>) =>
    \A plan \in Plan(tables_, stmt.select) : result.rows = Drawn(plan, 0)
==============================================================================
