------------------------------ MODULE Executor -------------------------------
(***************************************************************************)
(* Values, schemas and expressions (common/types.h, executor/executor.h)   *)
(* and the serial operators of the executor.                               *)
(*                                                                         *)
(* What may throw is a set: empty if it throws, else its possible results. *)
(* Only Sort has more than one: std::sort leaves the order of equal tuples *)
(* open.  ExecSelect calls Init, Next until it returns false, and Close,   *)
(* so an operator is all the tuples it returns, and a throw anywhere is a  *)
(* throw of the whole statement.                                           *)
(***************************************************************************)
EXTENDS Integers, SequencesExt, Ast

CONSTANT IntBits  \* the width of int32_t

INT_MAX == 2^(IntBits - 1) - 1

(* static_cast<int32_t> *)
ToInt32(v) == ((v + INT_MAX + 1) % 2^IntBits) - INT_MAX - 1

MakeInt(v) == [type |-> "INT", int_val |-> v]
MakeVarchar(s) == [type |-> "VARCHAR", str_val |-> s]

AsInt(v) == IF v.type = "INT" THEN v.int_val ELSE 0
AsVarchar(v) == IF v.type = "VARCHAR" THEN v.str_val ELSE << >>

Decimal[n \in Nat] == IF n < 10 THEN <<48 + n>> ELSE Append(Decimal[n \div 10], 48 + (n % 10))

(* Value::ToString.  No integer is ever negative where it is called for a  *)
(* key: there are no negative literals.                                    *)
AsString(v) == IF v.type = "INT" THEN Decimal[v.int_val] ELSE v.str_val

The(S) == CHOOSE x \in S : TRUE
-----------------------------------------------------------------------------
(* A column is [alias, name, type, max_len]; "alias.name" is its name, or  *)
(* "name" if alias is empty.                                               *)

Column(alias, name, type, max_len) ==
  [alias |-> alias, name |-> name, type |-> type, max_len |-> max_len]

(* The exact name; else an unqualified name among the qualified columns,   *)
(* where it may be ambiguous; else a qualified name without its alias.     *)
GetColumnIdx(schema, alias, name) ==
  LET Named(a) == {i \in DOMAIN schema : schema[i].alias \in a /\ schema[i].name = name}
      qualified == {c.alias : c \in Range(schema)} \ {""}
  IN CASE Named({alias}) # {} -> {Min(Named({alias}))}
       [] alias = "" /\ Named(qualified) # {} ->
            IF Cardinality(Named(qualified)) = 1 THEN Named(qualified) ELSE {}
       [] alias # "" /\ Named({""}) # {} -> {Min(Named({""}))}
       [] OTHER -> {}

EvalExpr(e, t, schema) ==
  CASE e.type = "INT_LITERAL" -> {MakeInt(e.int_val)}
    [] e.type = "STRING_LITERAL" -> {MakeVarchar(e.str_val)}
    [] e.type = "COLUMN_REF" -> {t[i] : i \in GetColumnIdx(schema, e.table_alias, e.col_name)}
    [] OTHER -> {}

LessString(a, b) ==
  \E i \in 1..Len(b) :
    /\ \A j \in 1..(i - 1) : j <= Len(a) /\ a[j] = b[j]
    /\ i <= Len(a) => a[i] < b[i]

(* Two integers are compared as integers, all else as strings; the string  *)
(* of an integer is empty.                                                 *)
LessValue(a, b) ==
  IF a.type = "INT" /\ b.type = "INT" THEN a.int_val < b.int_val
  ELSE LessString(AsVarchar(a), AsVarchar(b))

Comparison(op, a, b) ==
  CASE op = "=" -> ~LessValue(a, b) /\ ~LessValue(b, a)
    [] op = "!=" -> LessValue(a, b) \/ LessValue(b, a)
    [] op = "<" -> LessValue(a, b)
    [] op = ">" -> LessValue(b, a)
    [] op = "<=" -> ~LessValue(b, a)
    [] op = ">=" -> ~LessValue(a, b)

RECURSIVE EvalPred(_, _, _)
EvalPred(e, t, schema) ==
  LET Left == EvalPred(e.left, t, schema)
      Right == EvalPred(e.right, t, schema)
  IN CASE e.type = "UNARY_OP" -> {~b : b \in Left}
       [] e.type = "BINARY_OP" /\ e.op = "AND" -> UNION {IF b THEN Right ELSE {FALSE} : b \in Left}
       [] e.type = "BINARY_OP" /\ e.op = "OR" -> UNION {IF b THEN {TRUE} ELSE Right : b \in Left}
       [] e.type = "BINARY_OP" /\ e.op \notin {"AND", "OR"} ->
            {Comparison(e.op, a, b) : a \in EvalExpr(e.left, t, schema),
                                      b \in EvalExpr(e.right, t, schema)}
       [] OTHER -> {}
-----------------------------------------------------------------------------
(* The operators, with their output schemas. *)

SeqScan(info, alias) ==
  [op |-> "SeqScan", table |-> info.name, rows |-> info.rows,
   schema |-> [i \in DOMAIN info.schema |-> [info.schema[i] EXCEPT !.alias = alias]]]
HashJoin(l, r, left_key, right_key) ==
  [op |-> "HashJoin", left |-> l, right |-> r, left_key |-> left_key, right_key |-> right_key,
   schema |-> l.schema \o r.schema]
Filter(child, predicate) ==
  [op |-> "Filter", child |-> child, predicate |-> predicate, schema |-> child.schema]
Projection(child, exprs, schema) ==
  [op |-> "Projection", child |-> child, exprs |-> exprs, schema |-> schema]
HashAggregate(child, group_by, agg_exprs, schema) ==
  [op |-> "HashAggregate", child |-> child, group_by |-> group_by, agg_exprs |-> agg_exprs,
   schema |-> schema]
Sort(child, order_by) ==
  [op |-> "Sort", child |-> child, order_by |-> order_by, schema |-> child.schema]

(* Whether e can be evaluated for each of the tuples. *)
Evaluates(e, tuples, schema) == \A t \in Range(tuples) : EvalExpr(e, t, schema) # {}

FilterRows(o, tuples) ==
  IF \E t \in Range(tuples) : EvalPred(o.predicate, t, o.schema) = {} THEN {}
  ELSE {SelectSeq(tuples, LAMBDA t : EvalPred(o.predicate, t, o.schema) = {TRUE})}

ProjectionRows(o, tuples) ==
  IF \E e \in Range(o.exprs) : ~Evaluates(e, tuples, o.child.schema) THEN {}
  ELSE {[i \in DOMAIN tuples |->
          [k \in DOMAIN o.exprs |-> The(EvalExpr(o.exprs[k], tuples[i], o.child.schema))]]}

(* An empty current_key_ means that there is no current key. *)
SameKey(l, r) == AsString(l) = AsString(r) /\ AsString(r) # << >>

(* For each right tuple in turn the left tuples of its bucket. *)
JoinRows(o, left, right) ==
  LET Bucket(r) ==
        SelectSeq(left, LAMBDA l : SameKey(The(EvalExpr(o.left_key, l, o.left.schema)),
                                           The(EvalExpr(o.right_key, r, o.right.schema))))
  IN IF ~Evaluates(o.left_key, left, o.left.schema) \/ ~Evaluates(o.right_key, right, o.right.schema)
     THEN {}
     ELSE {FlattenSeq([j \in DOMAIN right |->
             [i \in DOMAIN Bucket(right[j]) |-> Bucket(right[j])[i] \o right[j]]])}
-----------------------------------------------------------------------------
(* HashAggregate. *)

Separator == 124  \* '|'

(* Mistake: no separator between the parts of the key. *)
MakeKey_NoSeparator(vals) == FlattenSeq([k \in DOMAIN vals |-> AsString(vals[k])])

MakeKey(vals) == FlattenSeq([k \in DOMAIN vals |-> Append(AsString(vals[k]), Separator)])

(* The value of an aggregate over the tuples of a group; sums are 64 bits  *)
(* wide, results 32.                                                       *)
AggregateValue(ae, tuples, schema) ==
  LET Arg(t) == AsInt(The(EvalExpr(ae.left, t, schema)))
      sum == FoldLeft(LAMBDA s, t : s + Arg(t), 0, tuples)
      args == {Arg(t) : t \in Range(tuples)}
  IN CASE ae.func_name = "COUNT" -> ToInt32(Len(tuples))
       [] ae.func_name = "SUM" -> ToInt32(sum)
       [] ae.func_name = "AVG" -> ToInt32(sum \div Len(tuples))
       [] ae.func_name = "MIN" -> Min(args)
       [] ae.func_name = "MAX" -> Max(args)

(* One tuple per key, in the order in which the keys were first seen, with *)
(* the group-by values of the first tuple.                                 *)
AggregateRows(o, tuples) ==
  LET schema == o.child.schema
      Values(t) == [k \in DOMAIN o.group_by |-> The(EvalExpr(o.group_by[k], t, schema))]
      Key(t) == MakeKey(Values(t))
      firsts == SelectSeq([i \in DOMAIN tuples |-> i],
                          LAMBDA i : \A j \in 1..(i - 1) : Key(tuples[j]) # Key(tuples[i]))
      Group(t) == SelectSeq(tuples, LAMBDA u : Key(u) = Key(t))
      evaluated == Range(o.group_by)
                     \cup {ae.left : ae \in {a \in Range(o.agg_exprs) : a.func_name # "COUNT"}}
  IN IF \E e \in evaluated : ~Evaluates(e, tuples, schema) THEN {}
     ELSE {[i \in DOMAIN firsts |->
             Values(tuples[firsts[i]]) \o
               [k \in DOMAIN o.agg_exprs |->
                  MakeInt(AggregateValue(o.agg_exprs[k], Group(tuples[firsts[i]]), schema))]]}
-----------------------------------------------------------------------------
(* Sort. *)

(* Mistake: DESC is ignored. *)
ItemLess_Ascending(item, a, b) == LessValue(a, b)

ItemLess(item, a, b) == IF item.ascending THEN LessValue(a, b) ELSE LessValue(b, a)

(* The comparator: the first item in which the tuples differ decides; it   *)
(* throws if an item up to there cannot be evaluated.                      *)
SortLess(o, a, b) ==
  LET Eval(k, t) == EvalExpr(o.order_by[k].expr, t, o.schema)
      decisive == {k \in DOMAIN o.order_by : Eval(k, a) = {} \/ Eval(k, a) # Eval(k, b)}
  IN IF decisive = {} THEN {FALSE}
     ELSE LET k == Min(decisive)
          IN {ItemLess(o.order_by[k], va, vb) : va \in Eval(k, a), vb \in Eval(k, b)}

(* Tuples next to each other in the result have been compared. *)
SortRows(o, tuples) ==
  LET Less(i, j) == SortLess(o, tuples[i], tuples[j])
  IN IF \E i, j \in DOMAIN tuples : i # j /\ Less(i, j) = {} THEN {}
     ELSE {[i \in DOMAIN p |-> tuples[p[i]]] :
             p \in {q \in SetToSeqs(DOMAIN tuples) :
                      \A i, j \in DOMAIN q : i < j => Less(q[j], q[i]) = {FALSE}}}

RECURSIVE Rows(_)
Rows(o) ==
  CASE o.op = "SeqScan" -> {o.rows}
    [] o.op = "HashJoin" -> UNION {JoinRows(o, l, r) : l \in Rows(o.left), r \in Rows(o.right)}
    [] o.op = "Filter" -> UNION {FilterRows(o, c) : c \in Rows(o.child)}
    [] o.op = "Projection" -> UNION {ProjectionRows(o, c) : c \in Rows(o.child)}
    [] o.op = "HashAggregate" -> UNION {AggregateRows(o, c) : c \in Rows(o.child)}
    [] o.op = "Sort" -> UNION {SortRows(o, c) : c \in Rows(o.child)}
==============================================================================
